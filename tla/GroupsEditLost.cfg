SPECIFICATION Spec
CONSTANTS
  Requests = {r1, r2}
  NoOne = NoOne
  NoGroup = NoGroup
  Groups = {g1}
  Players = {p1, p2}
INVARIANT EditsKept
CHECK_DEADLOCK FALSE
