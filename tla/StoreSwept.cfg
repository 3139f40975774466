SPECIFICATION Spec
CONSTANTS
  Workers = {w1, w2}
  Uploads = {u1}
  Writers = {p1}
  Readers = {r1}
  MaxGen = 2
  MaxWorld = 2
  None = None
INVARIANT CurrentResolves
CHECK_DEADLOCK FALSE
