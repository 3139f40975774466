SPECIFICATION AllSpec
CONSTANTS
  Workers = {w1, w2}
  Uploads = {u1}
  Writers = {p1}
  Readers = {r1}
  MaxGen = 2
  MaxWorld = 3
  None = None
SYMMETRY WorkerSymmetry
CONSTRAINT BeforeRace
INVARIANTS  TreesStay JudgesRight
PROPERTIES PublishesCurrent ScratchKept
CHECK_DEADLOCK FALSE
