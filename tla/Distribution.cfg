SPECIFICATION AllSpec
CONSTANTS
  Uploads = {u1}
  Writers = {p1}
  Readers = {r1}
  Names = {"f", "r"}
  Region = "r"
  MaxSnap = 2
  MaxEdits = 1
  MaxGen = 2
  MaxFaults = 1
  MaxSweeps = 1
  None = None
INVARIANTS ObjectsKept TransfersSound
CONSTRAINTS BeforeRace TwoOfThree
CHECK_DEADLOCK FALSE
