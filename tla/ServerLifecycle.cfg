CONSTANTS
    w1 = w1
    w2 = w2
    f1 = f1
    f2 = f2
    NoWorker = NoWorker
    NoFlow = NoFlow
    Workers = {w1, w2}
    Flows = {f1, f2}
    MaxRequests = 2
    MaxFaults = 2
    MaxLane = 2
    MaxUplink = 4
    Races = {}
    None = None
SPECIFICATION AllSpec
SYMMETRY Symmetry
ACTION_CONSTRAINT BackupBounds
CHECK_DEADLOCK FALSE
INVARIANTS  HeldWhileUploading 
PROPERTIES LoopsInTime BackupsKept
