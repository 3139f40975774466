CONSTANTS
    w1 = w1
    c1 = c1
    c2 = c2
    f1 = f1
    f2 = f2
    NoWorker = NoWorker
    NoFlow = NoFlow
    Workers = {w1}
    Commands = {c1, c2}
    Snapshots = {c1}
    MaxSessions = 3
    CancelsResolved = FALSE
SPECIFICATION FairAllSpec
CHECK_DEADLOCK FALSE
INVARIANTS NoForgottenCaller LiveUploadTracked
PROPERTIES HoldSpec CallersFreed StopsConverge
