CONSTANTS
    w1 = w1
    s1 = s1
    s2 = s2
    NoWorker = NoWorker
    Workers = {w1}
    Servers = {s1, s2}
    Capacity <- CapacityMC
    MaxSessions = 2
    MaxSeq = 4
    SupersededRebuilds = FALSE
    OvertakenDecrements = FALSE
    None = None
    r1 = r1
    r2 = r2
SPECIFICATION AllSpec
SYMMETRY Symmetry
CHECK_DEADLOCK FALSE
INVARIANTS NoLeakedReservation LoadMatchesRows SessionLogAgrees ViewersConverge
PROPERTY RecordsHold
