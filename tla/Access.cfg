CONSTANTS
    r1 = r1
    r2 = r2
    None = None
    t1 = t1
    t2 = t2
    NoRequest = NoRequest
    Users = {1, 2}
    Requests = {r1, r2}
    Grace = 0
    Ttl = 2
    MaxTokens = 3
    MaxTime = 2
    MaxChanges = 1
    MaxRequests = 4
SPECIFICATION AllSpec
SYMMETRY Symmetry
CHECK_DEADLOCK FALSE
INVARIANTS EndedStaysEnded SessionsMatchCredentials LocksOrdered AdminsKept CallersBounded
PROPERTY AuthorityKept
