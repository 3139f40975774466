CONSTANTS
    p1 = p1
    p2 = p2
    d1 = d1
    d2 = d2
    d3 = d3
    NoDialback = NoDialback
    Players = {p1, p2}
    Dialbacks = {d1, d2, d3}
SPECIFICATION FairAllSpec
CHECK_DEADLOCK FALSE
INVARIANTS SendsSucceed DrainsEnd NoLeakedConn
PROPERTIES PlayersLeave  FiresOnce
