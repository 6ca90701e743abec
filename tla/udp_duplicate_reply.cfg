\* A tracker whose reply arrives twice (it answers a retransmission, too).
SPECIFICATION Spec
CONSTANTS
    r1 = r1
    r2 = r2
    r3 = r3
    d1 = d1
    Dests = {d1}
    Dest <- OneTracker
    NoConn = NoConn
    NoTrx = NoTrx
    NoId = NoId
    Requests = {r1, r2}
    TrxIds = {i1, i2, i3}
    Duplicates = TRUE
INVARIANT NoPanic
