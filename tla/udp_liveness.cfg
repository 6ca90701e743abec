\* Two calls of Do to one tracker, under the fairness of the Go scheduler.
SPECIFICATION FairSpec
CONSTANTS
    r1 = r1
    r2 = r2
    r3 = r3
    d1 = d1
    Dests = {d1}
    Dest <- OneTracker
    NoConn = NoConn
    NoTrx = NoTrx
    NoId = NoId
    Requests = {r1, r2}
    TrxIds = {i1, i2}
    Duplicates = FALSE
PROPERTIES
    CloseCompletes
    ImplementsService
    WaitersReleased
