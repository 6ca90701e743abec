\* Three calls of Do to one tracker, two transaction ids (so ids collide),
\* no reply arrives twice.
SPECIFICATION Spec
CONSTANTS
    r1 = r1
    r2 = r2
    r3 = r3
    d1 = d1
    Dests = {d1}
    Dest <- OneTracker
    NoConn = NoConn
    NoTrx = NoTrx
    NoId = NoId
    Requests = {r1, r2, r3}
    TrxIds = {i1, i2}
    Duplicates = FALSE
SYMMETRY AllSymmetric
INVARIANTS
    TypeOK
    ExpiryOwnsConnection
    ConnectingIsDialled
    RequestHasOneHome
    NoOrphanSender
    NoCrossTalk
PROPERTY OnlyDatagramsPanic
