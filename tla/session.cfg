\* Two calls with one given id and a third with a generated id compete for two
\* ports, while the session may be closed at any moment.
SPECIFICATION FairSpec
CONSTANTS
    a1 = a1
    a2 = a2
    a3 = a3
    i1 = i1
    i2 = i2
    Adders = {a1, a2, a3}
    Given = {a1, a2}
    Ids = {i1, i2}
    TorrentId <- SharedId
    Ports = {p1, p2}
    NoPort = NoPort
    NoTorrent = NoTorrent
INVARIANTS
    TypeOK
    PortsConserved
    RunningHoldsPort
    AddedIsManaged
    FailureLeavesNothing
PROPERTIES
    OnlyInsertPanics
    CallsReturn
