\* Two calls at a time, two ids, two torrents, three transactions and two lives
\* of the process, cut off anywhere.
SPECIFICATION Spec
CONSTANTS
    Ids = {i1, i2}
    Hashes = {h1, h2}
    PortNumbers = {20000}
    Times = {75}
    Second = 10
    Bitfields = {b1}
    Nil = Nil
    Empty = Empty
    Calls = {c1, c2}
    NoCall = NoCall
    NoBucket = NoBucket
    NoTx = NoTx
    NoTorrent = NoTorrent
    MaxTxs = 3
    MaxRuns = 2
INVARIANT RunningIsStored
PROPERTY ImplementsStore
CHECK_DEADLOCK FALSE
