\* The same calls: two of them with one given id.
SPECIFICATION Spec
CONSTANTS
    a1 = a1
    a2 = a2
    a3 = a3
    i1 = i1
    i2 = i2
    Adders = {a1, a2, a3}
    Given = {a1, a2}
    Ids = {i1, i2}
    TorrentId <- SharedId
    Ports = {p1, p2}
    NoPort = NoPort
    NoTorrent = NoTorrent
INVARIANT OneTorrentPerId
