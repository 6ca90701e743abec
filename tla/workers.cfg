\* Two connections, two trackers, torrents of one and two files over every
\* state of the two paths on the disk.
SPECIFICATION Spec
CONSTANTS
    MaxConns = 2
    StopTrackers = {t1, t2}
    Paths = {p1, p2}
    Lengths = {1, 2}
    NoFile = NoFile
    MaxFiles = 2
INVARIANT NothingLeftBehind
PROPERTY WorkersClose
