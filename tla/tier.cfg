\* Three trackers, any of them in order, and three calls at a time: a periodical
\* announce, one that it has replaced and the stop announcer.
SPECIFICATION Spec
CONSTANTS
    NumTrackers = 3
    Callers = {c1, c2, c3}
    MaxCancels = 1
INVARIANTS
    NoTrackerSkipped
    FailuresMoveOn
PROPERTY WorkingTrackerReached
