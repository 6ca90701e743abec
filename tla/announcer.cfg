\* Three goroutine slots, one response interval; any announce may end with
\* the context.Canceled of another request.
SPECIFICATION FairSpec
CONSTANTS
    Slots = {g1, g2, g3}
    MinInterval = 1
    Intervals = {2}
    MinIntervals = {0}
    RetryDelays = {5}
INVARIANTS
    TypeOK
    NeverIdle
    AnnouncesCancellable
    AnnouncesBounded
    CompletedAtMostOnce
    TimerFollowsNeed
PROPERTIES
    CloseCompletes
    AnnouncesUnlessLost
    CompletedAnnounced
