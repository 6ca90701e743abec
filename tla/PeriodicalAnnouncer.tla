------------------------ MODULE PeriodicalAnnouncer ------------------------
(***************************************************************************)
(* One PeriodicalAnnouncer (internal/announcer/periodic.go, announce.go):  *)
(* the loop Run with its timer, one goroutine per announce, the torrent    *)
(* that asks for more peers, completes, asks for statistics and closes it. *)
(*                                                                         *)
(* Intervals are abstract numbers and the passing of time is the choice of *)
(* when an armed timer fires.  A goroutine of doAnnounce is a member of    *)
(* Slots; the contexts Run makes are numbered in the order it makes them.  *)
(***************************************************************************)
EXTENDS Integers, FiniteSets

CONSTANTS
    Slots,          \* bound: announce goroutines alive at once
    MinInterval,    \* config.TrackerMinAnnounceInterval
    Intervals,      \* the Interval of a tracker response
    MinIntervals,   \* its MinInterval, 0 when it has none
    RetryDelays     \* RetryIn of a tracker error, and the back-off

Contexts == 1..2

ASSUME IntervalsAssumption ==
    /\ MinInterval \in Int
    /\ Intervals \subseteq Int /\ MinIntervals \subseteq Int
    /\ RetryDelays \subseteq Int
ASSUME SlotsAssumption == IsFiniteSet(Slots) /\ Cardinality(Slots) > 2

VARIABLES
    \* Run
    run,            \* not yet in its loop, in it, or returned (doneC closed)
    status,
    timer,          \* never set, armed, or fired and its tick received
    delay,          \* the interval the timer was last reset with
    interval, minInterval,
    lastError,      \* a.lastError is set
    ctx,            \* the context of the next announce
    cancelled,      \* the contexts cancelled so far
    listens,        \* a.completedC is not nil
    \* announce goroutines
    slot, slotCtx,
    peersWaiting,   \* a goroutine holds peers for newPeersC
    \* the torrent
    completed,      \* completedC is closed
    needMorePeers, needMorePeersC, asker, stats, closed,
    \* history
    completedSent,  \* announces of EventCompleted begun
    completeAtStart,\* completedC was closed before Run looked at it
    lost            \* since the last announce began, one ended with the
                    \* context.Canceled of another request

loopVars == <<run, status, timer, delay, interval, minInterval, lastError,
              ctx, cancelled, listens>>
slotVars == <<slot, slotCtx, peersWaiting>>
userVars == <<completed, needMorePeers, needMorePeersC, asker, stats, closed>>
history  == <<completedSent, completeAtStart, lost>>
vars == <<loopVars, slotVars, userVars, history>>

Delays == {0, MinInterval} \cup Intervals \cup MinIntervals \cup RetryDelays

TypeOK ==
    /\ run \in {"starting", "looping", "done"}
    /\ status \in {"NotContactedYet", "Contacting", "Working", "NotWorking"}
    /\ timer \in {"never", "armed", "consumed"}
    /\ delay \in Delays
    /\ interval \in {0} \cup Intervals
    /\ minInterval \in {MinInterval} \cup MinIntervals
    /\ lastError \in BOOLEAN
    /\ ctx \in Contexts /\ cancelled \subseteq Contexts
    /\ listens \in BOOLEAN
    /\ slot \in [Slots -> {"free", "calling", "response", "error"}]
    /\ slotCtx \in [Slots -> Contexts]
    /\ peersWaiting \in BOOLEAN
    /\ completed \in BOOLEAN /\ needMorePeers \in BOOLEAN
    /\ needMorePeersC \in BOOLEAN
    /\ asker \in {"idle", "signalling"}
    /\ stats \in {"idle", "waiting", "answered"}
    /\ closed \in BOOLEAN
    /\ completedSent \in Nat /\ completeAtStart \in BOOLEAN /\ lost \in BOOLEAN

Init ==
    /\ run = "starting"
    /\ status = "NotContactedYet"
    /\ timer = "never" /\ delay = 0
    /\ interval = 0 /\ minInterval = MinInterval
    /\ lastError = FALSE
    /\ ctx = 1 /\ cancelled = {}
    /\ listens = TRUE
    /\ slot = [g \in Slots |-> "free"]
    /\ slotCtx = [g \in Slots |-> 1]
    /\ peersWaiting = FALSE
    /\ completed = FALSE /\ needMorePeers = FALSE /\ needMorePeersC = FALSE
    /\ asker = "idle" /\ stats = "idle" /\ closed = FALSE
    /\ completedSent = 0 /\ completeAtStart = FALSE /\ lost = FALSE

-----------------------------------------------------------------------------
(* Run                                                                     *)

\* doAnnounce: a goroutine of its own announces under context c.
DoAnnounce(c) ==
    \E g \in Slots :
        /\ slot[g] = "free"
        /\ slot' = [slot EXCEPT ![g] = "calling"]
        /\ slotCtx' = [slotCtx EXCEPT ![g] = c]
        /\ status' = "Contacting"
        /\ lost' = FALSE

ResetTimer(d) == timer' = "armed" /\ delay' = d

\* Mutants: Run does not look at completedC before its first announce; it
\* drops completedC in any case.
ListenAnyway == TRUE
ListenNever == FALSE

\* No completed event is sent if the torrent was complete when started.
ListenAtStart == ~completed

Start ==
    /\ run = "starting"
    /\ run' = "looping"
    /\ listens' = ListenAtStart
    /\ completeAtStart' = completed
    /\ DoAnnounce(ctx)
    /\ UNCHANGED <<timer, delay, interval, minInterval, lastError, ctx,
                   cancelled, peersWaiting, userVars, completedSent>>

\* case <-timer.C: the tick is lost while an announce is under way.
TimerFires ==
    /\ run = "looping"
    /\ timer = "armed"
    /\ timer' = "consumed"
    /\ IF status = "Contacting"
       THEN UNCHANGED <<status, slot, slotCtx, lost>>
       ELSE DoAnnounce(ctx)
    /\ UNCHANGED <<run, delay, interval, minInterval, lastError, ctx,
                   cancelled, listens, peersWaiting, userVars, completedSent,
                   completeAtStart>>

\* getNextInterval
NextInterval(i, m) == IF needMorePeers THEN m ELSE i

\* case resp := <-a.responseC, from goroutine g
HandleResponse(g) ==
    /\ run = "looping"
    /\ slot[g] = "response"
    /\ slot' = [slot EXCEPT ![g] = "free"]
    /\ status' = "Working"
    /\ lastError' = FALSE
    /\ interval' \in Intervals
    /\ minInterval' \in {minInterval} \cup {m \in MinIntervals : m > 0}
    /\ ResetTimer(NextInterval(interval', minInterval'))
    /\ peersWaiting' = TRUE
    /\ UNCHANGED <<run, ctx, cancelled, listens, slotCtx, userVars, history>>

\* Mutant: the error is recorded and the timer left as it is.
RetryForgotten(d) == UNCHANGED <<timer, delay>>

\* The retry after an error, by the tracker's RetryIn or by the back-off.
RetryAfter(d) == ResetTimer(d)

\* case err := <-a.errC, from goroutine g
HandleError(g) ==
    /\ run = "looping"
    /\ slot[g] = "error"
    /\ slot' = [slot EXCEPT ![g] = "free"]
    /\ status' = "NotWorking"
    /\ lastError' = TRUE
    /\ \E d \in RetryDelays : RetryAfter(d)
    /\ UNCHANGED <<run, interval, minInterval, ctx, cancelled, listens,
                   slotCtx, peersWaiting, userVars, history>>

\* case <-a.needMorePeersC
HandleNeedMorePeers ==
    /\ run = "looping"
    /\ needMorePeersC
    /\ needMorePeersC' = FALSE
    /\ IF status \in {"Contacting", "NotWorking"}
       THEN UNCHANGED <<timer, delay>>
       ELSE ResetTimer(NextInterval(interval, minInterval))
    /\ UNCHANGED <<run, status, interval, minInterval, lastError, ctx,
                   cancelled, listens, slotVars, completed, needMorePeers,
                   asker, stats, closed, history>>

\* Mutants: the old context is replaced without being cancelled; the new
\* announce runs under the context just cancelled.
ForgetContext == ctx' = ctx + 1 /\ cancelled' = cancelled
CancelOnly == ctx' = ctx /\ cancelled' = cancelled \cup {ctx}

\* cancel() and a new context
ReplaceContext == ctx' = ctx + 1 /\ cancelled' = cancelled \cup {ctx}

\* Mutant: completedC is kept, and it stays ready for ever.
KeepListening == listens' = TRUE

\* a.completedC = nil
StopListening == listens' = FALSE

\* case <-a.completedC
HandleCompleted ==
    /\ run = "looping"
    /\ listens /\ completed
    /\ IF status = "Contacting"
       THEN ReplaceContext
       ELSE UNCHANGED <<ctx, cancelled>>
    /\ DoAnnounce(ctx')
    /\ completedSent' = completedSent + 1
    /\ StopListening
    /\ UNCHANGED <<run, timer, delay, interval, minInterval, lastError,
                   peersWaiting, userVars, completeAtStart>>

\* case req := <-a.statsCommandC; req.Response is buffered
HandleStats ==
    /\ run = "looping"
    /\ stats = "waiting"
    /\ stats' = "answered"
    /\ UNCHANGED <<loopVars, slotVars, completed, needMorePeers,
                   needMorePeersC, asker, closed, history>>

\* Mutant: Run returns without cancelling the announce under way.
CancelNothing == cancelled

\* cancel()
CancelCurrent == cancelled \cup {ctx}

\* case <-a.closeC
HandleClose ==
    /\ run = "looping"
    /\ closed
    /\ run' = "done"
    /\ cancelled' = CancelCurrent
    /\ UNCHANGED <<status, timer, delay, interval, minInterval, lastError,
                   ctx, listens, slotVars, userVars, history>>
-----------------------------------------------------------------------------
(* The announce goroutines                                                 *)

\* Tracker.Announce returns; announce() drops an error that is
\* context.Canceled without a word to Run.  The UDP transport returns one
\* also when it was another request's context that was cancelled
\* (transport.go:150), so nobody need have cancelled this announce.
AnnounceReturns(g) ==
    /\ slot[g] = "calling"
    /\ \/ /\ \E end \in {"response", "error"} :
                slot' = [slot EXCEPT ![g] = end]
          /\ UNCHANGED lost
       \/ /\ slot' = [slot EXCEPT ![g] = "free"]
          /\ lost' = (lost \/ slotCtx[g] \notin cancelled)
    /\ UNCHANGED <<loopVars, slotCtx, peersWaiting, userVars, completedSent,
                   completeAtStart>>

\* The selects of announce(): the context is done and nobody has to take the
\* result any more.
AnnounceDropped(g) ==
    /\ slot[g] \in {"response", "error"}
    /\ slotCtx[g] \in cancelled
    /\ slot' = [slot EXCEPT ![g] = "free"]
    /\ UNCHANGED <<loopVars, slotCtx, peersWaiting, userVars, history>>

\* The goroutines that hold the peers of a response give them to newPeersC
\* or end on closeC.
PeersTaken ==
    /\ peersWaiting
    /\ peersWaiting' = FALSE
    /\ UNCHANGED <<loopVars, slot, slotCtx, userVars, history>>
-----------------------------------------------------------------------------
(* The torrent                                                             *)

Complete ==
    /\ ~completed
    /\ completed' = TRUE
    /\ UNCHANGED <<loopVars, slotVars, needMorePeers, needMorePeersC, asker,
                   stats, closed, history>>

\* NeedMorePeers(val): the flag under its lock, then a signal.
SetNeedMorePeers(val) ==
    /\ asker = "idle"
    /\ needMorePeers' = val
    /\ asker' = "signalling"
    /\ UNCHANGED <<loopVars, slotVars, completed, needMorePeersC, stats,
                   closed, history>>

\* Mutant: only a change to TRUE is signalled.
SignalOnlyNeed == needMorePeersC \/ needMorePeers

\* needMorePeersC holds one signal; a second one is dropped.
SignalSent == TRUE

SignalNeedMorePeers ==
    /\ asker = "signalling"
    /\ asker' = "idle"
    /\ \/ needMorePeersC' = SignalSent
       \/ run = "done" /\ UNCHANGED needMorePeersC
    /\ UNCHANGED <<loopVars, slotVars, completed, needMorePeers, stats,
                   closed, history>>

\* Mutant: Stats() waits for its answer only.
StatsWaits == FALSE

\* Stats(): both selects also wait for closeC.
CallStats ==
    /\ stats \in {"idle", "answered"}
    /\ stats' = "waiting"
    /\ UNCHANGED <<loopVars, slotVars, completed, needMorePeers,
                   needMorePeersC, asker, closed, history>>

StatsReleased == closed

StatsGivesUp ==
    /\ stats = "waiting"
    /\ StatsReleased
    /\ stats' = "idle"
    /\ UNCHANGED <<loopVars, slotVars, completed, needMorePeers,
                   needMorePeersC, asker, closed, history>>

Close ==
    /\ ~closed
    /\ closed' = TRUE
    /\ UNCHANGED <<loopVars, slotVars, completed, needMorePeers,
                   needMorePeersC, asker, stats, history>>
-----------------------------------------------------------------------------
Loop ==
    \/ Start \/ TimerFires \/ HandleNeedMorePeers \/ HandleCompleted
    \/ HandleStats \/ HandleClose
    \/ \E g \in Slots : HandleResponse(g) \/ HandleError(g)

Next ==
    \/ Loop
    \/ \E g \in Slots : AnnounceReturns(g) \/ AnnounceDropped(g)
    \/ PeersTaken \/ Complete \/ SignalNeedMorePeers
    \/ \E val \in BOOLEAN : SetNeedMorePeers(val)
    \/ CallStats \/ StatsGivesUp \/ Close

Spec == Init /\ [][Next]_vars

(***************************************************************************)
(* Every goroutine that can go on does, an armed timer fires (a signal for *)
(* more peers resets it to an absolute time, so it is not put off for      *)
(* ever), and Tracker.Announce returns once its context is cancelled.      *)
(***************************************************************************)
Fairness ==
    /\ WF_vars(Start) /\ WF_vars(TimerFires) /\ WF_vars(HandleNeedMorePeers)
    /\ WF_vars(HandleCompleted) /\ WF_vars(HandleClose)
    /\ WF_vars(HandleStats) /\ WF_vars(StatsGivesUp)
    /\ \A g \in Slots :
          /\ WF_vars(HandleResponse(g)) /\ WF_vars(HandleError(g))
          /\ WF_vars(slotCtx[g] \in cancelled /\ AnnounceReturns(g))
          /\ WF_vars(AnnounceDropped(g))
    /\ WF_vars(SignalNeedMorePeers) /\ WF_vars(closed /\ PeersTaken)

FairSpec == Spec /\ Fairness

\* The assumption on a tracker that PeriodicallyAnnounces makes: a call of
\* Announce ends even if nobody cancels it.
TrackerAnswers == \A g \in Slots : WF_vars(AnnounceReturns(g))
-----------------------------------------------------------------------------
(* Properties                                                              *)

Busy(g) == slot[g] # "free"
Live(g) == Busy(g) /\ slotCtx[g] \notin cancelled

\* The loop has something to wake it up: while Contacting an announce under a
\* context nobody cancelled, otherwise an armed timer, whatever ticks were lost
\* and whatever late response of a cancelled announce was taken
\* (periodic.go:114-174); unless the announce ended with the context.Canceled
\* of another request, which announce.go:26 keeps to itself.
NeverIdle ==
    run = "looping" =>
        IF status = "Contacting" THEN lost \/ \E g \in Slots : Live(g)
                                 ELSE timer = "armed"

\* Every announce under way can still be cancelled by Run, or has been: the
\* context replaced at completion is never lost with an announce on it
\* (periodic.go:161-172).
AnnouncesCancellable ==
    \A g \in Slots :
        Busy(g) => \/ slotCtx[g] \in cancelled
                   \/ slotCtx[g] = ctx /\ run # "done"

\* One announce is under way at a time, those that are being cancelled
\* included, and only the completed event adds a second one: whatever late
\* answers set the status, a tick or the completed event never piles up
\* goroutines, and a slot is always free for the next announce
\* (periodic.go:116-120, 161-167).
AnnouncesBounded ==
    /\ Cardinality({g \in Slots : Busy(g)})
           <= IF completedSent = 0 THEN 1 ELSE 2
    /\ \E g \in Slots : ~Busy(g)

\* The completed event is announced at most once, and never for a torrent that
\* was complete when started (periodic.go:106-111, 161-167).
CompletedAtMostOnce ==
    completedSent <= IF completeAtStart THEN 0 ELSE 1

\* However calls of NeedMorePeers, their signals and responses interleave, once
\* no signal is pending the timer was set with the interval that the flag asks
\* for (periodic.go:121-160, 177-209).
TimerFollowsNeed ==
    (run = "looping" /\ status = "Working" /\ ~needMorePeersC /\ asker = "idle")
        => delay = IF needMorePeers THEN minInterval ELSE interval

\* Close ends Run and everything it started, and a call of Stats returns, also
\* one that races with Close (periodic.go:82-88, 139-144, 170, 223-240).
CloseCompletes ==
    /\ closed ~> run = "done" /\ ~peersWaiting /\ \A g \in Slots : ~Busy(g)
    /\ (stats = "waiting") ~> (stats # "waiting")

Recurs ==
    /\ []<>(status = "Contacting")
    /\ []<>(status \in {"Working", "NotWorking"})

\* "Announces the torrent to the tracker periodically" (periodic.go:29): with a
\* tracker whose calls end, announces begin and end for ever.  It does not hold.
PeriodicallyAnnounces == TrackerAnswers => <>closed \/ Recurs

\* What does hold: announces begin and end for ever, over all signals,
\* completions and late answers, unless an announce ended with another
\* request's context.Canceled and the loop stays as it was left
\* (periodic.go:114-174, announce.go:26).
AnnouncesUnlessLost ==
    TrackerAnswers =>
        <>closed \/ Recurs \/ <>[](status = "Contacting" /\ lost)

\* A torrent that completes while it is announced is announced as completed.
CompletedAnnounced ==
    (run = "looping" /\ completed /\ ~completeAtStart) ~>
        (completedSent > 0 \/ closed)
=============================================================================
