-------------------------------- MODULE Tier --------------------------------
(***************************************************************************)
(* A tier of HTTP trackers (internal/tracker/tier.go) under the calls of   *)
(* announcers: the periodical one, announces it has replaced and the stop  *)
(* announcer may be in Announce together.  A tier is shuffled when it is   *)
(* made, so that any tracker may work at any place.  Callers announce      *)
(* again and again.                                                        *)
(***************************************************************************)
EXTENDS Integers, HttpTracker

CONSTANTS NumTrackers, Callers,
          MaxCancels   \* bound: announces whose context is cancelled

ASSUME TierAssumption == NumTrackers \in Nat \ {0} /\ MaxCancels \in Nat

Positions == 0 .. NumTrackers - 1

VARIABLES
    works,        \* positions of the trackers that are in order
    index,
    pc,           \* of each call: "idle", "announcing", "swapping" (the
                  \* index, after an error)
    tried,        \* the index the call loaded
    \* history
    served,       \* the last announce to end succeeded
    failed,       \* trackers of which an announce ended with an error
    gaveUp,       \* trackers for which Announce of the tier has returned one
    cancels

vars == <<works, index, pc, tried, served, failed, gaveUp, cancels>>

TypeOK ==
    /\ works \subseteq Positions
    /\ index \in 0 .. NumTrackers
    /\ pc \in [Callers -> {"idle", "announcing", "swapping"}]
    /\ tried \in [Callers -> Positions]
    /\ served \in BOOLEAN
    /\ failed \subseteq Positions /\ gaveUp \subseteq Positions

Init ==
    /\ works \in SUBSET Positions
    /\ index = 0
    /\ pc = [c \in Callers |-> "idle"]
    /\ tried = [c \in Callers |-> 0]
    /\ served = FALSE
    /\ failed = {} /\ gaveUp = {}
    /\ cancels = 0

\* Past the last tracker the first one is taken; the index stays past it.
LoadIndex == IF index >= NumTrackers THEN 0 ELSE index

Announce(c) ==
    /\ pc[c] = "idle"
    /\ pc' = [pc EXCEPT ![c] = "announcing"]
    /\ tried' = [tried EXCEPT ![c] = LoadIndex]
    /\ UNCHANGED <<works, index, served, failed, gaveUp, cancels>>

\* A tracker that works answers in order, another one anyhow.
Replies(t) == IF t \in works THEN Working ELSE Broken

\* The call is over: what it kept is gone.
Return(c) ==
    /\ pc' = [pc EXCEPT ![c] = "idle"]
    /\ tried' = [tried EXCEPT ![c] = 0]

Handle(c, r) ==
    /\ pc[c] = "announcing"
    /\ served' = Succeeds(r)
    /\ IF Succeeds(r)
       THEN Return(c) /\ UNCHANGED failed
       ELSE /\ pc' = [pc EXCEPT ![c] = "swapping"]
            /\ failed' = failed \cup {tried[c]}
            /\ UNCHANGED tried
    /\ UNCHANGED <<works, index, gaveUp>>

Receive(c) ==
    /\ \E r \in Replies(tried[c]) : Handle(c, r)
    /\ UNCHANGED cancels

Cancel(c) ==
    /\ cancels < MaxCancels
    /\ cancels' = cancels + 1
    /\ Handle(c, NoResponse("cancelled"))

\* Mutant: the index is added to, whoever has moved it meanwhile.
Added(c) == IF index < NumTrackers THEN index + 1 ELSE index

\* Mutant: the tracker that failed is tried again.
Unswapped(c) == index

\* Mutant: the index is stored without looking at it.
Overwritten(c) == tried[c] + 1

Swapped(c) == IF index = tried[c] THEN tried[c] + 1 ELSE index

CompareAndSwap(c) ==
    /\ pc[c] = "swapping"
    /\ index' = Swapped(c)
    /\ gaveUp' = gaveUp \cup {tried[c]}
    /\ Return(c)
    /\ UNCHANGED <<works, served, failed, cancels>>

Next ==
    \E c \in Callers :
        Announce(c) \/ Receive(c) \/ Cancel(c) \/ CompareAndSwap(c)

\* An announcer announces again (PeriodicalAnnouncer), and the client's timeout
\* ends every exchange.
Fairness ==
    \A c \in Callers : WF_vars(Announce(c) \/ Receive(c) \/ CompareAndSwap(c))

Spec == Init /\ [][Next]_vars /\ Fairness
-----------------------------------------------------------------------------
\* No tracker is passed over before an announce of it has ended with an error,
\* however many announces are under way when one does (tier.go:27-49).
NoTrackerSkipped ==
    /\ TypeOK
    /\ \A t \in Positions : t < index => t \in failed

\* Once Announce has returned an error, the index has passed the tracker it
\* came from and never falls back to it: a compare-and-swap that is late, since
\* other announces have moved the index meanwhile, neither loses their progress
\* nor leaves its own tracker in place (tier.go:27-35).
FailuresMoveOn == \A t \in gaveUp : t < index

\* "try announce to the working Tracker" (tier.go:9): as long as no announce is
\* cancelled, a tier with a tracker that works announces successfully again
\* and again.  A cancellation is an error like any other and may move the
\* index past the only tracker that works, for ever.
WorkingTrackerReached ==
    (works # {} /\ [](cancels = 0)) => []<>served
=============================================================================
