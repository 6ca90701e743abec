--------------------------- MODULE StopAnnouncer ---------------------------
(***************************************************************************)
(* The announce of the stopped event (internal/announcer/stop.go): one     *)
(* goroutine for every tracker, all under one context with a deadline,     *)
(* which Close cancels through a helper goroutine.  Run waits for all of   *)
(* them before it looks at anything else.                                  *)
(***************************************************************************)
EXTENDS Worker

CONSTANT StopTrackers

VARIABLES
    announce,    \* of each tracker: "calling", "answered" or "collected"
    ctxDone,     \* the deadline has passed or cancel was called
    ctxHelper,   \* the helper goroutine is alive
    resulted     \* the owner received from resultC

stopVars == <<announce, ctxDone, ctxHelper, resulted>>

StopTypeOK ==
    /\ pc \in {"collect", "result", "ended"}
    /\ announce \in [StopTrackers -> {"calling", "answered", "collected"}]
    /\ ctxDone \in BOOLEAN /\ ctxHelper \in BOOLEAN /\ resulted \in BOOLEAN

StopInit ==
    /\ announce = [t \in StopTrackers |-> "calling"]
    /\ ctxDone = FALSE /\ ctxHelper = TRUE /\ resulted = FALSE

\* Tracker.Announce returns, by itself or because its context is done; what it
\* returns is not looked at.
StopAnnounceReturns(t) ==
    /\ announce[t] = "calling"
    /\ announce' = [announce EXCEPT ![t] = "answered"]
    /\ UNCHANGED <<workerVars, ctxDone, ctxHelper, resulted>>

\* doneC <- struct{}{} meets <-doneC
Collect(t) ==
    /\ pc = "collect"
    /\ announce[t] = "answered"
    /\ announce' = [announce EXCEPT ![t] = "collected"]
    /\ UNCHANGED <<workerVars, ctxDone, ctxHelper, resulted>>

\* Mutant: Run also stops collecting when it is closed.
CollectedOrClosed ==
    closeC \/ \A t \in StopTrackers : announce[t] = "collected"

AllCollected == \A t \in StopTrackers : announce[t] = "collected"

CollectedAll ==
    /\ pc = "collect"
    /\ AllCollected
    /\ GoTo("result")
    /\ UNCHANGED stopVars

\* The last select.  The owner receives as long as it is not in Close.
StopResult ==
    /\ pc = "result"
    /\ \/ owner = "working" /\ resulted' = TRUE
       \/ closeC /\ UNCHANGED resulted
    /\ RunEnds
    /\ UNCHANGED <<announce, ctxDone, ctxHelper>>

Deadline ==
    /\ ~ctxDone
    /\ ctxDone' = TRUE
    /\ UNCHANGED <<workerVars, announce, ctxHelper, resulted>>

\* case <-a.closeC: cancel()
CancelOnClose == closeC

StopHelper ==
    /\ ctxHelper
    /\ ctxDone \/ CancelOnClose
    /\ ctxHelper' = FALSE
    /\ ctxDone' = TRUE
    /\ UNCHANGED <<workerVars, announce, resulted>>

StopStep ==
    \/ \E t \in StopTrackers : StopAnnounceReturns(t) \/ Collect(t)
    \/ CollectedAll \/ StopResult \/ Deadline \/ StopHelper
-----------------------------------------------------------------------------
\* Run ends after all its announces: none of their goroutines is left, and the
\* owner that got the result can rely on the trackers having been told or
\* given up (stop.go:47-66).
StopLeavesNothing == pc \in {"result", "ended"} =>
    \A t \in StopTrackers : announce[t] = "collected"
=============================================================================
