------------------------------ MODULE Workers ------------------------------
(***************************************************************************)
(* A worker of a torrent and its owner.  Each kind of worker has its Run;  *)
(* all are closed alike.  Which one it is is chosen at the start.          *)
(***************************************************************************)
EXTENDS Acceptor, StopAnnouncer, Allocator

VARIABLE worker     \* "acceptor", "stop" or "allocator"

vars == <<workerVars, acceptorVars, stopVars, allocatorVars, worker>>

\* The variables of the workers that do not run have one value.
Init ==
    /\ worker \in {"acceptor", "stop", "allocator"}
    /\ WorkerInit(CASE worker = "acceptor" -> "accept"
                    [] worker = "stop" -> "collect"
                    [] worker = "allocator" -> "open")
    /\ AcceptorInit /\ StopInit
    /\ IF worker = "allocator"
       THEN AllocatorInit(FileLists, Lengths \cup {0, NoFile})
       ELSE AllocatorInit({CHOOSE fs \in FileLists : TRUE}, {NoFile})

AcceptorRuns(step) ==
    worker = "acceptor" /\ step /\ UNCHANGED <<stopVars, allocatorVars, worker>>
StopRuns(step) ==
    worker = "stop" /\ step /\ UNCHANGED <<acceptorVars, allocatorVars, worker>>
AllocatorRuns(step) ==
    worker = "allocator" /\ step /\ UNCHANGED <<acceptorVars, stopVars, worker>>

OwnerStep ==
    /\ Close \/ CloseReturns
    /\ UNCHANGED <<acceptorVars, stopVars, allocatorVars, worker>>

\* Run has ended: nothing has to happen any more.
Idle == doneC /\ UNCHANGED vars

Next ==
    \/ AcceptorRuns(AcceptorStep) \/ StopRuns(StopStep)
    \/ AllocatorRuns(AllocatorStep)
    \/ OwnerStep \/ Idle

(***************************************************************************)
(* Goroutines that can go on do so, a deadline passes, Accept fails once   *)
(* its listener is closed and Tracker.Announce returns once its context is *)
(* done; nobody has to connect, and the owner need not call Close.         *)
(***************************************************************************)
Fairness ==
    /\ WF_vars(AcceptorRuns(~listening /\ AcceptFails))
    /\ WF_vars(AcceptorRuns(HandAbandoned))
    /\ WF_vars(AcceptorRuns(CloseDone \/ AcceptorEnds))
    /\ WF_vars(AcceptorRuns(Helper))
    /\ \A t \in StopTrackers :
          /\ WF_vars(StopRuns(ctxDone /\ StopAnnounceReturns(t)))
          /\ WF_vars(StopRuns(Collect(t)))
    /\ WF_vars(StopRuns(CollectedAll \/ StopResult))
    /\ WF_vars(StopRuns(Deadline)) /\ WF_vars(StopRuns(StopHelper))
    /\ WF_vars(AllocatorRuns(AllocatorStep))
    /\ WF_vars(OwnerStep /\ CloseReturns)

Spec == Init /\ [][Next]_vars /\ Fairness
-----------------------------------------------------------------------------
\* At no point does a worker leave anything behind that it says it does not:
\* connections, goroutines, open files, wrong sizes.
NothingLeftBehind ==
    /\ WorkerTypeOK
    /\ worker = "acceptor" => AcceptorTypeOK /\ AcceptorLeavesNothing
    /\ worker = "stop" => StopTypeOK /\ StopLeavesNothing
    /\ worker = "allocator" => AllocatorTypeOK /\ AllocatedAsReported

\* Close returns, wherever Run and the helpers are; both helpers end, and the
\* stop announcer gives up its trackers at the deadline also when nobody closes
\* it (acceptor.go:29-65, allocator.go:35-96, stop.go:30-67).
WorkersClose ==
    /\ (owner = "closing") ~> (owner = "closed")
    /\ worker = "acceptor" => (closeC ~> (helper # "waiting"))
    /\ worker = "stop" => <>(pc # "collect" /\ ~ctxHelper)
=============================================================================
