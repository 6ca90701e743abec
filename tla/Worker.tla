------------------------------- MODULE Worker -------------------------------
(***************************************************************************)
(* The protocol the workers of a torrent share (Acceptor, Allocator,       *)
(* StopAnnouncer): the owner runs Run in a goroutine and may call Close    *)
(* once, which closes closeC and waits for doneC, closed by Run last.      *)
(***************************************************************************)

VARIABLES
    pc,        \* where Run is
    closeC, doneC,
    owner      \* "working", "closing" (in Close) or "closed"

workerVars == <<pc, closeC, doneC, owner>>

WorkerTypeOK ==
    /\ closeC \in BOOLEAN /\ doneC \in BOOLEAN
    /\ owner \in {"working", "closing", "closed"}

WorkerInit(start) ==
    /\ pc = start
    /\ closeC = FALSE /\ doneC = FALSE
    /\ owner = "working"

GoTo(label) == pc' = label /\ UNCHANGED <<closeC, doneC, owner>>

\* defer close(doneC)
RunEnds == pc' = "ended" /\ doneC' = TRUE /\ UNCHANGED <<closeC, owner>>

Close ==
    /\ owner = "working"
    /\ owner' = "closing"
    /\ closeC' = TRUE
    /\ UNCHANGED <<pc, doneC>>

CloseReturns ==
    /\ owner = "closing" /\ doneC
    /\ owner' = "closed"
    /\ UNCHANGED <<pc, closeC, doneC>>
=============================================================================
