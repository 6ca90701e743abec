------------------------------ MODULE Acceptor ------------------------------
(***************************************************************************)
(* The acceptor of a torrent (internal/acceptor/acceptor.go): Run accepts  *)
(* connections and hands them to newConnsC; a helper goroutine closes the  *)
(* listener when the acceptor is closed, which makes Accept fail.          *)
(***************************************************************************)
EXTENDS Worker, Integers

CONSTANT MaxConns      \* bound: connections peers make

ASSUME MaxConnsAssumption == MaxConns \in Nat

VARIABLES
    listening,         \* the listener is open
    backlog,           \* connections the kernel holds for Accept
    accepted, handed, dropped,
    done,              \* Run's own channel is closed
    helper,            \* "waiting", "closed" (the listener) or "left"
    cause              \* why Run ended: "none", "closed" (the listener was),
                       \* "error" (of Accept) or "hand" (it was closed with a
                       \* connection in hand)

acceptorVars ==
    <<listening, backlog, accepted, handed, dropped, done, helper, cause>>

AcceptorTypeOK ==
    /\ pc \in {"accept", "hand", "ending", "ended"}
    /\ listening \in BOOLEAN /\ done \in BOOLEAN
    /\ backlog \in 0 .. MaxConns
    /\ accepted \in 0 .. MaxConns
    /\ handed \in 0 .. MaxConns /\ dropped \in 0 .. MaxConns
    /\ helper \in {"waiting", "closed", "left"}
    /\ cause \in {"none", "closed", "error", "hand"}

AcceptorInit ==
    /\ listening = TRUE
    /\ backlog = 0 /\ accepted = 0 /\ handed = 0 /\ dropped = 0
    /\ done = FALSE /\ helper = "waiting" /\ cause = "none"

\* A peer connects.
PeerConnects ==
    /\ listening
    /\ accepted + backlog < MaxConns
    /\ backlog' = backlog + 1
    /\ UNCHANGED <<workerVars, listening, accepted, handed, dropped, done,
                   helper, cause>>

Accept ==
    /\ pc = "accept"
    /\ backlog > 0
    /\ backlog' = backlog - 1
    /\ accepted' = accepted + 1
    /\ GoTo("hand")
    /\ UNCHANGED <<listening, handed, dropped, done, helper, cause>>

\* Accept fails because the listener is closed, or by itself (no more file
\* descriptors): in both cases Run returns.
AcceptFails ==
    /\ pc = "accept"
    /\ cause' = IF listening THEN "error" ELSE "closed"
    /\ GoTo("ending")
    /\ UNCHANGED <<listening, backlog, accepted, handed, dropped, done,
                   helper>>

\* The owner receives from newConnsC.
HandOver ==
    /\ pc = "hand" /\ owner = "working"
    /\ handed' = handed + 1
    /\ GoTo("accept")
    /\ UNCHANGED <<listening, backlog, accepted, dropped, done, helper,
                   cause>>

\* Mutant: the connection in hand is forgotten.
NoneDropped == dropped

\* conn.Close()
ConnDropped == dropped + 1

\* case <-a.closeC, with a connection in hand
HandAbandoned ==
    /\ pc = "hand" /\ closeC
    /\ dropped' = ConnDropped
    /\ cause' = "hand"
    /\ GoTo("ending")
    /\ UNCHANGED <<listening, backlog, accepted, handed, done, helper>>

\* The deferred calls: close(done), then close(a.doneC).
CloseDone ==
    /\ pc = "ending" /\ ~done
    /\ done' = TRUE
    /\ UNCHANGED <<workerVars, listening, backlog, accepted, handed, dropped,
                   helper, cause>>

AcceptorEnds ==
    /\ pc = "ending" /\ done
    /\ RunEnds
    /\ UNCHANGED acceptorVars

\* Mutant: the helper ends and the listener stays open.
ListenerKept == UNCHANGED <<listening, backlog>>

\* a.listener.Close() resets the connections nobody accepted.
ListenerClosed == listening' = FALSE /\ backlog' = 0

\* The helper's select; with both channels ready either case may be taken.
Helper ==
    /\ helper = "waiting"
    /\ \/ closeC /\ helper' = "closed" /\ ListenerClosed
       \/ done /\ helper' = "left" /\ UNCHANGED <<listening, backlog>>
    /\ UNCHANGED <<workerVars, accepted, handed, dropped, done, cause>>

AcceptorStep ==
    \/ PeerConnects \/ Accept \/ AcceptFails \/ HandOver \/ HandAbandoned
    \/ CloseDone \/ AcceptorEnds \/ Helper

-----------------------------------------------------------------------------
\* An accepted connection is handed to the owner or closed, but for the one in
\* hand; and Close frees the port, with two exceptions: Run was closed with a
\* connection in hand, or Accept had failed, and the helper took the other
\* case (acceptor.go:34-65).
AcceptorLeavesNothing ==
    /\ accepted = handed + dropped + (IF pc = "hand" THEN 1 ELSE 0)
    /\ (pc = "ended" /\ helper # "waiting" /\ cause = "closed")
           => ~listening /\ backlog = 0
=============================================================================
