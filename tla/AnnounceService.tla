-------------------------- MODULE AnnounceService --------------------------
(***************************************************************************)
(* What the UDP tracker transport promises the callers of Do: a request    *)
(* that was taken is answered at most once, with the reply of the tracker  *)
(* to this very request or with an error; the call returns when there is   *)
(* an answer, and it returns without one only when it is released, which   *)
(* is when its context is cancelled or the transport is closed.  Under     *)
(* the fairness of the scheduler, a call that is released returns, unless  *)
(* the process crashes (Returns).                                          *)
(***************************************************************************)
CONSTANT Requests

VARIABLES
    state,     \* of each call: "offered", "taken" or "returned"
    answer,    \* "none", "reply" or "error"
    released,
    crashed

avars == <<state, answer, released, crashed>>

Init ==
    /\ state = [r \in Requests |-> "offered"]
    /\ answer = [r \in Requests |-> "none"]
    /\ released = {}
    /\ crashed = FALSE

Return(r) ==
    /\ state[r] # "returned"
    /\ answer[r] # "none" \/ r \in released
    /\ state' = [state EXCEPT ![r] = "returned"]
    /\ UNCHANGED <<answer, released, crashed>>

\* Taking a request and answering others may be one step: a request is taken
\* and answered at once if its connection is ready or there is no socket.
TakeAndAnswer ==
    /\ \E S \in SUBSET {r \in Requests : state[r] = "offered"} :
          state' = [r \in Requests |-> IF r \in S THEN "taken" ELSE state[r]]
    /\ \E A \in SUBSET {r \in Requests : answer[r] = "none"
                                         /\ state'[r] # "offered"} :
          \E given \in [A -> {"reply", "error"}] :
              answer' = [r \in Requests |-> IF r \in A THEN given[r]
                                            ELSE answer[r]]
    /\ UNCHANGED <<released, crashed>>

Release ==
    /\ \E S \in SUBSET Requests : released' = released \cup S
    /\ UNCHANGED <<state, answer, crashed>>

\* A second answer crashes the process.
Crash == crashed' = TRUE /\ UNCHANGED <<state, released>>

Next ==
    /\ ~crashed
    /\ (\E r \in Requests : Return(r)) \/ TakeAndAnswer \/ Release \/ Crash

Spec == Init /\ [][Next]_avars

Returns(r) == (r \in released) ~> (state[r] = "returned" \/ crashed)
=============================================================================
