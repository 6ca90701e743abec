---------------------------- MODULE HttpTracker ----------------------------
(***************************************************************************)
(* HTTPTracker.Announce (internal/tracker/httptracker), as far as it       *)
(* decides whether an announce succeeds: how the exchange ended, then what *)
(* the response is like.  What an answer holds (peers, intervals, the      *)
(* tracker id) is left out.                                                *)
(***************************************************************************)

\* No response: the tracker refused, or the context was cancelled first.
NoResponse(why) == [exchange |-> why]

\* A response: "done", or "cut" in the middle of the body; large, if a length
\* above the limit is declared, which a chunked body does not do.
Responses ==
    [exchange : {"done", "cut"}, large : BOOLEAN, decodes : BOOLEAN,
     failure : BOOLEAN, peers : {"absent", "good", "bad"}]

\* The body is read as far as it comes: an error of io.Copy is not looked at,
\* so that a body cut off shows as one that does not decode, and a length that
\* is not declared is not limited.  The status counts only then.
Error(r) ==
    IF r.exchange \in {"cancelled", "refused"} THEN r.exchange
    ELSE IF r.large THEN "too large"
    ELSE IF ~r.decodes THEN "status or decode"
    ELSE IF r.failure THEN "failure reason"
    ELSE IF r.peers = "bad" THEN "peers"
    ELSE "none"

Succeeds(r) == Error(r) = "none"

\* What a tracker in order sends, and what one out of order may.
Working ==
    {r \in Responses : /\ r.exchange = "done" /\ ~r.large /\ r.decodes
                       /\ ~r.failure /\ r.peers # "bad"}

Broken == Responses \cup {NoResponse("refused")}
=============================================================================
