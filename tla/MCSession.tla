----------------------------- MODULE MCSession -----------------------------
EXTENDS Session, TLC

CONSTANTS a1, a2, a3, i1, i2

\* Two calls with the same given id and one with a generated id.
SharedId == (a1 :> i1) @@ (a2 :> i1) @@ (a3 :> i2)
=============================================================================
