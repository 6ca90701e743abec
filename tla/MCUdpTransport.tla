--------------------------- MODULE MCUdpTransport ---------------------------
EXTENDS UdpTransport, TLC

CONSTANTS r1, r2, r3, d1

\* Every request goes to the same tracker.
OneTracker == [r \in Requests |-> d1]
AllSymmetric == Permutations(Requests) \cup Permutations(TrxIds)
=============================================================================
