---------------------------- MODULE Tier_proofs ----------------------------
(***************************************************************************)
(* Proofs about Tier for any number of trackers and concurrent announces.  *)
(***************************************************************************)
EXTENDS Tier, TLAPS

\* A call that is about to move the index has put its tracker among those that
\* failed.
MoverFailed == \A c \in Callers : pc[c] = "swapping" => tried[c] \in failed

SkippedFailed == \A t \in Positions : t < index => t \in failed

\* The index is never behind the tracker of a call: it is there or past it,
\* also when the call took the first tracker because the index was out of range.
IndexAhead == \A c \in Callers : pc[c] # "idle" => tried[c] <= index

IInv == TypeOK /\ MoverFailed /\ SkippedFailed /\ IndexAhead /\ FailuresMoveOn
-----------------------------------------------------------------------------
\* The trackers of a tier that a call may take.
LEMMA LoadIndexType ==
  ASSUME TypeOK PROVE LoadIndex \in Positions /\ LoadIndex <= index
BY TierAssumption DEF TypeOK, LoadIndex, Positions

LEMMA InitIInv == Init => IInv
<1> SUFFICES ASSUME Init PROVE IInv
  OBVIOUS
<1> USE TierAssumption DEF Init
<1>1. TypeOK
  <2>1. 0 \in Positions /\ 0 \in 0 .. NumTrackers
    BY DEF Positions
  <2>2. served \in BOOLEAN
    BY Zenon
  <2> QED BY <2>1, <2>2 DEF TypeOK
<1>2. MoverFailed /\ SkippedFailed /\ IndexAhead /\ FailuresMoveOn
  BY DEF MoverFailed, SkippedFailed, IndexAhead, FailuresMoveOn, Positions
<1> QED BY <1>1, <1>2 DEF IInv

\* A reply is handled, also the cancellation that stands for none.
LEMMA HandleStep ==
  ASSUME IInv, NEW c \in Callers, NEW r, Handle(c, r)
  PROVE  IInv'
<1> USE DEF IInv, Handle
<1>1. TypeOK'
  <2>1. served' \in BOOLEAN
    BY Zenon DEF Succeeds
  <2>2. 0 \in Positions
    BY TierAssumption DEF Positions
  <2> QED BY <2>1, <2>2 DEF TypeOK, Return
<1>2. MoverFailed'
  BY DEF TypeOK, MoverFailed, Return
<1>3. SkippedFailed' /\ FailuresMoveOn'
  BY DEF SkippedFailed, FailuresMoveOn
<1>4. IndexAhead'
  BY DEF TypeOK, IndexAhead, Return
<1> QED BY <1>1, <1>2, <1>3, <1>4

\* Every step keeps the invariant.
LEMMA NextIInv ==
  ASSUME IInv, [Next]_vars
  PROVE  IInv'
<1>1. ASSUME NEW c \in Callers, Announce(c) PROVE IInv'
  <2> USE <1>1 DEF IInv, Announce
  <2>1. TypeOK'
    BY LoadIndexType DEF TypeOK
  <2>2. MoverFailed' /\ SkippedFailed' /\ FailuresMoveOn'
    BY DEF TypeOK, MoverFailed, SkippedFailed, FailuresMoveOn
  <2>3. IndexAhead'
    BY LoadIndexType DEF TypeOK, IndexAhead
  <2> QED BY <2>1, <2>2, <2>3
<1>2. ASSUME NEW c \in Callers, Receive(c) PROVE IInv'
  BY <1>2, HandleStep DEF Receive
<1>3. ASSUME NEW c \in Callers, Cancel(c) PROVE IInv'
  BY <1>3, HandleStep DEF Cancel
<1>4. ASSUME NEW c \in Callers, CompareAndSwap(c) PROVE IInv'
  <2> USE <1>4 DEF IInv, CompareAndSwap, Swapped, Return
  <2>1. /\ index \in Nat /\ index' \in Nat /\ index <= index'
        /\ tried[c] \in Positions /\ tried[c] \in failed
        /\ tried[c] <= index /\ tried[c] < index'
    <3>1. /\ index \in 0 .. NumTrackers /\ tried[c] \in Positions
          /\ tried[c] <= index /\ tried[c] \in failed
      BY DEF TypeOK, MoverFailed, IndexAhead
    <3>2. index' = IF index = tried[c] THEN tried[c] + 1 ELSE index
      OBVIOUS
    <3>3. index \in Int /\ index >= 0 /\ tried[c] \in Int
      BY <3>1, TierAssumption DEF Positions
    <3> HIDE DEF IInv, CompareAndSwap, Swapped, Return
    <3>4. index' \in Int /\ index' >= index /\ tried[c] < index'
      BY <3>1, <3>2, <3>3
    <3> QED BY <3>1, <3>3, <3>4
  <2>2. TypeOK'
    <3>1. 0 \in Positions /\ index' \in 0 .. NumTrackers
      BY <2>1, TierAssumption DEF TypeOK, Positions
    <3>2. served' \in BOOLEAN
      BY Zenon DEF TypeOK
    <3> QED BY <2>1, <3>1, <3>2 DEF TypeOK
  <2>3. MoverFailed'
    BY DEF TypeOK, MoverFailed
  <2>4. SkippedFailed'
    BY <2>1, TierAssumption DEF SkippedFailed, Positions
  <2>5. IndexAhead'
    <3>1. ASSUME NEW d \in Callers, pc'[d] # "idle" PROVE tried'[d] <= index'
      <4>1. d # c /\ tried'[d] = tried[d] /\ tried[d] <= index
        BY <3>1 DEF TypeOK, IndexAhead
      <4>2. tried[d] \in Nat
        BY TierAssumption DEF TypeOK, Positions
      <4> QED BY <2>1, <4>1, <4>2
    <3> QED BY <3>1 DEF IndexAhead
  <2>6. FailuresMoveOn'
    <3>1. \A t \in gaveUp : t \in Int
      BY TierAssumption DEF TypeOK, Positions
    <3> QED BY <2>1, <3>1 DEF FailuresMoveOn
  <2> QED BY <2>2, <2>3, <2>4, <2>5, <2>6
<1>5. CASE UNCHANGED vars
  BY <1>5 DEF vars, IInv, TypeOK, MoverFailed, SkippedFailed, IndexAhead,
     FailuresMoveOn
<1> QED BY <1>1, <1>2, <1>3, <1>4, <1>5 DEF Next

LEMMA Invariance == Spec => []IInv
BY InitIInv, NextIInv, PTL DEF Spec
-----------------------------------------------------------------------------
\* The index of a tier never passes a tracker that has not failed, however
\* many announces move it and in whatever order (tier.go:27-49).
THEOREM TrackersAreTriedInOrder == Spec => []NoTrackerSkipped
<1>1. IInv => NoTrackerSkipped
  BY DEF IInv, NoTrackerSkipped, SkippedFailed
<1> QED BY <1>1, Invariance, PTL

\* Whatever other announces did to the index in between, an error that Announce
\* has returned leaves the index past its tracker for good (tier.go:27-35).
THEOREM FailedTrackersAreLeft == Spec => []FailuresMoveOn
BY Invariance, PTL DEF IInv
=============================================================================
