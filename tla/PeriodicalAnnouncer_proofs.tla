--------------------- MODULE PeriodicalAnnouncer_proofs ---------------------
(***************************************************************************)
(* Proofs about PeriodicalAnnouncer for any set of intervals and any bound *)
(* above two on the announce goroutines.                                   *)
(***************************************************************************)
EXTENDS PeriodicalAnnouncer, FiniteSetTheorems, TLAPS

\* Before its loop Run has announced nothing; in it, the context of the next
\* announce is the only one not yet cancelled.
ContextFresh ==
    /\ run = "starting" => \A g \in Slots : slot[g] = "free"
    /\ run # "done" => \A c \in cancelled : c < ctx

\* At most one completed event, which is also what replaces the context.
CompletedCounted ==
    /\ run = "starting" => listens /\ ~completeAtStart
    /\ listens => ctx = 1 /\ completedSent = 0
    /\ completedSent \in {0, 1}
    /\ completeAtStart => ~listens /\ completedSent = 0

\* What wakes the loop up in each state of the announcer.
WokenUp ==
    run = "looping" =>
        /\ status # "NotContactedYet"
        /\ status = "Contacting" => lost \/ \E g \in Slots : Live(g)
        /\ status \in {"Working", "NotWorking"} => timer = "armed"

\* TypeOK in the parts that the provers can take one at a time.
LoopType ==
    /\ run \in {"starting", "looping", "done"}
    /\ status \in {"NotContactedYet", "Contacting", "Working", "NotWorking"}
    /\ timer \in {"never", "armed", "consumed"}
    /\ delay \in Delays
    /\ interval \in {0} \cup Intervals
    /\ minInterval \in {MinInterval} \cup MinIntervals
    /\ lastError \in BOOLEAN
    /\ ctx \in Contexts /\ cancelled \subseteq Contexts
    /\ listens \in BOOLEAN

SlotType ==
    /\ slot \in [Slots -> {"free", "calling", "response", "error"}]
    /\ slotCtx \in [Slots -> Contexts]
    /\ peersWaiting \in BOOLEAN

UserType ==
    /\ completed \in BOOLEAN /\ needMorePeers \in BOOLEAN
    /\ needMorePeersC \in BOOLEAN
    /\ asker \in {"idle", "signalling"}
    /\ stats \in {"idle", "waiting", "answered"}
    /\ closed \in BOOLEAN
    /\ completedSent \in Nat /\ completeAtStart \in BOOLEAN /\ lost \in BOOLEAN

LEMMA TypeParts == TypeOK <=> LoopType /\ SlotType /\ UserType
BY Zenon DEF TypeOK, LoopType, SlotType, UserType

LEMMA TypePartsNext == TypeOK' <=> LoopType' /\ SlotType' /\ UserType'
BY Zenon DEF TypeOK, LoopType, SlotType, UserType

IInv ==
    /\ TypeOK /\ ContextFresh /\ CompletedCounted /\ AnnouncesCancellable
    /\ WokenUp /\ TimerFollowsNeed

LEMMA InitIInv == Init => IInv
<1> SUFFICES ASSUME Init PROVE IInv
  OBVIOUS
<1> USE IntervalsAssumption DEF Init
<1>1. 0 \in Delays /\ 1 \in Contexts
  BY DEF Contexts, Delays
<1>2. TypeOK
  BY <1>1 DEF TypeOK
<1>3. ContextFresh /\ CompletedCounted
  BY DEF ContextFresh, CompletedCounted
<1>4. AnnouncesCancellable /\ WokenUp /\ TimerFollowsNeed
  BY DEF AnnouncesCancellable, Busy, WokenUp, TimerFollowsNeed
<1> QED BY <1>2, <1>3, <1>4 DEF IInv

\* The delays getNextInterval chooses from.
LEMMA NextIntervalType ==
  ASSUME TypeOK
  PROVE  NextInterval(interval, minInterval) \in Delays
BY DEF TypeOK, NextInterval, Delays

\* Every step keeps the invariant, one step of the proof per action and below
\* it one per part of the invariant.
LEMMA NextIInv ==
  ASSUME IInv, [Next]_vars
  PROVE  IInv'
<1> USE IntervalsAssumption DEF IInv
<1>1. ASSUME Start PROVE IInv'
  <2> USE <1>1 DEF Start, DoAnnounce, ListenAtStart,
            loopVars, slotVars, userVars, history
  <2>1. TypeOK'
    <3>1. LoopType'
      BY TypeParts DEF LoopType
    <3>2. SlotType'
      BY TypeParts DEF SlotType, LoopType
    <3>3. UserType'
      BY TypeParts DEF UserType
    <3> QED BY <3>1, <3>2, <3>3, TypePartsNext
  <2>2. ContextFresh'
    BY DEF TypeOK, Contexts, ContextFresh
  <2>3. CompletedCounted'
    BY DEF TypeOK, Contexts, CompletedCounted
  <2>4. AnnouncesCancellable'
    BY DEF TypeOK, ContextFresh, AnnouncesCancellable, Busy
  <2>5. WokenUp'
    BY DEF TypeOK, Contexts, ContextFresh, WokenUp, Live, Busy
  <2>6. TimerFollowsNeed'
    BY DEF TypeOK, TimerFollowsNeed
  <2> QED BY <2>1, <2>2, <2>3, <2>4, <2>5, <2>6
<1>2. ASSUME TimerFires PROVE IInv'
  <2> USE <1>2 DEF TimerFires, DoAnnounce,
            loopVars, slotVars, userVars, history
  <2>1. TypeOK'
    <3>1. LoopType'
      BY TypeParts DEF LoopType
    <3>2. SlotType'
      BY TypeParts DEF SlotType, LoopType
    <3>3. UserType'
      BY TypeParts DEF UserType
    <3> QED BY <3>1, <3>2, <3>3, TypePartsNext
  <2>2. ContextFresh'
    BY DEF TypeOK, Contexts, ContextFresh
  <2>3. CompletedCounted'
    BY DEF TypeOK, Contexts, CompletedCounted
  <2>4. AnnouncesCancellable'
    BY DEF TypeOK, ContextFresh, AnnouncesCancellable, Busy
  <2>5. WokenUp'
    BY DEF TypeOK, Contexts, ContextFresh, WokenUp, Live, Busy
  <2>6. TimerFollowsNeed'
    BY DEF TypeOK, TimerFollowsNeed
  <2> QED BY <2>1, <2>2, <2>3, <2>4, <2>5, <2>6
<1>3. ASSUME NEW g \in Slots, HandleResponse(g) PROVE IInv'
  <2> USE <1>3 DEF HandleResponse, ResetTimer, NextInterval,
            loopVars, slotVars, userVars, history
  <2>1. TypeOK'
    <3>1. delay' \in Delays
      BY DEF TypeOK, Delays
    <3> QED BY <3>1 DEF TypeOK
  <2>2. ContextFresh'
    BY DEF TypeOK, Contexts, ContextFresh
  <2>3. CompletedCounted'
    BY DEF TypeOK, Contexts, CompletedCounted
  <2>4. AnnouncesCancellable'
    BY DEF TypeOK, ContextFresh, AnnouncesCancellable, Busy
  <2>5. WokenUp'
    BY DEF TypeOK, Contexts, ContextFresh, WokenUp, Live, Busy
  <2>6. TimerFollowsNeed'
    BY DEF TypeOK, TimerFollowsNeed
  <2> QED BY <2>1, <2>2, <2>3, <2>4, <2>5, <2>6
<1>4. ASSUME NEW g \in Slots, HandleError(g) PROVE IInv'
  <2> USE <1>4 DEF HandleError, RetryAfter, ResetTimer,
            loopVars, slotVars, userVars, history
  <2>1. TypeOK'
    BY DEF TypeOK, Contexts, Delays, CompletedCounted
  <2>2. ContextFresh'
    BY DEF TypeOK, Contexts, ContextFresh
  <2>3. CompletedCounted'
    BY DEF TypeOK, Contexts, CompletedCounted
  <2>4. AnnouncesCancellable'
    BY DEF TypeOK, ContextFresh, AnnouncesCancellable, Busy
  <2>5. WokenUp'
    BY DEF TypeOK, Contexts, ContextFresh, WokenUp, Live, Busy
  <2>6. TimerFollowsNeed'
    BY DEF TypeOK, TimerFollowsNeed
  <2> QED BY <2>1, <2>2, <2>3, <2>4, <2>5, <2>6
<1>5. ASSUME HandleNeedMorePeers PROVE IInv'
  <2> USE <1>5 DEF HandleNeedMorePeers, ResetTimer, NextInterval,
            loopVars, slotVars, userVars, history
  <2>1. TypeOK'
    <3>1. LoopType'
      BY TypeParts, NextIntervalType DEF LoopType
    <3>2. SlotType'
      BY TypeParts DEF SlotType
    <3>3. UserType'
      BY TypeParts DEF UserType
    <3> QED BY <3>1, <3>2, <3>3, TypePartsNext
  <2>2. ContextFresh'
    BY DEF TypeOK, Contexts, ContextFresh
  <2>3. CompletedCounted'
    BY DEF TypeOK, Contexts, CompletedCounted
  <2>4. AnnouncesCancellable'
    BY DEF TypeOK, ContextFresh, AnnouncesCancellable, Busy
  <2>5. WokenUp'
    BY DEF TypeOK, Contexts, ContextFresh, WokenUp, Live, Busy
  <2>6. TimerFollowsNeed'
    BY DEF TypeOK, TimerFollowsNeed
  <2> QED BY <2>1, <2>2, <2>3, <2>4, <2>5, <2>6
<1>6. ASSUME HandleCompleted PROVE IInv'
  <2> USE <1>6 DEF HandleCompleted, ReplaceContext, DoAnnounce, StopListening,
            loopVars, slotVars, userVars, history
  <2>1. TypeOK'
    <3>1. ctx = 1 /\ completedSent = 0
      BY DEF CompletedCounted
    <3>2. ctx' \in Contexts /\ cancelled' \subseteq Contexts
      <4>1. ctx' \in {1, 2} /\ cancelled' \subseteq cancelled \cup {1}
        BY <3>1
      <4>2. cancelled \subseteq 1..2
        BY DEF TypeOK, Contexts
      <4> QED BY <4>1, <4>2 DEF Contexts
    <3>3. LoopType'
      BY <3>2, TypeParts DEF LoopType
    <3>4. SlotType'
      BY <3>2, TypeParts DEF SlotType
    <3>5. UserType'
      <4>1. lost' \in BOOLEAN
        BY Zenon DEF TypeOK
      <4>2. completed' \in BOOLEAN /\ completeAtStart' \in BOOLEAN
        BY Zenon DEF TypeOK
      <4> QED BY <3>1, <4>1, <4>2, TypeParts DEF UserType
    <3> QED BY <3>3, <3>4, <3>5, TypePartsNext
  <2>2. ContextFresh'
    <3>1. ctx = 1
      BY DEF CompletedCounted
    <3>2. run' = "looping"
      OBVIOUS
    <3>3. \A c \in cancelled' : c < ctx'
      <4>1. CASE status = "Contacting"
        <5>1. ctx' = 2 /\ cancelled' = cancelled \cup {1}
          BY <3>1, <4>1
        <5>2. \A c \in cancelled : c < 1
          BY <3>1 DEF ContextFresh
        <5>3. cancelled \subseteq Int
          BY DEF TypeOK, Contexts
        <5> QED BY <5>1, <5>2, <5>3
      <4>2. CASE status # "Contacting"
        BY <3>1, <4>2 DEF TypeOK, Contexts, ContextFresh
      <4> QED BY <4>1, <4>2
    <3> QED BY <3>2, <3>3 DEF ContextFresh
  <2>3. CompletedCounted'
    BY DEF TypeOK, Contexts, CompletedCounted
  <2>4. AnnouncesCancellable'
    BY DEF TypeOK, ContextFresh, AnnouncesCancellable, Busy
  <2>5. WokenUp'
    BY DEF TypeOK, Contexts, ContextFresh, WokenUp, Live, Busy
  <2>6. TimerFollowsNeed'
    BY DEF TypeOK, TimerFollowsNeed
  <2> QED BY <2>1, <2>2, <2>3, <2>4, <2>5, <2>6
<1>7. ASSUME HandleStats PROVE IInv'
  BY <1>7
     DEF HandleStats, loopVars, slotVars, userVars, history,
         TypeOK, ContextFresh, CompletedCounted, AnnouncesCancellable, Busy,
         WokenUp, Live, TimerFollowsNeed
<1>8. ASSUME HandleClose PROVE IInv'
  <2> USE <1>8 DEF HandleClose, CancelCurrent,
            loopVars, slotVars, userVars, history
  <2>1. TypeOK'
    BY DEF TypeOK, Contexts, Delays, CompletedCounted
  <2>2. ContextFresh'
    BY DEF TypeOK, Contexts, ContextFresh
  <2>3. CompletedCounted'
    BY DEF TypeOK, Contexts, CompletedCounted
  <2>4. AnnouncesCancellable'
    BY DEF TypeOK, ContextFresh, AnnouncesCancellable, Busy
  <2>5. WokenUp'
    BY DEF TypeOK, Contexts, ContextFresh, WokenUp, Live, Busy
  <2>6. TimerFollowsNeed'
    BY DEF TypeOK, TimerFollowsNeed
  <2> QED BY <2>1, <2>2, <2>3, <2>4, <2>5, <2>6
<1>9. ASSUME NEW g \in Slots, AnnounceReturns(g) PROVE IInv'
  <2> USE <1>9 DEF AnnounceReturns,
            loopVars, slotVars, userVars, history
  <2>1. TypeOK'
    <3>1. LoopType'
      BY TypeParts DEF LoopType
    <3>2. SlotType'
      BY TypeParts DEF SlotType
    <3>3. UserType'
      BY TypeParts DEF UserType
    <3> QED BY <3>1, <3>2, <3>3, TypePartsNext
  <2>2. ContextFresh'
    BY DEF TypeOK, Contexts, ContextFresh
  <2>3. CompletedCounted'
    BY DEF TypeOK, Contexts, CompletedCounted
  <2>4. AnnouncesCancellable'
    BY DEF TypeOK, ContextFresh, AnnouncesCancellable, Busy
  <2>5. WokenUp'
    BY DEF TypeOK, Contexts, ContextFresh, WokenUp, Live, Busy
  <2>6. TimerFollowsNeed'
    BY DEF TypeOK, TimerFollowsNeed
  <2> QED BY <2>1, <2>2, <2>3, <2>4, <2>5, <2>6
<1>10. ASSUME NEW g \in Slots, AnnounceDropped(g) PROVE IInv'
  <2> USE <1>10 DEF AnnounceDropped,
            loopVars, slotVars, userVars, history
  <2>1. TypeOK'
    BY DEF TypeOK, Contexts, Delays, CompletedCounted
  <2>2. ContextFresh'
    BY DEF TypeOK, Contexts, ContextFresh
  <2>3. CompletedCounted'
    BY DEF TypeOK, Contexts, CompletedCounted
  <2>4. AnnouncesCancellable'
    BY DEF TypeOK, ContextFresh, AnnouncesCancellable, Busy
  <2>5. WokenUp'
    BY DEF TypeOK, Contexts, ContextFresh, WokenUp, Live, Busy
  <2>6. TimerFollowsNeed'
    BY DEF TypeOK, TimerFollowsNeed
  <2> QED BY <2>1, <2>2, <2>3, <2>4, <2>5, <2>6
<1>11. ASSUME PeersTaken PROVE IInv'
  <2> USE <1>11 DEF PeersTaken,
            loopVars, slotVars, userVars, history
  <2>1. TypeOK'
    <3>1. LoopType'
      BY TypeParts DEF LoopType
    <3>2. SlotType'
      BY TypeParts DEF SlotType
    <3>3. UserType'
      BY TypeParts DEF UserType
    <3> QED BY <3>1, <3>2, <3>3, TypePartsNext
  <2>2. ContextFresh'
    BY DEF TypeOK, Contexts, ContextFresh
  <2>3. CompletedCounted'
    BY DEF TypeOK, Contexts, CompletedCounted
  <2>4. AnnouncesCancellable'
    BY DEF TypeOK, ContextFresh, AnnouncesCancellable, Busy
  <2>5. WokenUp'
    BY DEF TypeOK, Contexts, ContextFresh, WokenUp, Live, Busy
  <2>6. TimerFollowsNeed'
    BY DEF TypeOK, TimerFollowsNeed
  <2> QED BY <2>1, <2>2, <2>3, <2>4, <2>5, <2>6
<1>12. ASSUME Complete PROVE IInv'
  BY <1>12
     DEF Complete, loopVars, slotVars, userVars, history,
         TypeOK, ContextFresh, CompletedCounted, AnnouncesCancellable, Busy,
         WokenUp, Live, TimerFollowsNeed
<1>13. ASSUME NEW val \in BOOLEAN, SetNeedMorePeers(val) PROVE IInv'
  <2> USE <1>13 DEF SetNeedMorePeers,
            loopVars, slotVars, userVars, history
  <2>1. TypeOK'
    BY DEF TypeOK, Contexts, Delays, CompletedCounted
  <2>2. ContextFresh'
    BY DEF TypeOK, Contexts, ContextFresh
  <2>3. CompletedCounted'
    BY DEF TypeOK, Contexts, CompletedCounted
  <2>4. AnnouncesCancellable'
    BY DEF TypeOK, ContextFresh, AnnouncesCancellable, Busy
  <2>5. WokenUp'
    BY DEF TypeOK, Contexts, ContextFresh, WokenUp, Live, Busy
  <2>6. TimerFollowsNeed'
    BY DEF TypeOK, TimerFollowsNeed
  <2> QED BY <2>1, <2>2, <2>3, <2>4, <2>5, <2>6
<1>14. ASSUME SignalNeedMorePeers PROVE IInv'
  <2> USE <1>14 DEF SignalNeedMorePeers, SignalSent,
            loopVars, slotVars, userVars, history
  <2>1. TypeOK'
    <3>1. needMorePeersC' \in BOOLEAN
      BY Zenon DEF TypeOK
    <3> QED BY <3>1 DEF TypeOK
  <2>2. ContextFresh'
    BY DEF TypeOK, Contexts, ContextFresh
  <2>3. CompletedCounted'
    BY DEF TypeOK, Contexts, CompletedCounted
  <2>4. AnnouncesCancellable'
    BY DEF TypeOK, ContextFresh, AnnouncesCancellable, Busy
  <2>5. WokenUp'
    BY DEF TypeOK, Contexts, ContextFresh, WokenUp, Live, Busy
  <2>6. TimerFollowsNeed'
    BY DEF TypeOK, TimerFollowsNeed
  <2> QED BY <2>1, <2>2, <2>3, <2>4, <2>5, <2>6
<1>15. ASSUME CallStats PROVE IInv'
  BY <1>15
     DEF CallStats, loopVars, slotVars, userVars, history,
         TypeOK, ContextFresh, CompletedCounted, AnnouncesCancellable, Busy,
         WokenUp, Live, TimerFollowsNeed
<1>16. ASSUME StatsGivesUp PROVE IInv'
  BY <1>16
     DEF StatsGivesUp, StatsReleased, loopVars, slotVars, userVars, history,
         TypeOK, ContextFresh, CompletedCounted, AnnouncesCancellable, Busy,
         WokenUp, Live, TimerFollowsNeed
<1>17. ASSUME Close PROVE IInv'
  BY <1>17
     DEF Close, loopVars, slotVars, userVars, history,
         TypeOK, ContextFresh, CompletedCounted, AnnouncesCancellable, Busy,
         WokenUp, Live, TimerFollowsNeed
<1>18. ASSUME UNCHANGED vars PROVE IInv'
  BY <1>18
     DEF vars, loopVars, slotVars, userVars, history, TypeOK, ContextFresh,
         CompletedCounted, AnnouncesCancellable, Busy, WokenUp, Live,
         TimerFollowsNeed
<1> QED
  BY <1>1, <1>2, <1>3, <1>4, <1>5, <1>6, <1>7, <1>8, <1>9, <1>10, <1>11,
     <1>12, <1>13, <1>14, <1>15, <1>16, <1>17, <1>18 DEF Next, Loop

LEMMA Invariance == Spec => []IInv
BY InitIInv, NextIInv, PTL DEF Spec

\* Every variable of the announcer keeps its type.
THEOREM TypeCorrect == Spec => []TypeOK
BY Invariance, PTL DEF IInv

\* The loop of an announcer always has an announce under way or an armed timer
\* to wake it up, and the one way to lose both is an announce that ends with
\* the context.Canceled of another request (periodic.go:114, announce.go:26).
THEOREM AnnouncerNeverIdle == Spec => []NeverIdle
<1>1. IInv => NeverIdle
  BY DEF IInv, TypeOK, WokenUp, NeverIdle
<1> QED BY <1>1, Invariance, PTL

\* No announce outlives Run uncancelled, and none runs under a lost context
\* (periodic.go:161-172).
THEOREM AnnouncesStayCancellable == Spec => []AnnouncesCancellable
BY Invariance, PTL DEF IInv

\* The completed event is announced at most once, and never for a torrent that
\* was complete when started (periodic.go:106-111).
THEOREM CompletedIsSentOnce == Spec => []CompletedAtMostOnce
<1>1. IInv => CompletedAtMostOnce
  BY DEF IInv, CompletedCounted, CompletedAtMostOnce
<1> QED BY <1>1, Invariance, PTL

\* With no signal pending the timer was set with the interval that the
\* need-more-peers flag asks for (periodic.go:177-209).
THEOREM TimerFollowsTheFlag == Spec => []TimerFollowsNeed
BY Invariance, PTL DEF IInv
-----------------------------------------------------------------------------
(* The number of announces under way                                       *)

BusySlots == {g \in Slots : Busy(g)}

\* While Contacting all the announces that may be under way are; in every
\* other status one of them has ended.
Counted ==
    Cardinality(BusySlots) <=
        (IF completedSent = 0 THEN 1 ELSE 2)
            - (IF status = "Contacting" THEN 0 ELSE 1)

LEMMA BusyFinite == IsFiniteSet(BusySlots) /\ Cardinality(BusySlots) \in Nat
<1>1. BusySlots \subseteq Slots
  BY DEF BusySlots
<1>2. IsFiniteSet(BusySlots)
  BY <1>1, SlotsAssumption, FS_Subset
<1> QED BY <1>2, FS_CardinalityType

\* doAnnounce adds one announce.
LEMMA DoAnnounceCounts ==
  ASSUME TypeOK, NEW c, DoAnnounce(c)
  PROVE  /\ Cardinality(BusySlots') = Cardinality(BusySlots) + 1
         /\ status' = "Contacting"
<1>1. PICK g \in Slots : /\ slot[g] = "free"
                         /\ slot' = [slot EXCEPT ![g] = "calling"]
  BY DEF DoAnnounce
<1>2. g \notin BusySlots
  BY <1>1 DEF BusySlots, Busy
<1>3. BusySlots' = BusySlots \cup {g}
  BY <1>1 DEF TypeOK, BusySlots, Busy
<1> QED BY <1>2, <1>3, BusyFinite, FS_AddElement DEF DoAnnounce

\* An announce that ends is one less.
LEMMA EndCounts ==
  ASSUME TypeOK, NEW g \in Slots, Busy(g), slot' = [slot EXCEPT ![g] = "free"]
  PROVE  Cardinality(BusySlots') = Cardinality(BusySlots) - 1
<1>1. g \in BusySlots
  BY DEF BusySlots
<1>2. BusySlots' = BusySlots \ {g}
  BY DEF TypeOK, BusySlots, Busy
<1> QED BY <1>1, <1>2, BusyFinite, FS_RemoveElement

\* Every step keeps the count, one step of the proof per kind of action.
LEMMA NextCounted ==
  ASSUME IInv, Counted, [Next]_vars
  PROVE  Counted'
<1> USE DEF IInv
<1>1. ASSUME UNCHANGED <<slot, status, completedSent>> PROVE Counted'
  BY <1>1 DEF Counted, BusySlots, Busy
<1>2. CASE Start
  <2>1. BusySlots = {}
    BY <1>2 DEF Start, ContextFresh, BusySlots, Busy
  <2>2. Cardinality(BusySlots) = 0
    BY <2>1, FS_EmptySet
  <2>3. Cardinality(BusySlots') = 1 /\ status' = "Contacting"
    BY <1>2, <2>2, DoAnnounceCounts DEF Start
  <2> QED BY <2>3 DEF Counted
<1>3. CASE TimerFires
  <2>1. CASE status = "Contacting"
    BY <1>1, <1>3, <2>1 DEF TimerFires, history
  <2>2. CASE status # "Contacting"
    <3>1. /\ Cardinality(BusySlots') = Cardinality(BusySlots) + 1
          /\ status' = "Contacting" /\ completedSent' = completedSent
      BY <1>3, <2>2, DoAnnounceCounts DEF TimerFires, history
    <3> QED BY <2>2, <3>1, BusyFinite DEF Counted
  <2> QED BY <2>1, <2>2
<1>4. CASE HandleCompleted
  <2>1. /\ Cardinality(BusySlots') = Cardinality(BusySlots) + 1
        /\ status' = "Contacting"
    BY <1>4, DoAnnounceCounts DEF HandleCompleted
  <2>2. completedSent = 0 /\ completedSent' = 1
    BY <1>4 DEF HandleCompleted, CompletedCounted
  <2> QED BY <2>1, <2>2, BusyFinite DEF Counted
<1>5. ASSUME NEW g \in Slots, HandleResponse(g) \/ HandleError(g)
      PROVE  Counted'
  <2>1. Cardinality(BusySlots') = Cardinality(BusySlots) - 1
    BY <1>5, EndCounts DEF HandleResponse, HandleError, Busy
  <2>2. completedSent' = completedSent
    BY <1>5 DEF HandleResponse, HandleError, history
  <2> QED BY <2>1, <2>2, <1>5, BusyFinite
          DEF Counted, HandleResponse, HandleError
<1>6. ASSUME NEW g \in Slots, AnnounceReturns(g) \/ AnnounceDropped(g)
      PROVE  Counted'
  <2>1. UNCHANGED <<status, completedSent>>
    BY <1>6 DEF AnnounceReturns, AnnounceDropped, loopVars, history
  <2>2. CASE slot' = [slot EXCEPT ![g] = "free"]
    <3>1. Cardinality(BusySlots') = Cardinality(BusySlots) - 1
      BY <1>6, <2>2, EndCounts DEF AnnounceReturns, AnnounceDropped, Busy
    <3> QED BY <2>1, <3>1, BusyFinite DEF Counted
  <2>3. CASE \E end \in {"response", "error"} :
                slot' = [slot EXCEPT ![g] = end]
    <3>1. slot[g] # "free"
      BY <1>6 DEF AnnounceReturns, AnnounceDropped
    <3>2. BusySlots' = BusySlots
      BY <2>3, <3>1 DEF TypeOK, BusySlots, Busy
    <3> QED BY <2>1, <3>2 DEF Counted
  <2> QED BY <1>6, <2>2, <2>3 DEF AnnounceReturns, AnnounceDropped
<1>7. ASSUME \/ HandleNeedMorePeers \/ HandleStats \/ HandleClose
             \/ PeersTaken \/ Complete \/ SignalNeedMorePeers
             \/ \E val \in BOOLEAN : SetNeedMorePeers(val)
             \/ CallStats \/ StatsGivesUp \/ Close \/ UNCHANGED vars
      PROVE  Counted'
  <2>1. UNCHANGED <<slot, status, completedSent>>
    BY <1>7
       DEF HandleNeedMorePeers, HandleStats, HandleClose, PeersTaken, Complete,
           SignalNeedMorePeers, SetNeedMorePeers, CallStats, StatsGivesUp,
           Close, vars, loopVars, slotVars, history
  <2> QED BY <1>1, <2>1
<1> QED BY <1>2, <1>3, <1>4, <1>5, <1>6, <1>7 DEF Next, Loop

\* Announces never pile up: there is one at a time, and a second one only
\* after the completed event (periodic.go:116-120, 161-167).
THEOREM AnnouncesStayBounded == Spec => []AnnouncesBounded
<1>1. Init => Counted
  <2> SUFFICES ASSUME Init PROVE Counted
    OBVIOUS
  <2>1. BusySlots = {}
    BY DEF Init, BusySlots, Busy
  <2> QED BY <2>1, FS_EmptySet DEF Counted, Init
<1>2. Counted => AnnouncesBounded
  <2> SUFFICES ASSUME Counted PROVE AnnouncesBounded
    OBVIOUS
  <2>1. Cardinality(BusySlots) <= IF completedSent = 0 THEN 1 ELSE 2
    BY BusyFinite DEF Counted
  <2>2. BusySlots # Slots
    BY <2>1, SlotsAssumption, BusyFinite
  <2> QED BY <2>1, <2>2 DEF AnnouncesBounded, BusySlots
<1> QED BY <1>1, <1>2, NextCounted, Invariance, PTL DEF Spec
=============================================================================
