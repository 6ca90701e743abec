--------------------------- MODULE Session_proofs ---------------------------
(***************************************************************************)
(* Proofs about Session for any set of callers, ids and ports.             *)
(***************************************************************************)
EXTENDS Session, TLAPS

Early == {"idle", "initTorrent", "newTorrent"}
Unwritten == Early \cup {"write", "closeTorrent", "closingTorrent",
                         "releasePort", "failed"}
UniqueId(a) == \A b \in Adders : TorrentId[b] = TorrentId[a] => b = a

\* A call holds a port from getPort until releasePort.
PortHeld == \A a \in Adders : port[a] = NoPort <=> pc[a] \in {"idle", "failed"}

\* Where a call may be, given the state of the loop it started.
LoopPlace ==
    \A a \in Adders :
        /\ pc[a] \in Early => loop[a] = "none"
        /\ pc[a] \in {"releasePort", "failed"} => loop[a] # "running"

\* What the map and the database say of a call.
Recorded ==
    /\ \A a \in Adders, i \in Ids :
          /\ pc[a] \in Unwritten => db[i] # a
          /\ torrents[i] = a => pc[a] \in {"start", "added"} /\ TorrentId[a] = i
    /\ \A i \in Ids : torrents[i] # NoTorrent => db[i] # NoTorrent
    /\ \A a \in Adders :
          pc[a] \in {"insert", "start", "added"} => db[TorrentId[a]] # NoTorrent

\* Which closeC channels may be closed already.
ClosePlace ==
    /\ \A a \in closeC :
          \/ pc[a] \in {"closingTorrent", "releasePort", "failed"}
          \/ pc[a] \in {"start", "added"} /\ closer \in {"closing", "done"}
    /\ isNil <=> closer = "done"

IInv ==
    /\ TypeOK /\ PortsConserved /\ PortHeld /\ LoopPlace
    /\ Recorded /\ ClosePlace /\ AddedIsManaged

USE DEF GoTo

LEMMA InitIInv == Init => IInv
<1> SUFFICES ASSUME Init PROVE IInv
  OBVIOUS
<1> USE IdsAssumption, NullAssumption DEF Init
<1>1. TypeOK
  BY DEF TypeOK
<1>2. PortsConserved /\ PortHeld
  BY DEF PortsConserved, PortHeld
<1>3. LoopPlace
  BY DEF LoopPlace, Early
<1>4. Recorded
  BY DEF Recorded, Unwritten, Early
<1>5. ClosePlace /\ AddedIsManaged
  BY DEF ClosePlace, AddedIsManaged
<1> QED BY <1>1, <1>2, <1>3, <1>4, <1>5 DEF IInv

\* Every step of the session keeps the invariant, one step of the proof per
\* action and below it one per part of the invariant.
LEMMA NextIInv ==
  ASSUME IInv, [Next]_vars
  PROVE  IInv'
<1> USE IdsAssumption, NullAssumption DEF IInv
<1>1. ASSUME NEW a \in Adders, GetPort(a) PROVE IInv'
  <2> USE <1>1 DEF GetPort, TakePort, OutOfPorts
  <2>1. TypeOK'
    BY DEF TypeOK
  <2>2. PortsConserved'
    BY DEF TypeOK, PortsConserved, PortHeld
  <2>3. PortHeld'
    BY DEF TypeOK, PortHeld
  <2>4. LoopPlace'
    BY DEF TypeOK, LoopPlace, Early
  <2>5. Recorded'
    BY DEF TypeOK, Recorded, Early, Unwritten
  <2>6. ClosePlace'
    BY DEF TypeOK, ClosePlace
  <2>7. AddedIsManaged'
    BY DEF TypeOK, AddedIsManaged
  <2> QED BY <2>1, <2>2, <2>3, <2>4, <2>5, <2>6, <2>7
<1>2. ASSUME NEW a \in Adders, InitTorrent(a) PROVE IInv'
  <2> USE <1>2 DEF InitTorrent, Unlocked
  <2>1. TypeOK'
    BY DEF TypeOK
  <2>2. PortsConserved'
    BY DEF TypeOK, PortsConserved, PortHeld
  <2>3. PortHeld'
    BY DEF TypeOK, PortHeld
  <2>4. LoopPlace'
    BY DEF TypeOK, LoopPlace, Early
  <2>5. Recorded'
    BY DEF TypeOK, Recorded, Early, Unwritten
  <2>6. ClosePlace'
    BY DEF TypeOK, ClosePlace
  <2>7. AddedIsManaged'
    BY DEF TypeOK, AddedIsManaged
  <2> QED BY <2>1, <2>2, <2>3, <2>4, <2>5, <2>6, <2>7
<1>3. ASSUME NEW a \in Adders, NewTorrent(a) PROVE IInv'
  <2> USE <1>3 DEF NewTorrent
  <2>1. TypeOK'
    BY DEF TypeOK
  <2>2. PortsConserved'
    BY DEF TypeOK, PortsConserved, PortHeld
  <2>3. PortHeld'
    BY DEF TypeOK, PortHeld
  <2>4. LoopPlace'
    BY DEF TypeOK, LoopPlace, Early
  <2>5. Recorded'
    BY DEF TypeOK, Recorded, Early, Unwritten
  <2>6. ClosePlace'
    BY DEF TypeOK, ClosePlace
  <2>7. AddedIsManaged'
    BY DEF TypeOK, AddedIsManaged
  <2> QED BY <2>1, <2>2, <2>3, <2>4, <2>5, <2>6, <2>7
<1>4. ASSUME NEW a \in Adders, Write(a) PROVE IInv'
  <2> USE <1>4 DEF Write, WriteFailed
  <2>1. TypeOK'
    BY DEF TypeOK
  <2>2. PortsConserved'
    BY DEF TypeOK, PortsConserved, PortHeld
  <2>3. PortHeld'
    BY DEF TypeOK, PortHeld
  <2>4. LoopPlace'
    BY DEF TypeOK, LoopPlace, Early
  <2>5. Recorded'
    BY DEF TypeOK, Recorded, Early, Unwritten
  <2>6. ClosePlace'
    BY DEF TypeOK, ClosePlace
  <2>7. AddedIsManaged'
    BY DEF TypeOK, AddedIsManaged
  <2> QED BY <2>1, <2>2, <2>3, <2>4, <2>5, <2>6, <2>7
<1>5. ASSUME NEW a \in Adders, InsertTorrent(a) PROVE IInv'
  <2> USE <1>5 DEF InsertTorrent, Inserted, Unlocked
  <2>1. TypeOK'
    <3>1. torrents' \in [Ids -> Adders \cup {NoTorrent}]
      BY DEF TypeOK
    <3>2. pc' \in [Adders -> {"idle", "initTorrent", "newTorrent", "write",
                              "insert", "start", "closeTorrent",
                              "closingTorrent", "releasePort", "added",
                              "failed"}]
      BY DEF TypeOK
    <3> QED BY <3>1, <3>2 DEF TypeOK
  <2>2. PortsConserved'
    BY DEF TypeOK, PortsConserved, PortHeld
  <2>3. PortHeld'
    BY DEF TypeOK, PortHeld
  <2>4. LoopPlace'
    BY DEF TypeOK, LoopPlace, Early
  <2>5. Recorded'
    BY DEF TypeOK, Recorded, Early, Unwritten
  <2>6. ClosePlace'
    BY DEF TypeOK, ClosePlace
  <2>7. AddedIsManaged'
    BY DEF TypeOK, AddedIsManaged, Recorded, ClosePlace, Unwritten, Early
  <2> QED BY <2>1, <2>2, <2>3, <2>4, <2>5, <2>6, <2>7
<1>6. ASSUME NEW a \in Adders, StartTorrent(a) PROVE IInv'
  <2> USE <1>6 DEF StartTorrent, StartAbandoned
  <2>1. TypeOK'
    BY DEF TypeOK
  <2>2. PortsConserved'
    BY DEF TypeOK, PortsConserved, PortHeld
  <2>3. PortHeld'
    BY DEF TypeOK, PortHeld
  <2>4. LoopPlace'
    BY DEF TypeOK, LoopPlace, Early
  <2>5. Recorded'
    BY DEF TypeOK, Recorded, Early, Unwritten
  <2>6. ClosePlace'
    BY DEF TypeOK, ClosePlace
  <2>7. AddedIsManaged'
    BY DEF TypeOK, AddedIsManaged, Recorded, ClosePlace, Unwritten, Early
  <2> QED BY <2>1, <2>2, <2>3, <2>4, <2>5, <2>6, <2>7
<1>7. ASSUME NEW a \in Adders, CloseTorrent(a) PROVE IInv'
  <2> USE <1>7 DEF CloseTorrent, CloseChannels
  <2>1. TypeOK'
    BY DEF TypeOK
  <2>2. PortsConserved'
    BY DEF TypeOK, PortsConserved, PortHeld
  <2>3. PortHeld'
    BY DEF TypeOK, PortHeld
  <2>4. LoopPlace'
    BY DEF TypeOK, LoopPlace, Early
  <2>5. Recorded'
    BY DEF TypeOK, Recorded, Early, Unwritten
  <2>6. ClosePlace'
    BY DEF TypeOK, ClosePlace
  <2>7. AddedIsManaged'
    BY DEF TypeOK, AddedIsManaged
  <2> QED BY <2>1, <2>2, <2>3, <2>4, <2>5, <2>6, <2>7
<1>8. ASSUME NEW a \in Adders, TorrentClosed(a) PROVE IInv'
  <2> USE <1>8 DEF TorrentClosed
  <2>1. TypeOK'
    BY DEF TypeOK
  <2>2. PortsConserved'
    BY DEF TypeOK, PortsConserved, PortHeld
  <2>3. PortHeld'
    BY DEF TypeOK, PortHeld
  <2>4. LoopPlace'
    BY DEF TypeOK, LoopPlace, Early
  <2>5. Recorded'
    BY DEF TypeOK, Recorded, Early, Unwritten
  <2>6. ClosePlace'
    BY DEF TypeOK, ClosePlace
  <2>7. AddedIsManaged'
    BY DEF TypeOK, AddedIsManaged
  <2> QED BY <2>1, <2>2, <2>3, <2>4, <2>5, <2>6, <2>7
<1>9. ASSUME NEW a \in Adders, ReleasePort(a) PROVE IInv'
  <2> USE <1>9 DEF ReleasePort
  <2>1. TypeOK'
    BY DEF TypeOK, PortHeld
  <2>2. PortsConserved'
    BY DEF TypeOK, PortsConserved, PortHeld
  <2>3. PortHeld'
    BY DEF TypeOK, PortHeld
  <2>4. LoopPlace'
    BY DEF TypeOK, LoopPlace, Early
  <2>5. Recorded'
    BY DEF TypeOK, Recorded, Early, Unwritten
  <2>6. ClosePlace'
    BY DEF TypeOK, ClosePlace
  <2>7. AddedIsManaged'
    BY DEF TypeOK, AddedIsManaged
  <2> QED BY <2>1, <2>2, <2>3, <2>4, <2>5, <2>6, <2>7
<1>10. ASSUME NEW a \in Adders, LoopEnds(a) PROVE IInv'
  <2> USE <1>10 DEF LoopEnds
  <2>1. TypeOK'
    BY DEF TypeOK
  <2>2. PortsConserved'
    BY DEF TypeOK, PortsConserved, PortHeld
  <2>3. PortHeld'
    BY DEF TypeOK, PortHeld
  <2>4. LoopPlace'
    BY DEF TypeOK, LoopPlace, Early
  <2>5. Recorded'
    BY DEF TypeOK, Recorded, Early, Unwritten
  <2>6. ClosePlace'
    BY DEF TypeOK, ClosePlace
  <2>7. AddedIsManaged'
    BY DEF TypeOK, AddedIsManaged
  <2> QED BY <2>1, <2>2, <2>3, <2>4, <2>5, <2>6, <2>7
<1>11. ASSUME CloseSession PROVE IInv'
  <2> USE <1>11 DEF CloseSession
  <2>1. TypeOK'
    BY DEF TypeOK
  <2>2. PortsConserved'
    BY DEF TypeOK, PortsConserved, PortHeld
  <2>3. PortHeld'
    BY DEF TypeOK, PortHeld
  <2>4. LoopPlace'
    BY DEF TypeOK, LoopPlace, Early
  <2>5. Recorded'
    BY DEF TypeOK, Recorded, Early, Unwritten
  <2>6. ClosePlace'
    BY DEF TypeOK, ClosePlace
  <2>7. AddedIsManaged'
    BY DEF TypeOK, AddedIsManaged
  <2> QED BY <2>1, <2>2, <2>3, <2>4, <2>5, <2>6, <2>7
<1>12. ASSUME CloseTorrents PROVE IInv'
  <2> USE <1>12 DEF CloseTorrents, CloseChannels, InMap
  <2>1. TypeOK'
    BY DEF TypeOK
  <2>2. PortsConserved'
    BY DEF TypeOK, PortsConserved, PortHeld
  <2>3. PortHeld'
    BY DEF TypeOK, PortHeld
  <2>4. LoopPlace'
    BY DEF TypeOK, LoopPlace, Early
  <2>5. Recorded'
    BY DEF TypeOK, Recorded, Early, Unwritten
  <2>6. ClosePlace'
    BY DEF TypeOK, ClosePlace, Recorded
  <2>7. AddedIsManaged'
    BY DEF TypeOK, AddedIsManaged
  <2> QED BY <2>1, <2>2, <2>3, <2>4, <2>5, <2>6, <2>7
<1>13. ASSUME SessionClosed PROVE IInv'
  <2> USE <1>13 DEF SessionClosed, AllClosed, InMap
  <2>1. TypeOK'
    BY DEF TypeOK
  <2>2. PortsConserved'
    BY DEF TypeOK, PortsConserved, PortHeld
  <2>3. PortHeld'
    BY DEF TypeOK, PortHeld
  <2>4. LoopPlace'
    BY DEF TypeOK, LoopPlace, Early
  <2>5. Recorded'
    BY DEF TypeOK, Recorded, Early, Unwritten
  <2>6. ClosePlace'
    BY DEF TypeOK, ClosePlace
  <2>7. AddedIsManaged'
    BY DEF TypeOK, AddedIsManaged, Recorded, ClosePlace, Unwritten, Early
  <2> QED BY <2>1, <2>2, <2>3, <2>4, <2>5, <2>6, <2>7
<1>14. ASSUME UNCHANGED vars PROVE IInv'
  BY <1>14 DEF vars, TypeOK, PortsConserved, PortHeld, LoopPlace, Recorded,
     ClosePlace, AddedIsManaged
<1> QED
  BY <1>1, <1>2, <1>3, <1>4, <1>5, <1>6, <1>7, <1>8, <1>9, <1>10, <1>11,
     <1>12, <1>13, <1>14 DEF Next, AddStep, Terminated

LEMMA Invariance == Spec => []IInv
BY InitIInv, NextIInv, PTL DEF Spec

\* Every variable of the session keeps its type.
THEOREM TypeCorrect == Spec => []TypeOK
BY Invariance, PTL DEF IInv

\* The pool of ports and the ports held by the torrents partition the range of
\* ports, for any number of callers and whatever fails (session.go:181-196).
THEOREM PortsAreConserved == Spec => []PortsConserved
BY Invariance, PTL DEF IInv

\* A torrent whose loop runs holds its port: the port was not released before
\* the loop ended (session_add.go:52-79).
THEOREM RunningTorrentHoldsPort == Spec => []RunningHoldsPort
<1>1. IInv => RunningHoldsPort
  BY DEF IInv, TypeOK, LoopPlace, PortHeld, Early, RunningHoldsPort
<1> QED BY <1>1, Invariance, PTL

\* A torrent with an id of its own that AddTorrent returned is in the map or
\* was closed with the session (session_add.go:133-143, session.go:154-168).
THEOREM AddedTorrentIsManaged == Spec => []AddedIsManaged
BY Invariance, PTL DEF IInv

\* A failed AddTorrent leaves nothing in the map, the database and the pool's
\* debt, and what the map holds the database holds (session_add.go:47-100).
THEOREM FailedAddLeavesNothing == Spec => []FailureLeavesNothing
<1>1. IInv => FailureLeavesNothing
  BY DEF IInv, TypeOK, LoopPlace, PortHeld, Recorded, Unwritten, Early,
         FailureLeavesNothing
<1> QED BY <1>1, Invariance, PTL

\* No torrent's closeC is closed twice: the only panic is an insertion into the
\* map of a closed session (session_add.go:133-143).
THEOREM InsertionIsTheOnlyPanic == Spec => OnlyInsertPanics
<1>1. ASSUME IInv, [Next]_vars, panicked', ~panicked
      PROVE  \E a \in Adders : isNil /\ InsertTorrent(a)
  <2>1. ASSUME NEW a \in Adders, CloseTorrent(a) PROVE FALSE
    BY <1>1, <2>1 DEF CloseTorrent, CloseChannels, IInv, ClosePlace
  <2>2. ASSUME CloseTorrents PROVE FALSE
    <3>1. PICK a \in InMap : a \in closeC
      BY <1>1, <2>2 DEF CloseTorrents, CloseChannels
    <3>2. pc[a] \in {"start", "added"}
      BY <1>1, <3>1 DEF InMap, IInv, TypeOK, Recorded
    <3> QED
      BY <1>1, <2>2, <3>1, <3>2 DEF CloseTorrents, IInv, ClosePlace
  <2>3. ASSUME NEW a \in Adders, InsertTorrent(a), ~isNil PROVE FALSE
    BY <1>1, <2>3 DEF InsertTorrent
  <2>4. ASSUME NEW a \in Adders, AddStep(a), ~InsertTorrent(a) PROVE FALSE
    BY <1>1, <2>1, <2>4
       DEF AddStep, GetPort, InitTorrent, NewTorrent, Write, StartTorrent,
           TorrentClosed, ReleasePort
  <2> QED
    BY <1>1, <2>2, <2>3, <2>4
       DEF Next, Terminated, vars, LoopEnds, CloseSession, SessionClosed
<1>2. IInv /\ [Next]_vars =>
        [(panicked' /\ ~panicked) =>
            \E a \in Adders : isNil /\ InsertTorrent(a)]_vars
  BY <1>1
<1> QED BY <1>2, Invariance, PTL DEF Spec, OnlyInsertPanics
=============================================================================
