------------------------- MODULE UdpTransport_proofs -------------------------
(***************************************************************************)
(* Proofs about UdpTransport for any number of requests, trackers and      *)
(* transaction ids.                                                        *)
(***************************************************************************)
EXTENDS UdpTransport, TLAPS

TrxMap == [TrxIds -> Trxs \cup {NoTrx}]

\* Nothing exists yet of a request the loop has not taken.
Untouched ==
    \A r \in Requests : doPc[r] = "offering" =>
        /\ done[r] = Open /\ connDone[r] = Open
        /\ phase[r] = "none" /\ connector[r] = "none"
        /\ r \notin expiring
        /\ waiting[r] = {} /\ \A c \in Requests : r \notin waiting[c]
        /\ trxId[Connect(r)] = NoId /\ trxId[Announce(r)] = NoId

\* A connection is in the map under its own destination, a transaction under
\* its own id.
MapsOwn ==
    /\ \A d \in Dests : connections[d] # NoConn => Dest[connections[d]] = d
    /\ \A i \in TrxIds :
          transactions[i] # NoTrx => trxId[transactions[i]] = i

\* An announce that has an id is in the map, and a connect that is being
\* dialled is there, too.
AnnouncesRegistered ==
    \A r \in Requests :
        trxId[Announce(r)] # NoId => Registered(Announce(r))

SendersHaveIds == \A t \in senders : trxId[t] # NoId

\* What a connector can rely on.
DiallingOwns ==
    \A c \in Requests : Dialling(c) =>
        /\ trxId[Connect(c)] # NoId
        /\ running => /\ Mapped(c) /\ phase[c] = "connecting"
                      /\ Registered(Connect(c))
        /\ ~running => CtxDone(Connect(c))

\* A connect transaction that a datagram answered is cancelled, one that
\* collided has no id, and a connector that reports has no sender left.
ConnectStopped ==
    \A c \in Requests :
        /\ connDone[c] \in {Open, Failed("collision")} \/ Connect(c) \in stopped
        /\ connDone[c] = Failed("collision") => trxId[Connect(c)] = NoId
        /\ connector[c] = "resolving" => Connect(c) \notin senders
        /\ connector[c] = "reporting" /\ Connect(c) \in senders =>
              CtxDone(Connect(c))

\* A request on the waiting list of a connection in the map is nowhere else.
WaitingIsFresh ==
    running =>
        \A c, r \in Requests : Mapped(c) /\ r \in waiting[c] =>
            /\ phase[c] = "connecting" /\ Dest[r] = Dest[c]
            /\ done[r] = Open /\ trxId[Announce(r)] = NoId

\* A datagram in flight answers a transaction with its kind of answer.
FlightOwned ==
    \A m \in inFlight :
        /\ m.trx \in senders
        /\ m.action = "announce" => m.trx.kind = "announce"

IInv ==
    /\ TypeOK /\ Untouched /\ MapsOwn /\ AnnouncesRegistered /\ SendersHaveIds
    /\ DiallingOwns /\ ConnectStopped /\ WaitingIsFresh /\ FlightOwned
    /\ ConnectingIsDialled /\ ExpiryOwnsConnection /\ RequestHasOneHome
    /\ NoOrphanSender /\ NoCrossTalk
-----------------------------------------------------------------------------
(* Data                                                                    *)

Kinds == {"none", "connect", "announce", "error", "listen",
          "collision", "resolve", "cancelled", "closing"}
Results == [kind : Kinds, from : Trxs \cup {NoTrx}]

\* TypeOK in parts that the provers can take one at a time.
CallType ==
    /\ doPc \in [Requests -> {"offering", "waiting", "returned"}]
    /\ cancelled \subseteq Requests
    /\ done \in [Requests -> Results]
ConnType ==
    /\ connections \in [Dests -> Requests \cup {NoConn}]
    /\ phase \in [Requests -> {"none", "connecting", "connected"}]
    /\ waiting \in [Requests -> SUBSET Requests]
    /\ connDone \in [Requests -> Results]
    /\ expiring \subseteq Requests
TrxType ==
    /\ transactions \in TrxMap
    /\ trxId \in [Trxs -> TrxIds \cup {NoId}]
    /\ stopped \subseteq Trxs
    /\ senders \subseteq Trxs
DialType ==
    /\ connector \in
         [Requests -> {"none", "resolving", "awaiting", "reporting", "ended"}]
    /\ connectErr \in [Requests -> {"none", "resolve", "cancelled", "error"}]
NetType == inFlight \subseteq Messages /\ answered \subseteq Trxs
LoopType ==
    /\ listening \in BOOLEAN /\ closed \in BOOLEAN
    /\ running \in BOOLEAN /\ panicked \in BOOLEAN

LEMMA TypeParts ==
  TypeOK <=> CallType /\ ConnType /\ TrxType /\ DialType /\ NetType /\ LoopType
BY Zenon DEF TypeOK, CallType, ConnType, TrxType, DialType, NetType, LoopType,
             Kinds, Results, TrxMap

LEMMA TypePartsNext ==
  TypeOK' <=> /\ CallType' /\ ConnType' /\ TrxType' /\ DialType'
              /\ NetType' /\ LoopType'
BY Zenon DEF TypeOK, CallType, ConnType, TrxType, DialType, NetType, LoopType,
             Kinds, Results, TrxMap

\* Transactions as what the rest needs to know of them.
LEMMA TrxFacts ==
  /\ \A r \in Requests :
        /\ Connect(r) \in Trxs /\ Announce(r) \in Trxs
        /\ Connect(r).kind = "connect" /\ Announce(r).kind = "announce"
        /\ Connect(r).req = r /\ Announce(r).req = r
        /\ Connect(r) # NoTrx /\ Announce(r) # NoTrx
  /\ \A t \in Trxs :
        /\ t.req \in Requests /\ t.kind \in {"connect", "announce"}
        /\ t.kind = "connect" => t = Connect(t.req)
        /\ t.kind = "announce" => t = Announce(t.req)
BY NullAssumption DEF Trxs, Connect, Announce

LEMMA ResultFacts ==
  /\ Open \in Results
  /\ \A e \in Kinds : Failed(e) \in Results
  /\ \A e \in Kinds : Failed(e).kind = e /\ Failed(e).from = NoTrx
  /\ \A e \in Kinds \ {"none"} : Failed(e) # Open
  /\ Open.kind = "none"
BY DEF Open, Failed, Results, Kinds
-----------------------------------------------------------------------------
(* Steps of the callers and of the goroutines around the loop               *)

LEMMA DoReturnStep ==
  ASSUME IInv, NEW r \in Requests, DoReturn(r) PROVE IInv'
<1> USE DEF IInv, DoReturn, connVars, trxVars, dialVars, netVars, loopVars
<1>1. TypeOK'
  <2>1. CallType'
    BY TypeParts DEF CallType
  <2>2. ConnType' /\ TrxType' /\ DialType' /\ NetType'
    BY TypeParts DEF ConnType, TrxType, DialType, NetType
  <2>3. LoopType'
    BY TypeParts DEF LoopType
  <2> QED BY <2>1, <2>2, <2>3, TypePartsNext
<1>2. Untouched'
  BY DEF TypeOK, Untouched
<1>3. MapsOwn' /\ AnnouncesRegistered' /\ SendersHaveIds'
  BY DEF MapsOwn, AnnouncesRegistered, SendersHaveIds, Registered
<1>4. DiallingOwns' /\ ConnectStopped'
  BY DEF DiallingOwns, ConnectStopped, Dialling, Mapped, Registered, CtxDone
<1>5. WaitingIsFresh' /\ FlightOwned'
  BY DEF WaitingIsFresh, FlightOwned, Mapped
<1>6. ConnectingIsDialled' /\ ExpiryOwnsConnection'
  BY DEF ConnectingIsDialled, ExpiryOwnsConnection, Dialling, Mapped
<1>7. RequestHasOneHome'
  BY DEF TypeOK, RequestHasOneHome, Mapped, Registered
<1>8. NoOrphanSender' /\ NoCrossTalk'
  BY DEF NoOrphanSender, NoCrossTalk, CtxDone, Registered
<1> QED BY <1>1, <1>2, <1>3, <1>4, <1>5, <1>6, <1>7, <1>8

LEMMA CancelRequestStep ==
  ASSUME IInv, NEW r \in Requests, CancelRequest(r) PROVE IInv'
<1> USE DEF IInv, CancelRequest, connVars, trxVars, dialVars, netVars, loopVars
<1>1. TypeOK'
  <2>1. CallType'
    BY TypeParts DEF CallType
  <2>2. ConnType' /\ TrxType' /\ DialType' /\ NetType'
    BY TypeParts DEF ConnType, TrxType, DialType, NetType
  <2>3. LoopType'
    BY TypeParts DEF LoopType
  <2> QED BY <2>1, <2>2, <2>3, TypePartsNext
<1>2. Untouched'
  BY DEF Untouched
<1>3. MapsOwn' /\ AnnouncesRegistered' /\ SendersHaveIds'
  BY DEF MapsOwn, AnnouncesRegistered, SendersHaveIds, Registered
<1>4. DiallingOwns' /\ ConnectStopped'
  BY DEF DiallingOwns, ConnectStopped, Dialling, Mapped, Registered, CtxDone
<1>5. WaitingIsFresh' /\ FlightOwned'
  BY DEF WaitingIsFresh, FlightOwned, Mapped
<1>6. ConnectingIsDialled' /\ ExpiryOwnsConnection'
  BY DEF ConnectingIsDialled, ExpiryOwnsConnection, Dialling, Mapped
<1>7. RequestHasOneHome'
  BY DEF RequestHasOneHome, Mapped, Registered
<1>8. NoOrphanSender' /\ NoCrossTalk'
  BY DEF NoOrphanSender, NoCrossTalk, CtxDone, Registered
<1> QED BY <1>1, <1>2, <1>3, <1>4, <1>5, <1>6, <1>7, <1>8

LEMMA CloseStep ==
  ASSUME IInv, Close PROVE IInv'
<1> USE DEF IInv, Close, callVars, connVars, trxVars, dialVars, netVars
<1>1. TypeOK'
  <2>1. CallType' /\ ConnType' /\ TrxType' /\ DialType' /\ NetType'
    BY TypeParts DEF CallType, ConnType, TrxType, DialType, NetType
  <2>2. LoopType'
    BY TypeParts DEF LoopType
  <2> QED BY <2>1, <2>2, TypePartsNext
<1>2. Untouched'
  BY DEF Untouched
<1>3. MapsOwn' /\ AnnouncesRegistered' /\ SendersHaveIds'
  BY DEF MapsOwn, AnnouncesRegistered, SendersHaveIds, Registered
<1>4. DiallingOwns' /\ ConnectStopped'
  BY DEF DiallingOwns, ConnectStopped, Dialling, Mapped, Registered, CtxDone
<1>5. WaitingIsFresh' /\ FlightOwned'
  BY DEF WaitingIsFresh, FlightOwned, Mapped
<1>6. ConnectingIsDialled' /\ ExpiryOwnsConnection'
  BY DEF ConnectingIsDialled, ExpiryOwnsConnection, Dialling, Mapped
<1>7. RequestHasOneHome'
  BY DEF RequestHasOneHome, Mapped, Registered
<1>8. NoOrphanSender' /\ NoCrossTalk'
  BY DEF NoOrphanSender, NoCrossTalk, CtxDone, Registered
<1> QED BY <1>1, <1>2, <1>3, <1>4, <1>5, <1>6, <1>7, <1>8

\* A step of a connector: what it has in common with the others is that it
\* changes the connector, its error and the senders only.
LEMMA ConnectorFrame ==
  ASSUME IInv, NEW c \in Requests,
         connector[c] \in {"resolving", "awaiting", "reporting"},
         DialType', TrxType',
         connector' = [connector EXCEPT ![c] = connector'[c]],
         connector'[c] \in {"awaiting", "reporting"} \/ closed,
         connector'[c] \in {"awaiting", "reporting", "ended"},
         senders' \in {senders, senders \cup {Connect(c)}},
         senders' # senders => connector'[c] = "awaiting",
         connector'[c] = "reporting" /\ Connect(c) \in senders' =>
            CtxDone(Connect(c)),
         UNCHANGED <<callVars, done, connVars, transactions, trxId, stopped,
                     netVars, loopVars, panicked>>
  PROVE  IInv'
<1> USE DEF IInv, callVars, connVars, netVars, loopVars
<1>1. TypeOK'
  <2>1. CallType' /\ ConnType' /\ NetType'
    BY TypeParts DEF CallType, ConnType, NetType
  <2>2. LoopType'
    BY TypeParts DEF LoopType
  <2> QED BY <2>1, <2>2, TypePartsNext
<1>2. Untouched'
  BY DEF TypeOK, Untouched
<1>3. MapsOwn' /\ AnnouncesRegistered'
  BY DEF MapsOwn, AnnouncesRegistered, Registered
<1>4. SendersHaveIds'
  BY DEF SendersHaveIds, DiallingOwns, Dialling
<1>5. \A q \in Requests : q # c => connector'[q] = connector[q]
  BY DEF TypeOK
<1>6. DiallingOwns'
  BY <1>5 DEF DiallingOwns, Dialling, Mapped, Registered, CtxDone
<1>7. ConnectStopped'
  BY <1>5, TrxFacts DEF ConnectStopped, CtxDone
<1>8. WaitingIsFresh' /\ FlightOwned'
  BY DEF WaitingIsFresh, FlightOwned, Mapped
<1>9. ConnectingIsDialled'
  BY <1>5 DEF ConnectingIsDialled, Dialling, Mapped
<1>10. ExpiryOwnsConnection'
  BY DEF ExpiryOwnsConnection, Mapped
<1>11. RequestHasOneHome'
  BY DEF RequestHasOneHome, Mapped, Registered
<1>12. NoOrphanSender'
  BY DEF NoOrphanSender, DiallingOwns, Dialling, CtxDone, Registered
<1>13. NoCrossTalk'
  BY DEF NoCrossTalk
<1> QED
  BY <1>1, <1>2, <1>3, <1>4, <1>6, <1>7, <1>8, <1>9, <1>10, <1>11, <1>12, <1>13

LEMMA RetryTickStep ==
  ASSUME IInv, NEW t \in Trxs, RetryTick(t) PROVE IInv'
<1> USE DEF IInv, RetryTick, callVars, connVars, trxVars, dialVars, loopVars
<1>0. PICK a \in {"connect", "error", "announce"} :
         /\ a = "announce" => t.kind = "announce"
         /\ inFlight' = inFlight \cup {[trx |-> t, action |-> a]}
  <2>1. CASE t.kind = "connect"
    BY <2>1
  <2>2. CASE t.kind = "announce"
    BY <2>2
  <2> QED BY <2>1, <2>2, TrxFacts
<1>1. TypeOK'
  <2>1. CallType' /\ ConnType' /\ TrxType' /\ DialType'
    BY TypeParts DEF CallType, ConnType, TrxType, DialType
  <2>2. NetType'
    BY <1>0, TypeParts DEF NetType, Messages
  <2>3. LoopType'
    BY TypeParts DEF LoopType
  <2> QED BY <2>1, <2>2, <2>3, TypePartsNext
<1>2. Untouched'
  BY DEF Untouched
<1>3. MapsOwn' /\ AnnouncesRegistered' /\ SendersHaveIds'
  BY DEF MapsOwn, AnnouncesRegistered, SendersHaveIds, Registered
<1>4. DiallingOwns' /\ ConnectStopped'
  BY DEF DiallingOwns, ConnectStopped, Dialling, Mapped, Registered, CtxDone
<1>5. WaitingIsFresh'
  BY DEF WaitingIsFresh, Mapped
<1>6. FlightOwned'
  BY <1>0 DEF FlightOwned
<1>7. ConnectingIsDialled' /\ ExpiryOwnsConnection'
  BY DEF ConnectingIsDialled, ExpiryOwnsConnection, Dialling, Mapped
<1>8. RequestHasOneHome'
  BY DEF RequestHasOneHome, Mapped, Registered
<1>9. NoOrphanSender' /\ NoCrossTalk'
  BY DEF NoOrphanSender, NoCrossTalk, CtxDone, Registered
<1> QED BY <1>1, <1>2, <1>3, <1>4, <1>5, <1>6, <1>7, <1>8, <1>9

LEMMA ResolveStep ==
  ASSUME IInv, NEW c \in Requests, Resolve(c) PROVE IInv'
<1> USE DEF Resolve, ConnectorEnds
<1>1. DialType' /\ TrxType'
  <2>1. TypeOK /\ Connect(c) \in Trxs
    BY TrxFacts DEF IInv
  <2>2. DialType'
    BY <2>1, TypeParts DEF DialType
  <2>3. TrxType'
    BY <2>1, TypeParts DEF TrxType
  <2> QED BY <2>2, <2>3
<1>2. /\ connector[c] = "resolving"
      /\ connector' = [connector EXCEPT ![c] = connector'[c]]
      /\ connector'[c] \in {"awaiting", "reporting"}
  BY DEF IInv, TypeOK
<1>3. /\ senders' \in {senders, senders \cup {Connect(c)}}
      /\ senders' # senders => connector'[c] = "awaiting"
  BY DEF IInv, TypeOK
<1>4. connector'[c] = "reporting" => Connect(c) \notin senders'
  BY DEF IInv, TypeOK, ConnectStopped
<1>5. UNCHANGED <<callVars, done, connVars, transactions, trxId, stopped,
                  netVars, loopVars, panicked>>
  OBVIOUS
<1> HIDE DEF Resolve
<1> QED BY <1>1, <1>2, <1>3, <1>4, <1>5, ConnectorFrame

LEMMA AwaitConnectStep ==
  ASSUME IInv, NEW c \in Requests, AwaitConnect(c) PROVE IInv'
<1> USE DEF AwaitConnect, ConnectorEnds
<1>1. DialType' /\ TrxType'
  <2>1. TypeOK
    BY DEF IInv
  <2>2. DialType'
    BY <2>1, TypeParts DEF DialType
  <2>3. TrxType'
    BY <2>1, TypeParts DEF TrxType
  <2> QED BY <2>2, <2>3
<1>2. /\ connector[c] = "awaiting"
      /\ connector' = [connector EXCEPT ![c] = connector'[c]]
      /\ connector'[c] = "reporting"
      /\ senders' = senders
  BY DEF IInv, TypeOK
<1>3. CtxDone(Connect(c))
  <2>1. CASE CtxDone(Connect(c))
    BY <2>1
  <2>2. CASE connDone[c].kind # "none"
    <3>1. connDone[c] # Open
      BY <2>2, ResultFacts
    <3>2. connDone[c] # Failed("collision")
      BY <1>2 DEF IInv, DiallingOwns, Dialling, ConnectStopped
    <3> QED BY <3>1, <3>2 DEF IInv, ConnectStopped, CtxDone
  <2> QED BY <2>1, <2>2
<1>4. UNCHANGED <<callVars, done, connVars, transactions, trxId, stopped,
                  netVars, loopVars, panicked>>
  OBVIOUS
<1> HIDE DEF AwaitConnect
<1> QED BY <1>1, <1>2, <1>3, <1>4, ConnectorFrame

LEMMA ConnectorStopsStep ==
  ASSUME IInv, NEW c \in Requests, ConnectorStops(c) PROVE IInv'
<1> USE DEF ConnectorStops, trxVars
<1>1. DialType' /\ TrxType'
  <2>1. TypeOK
    BY DEF IInv
  <2> QED BY <2>1, TypeParts DEF DialType, TrxType
<1>2. /\ connector[c] = "reporting" /\ closed
      /\ connector' = [connector EXCEPT ![c] = connector'[c]]
      /\ connector'[c] = "ended"
      /\ senders' = senders
  BY DEF IInv, TypeOK
<1>3. UNCHANGED <<callVars, done, connVars, transactions, trxId, stopped,
                  netVars, loopVars, panicked>>
  OBVIOUS
<1> HIDE DEF ConnectorStops
<1> QED BY <1>1, <1>2, <1>3, ConnectorFrame
-----------------------------------------------------------------------------
(* What beginning transactions does                                        *)

\* The requests in started get a free id each, and a sender; the rest of reqs
\* is answered; everything else stays as it is in map.
Begun(map, reqs, started) ==
    /\ started \subseteq reqs
    /\ \A r \in started :
          /\ trxId'[Announce(r)] \in TrxIds
          /\ map[trxId'[Announce(r)]] = NoTrx
          /\ transactions'[trxId'[Announce(r)]] = Announce(r)
    /\ \A i \in TrxIds :
          \/ transactions'[i] = map[i]
          \/ /\ map[i] = NoTrx
             /\ \E r \in started : /\ trxId'[Announce(r)] = i
                                   /\ transactions'[i] = Announce(r)
    /\ \A c \in Requests : trxId'[Connect(c)] = trxId[Connect(c)]
    /\ \A r \in Requests \ started :
          trxId'[Announce(r)] = trxId[Announce(r)]
    /\ senders' = senders \cup {Announce(r) : r \in started}
    /\ stopped' = stopped
    /\ SetResponse(reqs \ started, Failed("collision"))

LEMMA BeginAnnouncesFacts ==
  ASSUME TypeOK, NEW map \in TrxMap, NEW reqs \in SUBSET Requests,
         BeginAnnounces(map, reqs)
  PROVE  /\ TrxType'
         /\ \E started \in SUBSET reqs : Begun(map, reqs, started)
<1>1. PICK ids \in [reqs -> TrxIds], started \in SUBSET reqs :
         /\ Begins(map, reqs, ids, started)
         /\ transactions' = [i \in TrxIds |->
               IF \E r \in started : ids[r] = i
               THEN Announce(CHOOSE r \in started : ids[r] = i)
               ELSE map[i]]
         /\ trxId' = [t \in Trxs |->
               IF t.kind = "announce" /\ t.req \in started
               THEN ids[t.req] ELSE trxId[t]]
         /\ senders' = senders \cup {Announce(r) : r \in started}
         /\ SetResponse(reqs \ started, Failed("collision"))
         /\ UNCHANGED stopped
  BY DEF BeginAnnounces
<1>2. \A r \in started : (CHOOSE q \in started : ids[q] = ids[r]) = r
  BY <1>1 DEF Begins
<1>3. \A r \in started : trxId'[Announce(r)] = ids[r] /\ ids[r] \in TrxIds
  BY <1>1, TrxFacts
<1>4. \A r \in started :
         transactions'[ids[r]] = Announce(r) /\ map[ids[r]] = NoTrx
  BY <1>1, <1>2 DEF Begins
<1>5. \A i \in TrxIds :
         \/ transactions'[i] = map[i]
         \/ /\ map[i] = NoTrx
            /\ \E r \in started : /\ trxId'[Announce(r)] = i
                                  /\ transactions'[i] = Announce(r)
  <2> SUFFICES ASSUME NEW i \in TrxIds, transactions'[i] # map[i]
               PROVE  /\ map[i] = NoTrx
                      /\ \E r \in started : /\ trxId'[Announce(r)] = i
                                            /\ transactions'[i] = Announce(r)
    OBVIOUS
  <2>1. PICK r \in started : ids[r] = i
    BY <1>1
  <2> QED BY <2>1, <1>3, <1>4
<1>6. /\ \A c \in Requests : trxId'[Connect(c)] = trxId[Connect(c)]
      /\ \A r \in Requests \ started :
            trxId'[Announce(r)] = trxId[Announce(r)]
  BY <1>1, TrxFacts
<1>7. TrxType'
  <2>1. transactions' \in TrxMap
    <3>1. \A i \in TrxIds : transactions'[i] \in Trxs \cup {NoTrx}
      BY <1>5, TrxFacts DEF TrxMap
    <3> QED BY <1>1, <3>1 DEF TrxMap
  <2>2. trxId' \in [Trxs -> TrxIds \cup {NoId}]
    BY <1>1, TypeParts DEF TrxType
  <2>3. stopped' \subseteq Trxs /\ senders' \subseteq Trxs
    BY <1>1, TypeParts, TrxFacts DEF TrxType
  <2> QED BY <2>1, <2>2, <2>3 DEF TrxType
<1>8. Begun(map, reqs, started)
  <2>1. \A r \in started :
           /\ trxId'[Announce(r)] \in TrxIds
           /\ map[trxId'[Announce(r)]] = NoTrx
           /\ transactions'[trxId'[Announce(r)]] = Announce(r)
    BY <1>3, <1>4
  <2>2. /\ started \subseteq reqs
        /\ senders' = senders \cup {Announce(r) : r \in started}
        /\ stopped' = stopped
        /\ SetResponse(reqs \ started, Failed("collision"))
    BY <1>1
  <2> QED BY ONLY <2>1, <2>2, <1>5, <1>6, Zenon DEF Begun
<1> QED BY <1>7, <1>8

\* Answering requests that have no answer yet is no panic.
LEMMA SetResponseFacts ==
  ASSUME TypeOK, NEW reqs \in SUBSET Requests, NEW res \in Results,
         SetResponse(reqs, res), \A r \in reqs : done[r] = Open
  PROVE  /\ done' \in [Requests -> Results]
         /\ panicked' = FALSE
         /\ \A r \in reqs : done'[r] = res
         /\ \A r \in Requests \ reqs : done'[r] = done[r]
BY TypeParts DEF SetResponse, CallType

LEMMA BegunFacts ==
  ASSUME TypeOK, NEW map \in TrxMap, NEW reqs \in SUBSET Requests,
         NEW started \in SUBSET reqs, Begun(map, reqs, started),
         \A r \in reqs : done[r] = Open
  PROVE  /\ done' \in [Requests -> Results]
         /\ panicked' = FALSE
         /\ \A r \in reqs \ started : done'[r] = Failed("collision")
         /\ \A r \in Requests \ (reqs \ started) : done'[r] = done[r]
<1>1. Failed("collision") \in Results
  BY ResultFacts DEF Kinds
<1>2. SetResponse(reqs \ started, Failed("collision"))
  BY DEF Begun
<1> HIDE DEF Begun
<1> QED BY <1>1, <1>2, SetResponseFacts
-----------------------------------------------------------------------------
(* Steps of the loop                                                        *)

LEMMA ConnectionExpiredStep ==
  ASSUME IInv, NEW c \in Requests, ConnectionExpired(c) PROVE IInv'
<1> USE DestAssumption
    DEF IInv, ConnectionExpired, callVars, trxVars, dialVars, netVars, loopVars
<1>0. Mapped(c) /\ phase[c] = "connected" /\ Dest[c] \in Dests
  BY DEF ExpiryOwnsConnection
<1>a. connections' = [connections EXCEPT ![Dest[c]] = NoConn]
  BY DEF Unmap
<1>b. \A q \in Requests : Mapped(q)' <=> Mapped(q) /\ q # c
  BY <1>0, <1>a, NullAssumption DEF TypeOK, Mapped
<1>1. TypeOK'
  <2>1. CallType' /\ TrxType' /\ DialType' /\ NetType'
    BY TypeParts DEF CallType, TrxType, DialType, NetType
  <2>2. ConnType'
    BY <1>a, TypeParts DEF ConnType
  <2>3. LoopType'
    BY TypeParts DEF LoopType
  <2> QED BY <2>1, <2>2, <2>3, TypePartsNext
<1>2. Untouched'
  BY DEF Untouched
<1>3. MapsOwn'
  BY <1>a DEF MapsOwn, TypeOK
<1>4. AnnouncesRegistered' /\ SendersHaveIds'
  BY DEF AnnouncesRegistered, SendersHaveIds, Registered
<1>5. DiallingOwns'
  BY <1>0, <1>b DEF DiallingOwns, Dialling, Registered, CtxDone
<1>6. ConnectStopped'
  BY DEF ConnectStopped, CtxDone
<1>7. WaitingIsFresh' /\ FlightOwned'
  BY <1>b DEF WaitingIsFresh, FlightOwned
<1>8. ConnectingIsDialled'
  BY <1>0, <1>b DEF ConnectingIsDialled, Dialling
<1>9. ExpiryOwnsConnection'
  BY <1>b DEF ExpiryOwnsConnection
<1>10. RequestHasOneHome'
  <2>1. \A r \in Requests : r \notin waiting[c]
    BY <1>0 DEF WaitingIsFresh
  <2> QED BY <1>b, <2>1 DEF RequestHasOneHome, Registered
<1>11. NoOrphanSender' /\ NoCrossTalk'
  BY DEF NoOrphanSender, NoCrossTalk, CtxDone, Registered
<1> QED
  BY <1>1, <1>2, <1>3, <1>4, <1>5, <1>6, <1>7, <1>8, <1>9, <1>10, <1>11

\* The loop takes request r.
Taken(r) ==
    /\ running /\ ~panicked
    /\ doPc[r] = "offering"
    /\ doPc' = [doPc EXCEPT ![r] = "waiting"]
    /\ UNCHANGED <<cancelled, netVars, loopVars>>

LEMMA NotListeningStep ==
  ASSUME IInv, NEW r \in Requests, Taken(r),
         SetResponse({r}, Failed("listen")),
         UNCHANGED <<connVars, trxVars, dialVars>>
  PROVE  IInv'
<1> USE DEF IInv, Taken, connVars, trxVars, dialVars, netVars, loopVars
<1>0. /\ done' \in [Requests -> Results] /\ panicked' = FALSE
      /\ done'[r] = Failed("listen") /\ done'[r] # Open
      /\ done'[r].kind # "announce"
      /\ \A q \in Requests : q # r => done'[q] = done[q]
  <2>1. Failed("listen") \in Results /\ Failed("listen") # Open
        /\ Failed("listen").kind # "announce"
    BY ResultFacts DEF Kinds
  <2>2. {r} \in SUBSET Requests /\ \A q \in {r} : done[q] = Open
    BY DEF Untouched
  <2>3. /\ done' \in [Requests -> Results] /\ panicked' = FALSE
        /\ \A q \in {r} : done'[q] = Failed("listen")
        /\ \A q \in Requests \ {r} : done'[q] = done[q]
    BY <2>1, <2>2, SetResponseFacts
  <2> QED BY <2>1, <2>3
<1>1. TypeOK'
  <2>1. CallType'
    BY <1>0, TypeParts DEF CallType
  <2>2. ConnType' /\ TrxType' /\ DialType' /\ NetType'
    BY TypeParts DEF ConnType, TrxType, DialType, NetType
  <2>3. LoopType'
    BY <1>0, TypeParts DEF LoopType
  <2> QED BY <2>1, <2>2, <2>3, TypePartsNext
<1>2. Untouched'
  BY <1>0 DEF Untouched, TypeOK
<1>3. MapsOwn' /\ AnnouncesRegistered' /\ SendersHaveIds'
  BY DEF MapsOwn, AnnouncesRegistered, SendersHaveIds, Registered
<1>4. DiallingOwns' /\ ConnectStopped'
  BY DEF DiallingOwns, ConnectStopped, Dialling, Mapped, Registered, CtxDone
<1>5. WaitingIsFresh' /\ FlightOwned'
  BY <1>0 DEF WaitingIsFresh, FlightOwned, Mapped, Untouched
<1>6. ConnectingIsDialled' /\ ExpiryOwnsConnection'
  BY DEF ConnectingIsDialled, ExpiryOwnsConnection, Dialling, Mapped
<1>7. RequestHasOneHome'
  BY <1>0 DEF RequestHasOneHome, Mapped, Registered, TypeOK
<1>8. NoOrphanSender' /\ NoCrossTalk'
  BY <1>0 DEF NoOrphanSender, NoCrossTalk, CtxDone, Registered
<1> QED BY <1>1, <1>2, <1>3, <1>4, <1>5, <1>6, <1>7, <1>8

LEMMA JoinConnectionStep ==
  ASSUME IInv, NEW r \in Requests, Taken(r), JoinConnection(r)
  PROVE  IInv'
<1> USE DestAssumption, NullAssumption
    DEF IInv, Taken, JoinConnection, trxVars, dialVars, netVars, loopVars
<1>z. PICK c \in Requests : c = connections[Dest[r]]
  BY TypeParts DEF ConnType
<1>0. /\ Mapped(c) /\ Dest[c] = Dest[r]
      /\ phase[c] = "connecting"
      /\ waiting' = [waiting EXCEPT ![c] = @ \cup {r}]
  BY <1>z DEF MapsOwn, Mapped
<1>a. /\ done[r] = Open /\ trxId[Announce(r)] = NoId
      /\ \A q \in Requests : r \notin waiting[q]
      /\ doPc[c] # "offering"
  BY <1>0 DEF Untouched
<1>b. /\ waiting'[c] = waiting[c] \cup {r}
      /\ \A q \in Requests : q # c => waiting'[q] = waiting[q]
  BY <1>0 DEF TypeOK
<1>1. TypeOK'
  <2>1. CallType'
    BY TypeParts DEF CallType
  <2>2. ConnType'
    BY <1>0, TypeParts DEF ConnType
  <2>3. TrxType' /\ DialType' /\ NetType'
    BY TypeParts DEF TrxType, DialType, NetType
  <2>4. LoopType'
    BY TypeParts DEF LoopType
  <2> QED BY <2>1, <2>2, <2>3, <2>4, TypePartsNext
<1>2. Untouched'
  BY <1>a, <1>b DEF Untouched, TypeOK
<1>3. MapsOwn' /\ AnnouncesRegistered' /\ SendersHaveIds'
  BY DEF MapsOwn, AnnouncesRegistered, SendersHaveIds, Registered
<1>4. DiallingOwns' /\ ConnectStopped'
  BY DEF DiallingOwns, ConnectStopped, Dialling, Mapped, Registered, CtxDone
<1>5. WaitingIsFresh' /\ FlightOwned'
  BY <1>0, <1>a, <1>b DEF WaitingIsFresh, FlightOwned, Mapped
<1>6. ConnectingIsDialled' /\ ExpiryOwnsConnection'
  BY DEF ConnectingIsDialled, ExpiryOwnsConnection, Dialling, Mapped
<1>7. RequestHasOneHome'
  <2>1. \A q \in Requests : q # r =>
           ((\E e \in Requests : Mapped(e)' /\ q \in waiting'[e])
              <=> (\E e \in Requests : Mapped(e) /\ q \in waiting[e]))
    BY <1>b DEF Mapped
  <2>2. Mapped(c)' /\ r \in waiting'[c] /\ ~Registered(Announce(r))'
    BY <1>0, <1>a, <1>b DEF Mapped, Registered
  <2>3. \A q \in Requests : q # r => doPc'[q] = doPc[q]
    BY TypeParts DEF CallType
  <2> QED BY <2>1, <2>2, <2>3 DEF RequestHasOneHome, Registered
<1>8. NoOrphanSender' /\ NoCrossTalk'
  BY DEF NoOrphanSender, NoCrossTalk, CtxDone, Registered
<1> QED BY <1>1, <1>2, <1>3, <1>4, <1>5, <1>6, <1>7, <1>8

LEMMA UseConnectionStep ==
  ASSUME IInv, NEW r \in Requests, Taken(r), UseConnection(r)
  PROVE  IInv'
<1> USE DEF IInv, Taken, connVars, dialVars, netVars, loopVars
<1>0. UNCHANGED <<connVars, dialVars>>
  BY DEF UseConnection
<1>a. /\ done[r] = Open /\ trxId[Announce(r)] = NoId
      /\ \A q \in Requests : r \notin waiting[q]
  BY DEF Untouched
<1>b. transactions \in TrxMap /\ {r} \in SUBSET Requests
  BY TypeParts DEF TrxType
<1>c. TrxType' /\ \E started \in SUBSET {r} : Begun(transactions, {r}, started)
  BY <1>b, BeginAnnouncesFacts DEF UseConnection
<1>d. PICK started \in SUBSET {r} : Begun(transactions, {r}, started)
  BY <1>c
<1>e. /\ done' \in [Requests -> Results] /\ panicked' = FALSE
      /\ r \notin started => done'[r] = Failed("collision")
      /\ r \in started => done'[r] = done[r]
      /\ \A q \in Requests : q # r => done'[q] = done[q]
  <2>1. SetResponse({r} \ started, Failed("collision"))
    BY <1>d DEF Begun
  <2>2. PICK rest \in SUBSET Requests : rest = {r} \ started
    BY <1>b
  <2>3. SetResponse(rest, Failed("collision"))
    BY <2>1, <2>2
  <2>4. TypeOK /\ (\A q \in rest : done[q] = Open)
        /\ Failed("collision") \in Results
    BY <1>a, <2>2, ResultFacts DEF Kinds
  <2>5. /\ done' \in [Requests -> Results] /\ panicked' = FALSE
        /\ \A q \in rest : done'[q] = Failed("collision")
        /\ \A q \in Requests \ rest : done'[q] = done[q]
    BY <2>3, <2>4, SetResponseFacts
  <2> QED BY <2>2, <2>5
<1>f. \A t \in Trxs : Registered(t) => Registered(t)' /\ trxId'[t] = trxId[t]
  <2> SUFFICES ASSUME NEW t \in Trxs, Registered(t)
               PROVE  Registered(t)' /\ trxId'[t] = trxId[t]
    OBVIOUS
  <2>1. trxId[t] \in TrxIds /\ transactions[trxId[t]] = t
    BY TypeParts DEF TrxType, Registered
  <2>2. t # Announce(r)
    BY <1>a DEF Registered
  <2>3. trxId'[t] = trxId[t]
    BY <2>2, <1>d, TrxFacts DEF Begun
  <2>4. transactions'[trxId[t]] = t
    BY <2>1, <1>d, NullAssumption DEF Begun
  <2> QED BY <2>3, <2>4 DEF Registered
<1>g. r \in started => Registered(Announce(r))'
  BY <1>d, NullAssumption DEF Begun, Registered
<1>h. r \notin started => done'[r] # Open /\ done'[r].kind # "announce"
  BY <1>e, ResultFacts DEF Kinds
<1>1. TypeOK'
  <2>1. CallType'
    BY <1>e, TypeParts DEF CallType
  <2>2. ConnType' /\ DialType' /\ NetType'
    BY <1>0, TypeParts DEF ConnType, DialType, NetType
  <2>3. LoopType'
    BY <1>e, TypeParts DEF LoopType
  <2> QED BY <1>c, <2>1, <2>2, <2>3, TypePartsNext
<1>2. Untouched'
  <2>1. \A q \in Requests :
           doPc'[q] = "offering" => q # r /\ doPc[q] = "offering"
    BY TypeParts DEF CallType
  <2> QED BY <1>0, <1>d, <1>e, <2>1 DEF Untouched, Begun
<1>3. MapsOwn'
  <2>1. \A d \in Dests : connections'[d] # NoConn => Dest[connections'[d]] = d
    BY <1>0 DEF MapsOwn
  <2>2. ASSUME NEW i \in TrxIds, transactions'[i] # NoTrx
        PROVE  trxId'[transactions'[i]] = i
    <3>1. CASE transactions'[i] = transactions[i]
      <4>1. transactions[i] \in Trxs /\ trxId[transactions[i]] = i
        BY <2>2, <3>1, <1>b DEF MapsOwn, TrxMap
      <4>2. Registered(transactions[i])
        BY <4>1, NullAssumption DEF Registered
      <4> QED BY <3>1, <4>1, <4>2, <1>f
    <3>2. CASE transactions'[i] # transactions[i]
      BY <2>2, <3>2, <1>d DEF Begun
    <3> QED BY <3>1, <3>2
  <2> QED BY <2>1, <2>2 DEF MapsOwn
<1>4. AnnouncesRegistered'
  <2> SUFFICES ASSUME NEW q \in Requests, trxId'[Announce(q)] # NoId
               PROVE  Registered(Announce(q))'
    BY DEF AnnouncesRegistered
  <2>1. CASE q \in started
    BY <1>g, <2>1
  <2>2. CASE q \notin started
    BY <2>2, <1>d, <1>f, TrxFacts DEF AnnouncesRegistered, Begun
  <2> QED BY <2>1, <2>2
<1>5. SendersHaveIds'
  BY <1>d, <1>g, TrxFacts, TypeParts
     DEF SendersHaveIds, Begun, Registered, TrxType
<1>6. DiallingOwns'
  BY <1>0, <1>d, <1>f, TrxFacts
     DEF DiallingOwns, Dialling, Mapped, CtxDone, Begun
<1>7. ConnectStopped'
  BY <1>0, <1>d, TrxFacts DEF ConnectStopped, CtxDone, Begun
<1>8. WaitingIsFresh'
  BY <1>0, <1>a, <1>d, <1>e DEF WaitingIsFresh, Mapped, Begun
<1>9. FlightOwned'
  BY <1>d DEF FlightOwned, Begun
<1>10. ConnectingIsDialled' /\ ExpiryOwnsConnection'
  BY <1>0 DEF ConnectingIsDialled, ExpiryOwnsConnection, Dialling, Mapped
<1>11. RequestHasOneHome'
  <2>1. \A q \in Requests :
           (\E e \in Requests : Mapped(e)' /\ q \in waiting'[e])
             <=> (\E e \in Requests : Mapped(e) /\ q \in waiting[e])
    BY <1>0 DEF Mapped
  <2>2. \A q \in Requests :
           q # r => (Registered(Announce(q))' <=> Registered(Announce(q)))
    BY <1>d, <1>f, TrxFacts DEF Begun, Registered, AnnouncesRegistered
  <2>3. \A q \in Requests : q # r => doPc'[q] = doPc[q]
    BY TypeParts DEF CallType
  <2> QED BY <1>a, <1>e, <1>g, <1>h, <2>1, <2>2, <2>3 DEF RequestHasOneHome
<1>12. NoOrphanSender'
  BY <1>d, <1>f, <1>g, TypeParts DEF NoOrphanSender, CtxDone, Begun, TrxType
<1>13. NoCrossTalk'
  BY <1>a, <1>e, <1>h DEF NoCrossTalk
<1> QED
  BY <1>1, <1>2, <1>3, <1>4, <1>5, <1>6, <1>7, <1>8, <1>9, <1>10, <1>11,
     <1>12, <1>13

LEMMA NewConnectionStep ==
  ASSUME IInv, NEW r \in Requests, Taken(r), NewConnection(r)
  PROVE  IInv'
<1> USE DestAssumption, NullAssumption
    DEF IInv, Taken, netVars, loopVars
<1>a. /\ done[r] = Open /\ connDone[r] = Open /\ phase[r] = "none"
      /\ connector[r] = "none" /\ r \notin expiring
      /\ trxId[Connect(r)] = NoId /\ trxId[Announce(r)] = NoId
      /\ \A c \in Requests : r \notin waiting[c]
  BY DEF Untouched
<1>b. /\ connections[Dest[r]] = NoConn
      /\ connections' = [connections EXCEPT ![Dest[r]] = r]
      /\ phase' = [phase EXCEPT ![r] = "connecting"]
      /\ waiting' = [waiting EXCEPT ![r] = {r}]
      /\ UNCHANGED <<done, panicked, expiring, stopped, senders, connectErr>>
  BY DEF NewConnection
<1>c. PICK id \in TrxIds :
         \/ /\ transactions[id] = NoTrx
            /\ transactions' = [transactions EXCEPT ![id] = Connect(r)]
            /\ trxId' = [trxId EXCEPT ![Connect(r)] = id]
            /\ connector' = [connector EXCEPT ![r] = "resolving"]
            /\ UNCHANGED connDone
         \/ /\ transactions[id] # NoTrx
            /\ connDone' = [connDone EXCEPT ![r] = Failed("collision")]
            /\ UNCHANGED <<transactions, trxId, connector>>
  BY DEF NewConnection
<1>d. \A c \in Requests :
         Mapped(c)' <=> c = r \/ (Mapped(c) /\ c # r)
  BY <1>b, TypeParts DEF Mapped, ConnType
<1>e. \A c \in Requests : Mapped(c) => Dest[c] # Dest[r]
  BY <1>b DEF Mapped
<1>f. /\ \A q \in Requests : q # r =>
            /\ phase'[q] = phase[q] /\ waiting'[q] = waiting[q]
            /\ connector'[q] = connector[q] /\ connDone'[q] = connDone[q]
            /\ trxId'[Connect(q)] = trxId[Connect(q)]
            /\ doPc'[q] = doPc[q]
      /\ phase'[r] = "connecting" /\ waiting'[r] = {r}
      /\ doPc'[r] = "waiting"
      /\ \A q \in Requests : trxId'[Announce(q)] = trxId[Announce(q)]
  <2>1. /\ \A q \in Requests : q # r =>
              /\ phase'[q] = phase[q] /\ waiting'[q] = waiting[q]
              /\ doPc'[q] = doPc[q]
        /\ phase'[r] = "connecting" /\ waiting'[r] = {r}
        /\ doPc'[r] = "waiting"
    BY <1>b, TypeParts DEF ConnType, CallType
  <2>2. \A q \in Requests : q # r =>
              connector'[q] = connector[q] /\ connDone'[q] = connDone[q]
    BY <1>c, TypeParts DEF ConnType, DialType
  <2>3. \A t \in Trxs : t # Connect(r) => trxId'[t] = trxId[t]
    BY <1>c, TypeParts DEF TrxType
  <2>4. \A q \in Requests : /\ q # r => Connect(q) # Connect(r)
                            /\ Announce(q) # Connect(r)
    BY TrxFacts
  <2> QED BY <2>1, <2>2, <2>3, <2>4, TrxFacts
<1>g. \/ /\ Registered(Connect(r))' /\ trxId'[Connect(r)] # NoId
         /\ connector'[r] = "resolving" /\ connDone'[r] = Open
      \/ /\ trxId'[Connect(r)] = NoId
         /\ connector'[r] = "none" /\ connDone'[r] = Failed("collision")
  BY <1>a, <1>c, TrxFacts, TypeParts
     DEF Registered, TrxType, TrxMap, DialType, ConnType
<1>h. \A t \in Trxs :
         Registered(t) =>
            Registered(t)' /\ trxId'[t] = trxId[t] /\ t # Connect(r)
  <2> SUFFICES ASSUME NEW t \in Trxs, Registered(t)
               PROVE  Registered(t)' /\ trxId'[t] = trxId[t] /\ t # Connect(r)
    OBVIOUS
  <2>1. t # Connect(r) /\ trxId[t] \in TrxIds /\ transactions[trxId[t]] = t
    BY <1>a, TypeParts DEF Registered, TrxType
  <2>2. trxId'[t] = trxId[t]
    BY <1>c, <2>1, TypeParts DEF TrxType
  <2>3. transactions'[trxId[t]] = t
    BY <1>c, <2>1, TypeParts DEF TrxType, TrxMap
  <2> QED BY <2>1, <2>2, <2>3 DEF Registered
<1>1. TypeOK'
  <2>1. CallType'
    BY <1>b, TypeParts DEF CallType
  <2>2. connDone' \in [Requests -> Results]
    <3>1. Failed("collision") \in Results
      BY ResultFacts DEF Kinds
    <3> QED BY <1>c, <3>1, TypeParts DEF ConnType
  <2>3. ConnType'
    BY <1>b, <2>2, TypeParts DEF ConnType
  <2>4. TrxType'
    BY <1>b, <1>c, TrxFacts, TypeParts DEF TrxType, TrxMap
  <2>7. DialType'
    BY <1>b, <1>c, TypeParts DEF DialType
  <2>5. NetType'
    BY TypeParts DEF NetType
  <2>6. LoopType'
    BY <1>b, TypeParts DEF LoopType
  <2> QED BY <2>1, <2>3, <2>4, <2>5, <2>6, <2>7, TypePartsNext
<1>2. Untouched'
  <2> SUFFICES ASSUME NEW q \in Requests, doPc'[q] = "offering"
               PROVE  /\ done'[q] = Open /\ connDone'[q] = Open
                      /\ phase'[q] = "none" /\ connector'[q] = "none"
                      /\ q \notin expiring'
                      /\ waiting'[q] = {}
                      /\ \A c \in Requests : q \notin waiting'[c]
                      /\ trxId'[Connect(q)] = NoId
                      /\ trxId'[Announce(q)] = NoId
    BY DEF Untouched
  <2>1. q # r /\ doPc[q] = "offering"
    BY <1>f
  <2> QED BY <2>1, <1>b, <1>f DEF Untouched
<1>3. MapsOwn'
  <2>1. \A d \in Dests : connections'[d] # NoConn => Dest[connections'[d]] = d
    BY <1>b, TypeParts DEF MapsOwn, ConnType
  <2>2. ASSUME NEW i \in TrxIds, transactions'[i] # NoTrx
        PROVE  trxId'[transactions'[i]] = i
    <3>1. CASE transactions'[i] = transactions[i]
      <4>1. transactions[i] \in Trxs /\ trxId[transactions[i]] = i
        BY <2>2, <3>1, TypeParts DEF MapsOwn, TrxMap, TrxType
      <4>2. Registered(transactions[i])
        BY <4>1 DEF Registered
      <4> QED BY <3>1, <4>1, <4>2, <1>h
    <3>2. CASE transactions'[i] # transactions[i]
      BY <2>2, <3>2, <1>c, TrxFacts, TypeParts DEF TrxType, TrxMap
    <3> QED BY <3>1, <3>2
  <2> QED BY <2>1, <2>2 DEF MapsOwn
<1>4. AnnouncesRegistered'
  BY <1>f, <1>h, TrxFacts DEF AnnouncesRegistered
<1>5. SendersHaveIds'
  <2> SUFFICES ASSUME NEW t \in senders PROVE trxId'[t] # NoId
    BY <1>b DEF SendersHaveIds
  <2>1. t \in Trxs /\ trxId[t] # NoId
    BY TypeParts DEF TrxType, SendersHaveIds
  <2> QED BY <1>a, <1>c, <2>1, TypeParts DEF TrxType
<1>6. DiallingOwns'
  <2> SUFFICES ASSUME NEW c \in Requests, Dialling(c)'
               PROVE  /\ trxId'[Connect(c)] # NoId
                      /\ Mapped(c)' /\ phase'[c] = "connecting"
                      /\ Registered(Connect(c))'
    BY DEF DiallingOwns
  <2>1. CASE c = r
    BY <2>1, <1>d, <1>f, <1>g DEF Dialling
  <2>2. CASE c # r
    <3>1. Dialling(c)
      BY <2>2, <1>f DEF Dialling
    <3> QED BY <2>2, <3>1, <1>d, <1>f, <1>h, TrxFacts DEF DiallingOwns
  <2> QED BY <2>1, <2>2
<1>7. ConnectStopped'
  <2>1. \A t : CtxDone(t)' <=> CtxDone(t)
    BY <1>b DEF CtxDone
  <2>2. Connect(r) \notin senders
    BY <1>a DEF SendersHaveIds
  <2>3. Failed("collision") # Open
    BY ResultFacts DEF Kinds
  <2> QED BY <1>b, <1>f, <1>g, <2>1, <2>2, <2>3 DEF ConnectStopped
<1>8. WaitingIsFresh'
  BY <1>a, <1>b, <1>d, <1>f DEF WaitingIsFresh
<1>9. FlightOwned'
  BY <1>b DEF FlightOwned
<1>10. ConnectingIsDialled'
  <2> SUFFICES ASSUME ~closed, NEW c \in Requests
               PROVE  Dialling(c)' <=> /\ Mapped(c)' /\ phase'[c] = "connecting"
                                       /\ connDone'[c] # Failed("collision")
    BY DEF ConnectingIsDialled
  <2>1. CASE c = r
    BY <2>1, <1>d, <1>f, <1>g, ResultFacts DEF Dialling, Kinds
  <2>2. CASE c # r
    BY <2>2, <1>d, <1>f DEF ConnectingIsDialled, Dialling
  <2> QED BY <2>1, <2>2
<1>11. ExpiryOwnsConnection'
  BY <1>a, <1>b, <1>d, <1>f DEF ExpiryOwnsConnection
<1>12. RequestHasOneHome'
  <2> SUFFICES ASSUME NEW q \in Requests, doPc'[q] = "waiting", done'[q] = Open
               PROVE  (\E c \in Requests : Mapped(c)' /\ q \in waiting'[c])
                         <=> ~Registered(Announce(q))'
    BY DEF RequestHasOneHome
  <2>1. CASE q = r
    BY <2>1, <1>a, <1>d, <1>f DEF Registered
  <2>2. CASE q # r
    <3>1. (\E c \in Requests : Mapped(c)' /\ q \in waiting'[c])
            <=> (\E c \in Requests : Mapped(c) /\ q \in waiting[c])
      <4>1. \A c \in Requests : Mapped(c) => c # r
        BY <1>e
      <4> QED BY <2>2, <4>1, <1>d, <1>f
    <3>2. Registered(Announce(q))' <=> Registered(Announce(q))
      BY <1>f, <1>h, TrxFacts DEF AnnouncesRegistered, Registered
    <3> QED BY <2>2, <3>1, <3>2, <1>b, <1>f DEF RequestHasOneHome
  <2> QED BY <2>1, <2>2
<1>13. NoOrphanSender'
  BY <1>b, <1>h, TypeParts DEF NoOrphanSender, CtxDone, TrxType
<1>14. NoCrossTalk'
  BY <1>b DEF NoCrossTalk
<1> QED
  BY <1>1, <1>2, <1>3, <1>4, <1>5, <1>6, <1>7, <1>8, <1>9, <1>10, <1>11,
     <1>12, <1>13, <1>14

LEMMA HandleRequestStep ==
  ASSUME IInv, NEW r \in Requests, HandleRequest(r) PROVE IInv'
<1>1. Taken(r)
  BY DEF HandleRequest, Taken
<1>2. CASE /\ SetResponse({r}, Failed("listen"))
           /\ UNCHANGED <<connVars, trxVars, dialVars>>
  BY <1>1, <1>2, NotListeningStep
<1>3. CASE NewConnection(r)
  BY <1>1, <1>3, NewConnectionStep
<1>4. CASE JoinConnection(r)
  BY <1>1, <1>4, JoinConnectionStep
<1>5. CASE UseConnection(r)
  BY <1>1, <1>5, UseConnectionStep
<1> QED BY <1>2, <1>3, <1>4, <1>5 DEF HandleRequest

\* The transactions without the connect of connection c.
Freed(c) == [transactions EXCEPT ![trxId[Connect(c)]] = NoTrx]

\* What holds when the connector of c reports to the loop.
LEMMA ConnectDoneFacts ==
  ASSUME IInv, NEW c \in Requests, running, connector[c] = "reporting"
  PROVE  /\ Mapped(c) /\ phase[c] = "connecting" /\ c \notin expiring
         /\ Freed(c) \in TrxMap
         /\ \A i \in TrxIds :
               \/ Freed(c)[i] = transactions[i]
               \/ Freed(c)[i] = NoTrx /\ transactions[i] = Connect(c)
         /\ \A t \in Trxs : t # Connect(c) /\ Registered(t) =>
               trxId[t] \in TrxIds /\ Freed(c)[trxId[t]] = t
         /\ \A r \in waiting[c] :
               /\ r \in Requests /\ done[r] = Open
               /\ trxId[Announce(r)] = NoId
         /\ \A q \in Requests : Mapped(q) /\ q # c =>
               /\ Dest[q] # Dest[c]
               /\ \A r \in waiting[q] : r \notin waiting[c]
         /\ Connect(c) \in senders => CtxDone(Connect(c))
<1> USE DestAssumption, NullAssumption DEF IInv
<1>1. /\ trxId[Connect(c)] # NoId /\ Mapped(c) /\ phase[c] = "connecting"
      /\ Registered(Connect(c))
  BY DEF DiallingOwns, Dialling
<1>2. /\ transactions \in TrxMap /\ trxId[Connect(c)] \in TrxIds
      /\ transactions[trxId[Connect(c)]] = Connect(c)
  BY <1>1, TypeParts, TrxFacts DEF Registered, TrxType
<1>3. /\ Freed(c) \in TrxMap
      /\ \A i \in TrxIds : Freed(c)[i] =
            IF i = trxId[Connect(c)] THEN NoTrx ELSE transactions[i]
  BY <1>2 DEF Freed, TrxMap
<1>4. \A t \in Trxs : t # Connect(c) /\ Registered(t) =>
         trxId[t] \in TrxIds /\ Freed(c)[trxId[t]] = t
  BY <1>2, <1>3, TypeParts DEF Registered, TrxType
<1>5. \A r \in waiting[c] :
         r \in Requests /\ done[r] = Open /\ trxId[Announce(r)] = NoId
  BY <1>1, TypeParts DEF WaitingIsFresh, ConnType
<1>6. \A q \in Requests : Mapped(q) /\ q # c =>
         Dest[q] # Dest[c] /\ \A r \in waiting[q] : r \notin waiting[c]
  BY <1>1, TypeParts DEF Mapped, WaitingIsFresh, ConnType
<1>7. c \notin expiring
  BY <1>1 DEF ExpiryOwnsConnection
<1>8. Connect(c) \in senders => CtxDone(Connect(c))
  BY DEF ConnectStopped
<1> QED BY <1>1, <1>2, <1>3, <1>4, <1>5, <1>6, <1>7, <1>8

\* The connector of c reports an error.
LEMMA ConnectFailedStep ==
  ASSUME IInv, NEW c \in Requests, running, ~panicked,
         connector[c] = "reporting",
         connector' = [connector EXCEPT ![c] = "ended"],
         connectErr[c] # "none",
         connections' = Unmap(c), transactions' = Freed(c),
         SetResponse(waiting[c], Failed(connectErr[c])),
         UNCHANGED <<callVars, phase, waiting, connDone, expiring, trxId,
                     stopped, senders, connectErr, netVars, loopVars>>
  PROVE  IInv'
<1> USE DestAssumption, NullAssumption DEF IInv, callVars, netVars, loopVars
<1>a. /\ Mapped(c) /\ phase[c] = "connecting" /\ c \notin expiring
      /\ Freed(c) \in TrxMap
      /\ \A i \in TrxIds :
            transactions'[i] # NoTrx => transactions'[i] = transactions[i]
      /\ \A t \in Trxs : t # Connect(c) /\ Registered(t) => Registered(t)'
      /\ \A r \in waiting[c] : done[r] = Open /\ trxId[Announce(r)] = NoId
      /\ \A q \in Requests : Mapped(q) /\ q # c =>
            Dest[q] # Dest[c] /\ \A r \in waiting[q] : r \notin waiting[c]
      /\ Connect(c) \in senders => CtxDone(Connect(c))
  BY ConnectDoneFacts, TrxFacts DEF Registered
<1>b. /\ done' \in [Requests -> Results] /\ panicked' = FALSE
      /\ \A r \in waiting[c] : /\ done'[r] # Open
                               /\ done'[r].kind # "announce"
      /\ \A r \in Requests : r \notin waiting[c] => done'[r] = done[r]
  <2>1. connectErr[c] \in {"resolve", "cancelled", "error"}
    BY TypeParts DEF DialType
  <2>2. PICK res \in Results : res = Failed(connectErr[c])
    BY <2>1, ResultFacts DEF Kinds
  <2>3. res # Open /\ res.kind # "announce"
    BY <2>1, <2>2, ResultFacts DEF Kinds
  <2>4. PICK reqs \in SUBSET Requests : reqs = waiting[c]
    BY TypeParts DEF ConnType
  <2>5. SetResponse(reqs, res)
    BY <2>2, <2>4
  <2>6. \A r \in reqs : done[r] = Open
    BY <1>a, <2>4
  <2>7. /\ done' \in [Requests -> Results] /\ panicked' = FALSE
        /\ \A r \in reqs : done'[r] = res
        /\ \A r \in Requests \ reqs : done'[r] = done[r]
    BY <2>5, <2>6, SetResponseFacts
  <2> QED BY <2>3, <2>4, <2>7
<1>c. \A q \in Requests : Mapped(q)' <=> Mapped(q) /\ q # c
  BY <1>a, TypeParts DEF Mapped, Unmap, ConnType
<1>d. /\ \A q \in Requests : q # c => connector'[q] = connector[q]
      /\ connector'[c] = "ended"
  BY TypeParts DEF DialType
<1>e. \A t \in Trxs : Registered(t)' => Registered(t)
  BY <1>a, TypeParts, TrxFacts DEF Registered, TrxType
<1>1. TypeOK'
  <2>1. CallType'
    BY <1>b, TypeParts DEF CallType
  <2>2. ConnType'
    BY TypeParts DEF ConnType, Unmap
  <2>3. TrxType'
    BY <1>a, TypeParts DEF TrxType
  <2>4. DialType' /\ NetType'
    BY TypeParts DEF DialType, NetType
  <2>5. LoopType'
    BY <1>b, TypeParts DEF LoopType
  <2> QED BY <2>1, <2>2, <2>3, <2>4, <2>5, TypePartsNext
<1>2. Untouched'
  BY <1>b, <1>d DEF Untouched
<1>3. MapsOwn'
  <2>1. \A d \in Dests : connections'[d] # NoConn => Dest[connections'[d]] = d
    BY TypeParts DEF MapsOwn, Unmap, ConnType
  <2>2. \A i \in TrxIds :
           transactions'[i] # NoTrx => trxId'[transactions'[i]] = i
    BY <1>a DEF MapsOwn
  <2> QED BY <2>1, <2>2 DEF MapsOwn
<1>4. AnnouncesRegistered' /\ SendersHaveIds'
  BY <1>a, TrxFacts DEF AnnouncesRegistered, SendersHaveIds
<1>5. DiallingOwns'
  <2> SUFFICES ASSUME NEW q \in Requests, Dialling(q)'
               PROVE  /\ trxId[Connect(q)] # NoId
                      /\ Mapped(q)' /\ phase[q] = "connecting"
                      /\ Registered(Connect(q))'
    BY DEF DiallingOwns
  <2>1. q # c /\ Dialling(q)
    BY <1>d DEF Dialling
  <2>2. Connect(q) # Connect(c)
    BY <2>1, TrxFacts
  <2> QED BY <2>1, <2>2, <1>a, <1>c, TrxFacts DEF DiallingOwns
<1>6. ConnectStopped'
  BY <1>d DEF ConnectStopped, CtxDone
<1>7. WaitingIsFresh'
  BY <1>a, <1>b, <1>c DEF WaitingIsFresh
<1>8. FlightOwned'
  BY DEF FlightOwned
<1>9. ConnectingIsDialled'
  BY <1>c, <1>d DEF ConnectingIsDialled, Dialling
<1>10. ExpiryOwnsConnection'
  BY <1>a, <1>c DEF ExpiryOwnsConnection
<1>11. RequestHasOneHome'
  <2>1. \A r \in Requests :
           Registered(Announce(r))' <=> Registered(Announce(r))
    BY <1>a, <1>e, TrxFacts
  <2> QED BY <1>b, <1>c, <2>1 DEF RequestHasOneHome
<1>12. NoOrphanSender'
  BY <1>a, TypeParts DEF NoOrphanSender, CtxDone, TrxType
<1>13. NoCrossTalk'
  BY <1>b DEF NoCrossTalk
<1> QED
  BY <1>1, <1>2, <1>3, <1>4, <1>5, <1>6, <1>7, <1>8, <1>9, <1>10, <1>11,
     <1>12, <1>13

\* The connector of c reports success.
LEMMA ConnectedStep ==
  ASSUME IInv, NEW c \in Requests, running, ~panicked,
         connector[c] = "reporting",
         connector' = [connector EXCEPT ![c] = "ended"],
         phase' = [phase EXCEPT ![c] = "connected"],
         expiring' = expiring \cup {c},
         BeginAnnounces(Freed(c), waiting[c]),
         waiting' = ClearRequests(c),
         UNCHANGED <<callVars, connections, connDone, connectErr, netVars,
                     loopVars>>
  PROVE  IInv'
<1> USE DestAssumption, NullAssumption DEF IInv, callVars, netVars, loopVars
<1>a. /\ Mapped(c) /\ phase[c] = "connecting" /\ c \notin expiring
      /\ Freed(c) \in TrxMap
      /\ \A i \in TrxIds :
            \/ Freed(c)[i] = transactions[i]
            \/ Freed(c)[i] = NoTrx /\ transactions[i] = Connect(c)
      /\ \A t \in Trxs : t # Connect(c) /\ Registered(t) =>
            trxId[t] \in TrxIds /\ Freed(c)[trxId[t]] = t
      /\ \A r \in waiting[c] :
            r \in Requests /\ done[r] = Open /\ trxId[Announce(r)] = NoId
      /\ \A q \in Requests : Mapped(q) /\ q # c =>
            \A r \in waiting[q] : r \notin waiting[c]
      /\ Connect(c) \in senders => CtxDone(Connect(c))
  BY ConnectDoneFacts
<1>b. PICK reqs \in SUBSET Requests : reqs = waiting[c]
  BY TypeParts DEF ConnType
<1>c. TrxType' /\ \E started \in SUBSET reqs : Begun(Freed(c), reqs, started)
  <2>1. TypeOK /\ Freed(c) \in TrxMap /\ BeginAnnounces(Freed(c), reqs)
    BY <1>a, <1>b
  <2> HIDE DEF IInv
  <2> QED BY <2>1, BeginAnnouncesFacts
<1>d. PICK started \in SUBSET reqs : Begun(Freed(c), reqs, started)
  BY <1>c
<1>e. /\ done' \in [Requests -> Results] /\ panicked' = FALSE
      /\ \A r \in reqs \ started :
            done'[r] # Open /\ done'[r].kind # "announce"
      /\ \A r \in Requests : r \notin reqs \ started => done'[r] = done[r]
  <2>1. PICK rest \in SUBSET Requests : rest = reqs \ started
    OBVIOUS
  <2>2. SetResponse(rest, Failed("collision"))
    BY <1>d, <2>1 DEF Begun
  <2>3. TypeOK /\ (\A q \in rest : done[q] = Open)
    BY <1>a, <1>b, <2>1
  <2>4. PICK res \in Results : /\ res = Failed("collision") /\ res # Open
                               /\ res.kind # "announce"
    BY ResultFacts DEF Kinds
  <2>5. /\ done' \in [Requests -> Results] /\ panicked' = FALSE
        /\ \A q \in rest : done'[q] = res
        /\ \A q \in Requests \ rest : done'[q] = done[q]
    BY <2>2, <2>3, <2>4, SetResponseFacts
  <2> QED BY <2>1, <2>4, <2>5
<1>f. \A t \in Trxs : t # Connect(c) /\ Registered(t) =>
         Registered(t)' /\ trxId'[t] = trxId[t]
  <2> SUFFICES ASSUME NEW t \in Trxs, t # Connect(c), Registered(t)
               PROVE  Registered(t)' /\ trxId'[t] = trxId[t]
    OBVIOUS
  <2>1. trxId[t] \in TrxIds /\ Freed(c)[trxId[t]] = t
    BY <1>a
  <2>2. \A r \in started : t # Announce(r)
    BY <1>a, <1>b DEF Registered
  <2>3. trxId'[t] = trxId[t]
    BY <2>2, <1>d, TrxFacts DEF Begun
  <2>4. transactions'[trxId[t]] = t
    BY <2>1, <1>d DEF Begun
  <2> QED BY <2>3, <2>4 DEF Registered
<1>g. \A r \in started : Registered(Announce(r))'
  BY <1>d DEF Begun, Registered
<1>h. /\ \A q \in Requests : q # c =>
            /\ connector'[q] = connector[q] /\ phase'[q] = phase[q]
            /\ waiting'[q] = waiting[q]
      /\ connector'[c] = "ended" /\ phase'[c] = "connected"
      /\ waiting'[c] = {}
  <2>1. /\ \A q \in Requests : q # c => connector'[q] = connector[q]
        /\ connector'[c] = "ended"
    BY TypeParts DEF DialType
  <2>2. /\ \A q \in Requests : q # c => phase'[q] = phase[q]
        /\ phase'[c] = "connected"
    BY TypeParts DEF ConnType
  <2>3. /\ \A q \in Requests : q # c => waiting'[q] = waiting[q]
        /\ waiting'[c] = {}
    BY TypeParts DEF ConnType, ClearRequests
  <2> QED BY <2>1, <2>2, <2>3
<1>i. \A q \in Requests : Mapped(q)' <=> Mapped(q)
  BY DEF Mapped
<1>1. TypeOK'
  <2>1. CallType'
    BY <1>e, TypeParts DEF CallType
  <2>2. ConnType'
    BY TypeParts DEF ConnType, ClearRequests
  <2>3. DialType' /\ NetType'
    BY TypeParts DEF DialType, NetType
  <2>4. LoopType'
    BY <1>e, TypeParts DEF LoopType
  <2> QED BY <1>c, <2>1, <2>2, <2>3, <2>4, TypePartsNext
<1>2. Untouched'
  <2> SUFFICES ASSUME NEW q \in Requests, doPc[q] = "offering"
               PROVE  /\ done'[q] = Open /\ connDone[q] = Open
                      /\ phase'[q] = "none" /\ connector'[q] = "none"
                      /\ q \notin expiring'
                      /\ waiting'[q] = {}
                      /\ \A e \in Requests : q \notin waiting'[e]
                      /\ trxId'[Connect(q)] = NoId
                      /\ trxId'[Announce(q)] = NoId
    BY DEF Untouched
  <2>1. q # c /\ q \notin reqs
    BY <1>b DEF Untouched
  <2>2. trxId'[Connect(q)] = NoId /\ trxId'[Announce(q)] = NoId
    BY <1>d, <2>1 DEF Untouched, Begun
  <2> QED BY <1>e, <1>h, <2>1, <2>2 DEF Untouched
<1>3. MapsOwn'
  <2>1. \A d \in Dests : connections'[d] # NoConn => Dest[connections'[d]] = d
    BY DEF MapsOwn
  <2>2. ASSUME NEW i \in TrxIds, transactions'[i] # NoTrx
        PROVE  trxId'[transactions'[i]] = i
    <3>1. CASE transactions'[i] = Freed(c)[i]
      <4>1. transactions'[i] = transactions[i] /\ trxId[transactions[i]] = i
        BY <2>2, <3>1, <1>a DEF MapsOwn
      <4>2. transactions[i] \in Trxs /\ Registered(transactions[i])
        BY <2>2, <4>1, TypeParts DEF Registered, TrxType, TrxMap
      <4>3. CASE transactions[i] # Connect(c)
        BY <4>1, <4>2, <4>3, <1>f
      <4>4. CASE transactions[i] = Connect(c)
        BY <4>1, <4>4, <1>d DEF Begun
      <4> QED BY <4>3, <4>4
    <3>2. CASE transactions'[i] # Freed(c)[i]
      BY <2>2, <3>2, <1>d DEF Begun
    <3> QED BY <3>1, <3>2
  <2> QED BY <2>1, <2>2 DEF MapsOwn
<1>4. AnnouncesRegistered'
  <2> SUFFICES ASSUME NEW q \in Requests, trxId'[Announce(q)] # NoId
               PROVE  Registered(Announce(q))'
    BY DEF AnnouncesRegistered
  <2>1. CASE q \in started
    BY <1>g, <2>1
  <2>2. CASE q \notin started
    <3>1. trxId[Announce(q)] # NoId
      BY <2>2, <1>d DEF Begun
    <3>2. Announce(q) \in Trxs /\ Announce(q) # Connect(c)
      BY TrxFacts
    <3> QED BY <3>1, <3>2, <1>f DEF AnnouncesRegistered
  <2> QED BY <2>1, <2>2
<1>5. SendersHaveIds'
  <2> SUFFICES ASSUME NEW t \in senders' PROVE trxId'[t] # NoId
    BY DEF SendersHaveIds
  <2>1. CASE t \in senders
    <3>1. t \in Trxs /\ trxId[t] # NoId
      BY <2>1, TypeParts DEF SendersHaveIds, TrxType
    <3>2. CASE t.kind = "connect"
      BY <3>1, <3>2, <1>d, TrxFacts DEF Begun
    <3>3. CASE t.kind = "announce"
      <4>1. t = Announce(t.req) /\ t.req \in Requests
        BY <3>1, <3>3, TrxFacts
      <4>2. t.req \notin started
        BY <3>1, <4>1, <1>a, <1>b
      <4> QED BY <3>1, <4>1, <4>2, <1>d DEF Begun
    <3> QED BY <3>1, <3>2, <3>3, TrxFacts
  <2>2. CASE t \notin senders
    BY <2>2, <1>d, <1>g DEF Begun, Registered
  <2> QED BY <2>1, <2>2
<1>6. DiallingOwns'
  <2> SUFFICES ASSUME NEW q \in Requests, Dialling(q)'
               PROVE  /\ trxId'[Connect(q)] # NoId
                      /\ Mapped(q)' /\ phase'[q] = "connecting"
                      /\ Registered(Connect(q))'
    BY DEF DiallingOwns
  <2>1. q # c /\ Dialling(q)
    BY <1>h DEF Dialling
  <2>2. Connect(q) \in Trxs /\ Connect(q) # Connect(c)
    BY <2>1, TrxFacts
  <2> QED BY <2>1, <2>2, <1>f, <1>h, <1>i DEF DiallingOwns
<1>7. ConnectStopped'
  <2>1. \A q \in Requests : Connect(q) \in senders' => Connect(q) \in senders
    BY <1>d, TrxFacts DEF Begun
  <2>2. \A q \in Requests : trxId'[Connect(q)] = trxId[Connect(q)]
    BY <1>d DEF Begun
  <2>3. stopped' = stopped
    BY <1>d DEF Begun
  <2> QED BY <1>h, <2>1, <2>2, <2>3 DEF ConnectStopped, CtxDone
<1>8. WaitingIsFresh'
  <2> SUFFICES ASSUME NEW q \in Requests, NEW r \in Requests, Mapped(q)',
                      r \in waiting'[q]
               PROVE  /\ phase'[q] = "connecting" /\ Dest[r] = Dest[q]
                      /\ done'[r] = Open /\ trxId'[Announce(r)] = NoId
    BY DEF WaitingIsFresh
  <2>1. q # c /\ Mapped(q) /\ r \in waiting[q] /\ r \notin reqs
    BY <1>a, <1>b, <1>h, <1>i
  <2>2. trxId'[Announce(r)] = trxId[Announce(r)]
    BY <1>d, <2>1 DEF Begun
  <2> QED BY <1>e, <1>h, <2>1, <2>2 DEF WaitingIsFresh
<1>9. FlightOwned'
  BY <1>d DEF FlightOwned, Begun
<1>10. ConnectingIsDialled'
  BY <1>h, <1>i DEF ConnectingIsDialled, Dialling
<1>11. ExpiryOwnsConnection'
  BY <1>a, <1>h, <1>i DEF ExpiryOwnsConnection
<1>12. RequestHasOneHome'
  <2> SUFFICES ASSUME NEW q \in Requests, doPc[q] = "waiting", done'[q] = Open
               PROVE  (\E e \in Requests : Mapped(e)' /\ q \in waiting'[e])
                         <=> ~Registered(Announce(q))'
    BY DEF RequestHasOneHome
  <2>1. CASE q \in reqs
    <3>1. q \in started
      BY <1>e, <2>1
    <3>2. \A e \in Requests : ~(Mapped(e)' /\ q \in waiting'[e])
      BY <1>a, <1>b, <1>h, <1>i, <2>1
    <3> QED BY <1>g, <3>1, <3>2
  <2>2. CASE q \notin reqs
    <3>1. done[q] = Open
      BY <1>e, <2>2
    <3>2. (\E e \in Requests : Mapped(e)' /\ q \in waiting'[e])
            <=> (\E e \in Requests : Mapped(e) /\ q \in waiting[e])
      BY <1>b, <1>h, <1>i, <2>2
    <3>3. trxId'[Announce(q)] = trxId[Announce(q)]
      BY <1>d, <2>2 DEF Begun
    <3>4. Registered(Announce(q))' <=> Registered(Announce(q))
      BY <3>3, <1>f, TrxFacts DEF Registered, AnnouncesRegistered
    <3> QED BY <3>1, <3>2, <3>4 DEF RequestHasOneHome
  <2> QED BY <2>1, <2>2
<1>13. NoOrphanSender'
  <2> SUFFICES ASSUME NEW t \in senders' PROVE CtxDone(t)' \/ Registered(t)'
    BY DEF NoOrphanSender
  <2>1. \A u : CtxDone(u)' <=> CtxDone(u)
    BY <1>d DEF Begun, CtxDone
  <2>2. CASE t \in senders
    BY <2>1, <2>2, <1>a, <1>f, TypeParts DEF NoOrphanSender, TrxType
  <2>3. CASE t \notin senders
    BY <2>3, <1>d, <1>g DEF Begun
  <2> QED BY <2>2, <2>3
<1>14. NoCrossTalk'
  BY <1>e DEF NoCrossTalk
<1> QED
  BY <1>1, <1>2, <1>3, <1>4, <1>5, <1>6, <1>7, <1>8, <1>9, <1>10, <1>11,
     <1>12, <1>13, <1>14

LEMMA ConnectDoneStep ==
  ASSUME IInv, NEW c \in Requests, ConnectDone(c) PROVE IInv'
<1>1. CASE connectErr[c] # "none"
  BY <1>1, ConnectFailedStep DEF ConnectDone, Freed
<1>2. CASE connectErr[c] = "none"
  BY <1>2, ConnectedStep DEF ConnectDone, Freed
<1> QED BY <1>1, <1>2

\* A datagram: the transaction t its id names in the map.
LEMMA ReceiveFacts ==
  ASSUME IInv, NEW m \in inFlight, NEW t,
         t = transactions[trxId[m.trx]], t # NoTrx
  PROVE  /\ t \in Trxs /\ trxId[t] # NoId /\ Registered(t)
         /\ [kind |-> m.action, from |-> m.trx] \in Results
         /\ m.action \in {"connect", "announce", "error"}
         /\ t.kind = "announce" =>
               t = Announce(t.req) /\ (m.action = "announce" => m.trx = t)
         /\ t.kind = "connect" => t = Connect(t.req)
<1> USE NullAssumption DEF IInv
<1>1. /\ m.trx \in Trxs /\ m.action \in {"connect", "announce", "error"}
      /\ m.trx \in senders /\ trxId[m.trx] # NoId
      /\ m.action = "announce" => m.trx.kind = "announce"
  BY TypeParts DEF NetType, Messages, FlightOwned, SendersHaveIds
<1>2. trxId[m.trx] \in TrxIds
  BY <1>1, TypeParts DEF TrxType
<1>3. t \in Trxs /\ trxId[t] = trxId[m.trx]
  BY <1>2, TypeParts DEF TrxType, TrxMap, MapsOwn
<1>4. trxId[t] # NoId /\ Registered(t)
  BY <1>1, <1>3 DEF Registered
<1>5. [kind |-> m.action, from |-> m.trx] \in Results
  BY <1>1 DEF Results, Kinds
<1>6. m.action = "announce" => m.trx = t
  <2> SUFFICES ASSUME m.action = "announce" PROVE m.trx = t
    OBVIOUS
  <2>1. PICK q \in Requests : m.trx = Announce(q)
    BY <1>1, TrxFacts
  <2> QED BY <2>1, <1>1 DEF AnnouncesRegistered, Registered
<1> QED BY <1>1, <1>3, <1>4, <1>5, <1>6, TrxFacts

LEMMA ReceiveStep ==
  ASSUME IInv, NEW m \in inFlight, Receive(m) PROVE IInv'
<1> USE NullAssumption DEF IInv, callVars, dialVars, loopVars
<1> DEFINE t == transactions[trxId[m.trx]]
           res == [kind |-> m.action, from |-> m.trx]
<1>a. /\ running /\ ~panicked
      /\ inFlight' \subseteq inFlight
      /\ UNCHANGED <<callVars, connections, phase, waiting, expiring,
                     transactions, trxId, senders, dialVars, answered,
                     loopVars>>
  BY DEF Receive, Arrives
<1>b. \/ UNCHANGED <<done, connDone, stopped, panicked>>
      \/ /\ t # NoTrx /\ t.kind = "announce"
         /\ SetResponse({t.req}, res)
         /\ stopped' = stopped \cup {t} /\ UNCHANGED connDone
      \/ /\ t # NoTrx /\ t.kind = "connect"
         /\ connDone' = [connDone EXCEPT ![t.req] = res]
         /\ panicked' = (connDone[t.req] # Open)
         /\ stopped' = stopped \cup {t} /\ UNCHANGED done
  BY DEF Receive
<1>c. t # NoTrx =>
         /\ t \in Trxs /\ t.req \in Requests
         /\ trxId[t] # NoId /\ res \in Results
         /\ res # Open /\ res # Failed("collision")
         /\ t.kind = "announce" =>
               t = Announce(t.req) /\ (m.action = "announce" => m.trx = t)
         /\ t.kind = "connect" => t = Connect(t.req)
  <2> SUFFICES ASSUME NEW u, u = t, u # NoTrx
               PROVE  /\ u \in Trxs /\ u.req \in Requests
                      /\ trxId[u] # NoId /\ res \in Results
                      /\ res # Open /\ res # Failed("collision")
                      /\ u.kind = "announce" =>
                           /\ u = Announce(u.req)
                           /\ m.action = "announce" => m.trx = u
                      /\ u.kind = "connect" => u = Connect(u.req)
    OBVIOUS
  <2>1. /\ u \in Trxs /\ trxId[u] # NoId /\ res \in Results
        /\ m.action \in {"connect", "announce", "error"}
        /\ u.kind = "announce" =>
              u = Announce(u.req) /\ (m.action = "announce" => m.trx = u)
        /\ u.kind = "connect" => u = Connect(u.req)
    <3> HIDE DEF IInv
    <3> QED BY ReceiveFacts
  <2>2. res # Open /\ res # Failed("collision")
    BY <2>1, ResultFacts DEF Kinds
  <2> QED BY <2>1, <2>2, TrxFacts
<1> HIDE DEF t
<1>d. /\ stopped \subseteq stopped' /\ stopped' \subseteq Trxs
      /\ panicked' \in BOOLEAN
  <2>1. stopped \subseteq stopped' /\ stopped' \subseteq Trxs
    BY <1>b, <1>c, TypeParts DEF TrxType
  <2>2. panicked' \in BOOLEAN
    <3>1. panicked \in BOOLEAN
      BY TypeParts DEF LoopType
    <3>2. CASE SetResponse({t.req}, res)
      BY <3>2 DEF SetResponse
    <3>3. CASE panicked' = (connDone[t.req] # Open)
      BY <3>3
    <3> QED BY <1>b, <3>1, <3>2, <3>3
  <2> QED BY <2>1, <2>2
<1>e. /\ done' \in [Requests -> Results]
      /\ \A r \in Requests :
            \/ done'[r] = done[r]
            \/ /\ trxId[Announce(r)] # NoId
               /\ done'[r] # Open
               /\ done'[r].kind = "announce" => done'[r].from = Announce(r)
  <2>1. CASE UNCHANGED done
    BY <2>1, TypeParts DEF CallType
  <2>2. CASE t # NoTrx /\ t.kind = "announce" /\ SetResponse({t.req}, res)
    <3>1. /\ done' \in [Requests -> Results]
          /\ done'[t.req] = res
          /\ \A r \in Requests : r # t.req => done'[r] = done[r]
      BY <2>2, <1>c, TypeParts DEF SetResponse, CallType
    <3>2. res.kind = m.action /\ res.from = m.trx
      OBVIOUS
    <3> HIDE DEF res
    <3> QED BY <2>2, <3>1, <3>2, <1>c
  <2> QED BY <1>b, <2>1, <2>2
<1>f. /\ connDone' \in [Requests -> Results]
      /\ \A c \in Requests :
            \/ connDone'[c] = connDone[c]
            \/ /\ trxId[Connect(c)] # NoId /\ Connect(c) \in stopped'
               /\ connDone'[c] # Failed("collision")
  <2>1. CASE UNCHANGED connDone
    BY <2>1, TypeParts DEF ConnType
  <2>2. CASE /\ t # NoTrx /\ t.kind = "connect"
             /\ connDone' = [connDone EXCEPT ![t.req] = res]
             /\ stopped' = stopped \cup {t}
    <3> HIDE DEF res
    <3>1. /\ connDone' \in [Requests -> Results]
          /\ connDone'[t.req] = res
          /\ \A c \in Requests : c # t.req => connDone'[c] = connDone[c]
      BY <2>2, <1>c, TypeParts DEF ConnType
    <3> QED BY <2>2, <3>1, <1>c
  <2> QED BY <1>b, <2>1, <2>2
<1> HIDE DEF res
<1>1. TypeOK'
  <2>1. CallType'
    BY <1>a, <1>e, TypeParts DEF CallType
  <2>2. ConnType'
    BY <1>a, <1>f, TypeParts DEF ConnType
  <2>3. TrxType' /\ DialType' /\ NetType'
    BY <1>a, <1>d, TypeParts DEF TrxType, DialType, NetType
  <2>4. LoopType'
    BY <1>a, <1>d, TypeParts DEF LoopType
  <2> QED BY <2>1, <2>2, <2>3, <2>4, TypePartsNext
<1>2. Untouched'
  BY <1>a, <1>e, <1>f DEF Untouched
<1>3. MapsOwn' /\ AnnouncesRegistered' /\ SendersHaveIds'
  BY <1>a DEF MapsOwn, AnnouncesRegistered, SendersHaveIds, Registered
<1>4. DiallingOwns'
  BY <1>a, <1>d DEF DiallingOwns, Dialling, Mapped, Registered, CtxDone
<1>5. ConnectStopped'
  <2> SUFFICES ASSUME NEW c \in Requests
               PROVE  /\ \/ connDone'[c] \in {Open, Failed("collision")}
                         \/ Connect(c) \in stopped'
                      /\ connDone'[c] = Failed("collision") =>
                            trxId[Connect(c)] = NoId
                      /\ connector[c] = "resolving" => Connect(c) \notin senders
                      /\ connector[c] = "reporting" /\ Connect(c) \in senders =>
                            CtxDone(Connect(c))'
    BY <1>a DEF ConnectStopped
  <2>1. CtxDone(Connect(c)) => CtxDone(Connect(c))'
    BY <1>a, <1>d DEF CtxDone
  <2> QED BY <1>d, <1>f, <2>1 DEF ConnectStopped
<1>6. WaitingIsFresh'
  BY <1>a, <1>e DEF WaitingIsFresh, Mapped
<1>7. FlightOwned'
  BY <1>a DEF FlightOwned
<1>8. ConnectingIsDialled'
  <2>1. \A c \in Requests : connDone'[c] # Failed("collision")
           <=> connDone[c] # Failed("collision")
    BY <1>f DEF ConnectStopped
  <2> QED BY <1>a, <2>1 DEF ConnectingIsDialled, Dialling, Mapped
<1>9. ExpiryOwnsConnection'
  BY <1>a DEF ExpiryOwnsConnection, Mapped
<1>10. RequestHasOneHome'
  BY <1>a, <1>e DEF RequestHasOneHome, Mapped, Registered
<1>11. NoOrphanSender'
  BY <1>a, <1>d DEF NoOrphanSender, CtxDone, Registered
<1>12. NoCrossTalk'
  BY <1>e DEF NoCrossTalk
<1> QED
  BY <1>1, <1>2, <1>3, <1>4, <1>5, <1>6, <1>7, <1>8, <1>9, <1>10, <1>11, <1>12

\* The requests closeC answers, and the transactions it cancels.
LEMMA ShutdownStep ==
  ASSUME IInv, Shutdown PROVE IInv'
<1> USE NullAssumption DEF IInv, callVars, connVars, dialVars, netVars
<1>a. /\ running /\ running' = FALSE /\ stopped' = CancelAll
      /\ UNCHANGED <<callVars, connVars, transactions, trxId, senders,
                     dialVars, netVars, listening, closed>>
  BY DEF Shutdown
<1>b. PICK reqs \in SUBSET Requests :
         /\ \A r \in reqs :
               \E c \in Requests : Mapped(c) /\ r \in waiting[c]
         /\ SetResponse(reqs, Failed("closing"))
  <2> DEFINE all == UNION {waiting[c] : c \in
                              {connections[d] : d \in Dests} \ {NoConn}}
  <2>1. ASSUME NEW r \in all
        PROVE  /\ r \in Requests
               /\ \E c \in Requests : Mapped(c) /\ r \in waiting[c]
    <3>1. PICK d \in Dests : /\ connections[d] # NoConn
                             /\ r \in waiting[connections[d]]
      BY <2>1
    <3>2. connections[d] \in Requests /\ Mapped(connections[d])
      BY <3>1, TypeParts DEF MapsOwn, Mapped, ConnType
    <3> QED BY <3>1, <3>2, TypeParts DEF ConnType
  <2>2. SetResponse(all, Failed("closing"))
    BY DEF Shutdown
  <2>3. all \in SUBSET Requests
    BY <2>1
  <2> HIDE DEF all
  <2> QED BY <2>1, <2>2, <2>3
<1>c. \A r \in reqs : done[r] = Open
  BY <1>a, <1>b DEF WaitingIsFresh
<1>d. /\ done' \in [Requests -> Results] /\ panicked' = FALSE
      /\ \A r \in reqs : done'[r].kind = "closing"
      /\ \A r \in Requests \ reqs : done'[r] = done[r]
  <2>1. PICK res \in Results : res = Failed("closing") /\ res.kind = "closing"
    BY ResultFacts DEF Kinds
  <2>2. TypeOK /\ SetResponse(reqs, res)
    BY <1>b, <2>1
  <2>3. /\ done' \in [Requests -> Results] /\ panicked' = FALSE
        /\ \A r \in reqs : done'[r] = res
        /\ \A r \in Requests \ reqs : done'[r] = done[r]
    BY <1>c, <2>2, SetResponseFacts
  <2> QED BY <2>1, <2>3
<1>e. /\ stopped \subseteq stopped' /\ stopped' \subseteq Trxs
      /\ \A t \in Trxs : Registered(t) => t \in stopped'
  BY <1>a, TypeParts DEF CancelAll, Registered, TrxType, TrxMap
<1>1. TypeOK'
  <2>1. CallType'
    BY <1>a, <1>d, TypeParts DEF CallType
  <2>2. ConnType' /\ TrxType' /\ DialType' /\ NetType'
    BY <1>a, <1>e, TypeParts DEF ConnType, TrxType, DialType, NetType
  <2>3. LoopType'
    BY <1>a, <1>d, TypeParts DEF LoopType
  <2> QED BY <2>1, <2>2, <2>3, TypePartsNext
<1>2. Untouched'
  BY <1>a, <1>b, <1>d DEF Untouched
<1>3. MapsOwn' /\ AnnouncesRegistered' /\ SendersHaveIds'
  BY <1>a DEF MapsOwn, AnnouncesRegistered, SendersHaveIds, Registered
<1>4. DiallingOwns'
  BY <1>a, <1>e, TrxFacts DEF DiallingOwns, Dialling, CtxDone
<1>5. ConnectStopped'
  BY <1>a, <1>e DEF ConnectStopped, CtxDone
<1>6. WaitingIsFresh' /\ FlightOwned'
  BY <1>a DEF WaitingIsFresh, FlightOwned
<1>7. ConnectingIsDialled' /\ ExpiryOwnsConnection' /\ RequestHasOneHome'
  BY <1>a DEF ConnectingIsDialled, ExpiryOwnsConnection, RequestHasOneHome
<1>8. NoOrphanSender'
  BY <1>a, <1>e, TypeParts DEF NoOrphanSender, CtxDone, TrxType
<1>9. NoCrossTalk'
  BY <1>d DEF NoCrossTalk
<1> QED BY <1>1, <1>2, <1>3, <1>4, <1>5, <1>6, <1>7, <1>8, <1>9
-----------------------------------------------------------------------------
(* The invariant                                                           *)

LEMMA InitIInv == Init => IInv
<1> SUFFICES ASSUME Init PROVE IInv
  OBVIOUS
<1> USE NullAssumption DEF Init
<1>1. TypeOK
  <2>1. CallType
    BY ResultFacts DEF CallType
  <2>2. ConnType
    BY ResultFacts DEF ConnType
  <2>3. TrxType /\ DialType /\ NetType
    BY DEF TrxType, TrxMap, DialType, NetType
  <2>4. LoopType
    BY DEF LoopType
  <2> QED BY <2>1, <2>2, <2>3, <2>4, TypeParts
<1>2. Untouched
  BY TrxFacts DEF Untouched
<1>3. MapsOwn /\ AnnouncesRegistered /\ SendersHaveIds
  BY TrxFacts DEF MapsOwn, AnnouncesRegistered, SendersHaveIds
<1>4. DiallingOwns /\ ConnectStopped
  BY ResultFacts DEF DiallingOwns, ConnectStopped, Dialling, Kinds
<1>5. \A c \in Requests : ~Mapped(c)
  BY DestAssumption DEF Mapped
<1>6. WaitingIsFresh /\ FlightOwned
  BY <1>5 DEF WaitingIsFresh, FlightOwned
<1>7. ConnectingIsDialled /\ ExpiryOwnsConnection /\ RequestHasOneHome
  BY <1>5
     DEF ConnectingIsDialled, ExpiryOwnsConnection, RequestHasOneHome, Dialling
<1>8. NoOrphanSender /\ NoCrossTalk
  BY ResultFacts DEF NoOrphanSender, NoCrossTalk
<1> QED BY <1>1, <1>2, <1>3, <1>4, <1>6, <1>7, <1>8 DEF IInv

LEMMA StutterStep ==
  ASSUME IInv, UNCHANGED vars PROVE IInv'
<1> USE DEF IInv, vars, callVars, connVars, trxVars, dialVars, netVars, loopVars
<1>1. TypeOK'
  <2>1. CallType' /\ ConnType' /\ TrxType' /\ DialType' /\ NetType'
    BY TypeParts DEF CallType, ConnType, TrxType, DialType, NetType
  <2>2. LoopType'
    BY TypeParts DEF LoopType
  <2> QED BY <2>1, <2>2, TypePartsNext
<1>2. Untouched'
  BY DEF Untouched
<1>3. MapsOwn' /\ AnnouncesRegistered' /\ SendersHaveIds'
  BY DEF MapsOwn, AnnouncesRegistered, SendersHaveIds, Registered
<1>4. DiallingOwns' /\ ConnectStopped'
  BY DEF DiallingOwns, ConnectStopped, Dialling, Mapped, Registered, CtxDone
<1>5. WaitingIsFresh' /\ FlightOwned'
  BY DEF WaitingIsFresh, FlightOwned, Mapped
<1>6. ConnectingIsDialled' /\ ExpiryOwnsConnection'
  BY DEF ConnectingIsDialled, ExpiryOwnsConnection, Dialling, Mapped
<1>7. RequestHasOneHome'
  BY DEF RequestHasOneHome, Mapped, Registered
<1>8. NoOrphanSender' /\ NoCrossTalk'
  BY DEF NoOrphanSender, NoCrossTalk, CtxDone, Registered
<1> QED BY <1>1, <1>2, <1>3, <1>4, <1>5, <1>6, <1>7, <1>8

LEMMA NextIInv == IInv /\ [Next]_vars => IInv'
<1> SUFFICES ASSUME IInv, [Next]_vars PROVE IInv'
  OBVIOUS
<1>1. ASSUME NEW r \in Requests, DoReturn(r) PROVE IInv'
  BY <1>1, DoReturnStep
<1>2. ASSUME NEW r \in Requests, CancelRequest(r) PROVE IInv'
  BY <1>2, CancelRequestStep
<1>3. ASSUME NEW r \in Requests, Connector(r) PROVE IInv'
  BY <1>3, ResolveStep, AwaitConnectStep, ConnectorStopsStep DEF Connector
<1>4. ASSUME NEW t \in Trxs, RetryTick(t) PROVE IInv'
  BY <1>4, RetryTickStep
<1>5. CASE Close
  BY <1>5, CloseStep
<1>6. ASSUME NEW r \in Requests, HandleRequest(r) PROVE IInv'
  BY <1>6, HandleRequestStep
<1>7. ASSUME NEW r \in Requests, ConnectDone(r) PROVE IInv'
  BY <1>7, ConnectDoneStep
<1>8. ASSUME NEW r \in Requests, ConnectionExpired(r) PROVE IInv'
  BY <1>8, ConnectionExpiredStep
<1>9. ASSUME NEW m \in inFlight, Receive(m) PROVE IInv'
  BY <1>9, ReceiveStep
<1>10. CASE Shutdown
  BY <1>10, ShutdownStep
<1>11. CASE Terminated \/ UNCHANGED vars
  BY <1>11, StutterStep DEF Terminated
<1> QED
  BY <1>1, <1>2, <1>3, <1>4, <1>5, <1>6, <1>7, <1>8, <1>9, <1>10, <1>11
     DEF Next, Loop

LEMMA Invariance == Spec => []IInv
BY InitIInv, NextIInv, PTL DEF Spec
-----------------------------------------------------------------------------
(* The theorems                                                            *)

\* The variables of Transport.Run and of the goroutines around it keep their
\* types (transport.go:73-253).
THEOREM TypeCorrect == Spec => []TypeOK
<1>1. IInv => TypeOK
  BY DEF IInv
<1> QED BY <1>1, Invariance, PTL

\* The expiry timers are exactly those of the established connections in the
\* map: connectionExpired deletes the connection it was armed for and no
\* other (transport.go:161-189).
THEOREM ExpiryOwnsConnectionCorrect == Spec => []ExpiryOwnsConnection
<1>1. IInv => ExpiryOwnsConnection
  BY DEF IInv
<1> QED BY <1>1, Invariance, PTL

\* A connection in the map that is not established has exactly one connector
\* at work, unless its transaction id collided (transport.go:111-139).
THEOREM ConnectingIsDialledCorrect == Spec => []ConnectingIsDialled
<1>1. IInv => ConnectingIsDialled
  BY DEF IInv
<1> QED BY <1>1, Invariance, PTL

\* A request the loop took and has not answered waits for the connection in
\* the map or has its transaction in the map, and never both
\* (transport.go:105-140, 174-186).
THEOREM RequestHasOneHomeCorrect == Spec => []RequestHasOneHome
<1>1. IInv => RequestHasOneHome
  BY DEF IInv
<1> QED BY <1>1, Invariance, PTL

\* No retransmitting sender survives Run: one whose context is not done has
\* its transaction in the map, where closeC cancels it
\* (transport.go:245-247, 355-373).
THEOREM NoOrphanSenderCorrect == Spec => []NoOrphanSender
<1>1. IInv => NoOrphanSender
  BY DEF IInv
<1> QED BY <1>1, Invariance, PTL

\* An announce is never answered with the reply to another announce
\* (transport.go:199-235).
THEOREM NoCrossTalkCorrect == Spec => []NoCrossTalk
<1>1. IInv => NoCrossTalk
  BY DEF IInv
<1> QED BY <1>1, Invariance, PTL

\* The requests that a case of the loop other than readC answers have no
\* answer yet.
LEMMA QuietSteps ==
  ASSUME IInv, [Next]_vars, ~panicked, panicked'
  PROVE  \E m \in inFlight : Receive(m)
<1> USE DEF IInv
<1>1. ASSUME NEW reqs, NEW res, SetResponse(reqs, res),
             \A r \in reqs : done[r] = Open
      PROVE  FALSE
  BY <1>1 DEF SetResponse
<1>2. ASSUME NEW r \in Requests, HandleRequest(r) PROVE FALSE
  <2>1. done[r] = Open
    BY <1>2 DEF HandleRequest, Untouched
  <2>2. CASE SetResponse({r}, Failed("listen"))
    BY <1>1, <2>1, <2>2
  <2>3. CASE NewConnection(r) \/ JoinConnection(r)
    BY <2>3 DEF NewConnection, JoinConnection
  <2>4. CASE BeginAnnounces(transactions, {r})
    <3>1. PICK reqs \in SUBSET {r} : SetResponse(reqs, Failed("collision"))
      BY <2>4 DEF BeginAnnounces
    <3> QED BY <1>1, <2>1, <3>1
  <2> QED BY <1>2, <2>2, <2>3, <2>4 DEF HandleRequest, UseConnection
<1>3. ASSUME NEW c \in Requests, ConnectDone(c) PROVE FALSE
  <2>1. \A r \in waiting[c] : done[r] = Open
    BY <1>3, ConnectDoneFacts DEF ConnectDone
  <2>2. CASE SetResponse(waiting[c], Failed(connectErr[c]))
    BY <1>1, <2>1, <2>2
  <2>3. CASE BeginAnnounces(Freed(c), waiting[c])
    <3>1. PICK reqs \in SUBSET waiting[c] :
             SetResponse(reqs, Failed("collision"))
      BY <2>3 DEF BeginAnnounces
    <3> QED BY <1>1, <2>1, <3>1
  <2> QED BY <1>3, <2>2, <2>3 DEF ConnectDone, Freed
<1>4. ASSUME Shutdown PROVE FALSE
  <2> DEFINE all == UNION {waiting[c] : c \in
                              {connections[d] : d \in Dests} \ {NoConn}}
  <2>1. ASSUME NEW r \in all PROVE done[r] = Open
    <3>1. PICK d \in Dests : /\ connections[d] # NoConn
                             /\ r \in waiting[connections[d]]
      BY <2>1
    <3>2. connections[d] \in Requests /\ Mapped(connections[d])
      BY <3>1, TypeParts DEF MapsOwn, Mapped, ConnType
    <3> QED BY <1>4, <3>1, <3>2, TypeParts
            DEF Shutdown, WaitingIsFresh, ConnType
  <2>2. SetResponse(all, Failed("closing"))
    BY <1>4 DEF Shutdown
  <2> HIDE DEF all
  <2> QED BY <1>1, <2>1, <2>2
<1>5. ASSUME NEW r \in Requests,
             \/ DoReturn(r) \/ CancelRequest(r) \/ Connector(r)
             \/ ConnectionExpired(r)
      PROVE  FALSE
  BY <1>5 DEF DoReturn, CancelRequest, Connector, Resolve, AwaitConnect,
              ConnectorStops, ConnectionExpired
<1>6. ASSUME NEW t \in Trxs, RetryTick(t) PROVE FALSE
  BY <1>6 DEF RetryTick
<1>7. CASE Close \/ Terminated \/ UNCHANGED vars
  BY <1>7 DEF Close, Terminated, vars
<1> HIDE DEF IInv
<1> QED BY <1>2, <1>3, <1>4, <1>5, <1>6, <1>7 DEF Next, Loop

\* Whatever the loop does, only a datagram can answer a request (or a
\* connect) a second time and so end the process (requestbase.go:26-29).
THEOREM OnlyDatagramsPanicCorrect == Spec => OnlyDatagramsPanic
<1>1. IInv /\ [Next]_vars =>
         [(panicked' /\ ~panicked) => \E m \in inFlight : Receive(m)]_vars
  BY QuietSteps
<1> QED BY <1>1, Invariance, PTL DEF Spec, OnlyDatagramsPanic
-----------------------------------------------------------------------------
(* The announce service                                                    *)

\* What SetResponse stored is an answer; there is one if it was called.
LEMMA AnswerOfFacts ==
  ASSUME NEW r \in Requests, NEW res,
         res.kind = "announce" => res.from = Announce(r)
  PROVE  /\ AnswerOf(r, res) \in {"none", "reply", "error"}
         /\ AnswerOf(r, res) = "none" <=> res = Open
BY DEF AnswerOf

\* Taking requests and answering some for the first time.
LEMMA AnswerStep ==
  ASSUME IInv, IInv', ~panicked, UNCHANGED <<closed, cancelled, panicked>>,
         \A r \in Requests :
            \/ doPc'[r] = doPc[r]
            \/ doPc[r] = "offering" /\ doPc'[r] = "waiting",
         \A r \in Requests : done[r] # Open => done'[r] = done[r]
  PROVE  Service!TakeAndAnswer
<1> DEFINE S == {r \in Requests : doPc[r] = "offering"
                                    /\ doPc'[r] = "waiting"}
           A == {r \in Requests : done[r] = Open /\ done'[r] # Open}
<1>1. S \in SUBSET {r \in Requests : CallState[r] = "offered"}
  BY DEF CallState
<1>2. CallState' = [r \in Requests |-> IF r \in S THEN "taken"
                                       ELSE CallState[r]]
  BY DEF CallState
<1>3. A \in SUBSET {r \in Requests : Answers[r] = "none"
                                      /\ CallState'[r] # "offered"}
  <2>1. ASSUME NEW r \in A PROVE doPc'[r] # "offering"
    BY DEF IInv, Untouched
  <2>2. ASSUME NEW r \in A PROVE Answers[r] = "none"
    BY DEF Answers, AnswerOf
  <2> QED BY <2>1, <2>2 DEF CallState
<1>4. [r \in A |-> Answers'[r]] \in [A -> {"reply", "error"}]
  <2>1. ASSUME NEW r \in A PROVE Answers'[r] \in {"reply", "error"}
    <3>1. done'[r].kind = "announce" => done'[r].from = Announce(r)
      BY DEF IInv, NoCrossTalk
    <3>2. Answers'[r] = AnswerOf(r, done'[r])
      BY DEF Answers
    <3> QED BY <3>1, <3>2, AnswerOfFacts
  <2> QED BY <2>1
<1>5. Answers' = [r \in Requests |->
                    IF r \in A THEN [q \in A |-> Answers'[q]][r]
                    ELSE Answers[r]]
  <2>1. ASSUME NEW r \in Requests \ A PROVE done'[r] = done[r]
    OBVIOUS
  <2>2. ASSUME NEW r \in Requests PROVE Answers'[r] = AnswerOf(r, done'[r])
    BY DEF Answers
  <2>3. ASSUME NEW r \in Requests PROVE Answers[r] = AnswerOf(r, done[r])
    BY DEF Answers
  <2>4. Answers' = [r \in Requests |-> Answers'[r]]
    BY DEF Answers
  <2> HIDE DEF A
  <2> QED BY <2>1, <2>2, <2>3, <2>4
<1>6. UNCHANGED <<Released, panicked>>
  BY DEF Released
<1> HIDE DEF S, A
<1> QED BY <1>1, <1>2, <1>3, <1>4, <1>5, <1>6 DEF Service!TakeAndAnswer

\* SetResponse changes no answer, as long as it does not end the process.
LEMMA AnswersStay ==
  ASSUME NEW reqs, NEW res, SetResponse(reqs, res), ~panicked'
  PROVE  \A r \in Requests : done[r] # Open => done'[r] = done[r]
BY DEF SetResponse

LEMMA BegunAnswersStay ==
  ASSUME NEW map, NEW reqs, BeginAnnounces(map, reqs), ~panicked'
  PROVE  \A r \in Requests : done[r] # Open => done'[r] = done[r]
<1>1. PICK late \in SUBSET reqs : SetResponse(late, Failed("collision"))
  BY DEF BeginAnnounces
<1> QED BY <1>1, AnswersStay

\* The cases of the loop that answer requests, when they do not end the
\* process.
LEMMA LoopAnswers ==
  ASSUME IInv, ~panicked, ~panicked', NEW r \in Requests,
         HandleRequest(r) \/ ConnectDone(r)
  PROVE  \A q \in Requests : done[q] # Open => done'[q] = done[q]
<1>1. CASE HandleRequest(r)
  <2>1. CASE SetResponse({r}, Failed("listen"))
    BY <2>1, AnswersStay
  <2>2. CASE NewConnection(r) \/ JoinConnection(r)
    BY <2>2 DEF NewConnection, JoinConnection
  <2>3. CASE UseConnection(r)
    BY <2>3, BegunAnswersStay DEF UseConnection
  <2> QED BY <1>1, <2>1, <2>2, <2>3 DEF HandleRequest
<1>2. CASE ConnectDone(r)
  <2>1. CASE SetResponse(waiting[r], Failed(connectErr[r]))
    BY <2>1, AnswersStay
  <2>2. CASE BeginAnnounces([transactions EXCEPT ![trxId[Connect(r)]] = NoTrx],
                            waiting[r])
    BY <2>2, BegunAnswersStay
  <2> QED BY <1>2, <2>1, <2>2 DEF ConnectDone
<1> QED BY <1>1, <1>2

\* A case of the loop takes requests or answers some, or it ends the process.
LEMMA LoopStep ==
  ASSUME IInv, IInv', ~panicked, Loop
  PROVE  \/ Service!TakeAndAnswer \/ Service!Crash
<1>1. CASE panicked'
  <2>1. panicked' = TRUE
    BY <1>1, TypePartsNext DEF IInv, LoopType
  <2>2. PICK m \in inFlight : Receive(m)
    BY <1>1, QuietSteps DEF Next
  <2>3. UNCHANGED <<doPc, cancelled, closed>>
    BY <2>2 DEF Receive, callVars, loopVars
  <2>4. UNCHANGED <<CallState, Released>>
    BY <2>3 DEF CallState, Released
  <2> QED BY <2>1, <2>4 DEF Service!Crash
<1>2. CASE ~panicked'
  <2>1. UNCHANGED panicked
    BY <1>2, TypeParts, TypePartsNext DEF IInv, LoopType
  <2>2. UNCHANGED <<closed, cancelled>>
    BY DEF Loop, HandleRequest, ConnectDone, ConnectionExpired, Receive,
           Shutdown, callVars, loopVars
  <2>3. \A r \in Requests :
           \/ doPc'[r] = doPc[r]
           \/ doPc[r] = "offering" /\ doPc'[r] = "waiting"
    <3>1. CASE UNCHANGED doPc
      BY <3>1
    <3>2. ASSUME NEW r \in Requests, HandleRequest(r)
          PROVE  \A q \in Requests :
                    \/ doPc'[q] = doPc[q]
                    \/ doPc[q] = "offering" /\ doPc'[q] = "waiting"
      BY <3>2, TypeParts DEF HandleRequest, IInv, CallType
    <3> QED BY <3>1, <3>2 DEF Loop, ConnectDone, ConnectionExpired, Receive,
                              Shutdown, callVars
  <2>4. \A r \in Requests : done[r] # Open => done'[r] = done[r]
    <3>1. ASSUME NEW r \in Requests, HandleRequest(r) \/ ConnectDone(r)
          PROVE  \A q \in Requests : done[q] # Open => done'[q] = done[q]
      BY <1>2, <3>1, LoopAnswers
    <3>2. CASE UNCHANGED done
      BY <3>2
    <3>3. ASSUME NEW reqs, NEW res, SetResponse(reqs, res)
          PROVE  \A q \in Requests : done[q] # Open => done'[q] = done[q]
      BY <1>2, <3>3, AnswersStay
    <3> QED BY <3>1, <3>2, <3>3 DEF Loop, ConnectionExpired, Receive, Shutdown
  <2> QED BY <2>1, <2>2, <2>3, <2>4, AnswerStep
<1> QED BY <1>1, <1>2

\* A call that returns has its answer or was released.
LEMMA ReturnStep ==
  ASSUME IInv, NEW r \in Requests, DoReturn(r) PROVE Service!Return(r)
<1>1. doPc' = [doPc EXCEPT ![r] = "returned"] /\ DoReady(r)
  BY DEF DoReturn
<1>2. UNCHANGED <<done, closed, cancelled, panicked>>
  BY DEF DoReturn, loopVars
<1>3. CallState[r] # "returned"
  BY <1>1 DEF DoReady, CallState
<1>4. CallState' = [CallState EXCEPT ![r] = "returned"]
  BY <1>1, TypeParts DEF IInv, CallType, CallState
<1>5. Answers[r] # "none" \/ r \in Released
  <2>1. done[r].kind = "announce" => done[r].from = Announce(r)
    BY DEF IInv, NoCrossTalk
  <2>2. Answers[r] = AnswerOf(r, done[r])
    BY DEF Answers
  <2> QED BY <1>1, <2>1, <2>2, AnswerOfFacts DEF DoReady, Released
<1>6. UNCHANGED <<Answers, Released, panicked>>
  BY <1>2 DEF Answers, Released
<1> QED BY <1>3, <1>4, <1>5, <1>6 DEF Service!Return

\* Every step of the transport is a step of the service or none.
LEMMA ServiceStep ==
  IInv /\ IInv' /\ [Next]_vars =>
     [Service!Next]_<<CallState, Answers, Released, panicked>>
<1> SUFFICES ASSUME IInv, IInv', [Next]_vars
             PROVE  \/ Service!Next
                    \/ UNCHANGED <<CallState, Answers, Released, panicked>>
  OBVIOUS
<1>1. ASSUME UNCHANGED <<doPc, done, closed, cancelled, panicked>>
      PROVE  UNCHANGED <<CallState, Answers, Released, panicked>>
  BY <1>1 DEF CallState, Answers, Released
<1>2. ASSUME NEW r \in Requests, DoReturn(r) PROVE Service!Next
  BY <1>2, ReturnStep DEF DoReturn, Service!Next
<1>3. ASSUME NEW r \in Requests, CancelRequest(r) PROVE Service!Next
  <2>1. ~panicked /\ UNCHANGED <<CallState, Answers, panicked>>
    BY <1>3 DEF CancelRequest, CallState, Answers
  <2>2. Released' = Released \cup {r}
    BY <1>3 DEF CancelRequest, Released, loopVars
  <2> QED BY <2>1, <2>2 DEF Service!Next, Service!Release
<1>4. ASSUME Close PROVE Service!Next
  <2>1. ~panicked /\ UNCHANGED <<CallState, Answers, panicked>>
    BY <1>4 DEF Close, CallState, Answers, callVars
  <2>2. Released' = Released \cup Requests
    BY <1>4, TypeParts DEF Close, Released, callVars, IInv, CallType
  <2> QED BY <2>1, <2>2 DEF Service!Next, Service!Release
<1>5. ASSUME Loop PROVE Service!Next
  <2>1. ~panicked
    BY <1>5 DEF Loop, HandleRequest, ConnectDone, ConnectionExpired, Receive,
                Shutdown
  <2> QED BY <1>5, <2>1, LoopStep DEF Service!Next
<1>6. ASSUME NEW r \in Requests, Connector(r)
      PROVE  UNCHANGED <<doPc, done, closed, cancelled, panicked>>
  BY <1>6 DEF Connector, Resolve, AwaitConnect, ConnectorStops, callVars,
              loopVars
<1>7. ASSUME NEW t \in Trxs, RetryTick(t)
      PROVE  UNCHANGED <<doPc, done, closed, cancelled, panicked>>
  BY <1>7 DEF RetryTick, callVars, loopVars
<1>8. ASSUME Terminated \/ UNCHANGED vars
      PROVE  UNCHANGED <<doPc, done, closed, cancelled, panicked>>
  BY <1>8 DEF Terminated, vars, callVars, loopVars
<1> QED
  BY <1>1, <1>2, <1>3, <1>4, <1>5, <1>6, <1>7, <1>8 DEF Next

LEMMA ServiceInit == Init => Service!Init
<1> SUFFICES ASSUME Init PROVE Service!Init
  OBVIOUS
<1>1. CallState = [r \in Requests |-> "offered"]
  BY DEF Init, CallState
<1>2. Answers = [r \in Requests |-> "none"]
  BY DEF Init, Answers, AnswerOf
<1>3. Released = {} /\ panicked = FALSE
  BY DEF Init, Released
<1> QED BY <1>1, <1>2, <1>3 DEF Service!Init

\* The transport implements the announce service: a request gets one answer,
\* the tracker's to this request or an error, a call returns only with it or
\* when it is cancelled or the transport closed, and only a second answer
\* ends the process (transport.go:46-71, 199-253).
THEOREM TransportImplementsService == Spec => ImplementsService
BY ServiceInit, ServiceStep, Invariance, PTL
   DEF Spec, ImplementsService, Service!Spec, Service!avars
=============================================================================
