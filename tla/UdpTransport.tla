---------------------------- MODULE UdpTransport ----------------------------
(***************************************************************************)
(* The UDP tracker transport (internal/tracker/udptracker/transport.go).   *)
(* Many announcers call Do at once; one goroutine, Run, owns the maps      *)
(* "connections" and "transactions"; around it run one resolver/connector  *)
(* per new connection, one retransmitting sender per transaction, one      *)
(* expiry timer per established connection and the socket reader.          *)
(*                                                                         *)
(* A connection is created by the first request for its destination, and a *)
(* request creates at most one, so a connection object is named by its     *)
(* creator.  Payloads, addresses and connection ids are abstracted; the    *)
(* transaction ids, which the code draws at random, are kept.              *)
(***************************************************************************)
EXTENDS Integers, FiniteSets

CONSTANTS
    Requests,    \* the announce requests, one call of Do each
    Dests,       \* the tracker addresses
    Dest,        \* Dest[r] is req.dest
    TrxIds,      \* the transaction ids rand.Int31 draws from
    Duplicates,  \* whether a reply may arrive more than once
    NoConn, NoTrx, NoId

Trxs == [kind : {"connect", "announce"}, req : Requests]
Connect(c) == [kind |-> "connect", req |-> c]
Announce(r) == [kind |-> "announce", req |-> r]

ASSUME DestAssumption == Dest \in [Requests -> Dests]
ASSUME DuplicatesAssumption == Duplicates \in BOOLEAN
ASSUME NullAssumption ==
    NoConn \notin Requests /\ NoTrx \notin Trxs /\ NoId \notin TrxIds

VARIABLES
    \* callers of Do
    doPc,         \* where the caller of request r is
    cancelled,    \* requests whose context is cancelled
    done,         \* what SetResponse stored before it closed req.done
    \* connection objects
    connections,  \* the map of Run: destination -> connection
    phase,        \* connectedAt.IsZero() or not
    waiting,      \* conn.requests
    connDone,     \* SetResponse of the connection
    expiring,     \* connections whose expiry goroutine is alive
    \* transaction objects
    transactions, \* the map of Run: id -> transaction
    trxId,        \* trx.id
    stopped,      \* transactions whose cancel function was called
    senders,      \* transactions given a retryTransaction goroutine
    \* resolveDestinationAndConnect goroutines
    connector, connectErr,
    \* the network
    inFlight, answered,
    \* Run
    listening, closed, running, panicked

callVars == <<doPc, cancelled>>
connVars == <<connections, phase, waiting, connDone, expiring>>
trxVars  == <<transactions, trxId, stopped, senders>>
dialVars == <<connector, connectErr>>
netVars  == <<inFlight, answered>>
loopVars == <<listening, closed, running>>
vars == <<callVars, done, connVars, trxVars, dialVars, netVars, loopVars,
          panicked>>

Open == [kind |-> "none", from |-> NoTrx]
Failed(e) == [kind |-> e, from |-> NoTrx]
Messages == [trx : Trxs, action : {"connect", "announce", "error"}]

TypeOK ==
    LET Kinds == {"none", "connect", "announce", "error", "listen",
                  "collision", "resolve", "cancelled", "closing"}
        Results == [kind : Kinds, from : Trxs \cup {NoTrx}]
    IN
    /\ doPc \in [Requests -> {"offering", "waiting", "returned"}]
    /\ cancelled \subseteq Requests
    /\ done \in [Requests -> Results]
    /\ connections \in [Dests -> Requests \cup {NoConn}]
    /\ phase \in [Requests -> {"none", "connecting", "connected"}]
    /\ waiting \in [Requests -> SUBSET Requests]
    /\ connDone \in [Requests -> Results]
    /\ expiring \subseteq Requests
    /\ transactions \in [TrxIds -> Trxs \cup {NoTrx}]
    /\ trxId \in [Trxs -> TrxIds \cup {NoId}]
    /\ stopped \subseteq Trxs
    /\ senders \subseteq Trxs
    /\ connector \in
         [Requests -> {"none", "resolving", "awaiting", "reporting", "ended"}]
    /\ connectErr \in [Requests -> {"none", "resolve", "cancelled", "error"}]
    /\ inFlight \subseteq Messages
    /\ answered \subseteq Trxs
    /\ listening \in BOOLEAN /\ closed \in BOOLEAN
    /\ running \in BOOLEAN /\ panicked \in BOOLEAN

Init ==
    /\ doPc = [r \in Requests |-> "offering"]
    /\ cancelled = {}
    /\ done = [r \in Requests |-> Open]
    /\ connections = [d \in Dests |-> NoConn]
    /\ phase = [c \in Requests |-> "none"]
    /\ waiting = [c \in Requests |-> {}]
    /\ connDone = [c \in Requests |-> Open]
    /\ expiring = {}
    /\ transactions = [i \in TrxIds |-> NoTrx]
    /\ trxId = [t \in Trxs |-> NoId]
    /\ stopped = {}
    /\ senders = {}
    /\ connector = [c \in Requests |-> "none"]
    /\ connectErr = [c \in Requests |-> "none"]
    /\ inFlight = {}
    /\ answered = {}
    /\ listening \in BOOLEAN          \* net.ListenUDP may fail
    /\ closed = FALSE
    /\ running = TRUE
    /\ panicked = FALSE

\* Mutant: transactions are begun under context.Background().
CtxOfItsOwn(t) == t \in stopped

\* trx.ctx is a child of the context of the request (or, for a connection,
\* of the request that created it).
CtxDone(t) == t \in stopped \/ t.req \in cancelled

(***************************************************************************)
(* SetResponse stores the result and closes req.done; closing it a second  *)
(* time panics, and a panic in Run ends the process.                       *)
(***************************************************************************)
SetResponse(reqs, res) ==
    /\ done' = [r \in Requests |-> IF r \in reqs THEN res ELSE done[r]]
    /\ panicked' = \E r \in reqs : done[r] # Open

-----------------------------------------------------------------------------
(* Callers of Do, and what the outside does to the transport.  A panic ends *)
(* the process: no action is possible after it.                            *)

\* Mutant: the second select of Do without the case of the context.
DoIgnoresContext(r) ==
    \/ doPc[r] = "waiting" /\ (done[r] # Open \/ closed)
    \/ doPc[r] = "offering" /\ (r \in cancelled \/ closed)

\* The two selects of Do: whichever channel is ready may be taken.
DoReady(r) ==
    \/ doPc[r] = "waiting" /\ done[r] # Open
    \/ doPc[r] \in {"offering", "waiting"} /\ (r \in cancelled \/ closed)

DoReturn(r) ==
    /\ ~panicked
    /\ DoReady(r)
    /\ doPc' = [doPc EXCEPT ![r] = "returned"]
    /\ UNCHANGED <<cancelled, done, connVars, trxVars, dialVars, netVars,
                   loopVars, panicked>>

\* The announcer cancels the context of its announce.
CancelRequest(r) ==
    /\ ~panicked
    /\ r \notin cancelled
    /\ doPc[r] \in {"offering", "waiting"}
    /\ cancelled' = cancelled \cup {r}
    /\ UNCHANGED <<doPc, done, connVars, trxVars, dialVars, netVars,
                   loopVars, panicked>>

Close ==
    /\ ~panicked
    /\ ~closed
    /\ closed' = TRUE
    /\ UNCHANGED <<callVars, done, connVars, trxVars, dialVars, netVars,
                   listening, running, panicked>>
-----------------------------------------------------------------------------
(* Run: the cases of its select                                            *)

\* Mutants of delete(connections, dest): forgotten, and dropping the entry.
UnmapForgotten(c) == connections
UnmapKey(c) == [d \in Dests \ {Dest[c]} |-> connections[d]]

\* delete(connections, dest)
Unmap(c) == [connections EXCEPT ![Dest[c]] = NoConn]

\* Mutant: an id in use is taken over.
BeginsUnchecked(map, reqs, ids, started) == started = reqs

(***************************************************************************)
(* beginTransaction for every request of reqs, "map" being the map the     *)
(* loop is at.  The ids are random: started are those whose id was free    *)
(* when their turn came, the others collide.                               *)
(***************************************************************************)
Begins(map, reqs, ids, started) ==
    /\ started \subseteq reqs
    /\ \A r \in started : map[ids[r]] = NoTrx
    /\ \A r, q \in started : ids[r] = ids[q] => r = q
    /\ \A r \in reqs \ started :
          map[ids[r]] # NoTrx \/ \E q \in started : ids[q] = ids[r]

\* Begin the announce transactions of reqs, each with its sender goroutine;
\* a request whose id collides is answered with the error.
BeginAnnounces(map, reqs) ==
    \E ids \in [reqs -> TrxIds], started \in SUBSET reqs :
        /\ Begins(map, reqs, ids, started)
        /\ transactions' = [i \in TrxIds |->
              IF \E r \in started : ids[r] = i
              THEN Announce(CHOOSE r \in started : ids[r] = i)
              ELSE map[i]]
        /\ trxId' = [t \in Trxs |->
              IF t.kind = "announce" /\ t.req \in started
              THEN ids[t.req] ELSE trxId[t]]
        /\ senders' = senders \cup {Announce(r) : r \in started}
        /\ SetResponse(reqs \ started, Failed("collision"))
        /\ UNCHANGED stopped

\* A request for a destination without connection: newConnection, and a
\* connect transaction unless its id collides.
NewConnection(r) ==
    /\ connections[Dest[r]] = NoConn
    /\ connections' = [connections EXCEPT ![Dest[r]] = r]
    /\ phase' = [phase EXCEPT ![r] = "connecting"]
    /\ waiting' = [waiting EXCEPT ![r] = {r}]
    /\ \E id \in TrxIds :
          \/ /\ transactions[id] = NoTrx
             /\ transactions' = [transactions EXCEPT ![id] = Connect(r)]
             /\ trxId' = [trxId EXCEPT ![Connect(r)] = id]
             /\ connector' = [connector EXCEPT ![r] = "resolving"]
             /\ UNCHANGED connDone
          \/ /\ transactions[id] # NoTrx
             /\ connDone' = [connDone EXCEPT ![r] = Failed("collision")]
             /\ UNCHANGED <<transactions, trxId, connector>>
    /\ UNCHANGED <<done, panicked, expiring, stopped, senders, connectErr>>

\* conn.requests = append(conn.requests, req)
JoinConnection(r) ==
    LET c == connections[Dest[r]] IN
    /\ c # NoConn
    /\ phase[c] = "connecting"
    /\ waiting' = [waiting EXCEPT ![c] = @ \cup {r}]
    /\ UNCHANGED <<done, panicked, connections, phase, connDone, expiring,
                   trxVars, dialVars>>

UseConnection(r) ==
    LET c == connections[Dest[r]] IN
    /\ c # NoConn
    /\ phase[c] = "connected"
    /\ BeginAnnounces(transactions, {r})
    /\ UNCHANGED <<connVars, dialVars>>

HandleRequest(r) ==
    /\ running /\ ~panicked
    /\ doPc[r] = "offering"
    /\ doPc' = [doPc EXCEPT ![r] = "waiting"]
    /\ \/ /\ ~listening
          /\ SetResponse({r}, Failed("listen"))
          /\ UNCHANGED <<connVars, trxVars, dialVars>>
       \/ listening /\ NewConnection(r)
       \/ listening /\ JoinConnection(r)
       \/ listening /\ UseConnection(r)
    /\ UNCHANGED <<cancelled, netVars, loopVars>>

\* Mutant: conn.requests survives the connect.
KeepRequests(c) == waiting

\* conn.requests = nil
ClearRequests(c) == [waiting EXCEPT ![c] = {}]

\* connectDone: the connector of connection c reports.
ConnectDone(c) ==
    LET freed == [transactions EXCEPT ![trxId[Connect(c)]] = NoTrx] IN
    /\ running /\ ~panicked
    /\ connector[c] = "reporting"
    /\ connector' = [connector EXCEPT ![c] = "ended"]
    /\ \/ /\ connectErr[c] # "none"
          /\ connections' = Unmap(c)
          /\ transactions' = freed
          /\ SetResponse(waiting[c], Failed(connectErr[c]))
          /\ UNCHANGED <<phase, waiting, expiring, trxId, stopped, senders>>
       \/ /\ connectErr[c] = "none"
          /\ phase' = [phase EXCEPT ![c] = "connected"]
          /\ expiring' = expiring \cup {c}
          /\ BeginAnnounces(freed, waiting[c])
          /\ waiting' = ClearRequests(c)
          /\ UNCHANGED connections
    /\ UNCHANGED <<callVars, connDone, connectErr, netVars, loopVars>>

\* One minute after connectDone the expiry goroutine sends to
\* connectionExpired, unless closeC ends it first.
ConnectionExpired(c) ==
    /\ running /\ ~panicked
    /\ c \in expiring
    /\ expiring' = expiring \ {c}
    /\ connections' = Unmap(c)
    /\ UNCHANGED <<callVars, done, phase, waiting, connDone, trxVars,
                   dialVars, netVars, loopVars, panicked>>

\* readLoop hands a datagram over to Run.
Arrives(m) ==
    /\ m \in inFlight
    /\ \/ inFlight' = inFlight \ {m}
       \/ Duplicates /\ inFlight' = inFlight

\* readC: a datagram is matched with a transaction by its id alone; the
\* transaction stays in the map.
Receive(m) ==
    LET t == transactions[trxId[m.trx]]
        res == [kind |-> m.action, from |-> m.trx]
    IN
    /\ running /\ ~panicked
    /\ Arrives(m)
    /\ \/ /\ t = NoTrx                      \* unexpected transaction id
          /\ UNCHANGED <<done, connDone, stopped, panicked>>
       \/ /\ t # NoTrx /\ t.kind = "announce"
          /\ SetResponse({t.req}, res)
          /\ stopped' = stopped \cup {t}
          /\ UNCHANGED connDone
       \/ /\ t # NoTrx /\ t.kind = "connect"
          /\ connDone' = [connDone EXCEPT ![t.req] = res]
          /\ panicked' = (connDone[t.req] # Open)
          /\ stopped' = stopped \cup {t}
          /\ UNCHANGED done
    /\ UNCHANGED <<callVars, connections, phase, waiting, expiring,
                   transactions, trxId, senders, dialVars, answered, loopVars>>

\* Mutant: the transactions are left alone.
CancelNone == stopped

\* Every transaction in the map is cancelled.
CancelAll == stopped \cup ({transactions[i] : i \in TrxIds} \ {NoTrx})

\* closeC: answer the waiting requests of every connection in the map,
\* cancel every transaction in the map, close the socket and doneC.
Shutdown ==
    /\ running /\ ~panicked
    /\ closed
    /\ running' = FALSE
    /\ SetResponse(UNION {waiting[c] : c \in
                      {connections[d] : d \in Dests} \ {NoConn}},
                   Failed("closing"))
    /\ stopped' = CancelAll
    /\ UNCHANGED <<callVars, connVars, transactions, trxId, senders, dialVars,
                   netVars, listening, closed>>
-----------------------------------------------------------------------------
(* The goroutines around the loop                                          *)

ConnectorEnds(c, err) ==
    /\ connector' = [connector EXCEPT ![c] = "reporting"]
    /\ connectErr' = [connectErr EXCEPT ![c] = err]
    /\ UNCHANGED senders

\* resolver.Resolve, bounded by the DNS timeout and by the context.
Resolve(c) ==
    /\ ~panicked
    /\ connector[c] = "resolving"
    /\ \/ ConnectorEnds(c, "resolve")
       \/ CtxDone(Connect(c)) /\ ConnectorEnds(c, "cancelled")
       \/ /\ connector' = [connector EXCEPT ![c] = "awaiting"]
          /\ senders' = senders \cup {Connect(c)}
          /\ UNCHANGED connectErr
    /\ UNCHANGED <<callVars, done, connVars, transactions, trxId, stopped,
                   netVars, loopVars, panicked>>

\* The select of sendAndReceiveConnect: both channels may be ready.
AwaitConnect(c) ==
    /\ ~panicked
    /\ connector[c] = "awaiting"
    /\ \/ connDone[c].kind = "connect" /\ ConnectorEnds(c, "none")
       \/ connDone[c].kind \notin {"none", "connect"}
          /\ ConnectorEnds(c, "error")
       \/ CtxDone(Connect(c)) /\ ConnectorEnds(c, "cancelled")
    /\ UNCHANGED <<callVars, done, connVars, transactions, trxId, stopped,
                   netVars, loopVars, panicked>>

\* Mutant: the connector may give up its report at any time.
ConnectorGivesUp(c) ==
    /\ ~panicked
    /\ connector[c] = "reporting"
    /\ connector' = [connector EXCEPT ![c] = "ended"]
    /\ UNCHANGED <<callVars, done, connVars, trxVars, connectErr, netVars,
                   loopVars, panicked>>

\* The select on connectDoneC or stopC.
ConnectorStops(c) ==
    /\ ~panicked
    /\ connector[c] = "reporting"
    /\ closed
    /\ connector' = [connector EXCEPT ![c] = "ended"]
    /\ UNCHANGED <<callVars, done, connVars, trxVars, connectErr, netVars,
                   loopVars, panicked>>

\* A tick of retryTransaction whose datagram the tracker answers; one that is
\* lost, or whose answer is lost, changes nothing.  An error in answer to an
\* announce takes the path of a good answer and is not told apart.
RetryTick(t) ==
    /\ ~panicked
    /\ t \in senders
    /\ ~CtxDone(t)
    /\ t \notin answered
    /\ answered' = answered \cup {t}
    /\ \E a \in IF t.kind = "connect" THEN {"connect", "error"}
                                     ELSE {"announce"} :
          inFlight' = inFlight \cup {[trx |-> t, action |-> a]}
    /\ UNCHANGED <<callVars, done, connVars, trxVars, dialVars, loopVars,
                   panicked>>
-----------------------------------------------------------------------------
Loop ==
    \/ \E r \in Requests :
          HandleRequest(r) \/ ConnectDone(r) \/ ConnectionExpired(r)
    \/ \E m \in inFlight : Receive(m)
    \/ Shutdown

Connector(c) == Resolve(c) \/ AwaitConnect(c) \/ ConnectorStops(c)

\* The states the process may stop in: after a panic, or with the loop, the
\* connectors and the callers all ended.
Terminated ==
    /\ \/ panicked
       \/ /\ ~running
          /\ \A r \in Requests :
                doPc[r] = "returned" /\ connector[r] \in {"none", "ended"}
    /\ UNCHANGED vars

Next ==
    \/ \E r \in Requests : DoReturn(r) \/ CancelRequest(r) \/ Connector(r)
    \/ \E t \in Trxs : RetryTick(t)
    \/ Close
    \/ Loop
    \/ Terminated

Spec == Init /\ [][Next]_vars

(***************************************************************************)
(* The Go scheduler runs every goroutine that can run; a select with       *)
(* several ready cases takes each of them eventually.  Nothing is assumed  *)
(* of the callers, the network, the tracker or Close.                      *)
(***************************************************************************)
Fairness ==
    /\ \A r \in Requests :
          /\ WF_vars(DoReturn(r))
          /\ WF_vars(Connector(r))
          /\ WF_vars(ConnectDone(r))
          /\ WF_vars(ConnectionExpired(r))
    /\ WF_vars(Shutdown)

FairSpec == Spec /\ Fairness
-----------------------------------------------------------------------------
(* Properties                                                              *)

Mapped(c) == connections[Dest[c]] = c
Registered(t) == trxId[t] # NoId /\ transactions[trxId[t]] = t
Dialling(c) == connector[c] \in {"resolving", "awaiting", "reporting"}

\* While the loop runs, the expiry goroutines are exactly those of the
\* connected connections in the map: connectionExpired, which deletes by
\* destination, can only delete the connection it was armed for
\* (transport.go:161-189).
ExpiryOwnsConnection ==
    running =>
        \A c \in Requests :
            c \in expiring <=> (Mapped(c) /\ phase[c] = "connected")

\* A connection that is in the map without being connected is being dialled
\* by one connector, and no other connection is: there are never two connect
\* handshakes with one destination, and none is forgotten.  The exception is
\* the connection whose transaction id collided (transport.go:111-139).
ConnectingIsDialled ==
    (running /\ ~closed) =>
        \A c \in Requests :
            Dialling(c) <=> /\ Mapped(c)
                            /\ phase[c] = "connecting"
                            /\ connDone[c] # Failed("collision")

\* A request the loop took and has not answered is in exactly one place: the
\* waiting list of the connection in the map, or a transaction in the map
\* (transport.go:105-140, 174-186).
RequestHasOneHome ==
    running =>
        \A r \in Requests :
            (doPc[r] = "waiting" /\ done[r] = Open) =>
                ((\E c \in Requests : Mapped(c) /\ r \in waiting[c])
                    <=> ~Registered(Announce(r)))

\* A sender whose context is not done has its transaction in the map, where
\* closeC finds and cancels it: no retryTransaction outlives Run
\* (transport.go:245-247, 355-373).
NoOrphanSender ==
    \A t \in senders : CtxDone(t) \/ (running /\ Registered(t))

\* A reply to an announce is never given to another announce, although it is
\* matched by its random id alone (transport.go:199-235).
NoCrossTalk ==
    \A r \in Requests :
        done[r].kind = "announce" => done[r].from = Announce(r)

\* No case of the loop but the one that handles a datagram ever answers a
\* request twice (SetResponse, requestbase.go:26-29).
OnlyDatagramsPanic ==
    [][(panicked' /\ ~panicked) => \E m \in inFlight : Receive(m)]_vars

\* After Close the loop and every connector end and every call of Do returns
\* (transport.go:46-71, 237-253).
CloseCompletes ==
    closed ~> \/ panicked
              \/ /\ ~running
                 /\ \A r \in Requests :
                       ~Dialling(r) /\ doPc[r] = "returned"

CallState == [r \in Requests |->
    CASE doPc[r] = "offering" -> "offered"
      [] doPc[r] = "waiting" -> "taken"
      [] OTHER -> "returned"]

AnswerOf(r, res) ==
    IF res = Open THEN "none"
    ELSE IF res.kind # "announce" THEN "error"
    ELSE IF res.from = Announce(r) THEN "reply" ELSE "crossed"

Answers == [r \in Requests |-> AnswerOf(r, done[r])]

Released == IF closed THEN Requests ELSE cancelled

\* The transport implements the service its callers rely on: one answer per
\* request, its own, and a call returns when it is answered or released
\* (transport.go:46-71, 199-253).
Service == INSTANCE AnnounceService WITH
    state <- CallState, answer <- Answers, released <- Released,
    crashed <- panicked
ImplementsService == Service!Spec

\* Nobody waits for what was given up: a call that is cancelled, or that finds
\* the transport closed, returns; and the requests that wait for a connection
\* whose creator was cancelled are answered, as its connect is cancelled
\* (transport.go:46-71, 141-186).
WaitersReleased ==
    /\ \A r \in Requests : Service!Returns(r)
    /\ \A c, r \in Requests :
        (Dialling(c) /\ c \in cancelled /\ r \in waiting[c]) ~>
            (done[r] # Open \/ Announce(r) \in senders \/ closed \/ panicked)

\* "Unexpected transaction ID" (transport.go:202): a datagram for a
\* transaction that has had its answer is ignored.  It is not while the
\* transaction is in the map: a connect until connectDone is handled
\* (transport.go:144), an announce for ever.
NoPanic == ~panicked
=============================================================================
