------------------------------ MODULE Session ------------------------------
(***************************************************************************)
(* Adding torrents to a Session and closing it (torrent/session.go,        *)
(* session_add.go, session_torrent.go, torrent.go, torrent_commands.go).   *)
(* Any number of goroutines call AddTorrent while another one may call     *)
(* Close.  They share the pool of ports (mPorts), the map of torrents      *)
(* (mTorrents) and the resume database; every torrent has a loop.          *)
(*                                                                         *)
(* A call of AddTorrent makes at most one torrent, which is named after    *)
(* it.  A critical section with nothing to wait for inside it is one step. *)
(***************************************************************************)
EXTENDS Integers, FiniteSets

CONSTANTS
    Adders,        \* calls of AddTorrent
    Given,         \* those with an ID in their options
    Ids, TorrentId,\* the id of each torrent, given or generated
    Ports,         \* PortBegin .. PortEnd - 1
    NoPort, NoTorrent

\* uuid.NewV1 makes an id nobody else has.
ASSUME IdsAssumption ==
    /\ Given \subseteq Adders
    /\ TorrentId \in [Adders -> Ids]
    /\ \A a \in Adders \ Given, b \in Adders :
          TorrentId[a] = TorrentId[b] => a = b
ASSUME NullAssumption == NoPort \notin Ports /\ NoTorrent \notin Adders

VARIABLES
    pc, port,          \* AddTorrent: where it is, the port it holds
    availablePorts,
    torrents, isNil,   \* s.torrents, and whether Close made it nil
    db,                \* the resume database: id -> the torrent written there
    loop, closeC,      \* torrent.run and torrent.closeC
    started,           \* torrents whose loop ran start()
    closer,            \* Session.Close
    panicked

vars == <<pc, port, availablePorts, torrents, isNil, db, loop, closeC,
          started, closer, panicked>>

TypeOK ==
    /\ pc \in [Adders -> {"idle", "initTorrent", "newTorrent", "write",
                          "insert", "start", "closeTorrent", "closingTorrent",
                          "releasePort", "added", "failed"}]
    /\ port \in [Adders -> Ports \cup {NoPort}]
    /\ availablePorts \subseteq Ports
    /\ torrents \in [Ids -> Adders \cup {NoTorrent}]
    /\ isNil \in BOOLEAN
    /\ db \in [Ids -> Adders \cup {NoTorrent}]
    /\ loop \in [Adders -> {"none", "running", "done"}]
    /\ closeC \subseteq Adders
    /\ started \subseteq Adders
    /\ closer \in {"idle", "locking", "closing", "done"}
    /\ panicked \in BOOLEAN

Init ==
    /\ pc = [a \in Adders |-> "idle"]
    /\ port = [a \in Adders |-> NoPort]
    /\ availablePorts = Ports
    /\ torrents = [i \in Ids |-> NoTorrent]
    /\ isNil = FALSE
    /\ db = [i \in Ids |-> NoTorrent]
    /\ loop = [a \in Adders |-> "none"]
    /\ closeC = {}
    /\ started = {}
    /\ closer = "idle"
    /\ panicked = FALSE

\* mTorrents is held over several steps by Close alone.
Unlocked == closer # "closing"

GoTo(a, label) == pc' = [pc EXCEPT ![a] = label]
-----------------------------------------------------------------------------
(* AddTorrent                                                              *)

\* Mutant: getPort leaves the port in the pool.
PeekPort(p) == availablePorts

\* delete(s.availablePorts, p)
TakePort(p) == availablePorts \ {p}

\* Mutant: the error is overlooked and the torrent goes on with port 0.
OutOfPortsIgnored == "initTorrent"

\* "no free port"
OutOfPorts == "failed"

GetPort(a) ==
    /\ ~panicked
    /\ pc[a] = "idle"
    /\ \/ \E p \in availablePorts :
             /\ availablePorts' = TakePort(p)
             /\ port' = [port EXCEPT ![a] = p]
             /\ GoTo(a, "initTorrent")
       \/ /\ availablePorts = {}
          /\ GoTo(a, OutOfPorts)
          /\ UNCHANGED <<port, availablePorts>>
    /\ UNCHANGED <<torrents, isNil, db, loop, closeC, started, closer,
                   panicked>>

\* The rest of initTorrent: the check of a given id under mTorrents, then
\* GetStorage, which may fail.
InitTorrent(a) ==
    /\ ~panicked
    /\ pc[a] = "initTorrent"
    /\ a \in Given => Unlocked
    /\ \/ GoTo(a, "releasePort")
       \/ /\ a \in Given => torrents[TorrentId[a]] = NoTorrent
          /\ GoTo(a, "newTorrent")
    /\ UNCHANGED <<port, availablePorts, torrents, isNil, db, loop, closeC,
                   started, closer, panicked>>

\* newTorrent starts the torrent's loop as its last action.
NewTorrent(a) ==
    /\ ~panicked
    /\ pc[a] = "newTorrent"
    /\ \/ /\ GoTo(a, "releasePort")
          /\ UNCHANGED loop
       \/ /\ GoTo(a, "write")
          /\ loop' = [loop EXCEPT ![a] = "running"]
    /\ UNCHANGED <<port, availablePorts, torrents, isNil, db, closeC, started,
                   closer, panicked>>

\* Mutants: a failed write is ignored; the deferred calls run in the order
\* they were written in, the port first.
WriteIgnored == "insert"
PortFirst == "releasePort"

\* Where addTorrent goes on after a failed write.
WriteFailed == "closeTorrent"

\* s.resumer.Write
Write(a) ==
    /\ ~panicked
    /\ pc[a] = "write"
    /\ \/ /\ db' = [db EXCEPT ![TorrentId[a]] = a]
          /\ GoTo(a, "insert")
       \/ /\ GoTo(a, WriteFailed)
          /\ UNCHANGED db
    /\ UNCHANGED <<port, availablePorts, torrents, isNil, loop, closeC,
                   started, closer, panicked>>

\* Mutant: the torrent is not put into the map.
NotInserted(a) == torrents

Inserted(a) == [torrents EXCEPT ![TorrentId[a]] = a]

\* insertTorrent: after Close the map is nil and the assignment panics.
InsertTorrent(a) ==
    /\ ~panicked
    /\ pc[a] = "insert"
    /\ Unlocked
    /\ \/ /\ isNil
          /\ panicked' = TRUE
          /\ UNCHANGED <<pc, torrents>>
       \/ /\ ~isNil
          /\ torrents' = Inserted(a)
          /\ GoTo(a, "start")
          /\ UNCHANGED panicked
    /\ UNCHANGED <<port, availablePorts, isNil, db, loop, closeC, started,
                   closer>>

\* Mutant: Start() waits for the loop only.
StartWaits(a) == FALSE

\* case <-t.closeC of Start()
StartAbandoned(a) == a \in closeC

\* t.Start(): its send meets the receive of the loop, which runs start().
StartTorrent(a) ==
    /\ ~panicked
    /\ pc[a] = "start"
    /\ \/ /\ loop[a] = "running"
          /\ started' = started \cup {a}
       \/ /\ StartAbandoned(a)
          /\ UNCHANGED started
    /\ GoTo(a, "added")
    /\ UNCHANGED <<port, availablePorts, torrents, isNil, db, loop, closeC,
                   closer, panicked>>

\* close(t.closeC); closing it twice panics.
CloseChannels(S) ==
    /\ closeC' = closeC \cup S
    /\ panicked' = (S \cap closeC # {})

\* The deferred calls after a failed write: t.Close(), which waits for the
\* loop, then releasePort.
CloseTorrent(a) ==
    /\ ~panicked
    /\ pc[a] = "closeTorrent"
    /\ CloseChannels({a})
    /\ GoTo(a, "closingTorrent")
    /\ UNCHANGED <<port, availablePorts, torrents, isNil, db, loop, started,
                   closer>>

TorrentClosed(a) ==
    /\ ~panicked
    /\ pc[a] = "closingTorrent"
    /\ loop[a] = "done"
    /\ GoTo(a, "releasePort")
    /\ UNCHANGED <<port, availablePorts, torrents, isNil, db, loop, closeC,
                   started, closer, panicked>>

ReleasePort(a) ==
    /\ ~panicked
    /\ pc[a] = "releasePort"
    /\ availablePorts' = availablePorts \cup {port[a]}
    /\ port' = [port EXCEPT ![a] = NoPort]
    /\ GoTo(a, "failed")
    /\ UNCHANGED <<torrents, isNil, db, loop, closeC, started, closer,
                   panicked>>
-----------------------------------------------------------------------------
(* The torrent's loop                                                      *)

\* case <-t.closeC of run()
LoopEnds(a) ==
    /\ ~panicked
    /\ loop[a] = "running"
    /\ a \in closeC
    /\ loop' = [loop EXCEPT ![a] = "done"]
    /\ UNCHANGED <<pc, port, availablePorts, torrents, isNil, db, closeC,
                   started, closer, panicked>>
-----------------------------------------------------------------------------
(* Session.Close                                                           *)

\* Mutant: Close reaches the torrents that are still being added, too.
EveryTorrent == {a \in Adders : loop[a] # "none"}

\* range s.torrents
InMap == {torrents[i] : i \in Ids} \ {NoTorrent}

CloseSession ==
    /\ ~panicked
    /\ closer = "idle"
    /\ closer' = "locking"
    /\ UNCHANGED <<pc, port, availablePorts, torrents, isNil, db, loop,
                   closeC, started, panicked>>

CloseTorrents ==
    /\ ~panicked
    /\ closer = "locking"
    /\ closer' = "closing"
    /\ CloseChannels(InMap)
    /\ UNCHANGED <<pc, port, availablePorts, torrents, isNil, db, loop,
                   started>>

\* Mutant: the wait group counts every torrent there ever was.
WaitForEveryone == \A a \in Adders : loop[a] = "done"

\* wg.Wait()
AllClosed == \A a \in InMap : loop[a] = "done"

SessionClosed ==
    /\ ~panicked
    /\ closer = "closing"
    /\ AllClosed
    /\ closer' = "done"
    /\ isNil' = TRUE
    /\ torrents' = [i \in Ids |-> NoTorrent]
    /\ UNCHANGED <<pc, port, availablePorts, db, loop, closeC, started,
                   panicked>>
-----------------------------------------------------------------------------
AddStep(a) ==
    \/ GetPort(a) \/ InitTorrent(a) \/ NewTorrent(a) \/ Write(a)
    \/ InsertTorrent(a) \/ StartTorrent(a) \/ CloseTorrent(a)
    \/ TorrentClosed(a) \/ ReleasePort(a)

\* The states the session may rest in.
Terminated ==
    /\ \/ panicked
       \/ /\ \A a \in Adders : pc[a] \in {"added", "failed"}
          /\ closer = "done"
    /\ UNCHANGED vars

Next ==
    \/ \E a \in Adders : AddStep(a) \/ LoopEnds(a)
    \/ CloseSession \/ CloseTorrents \/ SessionClosed
    \/ Terminated

Spec == Init /\ [][Next]_vars

\* Goroutines that can go on do so; nobody has to call AddTorrent or Close.
Fairness ==
    /\ \A a \in Adders :
          /\ WF_vars(pc[a] # "idle" /\ AddStep(a))
          /\ WF_vars(LoopEnds(a))
    /\ WF_vars(CloseTorrents) /\ WF_vars(SessionClosed)

FairSpec == Spec /\ Fairness
-----------------------------------------------------------------------------
(* Properties                                                              *)

\* No port is lost and none is given out twice: a port is in the pool or held
\* by exactly one call of AddTorrent (or its torrent), on every error path
\* (session.go:181-196, session_add.go:52-56, 145-155).
PortsConserved ==
    /\ \A p \in Ports :
          p \in availablePorts <=> \A a \in Adders : port[a] # p
    /\ \A a, b \in Adders : port[a] = port[b] /\ port[a] # NoPort => a = b

\* A port goes back to the pool only when its torrent can no longer listen on
\* it: the deferred Close runs before the deferred releasePort
\* (session_add.go:52-79).
RunningHoldsPort ==
    \A a \in Adders : loop[a] = "running" => port[a] # NoPort

\* A torrent with an id of its own that was added is in the map, so that Close
\* closes it, or it was closed (session_add.go:133-143, session.go:154-168).
AddedIsManaged ==
    \A a \in Adders :
        (/\ pc[a] \in {"start", "added"}
         /\ \A b \in Adders : TorrentId[b] = TorrentId[a] => b = a)
        => torrents[TorrentId[a]] = a \/ (isNil /\ loop[a] = "done")

\* A torrent in the map can be resumed, and an AddTorrent that failed leaves
\* nothing behind, in the map, the database, the loops or the pool
\* (session_add.go:47-100).
FailureLeavesNothing ==
    /\ \A i \in Ids : torrents[i] # NoTorrent => db[i] # NoTorrent
    /\ \A a \in Adders : pc[a] = "failed" =>
          /\ loop[a] # "running" /\ port[a] = NoPort
          /\ \A i \in Ids : torrents[i] # a /\ db[i] # a

\* No torrent is closed twice: the only panic is an insertion after Close.
OnlyInsertPanics ==
    [][(panicked' /\ ~panicked) =>
            \E a \in Adders : isNil /\ InsertTorrent(a)]_vars

\* AddTorrent returns and Close returns, whatever they meet of each other
\* (mTorrents, startCommandC, doneC).
CallsReturn ==
    /\ \A a \in Adders :
          (pc[a] # "idle") ~> (pc[a] \in {"added", "failed"} \/ panicked)
    /\ (closer # "idle") ~> (closer = "done" \/ panicked)

\* "duplicate torrent id" (session_add.go:166): there are never two torrents
\* with one id.
OneTorrentPerId ==
    \A a, b \in Adders :
        (/\ TorrentId[a] = TorrentId[b]
         /\ pc[a] = "added" /\ pc[b] = "added"
         /\ loop[a] = "running" /\ loop[b] = "running")
        => a = b
=============================================================================
