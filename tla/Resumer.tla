------------------------------ MODULE Resumer ------------------------------
(***************************************************************************)
(* The resume database over the lives of the process                       *)
(* (internal/resumer/boltdbresumer, torrent/session.go:45-171).  A bbolt   *)
(* file holds one bucket of keys and texts for every torrent; the process  *)
(* may die at any moment, also in the middle of a transaction, and start   *)
(* again.  A call of AddTorrent asks the map of the session, writes to the *)
(* file and changes the map in three steps (session_add.go:165, 93, 98),   *)
(* and others run between them.  Ports, loops and locks are in Session.    *)
(***************************************************************************)
EXTENDS Integers, Sequences, FiniteSets, SequencesExt

CONSTANTS
    Ids, Hashes,
    PortNumbers,
    Times,         \* time.Now() in ticks
    Second,        \* ticks of a second
    Bitfields,
    Nil,           \* a nil slice
    Empty,         \* an empty slice or text
    Calls,         \* bound: calls of AddTorrent under way at once
    NoBucket, NoTx, NoTorrent, NoCall,
    MaxTxs,        \* bound: transactions that change the database
    MaxRuns        \* bound: lives of the process

ASSUME ValuesAssumption ==
    /\ Times \subseteq Nat /\ Second \in Nat \ {0}
    /\ Nil # Empty /\ Nil \notin Hashes \cup Bitfields
    /\ MaxTxs \in Nat /\ MaxRuns \in Nat \ {0}

VARIABLES
    disk,          \* the file: id -> bucket of texts
    tx,            \* the writing transaction (bbolt has at most one)
    txs,           \* how many there were
    runs, alive,   \* lives of the process
    session,       \* "none", "open", "closed"
    lockedBy,      \* the life that holds the lock of the file, 0 if none
    torrents,      \* s.torrents: the specification each was added with
    call,          \* a call of AddTorrent with a given id, from its check
                   \* on; spec is what it has written, NoTorrent before
    shared         \* history: ids that two calls were adding at once

vars == <<disk, tx, txs, runs, alive, session, lockedBy, torrents, call,
          shared>>
-----------------------------------------------------------------------------
(* Specifications and their texts                                          *)

\* In the order Write puts them.
FieldSeq == <<"InfoHash", "Port", "Name", "Trackers", "URLList",
    "FixedPeers", "Info", "Bitfield", "AddedAt", "BytesDownloaded",
    "BytesUploaded", "BytesWasted", "SeededFor", "Started",
    "StopAfterDownload", "StopAfterMetadata", "Version">>

Fields == ToSet(FieldSeq)

\* How a field is formatted.
Format(f) ==
    CASE f \in {"InfoHash", "Name", "Info", "Bitfield"} -> "bytes"
      [] f \in {"Trackers", "URLList", "FixedPeers"} -> "json"
      [] f = "AddedAt" -> "rfc3339"
      [] f = "SeededFor" -> "duration"
      [] f \in {"Started", "StopAfterDownload", "StopAfterMetadata"} -> "bool"
      [] OTHER -> "decimal"

\* Mutant: two fields share a key.
SharedKey(f) == IF f = "Bitfield" THEN "Info" ELSE f

\* Every field has a key of its own.
Keys(f) == f

LatestVersion == 1

VersionOf(v) == IF v = 0 THEN LatestVersion ELSE v

\* bytes: a nil slice is stored as an empty one.  JSON keeps it as null.  RFC
\* 3339 has no fraction of a second.  The other texts are exact.
Text(f, v) ==
    <<Format(f),
      IF Format(f) = "bytes" /\ v = Nil THEN Empty
      ELSE IF f = "AddedAt" THEN v \div Second
      ELSE IF f = "Version" THEN VersionOf(v)
      ELSE v>>

Value(f, text) == IF f = "AddedAt" THEN text[2] * Second ELSE text[2]

Zero(f) ==
    CASE Format(f) = "json" -> Nil
      [] f = "Name" -> Empty
      [] Format(f) = "bytes" -> Nil
      [] Format(f) = "bool" -> FALSE
      [] f = "Version" -> LatestVersion
      [] OTHER -> 0

\* Read: the info hash must be there and the port must parse; of the others a
\* missing key leaves the zero value, and a text that does not parse fails.
Readable(b) ==
    /\ b # NoBucket
    /\ {Keys("InfoHash"), Keys("Port")} \subseteq DOMAIN b
    /\ \A f \in Fields : Keys(f) \in DOMAIN b =>
          Format(f) \in {"bytes", b[Keys(f)][1]}

Read(b) ==
    [f \in Fields |-> IF Keys(f) \in DOMAIN b THEN Value(f, b[Keys(f)])
                      ELSE Zero(f)]

\* Spec.MarshalJSON and UnmarshalJSON: base64 makes a nil slice an empty one.
ThroughJSON(spec) ==
    [f \in Fields |-> IF /\ f \in {"InfoHash", "Info", "Bitfield"}
                         /\ spec[f] = Nil
                      THEN Empty ELSE spec[f]]

\* The specification AddTorrent writes: the bytes of the info come with the
\* hash; every counter, the bit field and Started are zero values.
Added(h, p, now) ==
    [f \in Fields |->
        CASE f \in {"InfoHash", "Info", "Name", "Trackers", "URLList"} -> h
          [] f = "Port" -> p
          [] f = "AddedAt" -> now
          [] f = "Version" -> 0
          [] OTHER -> Zero(f)]

AddedSpecs == {Added(h, p, now) :
                  h \in Hashes, p \in PortNumbers, now \in Times}

\* What WriteInfo, WriteBitfield and WriteStarted are given.
Later(f) ==
    CASE f = "Info" -> Hashes
      [] f = "Bitfield" -> Bitfields
      [] f = "Started" -> BOOLEAN
      [] OTHER -> {}

\* What a caller gets back of a specification it wrote.
Kept(spec) ==
    [f \in Fields |->
        IF f = "AddedAt" THEN spec[f] - (spec[f] % Second)
        ELSE IF f = "Version" /\ spec[f] = 0 THEN LatestVersion
        ELSE IF f \in {"InfoHash", "Info", "Bitfield"} /\ spec[f] = Nil
        THEN Empty ELSE spec[f]]

IsSpec(s) == DOMAIN s = Fields

\* The values of fields, and the buckets with all fields.
FieldValues == Hashes \cup PortNumbers \cup Bitfields \cup Nat \cup BOOLEAN
               \cup {Nil, Empty}

Formats == {"bytes", "json", "rfc3339", "duration", "bool", "decimal"}

WholeBuckets == [Fields -> Formats \X FieldValues]

ASSUME NothingAssumption ==
    /\ NoTorrent \notin [Fields -> FieldValues]
    /\ NoBucket \notin WholeBuckets
    /\ NoCall \notin Calls
          \cup [id : Ids, spec : [Fields -> FieldValues] \cup {NoTorrent}]
-----------------------------------------------------------------------------
TypeOK ==
    /\ \A i \in Ids : disk[i] # NoBucket =>
          DOMAIN disk[i] \subseteq {Keys(f) : f \in Fields}
    /\ tx # NoTx => /\ tx.id \in Ids /\ tx.caller \in Calls \cup {NoCall}
                    /\ ToSet(tx.puts) \subseteq Fields
                    /\ tx.done \in 0 .. Len(tx.puts)
    /\ txs \in 0 .. MaxTxs
    /\ runs \in 1 .. MaxRuns /\ alive \in BOOLEAN
    /\ session \in {"none", "open", "closed"}
    /\ lockedBy \in 0 .. MaxRuns
    /\ \A i \in Ids : torrents[i] = NoTorrent \/ IsSpec(torrents[i])
    /\ \A c \in Calls : call[c] # NoCall =>
          call[c].id \in Ids
          /\ (call[c].spec = NoTorrent \/ IsSpec(call[c].spec))
    /\ shared \subseteq Ids

NoTorrents == [i \in Ids |-> NoTorrent]
NoCalls == [c \in Calls |-> NoCall]

Init ==
    /\ disk = [i \in Ids |-> NoBucket]
    /\ tx = NoTx /\ txs = 0
    /\ runs = 1 /\ alive = TRUE
    /\ session = "none"
    /\ lockedBy = 0
    /\ torrents = NoTorrents
    /\ call = NoCalls /\ shared = {}
-----------------------------------------------------------------------------
(* Sessions                                                                *)

\* NewSession: the file is opened if nobody has it; if the closed session of
\* this process has it, the call fails and changes nothing.  The ids in the
\* file are collected into a local variable and not used.
NewSession ==
    /\ alive /\ session # "open"
    /\ lockedBy = 0
    /\ lockedBy' = runs
    /\ session' = "open"
    /\ torrents' = NoTorrents
    /\ UNCHANGED <<disk, tx, txs, runs, alive, call, shared>>

\* Session.Close ends the torrents and leaves the database open, so a call of
\* AddTorrent that is under way goes on.
CloseSession ==
    /\ alive /\ session = "open"
    /\ session' = "closed"
    /\ torrents' = NoTorrents
    /\ UNCHANGED <<disk, tx, txs, runs, alive, lockedBy, call, shared>>

\* The process exits, is killed, panics or crashes: the kernel drops the lock,
\* and a transaction that was not committed is gone.
Ends ==
    /\ alive' = FALSE
    /\ tx' = NoTx
    /\ lockedBy' = 0
    /\ session' = "none"
    /\ torrents' = NoTorrents
    /\ call' = NoCalls /\ shared' = {}
    /\ UNCHANGED <<disk, txs, runs>>

Die == alive /\ Ends

Restart ==
    /\ ~alive
    /\ runs < MaxRuns
    /\ alive' = TRUE /\ runs' = runs + 1
    /\ UNCHANGED <<disk, tx, txs, session, lockedBy, torrents, call, shared>>
-----------------------------------------------------------------------------
(* Calls of AddTorrent                                                     *)

\* "duplicate torrent id": the map of this session is asked, not the file.
Unused(i) == torrents[i] = NoTorrent

\* initTorrent, under mTorrents, with a given id.  (A generated id is new, and
\* Session has those.)  A closed session has a nil map, which holds nothing.
Check(c, i) ==
    /\ session # "none"
    /\ call[c] = NoCall
    /\ Unused(i)
    /\ call' = [call EXCEPT ![c] = [id |-> i, spec |-> NoTorrent]]
    /\ shared' = shared \cup
         {j \in {i} : \E d \in Calls : call[d] # NoCall /\ call[d].id = j}
    /\ UNCHANGED <<disk, tx, txs, runs, alive, session, lockedBy, torrents>>

\* Between its check and its transaction.
Checked(c) ==
    /\ call[c] # NoCall /\ call[c].spec = NoTorrent
    /\ tx # NoTx => tx.caller # c

\* The storage, the id or the torrent cannot be made.
NewTorrentFails(c) ==
    /\ Checked(c)
    /\ call' = [call EXCEPT ![c] = NoCall]
    /\ UNCHANGED <<disk, tx, txs, runs, alive, session, lockedBy, torrents,
                   shared>>

\* insertTorrent, under mTorrents: whatever is under the id is replaced.
Insert(c) ==
    /\ call[c] # NoCall /\ call[c].spec # NoTorrent
    /\ session = "open"
    /\ torrents' = [torrents EXCEPT ![call[c].id] = call[c].spec]
    /\ call' = [call EXCEPT ![c] = NoCall]
    /\ UNCHANGED <<disk, tx, txs, runs, alive, session, lockedBy, shared>>

\* The same after Close, which made the map nil: a panic.
InsertPanics(c) ==
    /\ call[c] # NoCall /\ call[c].spec # NoTorrent
    /\ session = "closed"
    /\ Ends
-----------------------------------------------------------------------------
(* Transactions                                                            *)

\* The database is open from NewSession to the end of the process; bbolt lets
\* one transaction write at a time.
Begin(i, c, spec, puts) ==
    /\ session # "none" /\ tx = NoTx
    /\ txs < MaxTxs
    /\ txs' = txs + 1
    /\ tx' = [id |-> i, caller |-> c, spec |-> spec, puts |-> puts,
              done |-> 0]
    /\ UNCHANGED <<disk, runs, alive, session, lockedBy, torrents, call,
                   shared>>

\* Resumer.Write, called by AddTorrent.
Write(c, spec) == Checked(c) /\ Begin(call[c].id, c, spec, FieldSeq)

\* WriteInfo, WriteBitfield, WriteStarted, which nothing calls yet.  Without a
\* bucket they do nothing and report success.
WriteField(i, f, v) ==
    /\ disk[i] # NoBucket
    /\ Begin(i, NoCall, [g \in {f} |-> v], <<f>>)

\* The bucket as the transaction has it.
Image(t) ==
    LET old == IF disk[t.id] = NoBucket THEN << >> ELSE disk[t.id]
        new == ToSet(SubSeq(t.puts, 1, t.done))
        keys == {Keys(f) : f \in new}
        last(k) == CHOOSE f \in new : Keys(f) = k
    IN  [k \in keys \cup DOMAIN old |->
            IF k \in keys THEN Text(last(k), t.spec[last(k)]) ELSE old[k]]

\* Mutant: every put is a transaction of its own.
StoredAtOnce(t) == [disk EXCEPT ![t.id] = Image(t)]

\* Until the commit the file is as it was.
StoredBeforeCommit(t) == disk

MorePuts(t) == t.done < Len(t.puts)

Put ==
    /\ tx # NoTx /\ MorePuts(tx)
    /\ LET t == [tx EXCEPT !.done = @ + 1]
       IN  tx' = t /\ disk' = StoredBeforeCommit(t)
    /\ UNCHANGED <<txs, runs, alive, session, lockedBy, torrents, call,
                   shared>>

\* AddTorrent goes on to insert what it has written.
Succeeds(t) ==
    IF t.caller = NoCall THEN call
                         ELSE [call EXCEPT ![t.caller].spec = t.spec]

\* The commit is atomic and durable (external).
Commit ==
    /\ tx # NoTx /\ ~MorePuts(tx)
    /\ disk' = [disk EXCEPT ![tx.id] = Image(tx)]
    /\ call' = Succeeds(tx)
    /\ tx' = NoTx
    /\ UNCHANGED <<txs, runs, alive, session, lockedBy, torrents, shared>>

\* Mutant: AddTorrent overlooks the error.
ErrorOverlooked(t) == Succeeds(t)

\* AddTorrent ends the torrent and returns the error.
Fails(t) ==
    IF t.caller = NoCall THEN call ELSE [call EXCEPT ![t.caller] = NoCall]

\* The commit fails and the caller gets the error.
Rollback ==
    /\ tx # NoTx /\ ~MorePuts(tx)
    /\ tx' = NoTx
    /\ call' = Fails(tx)
    /\ UNCHANGED <<disk, txs, runs, alive, session, lockedBy, torrents,
                   shared>>
-----------------------------------------------------------------------------
Next ==
    \/ NewSession \/ CloseSession \/ Die \/ Restart
    \/ \E c \in Calls :
          \/ \E i \in Ids : Check(c, i)
          \/ \E spec \in AddedSpecs : Write(c, spec)
          \/ NewTorrentFails(c) \/ Insert(c) \/ InsertPanics(c)
    \/ \E i \in Ids, f \in Fields : \E v \in Later(f) : WriteField(i, f, v)
    \/ Put \/ Commit \/ Rollback

Spec == Init /\ [][Next]_vars

-----------------------------------------------------------------------------
(* Properties                                                              *)

\* The database implements the store: through failed commits, crashes in the
\* middle of a transaction, restarts and torrents added again under an old id,
\* what Read returns for an id is what was last written as a whole, with the
\* fields written since (boltdbresumer.go:77-304).
Stored == [i \in Ids |-> IF disk[i] = NoBucket THEN NoTorrent
                         ELSE Read(disk[i])]

Store == INSTANCE ResumeStore WITH
            Specs <- AddedSpecs, NoSpec <- NoTorrent, store <- Stored
ImplementsStore == Store!Spec

\* Whatever was interrupted, Read fails for no id the file has; and a torrent
\* the session has is in the file, with the hash, the port and the trackers it
\* runs with, so that it could be resumed as it is, also from the JSON form of
\* that (boltdbresumer.go:163-304, session_add.go:81-98, spec.go:48-108).
\* Under an id that two calls added at once there is a torrent in the file, but
\* it may be that of the other call.
RunningIsStored ==
    /\ TypeOK
    /\ \A i \in Ids : disk[i] # NoBucket => Readable(disk[i])
    /\ \A i \in Ids : torrents[i] # NoTorrent =>
        /\ disk[i] # NoBucket
        /\ LET spec == Read(disk[i])
           IN  /\ i \notin shared =>
                      \A f \in {"InfoHash", "Port", "Trackers", "Name"} :
                          spec[f] = torrents[i][f]
               /\ spec.Version = LatestVersion
               /\ ThroughJSON(spec) = spec
=============================================================================
