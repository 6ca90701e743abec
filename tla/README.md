# zbittorrent in TLA+

This directory holds a formal model of [zbittorrent](../src), a BitTorrent
client in Go: TLA+ modules translated from its source, TLC configurations that
check them on small instances, and proofs, checked by TLAPS, that hold for every
value of the constants.  Line numbers such as `transport.go:160` refer to the
files under `src/`; `PROJECT.json` maps every definition to the lines it models.

## 1. The system

The program is young: much of a BitTorrent client (peers, pieces, resuming) is
not written yet.  What there is falls into these parts.

| part | source | state it keeps | who calls it | what is hard |
|---|---|---|---|---|
| UDP tracker transport | `internal/tracker/udptracker` | connections by destination, transactions by random id, requests waiting for a connection | announce goroutines (`Do`), the tracker manager (`Run`, `Close`) | one loop, many goroutines around it, lost and repeated datagrams, id collisions, expiry, Close |
| periodical announcer | `internal/announcer/periodic.go`, `announce.go` | status, timer, intervals, context of the next announce | the torrent loop | a loop, one goroutine per announce, cancellation, signals that may be dropped |
| stop announcer | `internal/announcer/stop.go` | a deadline, a result | the torrent loop | a result racing with Close |
| tracker tier | `internal/tracker/tier.go` | an atomic index | announce goroutines | concurrent advance, range of the index |
| HTTP tracker | `internal/tracker/httptracker` | tracker id | announce goroutines | which replies fail, the id shared by announces |
| tracker manager, resolver | `internal/trackermanager`, `internal/resolver` | the two transports | session, trackers | cancellation, blocklist lookup |
| session | `torrent/session*.go` | free ports, torrents by id, database, blocklist | the user | concurrent AddTorrent and Close, clean-up on each error path |
| torrent loop | `torrent/torrent*.go` | what it has started | session | commands racing with Close |
| acceptor | `internal/acceptor` | listener | torrent | two goroutines and Close |
| allocator, storage | `internal/allocator`, `internal/storage` | open files | torrent | failure in the middle, Close |
| resumer | `internal/resumer/boltdbresumer` | the database | session | crash between transactions |
| MSE handshake | `internal/mse` | cipher streams | peer connections | synchronisation bounds, both ends in step |
| blocklist | `internal/blocklist` | a segment tree behind a lock | resolver, session | Reload against Blocked, interval boundaries |
| bencode, metainfo | `pkg/bencode`, `internal/metainfo`, `pkg/metainfo` | none | session, trackers | canonical form, arithmetic on lengths |
| deferred lock | `pkg/deferlock` | functions to run at Unlock | nobody yet | functions added during Unlock |
| configuration, logging, commands | `cmd`, `internal/config`, `internal/log` | none of interest | | not modelled |

How they interact.  `Session.AddTorrent` takes a port, checks the id, makes the
storage and the torrent (whose loop starts at once), writes the torrent to the
database, puts it into the map and sends it the start command.  The loop then
starts an acceptor on the port and one periodical announcer per tracker tier.
Each announcer runs its own loop and starts a goroutine per announce; that
goroutine calls the tier, the tier an HTTP or a UDP tracker.  All UDP trackers
of a session share one transport: a request travels through its channel, waits
for a connection to the tracker and then for the answer to its transaction.
`Session.Close` closes the loops of the torrents in the map and then the
transport.

What makes each part correct:

* transport: a request is answered once, with its own answer or an error; one
  handshake per destination; nothing outlives Close; a cancelled caller returns;
* announcer: it never stops announcing; the completed event is announced once;
  the timer follows the need for peers; Close ends all it started;
* session: ports and ids are exclusive; a failed call leaves nothing behind; all
  that was added is closed; no call blocks for ever;
* stop announcer, acceptor, allocator: Close returns from anywhere; no
  connection, goroutine, listener or open file is left behind; a result tells
  what is on the disk;
* tier and HTTP tracker: no tracker is passed over that has not failed, the index
  moves past one that has, and a working one is found;
* resumer: a crash anywhere leaves a database that can be read and holds what
  runs;
* MSE: both ends finish with the same method and streams in step, whatever the
  padding, or both fail;
* blocklist and resolver: an address is refused exactly if a rule in force
  covers it;
* bencode and metainfo: a value has one encoding, all readers agree on where it
  ends, and an accepted torrent has pieces, files and trackers that fit.

## 2. What is modelled

One module per component, parameterised by CONSTANTS; modules that compose them
are named below.

| module | models | composed with |
|---|---|---|
| `UdpTransport` | the UDP tracker transport | implements `AnnounceService` |
| `PeriodicalAnnouncer` | the periodical announcer | |
| `Session` | AddTorrent, ports, Close, the loop of a torrent | |
| `Worker` | closeC, doneC and Close, which three workers share | extended by the next three |
| `Acceptor`, `StopAnnouncer`, `Allocator` | the workers; `Allocator` with `FileStorage.Open` | by `Workers`, with their owner |
| `HttpTracker` | which replies are a success | extended by `Tier` |
| `Tier` | the index under concurrent announces | |
| `Blocklist` | the segment tree, Reload, Blocked | extended by `Resolver` |
| `Resolver` | Resolve, with the list reloaded meanwhile | by `Inputs` |
| `Resumer` | the database over crashes and restarts, and the calls that write to it | implements `ResumeStore` |
| `Mse` | both handshakes over one connection | |
| `BencodeReaders` | the readers that know no target type; how integers and strings are written | extended by `Bencode` |
| `Bencode` | typed reading, and writing | by `Inputs` |
| `Metainfo` | `New`, `NewInfo` | by `Inputs` |
| `Inputs` | what is read from outside: bytes, a torrent file or a blocklist | `Bencode`, `Metainfo`, `Resolver` |

`MCUdpTransport` and `MCSession` only name the values that functions over model
values need.

### UdpTransport (`transport.go`, `transaction.go`, `connection.go`, `requestbase.go`)

| code | model |
|---|---|
| `Do`, its two selects | `doPc`, `DoReturn`, `CancelRequest` (the announcer cancels) |
| the maps of `Run` | `connections` (destination to connection), `transactions` (id to transaction) |
| a `connection` | named by the request that created it: `phase` (`connectedAt`), `waiting` (`requests`), `connDone` (its response) |
| a `transaction` | `[kind, req]`; `trxId`, `stopped` (its cancel function was called), `senders` (it has a `retryTransaction`) |
| `case requestC` | `HandleRequest` with `NewConnection`, `JoinConnection`, `UseConnection` |
| `case connectDone`, `connectionExpired`, `readC`, `closeC` | `ConnectDone`, `ConnectionExpired`, `Receive`, `Shutdown` |
| `resolveDestinationAndConnect`, `sendAndReceiveConnect` | `Resolve`, `AwaitConnect`, `ConnectorStops` |
| `retryTransaction` and the tracker | `RetryTick`: a datagram that is answered; a lost one changes nothing |
| `readLoop` | `Arrives`; with `Duplicates`, a datagram may come again |
| a panic | `panicked`, after which nothing happens |

Each goroutine is a state machine of its own and the model interleaves them.
`rand.Int31` is a choice from `TrxIds`; a small set makes collisions happen.
Contexts are sets (`cancelled`, `stopped`, `CtxDone`): the context of a
transaction is a child of the one of its request, and a connection has the
context of the request that created it.

### PeriodicalAnnouncer (`periodic.go`, `announce.go`)

`Start` is `Run` before its loop; each case of the select is an action
(`TimerFires`, `HandleResponse`, `HandleError`, `HandleNeedMorePeers`,
`HandleCompleted`, `HandleStats`, `HandleClose`).  `slot` and `slotCtx` hold the
announce goroutines and their contexts (`AnnounceReturns`, `AnnounceDropped`).
`NeedMorePeers` is two steps, the flag and the signal, since the loop can run
between them.  An interval is a number that is only compared and copied; an armed
timer may fire at any time.  `time.Timer` has the semantics of Go 1.23 and later
(`go.mod` asks for 1.24): a reset discards a tick not yet received.
`peersWaiting` stands for all goroutines that hold the peers of a response.  An
announce may end with `context.Canceled` although nobody cancelled it, since the
UDP transport hands the cancellation of one request to others (disagreement 3);
`announce` tells the loop nothing then.  `lost` notes that this has happened
since the last announce began.

### Session (`session.go`, `session_add.go`, `torrent.go`, `torrent_commands.go`)

`pc` says where a call of AddTorrent is; the deferred calls of its error paths
are labels of their own, in the order Go runs them (`closeTorrent`,
`closingTorrent`, `releasePort`).  A critical section with nothing to wait for
is one step; `mTorrents` is held over several steps only by Close (`Unlocked`).
Assigning to the map that Close made nil sets `panicked`.  `TorrentId` gives two
calls the same id where their options name one.

### AnnounceService, the abstract transport

What callers of `Do` rely on: a request is offered, taken, answered at most once
and returned; a call returns only when it is answered or was released (by its
context or by Close).  In the refinement mapping of `UdpTransport` (`Service`)
the state of a call comes from `doPc`, its answer from `done`, and released are
the cancelled calls and, after Close, all.  `Returns` is its liveness, that a
released call does return; `WaitersReleased` asks for it under the mapping.

### The workers of a torrent

`Worker` has the two channels and `Close`; each worker adds its `Run`, with one
action for each select or step that another goroutine can see.  `Workers` chooses
one of the three and lets its owner receive results, stop receiving and call
Close at any point.  The acceptor's helper takes either case if both channels are
ready.  The stop announcer waits for all trackers before its last select, as the
code does.  The allocator opens the files of any torrent with up to two files on
any state of the two paths; an open may fail before it touched the file, after
it created it empty, or after it set its size.

### Tier over HttpTracker

A reply is a record of what decides whether an announce succeeds, and `Error`
the function from the reply to the outcome, in the order of the code: how the
exchange ended, a declared length, decoding, a failure reason, the peers.  A
tracker in order sends any of `Working`, one out of order any of `Broken`.
`Tier` runs any number of calls over its trackers: loading the index, the reply
or a cancellation, the compare-and-swap.

### Resolver over Blocklist

The segment tree is built as the code builds it, from elementary intervals, and
is asked as the code asks it.  `insertNodes` halves a slice of the leaves, so a
node is named by the first and the last leaf of its slice; insertion and query
are functions that recurse over these names.  An address has `Width` bits, and
`Block[n]` is the number of addresses behind a prefix that leaves n bits open.
`inForce` is the reference: the addresses whose first bits are those of a rule
of the last list that loaded.  Reload holds the lock for writing, so it is one
step, between any two steps of a call.

### Resumer and ResumeStore

A transaction of bbolt puts one key after another and commits or rolls back; the
process may end at any step and start again.  A call of AddTorrent with a given
id is three steps, with others in between: `Check` asks the map for the id
(`session_add.go:165`), `Write` and what follows is the transaction (`:93`),
`Insert` changes the map (`:98`) or panics after Close.  So two calls may add one
id, and the map may end with the torrent of one and the file with that of the
other; `shared` notes the ids of which two calls were under way at once.  A
generated id meets no other and is left to `Session`, as are ports and loops.
`Text` and `Value` say what the conversions lose (`AddedAt` keeps seconds).
`ResumeStore` is what the session expects: each id holds nothing or what was
written last, as a whole. bbolt itself (atomic commits, one writer, the file
lock) is external.

### Mse

A byte is its value, the key that hides it and the place in the key stream; a
byte read at another place is garbage, so a cipher out of step shows.  Pads of
any length, any split of the first read, any mask provided and any answer to
`cryptoSelect`, known and unknown torrents, and a connection that breaks at any
point.  Diffie-Hellman and RC4 are abstract.

### Inputs: BencodeReaders, Bencode, Metainfo and Resolver

The decoder has three readers.  `BencodeReaders` translates the two that know no
target type: `One` (`readOneValue`), which only finds the end of a value, and
`Generic` (`parseValueInterface`), into `interface{}`.  What they make of the
inside of a list or a dictionary is a recursive function of the position where
the next element begins (`Skipped`, `Insides`), so that they can be proved
about; `OneOf` and `GenericOf` take that function as an argument.  `Bencode` adds
`Typed`, into a Go type, and the encoder, as recursive operators; its state
machine feeds the readers byte strings that grow and encodings that are damaged.
`Metainfo` takes a torrent file as it is after decoding, a record, to what `New`
returns; sums are int64 and wrap.  A list of trackers may be absent, empty or of
another type, which `New` tells apart by the length of its raw bytes and by
whether they decode.  URLs are known by their scheme, and trackers and web seeds
have a predicate each.  Loops over files and names are recursive functions on the
prefixes of a list, so that `Metainfo` can be proved about.  `TorrentFiles` is
every torrent file that decodes; that those TLC enumerates are among them is the
assumption `EnumeratedFilesDecode`.

A behaviour of `Inputs` is about one of three things (`about`): a byte string, a
torrent file, or a blocklist with calls of Resolve.

## 3. What is checked

| run | instance | shows |
|---|---|---|
| `udp_safety` | 3 requests, 1 destination, 2 ids, symmetry; about 2 million states | types, ownership of the expiry timer, one handshake per destination, one home per request, no orphan sender, no cross-talk between announces, no panic but from a datagram |
| `udp_liveness` | 2 requests, 2 ids; 145 346 states | Close completes, every step is one of `AnnounceService`, released calls return and the waiters of an abandoned connect are answered |
| `announcer` | 3 goroutine slots, an interval and a minimum interval; 210 008 states | types, the loop is never idle and announces recur unless one ended with the cancellation of another request; announces stay cancellable and bounded, completed once, the timer follows the flag; Close and Stats return, completion is announced |
| `session` | 3 calls (two with one id), 2 ports; 14 748 states | types, ports conserved, clean-up on every error path, added torrents are closed, no panic but the insertion after Close, every call returns |
| `workers` | 2 connections, 2 trackers, 2 files; 22 239 states | every connection, answer and file accounted for, the listener closed but in one case (disagreement 11); Close returns and helpers end |
| `tier` | 3 trackers, 3 calls at a time, 1 cancellation; 7 162 states | no tracker passed over, the index passes one that failed and never falls back to it, a working tracker is reached |
| `resumer` | 2 calls at a time, 2 ids, 2 torrents, 3 transactions, 2 lives; 327 533 states | the file stays readable and holds what runs, with its hash and port unless two calls added its id at once; the database implements `ResumeStore` |
| `mse` | keys, hashes and VC of 2 bytes, pads below 3, 2 methods; 40 728 states | the synchronisation point is found, both ends agree, both end |
| `inputs` | strings up to 5 bytes over 9 bytes, 1 byte damaged; torrent files; 3-bit addresses, lists of up to two lines; 472 287 states | round trips, the readers agree, an accepted torrent is usable, an address is refused if and only if the rules in force cover it |
| `udp_duplicate_reply` | 2 requests, duplicates | violation: a second reply panics the loop |
| `announcer_foreign_cancel` | as `announcer` | violation: an announcer waits for ever after an announce nobody cancelled ended as cancelled |
| `session_duplicate_id` | as `session` | violation: two running torrents with one id |

Why the bounds are enough.  Three requests let one own the connection, one wait
for it and one come after it; two ids let the third transaction collide, and a
collision with a finished announce happens as well, since announces stay
in the map.  One destination is the interesting case: destinations share nothing
but the id space, which the collisions cover; the proofs do not bound the
number of anything.  `AnnouncesBounded` shows that one of the announcer's three
slots is free whenever `Run` is about to announce, and is proved for any number
of slots above two, so the bound excludes nothing.  Two contexts are
all that `Run` ever makes, because only the completed event makes one.  In the
session two ports for three calls exhaust the pool, and two calls with one id
and one with another cover both branches of the id check.

Two callers are enough for a race on a tier's index, a third for one that comes
late to it, and three trackers for an index in the middle.  Three bits are the
least for which a rule has addresses between its endpoints and another rule lies
next to it, so that each kind of node of the segment tree matters.  Two methods
let the two ends differ, pads of 0 to 2 bytes against a key of 2 let a first
read end before, in and after the pad.  Two transactions of one life and one of
the next are what a stale image needs, and two calls at a time, of one id or of
two, every order of their checks, commits and insertions.  Words of the bencode
model end at 20, so that two digits overflow; five bytes hold a list in a list
or a pair of keys.  Lengths in `Metainfo` take every value of a signed word of
five bits, so that two of them wrap.

Fairness.  Every goroutine that can take a step eventually does (weak fairness
per goroutine; for the loops, per case of the select, because Go chooses among
the ready cases at random).  An armed timer fires, a deadline passes, Accept
fails once its listener is closed.  Nothing is assumed of the callers, of the
network, or that anybody calls Close.  `PeriodicallyAnnounces` and
`AnnouncesUnlessLost` assume in addition that `Tracker.Announce` returns
(`TrackerAnswers`): over UDP it does not have to, because requests are
retransmitted without a limit; over HTTP the client's timeout ends every
exchange, which is the fairness of `Tier`.  In `Mse` bytes that have arrived are
read and the caller of a failed handshake closes the connection.

Deadlock is checked where something must go on; `Terminated` in the transport
and the session and `Idle` in `Workers` name the states in which the process may
rest.  Where a behaviour simply ends (`mse`, `inputs`, `resumer`) it is
switched off.

### Disagreements between the code and what it says

Three have a run that shows them:

1. *A repeated reply ends the process* (`udp_duplicate_reply`,
   `transport.go:235`).  A second reply to a transaction that is still in the map
   closes `req.done` again.  A connect is in the map until `connectDone` is
   handled (`transport.go:144`), and the run's trace is two replies to a connect
   before that.  An announce is never deleted, so that a second reply to it is
   fatal at any time.  The loop does pass over a reply to a connect that is done,
   with "Unexpected transaction ID" (`transport.go:202`).
2. *Two torrents with one id* (`session_duplicate_id`, `session_add.go:165`).
   The check and the insertion are separate critical sections.  The commit
   (`session_add.go:93`) is a third step, so that the map may be left with one of
   the two and the database with the other; `RunningIsStored` excepts the hash,
   port, trackers and name of such a torrent.
3. *An announcer that waits for ever* (`announcer_foreign_cancel`,
   `announce.go:26`), against "Announces the torrent to the tracker periodically"
   (`periodic.go:29`).  Requests that wait for a connection get the
   `context.Canceled` of the one that opened it (`transport.go:150`).  Their
   announcers ignore it and drop every later tick (`periodic.go:117`).
   `AnnouncesUnlessLost` says that this is the only way to stop.

The others were met while modelling.  The models do what the code does, and the
properties say what holds all the same:

4. A connection whose connect collides stays in the map without a connector and
   blocks its tracker until Close (`transport.go:115-119`); `ConnectingIsDialled`
   excepts exactly this case.
5. A tier whose trackers have all failed tries the first one for ever, and a
   cancelled announce moves the index like a failed one (`tier.go:30-46`), against
   "try announce to the working Tracker" (`tier.go:9`); `WorkingTrackerReached`
   excepts cancellation.
6. The filter for the client's own address keeps as many peers from the front as
   are foreign (`httptracker.go:157-167`).  It compares with the bytes of the
   reply, so a compact list needs an external address of four bytes and a list of
   dictionaries, whose addresses have sixteen, one of sixteen; otherwise nothing
   is filtered.  The error of reading a body is dropped (`httptracker.go:88`) and
   only a declared length is limited.
7. A single web seed is kept only if its decoding failed (`metainfo.go:80`), so
   never.  A list of trackers that is present but empty takes the announce URL
   out of use (`metainfo.go:42`).  Negative lengths, sums that wrap, and a file
   under the path of another file are accepted (`info.go:151-226`).  Only the
   parts of a path are tested for ".." (`info.go:109-115`), not the name of the
   torrent, which comes first in every path (`info.go:200-226`) and is joined to
   the data directory (`filestorage.go:34`): the files of a torrent named ".."
   are put one level above it.  `AcceptedIsUsable` says that this is the only
   ".." there is.
8. `[]interface{}` cannot be read: the end of the list panics
   (`decoder.go:78`).  Raw values are written as byte strings (`encode.go:108`
   against `bytes.go:13`).  Struct fields are written unsorted
   (`encode.go:269`) and refused by the decoder.  A type error inside a list
   that a tag ignores leaves the stream inside the list (`decoder.go:540`).
   `DecodersAgree` and `EncodingRoundTrips` are about the rest.
9. Stored torrents are never resumed, against `config.go:54`; the database is
   never closed, so that a second session of one process meets its own lock as
   "locked by another process" (`session.go:79`).
10. The stopped event (`config.go:66`) is never sent, `announcePeersC` is nil
    (`torrent.go:51`), `close()` of a torrent does nothing (`torrent.go:200`),
    `BytesLeft` is never set, a session never loads a blocklist, and `crash`
    writes its dump only if the file could not be made
    (`torrent_heathcheck.go:10`).
11. The helper of an acceptor may find both `closeC` and `done` ready, when Run
    ends between a connection taken and its delivery, and then leaves the
    listener open (`acceptor.go:39`).  `NothingLeftBehind` excepts exactly this.

## 4. What is proved

All theorems hold for every value of the constants that their assumptions admit:
any number of requests, trackers, ids, calls, ports, files and intervals, any
width of an address, any length of a key.  Each proofs module has the same
shape: an inductive invariant `IInv`, `InitIInv`, the preservation of `IInv`
with one step (or one lemma) per action and under it one step per conjunct,
`Invariance == Spec => []IInv`, and the theorems, each from `Invariance`.  TLC
checked each `IInv` on the instances of the runs before it was proved (that of
`Resumer` without the range of the values on the disk, which mixes numbers and
Booleans and which TLC cannot compare).

`UdpTransport_proofs`, from `DestAssumption` (every request has a tracker) and
`NullAssumption` (the three null values are no requests, transactions or ids):

| theorem | property |
|---|---|
| `TypeCorrect` | `TypeOK` |
| `ExpiryOwnsConnectionCorrect` | `ExpiryOwnsConnection` |
| `ConnectingIsDialledCorrect` | `ConnectingIsDialled` |
| `RequestHasOneHomeCorrect` | `RequestHasOneHome` |
| `NoOrphanSenderCorrect` | `NoOrphanSender` |
| `NoCrossTalkCorrect` | `NoCrossTalk` |
| `OnlyDatagramsPanicCorrect` | `OnlyDatagramsPanic` |
| `TransportImplementsService` | `ImplementsService` |

None of the safety properties is inductive.  `NoCrossTalk` needs that a datagram
in flight belongs to a sender (`FlightOwned`), that a sender's transaction has
an id (`SendersHaveIds`), that an announce with an id is still in the map
(`AnnouncesRegistered`: only connects are ever deleted) and that the map is
indexed by the transactions' own ids (`MapsOwn`).  The handling of `connectDone`
deletes by destination and by id; that both belong to the connector that reports
is `DiallingOwns`, and that no sender of a deleted connect is left is
`ConnectStopped`.  `WaitingIsFresh` keeps waiting requests unanswered, which is
why no case of the loop but `readC` can panic.  `Untouched` says that a request
the loop has not taken names nothing yet.

The refinement is `ServiceInit` and `ServiceStep`.  A return of `Do` is `Return`
(`ReturnStep`, where `NoCrossTalk` shows that the answer is the call's own), a
cancellation and `Close` are `Release`, the steps of connectors, senders and
`readLoop` are stutters, and a step of the loop is `TakeAndAnswer` or, if it
panics, `Crash` (`LoopStep`).  The last needs that no step changes an answer
that was given, which is the invariant again: no one answers twice without a
panic (`LoopAnswers`, `AnswersStay`).

`PeriodicalAnnouncer_proofs`, from `IntervalsAssumption` (intervals are
integers) and `SlotsAssumption` (finitely many slots for announces, more than
the two that are ever used):

| theorem | property |
|---|---|
| `TypeCorrect` | `TypeOK` |
| `AnnouncerNeverIdle` | `NeverIdle` |
| `AnnouncesStayCancellable` | `AnnouncesCancellable` |
| `CompletedIsSentOnce` | `CompletedAtMostOnce` |
| `TimerFollowsTheFlag` | `TimerFollowsNeed` |
| `AnnouncesStayBounded` | `AnnouncesBounded` |

`NeverIdle` is strengthened to `WokenUp`, which says in each status what will
wake the loop, or that the announce it waits for was `lost`;
`CompletedAtMostOnce` to `CompletedCounted`, which relates the number of
completed events to `completeC` still being listened to; `ContextFresh` says
that the context of the next announce is not cancelled.  `AnnouncesBounded` is
not inductive either, because the status decides whether a tick announces:
`Counted` says that in every status but Contacting one announce fewer is under
way than the bound allows, since only the end of an announce sets another
status.

`Session_proofs`, from `IdsAssumption` (a drawn id is nobody else's; given ids
may coincide) and `NullAssumption`:

| theorem | property |
|---|---|
| `TypeCorrect` | `TypeOK` |
| `PortsAreConserved` | `PortsConserved` |
| `RunningTorrentHoldsPort` | `RunningHoldsPort` |
| `AddedTorrentIsManaged` | `AddedIsManaged` |
| `FailedAddLeavesNothing` | `FailureLeavesNothing` |
| `InsertionIsTheOnlyPanic` | `OnlyInsertPanics` |

Its `IInv` ties what a call holds (port, loop, record, place in the map) to
where the call is: `PortHeld`, `LoopPlace`, `Recorded` and `ClosePlace`.

`Tier_proofs`, from `TierAssumption` (a tier has a tracker: `parseTrackers`
makes none without):

| theorem | property |
|---|---|
| `TrackersAreTriedInOrder` | `NoTrackerSkipped` |
| `FailedTrackersAreLeft` | `FailuresMoveOn` |

The index moves long after its tracker was tried, and other calls may have moved
it before.  `MoverFailed` says that a call on its way to the compare-and-swap has
put its tracker among those that failed; the swap succeeds only on that index
and moves it by one, which keeps `SkippedFailed`: every tracker in front of the
index has failed.  `IndexAhead` says that the index is at the tracker of a call
or past it, also if the call took the first one because the index was out of
range.  So a swap that fails finds the index past its tracker already, and none
moves it back.

`Workers_proofs`, from `MaxConnsAssumption` and `LengthsAssumption` (natural
numbers):

| theorem | property |
|---|---|
| `NothingIsLeftBehind` | `NothingLeftBehind` |

One invariant per worker.  `AcceptorInv` adds that only the helper that was told
so closes the listener.  `AllocatorInv` follows the loop over the files:
`AtIndex` says which files are open at which index, `DiskAsTold` what is on the
disk of those passed and of those not yet reached, and what the flags and the
progress say of the former, `OthersUntouched` that no other path is written to.

`Resumer_proofs`, from `ValuesAssumption` and `NothingAssumption` (the null
values are no values):

| theorem | property |
|---|---|
| `RunningTorrentsAreStored` | `RunningIsStored` |
| `DatabaseImplementsStore` | `ImplementsStore` |

`TxWhole` says what a transaction under way has put so far and will put,
`DiskWhole` that every bucket on the disk was committed as a whole, and
`TorrentsStored` that a running torrent has a bucket, with what identifies the
torrent if no two calls added its id.  `CallsKnown` carries this from the commit
to the insertion: two calls of one id are noted as soon as the second passes its
check, a call alone with its id has nobody's torrent under it, and what it has
written stays in the file.  In
the refinement a commit is `Write` or `WriteField`; puts, failures, crashes and
restarts are stutters, since what `Read` makes of the disk changes at the commit
alone.

`Mse_proofs`, from `MseAssumption` (lengths are positive, methods finitely
many):

| theorem | property |
|---|---|
| `SynchronisationIsFound` | `SyncAlwaysFound` |
| `HandshakesStayInStep` | `HandshakesAgree` |

Neither property says anything of the bytes in flight, and nothing can be kept
without them: what an end reads next, and under which cipher, is decided by what
the other wrote.  `IInv` therefore describes the exchange as nine stages,
`Stage0` (nothing written) to `Stage8` (both done and data on the way).  Each
fixes where both ends are, what is on both wires byte for byte, up to the
lengths of the pads, and where the four ciphers stand.  `Errors` says why an end
may have failed.  One lemma per action takes each stage to itself or the next;
the lemmas on sequences before them say how encryption splits over
concatenation, how many bytes of pad a first read may leave (`PadsLeft`), and
that the first occurrence of the key that is looked for is behind the pad
(`SyncAt`).

`Inputs_proofs`, what is read from outside: from `BlocklistAssumption` and
`NotV4Assumption` (an IPv6 address is no IPv4 address), from
`MetainfoAssumption` (a hash has bytes, a name may be longer than "..", the
marks for nothing and for text that does not decode are no URLs), and from
`ReadersAssumption` (the largest word and the longest string are natural
numbers):

| theorem | property |
|---|---|
| `RefusedIffCovered` | `BlockedIffCovered` |
| `AcceptedTorrents` | `AcceptedIsUsable` |
| `SkipperFindsExtent` | `SameExtent` of any input, which `DecodersAgree` has for those that are fed |
| `ScalarsRoundTrip` | what `EncodingRoundTrips` says, of integers and strings anywhere in any input |

For the first, `IInv` says that the tree contains exactly the addresses in
force.  What has to be shown is that a tree that was just built does
(`TreeCovers`).  An interval is noted at nodes it covers, so whatever is found is
covered; and a covered address lies in an elementary interval, every node on the
way to that leaf meets the query and the interval, and one of them notes it
(`NodeInduction`, over the length of the slices).  The elementary intervals are
those of the sorted endpoints (`EndpointsSorted`, `LeafBetween`), and a rule
covers the segment that `ParseCIDR` makes of it (`RangeOfRule`).

The second is a theorem of `MetaSpec`, which begins with any torrent file that
decodes: any number of files and tiers, names of any length, lengths of any
sign.  The content may be a sum that wrapped after every file; it equals the sum
of the lengths wrapped once (`WrapOnce`, `TotalIsSum`).  `checkPieceDataLength`
computes on wrapped numbers too.  Since a piece length is below 2^32 and the
pieces are a string of less than 2^27 bytes, their product is below 2^63; if the
difference wrapped it would come out negative, so what is accepted is the
difference itself and the pieces cover the content (`PiecesCover`).  No part of a
path becomes ".." by being cut or by having its separators replaced
(`OnlyDotDot`; a name that is cut is three characters long or more).  A path is
cleaned part by part (`JoinSteps`), and as no part behind the name is "..", only
the first of the cleaned path can be, and only if the torrent has that name
(`DotDotFirst`, `PathDotDot`).  `KeepFacts` and `KeepTiersFacts` say that
filtering keeps exactly what is supported and leaves no empty tier;
`TrackersAreUsable` puts them together for a list that is absent, empty, of
another type or full.

The last two are about the functions of `BencodeReaders` and hold of every
sequence of bytes.  `SkipperFindsExtent`: wherever a value is read into
`interface{}`, the skipper that cuts raw values out of the stream ends at the
same byte, however lists and dictionaries are nested.  Both readers are functions
of a position that call themselves at later ones.  That each is one function that
satisfies its equation (`SkippedFacts`, `InsidesFacts`) needs that a reader goes
forward (`OnesAdvance`, `InsideAdvances`) and depends on what comes later alone
(`OnesLocal`, `InsideLocal`); then the two are compared from the end of the
input backwards (`ValuesSame`, `InsidesSame`), which covers the nesting too,
since the inside of a list begins behind the list.  `ScalarsRoundTrip`: at any
place, an integer of any size is read exactly when what the encoder writes for
it is there, and a string within the limits of the decoder likewise.  So each has
one spelling and is read back as it was.  The digits that `Decimal` writes are
the only plain ones with that value (`SpellsFacts`), and what `checkBufferedInt`
and `ParseInt` accept is plain digits or a sign in front of some that do not
begin with zero (`NumeralParts`).

On induction.  The library's induction theorems take an operator as a parameter,
which the installed provers cannot instantiate.  Where a number or a slice has to
be counted up, `NatLeast` takes the least number of a set (from `WFMin`, which
has no such parameter) and `SetInduction` follows from it for a set of numbers.
That a function defined by recursion exists at all is proved in the same way:
`Block` and the prefix sums of the allocator as the union of their initial
parts, insertion and query over the slices of leaves by `UnionsExist`, functions
on the prefixes of a list (sums, cleaned paths, filtered lists) by
`PrefixRecursion`, functions of a position in the input from its end backwards
(`DownInduction`), and the digits of all numbers up to a bound from those of
fewer (`SpellsExists`).

Only model-checked:

* every liveness property (`CloseCompletes`, `WaitersReleased`,
  `AnnouncesUnlessLost`, `CompletedAnnounced`, `CallsReturn`, `WorkersClose`,
  `WorkingTrackerReached`, `HandshakesEnd`), since TLAPS has no rules for
  fairness; neither refinement that is proved has a liveness part;
* of `DecodersAgree`, what concerns typed targets, and of `EncodingRoundTrips`,
  lists and dictionaries: `Typed` and `Encode` are recursive operators over types
  and nested values, and what these compute for every input is beyond the
  provers.  That the readers without a target type end at the same byte, and the
  round trip of integers and strings, are proved.

## 5. What is left out, and the plan

Left out of the modelled parts: the layout of datagrams and the parsing of
announce answers; the delays of `udpBackOff` (a sender may retransmit at any
moment); the ids of connections and the time an entry stays valid (an expiry may
come at any moment after the connect); logging; the counters that only Stats
shows; the sequential `NewSession`; the wording of errors; URLs of HTTP
announces, and what their answers hold: peers and the filter of the client's own
address (disagreement 6), intervals, and the tracker id, a string that announces
under way together write and read without a lock; text that is not UTF-8;
directories, flags and permissions of files; two torrents that share a path in
the data directory.

Not modelled: `pkg/deferlock`, which nothing uses, so that nothing says what it
is to promise; `pkg/infohash`, formatting of twenty bytes; `pkg/metainfo` beyond
its types, used by two commands; configuration, logging, version and commands,
which only wire the rest.

Open: the round trip of lists and dictionaries, and typed targets, for inputs of
any length.  The encoder would have to be a recursive function on some set of
values nested up to a depth, with an induction over that depth on top of
`ScalarsRoundTrip`; a typed reader, a function of positions and types.

## 6. Running

    tlc -workers 2 -config udp_safety.cfg MCUdpTransport.tla
    tlapm UdpTransport_proofs.tla
