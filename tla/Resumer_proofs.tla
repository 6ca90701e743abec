--------------------------- MODULE Resumer_proofs ---------------------------
(***************************************************************************)
(* Proofs about Resumer, for any torrents, times, and numbers of           *)
(* transactions and lives of the process.                                  *)
(***************************************************************************)
EXTENDS Resumer, SequenceTheorems, TLAPS

\* A bucket that Read accepts, with what it never holds.
WholeBucket(b) ==
    /\ b \in WholeBuckets
    /\ \A f \in Fields : b[f][1] = Format(f)
    /\ \A f \in {"InfoHash", "Info", "Bitfield"} : b[f][2] # Nil
    /\ b["Version"][2] = LatestVersion
    /\ b["AddedAt"][2] \in Nat

\* What a torrent runs with that does not change.
Identity == {"InfoHash", "Port", "Trackers", "Name"}

\* A transaction writes a specification as a whole, for a call that passed its
\* check, or a field of a bucket that is there.
TxWhole ==
    tx # NoTx =>
        /\ tx = [id |-> tx.id, caller |-> tx.caller, spec |-> tx.spec,
                 puts |-> tx.puts, done |-> tx.done]
        /\ tx.id \in Ids /\ tx.done \in 0 .. Len(tx.puts)
        /\ \/ /\ tx.caller \in Calls /\ call[tx.caller] # NoCall
              /\ call[tx.caller] = [id |-> tx.id, spec |-> NoTorrent]
              /\ tx.spec \in AddedSpecs /\ tx.puts = FieldSeq
           \/ /\ tx.caller = NoCall /\ disk[tx.id] # NoBucket
              /\ \E f \in Fields : \E v \in Later(f) :
                    tx.spec = [g \in {f} |-> v] /\ tx.puts = <<f>>

DiskWhole ==
    /\ disk \in [Ids -> WholeBuckets \cup {NoBucket}]
    /\ \A i \in Ids : disk[i] # NoBucket => WholeBucket(disk[i])

\* The bucket of id i holds what identifies spec.
HeldIn(i, spec) == \A f \in Identity : disk[i][f][2] = spec[f]

CallRecords == [id : Ids, spec : AddedSpecs \cup {NoTorrent}]

\* Two calls that add one id at once are noted.
CallsApart(c, d) ==
    (c # d /\ call[c] # NoCall /\ call[d] # NoCall /\ call[c].id = call[d].id)
        => call[c].id \in shared

\* A call that is alone with its id has nobody's torrent under it, and what it
\* has written is in the file.
CallKnown(c) ==
    call[c] # NoCall =>
        /\ call[c].id \notin shared => torrents[call[c].id] = NoTorrent
        /\ call[c].spec # NoTorrent =>
              /\ disk[call[c].id] # NoBucket
              /\ call[c].id \notin shared => HeldIn(call[c].id, call[c].spec)

CallsKnown ==
    /\ call \in [Calls -> CallRecords \cup {NoCall}]
    /\ \A c, d \in Calls : CallsApart(c, d)
    /\ \A c \in Calls : CallKnown(c)

TorrentsStored ==
    /\ torrents \in [Ids -> AddedSpecs \cup {NoTorrent}]
    /\ \A i \in Ids : torrents[i] # NoTorrent =>
          disk[i] # NoBucket /\ (i \notin shared => HeldIn(i, torrents[i]))

IInv == TypeOK /\ TxWhole /\ DiskWhole /\ CallsKnown /\ TorrentsStored
-----------------------------------------------------------------------------
\* The fields that matter are among those that Write puts.
LEMMA FieldsListed ==
  /\ FieldSeq \in Seq(Fields) /\ Len(FieldSeq) = 17
  /\ {"InfoHash", "Port", "Name", "Trackers", "Info", "Bitfield", "AddedAt",
      "Started", "Version"} \subseteq Fields
<1>1. FieldSeq = [i \in 1 .. 17 |-> FieldSeq[i]] /\ Len(FieldSeq) = 17
  BY DEF FieldSeq
<1>2. \A i \in 1 .. 17 : FieldSeq[i] \in Fields
  BY <1>1 DEF Fields, ToSet
<1>3. FieldSeq \in Seq(Fields)
  <2> DEFINE s == [i \in 1 .. 17 |-> FieldSeq[i]]
  <2>1. s \in Seq(Fields)
    BY <1>2
  <2> QED BY <1>1, <2>1
<1>4. /\ FieldSeq[1] = "InfoHash" /\ FieldSeq[2] = "Port"
      /\ FieldSeq[3] = "Name" /\ FieldSeq[4] = "Trackers"
      /\ FieldSeq[7] = "Info" /\ FieldSeq[8] = "Bitfield"
      /\ FieldSeq[9] = "AddedAt" /\ FieldSeq[14] = "Started"
      /\ FieldSeq[17] = "Version"
  BY DEF FieldSeq
<1> QED BY <1>1, <1>2, <1>3, <1>4

\* The time a torrent was added comes back without the fraction of a second.
LEMMA WholeSeconds ==
  ASSUME NEW v \in Nat, NEW s \in Nat \ {0}
  PROVE  /\ (v \div s) * s = v - (v % s) /\ v \div s \in Nat
         /\ v - (v % s) \in Nat
OBVIOUS

\* What AddTorrent writes.
LEMMA AddedTyped ==
  ASSUME NEW spec \in AddedSpecs
  PROVE  /\ spec \in [Fields -> FieldValues]
         /\ \A f \in {"InfoHash", "Info", "Name", "Trackers"} :
               spec[f] \in Hashes
         /\ spec["Version"] = 0 /\ spec["AddedAt"] \in Nat
<1>1. PICK h \in Hashes, p \in PortNumbers, now \in Times :
           spec = Added(h, p, now)
  BY DEF AddedSpecs
<1>2. \A f \in Fields : Zero(f) \in FieldValues
  BY DEF Zero, FieldValues, LatestVersion
<1>3. now \in Nat /\ 0 \in FieldValues /\ h \in FieldValues
      /\ p \in FieldValues /\ now \in FieldValues
  BY ValuesAssumption DEF FieldValues
<1>4. \A f \in Fields : spec[f] \in FieldValues
  BY <1>1, <1>2, <1>3 DEF Added
<1> QED BY <1>1, <1>3, <1>4, FieldsListed DEF Added

\* A text keeps the value, but for nil slices, fractions of a second and the
\* version.
LEMMA TextKeeps ==
  ASSUME NEW f \in Fields, NEW v \in FieldValues,
         f = "AddedAt" => v \in Nat,
         f = "Name" => v # Nil
  PROVE  /\ Text(f, v) \in Formats \X FieldValues
         /\ Text(f, v)[1] = Format(f)
         /\ f \in {"InfoHash", "Info", "Bitfield"} => Text(f, v)[2] # Nil
         /\ f = "Version" /\ v = 0 => Text(f, v)[2] = LatestVersion
         /\ f = "AddedAt" => /\ Text(f, v)[2] \in Nat
                            /\ Value(f, Text(f, v)) = v - (v % Second)
         /\ f \notin {"AddedAt", "Version"} =>
               Value(f, Text(f, v)) =
                  IF f \in {"InfoHash", "Info", "Bitfield"} /\ v = Nil
                  THEN Empty ELSE v
<1>1. /\ Format(f) \in Formats
      /\ Format(f) = "bytes" <=> f \in {"InfoHash", "Name", "Info", "Bitfield"}
  <2>1. CASE f \in {"InfoHash", "Name", "Info", "Bitfield"}
    BY <2>1 DEF Format, Formats
  <2>2. CASE f \notin {"InfoHash", "Name", "Info", "Bitfield"}
    <3>1. Format(f) \in {"json", "rfc3339", "duration", "bool", "decimal"}
      BY <2>2 DEF Format
    <3> QED BY <2>2, <3>1 DEF Formats
  <2> QED BY <2>1, <2>2
<1>2. CASE f = "AddedAt"
  <2>1. v \in Nat /\ Text(f, v) = <<Format(f), v \div Second>>
    BY <1>1, <1>2 DEF Text
  <2>2. v \div Second \in Nat /\ (v \div Second) * Second = v - (v % Second)
    BY <2>1, ValuesAssumption, WholeSeconds
  <2>3. v \div Second \in FieldValues
    BY <2>2 DEF FieldValues
  <2> QED BY <1>1, <1>2, <2>1, <2>2, <2>3 DEF Value
<1>3. CASE f = "Version"
  <2>1. Text(f, v) = <<Format(f), VersionOf(v)>>
    BY <1>1, <1>3 DEF Text
  <2>2. VersionOf(v) \in FieldValues /\ (v = 0 => VersionOf(v) = LatestVersion)
    BY DEF VersionOf, LatestVersion, FieldValues
  <2> QED BY <1>1, <1>3, <2>1, <2>2
<1>4. CASE f \notin {"AddedAt", "Version"}
  <2>1. Text(f, v) =
          <<Format(f), IF Format(f) = "bytes" /\ v = Nil THEN Empty ELSE v>>
    BY <1>4 DEF Text
  <2>2. Empty \in FieldValues /\ Empty # Nil
    BY ValuesAssumption DEF FieldValues
  <2> QED BY <1>1, <1>4, <2>1, <2>2 DEF Value
<1> QED BY <1>2, <1>3, <1>4

\* A specification that AddTorrent wrote reads as what is kept of it.
LEMMA AddedReadsAsKept ==
  ASSUME NEW spec \in AddedSpecs, NEW b,
         b = [f \in Fields |-> Text(f, spec[f])]
  PROVE  /\ WholeBucket(b) /\ Read(b) = Kept(spec)
         /\ \A f \in Identity : b[f][2] = spec[f]
<1>1. ASSUME NEW f \in Fields
      PROVE  /\ b[f] = Text(f, spec[f]) /\ spec[f] \in FieldValues
             /\ f = "AddedAt" => spec[f] \in Nat
             /\ f = "Name" => spec[f] # Nil
  BY AddedTyped, ValuesAssumption
<1>2. WholeBucket(b)
  <2>1. \A f \in Fields : /\ b[f] \in Formats \X FieldValues
                          /\ b[f][1] = Format(f)
    BY <1>1, TextKeeps
  <2>2. \A f \in {"InfoHash", "Info", "Bitfield"} : b[f][2] # Nil
    BY <1>1, TextKeeps, FieldsListed
  <2>3. b["Version"][2] = LatestVersion
    BY <1>1, TextKeeps, AddedTyped, FieldsListed
  <2>4. b["AddedAt"][2] \in Nat
    BY <1>1, TextKeeps, FieldsListed
  <2>5. b \in WholeBuckets
    BY <2>1 DEF WholeBuckets
  <2> QED BY <2>1, <2>2, <2>3, <2>4, <2>5 DEF WholeBucket
<1>3. ASSUME NEW f \in Fields
      PROVE  Value(f, b[f]) =
               IF f = "AddedAt" THEN spec[f] - (spec[f] % Second)
               ELSE IF f = "Version" /\ spec[f] = 0 THEN LatestVersion
               ELSE IF f \in {"InfoHash", "Info", "Bitfield"} /\ spec[f] = Nil
               THEN Empty ELSE spec[f]
  BY <1>1, TextKeeps, AddedTyped DEF Value
<1>4. Read(b) = Kept(spec)
  BY <1>3 DEF Read, Kept, Keys
<1>5. ASSUME NEW f \in Identity PROVE b[f][2] = spec[f]
  <2>1. /\ f \in Fields /\ f \notin {"AddedAt", "Version", "Info", "Bitfield"}
        /\ f = "InfoHash" => spec[f] # Nil
    BY FieldsListed, AddedTyped, ValuesAssumption DEF Identity
  <2> QED BY <1>3, <2>1 DEF Value
<1> QED BY <1>2, <1>4, <1>5

\* A bucket reads as a specification.
LEMMA ReadTyped ==
  ASSUME NEW b, WholeBucket(b)
  PROVE  Read(b) \in [Fields -> FieldValues]
<1>1. ASSUME NEW f \in Fields PROVE Value(f, b[f]) \in FieldValues
  <2>1. CASE f = "AddedAt"
    <3>1. b[f][2] \in Nat
      BY <2>1 DEF WholeBucket
    <3>2. b[f][2] * Second \in Nat
      BY <3>1, ValuesAssumption
    <3> QED BY <2>1, <3>2 DEF Value, FieldValues
  <2>2. CASE f # "AddedAt"
    <3>1. b[f] \in Formats \X FieldValues
      BY DEF WholeBucket, WholeBuckets
    <3> QED BY <2>2, <3>1 DEF Value
  <2> QED BY <2>1, <2>2
<1> QED BY <1>1 DEF WholeBucket, WholeBuckets, Read, Keys

\* A field that was given a value reads as that value, and the other fields as
\* before.
LEMMA LaterReads ==
  ASSUME NEW b, WholeBucket(b), NEW f \in Fields, NEW v \in Later(f),
         NEW c, c = [b EXCEPT ![f] = Text(f, v)]
  PROVE  /\ WholeBucket(c) /\ Read(c) = [Read(b) EXCEPT ![f] = v]
         /\ \A g \in Identity : c[g] = b[g]
<1>1. /\ f \in {"Info", "Bitfield", "Started"} /\ v \in FieldValues
      /\ f # "Started" => v # Nil
  BY ValuesAssumption DEF Later, FieldValues
<1>2. /\ Text(f, v) \in Formats \X FieldValues /\ Text(f, v)[1] = Format(f)
      /\ f \in {"InfoHash", "Info", "Bitfield"} => Text(f, v)[2] # Nil
      /\ Value(f, Text(f, v)) = v
  BY <1>1, TextKeeps
<1>3. /\ b \in [Fields -> Formats \X FieldValues]
      /\ c \in [Fields -> Formats \X FieldValues]
      /\ \A g \in Fields : c[g] = IF g = f THEN Text(f, v) ELSE b[g]
  BY <1>2 DEF WholeBucket, WholeBuckets
<1>4. WholeBucket(c)
  BY <1>1, <1>2, <1>3, FieldsListed DEF WholeBucket, WholeBuckets
<1>5. Read(c) = [Read(b) EXCEPT ![f] = v]
  <2>1. /\ Read(c) = [g \in Fields |-> Value(g, c[g])]
        /\ Read(b) = [g \in Fields |-> Value(g, b[g])]
    BY <1>3 DEF Read, Keys
  <2> QED BY <1>2, <1>3, <2>1
<1> QED BY <1>1, <1>3, <1>4, <1>5, FieldsListed DEF Identity

\* The bucket of a transaction that has made all its puts.
LEMMA ImageOfAdd ==
  ASSUME IInv, tx # NoTx, ~MorePuts(tx), tx.caller # NoCall
  PROVE  Image(tx) = [f \in Fields |-> Text(f, tx.spec[f])]
<1>1. /\ tx.id \in Ids /\ tx.puts = FieldSeq /\ tx.done = Len(tx.puts)
  BY FieldsListed DEF IInv, TxWhole, MorePuts
<1>2. SubSeq(tx.puts, 1, tx.done) = FieldSeq
  BY <1>1, FieldsListed, SubSeqFull
<1>3. ToSet(SubSeq(tx.puts, 1, tx.done)) = Fields
  BY <1>2 DEF Fields
<1>4. {Keys(f) : f \in Fields} = Fields
      /\ \A k \in Fields : (CHOOSE f \in Fields : Keys(f) = k) = k
  BY DEF Keys
<1>5. DOMAIN (IF disk[tx.id] = NoBucket THEN << >> ELSE disk[tx.id])
         \subseteq Fields
  BY <1>1 DEF IInv, DiskWhole, WholeBuckets
<1> QED BY <1>3, <1>4, <1>5 DEF Image

LEMMA ImageOfField ==
  ASSUME IInv, tx # NoTx, ~MorePuts(tx), tx.caller = NoCall
  PROVE  \E f \in Fields : \E v \in Later(f) :
            Image(tx) = [disk[tx.id] EXCEPT ![f] = Text(f, v)]
<1>1. PICK f \in Fields : \E v \in Later(f) :
           tx.spec = [g \in {f} |-> v] /\ tx.puts = <<f>>
  BY NothingAssumption DEF IInv, TxWhole
<1>2. PICK v \in Later(f) : tx.spec = [g \in {f} |-> v] /\ tx.puts = <<f>>
  BY <1>1
<1>3. /\ tx.id \in Ids /\ tx.done = Len(tx.puts) /\ Len(tx.puts) = 1
      /\ disk[tx.id] # NoBucket /\ DOMAIN disk[tx.id] = Fields
  BY <1>2, NothingAssumption
  DEF IInv, TxWhole, MorePuts, DiskWhole, WholeBuckets
<1>4. ToSet(SubSeq(tx.puts, 1, tx.done)) = {f}
  BY <1>2, <1>3 DEF ToSet
<1>5. {Keys(g) : g \in {f}} = {f} /\ (CHOOSE g \in {f} : Keys(g) = f) = f
  BY DEF Keys
<1>6. Image(tx) = [disk[tx.id] EXCEPT ![f] = Text(f, v)]
  BY <1>2, <1>3, <1>4, <1>5 DEF Image
<1> QED BY <1>6
-----------------------------------------------------------------------------
\* No specification, and no record of a call, is one of the null values.
LEMMA NothingIsNull ==
  /\ NoTorrent \notin AddedSpecs
  /\ NoCall \notin Calls /\ NoCall \notin CallRecords
<1>1. AddedSpecs \subseteq [Fields -> FieldValues]
  BY AddedTyped
<1> QED BY <1>1, NothingAssumption DEF CallRecords

\* The type of the calls follows from what is known of them.
LEMMA CallsTyped ==
  ASSUME CallsKnown, NEW c \in Calls, call[c] # NoCall
  PROVE  /\ call[c].id \in Ids
         /\ call[c].spec = NoTorrent \/ IsSpec(call[c].spec)
<1>1. call[c] \in CallRecords
  BY DEF CallsKnown
<1> QED BY <1>1, AddedTyped DEF CallRecords, IsSpec

LEMMA InitIInv == Init => IInv
<1> SUFFICES ASSUME Init PROVE IInv
  OBVIOUS
<1> USE DEF Init, NoTorrents, NoCalls
<1>1. TypeOK
  BY ValuesAssumption DEF TypeOK
<1>2. DiskWhole /\ TorrentsStored /\ TxWhole
  BY DEF TxWhole, DiskWhole, TorrentsStored
<1>3. CallsKnown
  BY DEF CallsKnown, CallsApart, CallKnown
<1> QED BY <1>1, <1>2, <1>3 DEF IInv

\* A commit for a call or of a field: the one step that changes the file.
LEMMA CommitStep ==
  ASSUME IInv, Commit
  PROVE  /\ IInv'
         /\ \/ \E spec \in AddedSpecs :
                  Stored' = [Stored EXCEPT ![tx.id] = Kept(spec)]
            \/ /\ Stored[tx.id] # NoTorrent
               /\ \E f \in Fields : \E v \in Later(f) :
                     Stored' = [Stored EXCEPT ![tx.id][f] = v]
<1> DEFINE b == Image(tx)
<1>1. /\ tx.id \in Ids /\ tx # NoTx /\ ~MorePuts(tx)
      /\ disk' = [disk EXCEPT ![tx.id] = b]
      /\ torrents' = torrents /\ shared' = shared
      /\ call' = Succeeds(tx)
  BY DEF Commit, IInv, TxWhole
<1> HIDE DEF b
<1>2. ASSUME WholeBucket(b)
      PROVE  /\ DiskWhole' /\ TxWhole'
             /\ \A i \in Ids : disk[i] # NoBucket => disk'[i] # NoBucket
             /\ disk'[tx.id] = b /\ b # NoBucket
             /\ Stored' = [Stored EXCEPT ![tx.id] = Read(b)]
             /\ \A i \in Ids : disk'[i] # NoBucket =>
                   DOMAIN disk'[i] = Fields
  <2>1. b \in WholeBuckets /\ b # NoBucket /\ DOMAIN b = Fields
    BY <1>2, NothingAssumption DEF WholeBucket, WholeBuckets
  <2>2. DiskWhole'
    BY <1>1, <1>2, <2>1 DEF IInv, DiskWhole
  <2>3. TxWhole'
    BY DEF Commit, TxWhole
  <2>4. \A i \in Ids : disk[i] # NoBucket => disk'[i] # NoBucket
    BY <1>1, <2>1 DEF IInv, DiskWhole
  <2>5. disk'[tx.id] = b
    BY <1>1 DEF IInv, DiskWhole
  <2>6. Stored' = [Stored EXCEPT ![tx.id] = Read(b)]
    BY <1>1, <2>1 DEF Stored, IInv, DiskWhole
  <2>7. \A i \in Ids : disk'[i] # NoBucket => DOMAIN disk'[i] = Fields
    BY <2>2 DEF DiskWhole, WholeBucket, WholeBuckets
  <2> QED BY <2>1, <2>2, <2>3, <2>4, <2>5, <2>6, <2>7
<1>3. ASSUME WholeBucket(b), CallsKnown' PROVE TypeOK'
  <2>1. \A c \in Calls : call'[c] # NoCall =>
           /\ call'[c].id \in Ids
           /\ call'[c].spec = NoTorrent \/ IsSpec(call'[c].spec)
    BY <1>3, AddedTyped DEF CallsKnown, CallRecords, IsSpec
  <2> QED BY <1>1, <1>2, <1>3, <2>1 DEF Commit, IInv, TypeOK, Keys
<1>4. CASE tx.caller # NoCall
  <2> DEFINE c == tx.caller
  <2>1. /\ c \in Calls /\ call[c] = [id |-> tx.id, spec |-> NoTorrent]
        /\ call[c] # NoCall /\ tx.spec \in AddedSpecs
    BY <1>1, <1>4 DEF IInv, TxWhole
  <2>2. /\ WholeBucket(b) /\ Read(b) = Kept(tx.spec)
        /\ \A f \in Identity : b[f][2] = tx.spec[f]
    <3>1. b = [f \in Fields |-> Text(f, tx.spec[f])]
      BY <1>1, <1>4, ImageOfAdd DEF b
    <3> QED BY <2>1, <3>1, AddedReadsAsKept
  <2>3. /\ call' = [call EXCEPT ![c] = [id |-> tx.id, spec |-> tx.spec]]
        /\ call'[c] = [id |-> tx.id, spec |-> tx.spec]
        /\ \A d \in Calls : d # c => call'[d] = call[d]
    <3>1. call' = [call EXCEPT ![c] = [call[c] EXCEPT !.spec = tx.spec]]
      BY <1>1, <1>4 DEF Succeeds
    <3>2. [call[c] EXCEPT !.spec = tx.spec] = [id |-> tx.id, spec |-> tx.spec]
      BY <2>1
    <3>3. call \in [Calls -> CallRecords \cup {NoCall}]
      BY DEF IInv, CallsKnown
    <3> QED BY <2>1, <3>1, <3>2, <3>3
  <2>4. \A i \in Ids : i # tx.id => disk'[i] = disk[i]
    BY <1>1 DEF IInv, DiskWhole
  <2>5. tx.id \notin shared => torrents[tx.id] = NoTorrent
    <3>1. CallKnown(c)
      BY <2>1 DEF IInv, CallsKnown
    <3> QED BY <2>1, <3>1 DEF CallKnown
  <2>6. TorrentsStored'
    BY <1>1, <1>2, <2>2, <2>4, <2>5 DEF IInv, TorrentsStored, HeldIn
  <2>7. CallsKnown'
    <3>1. call' \in [Calls -> CallRecords \cup {NoCall}]
      BY <1>1, <2>1, <2>3 DEF IInv, CallsKnown, CallRecords
    <3>2. [id |-> tx.id, spec |-> tx.spec] # NoCall
      BY <1>1, <2>1, NothingIsNull DEF CallRecords
    <3>3. ASSUME NEW d \in Calls
          PROVE  /\ call'[d] # NoCall <=> call[d] # NoCall
                 /\ call[d] # NoCall => call'[d].id = call[d].id
      BY <2>1, <2>3, <3>2
    <3>4. ASSUME NEW d \in Calls, NEW e \in Calls PROVE CallsApart(d, e)'
      <4>1. CallsApart(d, e)
        BY DEF IInv, CallsKnown
      <4> QED BY <1>1, <3>3, <4>1 DEF CallsApart
    <3>5. ASSUME NEW d \in Calls PROVE CallKnown(d)'
      <4>1. CallKnown(d)
        BY DEF IInv, CallsKnown
      <4>2. CASE d = c
        <5>1. call[d].id = tx.id
          BY <2>1, <4>2
        <5> QED BY <1>1, <1>2, <2>1, <2>2, <2>3, <4>1, <4>2, <5>1
                DEF CallKnown, HeldIn
      <4>3. CASE d # c /\ call[d] # NoCall
        <5>1. call'[d] = call[d] /\ call[d].id \in Ids
          BY <2>3, <4>3, CallsTyped DEF IInv
        <5>2. call[d].id = tx.id => tx.id \in shared
          <6>1. CallsApart(d, c)
            BY <2>1 DEF IInv, CallsKnown
          <6> QED BY <2>1, <4>3, <6>1 DEF CallsApart
        <5>3. call[d].id \notin shared => disk'[call[d].id] = disk[call[d].id]
          BY <2>4, <5>1, <5>2
        <5>4. call[d].spec # NoTorrent =>
                 /\ disk'[call[d].id] # NoBucket
                 /\ call[d].id \notin shared =>
                       \A f \in Identity :
                          disk'[call[d].id][f][2] = call[d].spec[f]
          BY <1>2, <2>2, <4>1, <4>3, <5>1, <5>3 DEF CallKnown, HeldIn
        <5>5. call[d].id \notin shared => torrents[call[d].id] = NoTorrent
          BY <4>1, <4>3 DEF CallKnown
        <5> QED BY <1>1, <5>1, <5>4, <5>5 DEF CallKnown, HeldIn
      <4>4. CASE d # c /\ call[d] = NoCall
        BY <2>3, <4>4 DEF CallKnown
      <4> QED BY <4>2, <4>3, <4>4
    <3> QED BY <3>1, <3>4, <3>5 DEF CallsKnown
  <2> QED BY <1>2, <1>3, <2>1, <2>2, <2>6, <2>7 DEF IInv
<1>5. CASE tx.caller = NoCall
  <2>1. PICK f \in Fields : \E v \in Later(f) :
             b = [disk[tx.id] EXCEPT ![f] = Text(f, v)]
    BY <1>1, <1>5, ImageOfField DEF b
  <2>2. PICK v \in Later(f) : b = [disk[tx.id] EXCEPT ![f] = Text(f, v)]
    BY <2>1
  <2>3. disk[tx.id] # NoBucket /\ WholeBucket(disk[tx.id])
    BY <1>1, <1>5, NothingIsNull DEF IInv, TxWhole, DiskWhole
  <2>4. /\ WholeBucket(b) /\ Read(b) = [Read(disk[tx.id]) EXCEPT ![f] = v]
        /\ \A g \in Identity : b[g] = disk[tx.id][g]
    BY <2>2, <2>3, LaterReads
  <2>5. /\ call' = call
        /\ \A i \in Ids : \A g \in Identity : disk[i] # NoBucket =>
              disk'[i][g] = disk[i][g]
    BY <1>1, <1>5, <2>4 DEF Succeeds, IInv, DiskWhole
  <2>6. TorrentsStored'
    BY <1>1, <1>2, <2>4, <2>5 DEF IInv, TorrentsStored, HeldIn
  <2>7. CallsKnown'
    <3>1. ASSUME NEW c \in Calls PROVE CallKnown(c)'
      <4>1. CallKnown(c) /\ (call[c] # NoCall => call[c].id \in Ids)
        BY CallsTyped DEF IInv, CallsKnown
      <4> QED BY <1>1, <1>2, <2>4, <2>5, <4>1 DEF CallKnown, HeldIn
    <3> QED BY <1>1, <2>5, <3>1 DEF IInv, CallsKnown, CallsApart
  <2>8. Stored[tx.id] = Read(disk[tx.id])
    BY <1>1, <2>3 DEF Stored
  <2>9. Read(disk[tx.id]) # NoTorrent
    <3>1. Read(disk[tx.id]) \in [Fields -> FieldValues]
      BY <2>3, ReadTyped
    <3> QED BY <3>1, NothingAssumption
  <2>10. Stored' = [Stored EXCEPT ![tx.id][f] = v]
    BY <1>1, <1>2, <2>4, <2>8 DEF Stored
  <2> QED BY <1>2, <1>3, <2>4, <2>6, <2>7, <2>8, <2>9, <2>10 DEF IInv
<1> QED BY <1>4, <1>5

\* A call ends without changing the file: what is known of the rest stays.
LEMMA CallEnds ==
  ASSUME IInv, NEW c \in Calls, call' = [call EXCEPT ![c] = NoCall],
         UNCHANGED <<disk, torrents, shared>>
  PROVE  DiskWhole' /\ CallsKnown' /\ TorrentsStored'
<1>1. \A d \in Calls : call'[d] = IF d = c THEN NoCall ELSE call[d]
  BY DEF IInv, CallsKnown
<1>2. call' \in [Calls -> CallRecords \cup {NoCall}]
  BY DEF IInv, CallsKnown
<1>3. DiskWhole' /\ TorrentsStored'
  BY DEF IInv, DiskWhole, TorrentsStored, HeldIn
<1>4. \A d, e \in Calls : CallsApart(d, e)'
  BY <1>1 DEF IInv, CallsKnown, CallsApart
<1>5. \A d \in Calls : CallKnown(d)'
  BY <1>1 DEF IInv, CallsKnown, CallKnown, HeldIn
<1> QED BY <1>2, <1>3, <1>4, <1>5 DEF CallsKnown

\* A call that passes its check shares its id or finds nothing under it.
LEMMA CheckStep ==
  ASSUME IInv, NEW c \in Calls, NEW i \in Ids, Check(c, i)
  PROVE  CallsKnown' /\ TorrentsStored'
<1> USE DEF IInv
<1>1. /\ call[c] = NoCall /\ torrents[i] = NoTorrent
      /\ call' = [call EXCEPT ![c] = [id |-> i, spec |-> NoTorrent]]
      /\ UNCHANGED <<disk, torrents>>
  BY DEF Check, Unused
<1>2. /\ shared \subseteq shared'
      /\ \A d \in Calls : (call[d] # NoCall /\ call[d].id = i) => i \in shared'
  BY DEF Check
<1>3. /\ call' \in [Calls -> CallRecords \cup {NoCall}]
      /\ call'[c] = [id |-> i, spec |-> NoTorrent]
      /\ \A d \in Calls : d # c => call'[d] = call[d]
  BY <1>1 DEF CallsKnown, CallRecords
<1>4. TorrentsStored'
  BY <1>1, <1>2 DEF TorrentsStored, HeldIn
<1>5. ASSUME NEW d \in Calls, NEW e \in Calls PROVE CallsApart(d, e)'
  <2>1. CallsApart(d, e)
    BY DEF CallsKnown
  <2> QED BY <1>2, <1>3, <2>1 DEF CallsApart
<1>6. ASSUME NEW d \in Calls PROVE CallKnown(d)'
  <2>1. CallKnown(d)
    BY DEF CallsKnown
  <2>2. CASE d = c
    BY <1>1, <1>3, <2>2 DEF CallKnown
  <2>3. CASE d # c
    BY <1>1, <1>2, <1>3, <2>1, <2>3 DEF CallKnown, HeldIn
  <2> QED BY <2>2, <2>3
<1> QED BY <1>3, <1>4, <1>5, <1>6 DEF CallsKnown

\* What a call inserts is what it has written, unless another call has the id.
LEMMA InsertStep ==
  ASSUME IInv, NEW c \in Calls, Insert(c)
  PROVE  CallsKnown' /\ TorrentsStored'
<1> USE DEF IInv
<1> DEFINE i == call[c].id
<1>1. /\ call[c] # NoCall /\ call[c].spec # NoTorrent
      /\ call' = [call EXCEPT ![c] = NoCall]
      /\ torrents' = [torrents EXCEPT ![i] = call[c].spec]
      /\ UNCHANGED <<disk, shared>>
  BY DEF Insert
<1>2. i \in Ids /\ call[c].spec \in AddedSpecs
  BY <1>1 DEF CallsKnown, CallRecords
<1>3. disk[i] # NoBucket /\ (i \notin shared => HeldIn(i, call[c].spec))
  BY <1>1 DEF CallsKnown, CallKnown
<1>4. /\ \A d \in Calls : call'[d] = IF d = c THEN NoCall ELSE call[d]
      /\ call' \in [Calls -> CallRecords \cup {NoCall}]
  BY <1>1 DEF CallsKnown
<1>5. /\ torrents' \in [Ids -> AddedSpecs \cup {NoTorrent}]
      /\ \A j \in Ids : torrents'[j] = IF j = i THEN call[c].spec
                                                ELSE torrents[j]
  BY <1>1, <1>2 DEF TorrentsStored
<1>6. TorrentsStored'
  BY <1>1, <1>3, <1>5 DEF TorrentsStored, HeldIn
<1>7. ASSUME NEW d \in Calls PROVE CallKnown(d)'
  <2>1. CallKnown(d)
    BY DEF CallsKnown
  <2>2. CASE d # c /\ call[d] # NoCall
    <3>1. call[d].id \in Ids
      BY <2>2, CallsTyped
    <3>2. call[d].id \notin shared => call[d].id # i
      BY <1>1, <2>2 DEF CallsKnown, CallsApart
    <3> QED BY <1>1, <1>4, <1>5, <2>1, <2>2, <3>1, <3>2 DEF CallKnown, HeldIn
  <2>3. CASE d = c \/ call[d] = NoCall
    BY <1>4, <2>3 DEF CallKnown
  <2> QED BY <2>2, <2>3
<1>8. CallsKnown'
  BY <1>1, <1>4, <1>7 DEF CallsKnown, CallsApart
<1> QED BY <1>6, <1>8

\* Every step keeps the invariant.
LEMMA NextIInv ==
  ASSUME IInv, [Next]_vars
  PROVE  IInv'
<1>1. ASSUME UNCHANGED <<disk, torrents, call, shared>>, TypeOK', TxWhole'
      PROVE  IInv'
  BY <1>1 DEF IInv, DiskWhole, CallsKnown, CallsApart, CallKnown,
     TorrentsStored, HeldIn
<1>2. CASE NewSession \/ CloseSession
  <2> USE <1>2 DEF NewSession, CloseSession, NoTorrents, IInv
  <2>1. /\ UNCHANGED <<disk, call, shared, tx, txs, runs, alive>>
        /\ torrents' = [i \in Ids |-> NoTorrent]
    OBVIOUS
  <2>2. lockedBy' \in 0 .. MaxRuns /\ session' \in {"none", "open", "closed"}
    BY ValuesAssumption DEF TypeOK
  <2>3. TypeOK'
    BY <2>1, <2>2 DEF TypeOK
  <2>4. TxWhole' /\ DiskWhole' /\ TorrentsStored'
    BY <2>1 DEF TxWhole, DiskWhole, TorrentsStored
  <2>5. \A c \in Calls : call[c] # NoCall => call[c].id \in Ids
    BY CallsTyped
  <2>6. CallsKnown'
    BY <2>1, <2>5 DEF CallsKnown, CallsApart, CallKnown, HeldIn
  <2> QED BY <2>3, <2>4, <2>6
<1>3. CASE Ends
  <2> USE <1>3 DEF Ends, NoTorrents, NoCalls, IInv
  <2>1. 0 \in 0 .. MaxRuns
    BY ValuesAssumption
  <2>2. TypeOK'
    BY <2>1 DEF TypeOK
  <2>3. TxWhole' /\ DiskWhole' /\ TorrentsStored'
    BY DEF TxWhole, DiskWhole, TorrentsStored
  <2>4. CallsKnown'
    BY DEF CallsKnown, CallsApart, CallKnown
  <2> QED BY <2>2, <2>3, <2>4
<1>4. CASE Restart
  <2> USE <1>4 DEF Restart, IInv
  <2>1. runs' \in 1 .. MaxRuns
    BY ValuesAssumption DEF TypeOK
  <2>2. TypeOK'
    BY <2>1 DEF TypeOK
  <2>3. TxWhole'
    BY DEF TxWhole
  <2> QED BY <1>1, <2>2, <2>3
<1>5. ASSUME NEW c \in Calls, NEW i \in Ids, Check(c, i) PROVE IInv'
  <2>1. CallsKnown' /\ TorrentsStored'
    BY <1>5, CheckStep
  <2>2. /\ UNCHANGED <<disk, tx, txs, runs, alive, session, lockedBy, torrents>>
        /\ call[c] = NoCall
        /\ shared' \subseteq shared \cup {i}
        /\ call' = [call EXCEPT ![c] = [id |-> i, spec |-> NoTorrent]]
    BY <1>5 DEF Check
  <2>3. TypeOK'
    <3>1. \A d \in Calls : call'[d] # NoCall =>
             /\ call'[d].id \in Ids
             /\ call'[d].spec = NoTorrent \/ IsSpec(call'[d].spec)
      <4>1. \A d \in Calls : d # c => call'[d] = call[d]
        BY <2>2 DEF IInv, CallsKnown
      <4>2. call'[c] = [id |-> i, spec |-> NoTorrent]
        BY <2>2 DEF IInv, CallsKnown
      <4> QED BY <4>1, <4>2, CallsTyped DEF IInv
    <3> QED BY <2>2, <3>1 DEF IInv, TypeOK
  <2>4. TxWhole'
    <3>1. tx # NoTx => tx.caller # c \/ tx.caller = NoCall
      BY <2>2 DEF IInv, TxWhole
    <3>2. \A d \in Calls : d # c => call'[d] = call[d]
      BY <2>2 DEF IInv, CallsKnown
    <3> QED BY <2>2, <3>1, <3>2, NothingIsNull DEF IInv, TxWhole
  <2> QED BY <2>1, <2>2, <2>3, <2>4 DEF IInv, DiskWhole
<1>6. ASSUME NEW c \in Calls, NewTorrentFails(c) \/ Insert(c) PROVE IInv'
  <2>1. /\ call' = [call EXCEPT ![c] = NoCall]
        /\ UNCHANGED <<disk, tx, txs, runs, alive, session, lockedBy, shared>>
    BY <1>6 DEF NewTorrentFails, Insert
  <2>2. CallsKnown' /\ TorrentsStored'
    BY <1>6, CallEnds, InsertStep DEF NewTorrentFails
  <2>3. \A d \in Calls : call'[d] = IF d = c THEN NoCall ELSE call[d]
    BY <2>1 DEF IInv, CallsKnown
  <2>4. tx # NoTx => tx.caller # c
    BY <1>6, NothingAssumption
    DEF NewTorrentFails, Checked, Insert, IInv, TxWhole
  <2>5. TxWhole'
    BY <2>1, <2>3, <2>4 DEF IInv, TxWhole
  <2>6. TypeOK'
    <3>1. \A i \in Ids : torrents'[i] = NoTorrent \/ IsSpec(torrents'[i])
      BY <2>2, AddedTyped DEF TorrentsStored, IsSpec
    <3> QED BY <2>1, <2>3, <3>1 DEF IInv, TypeOK
  <2> QED BY <2>1, <2>2, <2>5, <2>6 DEF IInv, DiskWhole
<1>7. ASSUME NEW c \in Calls, NEW spec \in AddedSpecs, Write(c, spec)
      PROVE  IInv'
  <2> USE <1>7 DEF Write, Checked, Begin
  <2>1. call[c] \in CallRecords /\ call[c].spec = NoTorrent
    BY DEF IInv, CallsKnown
  <2>2. call[c] = [id |-> call[c].id, spec |-> NoTorrent] /\ call[c].id \in Ids
    BY <2>1 DEF CallRecords
  <2>3. TypeOK'
    BY <2>2, FieldsListed, ValuesAssumption DEF IInv, TypeOK, Fields
  <2>4. TxWhole'
    BY <2>2, FieldsListed DEF TxWhole
  <2> QED BY <1>1, <2>3, <2>4
<1>8. ASSUME NEW i \in Ids, NEW f \in Fields, NEW v \in Later(f),
             WriteField(i, f, v)
      PROVE  IInv'
  <2> USE <1>8 DEF WriteField, Begin
  <2>1. TypeOK'
    BY ValuesAssumption DEF IInv, TypeOK, ToSet
  <2>2. TxWhole'
    BY DEF TxWhole
  <2> QED BY <1>1, <2>1, <2>2
<1>9. CASE Put
  <2> USE <1>9 DEF Put, StoredBeforeCommit, MorePuts
  <2>1. /\ tx' = [tx EXCEPT !.done = tx.done + 1]
        /\ UNCHANGED <<disk, torrents, call, shared>>
    OBVIOUS
  <2>2. /\ tx'.id = tx.id /\ tx'.caller = tx.caller /\ tx'.spec = tx.spec
        /\ tx'.puts = tx.puts /\ tx'.done = tx.done + 1
        /\ tx' = [id |-> tx'.id, caller |-> tx'.caller, spec |-> tx'.spec,
                  puts |-> tx'.puts, done |-> tx'.done]
    <3>1. tx = [id |-> tx.id, caller |-> tx.caller, spec |-> tx.spec,
                puts |-> tx.puts, done |-> tx.done]
      BY DEF IInv, TxWhole
    <3> QED BY <2>1, <3>1
  <2>3. tx'.done \in 0 .. Len(tx'.puts)
    BY <2>2, FieldsListed DEF IInv, TxWhole
  <2>4. TxWhole'
    BY <2>1, <2>2, <2>3 DEF IInv, TxWhole
  <2>5. TypeOK'
    BY <2>1, <2>2, <2>3 DEF IInv, TypeOK, TxWhole
  <2> QED BY <1>1, <2>1, <2>4, <2>5
<1>10. CASE Commit
  BY <1>10, CommitStep
<1>11. CASE Rollback
  <2>1. /\ tx' = NoTx /\ call' = Fails(tx)
        /\ UNCHANGED <<disk, txs, runs, alive, session, lockedBy, torrents,
                       shared>>
    BY <1>11 DEF Rollback
  <2>2. TxWhole'
    BY <2>1 DEF TxWhole
  <2>3. CASE call' = call
    BY <1>1, <2>1, <2>2, <2>3 DEF IInv, TypeOK
  <2>4. CASE tx.caller # NoCall
    <3>1. /\ tx.caller \in Calls
          /\ call' = [call EXCEPT ![tx.caller] = NoCall]
      BY <1>11, <2>1, <2>4 DEF Rollback, IInv, TxWhole, Fails
    <3>2. DiskWhole' /\ CallsKnown' /\ TorrentsStored'
      BY <2>1, <3>1, CallEnds
    <3>3. \A d \in Calls : call'[d] = NoCall \/ call'[d] = call[d]
      BY <3>1 DEF IInv, CallsKnown
    <3>4. TypeOK'
      BY <2>1, <3>3 DEF IInv, TypeOK
    <3> QED BY <2>2, <3>2, <3>4 DEF IInv
  <2> QED BY <2>1, <2>3, <2>4 DEF Fails
<1>12. CASE UNCHANGED vars
  BY <1>1, <1>12 DEF vars, IInv, TypeOK, TxWhole
<1> QED BY <1>2, <1>3, <1>4, <1>5, <1>6, <1>7, <1>8, <1>9, <1>10, <1>11, <1>12
        DEF Next, Die, InsertPanics

LEMMA Invariance == Spec => []IInv
BY InitIInv, NextIInv, PTL DEF Spec
-----------------------------------------------------------------------------
\* A torrent that runs is in the file and could be resumed as it is, also
\* after any crash, and every bucket is readable; if another call added its id
\* at the same time, the file may hold the torrent of that call instead
\* (boltdbresumer.go:163-304, session_add.go:81-98, 165, spec.go:48-108).
THEOREM RunningTorrentsAreStored == Spec => []RunningIsStored
<1>1. ASSUME IInv PROVE RunningIsStored
  <2>1. ASSUME NEW i \in Ids, disk[i] # NoBucket
        PROVE  /\ Readable(disk[i])
               /\ Read(disk[i]) =
                     [f \in Fields |-> Value(f, disk[i][f])]
               /\ disk[i]["Version"][2] = LatestVersion
               /\ \A f \in {"InfoHash", "Info", "Bitfield"} :
                     disk[i][f][2] # Nil
    <3>1. WholeBucket(disk[i])
      BY <1>1, <2>1 DEF IInv, DiskWhole
    <3> QED BY <2>1, <3>1, FieldsListed
            DEF WholeBucket, WholeBuckets, Readable, Read, Keys
  <2>2. ASSUME NEW i \in Ids, torrents[i] # NoTorrent
        PROVE  LET spec == Read(disk[i])
               IN  /\ i \notin shared =>
                          \A f \in Identity : spec[f] = torrents[i][f]
                   /\ spec.Version = LatestVersion
                   /\ ThroughJSON(spec) = spec
    <3>1. /\ disk[i] # NoBucket
          /\ i \notin shared =>
                \A f \in Identity : disk[i][f][2] = torrents[i][f]
      BY <1>1, <2>2 DEF IInv, TorrentsStored, HeldIn
    <3>2. \A f \in Fields : Read(disk[i])[f] = Value(f, disk[i][f])
      BY <2>1, <3>1
    <3>3. ThroughJSON(Read(disk[i])) = Read(disk[i])
      <4>1. ASSUME NEW f \in {"InfoHash", "Info", "Bitfield"}
            PROVE  Read(disk[i])[f] # Nil
        <5>1. f \in Fields /\ disk[i][f][2] # Nil
          BY <2>1, <3>1, FieldsListed
        <5>2. Value(f, disk[i][f]) = disk[i][f][2]
          BY DEF Value
        <5> QED BY <3>2, <5>1, <5>2
      <4>2. Read(disk[i]) = [f \in Fields |-> Read(disk[i])[f]]
        BY <2>1, <3>1
      <4> QED BY <4>1, <4>2 DEF ThroughJSON
    <3> QED BY <2>1, <3>1, <3>2, <3>3, FieldsListed DEF Value, Identity
  <2> QED BY <1>1, <2>1, <2>2
          DEF RunningIsStored, IInv, TorrentsStored, Identity
<1> QED BY <1>1, Invariance, PTL

\* The database is the map of specifications its callers take it for: whatever
\* fails or ends in between, an id reads as what was written last
\* (boltdbresumer.go:77-304).
THEOREM DatabaseImplementsStore == Spec => ImplementsStore
<1>1. Init => Store!Init
  BY DEF Init, Stored, Store!Init
<1>2. ASSUME IInv, [Next]_vars PROVE [Store!Next]_Stored
  <2>1. CASE Commit
    <3>1. tx.id \in Ids
      BY <1>2, <2>1 DEF Commit, IInv, TxWhole
    <3> QED BY <1>2, <2>1, <3>1, CommitStep
            DEF Store!Next, Store!Write, Store!WriteField
  <2>2. CASE ~Commit
    <3>1. UNCHANGED disk
      BY <1>2, <2>2
      DEF Next, NewSession, CloseSession, Die, Ends, Restart, Check,
          NewTorrentFails, Insert, InsertPanics, Write, WriteField, Begin,
          Put, StoredBeforeCommit, Rollback, vars
    <3> QED BY <3>1 DEF Stored
  <2> QED BY <2>1, <2>2
<1> QED BY <1>1, <1>2, Invariance, PTL DEF Spec, ImplementsStore, Store!Spec
=============================================================================
