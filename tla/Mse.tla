-------------------------------- MODULE Mse --------------------------------
(***************************************************************************)
(* internal/mse: the two handshakes of message stream encryption, played   *)
(* against each other over one connection.  "out" is HandshakeOutgoing,    *)
(* "in" is HandshakeIncoming, wire[s] is what s wrote and its peer has not *)
(* read.                                                                   *)
(*                                                                         *)
(* A byte is <<value, key, pos>>: the value that was written and the place *)
(* of the RC4 key stream that hides it ("raw" hides nothing).  Decrypting  *)
(* at another place yields garbage, so a lost or repeated key stream byte  *)
(* shows.  A number or a method mask is one byte here; keys, hashes and VC *)
(* keep their lengths as constants (96, 20 and 8 in the code), and pads    *)
(* are shorter than PadLimit (512).  The Diffie-Hellman secret is the same *)
(* on both sides; random pad never happens to equal a synchronisation key. *)
(***************************************************************************)
EXTENDS Integers, Sequences, FiniteSets, SequencesExt

CONSTANTS KeyLen, HashLen, VcLen, PadLimit,
          Methods,    \* bits of a CryptoMethod; "plain" is one of them
          MaxInitial, \* math.MaxUint16, the longest initial payload
          MaxData     \* bound: bytes a side sends after its handshake

ASSUME MseAssumption ==
  /\ {KeyLen, HashLen, VcLen, PadLimit} \subseteq Nat \ {0}
  /\ {MaxInitial, MaxData} \subseteq Nat
  /\ IsFiniteSet(Methods) /\ "plain" \in Methods

Sides == {"out", "in"}
Peer(s) == IF s = "out" THEN "in" ELSE "out"

VARIABLES pc, wire, firstRead, rd, wr, initial, provide, known,
          selected, err, sent, got, r2, broken

conf == <<initial, provide, known>>
data == <<sent, got, r2>>
vars == <<pc, wire, firstRead, rd, wr, conf, selected, err, data, broken>>

(* --- bytes and ciphers ------------------------------------------------- *)

Repeat(v, n) == [i \in 1..n |-> v]
Raw(vals) == [i \in 1..Len(vals) |-> <<vals[i], "raw", 0>>]
PadBytes(n) == Repeat(<<"pad", 0>>, n)
Data(s, a, b) == [i \in 1..(b - a) |-> <<s, a + i>>]
Req1 == [i \in 1..HashLen |-> <<"req1", i>>]
Vc == Repeat(<<"vc", 0>>, VcLen)
Garbage == <<"garbage", 0>>

RawCipher == [key |-> "raw", pos |-> 0]
Slot(c, i) == IF c.key = "raw" THEN 0 ELSE c.pos + i
Enc(c, vals) == [i \in 1..Len(vals) |-> <<vals[i], c.key, Slot(c, i)>>]
Dec(c, bs) == [i \in 1..Len(bs) |->
  IF bs[i][2] = c.key /\ bs[i][3] = Slot(c, i) THEN bs[i][1] ELSE Garbage]
Past(c, n) == IF c.key = "raw" THEN c ELSE [c EXCEPT !.pos = @ + n]

\* initRC4: the outgoing side writes with keyA and reads with keyB.
Fresh(key) == [key |-> key, pos |-> 0]
\* updateCipher: only plain text replaces the ciphers of the handshake.
UpdateCipher(c, m) == IF m = {"plain"} THEN RawCipher ELSE c

PowerOfTwo(m) == Cardinality(m) = 1
AcceptableAny(m, p) == PowerOfTwo(m)
Acceptable(m, p) == PowerOfTwo(m) /\ m \cap p # {}

Init ==
  /\ pc = [s \in Sides |-> "new"]
  /\ wire = [s \in Sides |-> <<>>]
  /\ firstRead = [s \in Sides |-> 0]
  /\ rd = [s \in Sides |-> RawCipher]
  /\ wr = [s \in Sides |-> RawCipher]
  /\ initial \in 0..(MaxInitial + 1)
  /\ provide \in SUBSET Methods
  /\ known \in BOOLEAN
  /\ selected = [s \in Sides |-> {}]
  /\ err = [s \in Sides |-> "none"]
  /\ sent = [s \in Sides |-> 0]
  /\ got = [s \in Sides |-> <<>>]
  /\ r2 = <<>>
  /\ broken = FALSE

Goto(s, from, to) == pc[s] = from /\ pc' = [pc EXCEPT ![s] = to]

Fail(s, from, why) ==
  /\ Goto(s, from, "failed")
  /\ err' = [err EXCEPT ![s] = why]
  /\ UNCHANGED <<wire, firstRead, rd, wr, conf, selected, data, broken>>

\* What s may read now.
In(s) == wire[Peer(s)]
\* s has read n bytes and then written bs.
Exchange(s, n, bs) ==
  /\ Len(In(s)) >= n
  /\ bs # <<>> => ~broken
  /\ wire' = [wire EXCEPT ![Peer(s)] = SubSeq(@, n + 1, Len(@)),
                          ![s] = @ \o bs]

(* --- readSync ---------------------------------------------------------- *)

\* The bound the handshakes pass: 616 and 628 less what was read first.
SyncMaxShort(s, n) == KeyLen + PadLimit - firstRead[s]
SyncMax(s, n) == KeyLen + PadLimit + n - firstRead[s]

\* The offsets at which readSync compares before it gives up.
Offsets(s, key) ==
  LET slack == SyncMax(s, Len(key)) - Len(key)
  IN  0..(IF slack > 0 THEN slack ELSE 0)

Matches(s, key, j) ==
  Len(In(s)) >= j + Len(key) /\ SubSeq(In(s), j + 1, j + Len(key)) = key

\* readSync returns after j bytes of padding.
SyncFound(s, key, j) ==
  /\ j \in Offsets(s, key)
  /\ Matches(s, key, j)
  /\ \A i \in 0..(j - 1) : ~Matches(s, key, i)

SyncMissing(s, key) ==
  \A j \in Offsets(s, key) :
    Len(In(s)) >= j + Len(key) /\ ~Matches(s, key, j)

(* --- HandshakeOutgoing ------------------------------------------------- *)

PublicKey(s) == Raw(Repeat(<<"key", s>>, KeyLen))

\* Step 1, refused without a method or with too long a payload.
OutStart ==
  IF provide = {} \/ initial > MaxInitial
  THEN Fail("out", "new", "arguments")
  ELSE /\ Goto("out", "new", "key")
       /\ \E pad \in 0..(PadLimit - 1) :
            Exchange("out", 0, PublicKey("out") \o Raw(PadBytes(pad)))
       /\ UNCHANGED <<firstRead, rd, wr, conf, selected, err, data, broken>>

\* ReadAtLeast returns the key and whatever padding has arrived with it.
FirstRead(s, n) ==
  /\ n \in KeyLen..(KeyLen + PadLimit)
  /\ firstRead' = [firstRead EXCEPT ![s] = n]

\* The clear hashes, the encrypted header and the initial payload.
Header(pad) ==
  Vc \o <<<<"provide", provide>>, <<"len", pad>>>> \o PadBytes(pad)
     \o <<<<"len", initial>>>> \o Data("out", 0, initial)
Step3(c, pad) == Raw(Req1 \o Repeat(<<"skey", 0>>, HashLen))
                 \o Enc(c, Header(pad))

\* Step 2 is read and step 3 written; the cipher of the reader has already
\* produced the encrypted VC that readSync looks for.
OutReadKey ==
  /\ Goto("out", "key", "sync")
  /\ \E n \in 1..Len(In("out")), pad \in 0..(PadLimit - 1) :
       /\ FirstRead("out", n)
       /\ Exchange("out", n, Step3(Fresh("keyA"), pad))
       /\ wr' = [wr EXCEPT !["out"] =
                   Past(Fresh("keyA"), Len(Header(pad)))]
  /\ rd' = [rd EXCEPT !["out"] = Past(Fresh("keyB"), VcLen)]
  /\ UNCHANGED <<conf, selected, err, data, broken>>

OutSync ==
  LET key == Enc(Fresh("keyB"), Vc)
  IN  IF SyncMissing("out", key)
      THEN Fail("out", "sync", "sync")
      ELSE /\ Goto("out", "sync", "select")
           /\ \E j \in 0..Len(In("out")) :
                SyncFound("out", key, j) /\ Exchange("out", j + VcLen, <<>>)
           /\ UNCHANGED <<firstRead, rd, wr, conf, selected, err, data,
                          broken>>

\* crypto_select, the length of the pad and the pad itself.
OutFinish ==
  /\ Len(In("out")) >= 2
  /\ LET head == Dec(rd["out"], SubSeq(In("out"), 1, 2))
         m == head[1][2]
         n == 2 + head[2][2]
     IN  IF head[1][1] # "select" \/ head[2][1] # "len"
         THEN Fail("out", "select", "garbled")
         ELSE IF ~Acceptable(m, provide)
         THEN Fail("out", "select", "selection")
         ELSE /\ Goto("out", "select", "done")
              /\ Exchange("out", n, <<>>)
              /\ selected' = [selected EXCEPT !["out"] = m]
              /\ rd' = [rd EXCEPT !["out"] = UpdateCipher(Past(@, n), m)]
              /\ wr' = [wr EXCEPT !["out"] = UpdateCipher(@, m)]
              /\ UNCHANGED <<firstRead, conf, err, data, broken>>

(* --- HandshakeIncoming ------------------------------------------------- *)

\* Step 1 is read and step 2 written.
InReadKey ==
  /\ Goto("in", "new", "sync")
  /\ \E n \in 1..Len(In("in")), pad \in 0..(PadLimit - 1) :
       /\ FirstRead("in", n)
       /\ Exchange("in", n, PublicKey("in") \o Raw(PadBytes(pad)))
  /\ UNCHANGED <<rd, wr, conf, selected, err, data, broken>>

\* req1 is found, then the hash names a torrent or does not (getSKey).
InSync ==
  IF SyncMissing("in", Raw(Req1))
  THEN Fail("in", "sync", "sync")
  ELSE \E j \in 0..Len(In("in")) :
    /\ SyncFound("in", Raw(Req1), j)
    /\ Len(In("in")) >= j + 2 * HashLen
    /\ IF ~known
       THEN Fail("in", "sync", "skey")
       ELSE /\ Goto("in", "sync", "header")
            /\ Exchange("in", j + 2 * HashLen, <<>>)
            /\ rd' = [rd EXCEPT !["in"] = Fresh("keyA")]
            /\ wr' = [wr EXCEPT !["in"] = Fresh("keyB")]
            /\ UNCHANGED <<firstRead, conf, selected, err, data, broken>>

\* VC, crypto_provide and the answer of cryptoSelect, which may be any mask.
InSelect ==
  /\ Len(In("in")) >= VcLen + 1
  /\ LET head == Dec(rd["in"], SubSeq(In("in"), 1, VcLen + 1))
         p == head[VcLen + 1]
     IN  IF SubSeq(head, 1, VcLen) # Vc \/ p[1] # "provide"
         THEN Fail("in", "header", "garbled")
         ELSE \E m \in SUBSET Methods :
           IF ~Acceptable(m, p[2])
           THEN Fail("in", "header", "selection")
           ELSE /\ Goto("in", "header", "payload")
                /\ Exchange("in", VcLen + 1, <<>>)
                /\ selected' = [selected EXCEPT !["in"] = m]
                /\ rd' = [rd EXCEPT !["in"] = Past(@, VcLen + 1)]
                /\ UNCHANGED <<firstRead, wr, conf, err, data, broken>>

\* PadC and the initial payload are read, step 4 is written, and what follows
\* is read from the payload first (io.MultiReader).
Step4Unpadded(m, pad) == Vc \o <<<<"select", m>>, <<"len", pad>>>>
Step4(m, pad) == Vc \o <<<<"select", m>>, <<"len", pad>>>> \o PadBytes(pad)
\* What the reader of the stream is after n bytes and the selection.
InReaderKept(c, n, m) == Past(c, n)
InReader(c, n, m) == UpdateCipher(Past(c, n), m)
InPayload(clear, first, last) == SubSeq(clear, first, last)

InFinish ==
  LET m == selected["in"]
      clear == Dec(rd["in"], In("in"))
      lenC == clear[1]
      lenIA == clear[2 + lenC[2]]
      used == 2 + lenC[2] + lenIA[2]
  IN
  /\ Len(In("in")) >= 1
  /\ IF lenC[1] # "len"
     THEN Fail("in", "payload", "garbled")
     ELSE /\ Len(In("in")) >= 2 + lenC[2]
          /\ IF lenIA[1] # "len"
             THEN Fail("in", "payload", "garbled")
             ELSE /\ Goto("in", "payload", "done")
                  /\ r2' = InPayload(clear, 3 + lenC[2], used)
                  /\ rd' = [rd EXCEPT !["in"] = InReader(@, used, m)]
                  /\ \E pad \in 0..(PadLimit - 1) :
                       /\ Exchange("in", used, Enc(wr["in"], Step4(m, pad)))
                       /\ wr' = [wr EXCEPT !["in"] = UpdateCipher(
                                   Past(@, Len(Step4(m, pad))), m)]
                  /\ UNCHANGED <<firstRead, conf, selected, err, sent, got,
                                 broken>>

(* --- Stream.Write and Stream.Read after the handshake ------------------ *)

Send(s) ==
  /\ pc[s] = "done" /\ sent[s] < MaxData
  /\ LET start == IF s = "out" THEN initial + sent[s] ELSE sent[s]
     IN  Exchange(s, 0, Enc(wr[s], Data(s, start, start + 1)))
  /\ wr' = [wr EXCEPT ![s] = Past(@, 1)]
  /\ sent' = [sent EXCEPT ![s] = @ + 1]
  /\ UNCHANGED <<pc, firstRead, rd, conf, selected, err, got, r2, broken>>

Receive(s) ==
  /\ pc[s] = "done"
  /\ IF s = "in" /\ r2 # <<>>
     THEN /\ got' = [got EXCEPT ![s] = Append(@, Head(r2))]
          /\ r2' = Tail(r2)
          /\ UNCHANGED <<wire, rd>>
     ELSE /\ Exchange(s, 1, <<>>)
          /\ got' = [got EXCEPT ![s] = Append(@, Dec(rd[s], In(s))[1])]
          /\ rd' = [rd EXCEPT ![s] = Past(@, 1)]
          /\ UNCHANGED r2
  /\ UNCHANGED <<pc, firstRead, wr, conf, selected, err, sent, broken>>

(* --- the connection ---------------------------------------------------- *)

\* The network fails, or the caller of a failed handshake closes.
Break ==
  /\ ~broken /\ broken' = TRUE
  /\ UNCHANGED <<pc, wire, firstRead, rd, wr, conf, selected, err, data>>

\* A read or a write of a handshake on a broken connection.
IoError(s) ==
  /\ broken /\ pc[s] \notin {"done", "failed"}
  /\ Fail(s, pc[s], "io")

Handshake(s) ==
  \/ s = "out" /\ (OutStart \/ OutReadKey \/ OutSync \/ OutFinish)
  \/ s = "in" /\ (InReadKey \/ InSync \/ InSelect \/ InFinish)
  \/ IoError(s)

CallerCloses == (\E s \in Sides : pc[s] = "failed") /\ Break

Next ==
  \/ \E s \in Sides : Handshake(s) \/ Send(s) \/ Receive(s)
  \/ Break

Spec == Init /\ [][Next]_vars

\* Both handshakes run, data that has arrived is read, and the caller closes
\* the connection of a handshake that failed.
FairSpec ==
  /\ Spec
  /\ \A s \in Sides : WF_vars(Handshake(s)) /\ WF_vars(Receive(s))
  /\ WF_vars(CallerCloses)

(* --- properties -------------------------------------------------------- *)

TypeOK ==
  /\ pc \in [Sides -> {"new", "key", "sync", "header", "payload", "select",
                       "done", "failed"}]
  /\ firstRead \in [Sides -> 0..(KeyLen + PadLimit)]
  /\ \A s \in Sides :
       /\ rd[s].key \in {"raw", "keyA", "keyB"}
       /\ wr[s].key \in {"raw", "keyA", "keyB"}
       /\ selected[s] \subseteq Methods
       /\ (pc[s] = "failed") = (err[s] # "none")
  /\ r2 # <<>> => pc["in"] = "done"

\* However long the pads are and however the first read splits them, the
\* bound of readSync is large enough to reach the synchronisation point.
SyncAlwaysFound == \A s \in Sides : err[s] # "sync"

\* The key streams of the two ends never get out of step: VC, lengths, masks
\* and the selection of an honest peer always decrypt, and the selection the
\* incoming end made is one the outgoing end accepts.
NothingGarbled ==
  /\ \A s \in Sides : err[s] # "garbled"
  /\ err["out"] # "selection"

\* What a side reads after the handshake is what the other wrote, from the
\* first byte of the initial payload on: nothing is lost between the cipher
\* of the handshake and the cipher selected, or swallowed with the padding.
PayloadIntact ==
  /\ IsPrefix(got["in"] \o r2, Data("out", 0, initial + sent["out"]))
  /\ IsPrefix(got["out"], Data("in", 0, sent["in"]))

\* The outgoing end returns success only for a handshake that the incoming
\* end finished too, with the same, single and provided method.
SuccessIsMutual ==
  pc["out"] = "done" =>
    /\ pc["in"] = "done"
    /\ selected["in"] = selected["out"]
    /\ \E m \in provide : selected["out"] = {m}

\* Whatever the pads, the reads, the methods and the failures: the two ends
\* agree on the method, the key streams and the bytes (mse.go:104-385).
HandshakesAgree == TypeOK /\ NothingGarbled /\ PayloadIntact /\ SuccessIsMutual

\* Neither end waits for the other for ever, whatever fails, and everything
\* that is sent after the handshakes arrives, unless the connection broke.
HandshakesEnd ==
  /\ \A s \in Sides : <>(pc[s] \in {"done", "failed"})
  /\ <>[](\/ broken \/ \E s \in Sides : pc[s] = "failed"
          \/ /\ Len(got["in"]) = initial + sent["out"]
             /\ Len(got["out"]) = sent["in"])

=============================================================================
