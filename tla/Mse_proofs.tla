----------------------------- MODULE Mse_proofs -----------------------------
(***************************************************************************)
(* Proofs about Mse for keys, hashes, verification constants and pads of   *)
(* any length, any set of methods and any amount of data.                  *)
(***************************************************************************)
EXTENDS Mse, FiniteSetTheorems, SequenceTheorems, TLAPS

-----------------------------------------------------------------------------
(* The inductive invariant: the handshake as a line of stages              *)

\* The values of the bytes on the wire, and the bytes.
Tags == {"key", "pad", "req1", "skey", "vc", "provide", "len", "select",
         "garbage", "out", "in"}
Vals == Tags \X (Int \cup Sides \cup SUBSET Methods)
Ciphers == [key : {"raw", "keyA", "keyB"}, pos : Nat]
Bytes == Vals \X {"raw", "keyA", "keyB"} \X Nat

At(key, pos) == [key |-> key, pos |-> pos]
Pads(n) == Enc(RawCipher, PadBytes(n))
HeaderLen(q) == VcLen + 3 + q + initial
\* What is left of a header after crypto_provide, and of step 4 after VC.
PayloadPart(q) ==
  <<<<"len", q>>>> \o PadBytes(q) \o <<<<"len", initial>>>>
    \o Data("out", 0, initial)
SelectPart(m, d) == <<<<"select", m>>, <<"len", d>>>> \o PadBytes(d)

\* What an end writes first.
KeyAndPad(s, p) == PublicKey(s) \o Pads(p)
\* What is left of step 3 after r bytes of pad, after the hashes and after
\* crypto_provide.
Asks(r, q) == Pads(r) \o Step3(Fresh("keyA"), q)
Offers(q) == Enc(Fresh("keyA"), Header(q))
Pays(q) == Enc(At("keyA", VcLen + 1), PayloadPart(q))
\* Behind step 4 come k bytes of data under the cipher of the selection.
InCipher(m, d) == UpdateCipher(At("keyB", VcLen + 2 + d), m)
InSent(m, d, k) == Enc(InCipher(m, d), Data("in", 0, k))
Answers(t, m, d, k) ==
  (Pads(t) \o Enc(Fresh("keyB"), Step4(m, d))) \o InSent(m, d, k)
Selects(m, d, k) ==
  Enc(At("keyB", VcLen), SelectPart(m, d)) \o InSent(m, d, k)
\* What the incoming end has read or has in its buffer.
Taken == got["in"] \o r2

\* r bytes of pad are left behind the first read of s.
PadsLeft(s, r) ==
  /\ firstRead[s] \in KeyLen..(KeyLen + PadLimit)
  /\ r + firstRead[s] < KeyLen + PadLimit
FewPads == 0..(PadLimit - 1)

Types ==
  /\ pc \in [Sides -> {"new", "key", "sync", "header", "payload", "select",
                       "done", "failed"}]
  /\ wire \in [Sides -> Seq(Bytes)]
  /\ firstRead \in [Sides -> 0..(KeyLen + PadLimit)]
  /\ rd \in [Sides -> Ciphers] /\ wr \in [Sides -> Ciphers]
  /\ initial \in Nat /\ provide \in SUBSET Methods /\ known \in BOOLEAN
  /\ selected \in [Sides -> SUBSET Methods]
  /\ sent \in [Sides -> Nat] /\ got \in [Sides -> Seq(Vals)]
  /\ r2 \in Seq(Vals) /\ broken \in BOOLEAN
  /\ err \in [Sides -> {"none", "arguments", "skey", "selection", "io"}]

Errors ==
  /\ err["out"] \in {"none", "arguments", "io"}
  /\ err["in"] \in {"none", "skey", "selection", "io"}
  /\ \A s \in Sides : pc[s] = "failed" <=> err[s] # "none"

PcIn(a, b) == pc["out"] \in {a, "failed"} /\ pc["in"] \in {b, "failed"}

NoData == /\ sent["out"] = 0 /\ got["out"] = <<>>
NoDataYet ==
  NoData /\ sent["in"] = 0 /\ got["in"] = <<>> /\ r2 = <<>>
NoneSelected == selected["out"] = {} /\ selected["in"] = {}

\* Nothing is written, or the key of the outgoing end is.
Stage0 ==
  /\ PcIn("new", "new") /\ NoDataYet /\ NoneSelected
  /\ wire["out"] = <<>> /\ wire["in"] = <<>>
  /\ \A s \in Sides : rd[s] = RawCipher /\ wr[s] = RawCipher
Stage1 ==
  /\ PcIn("key", "new") /\ NoDataYet /\ NoneSelected
  /\ \E p \in FewPads : wire["out"] = KeyAndPad("out", p)
  /\ wire["in"] = <<>>
  /\ \A s \in Sides : rd[s] = RawCipher /\ wr[s] = RawCipher
\* The incoming end has read it and written its own.
Stage2 ==
  /\ PcIn("key", "sync") /\ NoDataYet /\ NoneSelected
  /\ \E r \in Nat : PadsLeft("in", r) /\ wire["out"] = Pads(r)
  /\ \E p \in FewPads : wire["in"] = KeyAndPad("in", p)
  /\ \A s \in Sides : rd[s] = RawCipher /\ wr[s] = RawCipher
\* The outgoing end has read that and written step 3.
OutWaits ==
  /\ \E t \in Nat : PadsLeft("out", t) /\ wire["in"] = Pads(t)
  /\ rd["out"] = At("keyB", VcLen)
Stage3 ==
  /\ PcIn("sync", "sync") /\ NoDataYet /\ NoneSelected /\ OutWaits
  /\ \E r \in Nat, q \in FewPads :
       /\ PadsLeft("in", r)
       /\ wire["out"] = Asks(r, q)
       /\ wr["out"] = At("keyA", HeaderLen(q))
  /\ rd["in"] = RawCipher /\ wr["in"] = RawCipher
\* The incoming end has read the hashes, then VC and crypto_provide.
Stage4 ==
  /\ PcIn("sync", "header") /\ NoDataYet /\ NoneSelected /\ OutWaits
  /\ \E q \in FewPads :
       /\ wire["out"] = Offers(q)
       /\ wr["out"] = At("keyA", HeaderLen(q))
  /\ rd["in"] = Fresh("keyA") /\ wr["in"] = Fresh("keyB")
Stage5 ==
  /\ PcIn("sync", "payload") /\ NoDataYet /\ OutWaits
  /\ selected["out"] = {} /\ Acceptable(selected["in"], provide)
  /\ \E q \in FewPads :
       /\ wire["out"] = Pays(q)
       /\ wr["out"] = At("keyA", HeaderLen(q))
  /\ rd["in"] = At("keyA", VcLen + 1) /\ wr["in"] = Fresh("keyB")
\* The incoming end has read the payload, written step 4 and is done.
InDone ==
  /\ pc["in"] = "done" /\ NoData
  /\ selected["out"] = {} /\ Acceptable(selected["in"], provide)
  /\ wire["out"] = <<>> /\ Taken = Data("out", 0, initial)
  /\ \E q \in FewPads :
       /\ wr["out"] = At("keyA", HeaderLen(q))
       /\ rd["in"] = UpdateCipher(At("keyA", HeaderLen(q)), selected["in"])
  /\ rd["out"] = At("keyB", VcLen)
Stage6 ==
  /\ pc["out"] \in {"sync", "failed"} /\ InDone
  /\ \E t \in Nat, d \in FewPads :
       /\ PadsLeft("out", t)
       /\ wire["in"] = Answers(t, selected["in"], d, sent["in"])
       /\ wr["in"] = Past(InCipher(selected["in"], d), sent["in"])
\* The outgoing end has found VC.
Stage7 ==
  /\ pc["out"] \in {"select", "failed"} /\ InDone
  /\ \E d \in FewPads :
       /\ wire["in"] = Selects(selected["in"], d, sent["in"])
       /\ wr["in"] = Past(InCipher(selected["in"], d), sent["in"])
\* Both are done; k and j bytes of data have left the wires.
Stage8 ==
  /\ pc["out"] = "done" /\ pc["in"] = "done"
  /\ selected["out"] = selected["in"] /\ Acceptable(selected["in"], provide)
  /\ \E k \in 0..sent["out"] :
       /\ wire["out"] = Enc(rd["in"], Data("out", initial + k,
                                                  initial + sent["out"]))
       /\ wr["out"] = Past(rd["in"], sent["out"] - k)
       /\ Taken = Data("out", 0, initial + k)
  /\ \E j \in 0..sent["in"] :
       /\ wire["in"] = Enc(rd["out"], Data("in", j, sent["in"]))
       /\ wr["in"] = Past(rd["out"], sent["in"] - j)
       /\ got["out"] = Data("in", 0, j)

IInv ==
  /\ Types /\ Errors
  /\ \/ Stage0 \/ Stage1 \/ Stage2 \/ Stage3 \/ Stage4 \/ Stage5
     \/ Stage6 \/ Stage7 \/ Stage8
-----------------------------------------------------------------------------
(* Sequences and ciphers                                                   *)

\* The assumption, as the proofs use it.
LEMMA ConstantFacts ==
  /\ KeyLen \in Nat \ {0} /\ HashLen \in Nat \ {0} /\ VcLen \in Nat \ {0}
  /\ PadLimit \in Nat \ {0} /\ IsFiniteSet(Methods)
BY MseAssumption

\* A sequence is what its elements are.
LEMMA EnumSeq ==
  ASSUME NEW S, NEW n \in Nat, NEW f \in [1..n -> S]
  PROVE  f \in Seq(S) /\ Len(f) = n
OBVIOUS

\* A concatenation is its parts.
LEMMA ConcatFacts ==
  ASSUME NEW S, NEW u \in Seq(S), NEW v \in Seq(S),
         NEW m, NEW n, Len(u) = m, Len(v) = n
  PROVE  /\ u \o v \in Seq(S) /\ Len(u \o v) = m + n
         /\ \A i \in 1..m : (u \o v)[i] = u[i]
         /\ \A i \in 1..n : (u \o v)[m + i] = v[i]
OBVIOUS

\* What is dropped from the front of a concatenation.
LEMMA DropFirst ==
  ASSUME NEW S, NEW u \in Seq(S), NEW v \in Seq(S), NEW k \in 0..Len(v)
  PROVE  SubSeq(u \o v, Len(u) + k + 1, Len(u \o v)) = SubSeq(v, k + 1, Len(v))
OBVIOUS

\* Nothing is left behind the whole, and the whole is the front.
LEMMA DropAll ==
  ASSUME NEW S, NEW u \in Seq(S)
  PROVE  SubSeq(u, Len(u) + 1, Len(u)) = <<>> /\ SubSeq(u, 1, Len(u)) = u
OBVIOUS

\* What is taken from the front of a concatenation.
LEMMA TakeFirst ==
  ASSUME NEW S, NEW u \in Seq(S), NEW v \in Seq(S), NEW k \in 0..Len(u)
  PROVE  SubSeq(u \o v, 1, k) = SubSeq(u, 1, k)
OBVIOUS

\* What a cipher does to each value.
LEMMA EncFacts ==
  ASSUME NEW V, NEW c \in Ciphers, NEW v \in Seq(V)
  PROVE  /\ Enc(c, v) \in Seq(V \X {"raw", "keyA", "keyB"} \X Nat)
         /\ Len(Enc(c, v)) = Len(v)
         /\ \A i \in 1..Len(v) : Enc(c, v)[i] = <<v[i], c.key, Slot(c, i)>>
<1> DEFINE B == V \X {"raw", "keyA", "keyB"} \X Nat
<1>1. ASSUME NEW i \in 1..Len(v) PROVE <<v[i], c.key, Slot(c, i)>> \in B
  <2>1. v[i] \in V
    OBVIOUS
  <2>2. c.key \in {"raw", "keyA", "keyB"} /\ Slot(c, i) \in Nat
    BY DEF Ciphers, Slot
  <2> QED BY <2>1, <2>2
<1>2. Enc(c, v) \in [1..Len(v) -> B]
  BY <1>1 DEF Enc
<1>3. Len(v) \in Nat
  OBVIOUS
<1>4. \A i \in 1..Len(v) : Enc(c, v)[i] = <<v[i], c.key, Slot(c, i)>>
  BY DEF Enc
<1> HIDE DEF B
<1>5. Enc(c, v) \in Seq(B) /\ Len(Enc(c, v)) = Len(v)
  BY <1>2, <1>3, EnumSeq
<1> QED BY <1>4, <1>5 DEF B

\* The raw bytes are those of the cipher that hides nothing.
LEMMA RawIsEnc ==
  ASSUME NEW V, NEW v \in Seq(V)
  PROVE  Raw(v) = Enc(RawCipher, v)
BY DEF Raw, Enc, RawCipher, Slot

\* What the operations on ciphers return.
LEMMA CipherFacts ==
  /\ RawCipher \in Ciphers
  /\ \A k \in {"raw", "keyA", "keyB"}, n \in Nat :
        At(k, n) \in Ciphers /\ At(k, n).key = k /\ At(k, n).pos = n
  /\ \A k \in {"raw", "keyA", "keyB"} : Fresh(k) = At(k, 0)
  /\ \A c \in Ciphers, n \in Nat :
        /\ Past(c, n) \in Ciphers /\ Past(c, n).key = c.key
        /\ \A i \in Nat : Slot(Past(c, n), i) = Slot(c, n + i)
  /\ \A c \in Ciphers : \A m : UpdateCipher(c, m) \in Ciphers
<1>1. /\ RawCipher \in Ciphers
      /\ \A k \in {"raw", "keyA", "keyB"}, n \in Nat :
            At(k, n) \in Ciphers /\ At(k, n).key = k /\ At(k, n).pos = n
      /\ \A k \in {"raw", "keyA", "keyB"} : Fresh(k) = At(k, 0)
  BY DEF RawCipher, Ciphers, At, Fresh
<1>2. ASSUME NEW c \in Ciphers, NEW n \in Nat
      PROVE  /\ Past(c, n) \in Ciphers /\ Past(c, n).key = c.key
             /\ \A i \in Nat : Slot(Past(c, n), i) = Slot(c, n + i)
  BY DEF Past, Ciphers, Slot
<1>3. ASSUME NEW c \in Ciphers, NEW m PROVE UpdateCipher(c, m) \in Ciphers
  BY <1>1 DEF UpdateCipher
<1> QED BY <1>1, <1>2, <1>3

\* The key stream goes on behind the first n bytes and twice n is once 2n.
LEMMA PastPast ==
  ASSUME NEW c \in Ciphers, NEW m \in Nat, NEW n \in Nat
  PROVE  Past(Past(c, m), n) = Past(c, m + n) /\ Past(c, 0) = c
<1>1. CASE c.key = "raw"
  BY <1>1 DEF Past
<1>2. CASE c.key # "raw"
  <2>1. PICK k \in {"keyA", "keyB"}, i \in Nat : c = [key |-> k, pos |-> i]
    BY <1>2 DEF Ciphers
  <2>2. \A j \in Nat : Past([key |-> k, pos |-> i], j)
                         = [key |-> k, pos |-> i + j]
    BY DEF Past
  <2>3. \A j \in Nat : Past([key |-> k, pos |-> i + m], j)
                         = [key |-> k, pos |-> i + m + j]
    BY DEF Past
  <2>4. Past(Past(c, m), n) = [key |-> k, pos |-> i + m + n]
    BY <2>1, <2>2, <2>3
  <2>5. Past(c, m + n) = [key |-> k, pos |-> i + (m + n)]
    BY <2>1, <2>2
  <2>6. Past(c, 0) = [key |-> k, pos |-> i + 0]
    BY <2>1, <2>2
  <2>7. i + m + n = i + (m + n) /\ i + 0 = i
    OBVIOUS
  <2> QED BY <2>1, <2>4, <2>5, <2>6, <2>7
<1> QED BY <1>1, <1>2

\* Two sequences under one cipher are one after the other in its key stream.
LEMMA EncConcat ==
  ASSUME NEW V, NEW c \in Ciphers, NEW u \in Seq(V), NEW v \in Seq(V)
  PROVE  Enc(c, u \o v) = Enc(c, u) \o Enc(Past(c, Len(u)), v)
<1> DEFINE B == V \X {"raw", "keyA", "keyB"} \X Nat
           p == Past(c, Len(u))
           a == Enc(c, u \o v)
           b == Enc(c, u) \o Enc(p, v)
<1>1. /\ u \o v \in Seq(V) /\ Len(u \o v) = Len(u) + Len(v)
      /\ \A i \in 1..(Len(u) + Len(v)) :
            (u \o v)[i] = IF i <= Len(u) THEN u[i] ELSE v[i - Len(u)]
  BY ConcatProperties
<1>2. Len(u) \in Nat /\ Len(v) \in Nat
  OBVIOUS
<1>3. p \in Ciphers /\ p.key = c.key
      /\ \A i \in Nat : Slot(p, i) = Slot(c, Len(u) + i)
  BY <1>2, CipherFacts
<1>4. /\ a \in Seq(B) /\ Len(a) = Len(u) + Len(v)
      /\ \A i \in 1..Len(a) : a[i] = <<(u \o v)[i], c.key, Slot(c, i)>>
  BY <1>1, EncFacts
<1>5. /\ Enc(c, u) \in Seq(B) /\ Len(Enc(c, u)) = Len(u)
      /\ \A i \in 1..Len(u) : Enc(c, u)[i] = <<u[i], c.key, Slot(c, i)>>
  BY EncFacts
<1>6. /\ Enc(p, v) \in Seq(B) /\ Len(Enc(p, v)) = Len(v)
      /\ \A i \in 1..Len(v) : Enc(p, v)[i] = <<v[i], p.key, Slot(p, i)>>
  BY <1>3, EncFacts
<1> HIDE DEF B, p
<1>7. /\ b \in Seq(B) /\ Len(b) = Len(u) + Len(v)
      /\ \A i \in 1..Len(b) : b[i] = IF i <= Len(u) THEN Enc(c, u)[i]
                                     ELSE Enc(p, v)[i - Len(u)]
  <2> DEFINE e == Enc(c, u)
             f == Enc(p, v)
  <2>1. e \in Seq(B) /\ Len(e) = Len(u) /\ f \in Seq(B) /\ Len(f) = Len(v)
    BY <1>5, <1>6
  <2> HIDE DEF e, f
  <2>2. /\ e \o f \in Seq(B) /\ Len(e \o f) = Len(e) + Len(f)
        /\ \A i \in 1..(Len(e) + Len(f)) :
              (e \o f)[i] = IF i <= Len(e) THEN e[i] ELSE f[i - Len(e)]
    BY <2>1, ConcatProperties
  <2>3. /\ e \o f \in Seq(B) /\ Len(e \o f) = Len(u) + Len(v)
        /\ \A i \in 1..Len(e \o f) :
              (e \o f)[i] = IF i <= Len(u) THEN e[i] ELSE f[i - Len(u)]
    BY <2>1, <2>2
  <2> QED BY <2>3 DEF e, f
<1>8. ASSUME NEW i \in 1..Len(a) PROVE a[i] = b[i]
  <2> HIDE DEF a, b
  <2>1. i \in 1..(Len(u) + Len(v))
    BY <1>4
  <2>2. CASE i <= Len(u)
    <3>1. b[i] = Enc(c, u)[i] /\ (u \o v)[i] = u[i] /\ i \in 1..Len(u)
      BY <1>1, <1>2, <1>7, <2>1, <2>2
    <3> QED BY <1>4, <1>5, <3>1
  <2>3. CASE ~(i <= Len(u))
    <3>1. i - Len(u) \in 1..Len(v)
      BY <1>2, <2>1, <2>3
    <3>2. b[i] = Enc(p, v)[i - Len(u)] /\ (u \o v)[i] = v[i - Len(u)]
      BY <1>1, <1>7, <2>1, <2>3
    <3>3. Slot(p, i - Len(u)) = Slot(c, i)
      BY <1>2, <1>3, <3>1
    <3> QED BY <1>3, <1>4, <1>6, <3>1, <3>2, <3>3
  <2> QED BY <2>2, <2>3
<1>9. a = b
  <2> HIDE DEF a, b
  <2> QED BY <1>4, <1>7, <1>8, SeqEqual
<1> QED BY <1>9 DEF p

\* A cipher at the same place recovers what was hidden.
LEMMA DecEnc ==
  ASSUME NEW V, NEW c \in Ciphers, NEW v \in Seq(V)
  PROVE  Dec(c, Enc(c, v)) = v
<1>1. Len(Enc(c, v)) = Len(v)
      /\ \A i \in 1..Len(v) : Enc(c, v)[i] = <<v[i], c.key, Slot(c, i)>>
  BY EncFacts
<1>2. \A i \in 1..Len(v) : Enc(c, v)[i][1] = v[i] /\ Enc(c, v)[i][2] = c.key
                             /\ Enc(c, v)[i][3] = Slot(c, i)
  BY <1>1
<1>3. Dec(c, Enc(c, v)) = [i \in 1..Len(v) |-> v[i]]
  BY <1>1, <1>2 DEF Dec
<1> QED BY <1>3

\* So it does with the front of what it is given.
LEMMA DecTake ==
  ASSUME NEW V, NEW c \in Ciphers, NEW v \in Seq(V), NEW k \in 0..Len(v)
  PROVE  Dec(c, SubSeq(Enc(c, v), 1, k)) = SubSeq(v, 1, k)
<1> DEFINE t == SubSeq(Enc(c, v), 1, k)
<1>1. /\ Enc(c, v) \in Seq(V \X {"raw", "keyA", "keyB"} \X Nat)
      /\ Len(Enc(c, v)) = Len(v)
      /\ \A i \in 1..Len(v) : Enc(c, v)[i] = <<v[i], c.key, Slot(c, i)>>
  BY EncFacts
<1>2. Len(t) = k /\ \A i \in 1..k : t[i] = Enc(c, v)[i]
  BY <1>1
<1>3. ASSUME NEW i \in 1..k
      PROVE  t[i][1] = v[i] /\ t[i][2] = c.key /\ t[i][3] = Slot(c, i)
  <2> HIDE DEF t
  <2>1. i \in 1..Len(v)
    OBVIOUS
  <2>2. t[i] = <<v[i], c.key, Slot(c, i)>>
    BY <1>1, <1>2, <2>1
  <2> QED BY <2>2
<1>4. Dec(c, t) = [i \in 1..k |-> v[i]]
  <2> HIDE DEF t
  <2> QED BY <1>2, <1>3 DEF Dec
<1>5. SubSeq(v, 1, k) = [i \in 1..k |-> v[i]]
  OBVIOUS
<1> QED BY <1>4, <1>5
-----------------------------------------------------------------------------
(* What the ends write                                                     *)

\* What is written on the wire is made of bytes.
LEMMA EncType ==
  ASSUME NEW c \in Ciphers, NEW v \in Seq(Vals)
  PROVE  Enc(c, v) \in Seq(Bytes) /\ Len(Enc(c, v)) = Len(v)
BY EncFacts DEF Bytes

\* The values the ends write.
LEMMA ValFacts ==
  /\ \A t \in Tags, n \in Int : <<t, n>> \in Vals
  /\ \A s \in Sides : <<"key", s>> \in Vals
  /\ \A m \in SUBSET Methods : <<"provide", m>> \in Vals
  /\ \A m \in SUBSET Methods : <<"select", m>> \in Vals
  /\ "pad" \in Tags /\ "len" \in Tags /\ "vc" \in Tags /\ "req1" \in Tags
  /\ "skey" \in Tags /\ "out" \in Tags /\ "in" \in Tags
BY DEF Vals, Tags, Sides

\* A value n times.
LEMMA RepeatFacts ==
  ASSUME NEW v \in Vals, NEW n \in Nat
  PROVE  /\ Repeat(v, n) \in Seq(Vals) /\ Len(Repeat(v, n)) = n
         /\ \A i \in 1..n : Repeat(v, n)[i] = v
BY DEF Repeat

\* n bytes of pad.
LEMMA PadBytesFacts ==
  ASSUME NEW n \in Nat
  PROVE  /\ PadBytes(n) \in Seq(Vals) /\ Len(PadBytes(n)) = n
         /\ \A i \in 1..n : PadBytes(n)[i] = <<"pad", 0>>
<1>1. <<"pad", 0>> \in Vals
  BY ValFacts
<1> QED BY <1>1, RepeatFacts DEF PadBytes

\* The bytes a to b of the data of s.
LEMMA DataFacts ==
  ASSUME NEW s \in Sides, NEW a \in Nat, NEW b \in Nat, a <= b
  PROVE  /\ Data(s, a, b) \in Seq(Vals) /\ Len(Data(s, a, b)) = b - a
         /\ \A i \in 1..(b - a) : Data(s, a, b)[i] = <<s, a + i>>
<1>1. ASSUME NEW i \in 1..(b - a) PROVE <<s, a + i>> \in Vals
  <2>1. s \in Tags /\ a + i \in Int
    BY DEF Sides, Tags
  <2> QED BY <2>1, ValFacts
<1>2. b - a \in Nat /\ Data(s, a, b) \in [1..(b - a) -> Vals]
  BY <1>1 DEF Data
<1>3. Data(s, a, b) \in Seq(Vals) /\ Len(Data(s, a, b)) = b - a
  BY <1>2, EnumSeq
<1> QED BY <1>3 DEF Data

\* Data that follow each other.
LEMMA DataConcat ==
  ASSUME NEW s \in Sides, NEW a \in Nat, NEW b \in Nat, NEW c \in Nat,
         a <= b, b <= c
  PROVE  Data(s, a, b) \o Data(s, b, c) = Data(s, a, c)
<1> DEFINE u == Data(s, a, b)
           v == Data(s, b, c)
           w == Data(s, a, c)
<1>1. u \in Seq(Vals) /\ Len(u) = b - a
      /\ \A i \in 1..(b - a) : u[i] = <<s, a + i>>
  BY DataFacts
<1>2. v \in Seq(Vals) /\ Len(v) = c - b
      /\ \A i \in 1..(c - b) : v[i] = <<s, b + i>>
  BY DataFacts
<1>3. w \in Seq(Vals) /\ Len(w) = c - a
      /\ \A i \in 1..(c - a) : w[i] = <<s, a + i>>
  <2>1. a <= c
    OBVIOUS
  <2> QED BY <2>1, DataFacts
<1> HIDE DEF u, v, w
<1>4. b - a \in Nat /\ c - b \in Nat /\ (b - a) + (c - b) = c - a
  OBVIOUS
<1>5. /\ u \o v \in Seq(Vals) /\ Len(u \o v) = (b - a) + (c - b)
      /\ \A i \in 1..(b - a) : (u \o v)[i] = u[i]
      /\ \A i \in 1..(c - b) : (u \o v)[(b - a) + i] = v[i]
  <2>1. /\ u \in Seq(Vals) /\ Len(u) = b - a
        /\ v \in Seq(Vals) /\ Len(v) = c - b
    BY <1>1, <1>2
  <2> QED BY ONLY <2>1
<1>6. ASSUME NEW i \in 1..(c - a) PROVE (u \o v)[i] = w[i]
  <2>1. CASE i <= b - a
    <3>1. i \in 1..(b - a)
      BY <2>1
    <3> QED BY <1>1, <1>3, <1>5, <3>1
  <2>2. CASE ~(i <= b - a)
    <3> DEFINE j == i - (b - a)
    <3>1. j \in 1..(c - b) /\ (b - a) + j = i /\ b + j = a + i
      BY <2>2
    <3> HIDE DEF j
    <3> QED BY <1>2, <1>3, <1>5, <3>1
  <2> QED BY <2>1, <2>2
<1>7. u \o v = w
  BY <1>3, <1>4, <1>5, <1>6, SeqEqual
<1> QED BY <1>7 DEF u, v, w

\* One value, two values.
LEMMA Singletons ==
  ASSUME NEW S, NEW a \in S, NEW b \in S
  PROVE  /\ <<a>> \in Seq(S) /\ Len(<<a>>) = 1
         /\ <<a, b>> \in Seq(S) /\ Len(<<a, b>>) = 2
         /\ <<a>> \o <<b>> = <<a, b>>
<1>1. <<a>> \in Seq(S) /\ Len(<<a>>) = 1
  OBVIOUS
<1>2. <<a, b>> \in Seq(S) /\ Len(<<a, b>>) = 2
  OBVIOUS
<1>3. <<b>> \in Seq(S) /\ Len(<<b>>) = 1
  OBVIOUS
<1>4. /\ <<a>> \o <<b>> \in Seq(S) /\ Len(<<a>> \o <<b>>) = 2
      /\ (<<a>> \o <<b>>)[1] = a /\ (<<a>> \o <<b>>)[2] = b
  <2>1. 1 \in Nat /\ 1 \in 1..1 /\ 1 + 1 = 2
    OBVIOUS
  <2> QED BY <1>1, <1>3, <2>1
<1>5. \A i \in 1..2 : (<<a>> \o <<b>>)[i] = <<a, b>>[i]
  BY <1>4
<1> QED BY <1>1, <1>2, <1>4, <1>5, SeqEqual

\* The verification constant.
LEMMA VcFacts ==
  /\ Vc \in Seq(Vals) /\ Len(Vc) = VcLen
  /\ Vc[1] = <<"vc", 0>>
<1>1. <<"vc", 0>> \in Vals
  BY ValFacts
<1>2. VcLen \in Nat /\ 1 \in 1..VcLen
  BY ConstantFacts
<1> QED BY <1>1, <1>2, RepeatFacts DEF Vc

\* The first hash of step 3.
LEMMA Req1Facts ==
  /\ Req1 \in Seq(Vals) /\ Len(Req1) = HashLen
  /\ Req1[1] = <<"req1", 1>>
<1>1. \A i \in 1..HashLen : <<"req1", i>> \in Vals
  BY ValFacts
<1>2. Req1 \in [1..HashLen -> Vals]
  BY <1>1 DEF Req1
<1> QED BY <1>2, ConstantFacts, EnumSeq DEF Req1

\* A header is VC, crypto_provide and the part with the payload.
LEMMA HeaderFacts ==
  ASSUME Types, NEW q \in Nat
  PROVE  LET head == Vc \o <<<<"provide", provide>>>>
         IN  /\ head \in Seq(Vals) /\ Len(head) = VcLen + 1
             /\ SubSeq(head, 1, VcLen) = Vc
             /\ head[VcLen + 1] = <<"provide", provide>>
             /\ PayloadPart(q) \in Seq(Vals)
             /\ Len(PayloadPart(q)) = q + 2 + initial
             /\ Header(q) = head \o PayloadPart(q)
<1> DEFINE p == <<"provide", provide>>
           l == <<"len", q>>
           k == <<"len", initial>>
           pads == PadBytes(q)
           ia == Data("out", 0, initial)
<1>1. p \in Vals /\ l \in Vals /\ k \in Vals
  BY ValFacts DEF Types
<1>2. pads \in Seq(Vals) /\ Len(pads) = q
  BY PadBytesFacts
<1>3. ia \in Seq(Vals) /\ Len(ia) = initial /\ initial \in Nat
  <2>1. initial \in Nat /\ 0 <= initial /\ "out" \in Sides
    BY DEF Types, Sides
  <2> QED BY <2>1, DataFacts
<1>4. Header(q) = Vc \o <<p, l>> \o pads \o <<k>> \o ia
  BY DEF Header
<1>5. PayloadPart(q) = <<l>> \o pads \o <<k>> \o ia
  BY DEF PayloadPart
<1> HIDE DEF p, l, k, pads, ia
<1>6. /\ <<p>> \in Seq(Vals) /\ Len(<<p>>) = 1
      /\ <<l>> \in Seq(Vals) /\ Len(<<l>>) = 1
      /\ <<k>> \in Seq(Vals) /\ Len(<<k>>) = 1
      /\ <<p, l>> = <<p>> \o <<l>>
  BY <1>1, Singletons
<1> DEFINE head == Vc \o <<p>>
<1>7. /\ head \in Seq(Vals) /\ Len(head) = VcLen + 1
      /\ SubSeq(head, 1, VcLen) = Vc /\ head[VcLen + 1] = p
  <2>1. /\ head \in Seq(Vals) /\ Len(head) = VcLen + 1
        /\ \A i \in 1..(VcLen + 1) : head[i] = IF i <= VcLen THEN Vc[i]
                                                ELSE <<p>>[i - VcLen]
    BY <1>6, VcFacts, ConcatProperties
  <2>2. SubSeq(head, 1, VcLen) = Vc
    BY <1>6, VcFacts, ConstantFacts, TakeFirst, DropAll
  <2>3. head[VcLen + 1] = p
    BY <2>1, ConstantFacts
  <2> QED BY <2>1, <2>2, <2>3
<1>8. Vc \o <<p, l>> = head \o <<l>>
  BY <1>6, VcFacts, ConcatAssociative
<1> HIDE DEF head
<1>9. /\ (head \o <<l>>) \o pads = head \o (<<l>> \o pads)
      /\ <<l>> \o pads \in Seq(Vals) /\ Len(<<l>> \o pads) = q + 1
  BY <1>2, <1>6, <1>7, ConcatAssociative, ConcatProperties
<1> DEFINE lp == <<l>> \o pads
<1>10. lp \in Seq(Vals) /\ Len(lp) = q + 1
  BY <1>9
<1> HIDE DEF lp
<1>11. /\ (head \o lp) \o <<k>> = head \o (lp \o <<k>>)
       /\ lp \o <<k>> \in Seq(Vals) /\ Len(lp \o <<k>>) = q + 2
  BY <1>6, <1>7, <1>10, ConcatAssociative, ConcatProperties
<1> DEFINE lpk == lp \o <<k>>
<1>12. lpk \in Seq(Vals) /\ Len(lpk) = q + 2
  BY <1>11
<1> HIDE DEF lpk
<1>13. /\ (head \o lpk) \o ia = head \o (lpk \o ia)
       /\ lpk \o ia \in Seq(Vals) /\ Len(lpk \o ia) = q + 2 + initial
  <2>1. q + 2 \in Nat
    OBVIOUS
  <2>2. (head \o lpk) \o ia = head \o (lpk \o ia)
    <3>1. head \in Seq(Vals) /\ lpk \in Seq(Vals) /\ ia \in Seq(Vals)
      BY <1>3, <1>7, <1>12
    <3> HIDE DEF ia, lpk, head
    <3> QED BY ONLY <3>1, ConcatAssociative, SMTT(30)
  <2>3. lpk \o ia \in Seq(Vals) /\ Len(lpk \o ia) = Len(lpk) + Len(ia)
    BY <1>3, <1>12
  <2> QED BY <1>3, <1>12, <2>1, <2>2, <2>3
<1>14. PayloadPart(q) = lpk \o ia
  BY <1>5 DEF lp, lpk
<1>15. Header(q) = head \o PayloadPart(q)
  BY <1>4, <1>8, <1>9, <1>11, <1>13, <1>14 DEF lp, lpk
<1> QED BY <1>7, <1>13, <1>14, <1>15 DEF head, p

\* The part of a header with the payload.
LEMMA PayloadFacts ==
  ASSUME Types, NEW q \in Nat
  PROVE  /\ PayloadPart(q)[1] = <<"len", q>>
         /\ PayloadPart(q)[q + 2] = <<"len", initial>>
         /\ SubSeq(PayloadPart(q), q + 3, q + 2 + initial)
              = Data("out", 0, initial)
<1> DEFINE l == <<"len", q>>
           k == <<"len", initial>>
           pads == PadBytes(q)
           ia == Data("out", 0, initial)
           front == (<<l>> \o pads) \o <<k>>
<1>1. l \in Vals /\ k \in Vals
  BY ValFacts DEF Types
<1>2. pads \in Seq(Vals) /\ Len(pads) = q
  BY PadBytesFacts
<1>3. ia \in Seq(Vals) /\ Len(ia) = initial /\ initial \in Nat
  <2>1. initial \in Nat /\ 0 <= initial /\ "out" \in Sides
    BY DEF Types, Sides
  <2> QED BY <2>1, DataFacts
<1>4. PayloadPart(q) = front \o ia
  BY DEF PayloadPart
<1> HIDE DEF l, k, pads, ia
<1>5. /\ <<l>> \in Seq(Vals) /\ Len(<<l>>) = 1 /\ <<l>>[1] = l
      /\ <<k>> \in Seq(Vals) /\ Len(<<k>>) = 1 /\ <<k>>[1] = k
  BY <1>1, Singletons
<1>6. /\ <<l>> \o pads \in Seq(Vals) /\ Len(<<l>> \o pads) = q + 1
      /\ (<<l>> \o pads)[1] = l
  BY <1>2, <1>5, ConcatProperties
<1>7. /\ front \in Seq(Vals) /\ Len(front) = q + 2
      /\ front[1] = l /\ front[q + 2] = k
  <2> DEFINE lp == <<l>> \o pads
  <2>1. lp \in Seq(Vals) /\ Len(lp) = q + 1 /\ lp[1] = l
    BY <1>6
  <2> HIDE DEF lp
  <2>2. /\ lp \o <<k>> \in Seq(Vals) /\ Len(lp \o <<k>>) = q + 2
        /\ \A i \in 1..(q + 2) : (lp \o <<k>>)[i] = IF i <= q + 1 THEN lp[i]
                                                    ELSE <<k>>[i - (q + 1)]
    BY <1>5, <2>1, ConcatProperties
  <2>3. (lp \o <<k>>)[1] = l /\ (lp \o <<k>>)[q + 2] = k
    BY <1>5, <2>1, <2>2
  <2> QED BY <2>2, <2>3 DEF lp
<1> HIDE DEF front
<1>8. /\ Len(front \o ia) = q + 2 + initial
      /\ (front \o ia)[1] = l /\ (front \o ia)[q + 2] = k
  <2>1. q + 2 \in Nat /\ 1 \in 1..(q + 2) /\ q + 2 \in 1..(q + 2)
    OBVIOUS
  <2>2. /\ Len(front \o ia) = Len(front) + Len(ia)
        /\ \A i \in 1..Len(front) : (front \o ia)[i] = front[i]
    BY <1>3, <1>7
  <2> QED BY <1>3, <1>7, <2>1, <2>2
<1>9. SubSeq(front \o ia, q + 3, q + 2 + initial) = ia
  <2>1. SubSeq(front \o ia, Len(front) + 0 + 1, Len(front \o ia))
          = SubSeq(ia, 0 + 1, Len(ia))
    <3>1. 0 \in 0..Len(ia)
      BY <1>3
    <3> QED BY <1>3, <1>7, <3>1, DropFirst
  <2>2. Len(front) + 0 + 1 = q + 3 /\ 0 + 1 = 1
    BY <1>7
  <2> QED BY <1>3, <1>8, <2>1, <2>2, DropAll
<1> QED BY <1>4, <1>8, <1>9 DEF l, k, ia

\* Step 4 is VC and the part with the selection.
LEMMA SelectFacts ==
  ASSUME NEW m \in SUBSET Methods, NEW d \in Nat
  PROVE  /\ SelectPart(m, d) \in Seq(Vals) /\ Len(SelectPart(m, d)) = 2 + d
         /\ SelectPart(m, d)[1] = <<"select", m>>
         /\ SelectPart(m, d)[2] = <<"len", d>>
         /\ Step4(m, d) = Vc \o SelectPart(m, d)
         /\ Step4(m, d) \in Seq(Vals) /\ Len(Step4(m, d)) = VcLen + 2 + d
<1> DEFINE a == <<"select", m>>
           b == <<"len", d>>
           pads == PadBytes(d)
<1>1. a \in Vals /\ b \in Vals
  BY ValFacts
<1>2. pads \in Seq(Vals) /\ Len(pads) = d
  BY PadBytesFacts
<1>3. SelectPart(m, d) = <<a, b>> \o pads
      /\ Step4(m, d) = Vc \o <<a, b>> \o pads
  BY DEF SelectPart, Step4
<1> HIDE DEF a, b, pads
<1>4. /\ <<a, b>> \in Seq(Vals) /\ Len(<<a, b>>) = 2
      /\ <<a, b>>[1] = a /\ <<a, b>>[2] = b
  BY <1>1, Singletons
<1> DEFINE h == <<a, b>>
<1>5. h \in Seq(Vals) /\ Len(h) = 2 /\ h[1] = a /\ h[2] = b
  BY <1>4
<1> HIDE DEF h
<1>6. /\ h \o pads \in Seq(Vals) /\ Len(h \o pads) = 2 + d
      /\ (h \o pads)[1] = a /\ (h \o pads)[2] = b
  <2>1. 2 \in Nat /\ 1 \in 1..2 /\ 2 \in 1..2
    OBVIOUS
  <2>2. /\ h \o pads \in Seq(Vals) /\ Len(h \o pads) = 2 + d
        /\ \A i \in 1..2 : (h \o pads)[i] = h[i]
    <3> DEFINE two == 2
    <3>1. h \in Seq(Vals) /\ Len(h) = two /\ pads \in Seq(Vals) /\ Len(pads) = d
      BY <1>2, <1>5
    <3> HIDE DEF two
    <3>2. /\ h \o pads \in Seq(Vals) /\ Len(h \o pads) = two + d
          /\ \A i \in 1..two : (h \o pads)[i] = h[i]
      BY ONLY <3>1, ConcatFacts
    <3> QED BY <3>2, Zenon DEF two
  <2> QED BY <1>5, <2>1, <2>2
<1>7. (Vc \o h) \o pads = Vc \o (h \o pads)
  <2>1. Vc \in Seq(Vals) /\ h \in Seq(Vals) /\ pads \in Seq(Vals)
    BY <1>2, <1>5, VcFacts
  <2> QED BY ONLY <2>1, ConcatAssociative
<1> DEFINE hp == h \o pads
<1>8. hp \in Seq(Vals) /\ Len(hp) = 2 + d /\ 2 + d \in Nat
  BY <1>6
<1> HIDE DEF hp
<1>9. Vc \o hp \in Seq(Vals) /\ Len(Vc \o hp) = VcLen + (2 + d)
  BY <1>8, VcFacts, ConstantFacts
<1>10. VcLen + (2 + d) = VcLen + 2 + d
  BY ConstantFacts
<1>11. /\ SelectPart(m, d) = h \o pads
       /\ Step4(m, d) = (Vc \o h) \o pads
  BY <1>3 DEF h
<1> QED BY <1>6, <1>7, <1>9, <1>10, <1>11 DEF a, b, hp

\* A key stream goes on where it is.
LEMMA PastAt ==
  ASSUME NEW k \in {"keyA", "keyB"}, NEW m \in Nat, NEW n \in Nat
  PROVE  Past(At(k, m), n) = At(k, m + n)
BY DEF Past, At

\* Under keyB, step 4 is VC and, behind it, the part with the selection.
LEMMA EncStep4 ==
  ASSUME NEW m \in SUBSET Methods, NEW d \in Nat
  PROVE  Enc(Fresh("keyB"), Step4(m, d))
           = Enc(Fresh("keyB"), Vc) \o Enc(At("keyB", VcLen), SelectPart(m, d))
<1>1. Fresh("keyB") = At("keyB", 0) /\ Fresh("keyB") \in Ciphers
  BY CipherFacts
<1>2. Past(Fresh("keyB"), VcLen) = At("keyB", VcLen)
  <2>1. Past(At("keyB", 0), VcLen) = At("keyB", 0 + VcLen) /\ 0 + VcLen = VcLen
    BY ConstantFacts, PastAt
  <2> QED BY <1>1, <2>1
<1>3. Enc(Fresh("keyB"), Vc \o SelectPart(m, d))
        = Enc(Fresh("keyB"), Vc)
            \o Enc(Past(Fresh("keyB"), Len(Vc)), SelectPart(m, d))
  <2> DEFINE v == SelectPart(m, d)
  <2>1. v \in Seq(Vals) /\ Vc \in Seq(Vals)
    BY VcFacts, SelectFacts
  <2> HIDE DEF v
  <2>2. Enc(Fresh("keyB"), Vc \o v)
          = Enc(Fresh("keyB"), Vc) \o Enc(Past(Fresh("keyB"), Len(Vc)), v)
    BY <1>1, <2>1, EncConcat
  <2> QED BY <2>2 DEF v
<1> QED BY <1>2, <1>3, VcFacts, SelectFacts

PadByte == <<<<"pad", 0>>, "raw", 0>>

\* Pads on the wire.
LEMMA PadFacts ==
  ASSUME NEW n \in Nat
  PROVE  /\ Pads(n) \in Seq(Bytes) /\ Len(Pads(n)) = n
         /\ \A i \in 1..n : Pads(n)[i] = PadByte
         /\ Pads(n) = Raw(PadBytes(n))
<1>1. PadBytes(n) \in Seq(Vals) /\ Len(PadBytes(n)) = n
      /\ \A i \in 1..n : PadBytes(n)[i] = <<"pad", 0>>
  BY PadBytesFacts
<1>2. Pads(n) \in Seq(Bytes) /\ Len(Pads(n)) = n
  BY <1>1, CipherFacts, EncType DEF Pads
<1>3. \A i \in 1..n : Pads(n)[i] = PadByte
  BY <1>1 DEF Pads, Enc, PadByte, RawCipher, Slot
<1>4. Pads(n) = Raw(PadBytes(n))
  BY <1>1, RawIsEnc DEF Pads
<1> QED BY <1>2, <1>3, <1>4

\* Pads that were read in part are pads.
LEMMA PadsDrop ==
  ASSUME NEW n \in Nat, NEW k \in 0..n
  PROVE  SubSeq(Pads(n), k + 1, n) = Pads(n - k)
<1> DEFINE w == Pads(n)
           v == Pads(n - k)
<1>1. w \in Seq(Bytes) /\ Len(w) = n /\ \A i \in 1..n : w[i] = PadByte
  BY PadFacts
<1>2. n - k \in Nat
  OBVIOUS
<1>3. v \in Seq(Bytes) /\ Len(v) = n - k /\ \A i \in 1..(n - k) : v[i] = PadByte
  BY <1>2, PadFacts
<1> HIDE DEF w, v
<1> DEFINE u == SubSeq(w, k + 1, n)
<1>4. /\ u \in Seq(Bytes) /\ Len(u) = n - k
      /\ \A i \in 1..(n - k) : u[i] = w[k + i]
  BY <1>1
<1>5. ASSUME NEW i \in 1..(n - k) PROVE u[i] = v[i]
  <2> HIDE DEF u
  <2>1. k + i \in 1..n
    OBVIOUS
  <2> QED BY <1>1, <1>3, <1>4, <2>1
<1>6. u = v
  <2> HIDE DEF u
  <2> QED BY <1>3, <1>4, <1>5, SeqEqual
<1> QED BY <1>6 DEF w, v

\* A public key on the wire.
LEMMA KeyFacts ==
  ASSUME NEW s \in Sides
  PROVE  PublicKey(s) \in Seq(Bytes) /\ Len(PublicKey(s)) = KeyLen
<1> DEFINE v == Repeat(<<"key", s>>, KeyLen)
<1>1. <<"key", s>> \in Vals
  BY ValFacts
<1>2. v \in Seq(Vals) /\ Len(v) = KeyLen
  BY <1>1, ConstantFacts, RepeatFacts
<1> HIDE DEF v
<1>3. Raw(v) \in Seq(Bytes) /\ Len(Raw(v)) = KeyLen
  BY <1>2, CipherFacts, RawIsEnc, EncType
<1> QED BY <1>3 DEF PublicKey, v

\* What is left of w when n bytes are read.
Drop(w, n) == SubSeq(w, n + 1, Len(w))

\* All of it, nothing of it, and what is left of two parts and of three.
LEMMA DropFacts ==
  ASSUME NEW S, NEW u \in Seq(S), NEW v \in Seq(S)
  PROVE  /\ Drop(u, 0) = u /\ Drop(u, Len(u)) = <<>>
         /\ \A k \in 0..Len(v) : Drop(u \o v, Len(u) + k) = Drop(v, k)
         /\ u \o <<>> = u /\ <<>> \o u = u /\ <<>> \in Seq(S)
<1>1. Drop(u, 0) = u /\ Drop(u, Len(u)) = <<>>
  BY DropAll DEF Drop
<1>2. ASSUME NEW k \in 0..Len(v)
      PROVE  Drop(u \o v, Len(u) + k) = Drop(v, k)
  BY DropFirst DEF Drop
<1>3. u \o <<>> = u /\ <<>> \o u = u /\ <<>> \in Seq(S)
  OBVIOUS
<1> QED BY <1>1, <1>2, <1>3

\* What is left behind one part and behind two.
LEMMA DropTwo ==
  ASSUME NEW S, NEW u \in Seq(S), NEW v \in Seq(S), NEW w \in Seq(S)
  PROVE  /\ Drop(u \o v, Len(u)) = v
         /\ u \o (v \o w) \in Seq(S) /\ (u \o v) \o w = u \o (v \o w)
         /\ Drop(u \o (v \o w), Len(u) + Len(v)) = w
<1>1. /\ v \o w \in Seq(S) /\ Len(v \o w) = Len(v) + Len(w)
      /\ (u \o v) \o w = u \o (v \o w)
  OBVIOUS
<1>2. Len(v) \in Nat /\ Len(w) \in Nat /\ 0 \in 0..Len(v) /\ 0 \in 0..Len(w)
      /\ Len(u) \in Nat
  OBVIOUS
<1>3. Drop(u \o v, Len(u) + 0) = Drop(v, 0) /\ Drop(v, 0) = v
  BY <1>2, DropFacts
<1>4. Drop(v \o w, Len(v) + 0) = Drop(w, 0) /\ Drop(w, 0) = w
  BY <1>2, DropFacts
<1> DEFINE vw == v \o w
<1>5. vw \in Seq(S) /\ Len(v) \in 0..Len(vw)
  BY <1>1, <1>2
<1> HIDE DEF vw
<1>6. Drop(u \o vw, Len(u) + Len(v)) = Drop(vw, Len(v)) /\ u \o vw \in Seq(S)
  BY <1>5, DropFacts
<1>7. Len(u) + 0 = Len(u) /\ Len(v) + 0 = Len(v)
  BY <1>2
<1> QED BY <1>1, <1>3, <1>4, <1>6, <1>7 DEF vw

\* The first read takes the key and may take pad, too.
LEMMA KeyRead ==
  ASSUME NEW s \in Sides, NEW p \in Nat, NEW n \in KeyLen..(KeyLen + p)
  PROVE  Drop(KeyAndPad(s, p), n) = Pads(KeyLen + p - n)
<1> DEFINE u == PublicKey(s)
           v == Pads(p)
           k == n - KeyLen
<1>1. u \in Seq(Bytes) /\ Len(u) = KeyLen
  BY KeyFacts
<1>2. v \in Seq(Bytes) /\ Len(v) = p
  BY PadFacts
<1>3. k \in 0..p /\ KeyLen + k = n /\ p - k = KeyLen + p - n
  BY ConstantFacts
<1>4. Drop(v, k) = Pads(p - k)
  BY <1>2, <1>3, PadsDrop DEF Drop
<1>5. KeyAndPad(s, p) = u \o v
  BY DEF KeyAndPad
<1> HIDE DEF u, v, k
<1>6. Drop(u \o v, Len(u) + k) = Drop(v, k)
  <2>1. u \in Seq(Bytes) /\ v \in Seq(Bytes) /\ k \in 0..Len(v)
    BY <1>1, <1>2, <1>3
  <2> QED BY ONLY <2>1, DropFacts
<1> QED BY <1>1, <1>3, <1>4, <1>5, <1>6

\* The first thing an end writes.
LEMMA KeyAndPadFacts ==
  ASSUME NEW s \in Sides, NEW p \in Nat
  PROVE  KeyAndPad(s, p) \in Seq(Bytes) /\ Len(KeyAndPad(s, p)) = KeyLen + p
<1> DEFINE u == PublicKey(s)
           v == Pads(p)
<1>1. u \in Seq(Bytes) /\ Len(u) = KeyLen
  BY KeyFacts
<1>2. v \in Seq(Bytes) /\ Len(v) = p
  BY PadFacts
<1>3. KeyAndPad(s, p) = u \o v
  BY DEF KeyAndPad
<1> HIDE DEF u, v
<1>4. /\ u \in Seq(Bytes) /\ Len(u) = KeyLen
      /\ v \in Seq(Bytes) /\ Len(v) = p
  BY <1>1, <1>2
<1>5. u \o v \in Seq(Bytes) /\ Len(u \o v) = KeyLen + p
  BY ONLY <1>4, ConcatFacts
<1> QED BY <1>3, <1>5

\* In w, key comes behind r bytes of pad.
Behind(w, r, key) == \E rest \in Seq(Bytes) : w = Pads(r) \o (key \o rest)

\* The first place of key in w.
FirstAt(w, r, key) ==
  /\ Len(w) >= r + Len(key)
  /\ SubSeq(w, r + 1, r + Len(key)) = key
  /\ \A j \in 0..(r - 1) : SubSeq(w, j + 1, j + Len(key)) # key

\* Where the key of a synchronisation is, and that it is nowhere before.
LEMMA SyncAt ==
  ASSUME NEW r \in Nat, NEW key \in Seq(Bytes), NEW n \in Nat \ {0},
         Len(key) = n, key[1] # PadByte, NEW w, Behind(w, r, key)
  PROVE  FirstAt(w, r, key)
<1>0. PICK rest \in Seq(Bytes) : w = Pads(r) \o (key \o rest)
  BY DEF Behind
<1> DEFINE kr == key \o rest
           m == n + Len(rest)
           pr == Pads(r)
<1>1. m \in Nat /\ n <= m /\ r \in Nat
  OBVIOUS
<1>2. /\ kr \in Seq(Bytes) /\ Len(kr) = m
      /\ \A i \in 1..n : kr[i] = key[i]
  <2>1. key \in Seq(Bytes) /\ rest \in Seq(Bytes) /\ Len(key) = n
    OBVIOUS
  <2> QED BY ONLY <2>1
<1>3. pr \in Seq(Bytes) /\ Len(pr) = r
  BY PadFacts
<1> HIDE DEF kr, m, pr
<1>4. /\ w \in Seq(Bytes) /\ Len(w) = r + m
      /\ \A i \in 1..r : w[i] = pr[i]
      /\ \A i \in 1..m : w[r + i] = kr[i]
  <2>1. pr \in Seq(Bytes) /\ kr \in Seq(Bytes) /\ Len(pr) = r /\ Len(kr) = m
        /\ r \in Nat /\ m \in Nat
    BY <1>1, <1>2, <1>3
  <2>2. /\ pr \o kr \in Seq(Bytes) /\ Len(pr \o kr) = r + m
        /\ \A i \in 1..r : (pr \o kr)[i] = pr[i]
        /\ \A i \in 1..m : (pr \o kr)[r + i] = kr[i]
    BY ONLY <2>1, ConcatFacts
  <2>3. w = pr \o kr
    BY <1>0 DEF pr, kr
  <2> QED BY <2>2, <2>3, Zenon
<1>5. SubSeq(w, r + 1, r + n) = key
  <2> DEFINE u == SubSeq(w, r + 1, r + n)
  <2>1. /\ u \in Seq(Bytes) /\ Len(u) = n
        /\ \A i \in 1..n : u[i] = w[r + i]
    <3>1. /\ w \in Seq(Bytes) /\ Len(w) = r + m
          /\ r \in Nat /\ n \in Nat /\ m \in Nat /\ n <= m
      BY <1>1, <1>4
    <3> QED BY ONLY <3>1
  <2> HIDE DEF u
  <2>2. ASSUME NEW i \in 1..n PROVE u[i] = key[i]
    <3>1. i \in 1..m
      BY <1>1
    <3> QED BY <1>2, <1>4, <2>1, <3>1
  <2>3. u = key
    BY <2>1, <2>2, SeqEqual
  <2> QED BY <2>3 DEF u
<1>6. ASSUME NEW j \in 0..(r - 1) PROVE SubSeq(w, j + 1, j + n) # key
  <2>1. SubSeq(w, j + 1, j + n)[1] = w[j + 1]
    <3>1. /\ w \in Seq(Bytes) /\ Len(w) = r + m
          /\ r \in Nat /\ n \in Nat \ {0} /\ m \in Nat /\ n <= m
      BY <1>1, <1>4
    <3> QED BY ONLY <3>1, j \in 0..(r - 1)
  <2>2. w[j + 1] = PadByte
    <3>1. j + 1 \in 1..r
      OBVIOUS
    <3> QED BY <1>4, <3>1, PadFacts DEF pr
  <2> QED BY <2>1, <2>2
<1>7. Len(w) >= r + n
  BY <1>1, <1>4
<1> QED BY <1>5, <1>6, <1>7 DEF FirstAt

\* In pads alone there is none.
LEMMA SyncNowhere ==
  ASSUME NEW r \in Nat, NEW key \in Seq(Bytes), NEW n \in Nat \ {0},
         Len(key) = n, key[1] # PadByte,
         NEW j \in Nat, Len(Pads(r)) >= j + n
  PROVE  SubSeq(Pads(r), j + 1, j + n) # key
<1> DEFINE w == Pads(r)
<1>1. w \in Seq(Bytes) /\ Len(w) = r /\ \A i \in 1..r : w[i] = PadByte
  BY PadFacts
<1>2. r >= j + n
  BY <1>1
<1> HIDE DEF w
<1>3. SubSeq(w, j + 1, j + n)[1] = w[j + 1] /\ j + 1 \in 1..r
  BY <1>1, <1>2
<1> QED BY <1>1, <1>3 DEF w

\* readSync finds the key behind the pad, however much of it was read before.
LEMMA SyncHere ==
  ASSUME Types, NEW s \in Sides, NEW r \in Nat, PadsLeft(s, r),
         NEW key \in Seq(Bytes), NEW n \in Nat \ {0}, Len(key) = n,
         key[1] # PadByte, Behind(In(s), r, key)
  PROVE  /\ ~SyncMissing(s, key)
         /\ \A j \in Nat : SyncFound(s, key, j) => j = r
<1>1. Matches(s, key, r) /\ \A j \in 0..(r - 1) : ~Matches(s, key, j)
  <2>1. FirstAt(In(s), r, key)
    BY SyncAt
  <2> QED BY <2>1 DEF Matches, FirstAt
<1>2. r \in Offsets(s, key)
  <2>1. r + firstRead[s] < KeyLen + PadLimit /\ firstRead[s] \in Nat
    BY ConstantFacts DEF PadsLeft, Types
  <2> QED BY <2>1, ConstantFacts DEF Offsets, SyncMax
<1>3. ASSUME NEW j \in Nat, SyncFound(s, key, j) PROVE j = r
  <2>1. j <= r
    BY <1>1, <1>3 DEF SyncFound
  <2>2. ~(j < r)
    BY <1>1, <1>3 DEF SyncFound
  <2> QED BY <2>1, <2>2
<1> QED BY <1>1, <1>2, <1>3 DEF SyncMissing

\* It waits while there is nothing but pad.
LEMMA SyncWaits ==
  ASSUME Types, NEW s \in Sides, NEW r \in Nat, PadsLeft(s, r),
         NEW key \in Seq(Bytes), NEW n \in Nat \ {0}, Len(key) = n,
         key[1] # PadByte, In(s) = Pads(r)
  PROVE  /\ ~SyncMissing(s, key)
         /\ \A j \in Nat : ~SyncFound(s, key, j)
<1>1. \A j \in Nat : ~Matches(s, key, j)
  BY SyncNowhere DEF Matches
<1>2. r \in Offsets(s, key)
  <2>1. r + firstRead[s] < KeyLen + PadLimit /\ firstRead[s] \in Nat
    BY ConstantFacts DEF PadsLeft, Types
  <2> QED BY <2>1, ConstantFacts DEF Offsets, SyncMax
<1>3. ~(Len(In(s)) >= r + Len(key))
  BY PadFacts
<1> QED BY <1>1, <1>2, <1>3 DEF SyncMissing, SyncFound
-----------------------------------------------------------------------------
(* What the other end finds and what it leaves                             *)

\* n bytes are read and bs is written.
LEMMA ExchangeFacts ==
  ASSUME Types, NEW s \in Sides, NEW n \in Nat, NEW bs \in Seq(Bytes),
         Exchange(s, n, bs)
  PROVE  /\ wire' \in [Sides -> Seq(Bytes)]
         /\ wire'[Peer(s)] = Drop(In(s), n) /\ wire'[s] = wire[s] \o bs
         /\ Len(In(s)) >= n
         /\ n = 0 => wire'[Peer(s)] = In(s)
         /\ bs = <<>> => wire'[s] = wire[s]
<1>1. /\ wire \in [Sides -> Seq(Bytes)] /\ Peer(s) \in Sides /\ Peer(s) # s
  BY DEF Types, Peer, Sides
<1>2. /\ In(s) \in Seq(Bytes) /\ wire[s] \in Seq(Bytes)
      /\ In(s) = wire[Peer(s)]
  BY <1>1 DEF In
<1>3. wire' = [wire EXCEPT ![Peer(s)] = Drop(@, n), ![s] = @ \o bs]
  BY DEF Exchange, Drop
<1>4. wire'[Peer(s)] = Drop(In(s), n) /\ wire'[s] = wire[s] \o bs
  BY <1>1, <1>2, <1>3
<1>5. Drop(In(s), n) \in Seq(Bytes) /\ wire[s] \o bs \in Seq(Bytes)
  BY <1>2 DEF Drop
<1>6. wire' \in [Sides -> Seq(Bytes)]
  BY <1>1, <1>3, <1>4, <1>5
<1>7. n = 0 => wire'[Peer(s)] = In(s)
  BY <1>2, <1>4, DropFacts
<1>8. bs = <<>> => wire'[s] = wire[s]
  BY <1>2, <1>4, DropFacts
<1> QED BY <1>4, <1>6, <1>7, <1>8 DEF Exchange

\* Nothing is written.
LEMMA ReadFacts ==
  ASSUME Types, NEW s \in Sides, NEW n \in Nat, Exchange(s, n, <<>>)
  PROVE  /\ wire' \in [Sides -> Seq(Bytes)] /\ Len(In(s)) >= n
         /\ wire'[Peer(s)] = Drop(In(s), n) /\ wire'[s] = wire[s]
<1> DEFINE bs == <<>>
<1>1. bs \in Seq(Bytes) /\ Exchange(s, n, bs) /\ bs = <<>>
  OBVIOUS
<1> HIDE DEF bs
<1> QED BY <1>1, ExchangeFacts

\* The hashes of step 3 are two raw parts.
LEMMA HashFacts ==
  /\ Raw(Req1) \in Seq(Bytes) /\ Len(Raw(Req1)) = HashLen
  /\ Raw(Req1)[1] # PadByte
  /\ \E k \in Seq(Bytes) :
       /\ Len(k) = HashLen
       /\ Raw(Req1 \o Repeat(<<"skey", 0>>, HashLen)) = Raw(Req1) \o k
<1> DEFINE u == Req1
           v == Repeat(<<"skey", 0>>, HashLen)
<1>1. u \in Seq(Vals) /\ Len(u) = HashLen /\ u[1] = <<"req1", 1>>
  BY Req1Facts
<1>2. v \in Seq(Vals) /\ Len(v) = HashLen
  <2>1. <<"skey", 0>> \in Vals /\ HashLen \in Nat
    BY ValFacts, ConstantFacts
  <2> QED BY <2>1, RepeatFacts
<1> HIDE DEF u, v
<1>3. /\ Raw(u) = Enc(RawCipher, u) /\ Raw(u) \in Seq(Bytes)
      /\ Len(Raw(u)) = HashLen
  BY <1>1, RawIsEnc, EncType, CipherFacts
<1>4. Raw(u)[1] # PadByte
  <2>1. HashLen \in Nat \ {0}
    BY ConstantFacts
  <2>2. Raw(u)[1] = <<u[1], "raw", 0>>
    <3>1. 1 \in 1..Len(u)
      BY <1>1, <2>1
    <3> QED BY <3>1 DEF Raw
  <2> QED BY <1>1, <2>2 DEF PadByte
<1>5. /\ Raw(u \o v) = Raw(u) \o Raw(v) /\ Raw(v) \in Seq(Bytes)
      /\ Len(Raw(v)) = HashLen
  <2>1. Past(RawCipher, Len(u)) = RawCipher
    BY DEF Past, RawCipher
  <2>2. Enc(RawCipher, u \o v)
          = Enc(RawCipher, u) \o Enc(Past(RawCipher, Len(u)), v)
    <3>1. RawCipher \in Ciphers /\ u \in Seq(Vals) /\ v \in Seq(Vals)
      BY <1>1, <1>2, CipherFacts
    <3> QED BY ONLY <3>1, EncConcat
  <2>3. /\ Raw(v) = Enc(RawCipher, v) /\ Raw(v) \in Seq(Bytes)
        /\ Len(Raw(v)) = HashLen
    BY <1>2, RawIsEnc, EncType, CipherFacts
  <2>4. u \o v \in Seq(Vals)
    BY <1>1, <1>2
  <2>5. Raw(u \o v) = Enc(RawCipher, u \o v)
    BY <2>4, RawIsEnc
  <2> QED BY <1>3, <2>1, <2>2, <2>3, <2>5
<1> QED BY <1>3, <1>4, <1>5 DEF u, v

\* A header has its length and is what crypto_provide and payload are.
LEMMA HeaderType ==
  ASSUME Types, NEW q \in Nat
  PROVE  /\ Header(q) \in Seq(Vals) /\ Len(Header(q)) = HeaderLen(q)
         /\ HeaderLen(q) \in Nat
         /\ Offers(q) \in Seq(Bytes) /\ Len(Offers(q)) = HeaderLen(q)
         /\ Step3(Fresh("keyA"), q) \in Seq(Bytes)
<1> DEFINE u == Vc \o <<<<"provide", provide>>>>
           v == PayloadPart(q)
<1>1. /\ u \in Seq(Vals) /\ Len(u) = VcLen + 1
      /\ v \in Seq(Vals) /\ Len(v) = q + 2 + initial
      /\ Header(q) = u \o v
  BY HeaderFacts
<1> HIDE DEF u, v
<1>2. u \o v \in Seq(Vals) /\ Len(u \o v) = (VcLen + 1) + (q + 2 + initial)
  BY ONLY <1>1, ConcatFacts
<1>3. /\ (VcLen + 1) + (q + 2 + initial) = HeaderLen(q)
      /\ HeaderLen(q) \in Nat
  BY ConstantFacts DEF HeaderLen, Types
<1>4. Header(q) \in Seq(Vals) /\ Len(Header(q)) = HeaderLen(q)
  BY <1>1, <1>2, <1>3
<1>5. Fresh("keyA") \in Ciphers
  BY CipherFacts
<1>6. Offers(q) \in Seq(Bytes) /\ Len(Offers(q)) = HeaderLen(q)
  BY <1>4, <1>5, EncType DEF Offers
<1>7. Step3(Fresh("keyA"), q) \in Seq(Bytes)
  <2> DEFINE h == Raw(Req1 \o Repeat(<<"skey", 0>>, HashLen))
             o == Offers(q)
  <2>1. h \in Seq(Bytes)
    <3>1. PICK k \in Seq(Bytes) : h = Raw(Req1) \o k
      BY HashFacts
    <3>2. Raw(Req1) \in Seq(Bytes)
      BY HashFacts
    <3> HIDE DEF h
    <3> QED BY <3>1, <3>2
  <2>2. Step3(Fresh("keyA"), q) = h \o o /\ o \in Seq(Bytes)
    BY <1>6 DEF Step3, Offers
  <2> HIDE DEF h, o
  <2>3. h \in Seq(Bytes) /\ o \in Seq(Bytes)
    BY <2>1, <2>2
  <2>4. h \o o \in Seq(Bytes)
    BY ONLY <2>3
  <2> QED BY <2>2, <2>4, Zenon
<1> QED BY <1>3, <1>4, <1>6, <1>7

\* The incoming end finds req1 behind the pad, and the header behind the
\* hashes.
LEMMA AsksFacts ==
  ASSUME Types, NEW r \in Nat, NEW q \in Nat
  PROVE  /\ Asks(r, q) \in Seq(Bytes)
         /\ Behind(Asks(r, q), r, Raw(Req1))
         /\ Drop(Asks(r, q), r + 2 * HashLen) = Offers(q)
<1> DEFINE p == Pads(r)
           h == Raw(Req1)
           o == Offers(q)
<1>1. PICK k \in Seq(Bytes) :
        /\ Len(k) = HashLen
        /\ Raw(Req1 \o Repeat(<<"skey", 0>>, HashLen)) = h \o k
  BY HashFacts
<1>2. /\ p \in Seq(Bytes) /\ Len(p) = r
      /\ h \in Seq(Bytes) /\ Len(h) = HashLen
      /\ o \in Seq(Bytes)
  BY PadFacts, HashFacts, HeaderType
<1>3. Asks(r, q) = p \o ((h \o k) \o o)
  BY <1>1 DEF Asks, Step3, Offers
<1> HIDE DEF p, h, o
<1> DEFINE hk == h \o k
           ko == k \o o
<1>4. hk \in Seq(Bytes) /\ Len(hk) = HashLen + HashLen
  <2>1. /\ h \in Seq(Bytes) /\ k \in Seq(Bytes)
        /\ Len(h) = HashLen /\ Len(k) = HashLen
    BY <1>1, <1>2
  <2> QED BY ONLY <2>1, ConcatFacts
<1>5. ko \in Seq(Bytes) /\ hk \o o = h \o ko
  <2>1. h \in Seq(Bytes) /\ k \in Seq(Bytes) /\ o \in Seq(Bytes)
    BY <1>2
  <2> QED BY ONLY <2>1
<1>6. Asks(r, q) = p \o (hk \o o)
  BY <1>3
<1> HIDE DEF hk, ko
<1>7. Drop(p \o (hk \o o), Len(p) + Len(hk)) = o
      /\ p \o (hk \o o) \in Seq(Bytes)
  <2>1. p \in Seq(Bytes) /\ hk \in Seq(Bytes) /\ o \in Seq(Bytes)
    BY <1>2, <1>4
  <2> QED BY ONLY <2>1, DropTwo
<1>8. r + 2 * HashLen = Len(p) + Len(hk)
  BY <1>2, <1>4, ConstantFacts
<1>9. Behind(Asks(r, q), r, h)
  BY <1>5, <1>6 DEF Behind, p
<1> QED BY <1>6, <1>7, <1>8, <1>9 DEF h, o

\* It decrypts VC and crypto_provide, and the payload is left.
LEMMA OffersFacts ==
  ASSUME Types, NEW q \in Nat
  PROVE  LET head == Dec(Fresh("keyA"), SubSeq(Offers(q), 1, VcLen + 1))
         IN  /\ SubSeq(head, 1, VcLen) = Vc
             /\ head[VcLen + 1] = <<"provide", provide>>
             /\ Drop(Offers(q), VcLen + 1) = Pays(q)
             /\ Pays(q) \in Seq(Bytes) /\ Len(Pays(q)) = q + 2 + initial
             /\ Dec(At("keyA", VcLen + 1), Pays(q)) = PayloadPart(q)
<1> DEFINE u == Vc \o <<<<"provide", provide>>>>
           v == PayloadPart(q)
           c == Fresh("keyA")
           d == At("keyA", VcLen + 1)
           n == VcLen + 1
<1>1. /\ u \in Seq(Vals) /\ Len(u) = n
      /\ v \in Seq(Vals) /\ Len(v) = q + 2 + initial
      /\ Header(q) = u \o v
      /\ SubSeq(u, 1, VcLen) = Vc /\ u[n] = <<"provide", provide>>
  BY HeaderFacts
<1>2. c \in Ciphers /\ d \in Ciphers /\ n \in Nat /\ Past(c, n) = d
  <2>1. n \in Nat /\ 0 + n = n
    BY ConstantFacts
  <2>2. Past(At("keyA", 0), n) = At("keyA", 0 + n)
    BY <2>1, PastAt
  <2> QED BY <2>1, <2>2, CipherFacts
<1> HIDE DEF u, v, c, d, n
<1>3. Enc(c, u \o v) = Enc(c, u) \o Enc(d, v)
  <2>1. Enc(c, u \o v) = Enc(c, u) \o Enc(Past(c, Len(u)), v)
    <3>1. c \in Ciphers /\ u \in Seq(Vals) /\ v \in Seq(Vals)
      BY <1>1, <1>2
    <3> QED BY ONLY <3>1, EncConcat
  <2> QED BY <1>1, <1>2, <2>1
<1>4. /\ Enc(c, u) \in Seq(Bytes) /\ Len(Enc(c, u)) = n
      /\ Enc(d, v) \in Seq(Bytes) /\ Len(Enc(d, v)) = q + 2 + initial
  BY <1>1, <1>2, EncType
<1>5. /\ Offers(q) = Enc(c, u) \o Enc(d, v) /\ Offers(q) = Enc(c, u \o v)
      /\ Pays(q) = Enc(d, v)
  BY <1>1, <1>3 DEF Offers, Pays, c, d, v
<1>6. Drop(Offers(q), n) = Pays(q)
  <2> DEFINE a == Enc(c, u)
             b == Enc(d, v)
  <2>1. a \in Seq(Bytes) /\ b \in Seq(Bytes) /\ Len(a) = n
    BY <1>4
  <2>2. Offers(q) = a \o b /\ Pays(q) = b
    BY <1>5
  <2> HIDE DEF a, b
  <2>3. Drop(a \o b, Len(a)) = b
    BY ONLY <2>1, DropTwo
  <2> QED BY <2>1, <2>2, <2>3
<1>7. Dec(c, SubSeq(Offers(q), 1, n)) = u
  <2> DEFINE w == u \o v
  <2>1. w \in Seq(Vals) /\ n \in 0..Len(w) /\ SubSeq(w, 1, n) = u
    <3>1. /\ u \in Seq(Vals) /\ v \in Seq(Vals) /\ Len(u) = n
          /\ Len(u) \in Nat
      BY <1>1, <1>2
    <3>2. w \in Seq(Vals) /\ Len(u) \in 0..Len(w)
      BY ONLY <3>1
    <3>3. SubSeq(u \o v, 1, Len(u)) = SubSeq(u, 1, Len(u))
      <4>1. Len(u) \in 0..Len(u)
        BY <3>1
      <4> QED BY ONLY <3>1, <4>1, TakeFirst
    <3>4. SubSeq(u, 1, Len(u)) = u
      BY <3>1, DropAll
    <3> QED BY <3>1, <3>2, <3>3, <3>4
  <2> HIDE DEF w
  <2>2. Dec(c, SubSeq(Enc(c, w), 1, n)) = SubSeq(w, 1, n)
    <3>1. c \in Ciphers /\ w \in Seq(Vals) /\ n \in 0..Len(w)
      BY <1>2, <2>1
    <3> QED BY ONLY <3>1, DecTake
  <2> QED BY <1>5, <2>1, <2>2 DEF w
<1>8. Dec(d, Pays(q)) = v
  BY <1>1, <1>2, <1>5, DecEnc
<1> QED BY <1>1, <1>4, <1>5, <1>6, <1>7, <1>8 DEF c, d, n, v

\* The ciphers of the selection go on where step 4 ended.
LEMMA InSentFacts ==
  ASSUME NEW m, NEW d \in Nat, NEW k \in Nat
  PROVE  /\ InCipher(m, d) \in Ciphers
         /\ Past(InCipher(m, d), k) \in Ciphers
         /\ Past(InCipher(m, d), 0) = InCipher(m, d)
         /\ InSent(m, d, k) \in Seq(Bytes)
         /\ InSent(m, d, 0) = <<>>
<1>1. InCipher(m, d) \in Ciphers
  <2>1. VcLen + 2 + d \in Nat
    BY ConstantFacts
  <2>2. At("keyB", VcLen + 2 + d) \in Ciphers
    BY <2>1, CipherFacts
  <2> QED BY <2>2, CipherFacts DEF InCipher
<1>2. \A i \in Nat : Data("in", 0, i) \in Seq(Vals) /\ Len(Data("in", 0, i)) = i
  <2>1. ASSUME NEW i \in Nat
        PROVE  Data("in", 0, i) \in Seq(Vals) /\ Len(Data("in", 0, i)) = i
    <3>1. "in" \in Sides /\ 0 \in Nat /\ 0 <= i /\ i - 0 = i
      BY DEF Sides
    <3> QED BY <3>1, DataFacts
  <2> QED BY <2>1
<1>3. \A i \in Nat : InSent(m, d, i) \in Seq(Bytes) /\ Len(InSent(m, d, i)) = i
  BY <1>1, <1>2, EncType DEF InSent
<1>4. InSent(m, d, 0) = <<>>
  BY <1>3
<1> QED BY <1>1, <1>3, <1>4, CipherFacts, PastPast

\* The outgoing end finds VC behind the pad and the rest of step 4 behind VC.
LEMMA AnswersFacts ==
  ASSUME NEW m \in SUBSET Methods, NEW t \in Nat, NEW d \in Nat, NEW k \in Nat
  PROVE  LET vc == Enc(Fresh("keyB"), Vc)
         IN  /\ vc \in Seq(Bytes) /\ Len(vc) = VcLen /\ vc[1] # PadByte
             /\ Behind(Answers(t, m, d, k), t, vc)
             /\ Drop(Answers(t, m, d, k), t + VcLen) = Selects(m, d, k)
             /\ Enc(Fresh("keyB"), Step4(m, d)) \in Seq(Bytes)
             /\ Pads(t) \o Enc(Fresh("keyB"), Step4(m, d)) = Answers(t, m, d, 0)
<1> DEFINE p == Pads(t)
           a == Enc(Fresh("keyB"), Vc)
           b == Enc(At("keyB", VcLen), SelectPart(m, d))
           e == Enc(Fresh("keyB"), Step4(m, d))
           f == InSent(m, d, k)
<1>1. /\ Fresh("keyB") \in Ciphers /\ At("keyB", VcLen) \in Ciphers
      /\ Fresh("keyB").key = "keyB"
  BY CipherFacts, ConstantFacts
<1>2. a \in Seq(Bytes) /\ Len(a) = VcLen /\ a[1] # PadByte
  <2>1. a \in Seq(Bytes) /\ Len(a) = VcLen
    BY <1>1, VcFacts, EncType
  <2>2. 1 \in 1..Len(Vc)
    BY VcFacts, ConstantFacts
  <2>3. a[1] = <<Vc[1], Fresh("keyB").key, Slot(Fresh("keyB"), 1)>>
    BY <1>1, <2>2, VcFacts, EncFacts
  <2> QED BY <1>1, <2>1, <2>3 DEF PadByte
<1>3. p \in Seq(Bytes) /\ Len(p) = t
  BY PadFacts
<1>4. b \in Seq(Bytes)
  BY <1>1, SelectFacts, EncType
<1>5. f \in Seq(Bytes)
  BY InSentFacts
<1>6. e = a \o b
  BY EncStep4
<1>7. Answers(t, m, d, k) = (p \o e) \o f /\ Selects(m, d, k) = b \o f
  BY DEF Answers, Selects
<1>8. e \in Seq(Bytes)
  BY <1>1, SelectFacts, EncType
<1>9. Pads(t) \o Enc(Fresh("keyB"), Step4(m, d)) = Answers(t, m, d, 0)
  <2>1. Answers(t, m, d, 0) = (p \o e) \o <<>>
    BY InSentFacts DEF Answers
  <2> HIDE DEF p, e
  <2>2. p \in Seq(Bytes) /\ e \in Seq(Bytes)
    BY <1>3, <1>8
  <2>3. (p \o e) \o <<>> = p \o e
    BY ONLY <2>2
  <2> QED BY <2>1, <2>3 DEF p, e
<1> HIDE DEF p, a, b, e, f
<1> DEFINE g == b \o f
<1>10. g \in Seq(Bytes)
  <2>1. b \in Seq(Bytes) /\ f \in Seq(Bytes)
    BY <1>4, <1>5
  <2> QED BY ONLY <2>1
<1>11. (p \o (a \o b)) \o f = p \o (a \o g)
  <2>1. /\ p \in Seq(Bytes) /\ a \in Seq(Bytes)
        /\ b \in Seq(Bytes) /\ f \in Seq(Bytes)
    BY <1>2, <1>3, <1>4, <1>5
  <2> QED BY ONLY <2>1, SMTT(30)
<1>12. Selects(m, d, k) = g /\ Answers(t, m, d, k) = p \o (a \o g)
  BY <1>6, <1>7, <1>11
<1> HIDE DEF g
<1>13. Behind(Answers(t, m, d, k), t, a)
  BY <1>10, <1>12 DEF Behind, p
<1>14. Drop(p \o (a \o g), Len(p) + Len(a)) = g
  <2>1. p \in Seq(Bytes) /\ a \in Seq(Bytes) /\ g \in Seq(Bytes)
    BY <1>2, <1>3, <1>10
  <2> QED BY ONLY <2>1, DropTwo
<1> QED BY <1>2, <1>3, <1>8, <1>9, <1>12, <1>13, <1>14 DEF a, e

\* It decrypts the selection and the length of the pad, and the data is left.
LEMMA SelectsFacts ==
  ASSUME NEW m \in SUBSET Methods, NEW d \in Nat, NEW k \in Nat
  PROVE  LET head == Dec(At("keyB", VcLen), SubSeq(Selects(m, d, k), 1, 2))
         IN  /\ head[1] = <<"select", m>> /\ head[2] = <<"len", d>>
             /\ Drop(Selects(m, d, k), 2 + d) = InSent(m, d, k)
<1> DEFINE c == At("keyB", VcLen)
           v == SelectPart(m, d)
           a == Enc(c, v)
           f == InSent(m, d, k)
           two == 2
<1>1. c \in Ciphers
  BY CipherFacts, ConstantFacts
<1>2. /\ v \in Seq(Vals) /\ Len(v) = 2 + d
      /\ v[1] = <<"select", m>> /\ v[2] = <<"len", d>>
  BY SelectFacts
<1>3. a \in Seq(Bytes) /\ Len(a) = 2 + d
  BY <1>1, <1>2, EncType
<1>4. f \in Seq(Bytes)
  BY InSentFacts
<1>5. Selects(m, d, k) = a \o f
  BY DEF Selects
<1>6. two \in 0..Len(v) /\ two \in 0..Len(a)
  BY <1>2, <1>3
<1>7. SubSeq(v, 1, 2)[1] = v[1] /\ SubSeq(v, 1, 2)[2] = v[2]
  <2> HIDE DEF v
  <2> QED BY <1>2
<1> HIDE DEF c, v, f, two
<1>8. Dec(c, SubSeq(a, 1, two)) = SubSeq(v, 1, two)
  <2>1. c \in Ciphers /\ v \in Seq(Vals) /\ two \in 0..Len(v)
    BY <1>1, <1>2, <1>6
  <2> QED BY ONLY <2>1, DecTake DEF a
<1> HIDE DEF a
<1>9. SubSeq(a \o f, 1, two) = SubSeq(a, 1, two)
  <2>1. a \in Seq(Bytes) /\ f \in Seq(Bytes) /\ two \in 0..Len(a)
    BY <1>3, <1>4, <1>6
  <2> QED BY ONLY <2>1, TakeFirst
<1>10. Drop(a \o f, Len(a)) = f
  <2>1. a \in Seq(Bytes) /\ f \in Seq(Bytes)
    BY <1>3, <1>4
  <2> QED BY ONLY <2>1, DropTwo
<1> QED BY <1>2, <1>3, <1>5, <1>7, <1>8, <1>9, <1>10 DEF c, f, two

\* One more byte of data is written behind the others.
LEMMA DataSend ==
  ASSUME NEW s \in Sides, NEW c \in Ciphers, NEW a \in Nat, NEW b \in Nat,
         a <= b
  PROVE  /\ Enc(c, Data(s, a, b)) \in Seq(Bytes)
         /\ Len(Enc(c, Data(s, a, b))) = b - a
         /\ Enc(Past(c, b - a), Data(s, b, b + 1)) \in Seq(Bytes)
         /\ Enc(c, Data(s, a, b)) \o Enc(Past(c, b - a), Data(s, b, b + 1))
              = Enc(c, Data(s, a, b + 1))
<1> DEFINE u == Data(s, a, b)
           v == Data(s, b, b + 1)
           n == b - a
<1>1. /\ n \in Nat /\ b + 1 \in Nat /\ b <= b + 1 /\ a <= b + 1
  OBVIOUS
<1>2. u \in Seq(Vals) /\ Len(u) = n /\ v \in Seq(Vals)
  BY <1>1, DataFacts
<1>3. u \o v = Data(s, a, b + 1)
  BY <1>1, DataConcat
<1>4. Past(c, n) \in Ciphers
  BY <1>1, CipherFacts
<1> HIDE DEF u, v, n
<1>5. Enc(c, u \o v) = Enc(c, u) \o Enc(Past(c, Len(u)), v)
  <2>1. c \in Ciphers /\ u \in Seq(Vals) /\ v \in Seq(Vals)
    BY <1>2
  <2> QED BY ONLY <2>1, EncConcat
<1>6. /\ Enc(c, u) \in Seq(Bytes) /\ Len(Enc(c, u)) = n
      /\ Enc(Past(c, n), v) \in Seq(Bytes)
  BY <1>2, <1>4, EncType
<1> QED BY <1>2, <1>3, <1>5, <1>6 DEF u, v, n

\* The first byte of data is read, and the others are left.
LEMMA DataReceive ==
  ASSUME NEW s \in Sides, NEW c \in Ciphers, NEW a \in Nat, NEW b \in Nat, a < b
  PROVE  /\ Dec(c, Enc(c, Data(s, a, b)))[1] = <<s, a + 1>>
         /\ Drop(Enc(c, Data(s, a, b)), 1)
              = Enc(Past(c, 1), Data(s, a + 1, b))
<1> DEFINE u == Data(s, a, a + 1)
           v == Data(s, a + 1, b)
           w == Data(s, a, b)
           one == 1
<1>1. /\ a + 1 \in Nat /\ a <= a + 1 /\ a + 1 <= b /\ a <= b
      /\ (a + 1) - a = one /\ 1 \in 1..(b - a)
  OBVIOUS
<1>2. u \in Seq(Vals) /\ Len(u) = one /\ v \in Seq(Vals)
  BY <1>1, DataFacts
<1>3. u \o v = w
  BY <1>1, DataConcat
<1>4. w \in Seq(Vals) /\ w[1] = <<s, a + 1>>
  BY <1>1, DataFacts
<1>5. Past(c, one) \in Ciphers
  BY CipherFacts
<1> HIDE DEF u, v, w, one
<1>6. Dec(c, Enc(c, w)) = w
  BY <1>4, DecEnc
<1>7. Enc(c, u \o v) = Enc(c, u) \o Enc(Past(c, Len(u)), v)
  <2>1. c \in Ciphers /\ u \in Seq(Vals) /\ v \in Seq(Vals)
    BY <1>2
  <2> QED BY ONLY <2>1, EncConcat
<1>8. /\ Enc(c, u) \in Seq(Bytes) /\ Len(Enc(c, u)) = one
      /\ Enc(Past(c, one), v) \in Seq(Bytes)
  BY <1>2, <1>5, EncType
<1>9. Drop(Enc(c, w), one) = Enc(Past(c, one), v)
  <2> DEFINE e == Enc(c, u)
             f == Enc(Past(c, one), v)
  <2>1. e \in Seq(Bytes) /\ f \in Seq(Bytes) /\ Len(e) = one
    BY <1>8
  <2>2. Enc(c, w) = e \o f
    BY <1>2, <1>3, <1>7
  <2> HIDE DEF e, f
  <2>3. Drop(e \o f, Len(e)) = f
    BY ONLY <2>1, DropTwo
  <2> QED BY <2>1, <2>2, <2>3 DEF f
<1> QED BY <1>4, <1>6, <1>9 DEF v, w, one

\* A read byte of data is the next one.
LEMMA DataAppend ==
  ASSUME NEW s \in Sides, NEW a \in Nat
  PROVE  /\ Append(Data(s, 0, a), <<s, a + 1>>) = Data(s, 0, a + 1)
         /\ Data(s, a, a) = <<>>
         /\ \A c \in Ciphers : Enc(c, Data(s, a, a)) = <<>>
<1> DEFINE u == Data(s, 0, a)
           w == Data(s, 0, a + 1)
           x == <<s, a + 1>>
<1>1. /\ u \in Seq(Vals) /\ Len(u) = a
      /\ \A i \in 1..a : u[i] = <<s, 0 + i>>
  <2>1. 0 \in Nat /\ 0 <= a /\ a - 0 = a
    OBVIOUS
  <2> QED BY <2>1, DataFacts
<1>2. /\ w \in Seq(Vals) /\ Len(w) = a + 1
      /\ \A i \in 1..(a + 1) : w[i] = <<s, 0 + i>>
  <2> DEFINE b == a + 1
  <2>1. 0 \in Nat /\ b \in Nat /\ 0 <= b /\ b - 0 = b
    OBVIOUS
  <2> HIDE DEF b
  <2>2. /\ Data(s, 0, b) \in Seq(Vals) /\ Len(Data(s, 0, b)) = b
        /\ \A i \in 1..b : Data(s, 0, b)[i] = <<s, 0 + i>>
    BY <2>1, DataFacts
  <2> QED BY <2>2 DEF b
<1>3. x \in Vals
  <2>1. a + 1 \in 1..(a + 1) /\ 0 + (a + 1) = a + 1
    OBVIOUS
  <2>2. w[a + 1] \in Vals /\ w[a + 1] = x
    BY <1>2, <2>1
  <2> QED BY <2>2
<1>4. Data(s, a, a) = <<>> /\ \A c \in Ciphers : Enc(c, Data(s, a, a)) = <<>>
  <2>1. Data(s, a, a) \in Seq(Vals) /\ Len(Data(s, a, a)) = 0
    BY DataFacts
  <2>2. \A c \in Ciphers :
          Enc(c, Data(s, a, a)) \in Seq(Bytes) /\ Len(Enc(c, Data(s, a, a))) = 0
    BY <2>1, EncType
  <2> QED BY <2>1, <2>2
<1>5. x = <<s, 0 + (a + 1)>>
  OBVIOUS
<1> HIDE DEF u, w, x
<1> DEFINE z == Append(u, x)
<1>6. /\ z \in Seq(Vals) /\ Len(z) = a + 1 /\ z[a + 1] = x
      /\ \A i \in 1..a : z[i] = u[i]
  BY <1>1, <1>3
<1>7. ASSUME NEW i \in 1..(a + 1) PROVE z[i] = w[i]
  <2> HIDE DEF z
  <2>1. CASE i = a + 1
    BY <1>2, <1>5, <1>6, <2>1
  <2>2. CASE i # a + 1
    <3>1. i \in 1..a
      BY <2>2
    <3> QED BY <1>1, <1>2, <1>6, <3>1
  <2> QED BY <2>1, <2>2
<1>8. z = w
  <2> HIDE DEF z
  <2> QED BY <1>2, <1>6, <1>7, SeqEqual
<1> QED BY <1>4, <1>8 DEF u, w, x

\* Data is written behind what the outgoing end has still to read.
LEMMA InSentSend ==
  ASSUME NEW m \in SUBSET Methods, NEW t \in Nat, NEW d \in Nat, NEW k \in Nat
  PROVE  LET bs == Enc(Past(InCipher(m, d), k), Data("in", k, k + 1))
         IN  /\ bs \in Seq(Bytes)
             /\ Answers(t, m, d, k) \o bs = Answers(t, m, d, k + 1)
             /\ Selects(m, d, k) \o bs = Selects(m, d, k + 1)
<1> DEFINE bs == Enc(Past(InCipher(m, d), k), Data("in", k, k + 1))
           f == InSent(m, d, k)
           p == Pads(t)
           e == Enc(Fresh("keyB"), Step4(m, d))
           a == Enc(At("keyB", VcLen), SelectPart(m, d))
<1>1. /\ bs \in Seq(Bytes) /\ f \in Seq(Bytes)
      /\ f \o bs = InSent(m, d, k + 1)
  <2>1. InCipher(m, d) \in Ciphers /\ "in" \in Sides /\ 0 <= k /\ k - 0 = k
    BY InSentFacts DEF Sides
  <2>2. LET c == InCipher(m, d)
        IN  /\ Enc(c, Data("in", 0, k)) \in Seq(Bytes)
            /\ Enc(Past(c, k - 0), Data("in", k, k + 1)) \in Seq(Bytes)
            /\ Enc(c, Data("in", 0, k))
                 \o Enc(Past(c, k - 0), Data("in", k, k + 1))
                 = Enc(c, Data("in", 0, k + 1))
    BY <2>1, DataSend
  <2> QED BY <2>1, <2>2 DEF InSent
<1>2. /\ p \in Seq(Bytes) /\ e \in Seq(Bytes) /\ a \in Seq(Bytes)
  <2>1. Fresh("keyB") \in Ciphers /\ At("keyB", VcLen) \in Ciphers
    BY CipherFacts, ConstantFacts
  <2> QED BY <2>1, PadFacts, SelectFacts, EncType
<1>3. /\ Answers(t, m, d, k) = (p \o e) \o f /\ Selects(m, d, k) = a \o f
      /\ Answers(t, m, d, k + 1) = (p \o e) \o InSent(m, d, k + 1)
      /\ Selects(m, d, k + 1) = a \o InSent(m, d, k + 1)
  BY DEF Answers, Selects
<1> HIDE DEF bs, f, p, e, a
<1> DEFINE pe == p \o e
<1>4. pe \in Seq(Bytes)
  BY <1>2
<1> HIDE DEF pe
<1>5. (pe \o f) \o bs = pe \o (f \o bs) /\ (a \o f) \o bs = a \o (f \o bs)
  <2>1. /\ pe \in Seq(Bytes) /\ f \in Seq(Bytes)
        /\ bs \in Seq(Bytes) /\ a \in Seq(Bytes)
    BY <1>1, <1>2, <1>4
  <2>2. (pe \o f) \o bs = pe \o (f \o bs)
    BY ONLY <2>1, ConcatAssociative, SMTT(30)
  <2>3. (a \o f) \o bs = a \o (f \o bs)
    BY ONLY <2>1, ConcatAssociative, SMTT(30)
  <2> QED BY <2>2, <2>3
<1> QED BY <1>1, <1>3, <1>5 DEF pe, bs

\* What the application takes from the buffer is still taken.
LEMMA TakenFacts ==
  ASSUME NEW g \in Seq(Vals), NEW r \in Seq(Vals), r # <<>>
  PROVE  /\ Append(g, Head(r)) \in Seq(Vals) /\ Tail(r) \in Seq(Vals)
         /\ Append(g, Head(r)) \o Tail(r) = g \o r
<1> DEFINE h == Append(g, Head(r))
           t == Tail(r)
<1>1. Len(r) \in Nat \ {0} /\ Len(g) \in Nat
  OBVIOUS
<1>2. /\ h \in Seq(Vals) /\ Len(h) = Len(g) + 1 /\ h[Len(g) + 1] = r[1]
      /\ \A i \in 1..Len(g) : h[i] = g[i]
      /\ t \in Seq(Vals) /\ Len(t) = Len(r) - 1
      /\ \A i \in 1..(Len(r) - 1) : t[i] = r[i + 1]
  BY <1>1
<1> HIDE DEF h, t
<1> DEFINE a == h \o t
           b == g \o r
<1>3. /\ a \in Seq(Vals) /\ Len(a) = Len(g) + Len(r)
      /\ \A i \in 1..Len(h) : a[i] = h[i]
      /\ \A i \in 1..Len(t) : a[Len(h) + i] = t[i]
  <2>1. h \in Seq(Vals) /\ t \in Seq(Vals)
    BY <1>2
  <2>2. /\ a \in Seq(Vals) /\ Len(a) = Len(h) + Len(t)
        /\ \A i \in 1..Len(h) : a[i] = h[i]
        /\ \A i \in 1..Len(t) : a[Len(h) + i] = t[i]
    BY ONLY <2>1
  <2> HIDE DEF a
  <2> QED BY <1>1, <1>2, <2>2
<1>4. /\ b \in Seq(Vals) /\ Len(b) = Len(g) + Len(r)
      /\ \A i \in 1..Len(g) : b[i] = g[i]
      /\ \A i \in 1..Len(r) : b[Len(g) + i] = r[i]
  <2>1. g \in Seq(Vals) /\ r \in Seq(Vals)
    OBVIOUS
  <2> QED BY ONLY <2>1
<1> HIDE DEF a, b
<1>5. ASSUME NEW i \in 1..(Len(g) + Len(r)) PROVE a[i] = b[i]
  <2>1. CASE i \in 1..Len(g)
    <3>1. i \in 1..Len(h)
      BY <1>1, <1>2, <2>1
    <3> QED BY <1>2, <1>3, <1>4, <2>1, <3>1
  <2>2. CASE i = Len(g) + 1
    <3>1. i \in 1..Len(h) /\ 1 \in 1..Len(r)
      BY <1>1, <1>2, <2>2
    <3> QED BY <1>2, <1>3, <1>4, <2>2, <3>1
  <2>3. CASE i > Len(g) + 1
    <3> DEFINE j == i - Len(g) - 1
    <3>1. /\ j \in 1..Len(t) /\ j \in 1..(Len(r) - 1) /\ j + 1 \in 1..Len(r)
          /\ i = Len(h) + j /\ i = Len(g) + (j + 1)
      BY <1>1, <1>2, <2>3
    <3> HIDE DEF j
    <3>2. a[i] = t[j]
      BY <1>3, <3>1
    <3>3. b[i] = r[j + 1]
      BY <1>4, <3>1
    <3> QED BY <1>2, <3>1, <3>2, <3>3
  <2> QED BY <1>1, <2>1, <2>2, <2>3
<1>6. a = b
  BY <1>3, <1>4, <1>5, SeqEqual
<1> QED BY <1>2, <1>6 DEF h, t, a, b
-----------------------------------------------------------------------------
(* Every step goes on to the next stage or stays in its own                *)

\* The handshakes begin at the first stage.
LEMMA InitInv == Init => IInv
<1> SUFFICES ASSUME Init PROVE IInv
  OBVIOUS
<1>1. Types
  <2>1. initial \in Nat
    BY MseAssumption DEF Init
  <2>2. RawCipher \in Ciphers /\ KeyLen + PadLimit \in Nat
    BY CipherFacts, ConstantFacts
  <2>3. known \in BOOLEAN /\ broken \in BOOLEAN
    BY Zenon DEF Init
  <2>4. /\ rd \in [Sides -> Ciphers] /\ wr \in [Sides -> Ciphers]
        /\ firstRead \in [Sides -> 0..(KeyLen + PadLimit)]
    BY <2>2 DEF Init
  <2>5. /\ wire \in [Sides -> Seq(Bytes)] /\ got \in [Sides -> Seq(Vals)]
        /\ r2 \in Seq(Vals) /\ sent \in [Sides -> Nat]
    BY DEF Init
  <2>6. /\ selected \in [Sides -> SUBSET Methods] /\ provide \in SUBSET Methods
        /\ err \in [Sides -> {"none", "arguments", "skey", "selection", "io"}]
        /\ pc \in [Sides -> {"new", "key", "sync", "header", "payload",
                             "select", "done", "failed"}]
    BY DEF Init
  <2> QED BY <2>1, <2>3, <2>4, <2>5, <2>6 DEF Types
<1>2. Errors
  BY DEF Init, Errors, Sides
<1>3. Stage0
  BY DEF Init, Stage0, PcIn, NoDataYet, NoData, NoneSelected, Sides
<1> QED BY <1>1, <1>2, <1>3 DEF IInv

\* The arguments of the handshakes, and what depends on them, stay.
LEMMA ConfSame ==
  ASSUME UNCHANGED conf
  PROVE  /\ initial' = initial /\ provide' = provide /\ known' = known
         /\ \A q : /\ HeaderLen(q)' = HeaderLen(q)
                   /\ Offers(q)' = Offers(q) /\ Pays(q)' = Pays(q)
         /\ \A r, q : Asks(r, q)' = Asks(r, q)
<1>1. initial' = initial /\ provide' = provide /\ known' = known
  BY DEF conf
<1>2. \A q : Header(q)' = Header(q) /\ PayloadPart(q)' = PayloadPart(q)
  BY <1>1 DEF Header, PayloadPart
<1>3. \A q : /\ HeaderLen(q)' = HeaderLen(q)
             /\ Offers(q)' = Offers(q) /\ Pays(q)' = Pays(q)
  BY <1>1, <1>2 DEF HeaderLen, Offers, Pays
<1>4. \A r, q : Asks(r, q)' = Asks(r, q)
  BY <1>2 DEF Asks, Step3
<1> QED BY <1>1, <1>3, <1>4

\* A handshake that gives up leaves everything else, and so does a break.
LEMMA FailKeeps ==
  ASSUME IInv, NEW s \in Sides, pc[s] # "done", NEW why,
         why \in IF s = "out" THEN {"arguments", "io"}
                 ELSE {"skey", "selection", "io"},
         Fail(s, pc[s], why)
  PROVE  IInv'
<1>1. /\ pc' = [pc EXCEPT ![s] = "failed"] /\ err' = [err EXCEPT ![s] = why]
      /\ UNCHANGED <<wire, firstRead, rd, wr, conf, selected, broken>>
      /\ sent' = sent /\ got' = got /\ r2' = r2
  BY DEF Fail, Goto, data
<1>2. /\ initial' = initial /\ provide' = provide /\ known' = known
      /\ \A q : /\ HeaderLen(q)' = HeaderLen(q)
                /\ Offers(q)' = Offers(q) /\ Pays(q)' = Pays(q)
      /\ \A r, q : Asks(r, q)' = Asks(r, q)
  BY <1>1, ConfSame
<1>3. Types'
  BY <1>1, <1>2 DEF IInv, Types
<1>4. Errors'
  BY <1>1 DEF IInv, Types, Errors, Sides
<1>5. \A a, b : PcIn(a, b) => PcIn(a, b)'
  BY <1>1 DEF IInv, Types, PcIn, Sides
<1>6. /\ \A x \in Sides : \A r : PadsLeft(x, r)' = PadsLeft(x, r)
      /\ OutWaits' = OutWaits /\ NoDataYet' = NoDataYet /\ NoData' = NoData
      /\ NoneSelected' = NoneSelected /\ Taken' = Taken
  <2>1. \A x \in Sides : \A r : PadsLeft(x, r)' = PadsLeft(x, r)
    BY <1>1 DEF PadsLeft
  <2>2. OutWaits' = OutWaits
    BY <1>1, <2>1 DEF OutWaits, Sides
  <2>3. /\ NoDataYet' = NoDataYet /\ NoData' = NoData
        /\ NoneSelected' = NoneSelected /\ Taken' = Taken
    BY <1>1 DEF NoDataYet, NoData, NoneSelected, Taken
  <2> QED BY <2>1, <2>2, <2>3
<1>7. ASSUME Stage0 PROVE Stage0'
  BY <1>1, <1>5, <1>6, <1>7 DEF Stage0
<1>8. ASSUME Stage1 PROVE Stage1'
  BY <1>1, <1>5, <1>6, <1>8 DEF Stage1
<1>9. ASSUME Stage2 PROVE Stage2'
  BY <1>1, <1>5, <1>6, <1>9 DEF Stage2, Sides
<1>10. ASSUME Stage3 PROVE Stage3'
  BY <1>1, <1>2, <1>5, <1>6, <1>10 DEF Stage3, Sides
<1>11. ASSUME Stage4 PROVE Stage4'
  BY <1>1, <1>2, <1>5, <1>6, <1>11 DEF Stage4, Sides
<1>12. ASSUME Stage5 PROVE Stage5'
  BY <1>1, <1>2, <1>5, <1>6, <1>12 DEF Stage5, Sides, Acceptable
<1>13. InDone => InDone' /\ s = "out" /\ pc'["out"] = "failed"
  <2> SUFFICES ASSUME InDone PROVE InDone' /\ s = "out" /\ pc'["out"] = "failed"
    OBVIOUS
  <2>1. s = "out" /\ pc'["in"] = "done" /\ pc'["out"] = "failed"
    BY <1>1 DEF InDone, Sides, IInv, Types
  <2>2. InDone'
    BY <1>1, <1>2, <1>6, <2>1 DEF InDone, Sides, Acceptable
  <2> QED BY <2>1, <2>2
<1>14. ASSUME Stage6 PROVE Stage6'
  BY <1>1, <1>2, <1>6, <1>13, <1>14 DEF Stage6, Sides
<1>15. ASSUME Stage7 PROVE Stage7'
  BY <1>1, <1>2, <1>6, <1>13, <1>15 DEF Stage7, Sides
<1>16. ~Stage8
  BY DEF Stage8, Sides
<1>17. \/ Stage0' \/ Stage1' \/ Stage2' \/ Stage3' \/ Stage4' \/ Stage5'
       \/ Stage6' \/ Stage7'
  BY <1>7, <1>8, <1>9, <1>10, <1>11, <1>12, <1>14, <1>15, <1>16 DEF IInv
<1> QED BY <1>3, <1>4, <1>17 DEF IInv

\* One end's entry changes.
LEMMA UpdateType ==
  ASSUME NEW S, NEW f \in [Sides -> S], NEW s \in Sides, NEW x \in S
  PROVE  [f EXCEPT ![s] = x] \in [Sides -> S]
OBVIOUS

\* A fresh cipher after i bytes.
LEMMA FreshPast ==
  ASSUME NEW k \in {"keyA", "keyB"}, NEW i \in Nat
  PROVE  Past(Fresh(k), i) = At(k, i) /\ At(k, i) \in Ciphers
BY DEF Past, Fresh, At, Ciphers

\* So does a step that only breaks the connection, or no step at all.
LEMMA StutterKeeps ==
  ASSUME IInv,
         UNCHANGED <<pc, wire, firstRead, rd, wr, conf, selected, err, data>>,
         broken' \in BOOLEAN
  PROVE  IInv'
<1>1. /\ UNCHANGED <<pc, err, wire, firstRead, rd, wr, conf, selected>>
      /\ sent' = sent /\ got' = got /\ r2' = r2
  BY DEF data
<1>2. /\ initial' = initial /\ provide' = provide /\ known' = known
      /\ \A q : /\ HeaderLen(q)' = HeaderLen(q)
                /\ Offers(q)' = Offers(q) /\ Pays(q)' = Pays(q)
      /\ \A r, q : Asks(r, q)' = Asks(r, q)
  BY <1>1, ConfSame
<1>3. Types'
  BY <1>1, <1>2 DEF IInv, Types
<1>4. Errors'
  BY <1>1 DEF IInv, Errors
<1>5. /\ \A a, b : PcIn(a, b)' = PcIn(a, b)
      /\ \A x \in Sides : \A r : PadsLeft(x, r)' = PadsLeft(x, r)
      /\ OutWaits' = OutWaits /\ NoDataYet' = NoDataYet /\ NoData' = NoData
      /\ NoneSelected' = NoneSelected /\ Taken' = Taken
      /\ InDone' = InDone
  <2>1. \A a, b : PcIn(a, b)' = PcIn(a, b)
    BY <1>1 DEF PcIn
  <2>2. \A x \in Sides : \A r : PadsLeft(x, r)' = PadsLeft(x, r)
    BY <1>1 DEF PadsLeft
  <2>3. OutWaits' = OutWaits
    BY <1>1, <2>2 DEF OutWaits, Sides
  <2>4. /\ NoDataYet' = NoDataYet /\ NoData' = NoData
        /\ NoneSelected' = NoneSelected /\ Taken' = Taken
    BY <1>1 DEF NoDataYet, NoData, NoneSelected, Taken
  <2>5. InDone' = InDone
    BY <1>1, <1>2, <2>4 DEF InDone, Acceptable
  <2> QED BY <2>1, <2>2, <2>3, <2>4, <2>5
<1>6. /\ Stage0' = Stage0 /\ Stage1' = Stage1 /\ Stage2' = Stage2
  BY <1>1, <1>5 DEF Stage0, Stage1, Stage2, Sides
<1>7. /\ Stage3' = Stage3 /\ Stage4' = Stage4 /\ Stage5' = Stage5
  BY <1>1, <1>2, <1>5 DEF Stage3, Stage4, Stage5, Sides, Acceptable
<1>8. /\ Stage6' = Stage6 /\ Stage7' = Stage7
  BY <1>1, <1>5 DEF Stage6, Stage7, Sides
<1>9. Stage8' = Stage8
  BY <1>1, <1>2, <1>5 DEF Stage8, Acceptable
<1> QED BY <1>3, <1>4, <1>6, <1>7, <1>8, <1>9 DEF IInv

\* What an end is about to do tells the stage.
LEMMA StageOf ==
  ASSUME IInv
  PROVE  /\ pc["out"] = "new" => Stage0
         /\ pc["out"] = "key" => Stage1 \/ Stage2
         /\ pc["out"] = "sync" => Stage3 \/ Stage4 \/ Stage5 \/ Stage6
         /\ pc["out"] = "select" => Stage7
         /\ pc["out"] = "done" => Stage8
         /\ pc["in"] = "new" => Stage0 \/ Stage1
         /\ pc["in"] = "sync" => Stage2 \/ Stage3
         /\ pc["in"] = "header" => Stage4
         /\ pc["in"] = "payload" => Stage5
         /\ pc["in"] = "done" => Stage6 \/ Stage7 \/ Stage8
<1> DEFINE O(S) == pc["out"] \in S \cup {"failed"}
           I(S) == pc["in"] \in S \cup {"failed"}
<1>1. /\ Stage0 => O({"new"}) /\ I({"new"})
      /\ Stage1 => O({"key"}) /\ I({"new"})
      /\ Stage2 => O({"key"}) /\ I({"sync"})
      /\ Stage3 => O({"sync"}) /\ I({"sync"})
      /\ Stage4 => O({"sync"}) /\ I({"header"})
      /\ Stage5 => O({"sync"}) /\ I({"payload"})
  BY DEF Stage0, Stage1, Stage2, Stage3, Stage4, Stage5, PcIn
<1>2. /\ Stage6 => O({"sync"}) /\ pc["in"] = "done"
      /\ Stage7 => O({"select"}) /\ pc["in"] = "done"
      /\ Stage8 => pc["out"] = "done" /\ pc["in"] = "done"
  BY DEF Stage6, Stage7, Stage8, InDone
<1>3. \/ Stage0 \/ Stage1 \/ Stage2 \/ Stage3 \/ Stage4 \/ Stage5
      \/ Stage6 \/ Stage7 \/ Stage8
  BY DEF IInv
<1> QED BY <1>1, <1>2, <1>3

\* Step 1.
LEMMA OutStartStep == IInv /\ OutStart => IInv'
<1> SUFFICES ASSUME IInv, OutStart PROVE IInv'
  OBVIOUS
<1>1. CASE provide = {} \/ initial > MaxInitial
  <2>1. Fail("out", "new", "arguments") /\ pc["out"] = "new"
    BY <1>1 DEF OutStart, Fail, Goto
  <2>2. "out" \in Sides
    BY DEF Sides
  <2> QED BY <2>1, <2>2, FailKeeps
<1>2. CASE ~(provide = {} \/ initial > MaxInitial)
  <2>1. /\ pc["out"] = "new" /\ pc' = [pc EXCEPT !["out"] = "key"]
        /\ UNCHANGED <<firstRead, rd, wr, conf, selected, err, broken>>
        /\ sent' = sent /\ got' = got /\ r2' = r2
    BY <1>2 DEF OutStart, Goto, data
  <2>2. PICK p \in FewPads :
          Exchange("out", 0, PublicKey("out") \o Raw(PadBytes(p)))
    BY <1>2 DEF OutStart, FewPads
  <2>3. p \in Nat
    BY ConstantFacts DEF FewPads
  <2> DEFINE bs == KeyAndPad("out", p)
  <2>4. bs \in Seq(Bytes) /\ Exchange("out", 0, bs)
    <3>1. "out" \in Sides
      BY DEF Sides
    <3> QED BY <2>2, <2>3, <3>1, KeyAndPadFacts, PadFacts DEF KeyAndPad
  <2>5. Stage0 /\ Types /\ Errors
    BY <2>1, StageOf DEF IInv
  <2> HIDE DEF bs
  <2>6. /\ wire' \in [Sides -> Seq(Bytes)]
        /\ wire'["in"] = <<>> /\ wire'["out"] = bs
    <3>1. /\ "out" \in Sides /\ Peer("out") = "in" /\ 0 \in Nat
          /\ In("out") = <<>> /\ wire["out"] = <<>>
      BY <2>5 DEF Sides, Peer, In, Stage0
    <3>2. /\ wire' \in [Sides -> Seq(Bytes)]
          /\ wire'["in"] = <<>> /\ wire'["out"] = <<>> \o bs
      BY <2>4, <2>5, <3>1, ExchangeFacts
    <3> QED BY <2>4, <3>2, DropFacts
  <2>7. Types'
    BY <2>1, <2>5, <2>6 DEF Types, conf
  <2>8. Errors'
    BY <2>1, <2>5 DEF Errors, Types, Sides
  <2>9. Stage1'
    <3>1. PcIn("key", "new")'
      BY <2>1, <2>5 DEF Stage0, PcIn, Types, Sides
    <3>2. NoDataYet' /\ NoneSelected'
      BY <2>1, <2>5 DEF Stage0, NoDataYet, NoData, NoneSelected
    <3> QED BY <2>1, <2>5, <2>6, <3>1, <3>2 DEF Stage0, Stage1, bs
  <2> QED BY <2>7, <2>8, <2>9 DEF IInv
<1> QED BY <1>1, <1>2

\* Step 1 is read and step 2 is written.
LEMMA InReadKeyStep == IInv /\ InReadKey => IInv'
<1> SUFFICES ASSUME IInv, InReadKey PROVE IInv'
  OBVIOUS
<1>1. /\ pc["in"] = "new" /\ pc' = [pc EXCEPT !["in"] = "sync"]
      /\ UNCHANGED <<rd, wr, conf, selected, err, broken>>
      /\ sent' = sent /\ got' = got /\ r2' = r2
  BY DEF InReadKey, Goto, data
<1>2. PICK n \in 1..Len(In("in")), p \in FewPads :
        /\ FirstRead("in", n)
        /\ Exchange("in", n, PublicKey("in") \o Raw(PadBytes(p)))
  BY DEF InReadKey, FewPads
<1> DEFINE bs == KeyAndPad("in", p)
<1>3. /\ bs \in Seq(Bytes) /\ Exchange("in", n, bs) /\ p \in FewPads
      /\ n \in KeyLen..(KeyLen + PadLimit) /\ n \in Nat
      /\ firstRead' = [firstRead EXCEPT !["in"] = n]
  <2>1. "in" \in Sides /\ p \in Nat
    BY ConstantFacts DEF Sides, FewPads
  <2>2. n \in KeyLen..(KeyLen + PadLimit) /\ n \in Nat
    BY <1>2, ConstantFacts DEF FirstRead
  <2> QED BY <1>2, <2>1, <2>2, KeyAndPadFacts, PadFacts
          DEF KeyAndPad, FirstRead
<1> HIDE DEF bs
<1>4. Types /\ Errors /\ (Stage0 \/ Stage1)
  BY <1>1, StageOf DEF IInv
<1>5. /\ "in" \in Sides /\ Peer("in") = "out" /\ In("in") = wire["out"]
  BY DEF Sides, Peer, In
<1>6. /\ wire' \in [Sides -> Seq(Bytes)] /\ n <= Len(wire["out"])
      /\ wire'["out"] = Drop(wire["out"], n) /\ wire'["in"] = wire["in"] \o bs
  BY <1>3, <1>4, <1>5, ExchangeFacts
<1>7. Stage1
  <2>1. ASSUME Stage0 PROVE FALSE
    <3>1. Len(wire["out"]) = 0
      BY <2>1 DEF Stage0
    <3> QED BY <1>3, <1>6, <3>1, ConstantFacts
  <2> QED BY <1>4, <2>1
<1>8. PICK o \in FewPads : wire["out"] = KeyAndPad("out", o)
  BY <1>7 DEF Stage1
<1> DEFINE r == KeyLen + o - n
<1>9. /\ r \in Nat /\ r + n < KeyLen + PadLimit
      /\ wire'["out"] = Pads(r) /\ wire'["in"] = bs
  <2>1. o \in Nat /\ o < PadLimit /\ "out" \in Sides
    BY ConstantFacts DEF FewPads, Sides
  <2>2. Len(wire["out"]) = KeyLen + o
    BY <1>8, <2>1, KeyAndPadFacts
  <2>3. n \in KeyLen..(KeyLen + o)
    BY <1>3, <1>6, <2>1, <2>2, ConstantFacts
  <2>4. wire'["out"] = Pads(r)
    BY <1>6, <1>8, <2>1, <2>3, KeyRead
  <2>5. wire'["in"] = bs
    <3>1. wire["in"] = <<>>
      BY <1>7 DEF Stage1
    <3> QED BY <1>3, <1>6, <3>1, DropFacts
  <2> QED BY <2>1, <2>3, <2>4, <2>5, ConstantFacts
<1> HIDE DEF r
<1>10. Types'
  <2>1. firstRead' \in [Sides -> 0..(KeyLen + PadLimit)]
    <3>1. n \in 0..(KeyLen + PadLimit)
      BY <1>3, ConstantFacts
    <3>2. firstRead \in [Sides -> 0..(KeyLen + PadLimit)]
      BY <1>4 DEF Types
    <3> QED BY <1>3, <1>5, <3>1, <3>2, UpdateType
  <2> QED BY <1>1, <1>4, <1>6, <2>1 DEF Types, conf
<1>11. Errors'
  BY <1>1, <1>4 DEF Errors, Types, Sides
<1>12. Stage2'
  <2>1. PcIn("key", "sync")'
    BY <1>1, <1>4, <1>7 DEF Stage1, PcIn, Types, Sides
  <2>2. NoDataYet' /\ NoneSelected'
    BY <1>1, <1>7 DEF Stage1, NoDataYet, NoData, NoneSelected
  <2>3. PadsLeft("in", r)'
    BY <1>3, <1>4, <1>9 DEF PadsLeft, Types, Sides
  <2> QED BY <1>1, <1>3, <1>7, <1>9, <2>1, <2>2, <2>3 DEF Stage1, Stage2, bs
<1> QED BY <1>10, <1>11, <1>12 DEF IInv

\* Step 2 is read and step 3 is written.
LEMMA OutReadKeyStep == IInv /\ OutReadKey => IInv'
<1> SUFFICES ASSUME IInv, OutReadKey PROVE IInv'
  OBVIOUS
<1>1. /\ pc["out"] = "key" /\ pc' = [pc EXCEPT !["out"] = "sync"]
      /\ rd' = [rd EXCEPT !["out"] = Past(Fresh("keyB"), VcLen)]
      /\ UNCHANGED <<conf, selected, err, broken>>
      /\ sent' = sent /\ got' = got /\ r2' = r2
  BY DEF OutReadKey, Goto, data
<1>2. PICK n \in 1..Len(In("out")), q \in FewPads :
        /\ FirstRead("out", n)
        /\ Exchange("out", n, Step3(Fresh("keyA"), q))
        /\ wr' = [wr EXCEPT !["out"] = Past(Fresh("keyA"), Len(Header(q)))]
  BY DEF OutReadKey, FewPads
<1>3. Types /\ Errors /\ (Stage1 \/ Stage2)
  BY <1>1, StageOf DEF IInv
<1>4. /\ initial' = initial /\ provide' = provide /\ known' = known
      /\ \A i : HeaderLen(i)' = HeaderLen(i)
      /\ \A i, j : Asks(i, j)' = Asks(i, j)
  BY <1>1, ConfSame
<1> DEFINE bs == Step3(Fresh("keyA"), q)
<1>5. /\ bs \in Seq(Bytes) /\ Exchange("out", n, bs) /\ q \in FewPads
      /\ q \in Nat
      /\ n \in KeyLen..(KeyLen + PadLimit) /\ n \in Nat
      /\ firstRead' = [firstRead EXCEPT !["out"] = n]
      /\ HeaderLen(q) \in Nat /\ Len(Header(q)) = HeaderLen(q)
  <2>1. q \in Nat
    BY ConstantFacts DEF FewPads
  <2>2. n \in KeyLen..(KeyLen + PadLimit) /\ n \in Nat
    BY <1>2, ConstantFacts DEF FirstRead
  <2> QED BY <1>2, <1>3, <2>1, <2>2, HeaderType DEF FirstRead
<1>6. /\ wr' = [wr EXCEPT !["out"] = At("keyA", HeaderLen(q))]
      /\ At("keyA", HeaderLen(q)) \in Ciphers
      /\ rd' = [rd EXCEPT !["out"] = At("keyB", VcLen)]
      /\ At("keyB", VcLen) \in Ciphers
  <2>1. VcLen \in Nat
    BY ConstantFacts
  <2>2. Past(Fresh("keyA"), HeaderLen(q)) = At("keyA", HeaderLen(q))
        /\ At("keyA", HeaderLen(q)) \in Ciphers
    BY <1>5, FreshPast
  <2>3. Past(Fresh("keyB"), VcLen) = At("keyB", VcLen)
        /\ At("keyB", VcLen) \in Ciphers
    BY <2>1, FreshPast
  <2> QED BY <1>1, <1>2, <1>5, <2>2, <2>3
<1> HIDE DEF bs
<1>7. /\ "out" \in Sides /\ Peer("out") = "in" /\ In("out") = wire["in"]
  BY DEF Sides, Peer, In
<1>8. /\ wire' \in [Sides -> Seq(Bytes)] /\ n <= Len(wire["in"])
      /\ wire'["in"] = Drop(wire["in"], n) /\ wire'["out"] = wire["out"] \o bs
  BY <1>3, <1>5, <1>7, ExchangeFacts
<1>9. Stage2
  <2>1. ASSUME Stage1 PROVE FALSE
    <3>1. Len(wire["in"]) = 0
      BY <2>1 DEF Stage1
    <3> QED BY <1>5, <1>8, <3>1, ConstantFacts
  <2> QED BY <1>3, <2>1
<1>10. PICK o \in FewPads : wire["in"] = KeyAndPad("in", o)
  BY <1>9 DEF Stage2
<1>11. PICK r \in Nat : PadsLeft("in", r) /\ wire["out"] = Pads(r)
  BY <1>9 DEF Stage2
<1> DEFINE t == KeyLen + o - n
<1>12. /\ t \in Nat /\ t + n < KeyLen + PadLimit
       /\ wire'["in"] = Pads(t) /\ wire'["out"] = Asks(r, q)
  <2>1. o \in Nat /\ o < PadLimit /\ "in" \in Sides
    BY ConstantFacts DEF FewPads, Sides
  <2>2. Len(wire["in"]) = KeyLen + o
    BY <1>10, <2>1, KeyAndPadFacts
  <2>3. n \in KeyLen..(KeyLen + o)
    BY <1>5, <1>8, <2>1, <2>2, ConstantFacts
  <2>4. wire'["in"] = Pads(t)
    BY <1>8, <1>10, <2>1, <2>3, KeyRead
  <2>5. wire'["out"] = Asks(r, q)
    BY <1>8, <1>11 DEF Asks, bs
  <2> QED BY <2>1, <2>3, <2>4, <2>5, ConstantFacts
<1> HIDE DEF t
<1>13. Types'
  <2>1. firstRead' \in [Sides -> 0..(KeyLen + PadLimit)]
    <3>1. n \in 0..(KeyLen + PadLimit)
      BY <1>5, ConstantFacts
    <3>2. firstRead \in [Sides -> 0..(KeyLen + PadLimit)]
      BY <1>3 DEF Types
    <3> QED BY <1>5, <1>7, <3>1, <3>2, UpdateType
  <2>2. rd' \in [Sides -> Ciphers] /\ wr' \in [Sides -> Ciphers]
    BY <1>3, <1>6 DEF Types
  <2> QED BY <1>1, <1>3, <1>4, <1>8, <2>1, <2>2 DEF Types
<1>14. Errors'
  BY <1>1, <1>3 DEF Errors, Types, Sides
<1>15. Stage3'
  <2>1. PcIn("sync", "sync")'
    BY <1>1, <1>3, <1>9 DEF Stage2, PcIn, Types, Sides
  <2>2. NoDataYet' /\ NoneSelected'
    BY <1>1, <1>9 DEF Stage2, NoDataYet, NoData, NoneSelected
  <2>3. PadsLeft("in", r)' /\ PadsLeft("out", t)'
    BY <1>3, <1>5, <1>11, <1>12 DEF PadsLeft, Types, Sides
  <2>4. OutWaits'
    BY <1>3, <1>6, <1>12, <2>3 DEF OutWaits, Types, Sides
  <2>5. /\ wr'["out"] = At("keyA", HeaderLen(q)')
        /\ wire'["out"] = Asks(r, q)'
        /\ rd'["in"] = RawCipher /\ wr'["in"] = RawCipher
    BY <1>3, <1>4, <1>6, <1>9, <1>12 DEF Stage2, Types, Sides
  <2> QED BY <1>5, <2>1, <2>2, <2>3, <2>4, <2>5 DEF Stage3
<1> QED BY <1>13, <1>14, <1>15 DEF IInv

\* req1 is found, if it has come, and the hashes are read.
LEMMA InSyncStep == IInv /\ InSync => IInv'
<1> SUFFICES ASSUME IInv, InSync PROVE IInv'
  OBVIOUS
<1> DEFINE key == Raw(Req1)
<1>1. /\ Types /\ Errors /\ "in" \in Sides /\ HashLen \in Nat \ {0}
      /\ key \in Seq(Bytes) /\ Len(key) = HashLen /\ key[1] # PadByte
      /\ Peer("in") = "out" /\ In("in") = wire["out"]
  BY HashFacts, ConstantFacts DEF IInv, Sides, Peer, In
<1>2. pc["in"] = "sync" /\ (Stage2 \/ Stage3)
  BY StageOf DEF InSync, Fail, Goto
<1>3. ~SyncMissing("in", key)
      /\ \A j \in Nat : SyncFound("in", key, j) => Stage3
  <2>1. CASE Stage2
    <3>1. PICK r \in Nat : PadsLeft("in", r) /\ wire["out"] = Pads(r)
      BY <2>1 DEF Stage2
    <3> HIDE DEF key
    <3> QED BY <1>1, <3>1, SyncWaits
  <2>2. CASE Stage3
    <3>1. PICK r \in Nat, q \in FewPads :
            PadsLeft("in", r) /\ wire["out"] = Asks(r, q)
      BY <2>2 DEF Stage3
    <3>2. q \in Nat
      BY ConstantFacts DEF FewPads
    <3>3. Behind(Asks(r, q), r, key)
      BY <1>1, <3>2, AsksFacts
    <3> HIDE DEF key
    <3>4. ~SyncMissing("in", key)
      BY <1>1, <3>1, <3>3, SyncHere
    <3> QED BY <2>2, <3>4
  <2> QED BY <1>2, <2>1, <2>2
<1>4. PICK j \in 0..Len(In("in")) :
        /\ SyncFound("in", key, j)
        /\ IF ~known
           THEN Fail("in", "sync", "skey")
           ELSE /\ Goto("in", "sync", "header")
                /\ Exchange("in", j + 2 * HashLen, <<>>)
                /\ rd' = [rd EXCEPT !["in"] = Fresh("keyA")]
                /\ wr' = [wr EXCEPT !["in"] = Fresh("keyB")]
                /\ UNCHANGED <<firstRead, conf, selected, err, data, broken>>
  BY <1>3 DEF InSync
<1>5. CASE ~known
  BY <1>1, <1>2, <1>4, <1>5, FailKeeps
<1>6. CASE known
  <2>1. /\ pc' = [pc EXCEPT !["in"] = "header"]
        /\ Exchange("in", j + 2 * HashLen, <<>>)
        /\ rd' = [rd EXCEPT !["in"] = Fresh("keyA")]
        /\ wr' = [wr EXCEPT !["in"] = Fresh("keyB")]
        /\ UNCHANGED <<firstRead, conf, selected, err, broken>>
        /\ sent' = sent /\ got' = got /\ r2' = r2
    BY <1>4, <1>6 DEF Goto, data
  <2>2. Stage3 /\ j \in Nat
    BY <1>1, <1>3, <1>4 DEF Types
  <2>3. PICK r \in Nat, q \in FewPads :
          /\ PadsLeft("in", r) /\ wire["out"] = Asks(r, q)
          /\ wr["out"] = At("keyA", HeaderLen(q))
    BY <2>2 DEF Stage3
  <2>4. q \in Nat
    BY ConstantFacts DEF FewPads
  <2>5. /\ Behind(Asks(r, q), r, key)
        /\ Drop(Asks(r, q), r + 2 * HashLen) = Offers(q)
    BY <1>1, <2>4, AsksFacts
  <2>6. j = r
    <3> HIDE DEF key
    <3> QED BY <1>1, <1>4, <2>2, <2>3, <2>5, SyncHere
  <2>7. /\ wire' \in [Sides -> Seq(Bytes)]
        /\ wire'["out"] = Offers(q) /\ wire'["in"] = wire["in"]
    <3> DEFINE n == j + 2 * HashLen
    <3>1. /\ n \in Nat /\ Exchange("in", n, <<>>)
          /\ Drop(wire["out"], n) = Offers(q)
      BY <1>1, <2>1, <2>2, <2>3, <2>5, <2>6
    <3> HIDE DEF n, key
    <3>2. /\ wire' \in [Sides -> Seq(Bytes)] /\ wire'["in"] = wire["in"]
          /\ wire'["out"] = Drop(wire["out"], n)
      BY <1>1, <3>1, ReadFacts
    <3> QED BY <3>1, <3>2
  <2>8. /\ initial' = initial /\ provide' = provide /\ known' = known
        /\ \A i : HeaderLen(i)' = HeaderLen(i) /\ Offers(i)' = Offers(i)
    BY <2>1, ConfSame
  <2>9. Types'
    <3>1. rd' \in [Sides -> Ciphers] /\ wr' \in [Sides -> Ciphers]
      <4>1. Fresh("keyA") \in Ciphers /\ Fresh("keyB") \in Ciphers
        BY CipherFacts
      <4>2. rd \in [Sides -> Ciphers] /\ wr \in [Sides -> Ciphers]
        BY <1>1 DEF Types
      <4> QED BY <1>1, <2>1, <4>1, <4>2, UpdateType
    <3> QED BY <1>1, <2>1, <2>7, <2>8, <3>1 DEF Types
  <2>10. Errors'
    BY <1>1, <1>2, <2>1 DEF Errors, Types, Sides
  <2>11. Stage4'
    <3>1. PcIn("sync", "header")'
      BY <1>1, <2>1, <2>2 DEF Stage3, PcIn, Types, Sides
    <3>2. NoDataYet' /\ NoneSelected'
      BY <2>1, <2>2 DEF Stage3, NoDataYet, NoData, NoneSelected
    <3>3. OutWaits'
      BY <1>1, <2>1, <2>2, <2>7 DEF Stage3, OutWaits, PadsLeft, Types, Sides
    <3>4. /\ wire'["out"] = Offers(q)' /\ wr'["out"] = At("keyA", HeaderLen(q)')
          /\ rd'["in"] = Fresh("keyA") /\ wr'["in"] = Fresh("keyB")
      BY <1>1, <2>1, <2>3, <2>7, <2>8 DEF Types, Sides
    <3> QED BY <3>1, <3>2, <3>3, <3>4 DEF Stage4
  <2> QED BY <2>9, <2>10, <2>11 DEF IInv
<1> QED BY <1>5, <1>6

\* VC and crypto_provide are read, and a method is selected.
LEMMA InSelectStep == IInv /\ InSelect => IInv'
<1> SUFFICES ASSUME IInv, InSelect PROVE IInv'
  OBVIOUS
<1> DEFINE n == VcLen + 1
<1>1. /\ Types /\ Errors /\ "in" \in Sides /\ n \in Nat
      /\ Peer("in") = "out" /\ In("in") = wire["out"]
  BY ConstantFacts DEF IInv, Sides, Peer, In
<1>2. pc["in"] = "header" /\ Stage4
  BY StageOf DEF InSelect, Fail, Goto
<1>3. PICK q \in FewPads :
        wire["out"] = Offers(q) /\ wr["out"] = At("keyA", HeaderLen(q))
  BY <1>2 DEF Stage4
<1>4. q \in Nat /\ rd["in"] = Fresh("keyA")
  BY <1>2, ConstantFacts DEF FewPads, Stage4
<1> DEFINE head == Dec(rd["in"], SubSeq(In("in"), 1, n))
<1>5. /\ SubSeq(head, 1, VcLen) = Vc /\ head[n] = <<"provide", provide>>
      /\ Drop(wire["out"], n) = Pays(q)
  BY <1>1, <1>3, <1>4, OffersFacts
<1>6. PICK m \in SUBSET Methods :
        IF ~Acceptable(m, provide)
        THEN Fail("in", "header", "selection")
        ELSE /\ Goto("in", "header", "payload")
             /\ Exchange("in", n, <<>>)
             /\ selected' = [selected EXCEPT !["in"] = m]
             /\ rd' = [rd EXCEPT !["in"] = Past(@, n)]
             /\ UNCHANGED <<firstRead, wr, conf, err, data, broken>>
  <2>1. LET p == head[n]
        IN  IF SubSeq(head, 1, VcLen) # Vc \/ p[1] # "provide"
            THEN Fail("in", "header", "garbled")
            ELSE \E m \in SUBSET Methods :
              IF ~Acceptable(m, p[2])
              THEN Fail("in", "header", "selection")
              ELSE /\ Goto("in", "header", "payload")
                   /\ Exchange("in", n, <<>>)
                   /\ selected' = [selected EXCEPT !["in"] = m]
                   /\ rd' = [rd EXCEPT !["in"] = Past(@, n)]
                   /\ UNCHANGED <<firstRead, wr, conf, err, data, broken>>
    BY DEF InSelect
  <2> HIDE DEF head, n
  <2>2. head[n][1] = "provide" /\ head[n][2] = provide
    BY <1>5
  <2> QED BY <1>5, <2>1, <2>2
<1> HIDE DEF head
<1>7. CASE ~Acceptable(m, provide)
  BY <1>1, <1>2, <1>6, <1>7, FailKeeps
<1>8. CASE Acceptable(m, provide)
  <2>1. /\ pc' = [pc EXCEPT !["in"] = "payload"]
        /\ Exchange("in", n, <<>>)
        /\ selected' = [selected EXCEPT !["in"] = m]
        /\ rd' = [rd EXCEPT !["in"] = Past(@, n)]
        /\ UNCHANGED <<firstRead, wr, conf, err, broken>>
        /\ sent' = sent /\ got' = got /\ r2' = r2
    BY <1>6, <1>8 DEF Goto, data
  <2>2. /\ wire' \in [Sides -> Seq(Bytes)]
        /\ wire'["out"] = Pays(q) /\ wire'["in"] = wire["in"]
    <3> HIDE DEF n
    <3>1. /\ wire' \in [Sides -> Seq(Bytes)] /\ wire'["in"] = wire["in"]
          /\ wire'["out"] = Drop(wire["out"], n)
      BY <1>1, <2>1, ReadFacts
    <3> QED BY <1>5, <3>1
  <2>3. /\ initial' = initial /\ provide' = provide /\ known' = known
        /\ \A i : HeaderLen(i)' = HeaderLen(i) /\ Pays(i)' = Pays(i)
    BY <2>1, ConfSame
  <2>4. /\ At("keyA", n) \in Ciphers
        /\ rd' = [rd EXCEPT !["in"] = At("keyA", n)]
    BY <1>1, <1>4, <2>1, FreshPast
  <2>5. Types'
    <3>1. rd' \in [Sides -> Ciphers] /\ selected' \in [Sides -> SUBSET Methods]
      <4>1. /\ rd \in [Sides -> Ciphers] /\ m \in SUBSET Methods
            /\ selected \in [Sides -> SUBSET Methods]
        BY <1>1 DEF Types
      <4> QED BY <1>1, <2>1, <2>4, <4>1, UpdateType
    <3> QED BY <1>1, <2>1, <2>2, <2>3, <3>1 DEF Types
  <2>6. Errors'
    BY <1>1, <1>2, <2>1 DEF Errors, Types, Sides
  <2>7. Stage5'
    <3>1. PcIn("sync", "payload")'
      BY <1>1, <1>2, <2>1 DEF Stage4, PcIn, Types, Sides
    <3>2. NoDataYet' /\ selected'["out"] = {} /\ selected'["in"] = m
      BY <1>1, <1>2, <2>1
         DEF Stage4, NoDataYet, NoData, NoneSelected, Types, Sides
    <3>3. OutWaits'
      BY <1>1, <1>2, <2>1, <2>2 DEF Stage4, OutWaits, PadsLeft, Types, Sides
    <3>4. /\ wire'["out"] = Pays(q)' /\ wr'["out"] = At("keyA", HeaderLen(q)')
          /\ rd'["in"] = At("keyA", n) /\ wr'["in"] = Fresh("keyB")
      BY <1>1, <1>2, <1>3, <2>1, <2>2, <2>3, <2>4 DEF Stage4, Types, Sides
    <3>5. Acceptable(selected["in"], provide)'
      BY <1>8, <2>3, <3>2 DEF Acceptable
    <3> QED BY <3>1, <3>2, <3>3, <3>4, <3>5 DEF Stage5
  <2> QED BY <2>5, <2>6, <2>7 DEF IInv
<1> QED BY <1>7, <1>8

\* The payload is read and step 4 is written.
LEMMA InFinishStep == IInv /\ InFinish => IInv'
<1> SUFFICES ASSUME IInv, InFinish PROVE IInv'
  OBVIOUS
<1> DEFINE n == VcLen + 1
           m == selected["in"]
           clear == Dec(rd["in"], In("in"))
<1>1. /\ Types /\ Errors /\ "in" \in Sides /\ n \in Nat
      /\ Peer("in") = "out" /\ In("in") = wire["out"]
      /\ initial \in Nat /\ m \in SUBSET Methods
  BY ConstantFacts DEF IInv, Sides, Peer, In, Types
<1>2. pc["in"] = "payload" /\ Stage5
  BY StageOf DEF InFinish, Fail, Goto
<1>3. PICK q \in FewPads :
        wire["out"] = Pays(q) /\ wr["out"] = At("keyA", HeaderLen(q))
  BY <1>2 DEF Stage5
<1>4. /\ q \in Nat /\ rd["in"] = At("keyA", n) /\ wr["in"] = Fresh("keyB")
      /\ HeaderLen(q) \in Nat
  BY <1>1, <1>2, ConstantFacts DEF FewPads, Stage5, HeaderLen
<1> DEFINE used == 2 + q + initial
<1>5. /\ clear[1] = <<"len", q>> /\ clear[2 + q] = <<"len", initial>>
      /\ SubSeq(clear, 3 + q, used) = Data("out", 0, initial)
      /\ Len(Pays(q)) = used
  <2>1. clear = PayloadPart(q) /\ Len(Pays(q)) = q + 2 + initial
    BY <1>1, <1>3, <1>4, OffersFacts
  <2>2. /\ PayloadPart(q)[1] = <<"len", q>>
        /\ PayloadPart(q)[q + 2] = <<"len", initial>>
        /\ SubSeq(PayloadPart(q), q + 3, q + 2 + initial)
             = Data("out", 0, initial)
    BY <1>1, <1>4, PayloadFacts
  <2>3. q + 2 = 2 + q /\ q + 3 = 3 + q /\ q + 2 + initial = used
    BY <1>1, <1>4
  <2> HIDE DEF clear, used
  <2> QED BY <2>1, <2>2, <2>3
<1>6. PICK d \in FewPads :
        /\ Goto("in", "payload", "done")
        /\ r2' = SubSeq(clear, 3 + q, used)
        /\ rd' = [rd EXCEPT !["in"] = UpdateCipher(Past(@, used), m)]
        /\ Exchange("in", used, Enc(wr["in"], Step4(m, d)))
        /\ wr' = [wr EXCEPT !["in"] =
                    UpdateCipher(Past(@, Len(Step4(m, d))), m)]
        /\ UNCHANGED <<firstRead, conf, selected, err, sent, got, broken>>
  <2>1. LET lenC == clear[1]
            lenIA == clear[2 + lenC[2]]
            all == 2 + lenC[2] + lenIA[2]
        IN  IF lenC[1] # "len"
            THEN Fail("in", "payload", "garbled")
            ELSE /\ IF lenIA[1] # "len"
                    THEN Fail("in", "payload", "garbled")
                    ELSE \E d \in FewPads :
                      /\ Goto("in", "payload", "done")
                      /\ r2' = SubSeq(clear, 3 + lenC[2], all)
                      /\ rd' = [rd EXCEPT !["in"] =
                                  UpdateCipher(Past(@, all), m)]
                      /\ Exchange("in", all, Enc(wr["in"], Step4(m, d)))
                      /\ wr' = [wr EXCEPT !["in"] =
                                  UpdateCipher(Past(@, Len(Step4(m, d))), m)]
                      /\ UNCHANGED <<firstRead, conf, selected, err, sent, got,
                                     broken>>
    BY DEF InFinish, InPayload, InReader, FewPads
  <2> HIDE DEF clear
  <2>2. /\ clear[1][1] = "len" /\ clear[1][2] = q
        /\ clear[2 + q][1] = "len" /\ clear[2 + q][2] = initial
    BY <1>5
  <2> QED BY <2>1, <2>2
<1> HIDE DEF clear
<1>7. d \in Nat /\ VcLen + 2 + d \in Nat
  BY ConstantFacts DEF FewPads
<1> DEFINE c == UpdateCipher(At("keyA", HeaderLen(q)), m)
           e == InCipher(m, d)
           bs == Enc(Fresh("keyB"), Step4(m, d))
<1>8. /\ rd' = [rd EXCEPT !["in"] = c] /\ wr' = [wr EXCEPT !["in"] = e]
      /\ c \in Ciphers /\ e \in Ciphers
  <2>1. n + used = HeaderLen(q) /\ used \in Nat
    BY <1>1, <1>4, ConstantFacts DEF HeaderLen
  <2>2. Past(At("keyA", n), used) = At("keyA", HeaderLen(q))
    <3>1. Past(At("keyA", n), used) = At("keyA", n + used)
      <4> HIDE DEF n, used
      <4> QED BY <1>1, <2>1, PastAt
    <3> QED BY <2>1, <3>1
  <2>3. Past(Fresh("keyB"), Len(Step4(m, d))) = At("keyB", VcLen + 2 + d)
    <3>1. Len(Step4(m, d)) = VcLen + 2 + d
      BY <1>1, <1>7, SelectFacts
    <3> QED BY <1>7, <3>1, FreshPast
  <2>4. c \in Ciphers /\ e \in Ciphers
    BY <1>4, <1>7, FreshPast, CipherFacts, InSentFacts
  <2> QED BY <1>4, <1>6, <2>2, <2>3, <2>4 DEF InCipher
<1>9. PICK t \in Nat : PadsLeft("out", t) /\ wire["in"] = Pads(t)
  BY <1>2 DEF Stage5, OutWaits
<1>10. /\ bs \in Seq(Bytes) /\ Pads(t) \o bs = Answers(t, m, d, 0)
       /\ Exchange("in", used, bs) /\ used \in Nat
       /\ Drop(wire["out"], used) = <<>>
  <2>1. bs \in Seq(Bytes) /\ Pads(t) \o bs = Answers(t, m, d, 0)
    <3>1. 0 \in Nat
      OBVIOUS
    <3> QED BY <1>1, <1>7, <3>1, AnswersFacts
  <2>2. Pays(q) \in Seq(Bytes) /\ Drop(Pays(q), Len(Pays(q))) = <<>>
    <3>1. Pays(q) \in Seq(Bytes)
      BY <1>1, <1>4, OffersFacts
    <3> QED BY <3>1, DropFacts
  <2>3. used \in Nat
    BY <1>1, <1>4
  <2> HIDE DEF used
  <2> QED BY <1>3, <1>4, <1>5, <1>6, <2>1, <2>2, <2>3
<1> HIDE DEF n, used, c, e, bs
<1>11. /\ wire' \in [Sides -> Seq(Bytes)]
       /\ wire'["out"] = <<>> /\ wire'["in"] = Answers(t, m, d, 0)
  <2>1. /\ wire' \in [Sides -> Seq(Bytes)]
        /\ wire'["out"] = Drop(wire["out"], used)
        /\ wire'["in"] = wire["in"] \o bs
    BY <1>1, <1>10, ExchangeFacts
  <2> QED BY <1>9, <1>10, <2>1
<1>12. /\ pc' = [pc EXCEPT !["in"] = "done"]
       /\ UNCHANGED <<firstRead, conf, selected, err, sent, got, broken>>
       /\ r2' = Data("out", 0, initial) /\ Data("out", 0, initial) \in Seq(Vals)
  <2>1. "out" \in Sides /\ 0 \in Nat /\ 0 <= initial
    BY <1>1 DEF Sides
  <2> QED BY <1>1, <1>5, <1>6, <2>1, DataFacts DEF Goto
<1>13. /\ initial' = initial /\ provide' = provide /\ known' = known
       /\ \A i : HeaderLen(i)' = HeaderLen(i)
  BY <1>12, ConfSame
<1>14. Types'
  <2>1. rd' \in [Sides -> Ciphers] /\ wr' \in [Sides -> Ciphers]
    <3>1. rd \in [Sides -> Ciphers] /\ wr \in [Sides -> Ciphers]
      BY <1>1 DEF Types
    <3> QED BY <1>1, <1>8, <3>1, UpdateType
  <2> QED BY <1>1, <1>11, <1>12, <1>13, <2>1 DEF Types
<1>15. Errors'
  BY <1>1, <1>2, <1>12 DEF Errors, Types, Sides
<1>16. InDone'
  <2>1. pc'["in"] = "done" /\ NoData'
    BY <1>1, <1>2, <1>12 DEF Types, Sides, Stage5, NoDataYet, NoData
  <2>2. selected'["out"] = {} /\ Acceptable(selected["in"], provide)'
    BY <1>2, <1>12, <1>13 DEF Stage5, Acceptable
  <2>3. Taken' = Data("out", 0, initial)'
    <3>1. got'["in"] = <<>>
      BY <1>2, <1>12 DEF Stage5, NoDataYet
    <3>2. Taken' = <<>> \o Data("out", 0, initial)
      BY <1>12, <3>1 DEF Taken
    <3>3. <<>> \o Data("out", 0, initial) = Data("out", 0, initial)
      BY <1>12, DropFacts
    <3> QED BY <1>13, <3>2, <3>3
  <2>4. /\ wr'["out"] = At("keyA", HeaderLen(q)')
        /\ rd'["in"] = UpdateCipher(At("keyA", HeaderLen(q)'), selected'["in"])
        /\ rd'["out"] = At("keyB", VcLen)
    BY <1>1, <1>2, <1>3, <1>8, <1>12, <1>13
       DEF Types, Sides, Stage5, OutWaits, c
  <2> QED BY <1>11, <2>1, <2>2, <2>3, <2>4 DEF InDone
<1>17. Stage6'
  <2>1. pc'["out"] \in {"sync", "failed"} /\ sent'["in"] = 0
    BY <1>1, <1>2, <1>12 DEF Types, Sides, Stage5, PcIn, NoDataYet
  <2>2. PadsLeft("out", t)'
    BY <1>9, <1>12 DEF PadsLeft
  <2>3. wr'["in"] = Past(InCipher(m, d), 0)
    <3>1. wr'["in"] = InCipher(m, d)
      BY <1>1, <1>8 DEF Types, Sides, e
    <3> QED BY <1>7, <3>1, InSentFacts
  <2>4. wire'["in"] = Answers(t, selected'["in"], d, sent'["in"])
        /\ wr'["in"] = Past(InCipher(selected'["in"], d), sent'["in"])
    BY <1>11, <1>12, <2>1, <2>3
  <2> QED BY <1>16, <2>1, <2>2, <2>4 DEF Stage6
<1> QED BY <1>14, <1>15, <1>17 DEF IInv

\* VC is found, once step 4 has come.
LEMMA OutSyncStep == IInv /\ OutSync => IInv'
<1> SUFFICES ASSUME IInv, OutSync PROVE IInv'
  OBVIOUS
<1> DEFINE key == Enc(Fresh("keyB"), Vc)
           m == selected["in"]
<1>1. /\ Types /\ Errors /\ "out" \in Sides /\ VcLen \in Nat \ {0}
      /\ Peer("out") = "in" /\ In("out") = wire["in"]
      /\ m \in SUBSET Methods
  BY ConstantFacts DEF IInv, Sides, Peer, In, Types
<1>2. key \in Seq(Bytes) /\ Len(key) = VcLen /\ key[1] # PadByte
  <2>1. {} \in SUBSET Methods /\ 0 \in Nat
    OBVIOUS
  <2> QED BY <2>1, AnswersFacts
<1>3. pc["out"] = "sync" /\ (Stage3 \/ Stage4 \/ Stage5 \/ Stage6)
  BY StageOf DEF OutSync, Fail, Goto
<1>4. ~SyncMissing("out", key)
      /\ \A j \in Nat : SyncFound("out", key, j) => Stage6
  <2>1. CASE Stage3 \/ Stage4 \/ Stage5
    <3>1. PICK t \in Nat : PadsLeft("out", t) /\ wire["in"] = Pads(t)
      BY <2>1 DEF Stage3, Stage4, Stage5, OutWaits
    <3> HIDE DEF key
    <3> QED BY <1>1, <1>2, <3>1, SyncWaits
  <2>2. CASE Stage6
    <3>1. PICK t \in Nat, d \in FewPads :
            PadsLeft("out", t) /\ wire["in"] = Answers(t, m, d, sent["in"])
      BY <2>2 DEF Stage6
    <3>2. d \in Nat /\ sent["in"] \in Nat
      BY <1>1, ConstantFacts DEF FewPads, Types, Sides
    <3>3. Behind(Answers(t, m, d, sent["in"]), t, key)
      BY <1>1, <3>2, AnswersFacts
    <3> HIDE DEF key
    <3>4. ~SyncMissing("out", key)
      BY <1>1, <1>2, <3>1, <3>3, SyncHere
    <3> QED BY <2>2, <3>4
  <2> QED BY <1>3, <2>1, <2>2
<1>5. PICK j \in 0..Len(In("out")) :
        SyncFound("out", key, j) /\ Exchange("out", j + VcLen, <<>>)
  BY <1>4 DEF OutSync
<1>6. /\ pc' = [pc EXCEPT !["out"] = "select"]
      /\ UNCHANGED <<firstRead, rd, wr, conf, selected, err, broken>>
      /\ sent' = sent /\ got' = got /\ r2' = r2
  BY <1>4 DEF OutSync, Goto, data
<1>7. Stage6 /\ j \in Nat
  BY <1>1, <1>4, <1>5 DEF Types
<1>8. PICK t \in Nat, d \in FewPads :
        /\ PadsLeft("out", t) /\ wire["in"] = Answers(t, m, d, sent["in"])
        /\ wr["in"] = Past(InCipher(m, d), sent["in"])
  BY <1>7 DEF Stage6
<1>9. d \in Nat /\ sent["in"] \in Nat
  BY <1>1, ConstantFacts DEF FewPads, Types, Sides
<1>10. /\ Behind(Answers(t, m, d, sent["in"]), t, key)
       /\ Drop(Answers(t, m, d, sent["in"]), t + VcLen)
            = Selects(m, d, sent["in"])
  <2>1. m \in SUBSET Methods /\ t \in Nat
    BY <1>1, <1>8 DEF PadsLeft
  <2> HIDE DEF m
  <2> QED BY ONLY <1>9, <2>1, AnswersFacts DEF key
<1> HIDE DEF key
<1>11. j = t
  BY <1>1, <1>2, <1>5, <1>7, <1>8, <1>10, SyncHere
<1>12. /\ wire' \in [Sides -> Seq(Bytes)]
       /\ wire'["in"] = Selects(m, d, sent["in"]) /\ wire'["out"] = wire["out"]
  <2> DEFINE n == t + VcLen
  <2>1. /\ n \in Nat /\ Exchange("out", n, <<>>)
        /\ Drop(wire["in"], n) = Selects(m, d, sent["in"])
    BY <1>1, <1>5, <1>8, <1>10, <1>11
  <2> HIDE DEF n
  <2>2. /\ wire' \in [Sides -> Seq(Bytes)] /\ wire'["out"] = wire["out"]
        /\ wire'["in"] = Drop(wire["in"], n)
    BY <1>1, <2>1, ReadFacts
  <2> QED BY <2>1, <2>2
<1>13. /\ initial' = initial /\ provide' = provide /\ known' = known
       /\ \A i : HeaderLen(i)' = HeaderLen(i)
  BY <1>6, ConfSame
<1>14. Types'
  BY <1>1, <1>6, <1>12, <1>13 DEF Types
<1>15. Errors'
  BY <1>1, <1>3, <1>6 DEF Errors, Types, Sides
<1>16. Stage7'
  <2>1. pc'["out"] = "select" /\ pc'["in"] = pc["in"]
    BY <1>1, <1>6 DEF Types, Sides
  <2>2. Taken' = Taken /\ NoData' = NoData
    BY <1>6 DEF Taken, NoData
  <2>3. InDone'
    BY <1>6, <1>7, <1>12, <1>13, <2>1, <2>2 DEF Stage6, InDone, Acceptable
  <2> QED BY <1>6, <1>8, <1>12, <2>1, <2>3 DEF Stage7
<1> QED BY <1>14, <1>15, <1>16 DEF IInv

\* The selection is read and accepted.
LEMMA OutFinishStep == IInv /\ OutFinish => IInv'
<1> SUFFICES ASSUME IInv, OutFinish PROVE IInv'
  OBVIOUS
<1> DEFINE m == selected["in"]
           k == sent["in"]
           head == Dec(rd["out"], SubSeq(In("out"), 1, 2))
<1>1. /\ Types /\ Errors /\ "out" \in Sides
      /\ Peer("out") = "in" /\ In("out") = wire["in"]
      /\ m \in SUBSET Methods /\ k \in Nat /\ initial \in Nat
  BY DEF IInv, Sides, Peer, In, Types
<1>2. pc["out"] = "select" /\ Stage7
  BY StageOf DEF OutFinish, Fail, Goto
<1>3. PICK d \in FewPads :
        /\ wire["in"] = Selects(m, d, k)
        /\ wr["in"] = Past(InCipher(m, d), k)
  BY <1>2 DEF Stage7
<1>4. PICK q \in FewPads :
        /\ wr["out"] = At("keyA", HeaderLen(q))
        /\ rd["in"] = UpdateCipher(At("keyA", HeaderLen(q)), m)
  BY <1>2 DEF Stage7, InDone
<1>5. /\ d \in Nat /\ rd["out"] = At("keyB", VcLen)
      /\ Acceptable(m, provide)
  BY <1>2, ConstantFacts DEF FewPads, Stage7, InDone
<1> DEFINE n == 2 + d
<1>6. /\ head[1] = <<"select", m>> /\ head[2] = <<"len", d>>
      /\ Drop(wire["in"], n) = InSent(m, d, k) /\ n \in Nat
  <2> DEFINE w == Dec(At("keyB", VcLen), SubSeq(Selects(m, d, k), 1, 2))
  <2>1. head = w
    BY <1>1, <1>3, <1>5
  <2>2. m \in SUBSET Methods /\ d \in Nat /\ k \in Nat
    BY <1>1, <1>5
  <2> HIDE DEF m, k
  <2>3. /\ w[1] = <<"select", m>> /\ w[2] = <<"len", d>>
        /\ Drop(Selects(m, d, k), 2 + d) = InSent(m, d, k)
    BY ONLY <2>2, SelectsFacts
  <2> HIDE DEF head, w
  <2> QED BY <1>3, <2>1, <2>2, <2>3
<1>7. /\ Goto("out", "select", "done")
      /\ Exchange("out", n, <<>>)
      /\ selected' = [selected EXCEPT !["out"] = m]
      /\ rd' = [rd EXCEPT !["out"] = UpdateCipher(Past(@, n), m)]
      /\ wr' = [wr EXCEPT !["out"] = UpdateCipher(@, m)]
      /\ UNCHANGED <<firstRead, conf, err, data, broken>>
  <2>1. IF head[1][1] # "select" \/ head[2][1] # "len"
        THEN Fail("out", "select", "garbled")
        ELSE IF ~Acceptable(head[1][2], provide)
        THEN Fail("out", "select", "selection")
        ELSE /\ Goto("out", "select", "done")
             /\ Exchange("out", 2 + head[2][2], <<>>)
             /\ selected' = [selected EXCEPT !["out"] = head[1][2]]
             /\ rd' = [rd EXCEPT !["out"] =
                         UpdateCipher(Past(@, 2 + head[2][2]), head[1][2])]
             /\ wr' = [wr EXCEPT !["out"] = UpdateCipher(@, head[1][2])]
             /\ UNCHANGED <<firstRead, conf, err, data, broken>>
    BY DEF OutFinish
  <2> HIDE DEF head
  <2>2. /\ head[1][1] = "select" /\ head[1][2] = m
        /\ head[2][1] = "len" /\ head[2][2] = d
    BY <1>6
  <2> QED BY <1>5, <2>1, <2>2
<1> HIDE DEF head
<1> DEFINE c == InCipher(m, d)
<1>8. /\ rd' = [rd EXCEPT !["out"] = c] /\ c \in Ciphers
      /\ wr' = [wr EXCEPT !["out"] = rd["in"]] /\ rd["in"] \in Ciphers
  <2>1. VcLen \in Nat /\ VcLen + n = VcLen + 2 + d /\ n \in Nat
    BY <1>5, ConstantFacts
  <2>2. Past(At("keyB", VcLen), n) = At("keyB", VcLen + 2 + d)
    <3>1. Past(At("keyB", VcLen), n) = At("keyB", VcLen + n)
      <4> HIDE DEF n
      <4> QED BY <2>1, PastAt
    <3> QED BY <2>1, <3>1
  <2>3. c \in Ciphers /\ rd["in"] \in Ciphers
    BY <1>1, <1>5, InSentFacts DEF Types, Sides
  <2> QED BY <1>4, <1>5, <1>7, <2>2, <2>3 DEF InCipher
<1> HIDE DEF n, c
<1>9. /\ wire' \in [Sides -> Seq(Bytes)]
      /\ wire'["in"] = InSent(m, d, k) /\ wire'["out"] = wire["out"]
  <2>1. /\ wire' \in [Sides -> Seq(Bytes)] /\ wire'["out"] = wire["out"]
        /\ wire'["in"] = Drop(wire["in"], n)
    BY <1>1, <1>6, <1>7, ReadFacts
  <2> QED BY <1>6, <2>1
<1>10. /\ pc' = [pc EXCEPT !["out"] = "done"]
       /\ UNCHANGED <<firstRead, conf, err, broken>>
       /\ sent' = sent /\ got' = got /\ r2' = r2
  BY <1>7 DEF Goto, data
<1>11. initial' = initial /\ provide' = provide /\ known' = known
  BY <1>10, ConfSame
<1>12. Types'
  <2>1. /\ rd' \in [Sides -> Ciphers] /\ wr' \in [Sides -> Ciphers]
        /\ selected' \in [Sides -> SUBSET Methods]
    <3>1. /\ rd \in [Sides -> Ciphers] /\ wr \in [Sides -> Ciphers]
          /\ selected \in [Sides -> SUBSET Methods]
      BY <1>1 DEF Types
    <3> QED BY <1>1, <1>7, <1>8, <3>1, UpdateType
  <2> QED BY <1>1, <1>9, <1>10, <1>11, <2>1 DEF Types
<1>13. Errors'
  BY <1>1, <1>2, <1>10 DEF Errors, Types, Sides
<1>14. Stage8'
  <2>1. /\ pc'["out"] = "done" /\ pc'["in"] = "done"
        /\ selected'["out"] = m /\ selected'["in"] = m
        /\ rd'["out"] = c /\ rd'["in"] = rd["in"]
        /\ wr'["out"] = rd["in"] /\ wr'["in"] = wr["in"]
    BY <1>1, <1>2, <1>7, <1>8, <1>10 DEF Types, Sides, Stage7, InDone
  <2>2. Acceptable(selected["in"], provide)'
    BY <1>5, <1>11, <2>1 DEF Acceptable
  <2>3. /\ sent'["out"] = 0 /\ got'["out"] = <<>> /\ sent'["in"] = k
        /\ Taken' = Taken
    BY <1>2, <1>10 DEF Stage7, InDone, NoData, Taken
  <2>4. /\ \A s \in Sides, i \in Nat : Data(s, i, i) = <<>>
        /\ \A s \in Sides, i \in Nat, x \in Ciphers :
             Enc(x, Data(s, i, i)) = <<>>
        /\ \A x \in Ciphers : Past(x, 0) = x
    <3>1. ASSUME NEW x \in Ciphers PROVE Past(x, 0) = x
      <4>1. 0 \in Nat
        OBVIOUS
      <4> QED BY <4>1, PastPast
    <3> QED BY <3>1, DataAppend
  <2>5. /\ 0 \in 0..sent'["out"]
        /\ wire'["out"] = Enc(rd'["in"], Data("out", initial' + 0,
                                                initial' + sent'["out"]))
        /\ wr'["out"] = Past(rd'["in"], sent'["out"] - 0)
        /\ Taken' = Data("out", 0, initial' + 0)
    <3>1. /\ wire'["out"] = <<>> /\ Taken = Data("out", 0, initial)
      BY <1>2, <1>9 DEF Stage7, InDone
    <3>2. Enc(rd["in"], Data("out", initial, initial)) = <<>>
      BY <1>1, <1>8, <2>4
    <3>3. initial + 0 = initial /\ 0 - 0 = 0 /\ 0 \in 0..0
      BY <1>1
    <3> QED BY <1>8, <1>11, <2>1, <2>3, <2>4, <3>1, <3>2, <3>3
  <2>6. /\ 0 \in 0..sent'["in"]
        /\ wire'["in"] = Enc(rd'["out"], Data("in", 0, sent'["in"]))
        /\ wr'["in"] = Past(rd'["out"], sent'["in"] - 0)
        /\ got'["out"] = Data("in", 0, 0)
    <3>1. k - 0 = k /\ 0 \in 0..k /\ Data("in", 0, 0) = <<>>
      BY <1>1, <2>4 DEF Sides
    <3> QED BY <1>3, <1>9, <2>1, <2>3, <3>1 DEF InSent, c
  <2> QED BY <2>1, <2>2, <2>5, <2>6 DEF Stage8
<1> QED BY <1>12, <1>13, <1>14 DEF IInv

\* One more byte of data is written.
LEMMA SendStep == ASSUME IInv, NEW s \in Sides, Send(s) PROVE IInv'
<1> DEFINE start == IF s = "out" THEN initial + sent[s] ELSE sent[s]
           bs == Enc(wr[s], Data(s, start, start + 1))
<1>1. /\ Types /\ Errors /\ Peer(s) \in Sides /\ Peer(s) # s
      /\ In(s) = wire[Peer(s)]
      /\ initial \in Nat /\ sent["out"] \in Nat /\ sent["in"] \in Nat
  BY DEF IInv, Sides, Peer, In, Types
<1>2. /\ pc[s] = "done" /\ Exchange(s, 0, bs)
      /\ wr' = [wr EXCEPT ![s] = Past(@, 1)]
      /\ sent' = [sent EXCEPT ![s] = @ + 1]
      /\ UNCHANGED <<pc, firstRead, rd, conf, selected, err, got, r2, broken>>
  BY DEF Send
<1>3. start \in Nat /\ wr[s] \in Ciphers /\ bs \in Seq(Bytes)
  <2>1. start \in Nat /\ start + 1 \in Nat /\ start <= start + 1
    BY <1>1 DEF Sides
  <2>2. wr[s] \in Ciphers
    BY <1>1 DEF Types
  <2> HIDE DEF start
  <2>3. Data(s, start, start + 1) \in Seq(Vals)
    BY <2>1, DataFacts
  <2> QED BY <2>1, <2>2, <2>3, EncType
<1> HIDE DEF start, bs
<1>4. /\ wire' \in [Sides -> Seq(Bytes)]
      /\ wire'[Peer(s)] = wire[Peer(s)] /\ wire'[s] = wire[s] \o bs
  <2>1. 0 \in Nat
    OBVIOUS
  <2> QED BY <1>1, <1>2, <1>3, <2>1, ExchangeFacts
<1>5. /\ initial' = initial /\ provide' = provide /\ known' = known
      /\ \A i : HeaderLen(i)' = HeaderLen(i)
  BY <1>2, ConfSame
<1>6. Types'
  <2>1. wr' \in [Sides -> Ciphers] /\ sent' \in [Sides -> Nat]
    <3>1. wr \in [Sides -> Ciphers] /\ sent \in [Sides -> Nat]
      BY <1>1 DEF Types
    <3>2. Past(wr[s], 1) \in Ciphers
      BY <1>3, CipherFacts
    <3>3. sent[s] + 1 \in Nat
      BY <3>1
    <3> QED BY <1>2, <3>1, <3>2, <3>3, UpdateType
  <2> QED BY <1>1, <1>2, <1>4, <1>5, <2>1 DEF Types
<1>7. Errors'
  BY <1>1, <1>2 DEF Errors
<1>8. Taken' = Taken
  BY <1>2 DEF Taken
<1>9. CASE s = "in"
  <2> DEFINE k == sent["in"]
             m == selected["in"]
  <2>1. /\ Peer("in") = "out" /\ pc["in"] = "done" /\ start = k
        /\ sent'["in"] = k + 1 /\ sent'["out"] = sent["out"]
        /\ wr'["in"] = Past(wr["in"], 1) /\ wr'["out"] = wr["out"]
        /\ wire'["out"] = wire["out"] /\ wire'["in"] = wire["in"] \o bs
        /\ bs = Enc(wr["in"], Data("in", k, k + 1))
        /\ m \in SUBSET Methods /\ k \in Nat
    BY <1>1, <1>2, <1>4, <1>9 DEF Types, Sides, Peer, start, bs
  <2>2. Stage6 \/ Stage7 \/ Stage8
    BY <2>1, StageOf
  <2>3. InDone => InDone'
    BY <1>2, <1>5, <1>8, <2>1 DEF InDone, NoData, Acceptable
  <2>4. \A d \in FewPads :
          wr["in"] = Past(InCipher(m, d), k)
            => /\ wr'["in"] = Past(InCipher(m, d), k + 1)
               /\ \A t \in Nat : Answers(t, m, d, k) \o bs
                                    = Answers(t, m, d, k + 1)
               /\ Selects(m, d, k) \o bs = Selects(m, d, k + 1)
    <3> SUFFICES ASSUME NEW d \in FewPads, wr["in"] = Past(InCipher(m, d), k)
                 PROVE  /\ wr'["in"] = Past(InCipher(m, d), k + 1)
                        /\ \A t \in Nat : Answers(t, m, d, k) \o bs
                                             = Answers(t, m, d, k + 1)
                        /\ Selects(m, d, k) \o bs = Selects(m, d, k + 1)
      OBVIOUS
    <3> HIDE DEF m, k
    <3>1. d \in Nat /\ 0 \in Nat
      BY ConstantFacts DEF FewPads
    <3>2. bs = Enc(Past(InCipher(m, d), k), Data("in", k, k + 1))
      BY <2>1
    <3>3. ASSUME NEW t \in Nat
          PROVE  /\ Answers(t, m, d, k) \o bs = Answers(t, m, d, k + 1)
                 /\ Selects(m, d, k) \o bs = Selects(m, d, k + 1)
      <4>1. m \in SUBSET Methods /\ t \in Nat /\ d \in Nat /\ k \in Nat
        BY <2>1, <3>1
      <4> QED BY ONLY <3>2, <4>1, InSentSend
    <3>4. wr'["in"] = Past(InCipher(m, d), k + 1)
      <4>1. InCipher(m, d) \in Ciphers /\ k \in Nat /\ 1 \in Nat
        BY <2>1, <3>1, InSentFacts
      <4> QED BY <2>1, <4>1, PastPast
    <3> QED BY <3>1, <3>3, <3>4
  <2>5. ASSUME Stage6 PROVE Stage6'
    <3>1. PICK t \in Nat, d \in FewPads :
            /\ PadsLeft("out", t) /\ wire["in"] = Answers(t, m, d, k)
            /\ wr["in"] = Past(InCipher(m, d), k)
      BY <2>5 DEF Stage6
    <3>2. PadsLeft("out", t)'
      BY <1>2, <3>1 DEF PadsLeft
    <3>3. /\ wire'["in"] = Answers(t, m, d, k + 1)
          /\ wr'["in"] = Past(InCipher(m, d), k + 1)
      <4> HIDE DEF m, k
      <4> QED BY <2>1, <2>4, <3>1
    <3> QED BY <1>2, <2>1, <2>3, <2>5, <3>2, <3>3 DEF Stage6
  <2>6. ASSUME Stage7 PROVE Stage7'
    <3>1. PICK d \in FewPads :
            /\ wire["in"] = Selects(m, d, k)
            /\ wr["in"] = Past(InCipher(m, d), k)
      BY <2>6 DEF Stage7
    <3>2. /\ wire'["in"] = Selects(m, d, k + 1)
          /\ wr'["in"] = Past(InCipher(m, d), k + 1)
      <4> HIDE DEF m, k
      <4> QED BY <2>1, <2>4, <3>1
    <3> QED BY <1>2, <2>1, <2>3, <2>6, <3>2 DEF Stage7
  <2>7. ASSUME Stage8 PROVE Stage8'
    <3>1. PICK j \in 0..k :
            /\ wire["in"] = Enc(rd["out"], Data("in", j, k))
            /\ wr["in"] = Past(rd["out"], k - j)
            /\ got["out"] = Data("in", 0, j)
      BY <2>7 DEF Stage8
    <3>2. /\ wire'["in"] = Enc(rd["out"], Data("in", j, k + 1))
          /\ wr'["in"] = Past(rd["out"], (k + 1) - j)
      <4>1. /\ rd["out"] \in Ciphers /\ j \in Nat /\ k \in Nat /\ j <= k
            /\ k - j \in Nat /\ 1 \in Nat /\ (k - j) + 1 = (k + 1) - j
            /\ "in" \in Sides
        <5>1. rd["out"] \in Ciphers /\ "in" \in Sides
          BY <1>1 DEF Types, Sides
        <5>2. k \in Nat
          BY <2>1
        <5> HIDE DEF k
        <5> QED BY <5>1, <5>2
      <4>2. Past(Past(rd["out"], k - j), 1) = Past(rd["out"], (k - j) + 1)
        BY <4>1, PastPast
      <4>3. Enc(rd["out"], Data("in", j, k))
              \o Enc(Past(rd["out"], k - j), Data("in", k, k + 1))
              = Enc(rd["out"], Data("in", j, k + 1))
        <5> DEFINE c == rd["out"]
        <5>1. c \in Ciphers
          BY <4>1
        <5> HIDE DEF c, k
        <5>2. Enc(c, Data("in", j, k))
                \o Enc(Past(c, k - j), Data("in", k, k + 1))
                = Enc(c, Data("in", j, k + 1))
          <6>1. "in" \in Sides /\ j \in Nat /\ k \in Nat /\ j <= k
            BY <4>1
          <6> QED BY ONLY <5>1, <6>1, DataSend
        <5> QED BY <5>2 DEF c
      <4> HIDE DEF k
      <4> QED BY <2>1, <3>1, <4>1, <4>2, <4>3
    <3>3. j \in 0..(k + 1)
      BY <2>1
    <3> HIDE DEF k
    <3> QED BY <1>2, <1>5, <1>8, <2>1, <2>7, <3>1, <3>2, <3>3
            DEF Stage8, Acceptable
  <2> QED BY <1>6, <1>7, <2>2, <2>5, <2>6, <2>7 DEF IInv
<1>10. CASE s = "out"
  <2> DEFINE k == sent["out"]
  <2>1. /\ Peer("out") = "in" /\ pc["out"] = "done" /\ start = initial + k
        /\ sent'["out"] = k + 1 /\ sent'["in"] = sent["in"]
        /\ wr'["out"] = Past(wr["out"], 1) /\ wr'["in"] = wr["in"]
        /\ wire'["in"] = wire["in"] /\ wire'["out"] = wire["out"] \o bs
        /\ bs = Enc(wr["out"], Data("out", initial + k, initial + k + 1))
        /\ k \in Nat
    BY <1>1, <1>2, <1>4, <1>10 DEF Types, Sides, Peer, start, bs
  <2>2. Stage8
    BY <2>1, StageOf
  <2>3. PICK j \in 0..k :
          /\ wire["out"] = Enc(rd["in"], Data("out", initial + j, initial + k))
          /\ wr["out"] = Past(rd["in"], k - j)
          /\ Taken = Data("out", 0, initial + j)
    BY <2>2 DEF Stage8
  <2>4. /\ wire'["out"] = Enc(rd["in"], Data("out", initial + j,
                                               initial + (k + 1)))
        /\ wr'["out"] = Past(rd["in"], (k + 1) - j)
    <3> DEFINE c == rd["in"]
               a == initial + j
               b == initial + k
    <3>1. /\ c \in Ciphers /\ a \in Nat /\ b \in Nat /\ a <= b
          /\ b - a = k - j /\ k - j \in Nat /\ 1 \in Nat
          /\ (k - j) + 1 = (k + 1) - j /\ initial + (k + 1) = b + 1
          /\ "out" \in Sides
      <4>1. c \in Ciphers /\ "out" \in Sides
        BY <1>1 DEF Types, Sides
      <4>2. k \in Nat /\ initial \in Nat
        BY <1>1, <2>1
      <4> HIDE DEF k, c
      <4> QED BY <4>1, <4>2
    <3>2. /\ wire["out"] = Enc(c, Data("out", a, b))
          /\ bs = Enc(Past(c, b - a), Data("out", b, b + 1))
      BY <2>1, <2>3, <3>1
    <3> HIDE DEF c, a, b
    <3>3. Enc(c, Data("out", a, b))
            \o Enc(Past(c, b - a), Data("out", b, b + 1))
            = Enc(c, Data("out", a, b + 1))
      BY <3>1, DataSend
    <3>4. Past(Past(c, k - j), 1) = Past(c, (k - j) + 1)
      <4> HIDE DEF k
      <4> QED BY <3>1, PastPast
    <3>5. wire'["out"] = Enc(c, Data("out", a, b + 1))
      BY <2>1, <3>2, <3>3
    <3>6. wr'["out"] = Past(c, (k + 1) - j)
      <4>1. wr["out"] = Past(c, k - j)
        BY <2>3 DEF c
      <4> HIDE DEF k
      <4> QED BY <2>1, <3>1, <3>4, <4>1
    <3> QED BY <3>1, <3>5, <3>6 DEF a, c
  <2>5. j \in 0..(k + 1)
    BY <2>1
  <2>6. Stage8'
    <3> HIDE DEF k
    <3> QED BY <1>2, <1>5, <1>8, <2>1, <2>2, <2>3, <2>4, <2>5
            DEF Stage8, Acceptable
  <2> QED BY <1>6, <1>7, <2>6 DEF IInv
<1> QED BY <1>9, <1>10 DEF Sides

\* One byte of data is read.
LEMMA ReceiveStep == ASSUME IInv, NEW s \in Sides, Receive(s) PROVE IInv'
<1>1. /\ Types /\ Errors /\ Peer(s) \in Sides /\ Peer(s) # s
      /\ In(s) = wire[Peer(s)] /\ initial \in Nat
      /\ sent["out"] \in Nat /\ sent["in"] \in Nat
  BY DEF IInv, Sides, Peer, In, Types
<1>2. /\ pc[s] = "done"
      /\ UNCHANGED <<pc, firstRead, wr, conf, selected, err, sent, broken>>
  BY DEF Receive
<1>3. /\ initial' = initial /\ provide' = provide /\ known' = known
      /\ \A i : HeaderLen(i)' = HeaderLen(i)
  BY <1>2, ConfSame
<1>4. Errors'
  BY <1>1, <1>2 DEF Errors
<1>5. CASE s = "in" /\ r2 # <<>>
  <2>1. /\ got' = [got EXCEPT !["in"] = Append(@, Head(r2))] /\ r2' = Tail(r2)
        /\ wire' = wire /\ rd' = rd
    BY <1>5 DEF Receive
  <2>2. got["in"] \in Seq(Vals) /\ r2 \in Seq(Vals)
    BY <1>1, <1>5 DEF Types
  <2> DEFINE g == Append(got["in"], Head(r2))
  <2>3. /\ g \in Seq(Vals) /\ Tail(r2) \in Seq(Vals)
        /\ g \o Tail(r2) = got["in"] \o r2
    BY <1>5, <2>2, TakenFacts
  <2>4. got' = [got EXCEPT !["in"] = g]
    BY <2>1
  <2> HIDE DEF g
  <2>5. /\ got'["in"] = g /\ got'["out"] = got["out"]
        /\ got' \in [Sides -> Seq(Vals)]
    BY <1>1, <2>3, <2>4 DEF Types, Sides
  <2>6. Taken' = Taken
    BY <2>1, <2>3, <2>5 DEF Taken
  <2>7. Types'
    BY <1>1, <1>2, <1>3, <2>1, <2>3, <2>5 DEF Types
  <2>8. NoData' = NoData
    BY <1>2, <2>5 DEF NoData
  <2>9. InDone => InDone'
    BY <1>2, <1>3, <2>1, <2>6, <2>8 DEF InDone, Acceptable
  <2>10. Stage6 \/ Stage7 \/ Stage8
    BY <1>2, <1>5, StageOf
  <2>11. Stage6 => Stage6'
    BY <1>2, <2>1, <2>9 DEF Stage6, PadsLeft
  <2>12. Stage7 => Stage7'
    BY <1>2, <2>1, <2>9 DEF Stage7
  <2>13. Stage8 => Stage8'
    BY <1>2, <1>3, <2>1, <2>5, <2>6 DEF Stage8, Acceptable
  <2> QED BY <1>4, <2>7, <2>10, <2>11, <2>12, <2>13 DEF IInv
<1>6. CASE ~(s = "in" /\ r2 # <<>>)
  <2> DEFINE x == Dec(rd[s], In(s))[1]
  <2>1. /\ Exchange(s, 1, <<>>) /\ r2' = r2
        /\ got' = [got EXCEPT ![s] = Append(@, x)]
        /\ rd' = [rd EXCEPT ![s] = Past(@, 1)]
    BY <1>6 DEF Receive
  <2> HIDE DEF x
  <2>2. /\ wire' \in [Sides -> Seq(Bytes)] /\ Len(wire[Peer(s)]) >= 1
        /\ wire'[Peer(s)] = Drop(wire[Peer(s)], 1) /\ wire'[s] = wire[s]
    <3> DEFINE one == 1
    <3>1. one \in Nat /\ Exchange(s, one, <<>>)
      BY <2>1
    <3> HIDE DEF one
    <3>2. /\ wire' \in [Sides -> Seq(Bytes)] /\ Len(In(s)) >= one
          /\ wire'[Peer(s)] = Drop(In(s), one) /\ wire'[s] = wire[s]
      BY <1>1, <3>1, ReadFacts
    <3> QED BY <1>1, <3>2 DEF one
  <2>3. rd[s] \in Ciphers /\ Past(rd[s], 1) \in Ciphers
    <3>1. rd[s] \in Ciphers
      BY <1>1 DEF Types
    <3> QED BY <3>1, CipherFacts
  <2>4. rd' \in [Sides -> Ciphers]
    <3>1. rd \in [Sides -> Ciphers]
      BY <1>1 DEF Types
    <3> QED BY <2>1, <2>3, <3>1, UpdateType
  <2>5. Stage8
    <3>1. CASE s = "out"
      BY <1>2, <3>1, StageOf
    <3>2. CASE s = "in"
      <4>1. Peer(s) = "out"
        BY <3>2 DEF Peer
      <4>2. wire["out"] # <<>>
        BY <1>1, <2>2, <4>1
      <4> QED BY <1>2, <3>2, <4>2, StageOf DEF Stage6, Stage7, InDone
    <3> QED BY <3>1, <3>2 DEF Sides
  <2>6. ASSUME NEW p \in Sides, NEW a \in Nat, NEW b \in Nat, a <= b,
               wire[Peer(s)] = Enc(rd[s], Data(p, a, b))
        PROVE  /\ x = <<p, a + 1>> /\ a < b
               /\ wire'[Peer(s)] = Enc(Past(rd[s], 1), Data(p, a + 1, b))
    <3>1. a < b
      <4>1. CASE a = b
        <5>1. Enc(rd[s], Data(p, a, b)) = <<>>
          BY <2>3, <4>1, DataAppend
        <5> QED BY <2>2, <2>6, <5>1
      <4> QED BY <2>6, <4>1
    <3> DEFINE c == rd[s]
    <3>2. c \in Ciphers
      BY <2>3
    <3>3. wire[Peer(s)] = Enc(c, Data(p, a, b))
      BY <2>6
    <3>4. x = Dec(c, wire[Peer(s)])[1]
      BY <1>1 DEF x
    <3> HIDE DEF c
    <3>5. /\ Dec(c, Enc(c, Data(p, a, b)))[1] = <<p, a + 1>>
          /\ Drop(Enc(c, Data(p, a, b)), 1)
               = Enc(Past(c, 1), Data(p, a + 1, b))
      BY <3>1, <3>2, DataReceive
    <3> QED BY <2>2, <3>1, <3>3, <3>4, <3>5 DEF c
  <2>7. CASE s = "in"
    <3> DEFINE k == sent["out"]
    <3>1. PICK i \in 0..k :
            /\ wire["out"] = Enc(rd["in"], Data("out", initial + i,
                                                       initial + k))
            /\ wr["out"] = Past(rd["in"], k - i)
            /\ Taken = Data("out", 0, initial + i)
      BY <2>5 DEF Stage8
    <3>2. /\ k \in Nat /\ r2 = <<>> /\ Peer(s) = "out" /\ "out" \in Sides
          /\ wire'["in"] = wire["in"]
      BY <1>1, <1>6, <2>2, <2>7 DEF Peer, Sides
    <3> DEFINE a == initial + i
               b == initial + k
    <3>3. a \in Nat /\ b \in Nat /\ a <= b
      <4> HIDE DEF k
      <4> QED BY <1>1, <3>2
    <3>4. wire[Peer(s)] = Enc(rd[s], Data("out", a, b))
      BY <2>7, <3>1, <3>2
    <3> HIDE DEF a, b
    <3>5. /\ x = <<"out", a + 1>> /\ a < b
          /\ wire'[Peer(s)] = Enc(Past(rd[s], 1), Data("out", a + 1, b))
      BY <2>6, <3>2, <3>3, <3>4
    <3>6. i + 1 \in 0..k /\ a + 1 = initial + (i + 1) /\ k - i \in Nat
          /\ k - (i + 1) \in Nat /\ 1 + (k - (i + 1)) = k - i
      <4>1. i < k
        BY <1>1, <3>2, <3>5 DEF a, b
      <4> HIDE DEF k
      <4> QED BY <1>1, <3>2, <4>1 DEF a
    <3>7. got["in"] = Data("out", 0, a) /\ got["in"] \in Seq(Vals)
      <4>1. got["in"] \in Seq(Vals)
        BY <1>1, <2>7 DEF Types
      <4>2. got["in"] \o <<>> = got["in"]
        BY <4>1, DropFacts
      <4> QED BY <3>1, <3>2, <4>1, <4>2 DEF Taken, a
    <3>8. /\ got' = [got EXCEPT !["in"] = Data("out", 0, a + 1)]
          /\ Data("out", 0, a + 1) \in Seq(Vals)
      <4>1. Append(Data("out", 0, a), <<"out", a + 1>>) = Data("out", 0, a + 1)
        BY <3>2, <3>3, DataAppend
      <4>2. Data("out", 0, a + 1) \in Seq(Vals)
        <5>1. 0 \in Nat /\ a + 1 \in Nat /\ 0 <= a + 1
          BY <3>3
        <5> QED BY <3>2, <5>1, DataFacts
      <4> QED BY <2>1, <2>7, <3>5, <3>7, <4>1, <4>2
    <3>9. /\ got'["in"] = Data("out", 0, a + 1) /\ got'["out"] = got["out"]
          /\ got' \in [Sides -> Seq(Vals)]
      <4>1. got \in [Sides -> Seq(Vals)] /\ "in" \in Sides /\ "out" \in Sides
        BY <1>1 DEF Types, Sides
      <4> QED BY <3>8, <4>1, UpdateType
    <3>10. Taken' = Data("out", 0, a + 1)
      <4>1. Data("out", 0, a + 1) \o <<>> = Data("out", 0, a + 1)
        BY <3>8, DropFacts
      <4> QED BY <2>1, <3>2, <3>9, <4>1 DEF Taken
    <3>11. Types'
      BY <1>1, <1>2, <1>3, <2>1, <2>2, <2>4, <3>9 DEF Types
    <3>12. /\ rd'["in"] = Past(rd["in"], 1) /\ rd'["out"] = rd["out"]
      BY <1>1, <2>1, <2>7 DEF Types, Sides
    <3>13. wr["out"] = Past(rd'["in"], k - (i + 1))
      <4> DEFINE c == rd["in"]
                 n == k - (i + 1)
      <4>1. c \in Ciphers /\ n \in Nat /\ 1 \in Nat
        BY <2>3, <2>7, <3>6
      <4>2. 1 + n = k - i
        BY <3>6
      <4> HIDE DEF c, n
      <4>3. Past(Past(c, 1), n) = Past(c, 1 + n)
        BY <4>1, PastPast
      <4>4. wr["out"] = Past(c, 1 + n)
        <5>1. wr["out"] = Past(c, k - i)
          BY <3>1 DEF c
        <5> QED BY <4>2, <5>1
      <4> QED BY <3>12, <4>3, <4>4 DEF c, n
    <3>14. wire'["out"] = Enc(rd'["in"], Data("out", initial + (i + 1),
                                                      initial + k))
      BY <2>7, <3>2, <3>5, <3>6, <3>12 DEF b
    <3>15. Taken' = Data("out", 0, initial + (i + 1))
      BY <3>6, <3>10
    <3>16. Stage8'
      <4> DEFINE j == i + 1
      <4>1. /\ j \in 0..k
            /\ wire'["out"] = Enc(rd'["in"], Data("out", initial + j,
                                                         initial + k))
            /\ wr["out"] = Past(rd'["in"], k - j)
            /\ Taken' = Data("out", 0, initial + j)
        BY <3>6, <3>13, <3>14, <3>15
      <4> HIDE DEF j
      <4> QED BY <1>2, <1>3, <2>5, <3>2, <3>9, <3>12, <4>1
              DEF Stage8, Acceptable
    <3> QED BY <1>4, <3>11, <3>16 DEF IInv
  <2>8. CASE s = "out"
    <3> DEFINE k == sent["in"]
    <3>1. PICK a \in 0..k :
            /\ wire["in"] = Enc(rd["out"], Data("in", a, k))
            /\ wr["in"] = Past(rd["out"], k - a)
            /\ got["out"] = Data("in", 0, a)
      BY <2>5 DEF Stage8
    <3>2. /\ k \in Nat /\ Peer(s) = "in" /\ "in" \in Sides /\ "out" \in Sides
          /\ wire'["out"] = wire["out"]
      BY <1>1, <2>2, <2>8 DEF Peer, Sides
    <3>3. a \in Nat /\ a <= k
      <4> HIDE DEF k
      <4> QED BY <3>2
    <3>4. wire[Peer(s)] = Enc(rd[s], Data("in", a, k))
      BY <2>8, <3>1, <3>2
    <3>5. /\ x = <<"in", a + 1>> /\ a < k
          /\ wire'["in"] = Enc(Past(rd["out"], 1), Data("in", a + 1, k))
      <4>1. /\ x = <<"in", a + 1>> /\ a < k
            /\ wire'[Peer(s)] = Enc(Past(rd[s], 1), Data("in", a + 1, k))
        <5> HIDE DEF k
        <5> QED BY <2>6, <3>2, <3>3, <3>4
      <4> QED BY <2>8, <3>2, <4>1
    <3>6. a + 1 \in 0..k /\ k - a \in Nat
          /\ k - (a + 1) \in Nat /\ 1 + (k - (a + 1)) = k - a
      <4> HIDE DEF k
      <4> QED BY <3>2, <3>3, <3>5
    <3>7. /\ got' = [got EXCEPT !["out"] = Data("in", 0, a + 1)]
          /\ Data("in", 0, a + 1) \in Seq(Vals)
      <4>1. Append(Data("in", 0, a), <<"in", a + 1>>) = Data("in", 0, a + 1)
        BY <3>2, <3>3, DataAppend
      <4>2. Data("in", 0, a + 1) \in Seq(Vals)
        <5>1. 0 \in Nat /\ a + 1 \in Nat /\ 0 <= a + 1
          BY <3>3
        <5> QED BY <3>2, <5>1, DataFacts
      <4> QED BY <2>1, <2>8, <3>1, <3>5, <4>1, <4>2
    <3>8. /\ got'["out"] = Data("in", 0, a + 1) /\ got'["in"] = got["in"]
          /\ got' \in [Sides -> Seq(Vals)]
      <4>1. got \in [Sides -> Seq(Vals)] /\ "in" \in Sides /\ "out" \in Sides
        BY <1>1 DEF Types, Sides
      <4> QED BY <3>7, <4>1, UpdateType
    <3>9. Taken' = Taken
      BY <2>1, <3>8 DEF Taken
    <3>10. Types'
      BY <1>1, <1>2, <1>3, <2>1, <2>2, <2>4, <3>8 DEF Types
    <3>11. /\ rd'["out"] = Past(rd["out"], 1) /\ rd'["in"] = rd["in"]
      BY <1>1, <2>1, <2>8 DEF Types, Sides
    <3>12. wr["in"] = Past(rd'["out"], k - (a + 1))
      <4> DEFINE c == rd["out"]
                 n == k - (a + 1)
      <4>1. c \in Ciphers /\ n \in Nat /\ 1 \in Nat
        BY <2>3, <2>8, <3>6
      <4>2. 1 + n = k - a
        BY <3>6
      <4> HIDE DEF c, n
      <4>3. Past(Past(c, 1), n) = Past(c, 1 + n)
        BY <4>1, PastPast
      <4>4. wr["in"] = Past(c, 1 + n)
        <5>1. wr["in"] = Past(c, k - a)
          BY <3>1 DEF c
        <5> QED BY <4>2, <5>1
      <4> QED BY <3>11, <4>3, <4>4 DEF c, n
    <3>13. Stage8'
      <4> DEFINE j == a + 1
      <4>1. /\ j \in 0..k
            /\ wire'["in"] = Enc(rd'["out"], Data("in", j, k))
            /\ wr["in"] = Past(rd'["out"], k - j)
            /\ got'["out"] = Data("in", 0, j)
        BY <3>5, <3>6, <3>8, <3>11, <3>12
      <4> HIDE DEF j
      <4> QED BY <1>2, <1>3, <2>5, <3>2, <3>9, <3>11, <4>1
              DEF Stage8, Acceptable
    <3> QED BY <1>4, <3>10, <3>13 DEF IInv
  <2> QED BY <2>7, <2>8 DEF Sides
<1> QED BY <1>5, <1>6

\* Every step keeps the invariant.
LEMMA NextStep == IInv /\ [Next]_vars => IInv'
<1> SUFFICES ASSUME IInv, [Next]_vars PROVE IInv'
  OBVIOUS
<1>1. CASE UNCHANGED vars
  <2>1. broken' \in BOOLEAN
    BY <1>1 DEF vars, IInv, Types
  <2> QED BY <1>1, <2>1, StutterKeeps DEF vars
<1>2. CASE Break
  <2>1. broken' \in BOOLEAN
    BY <1>2, Zenon DEF Break
  <2> QED BY <1>2, <2>1, StutterKeeps DEF Break
<1>3. ASSUME NEW s \in Sides, IoError(s) PROVE IInv'
  <2>1. /\ Fail(s, pc[s], "io") /\ pc[s] # "done"
        /\ "io" \in IF s = "out" THEN {"arguments", "io"}
                    ELSE {"skey", "selection", "io"}
    BY <1>3 DEF IoError
  <2> QED BY <2>1, FailKeeps
<1>4. ASSUME NEW s \in Sides, Handshake(s) PROVE IInv'
  BY <1>3, <1>4, OutStartStep, OutReadKeyStep, OutSyncStep, OutFinishStep,
     InReadKeyStep, InSyncStep, InSelectStep, InFinishStep DEF Handshake
<1>5. ASSUME NEW s \in Sides, Send(s) \/ Receive(s) PROVE IInv'
  BY <1>5, SendStep, ReceiveStep
<1> QED BY <1>1, <1>2, <1>4, <1>5 DEF Next

\* So it always holds.
LEMMA Invariance == Spec => []IInv
BY InitInv, NextStep, PTL DEF Spec
-----------------------------------------------------------------------------
(* What the stages promise                                                 *)

\* The front of the data that was written.
LEMMA DataPrefix ==
  ASSUME NEW s \in Sides, NEW a \in Nat, NEW b \in Nat, a <= b
  PROVE  IsPrefix(Data(s, 0, a), Data(s, 0, b))
<1> DEFINE u == Data(s, 0, a)
           v == Data(s, a, b)
           w == Data(s, 0, b)
<1>1. 0 \in Nat /\ 0 <= a /\ 0 <= b /\ a - 0 = a /\ b - 0 = b
  OBVIOUS
<1>2. u \in Seq(Vals) /\ Len(u) = a /\ w \in Seq(Vals) /\ Len(w) = b
  BY <1>1, DataFacts
<1>3. v \in Seq(Vals) /\ w = u \o v
  BY <1>1, DataFacts, DataConcat
<1> HIDE DEF u, v, w
<1>4. SubSeq(u \o v, 1, a) = SubSeq(u, 1, a)
  <2>1. u \in Seq(Vals) /\ v \in Seq(Vals) /\ a \in 0..Len(u)
    BY <1>2, <1>3
  <2> QED BY ONLY <2>1, TakeFirst
<1> QED BY <1>2, <1>3, <1>4 DEF IsPrefix, u, w

\* The invariant has the types of the model.
LEMMA TypesHold == IInv => TypeOK
<1> SUFFICES ASSUME IInv PROVE TypeOK
  OBVIOUS
<1>1. r2 # <<>> => pc["in"] = "done"
  BY DEF IInv, Stage0, Stage1, Stage2, Stage3, Stage4, Stage5, Stage6, Stage7,
         Stage8, NoDataYet, InDone
<1>2. ASSUME NEW s \in Sides
      PROVE  /\ rd[s].key \in {"raw", "keyA", "keyB"}
             /\ wr[s].key \in {"raw", "keyA", "keyB"}
             /\ selected[s] \subseteq Methods
  BY DEF IInv, Types, Ciphers
<1>3. ASSUME NEW s \in Sides PROVE (pc[s] = "failed") = (err[s] # "none")
  BY Zenon DEF IInv, Errors
<1> QED BY <1>1, <1>2, <1>3 DEF IInv, Types, TypeOK

\* No stage has an end that failed to decrypt.
LEMMA NothingIsGarbled == IInv => NothingGarbled
BY DEF IInv, Errors, NothingGarbled, Sides

\* In every stage what was read is the front of what was written.
LEMMA PayloadStays == IInv => PayloadIntact
<1> SUFFICES ASSUME IInv PROVE PayloadIntact
  OBVIOUS
<1>1. /\ "out" \in Sides /\ "in" \in Sides /\ initial \in Nat
      /\ sent["out"] \in Nat /\ sent["in"] \in Nat
      /\ initial + sent["out"] \in Nat
  BY DEF IInv, Types, Sides
<1>2. \E a \in Nat : a <= initial + sent["out"] /\ Taken = Data("out", 0, a)
  <2>1. CASE \/ Stage0 \/ Stage1 \/ Stage2 \/ Stage3 \/ Stage4 \/ Stage5
    <3>1. got["in"] = <<>> /\ r2 = <<>>
      BY <2>1 DEF Stage0, Stage1, Stage2, Stage3, Stage4, Stage5, NoDataYet
    <3>2. Data("out", 0, 0) = <<>> /\ 0 \in Nat
      BY <1>1, DataAppend
    <3>3. Taken = <<>>
      BY <3>1 DEF Taken
    <3> QED BY <1>1, <3>2, <3>3
  <2>2. CASE Stage6 \/ Stage7
    BY <1>1, <2>2 DEF Stage6, Stage7, InDone
  <2>3. CASE Stage8
    <3>1. PICK k \in 0..sent["out"] : Taken = Data("out", 0, initial + k)
      BY <2>3 DEF Stage8
    <3>2. initial + k \in Nat /\ initial + k <= initial + sent["out"]
      BY <1>1
    <3> QED BY <3>1, <3>2
  <2> QED BY <2>1, <2>2, <2>3 DEF IInv
<1>3. \E b \in Nat : b <= sent["in"] /\ got["out"] = Data("in", 0, b)
  <2>1. CASE Stage8
    <3>1. PICK j \in 0..sent["in"] : got["out"] = Data("in", 0, j)
      BY <2>1 DEF Stage8
    <3>2. j \in Nat /\ j <= sent["in"]
      BY <1>1
    <3> QED BY <3>1, <3>2
  <2>2. CASE ~Stage8
    <3>1. got["out"] = <<>>
      BY <2>2 DEF IInv, Stage0, Stage1, Stage2, Stage3, Stage4, Stage5,
                  Stage6, Stage7, InDone, NoDataYet, NoData
    <3>2. Data("in", 0, 0) = <<>> /\ 0 \in Nat /\ 0 <= sent["in"]
      BY <1>1, DataAppend
    <3> QED BY <3>1, <3>2
  <2> QED BY <2>1, <2>2
<1> DEFINE n == initial + sent["out"]
           k == sent["in"]
<1> HIDE DEF n, k
<1>4. IsPrefix(Taken, Data("out", 0, n))
  BY <1>1, <1>2, DataPrefix DEF n
<1>5. IsPrefix(got["out"], Data("in", 0, k))
  BY <1>1, <1>3, DataPrefix DEF k
<1> QED BY <1>4, <1>5 DEF PayloadIntact, Taken, n, k

\* The outgoing end is done in the last stage only.
LEMMA SuccessMeansBoth == IInv => SuccessIsMutual
<1> SUFFICES ASSUME IInv, pc["out"] = "done"
             PROVE  /\ pc["in"] = "done" /\ selected["in"] = selected["out"]
                    /\ \E m \in provide : selected["out"] = {m}
  BY DEF SuccessIsMutual
<1>1. /\ Stage8 /\ selected["in"] \in SUBSET Methods
  BY StageOf DEF IInv, Types, Sides
<1>2. /\ pc["in"] = "done" /\ selected["in"] = selected["out"]
      /\ Cardinality(selected["in"]) = 1 /\ selected["in"] \cap provide # {}
  BY <1>1 DEF Stage8, Acceptable, PowerOfTwo
<1>3. IsFiniteSet(selected["in"])
  BY <1>1, ConstantFacts, FS_Subset
<1>4. PICK m : selected["in"] = {m}
  BY <1>2, <1>3, FS_Singleton
<1> QED BY <1>2, <1>4

\* However long the pads and the first reads, readSync never gives up before
\* it reaches the key it looks for (mse.go:417-442).
THEOREM SynchronisationIsFound == Spec => []SyncAlwaysFound
<1>1. IInv => SyncAlwaysFound
  BY DEF IInv, Errors, SyncAlwaysFound, Sides
<1> QED BY <1>1, Invariance, PTL

\* The two ends agree on the method, on the place in the key streams and on
\* every byte of the payload, whatever fails (mse.go:104-385).
THEOREM HandshakesStayInStep == Spec => []HandshakesAgree
<1>1. IInv => HandshakesAgree
  BY TypesHold, NothingIsGarbled, PayloadStays, SuccessMeansBoth
     DEF HandshakesAgree
<1> QED BY <1>1, Invariance, PTL
=============================================================================
