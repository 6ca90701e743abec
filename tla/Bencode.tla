------------------------------ MODULE Bencode ------------------------------
(***************************************************************************)
(* pkg/bencode: reading into typed targets, on top of the readers of       *)
(* BencodeReaders, and the encoder.                                        *)
(*                                                                         *)
(* Values that are typed are also <<"bool", b>>, <<"raw", bytes>>,         *)
(* <<"struct", values in field order>> or <<"nil">>.  A type is            *)
(* <<kind, ...>>.                                                          *)
(*                                                                         *)
(* The state machine feeds the reader: strings grown byte by byte, and the *)
(* encodings of a set of values with a few bytes damaged.                  *)
(***************************************************************************)
EXTENDS BencodeReaders

CONSTANTS
  NarrowMax,  \* largest value of the narrow integer types
  Bytes,      \* the bytes that inputs are grown from and damaged with
  MaxLen,     \* bound: length of a grown input
  MaxEdits    \* bound: bytes damaged in an encoding

ASSUME BencodeAssumption ==
  /\ {NarrowMax, MaxLen, MaxEdits} \subseteq Nat
  /\ NarrowMax <= WordMax

VARIABLES input, origin, edits
bytesVars == <<input, origin, edits>>

(* --- parseValue: typed targets ----------------------------------------- *)

\* What a fresh target holds: slices, maps and raw values are nil.
RECURSIVE Zero(_)
Zero(T) == CASE T[1] = "int" \/ T[1] = "uint" -> <<"int", 0>>
             [] T[1] = "bool" -> <<"bool", FALSE>>
             [] T[1] = "str" -> <<"str", <<>>>>
             [] T[1] = "struct" ->
                  <<"struct", [f \in 1..Len(T[2]) |-> Zero(T[2][f].type)]>>
             [] OTHER -> Nil

\* OverflowInt and OverflowUint of a type with this largest value
OverflowsNever(T, n) == FALSE
Overflows(T, n) == n > T[2] \/ (T[1] = "int" /\ n < -T[2] - 1)

\* parseInt; a bool takes any text but "0".
ParseInt(T, s, i) ==
  LET j == Until(s, i, "e")
      t == SubSeq(s, i, j - 1)
      signed == T[1] = "int"
      n == Number(t)
      max == IF signed THEN WordMax ELSE 2 * WordMax + 1
      min == IF signed THEN -max - 1 ELSE 0
  IN  IF j = 0 \/ ~Leading(t) THEN Err
      ELSE IF T[1] \in {"int", "uint"}
      THEN IF ~IsNumeral(t) \/ (~signed /\ t[1] = "-") THEN Err
           ELSE IF n > max \/ n < min THEN Err
           ELSE IF Overflows(T, n) THEN TypeErr(Zero(T), j + 1)
           ELSE Ok(<<"int", n>>, j + 1)
      ELSE IF T[1] = "bool" THEN Ok(<<"bool", t # <<"0">>>>, j + 1)
      ELSE TypeErr(Zero(T), j + 1)

\* parseString; strconv.ParseBool, and any other non-empty text is true.
ParseStringUnread(T, s, i) ==
  IF T[1] \in {"str", "bytes"} THEN Text(s, i) ELSE TypeErr(Zero(T), i)
ParseString(T, s, i) ==
  LET r == Text(s, i)
      b == r.v[2]
  IN  IF r.st # "ok" THEN r
      ELSE IF T[1] \in {"str", "bytes"} THEN r
      ELSE IF T[1] = "bool" THEN Ok(<<"bool", b \notin {<<>>, <<"0">>}>>, r.i)
      ELSE TypeErr(Zero(T), r.i)

\* getStructFieldForKey: the field of a struct with a key, 0 if none has it.
FieldOf(T, key) ==
  IF \E f \in 1..Len(T[2]) : T[2][f].key = key
  THEN CHOOSE f \in 1..Len(T[2]) : T[2][f].key = key ELSE 0

\* A map keeps one value per key, the last one read.
SetKey(d, key, v) ==
  SetToSortSeq({p \in ToSet(d) : p[1] # key} \cup {<<key, v>>},
               LAMBDA p, q : Less(p[1], q[1]))

\* parseUnmarshaler: the bytes of the value that the skipper found.
AsRaw(s, i, one) ==
  IF one.st = "ok" THEN Ok(<<"raw", SubSeq(s, i, one.i - 1)>>, one.i) ELSE one

\* What is read into interface{} is kept or, under a key that no field has,
\* dropped.  reflect.ValueOf(nil) is the zero Value, which Set refuses.
AsInterface(T, any) ==
  IF T[1] = "iface" /\ any.st = "end" THEN Panic ELSE any

RECURSIVE Typed(_, _, _), List(_, _, _, _), Dict(_, _, _, _)
Typed(T, s, i) ==
  LET shut == i <= Len(s) /\ s[i] = "e"
  IN  IF T[1] = "raw" /\ ~shut THEN AsRaw(s, i, One(s, i))
      ELSE IF T[1] \in {"iface", "dropped"} THEN AsInterface(T, Generic(s, i))
      ELSE IF i > Len(s) THEN Err
      ELSE CASE s[i] = "e" -> End(i + 1)
             [] s[i] = "d" -> Dict(T, s, i + 1, Zero(T))
             [] s[i] = "i" -> ParseInt(T, s, i + 1)
             [] s[i] \in Digit -> ParseString(T, s, i)
             [] s[i] = "l" /\ T[1] = "slice" -> List(T[2], s, i + 1, <<>>)
             [] s[i] = "l" /\ T[1] = "bytes" ->
                  List(<<"uint", 255>>, s, i + 1, <<>>)
             [] s[i] = "l" /\ T[1] \notin {"slice", "bytes"} ->
                  \* a list of exactly one element stands for the element
                  LET r == List(T, s, i + 1, <<>>)
                  IN  IF r.st = "ok"
                      THEN IF Len(r.v[2]) = 1 THEN Ok(r.v[2][1], r.i)
                           ELSE TypeErr(Zero(T), r.i)
                      ELSE [r EXCEPT !.v = Zero(T)]
             [] OTHER -> Err
\* parseList, the elements of a slice
List(E, s, i, l) ==
  LET r == Typed(E, s, i)
  IN  CASE r.st = "ok" -> List(E, s, r.i, Append(l, r.v))
        [] r.st = "end" -> Ok(<<"list", l>>, r.i)
        [] OTHER -> [r EXCEPT !.v = <<"list", Append(l, r.v)>>]
\* parseDict: a map, or a struct whose unknown keys are read and dropped; no
\* order and no uniqueness of keys is asked for.
Dict(T, s, i, acc) ==
  LET k == Typed(<<"str">>, s, i)
      key == k.v[2]
      f == IF T[1] = "struct" THEN FieldOf(T, key) ELSE 0
      E == CASE T[1] = "map" -> T[2]
             [] f > 0 -> T[2][f].type
             [] OTHER -> <<"dropped">>
      e == Typed(E, s, k.i)
      next == CASE T[1] = "map" ->
                     <<"dict", SetKey(IF acc = Nil THEN <<>> ELSE acc[2],
                                      key, e.v)>>
                [] f > 0 -> <<"struct", [acc[2] EXCEPT ![f] = e.v]>>
                [] OTHER -> acc
  IN  CASE T[1] \notin {"map", "struct"} -> Err
        [] T[1] \in {"map", "struct"} /\ k.st = "end" -> Ok(acc, k.i)
        [] T[1] \in {"map", "struct"} /\ k.st \notin {"ok", "end"} -> k
        [] OTHER ->
             IF e.st = "end" THEN Err
             ELSE IF e.st = "ok" \/ (e.st = "type" /\ f > 0 /\ T[2][f].ignore)
             THEN Dict(T, s, e.i, next)
             ELSE [e EXCEPT !.v = acc]

\* Unmarshal: the whole input is one value.
Whole(r, s) ==
  IF r.st = "end" \/ (r.st = "ok" /\ r.i # Len(s) + 1) THEN Err ELSE r
Unmarshal(T, s) == Whole(Typed(T, s, 1), s)

(* --- Encoder ----------------------------------------------------------- *)

BoolInt(b) == IF b THEN 1 ELSE 0

\* isEmptyValue: a slice or a map is empty only when it is nil.
Empty(T, v) == v = Nil \/ (T[1] \notin {"slice", "map"} /\ v = Zero(T))

\* makeEncodeFields: Less compares a tag with itself, so sort.Sort finds the
\* fields in order as they are declared.  (Embedded structs, which nothing in
\* the repository encodes, are left out here and in FieldOf.)
FieldOrder(fields) == fields
Elem(T) == IF T[1] \in {"slice", "map"} THEN T[2] ELSE <<"iface">>

\* encodeValue.  Raw values are byte slices like any other: nothing calls
\* MarshalBencode.
RECURSIVE Encode(_, _)
Encode(T, v) ==
  LET Field(f) == IF f.omit /\ Empty(f.type, v[2][FieldOf(T, f.key)]) THEN <<>>
                  ELSE EncodeString(f.key)
                       \o Encode(f.type, v[2][FieldOf(T, f.key)])
      Pair(p) == EncodeString(p[1]) \o Encode(Elem(T), p[2])
      parts == CASE v[1] = "list" ->
                      [k \in 1..Len(v[2]) |-> Encode(Elem(T), v[2][k])]
                 [] v[1] = "dict" -> [k \in 1..Len(v[2]) |-> Pair(v[2][k])]
                 [] v[1] = "struct" ->
                      [k \in 1..Len(T[2]) |-> Field(FieldOrder(T[2])[k])]
                 [] OTHER -> <<>>
  IN  CASE v[1] = "bool" -> EncodeInt(BoolInt(v[2]))
        [] v[1] = "int" -> EncodeInt(v[2])
        [] v[1] \in {"str", "raw"} -> EncodeString(v[2])
        [] v = Nil /\ T[1] \in {"bytes", "raw"} -> EncodeString(<<>>)
        [] v[1] = "list" \/ (v = Nil /\ T[1] = "slice") ->
             <<"l">> \o FlattenSeq(parts) \o <<"e">>
        [] OTHER -> <<"d">> \o FlattenSeq(parts) \o <<"e">>
Marshal(v) == Encode(<<"iface">>, v)

(* --- inputs ------------------------------------------------------------ *)

Field(k, T, ignore, omit) ==
  [key |-> k, type |-> T, ignore |-> ignore, omit |-> omit]
Str == <<"str">>
Narrow == <<"int", NarrowMax>>
\* The shape of an info dictionary, and of MetaInfo with its raw info and a
\* creation date whose type errors are ignored.
InfoType == <<"struct", <<Field(<<"d">>, <<"uint", WordMax>>, FALSE, FALSE),
                          Field(<<"i">>, <<"bool">>, FALSE, TRUE),
                          Field(<<"l">>, <<"slice", Str>>, FALSE, TRUE)>>>>
MetaType == <<"struct", <<Field(<<"i">>, <<"raw">>, FALSE, TRUE),
                          Field(<<"d">>, Narrow, TRUE, TRUE)>>>>
Plain == {Narrow, <<"uint", WordMax>>, <<"bool">>, Str, <<"slice", Narrow>>,
          <<"slice", <<"slice", Str>>>>, <<"map", Narrow>>, InfoType}
Targets == Plain \cup {<<"bytes">>, <<"raw">>, <<"slice", <<"raw">>>>}

I(n) == <<"int", n>>
S(b) == <<"str", b>>
L(l) == <<"list", l>>
D(d) == <<"dict", d>>
Values ==
  LET x == <<"i">>
      y == <<"d">>
      z == <<"l">>
  IN  {I(0), I(-1), I(12), S(<<>>), S(<<"1">>), S(<<"e", ":">>), L(<<>>),
       L(<<I(0), I(2)>>), L(<<S(x)>>), L(<<S(y), I(1)>>), L(<<L(<<S(x)>>)>>),
       D(<<>>), D(<<<<x, I(1)>>>>), D(<<<<y, I(1)>>, <<x, S(<<>>)>>>>),
       D(<<<<y, S(x)>>, <<x, I(0)>>>>),
       D(<<<<y, L(<<S(<<>>)>>)>>, <<x, I(0)>>>>),
       D(<<<<x, I(1)>>, <<z, L(<<S(<<>>)>>)>>>>), L(<<D(<<<<x, I(2)>>>>)>>)}

None == <<"none">>
BytesInit ==
  /\ edits = 0
  /\ \/ input = <<>> /\ origin = None
     \/ origin \in Values /\ input = Marshal(origin)

Grow == /\ origin = None /\ Len(input) < MaxLen
        /\ \E c \in Bytes : input' = Append(input, c)
        /\ UNCHANGED <<origin, edits>>

\* A byte is lost, changed or added on the way.
Damage ==
  /\ origin # None /\ edits < MaxEdits
  /\ \/ \E k \in 1..Len(input) : input' = RemoveAt(input, k)
     \/ \E k \in 1..Len(input), c \in Bytes :
          c # input[k] /\ input' = ReplaceAt(input, k, c)
     \/ \E k \in 1..(Len(input) + 1), c \in Bytes :
          input' = InsertAt(input, k, c)
  /\ edits' = edits + 1
  /\ UNCHANGED origin

BytesNext == Grow \/ Damage

(* --- properties -------------------------------------------------------- *)

Read == Unmarshal(<<"iface">>, input)

\* What the encoder wrote the decoder reads back as the same value.
OwnEncodingDecodes ==
  origin # None /\ edits = 0 => Read = Ok(origin, Len(input) + 1)

\* A value has one encoding: whatever the decoder accepts into interface{} the
\* encoder writes back byte for byte.
Canonical == \A r \in {Read} : r.st = "ok" => Marshal(r.v) = input

\* The skipper that cuts a raw value out of the stream takes exactly the
\* bytes the decoder would, wherever the value starts.
RawSameExtent == SameExtent(input)

\* The reference for typed targets: the values of T that a decoded value
\* stands for, none or one.
RECURSIVE Convert(_, _)
Convert(T, v) ==
  LET All(E, vs) == \A k \in 1..Len(vs) : Convert(E, vs[k]) # {}
      The(E, w) == CHOOSE x \in Convert(E, w) : TRUE
      Value(f) == {v[2][k][2] : k \in {j \in 1..Len(v[2]) :
                                        v[2][j][1] = f.key}}
      E == IF T[1] = "bytes" THEN <<"uint", 255>> ELSE Elem(T)
  IN  CASE T[1] = "iface" -> {v}
        [] T[1] = "raw" -> {<<"raw", Marshal(v)>>}
        [] T[1] # "raw" /\ v[1] = "list" ->
             IF T[1] \in {"slice", "bytes"}
             THEN IF All(E, v[2])
                  THEN {L([k \in 1..Len(v[2]) |-> The(E, v[2][k])])} ELSE {}
             ELSE IF Len(v[2]) = 1 THEN Convert(T, v[2][1]) ELSE {}
        [] T[1] # "raw" /\ v[1] = "int" ->
             CASE T[1] = "int" ->
                    IF v[2] \in (-T[2] - 1)..T[2] THEN {v} ELSE {}
               [] T[1] = "uint" -> IF v[2] \in 0..T[2] THEN {v} ELSE {}
               [] T[1] = "bool" -> {<<"bool", v[2] # 0>>}
               [] OTHER -> {}
        [] T[1] # "raw" /\ v[1] = "str" ->
             CASE T[1] \in {"str", "bytes"} -> {v}
               [] T[1] = "bool" -> {<<"bool", v[2] \notin {<<>>, <<"0">>}>>}
               [] OTHER -> {}
        [] T[1] # "raw" /\ v[1] = "dict" ->
             CASE T[1] = "map" ->
                    IF \A p \in ToSet(v[2]) : Convert(E, p[2]) # {}
                    THEN {IF v[2] = <<>> THEN Nil
                          ELSE D([k \in 1..Len(v[2]) |->
                                  <<v[2][k][1], The(E, v[2][k][2])>>])}
                    ELSE {}
               [] T[1] = "struct" ->
                    IF \A f \in ToSet(T[2]), w \in UNION {Value(g) :
                         g \in ToSet(T[2])} :
                         w \in Value(f) => Convert(f.type, w) # {}
                    THEN {<<"struct", [k \in 1..Len(T[2]) |->
                            LET f == T[2][k]
                            IN  IF Value(f) = {} THEN Zero(f.type)
                                ELSE The(f.type, CHOOSE w \in Value(f) : TRUE)
                          ]>>}
                    ELSE {}
               [] OTHER -> {}

\* Decoding into a type gives what the value decoded into interface{} stands
\* for in that type, and fails when it stands for nothing: the stream is never
\* left in the middle of a value.
TypedAgrees(read) ==
  \A T \in Targets :
    \A r \in {Unmarshal(T, input)}, c \in {Convert(T, read)} :
      (r.st = "ok") = (c # {}) /\ (r.st = "ok" => {r.v} = c)

\* What was decoded into a type is written and decoded again as itself, up to
\* the difference between nil and empty.
TypedRoundTrip ==
  \A T \in Plain : \A r \in {Unmarshal(T, input)} :
    r.st = "ok" =>
      \A written \in {Encode(T, r.v)} : \A again \in {Unmarshal(T, written)} :
        again.st = "ok" /\ Encode(T, again.v) = written

\* A MetaInfo whose creation date has one of these kinds is read, and its info
\* field is the one that was written.
OthersKept(read, kinds) ==
  read[1] = "dict" =>
    \A p \in ToSet(read[2]), q \in ToSet(read[2]) :
      /\ p[1] = <<"d">> /\ p[2][1] \in kinds /\ q[1] = <<"i">>
      /\ p[2][1] = "int" => p[2][2] \in (-WordMax - 1)..WordMax
      =>
        \A r \in {Unmarshal(MetaType, input)} :
          r.st = "ok" /\ r.v[2][1] = <<"raw", Marshal(q[2])>>

\* A creation date that is a string, or an integer too large for its field, is
\* ignored and the other fields are read.
IgnoredScalarIsSkipped(read) == OthersKept(read, {"int", "str"})

\* The encoding of a value is one string, and reading undoes writing
\* (encode.go:44-204, decoder.go:211-420, 687-762).
EncodingRoundTrips == OwnEncodingDecodes /\ Canonical

\* All the readers of decoder.go take the same bytes for the same value: the
\* skipper, the reader into interface{}, those of the typed targets, and the
\* one that ignores a type error and goes on with the next key.
DecodersAgree ==
  /\ RawSameExtent
  /\ TypedRoundTrip
  /\ \A r \in {Read} :
       r.st = "ok" => TypedAgrees(r.v) /\ IgnoredScalarIsSkipped(r.v)

=============================================================================
