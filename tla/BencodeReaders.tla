--------------------------- MODULE BencodeReaders ---------------------------
(***************************************************************************)
(* pkg/bencode/decoder.go: the reader into interface{} and the skipper     *)
(* that finds the extent of a raw value.                                   *)
(*                                                                         *)
(* Inputs are sequences of bytes, kept as one-letter strings.  A value is  *)
(* <<"int", n>>, <<"str", bytes>>, <<"list", values>>, or <<"dict", pairs  *)
(* in key order>>.  Each reader takes the input and a position and returns *)
(* a status, a value and the position it leaves the stream at; offsets in  *)
(* errors are left out.  What a reader makes of the inside of a list or a  *)
(* dictionary is a function of the position where the next element begins. *)
(***************************************************************************)
EXTENDS Integers, Sequences, SequencesExt

CONSTANTS
  WordMax,    \* largest int64
  MaxStr      \* Decoder.MaxStrLen

ASSUME ReadersAssumption == {WordMax, MaxStr} \subseteq Nat

ByteOrder == <<"-", "0", "1", "2", "3", "4", "5", "6", "7", "8", "9", ":",
               "d", "e", "i", "l">>
Ord == [c \in ToSet(ByteOrder) |-> CHOOSE k \in 1..16 : ByteOrder[k] = c]
Digit == {"0", "1", "2", "3", "4", "5", "6", "7", "8", "9"}
DigitOf(n) == ByteOrder[n + 2]

\* Go's order of strings.
Less(a, b) == \E k \in 1..Len(b) :
  /\ \A j \in 1..(k - 1) : j <= Len(a) /\ a[j] = b[j]
  /\ k > Len(a) \/ (k <= Len(a) /\ Ord[a[k]] < Ord[b[k]])

(* --- outcomes ---------------------------------------------------------- *)

Nil == <<"nil">>
Ok(v, i) == [st |-> "ok", v |-> v, i |-> i]
End(i) == [st |-> "end", v |-> Nil, i |-> i]
Err == [st |-> "error", v |-> Nil, i |-> 0]
\* *UnmarshalTypeError: what the target holds by then, and where the stream is.
TypeErr(v, i) == [st |-> "type", v |-> v, i |-> i]
Panic == [st |-> "panic", v |-> Nil, i |-> 0]

(* --- numbers and strings ----------------------------------------------- *)

\* readUntil: where c is, 0 if the input ends first.
Until(s, i, c) ==
  IF \E j \in i..Len(s) : s[j] = c
  THEN CHOOSE j \in i..Len(s) : s[j] = c /\ \A k \in i..(j - 1) : s[k] # c
  ELSE 0

Unsigned(t) == IF t # <<>> /\ t[1] = "-" THEN Tail(t) ELSE t
\* checkBufferedInt
LeadingNonzero(t) == Unsigned(t) # <<>> /\ Unsigned(t)[1] \in Digit \ {"0"}
Leading(t) == Len(t) <= 1 \/ Unsigned(t)[1] \in Digit \ {"0"}
\* What strconv.ParseInt accepts, and its value.
IsNumeral(t) == Unsigned(t) # <<>> /\ ToSet(Unsigned(t)) \subseteq Digit
Magnitude(t) ==
  LET value[n \in 0..Len(Unsigned(t))] ==
        IF n = 0 THEN 0 ELSE 10 * value[n - 1] + Ord[Unsigned(t)[n]] - 2
  IN  value[Len(Unsigned(t))]
Number(t) == IF t[1] = "-" THEN -Magnitude(t) ELSE Magnitude(t)

\* parseStringLength and the bytes it announces; i is at the first digit.
Text(s, i) ==
  LET j == Until(s, i, ":")
      t == SubSeq(s, i, j - 1)
  IN  IF j = 0 \/ ~Leading(t) \/ ~IsNumeral(t) THEN Err
      ELSE IF Number(t) > WordMax \/ Number(t) > MaxStr THEN Err
      ELSE IF j + Number(t) > Len(s) THEN Err
      ELSE Ok(<<"str", SubSeq(s, j + 1, j + Number(t))>>, j + Number(t) + 1)

(* --- readOneValue: the extent of a value ------------------------------- *)

\* ones[k]: the elements from k to the end of their list or dictionary.
OneOf(s, i, ones) ==
  IF i > Len(s) THEN Err
  ELSE IF s[i] = "e" THEN End(i)
  ELSE IF s[i] \in {"d", "l"} THEN ones[i + 1]
  ELSE IF s[i] = "i"
  THEN LET j == Until(s, i, "e") IN IF j = 0 THEN Err ELSE Ok(Nil, j + 1)
  ELSE IF s[i] \in Digit
  THEN LET j == Until(s, i, ":")
           t == SubSeq(s, i, j - 1)
       IN  IF j = 0 \/ ~IsNumeral(t) THEN Err
           ELSE IF Number(t) > WordMax \/ j + Number(t) > Len(s) THEN Err
           ELSE Ok(Nil, j + Number(t) + 1)
  ELSE Err
\* Mutant: the "e" is not consumed.
OnesUnclosed(s, i, ones) ==
  LET r == OneOf(s, i, ones)
  IN  IF r.st = "end" THEN Ok(Nil, r.i)
      ELSE IF r.st = "ok" THEN ones[r.i] ELSE r
Ones(s, i, ones) ==
  LET r == OneOf(s, i, ones)
  IN  IF r.st = "end" THEN Ok(Nil, r.i + 1)
      ELSE IF r.st = "ok" THEN ones[r.i] ELSE r
Skipped(s) ==
  LET ones[i \in 1..(Len(s) + 1)] == Ones(s, i, ones) IN ones
One(s, i) == OneOf(s, i, Skipped(s))

(* --- parseValueInterface ----------------------------------------------- *)

\* An integer beyond int64 becomes a big.Int of the same value.
GenericInt(s, i) ==
  LET j == Until(s, i, "e")
      t == SubSeq(s, i, j - 1)
  IN  IF j = 0 \/ ~Leading(t) \/ ~IsNumeral(t) THEN Err
      ELSE Ok(<<"int", Number(t)>>, j + 1)

\* inside[<<"list", k>>], inside[<<"dict", k>>]: the rest of a list and of a
\* dictionary from k on.
GenericOf(s, i, inside) ==
  IF i > Len(s) THEN Err
  ELSE CASE s[i] = "e" -> End(i + 1)
         [] s[i] = "d" -> inside[<<"dict", i + 1>>]
         [] s[i] = "l" -> inside[<<"list", i + 1>>]
         [] s[i] = "i" -> GenericInt(s, i + 1)
         [] s[i] \in Digit -> Text(s, i)
         [] OTHER -> Err

\* A list or a dictionary with one more in front.
Before(tag, x, rest) == Ok(<<tag, <<x>> \o rest.v[2]>>, rest.i)

GenericList(s, i, inside) ==
  LET r == GenericOf(s, i, inside)
      rest == inside[<<"list", r.i>>]
  IN  CASE r.st = "end" -> Ok(<<"list", <<>>>>, r.i)
        [] r.st = "ok" -> IF rest.st = "ok"
                          THEN Before("list", r.v, rest) ELSE Err
        [] OTHER -> r

\* Keys ascend strictly.  The code compares a key with the one before it, here
\* with the next: any failure is the same.
Ascends(key, pairs) == pairs = <<>> \/ Less(key, pairs[1][1])
GenericDict(s, i, inside) ==
  LET k == GenericOf(s, i, inside)
      e == GenericOf(s, k.i, inside)
      rest == inside[<<"dict", e.i>>]
  IN  CASE k.st = "end" -> Ok(<<"dict", <<>>>>, k.i)
        [] k.st = "ok" /\ k.v[1] = "str" ->
             IF e.st = "ok" /\ rest.st = "ok" /\ Ascends(k.v[2], rest.v[2])
             THEN Before("dict", <<k.v[2], e.v>>, rest) ELSE Err
        [] OTHER -> Err

Insides(s) ==
  LET inside[at \in {"list", "dict"} \X (1..(Len(s) + 1))] ==
        IF at[1] = "list" THEN GenericList(s, at[2], inside)
        ELSE GenericDict(s, at[2], inside)
  IN  inside
Generic(s, i) == GenericOf(s, i, Insides(s))

(* --- Encoder: integers and strings ------------------------------------- *)

\* strconv.FormatInt in base 10
Decimal(n) ==
  LET digits[m \in 0..(IF n < 0 THEN -n ELSE n)] ==
        IF m < 10 THEN <<DigitOf(m)>>
        ELSE Append(digits[m \div 10], DigitOf(m % 10))
  IN  IF n < 0 THEN <<"-">> \o digits[-n] ELSE digits[n]
EncodeInt(n) == <<"i">> \o Decimal(n) \o <<"e">>
EncodeString(b) == Decimal(Len(b)) \o <<":">> \o b
-----------------------------------------------------------------------------
\* What is read into interface{} from somewhere ends where the skipper says.
SameExtent(s) ==
  \A i \in 1..Len(s) : \A r \in {Generic(s, i)}, o \in {One(s, i)} :
    r.st = "ok" => o.st = "ok" /\ o.i = r.i
=============================================================================
