-------------------------------- MODULE Json --------------------------------
(* json::Value (core/json.cpp) and the parser below it (core/sajson.h): a  *)
(* value is built with Value's operations, written by stringify(), damaged *)
(* on the way or not, and read by load_string(), whose parser is           *)
(* JsonParser.                                                             *)
EXTENDS JsonParser, FiniteSets

CONSTANTS
  Keys,         \* keys of objects
  Scalars,      \* values that edits put in
  Texts,        \* texts written by hand
  MaxEdits      \* edits of the value before it is written

VARIABLES
  val,          \* the value that is written
  left          \* edits left

vars == <<val, left, jpVars>>

-----------------------------------------------------------------------------
(* Values                                                                  *)

Undefined == <<"undefined">>
NaN == <<"nan">>
Object == <<"object", <<>>>>
Array == <<"array", <<>>>>

RECURSIVE DigitsOf(_)
DigitsOf(n) == (IF n < 10 THEN <<>> ELSE DigitsOf(n \div 10)) \o <<n % 10>>
Magnitude(i) == IF i < 0 THEN -i ELSE i

AsNumber(v) ==
  CASE Type(v) = "int" -> Decimal(v[2] < 0, DigitsOf(Magnitude(v[2])), 0)
    [] Type(v) = "float" -> v[2]
    [] OTHER -> Decimal(FALSE, <<>>, 0)

SizeOf(v) == IF Type(v) = "array" THEN Len(v[2]) ELSE Cardinality(DOMAIN v[2])

\* std::string's order.
RECURSIVE Before(_, _)
Before(a, b) ==
  /\ b # <<>>
  /\ \/ a = <<>>
     \/ a[1] < b[1]
     \/ a[1] = b[1] /\ Before(Tail(a), Tail(b))

\* What an Iterator goes through, with its key() and value().
RECURSIVE EntriesFrom(_, _)
EntriesFrom(o, ks) ==
  IF ks = {} THEN <<>>
  ELSE LET k == CHOOSE x \in ks : \A y \in ks : ~Before(y, x)
       IN <<<<k, o[k]>>>> \o EntriesFrom(o, ks \ {k})
Entries(v) ==
  CASE Type(v) = "array" -> [i \in DOMAIN v[2] |-> <<<<>>, v[2][i]>>]
    [] Type(v) = "object" -> EntriesFrom(v[2], DOMAIN v[2])
    [] OTHER -> <<>>

SetKey(v, k, x) ==
  IF Type(v) # "object" \/ x = Undefined THEN v
  ELSE <<"object", [j \in DOMAIN v[2] \cup {k} |-> IF j = k THEN x ELSE v[2][j]]>>
DelKey(v, k) ==
  IF Type(v) # "object" THEN v
  ELSE <<"object", [j \in DOMAIN v[2] \ {k} |-> v[2][j]]>>
\* set_at() and insert_at(): an array that is too short gets undefined values.
SetAt(v, index, x) ==
  IF Type(v) # "array" \/ x = Undefined THEN v
  ELSE LET size == IF SizeOf(v) < index + 1 THEN index + 1 ELSE SizeOf(v)
       IN <<"array", [i \in 1..size |-> CASE i = index + 1 -> x
                                          [] i # index + 1 /\ i > SizeOf(v) -> Undefined
                                          [] OTHER -> v[2][i]]>>
Append1(v, x) ==
  IF Type(v) # "array" \/ x = Undefined THEN v ELSE <<"array", Append(v[2], x)>>
DelAt(v, index) ==
  IF Type(v) = "array" /\ index < SizeOf(v)
  THEN <<"array", [v[2] EXCEPT ![index + 1] = Undefined]>> ELSE v

-----------------------------------------------------------------------------
(* Writing                                                                 *)

HexDigit(n) == IF n < 10 THEN 48 + n ELSE 87 + n
Escaped(c) ==
  IF \E e \in DOMAIN Escapes : Escapes[e] = c
  THEN <<Backslash, CHOOSE e \in DOMAIN Escapes : Escapes[e] = c>>
  ELSE IF c >= 32 THEN <<c>>
  ELSE <<Backslash, 117, 48, 48, HexDigit(c \div 16), HexDigit(c % 16)>>

SerializeString(s) ==
  IF \A i \in DOMAIN s : s[i] \in 32..126 \ {Quote, Backslash}
  THEN <<Quote>> \o s \o <<Quote>>
  ELSE <<Quote>> \o FlattenSeq([i \in DOMAIN s |-> Escaped(s[i])]) \o <<Quote>>

Shown(digits) == [i \in DOMAIN digits |-> 48 + digits[i]]
IntText(i) == (IF i < 0 THEN <<45>> ELSE <<>>) \o Shown(DigitsOf(Magnitude(i)))

\* What a stream makes of a double: as many digits as its precision, the last
\* one rounded (half to even), and an exponent when it is large or small.
Precision == 6
Rounded(x) ==
  LET head == SubSeq(x[2], 1, Precision)
      rest == SubSeq(x[2], Precision + 1, Len(x[2]))
      up == \/ rest[1] > 5
            \/ rest[1] = 5 /\ (Len(rest) > 1 \/ head[Precision] % 2 = 1)
      n == FoldLeft(LAMBDA a, d : 10 * a + d, 0, head) + IF up THEN 1 ELSE 0
  IN IF Len(x[2]) <= Precision THEN x ELSE Decimal(x[1], DigitsOf(n), x[3] + Len(rest))
Pointed(digits, n) ==
  IF n >= Len(digits) THEN Shown(digits) \o [i \in 1..(n - Len(digits)) |-> 48]
  ELSE Shown(SubSeq(digits, 1, n)) \o <<46>> \o Shown(SubSeq(digits, n + 1, Len(digits)))
FloatText(x) ==
  LET r == Rounded(x)
      power == r[3] + Len(r[2]) - 1
      sign == IF r[1] THEN <<45>> ELSE <<>>
  IN CASE x = NaN -> <<110, 97, 110>>
       [] x # NaN /\ r[2] = <<>> -> <<48>>
       [] x # NaN /\ r[2] # <<>> /\ power \in -4..-1 ->
            sign \o Pointed([i \in 1..(-power) |-> 0] \o r[2], 1)
       [] x # NaN /\ r[2] # <<>> /\ power \in 0..(Precision - 1) ->
            sign \o Pointed(r[2], power + 1)
       [] OTHER ->
            sign \o Pointed(r[2], 1) \o <<101, IF power < 0 THEN 45 ELSE 43>>
              \o (IF Magnitude(power) < 10 THEN <<48>> ELSE <<>>) \o IntText(Magnitude(power))

Joined(ss) ==
  FlattenSeq([i \in DOMAIN ss |-> IF i = 1 THEN ss[i] ELSE <<44>> \o ss[i]])

RECURSIVE Stringify(_)
Stringify(v) ==
  CASE v = Undefined -> <<117, 110, 100, 101, 102, 105, 110, 101, 100>>
    [] v = Null -> <<110, 117, 108, 108>>
    [] Type(v) = "bool" ->
         IF v[2] THEN <<116, 114, 117, 101>> ELSE <<102, 97, 108, 115, 101>>
    [] Type(v) = "int" -> IntText(v[2])
    [] Type(v) = "float" -> FloatText(v[2])
    [] Type(v) = "string" -> SerializeString(v[2])
    [] Type(v) = "array" ->
         <<91>> \o Joined([i \in DOMAIN v[2] |-> Stringify(v[2][i])]) \o <<93>>
    [] Type(v) = "object" ->
         LET es == Entries(v) IN
         <<123>> \o Joined([i \in DOMAIN es |->
           SerializeString(es[i][1]) \o <<58>> \o Stringify(es[i][2])]) \o <<125>>

-----------------------------------------------------------------------------
Init == JPInit /\ val \in {Object, Array} /\ left = MaxEdits

Edit ==
  /\ file = <<>> /\ left > 0
  /\ left' = left - 1
  /\ \/ \E k \in Keys, x \in Scalars : val' = SetKey(val, k, x)
     \/ \E k \in Keys : val' = DelKey(val, k)
     \/ \E x \in Scalars : val' = Append1(val, x)
     \/ \E i \in 0..1, x \in Scalars : val' = SetAt(val, i, x)
     \/ \E i \in 0..1 : val' = DelAt(val, i)
     \/ val' = IF Type(val) = "array" THEN Array ELSE Object       \* clear()
     \/ val' = Append1(Array, val)
     \/ \E k \in Keys : val' = SetKey(Object, k, val)
  /\ UNCHANGED <<file, parser>>

\* save_file() and a reader that gets all of it, or only its beginning; or a
\* file that somebody wrote or changed by hand.
Save ==
  /\ Waiting
  /\ LET text == Stringify(val) IN
     \/ Arrive(text)
     \/ \E n \in 1..Len(text) : Arrive(SubSeq(text, 1, n)) \/ Arrive(RemoveAt(text, n))
     \/ \E t \in Texts : Arrive(t)
  /\ UNCHANGED <<val, left>>

Next == Edit \/ Save \/ (Parse /\ UNCHANGED <<val, left>>)
Spec == Init /\ [][Next]_vars

\* What a string at a word, and the i-th key of an object at a word, hold.
StringAt(d, at) == SubSeq(d.text, d.words[at][2] + 1, d.words[at + 1][2])
ObjectKey(d, at, i) == StringAt(d, at + 3 * i - 2)

\* load_sajson(): the value of the words from at.
RECURSIVE LoadSajson(_, _, _)
LoadSajson(d, type, at) ==
  LET Child(i) == LoadSajson(d, d.words[i][2], at + d.words[i][3])
      length == d.words[at][2]
  IN CASE type \in {"int", "float"} -> d.words[at]
       [] type = "null" -> Null
       [] type \in {"true", "false"} -> <<"bool", type = "true">>
       [] type = "string" -> <<"string", StringAt(d, at)>>
       [] type = "array" -> <<"array", [i \in 1..length |-> Child(at + i)]>>
       [] type = "object" ->
            <<"object", [k \in {ObjectKey(d, at, i) : i \in 1..length} |->
               Child(at + 3 * (CHOOSE i \in 1..length : ObjectKey(d, at, i) = k))]>>
Loaded == LoadSajson(parser, parser.type, parser.out)

-----------------------------------------------------------------------------
(* Properties                                                              *)

\* What load_string() makes out again. A gap of an array is not JSON, nor is
\* NaN or infinity as it is printed, nor, to this parser, a string that has
\* a byte above 127 after something escaped.
RECURSIVE Readable(_)
Readable(v) ==
  CASE Type(v) = "string" ->
         \A i, j \in DOMAIN v[2] :
           i < j /\ v[2][j] > 127 => v[2][i] >= 32 /\ v[2][i] \notin {Quote, Backslash, 47}
    [] Type(v) = "float" -> v[2] # NaN /\ v[2] # <<"inf">>
    [] Type(v) \in {"array", "object"} ->
         \A i \in DOMAIN Entries(v) :
           Readable(Entries(v)[i][2]) /\ Readable(<<"string", Entries(v)[i][1]>>)
    [] OTHER -> v # Undefined

\* w is v as its readers see it: numbers are the same as_number(), but for what
\* a double has beyond six digits, which stringify() does not write, and the
\* same as_integer() unless they come near INT_MAX.
RECURSIVE Matches(_, _)
Matches(v, w) ==
  CASE IsNumber(v) ->
         /\ IsNumber(w)
         /\ AsNumber(w) = IF Type(v) = "float" THEN Rounded(v[2]) ELSE AsNumber(v)
         /\ Type(v) = "int" /\ Magnitude(v[2]) \div 10 <= IntMax \div 10 - 9 => w = v
    [] Type(v) \in {"array", "object"} ->
         /\ Type(w) = Type(v) /\ SizeOf(w) = SizeOf(v)
         /\ \A i \in 1..SizeOf(v) : /\ Entries(w)[i][1] = Entries(v)[i][1]
                                  /\ Matches(Entries(v)[i][2], Entries(w)[i][2])
    [] OTHER -> w = v

\* A value that was written whole is read as the same value, its doubles to six
\* digits, or it is rejected for one of the reasons that Readable names;
\* whatever the strings hold, and however the containers are nested.
RoundTrip ==
  parser.at # "none" /\ file = Stringify(val) =>
    /\ parser.at = "accepted" => Readable(val) /\ Matches(val, Loaded)
    /\ parser.at = "rejected" => ~Readable(val)
    /\ parser.at # "undefined"

\* The beginning of a file that was written to half is never taken for a
\* document: an array or an object needs its last byte.
HalfIsRejected ==
  IsStrictPrefix(file, Stringify(val)) => parser.at \notin {"accepted", "undefined"}
=============================================================================
