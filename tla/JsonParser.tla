----------------------------- MODULE JsonParser -----------------------------
(* The parser of json::load_string() (core/sajson.h): it decodes strings   *)
(* inside the text, and builds the document in an array of as many words   *)
(* as the text has bytes, and two: what is open grows up from its start    *)
(* (temp), what is finished grows down from its end (out).                 *)
(*                                                                         *)
(* A byte is a number, and a value a pair of a type and a payload. A       *)
(* double is a decimal: its sign, its digits from the first to the last    *)
(* that is not zero, and an exponent of ten; what reading rounds, and a    *)
(* product with a power of ten that is out of range, are left out.         *)
EXTENDS Integers, Sequences, SequencesExt, TLC

CONSTANT IntMax   \* INT_MAX

VARIABLES
  file,         \* the text on its way, <<>> before it is written
  parser        \* the parser of load_string()

jpVars == <<file, parser>>

-----------------------------------------------------------------------------
(* Values                                                                  *)

Null == <<"null">>
Type(v) == v[1]
IsNumber(v) == Type(v) \in {"int", "float"}

Least(S) == CHOOSE x \in S : \A y \in S : x <= y

\* A decimal: sign, digits, exponent of ten.
Decimal(negative, digits, exponent) ==
  LET marks == {i \in DOMAIN digits : digits[i] # 0}
      to == CHOOSE i \in marks : \A j \in marks : j <= i
  IN IF marks = {} THEN <<FALSE, <<>>, 0>>
     ELSE <<negative, SubSeq(digits, Least(marks), to), exponent + Len(digits) - to>>

-----------------------------------------------------------------------------
(* Reading strings and numbers. Positions in a text count from 0.          *)

Quote == 34
Backslash == 92
\* The letter after a backslash, and the byte it stands for.
Escapes == 34 :> 34 @@ 92 :> 92 @@ 47 :> 47 @@ 98 :> 8 @@ 102 :> 12 @@
           110 :> 10 @@ 114 :> 13 @@ 116 :> 9

ByteAt(t, p) == t[p + 1]
SkipBlanks(t, p) ==
  Least({q \in p..Len(t) : q < Len(t) => ByteAt(t, q) \notin {32, 9, 10, 13}})
\* peek_structure(), from a position that SkipBlanks() gives.
Peek(t, q) == IF q = Len(t) THEN 0 ELSE ByteAt(t, q)

Overwritten(t, at, bytes) ==
  [i \in 1..Len(t) |-> IF i - 1 \in at..(at + Len(bytes) - 1) THEN bytes[i - at] ELSE t[i]]
ParseFailed(t, p) == [ok |-> FALSE, text |-> t, p |-> p]

HexValue(c) ==
  CASE c \in 48..57 -> c - 48
    [] c \in 97..102 -> c - 87
    [] c \in 65..70 -> c - 55
    [] OTHER -> -1
\* read_hex() stops after a byte that is no digit.
ReadHex(t, p) ==
  LET Digit(i) == HexValue(ByteAt(t, p + i))
      bad == {i \in 0..3 : Digit(i) = -1}
  IN IF bad # {} THEN [ok |-> FALSE, p |-> p + Least(bad) + 1]
     ELSE [ok |-> TRUE, p |-> p + 4,
           u |-> 4096 * Digit(0) + 256 * Digit(1) + 16 * Digit(2) + Digit(3)]

WriteUtf8(u) ==
  CASE u < 128 -> <<u>>
    [] u \in 128..2047 -> <<192 + u \div 64, 128 + (u % 64)>>
    [] u \in 2048..65535 -> <<224 + u \div 4096, 128 + ((u \div 64) % 64), 128 + (u % 64)>>
    [] OTHER -> <<240 + u \div 262144, 128 + ((u \div 4096) % 64),
                  128 + ((u \div 64) % 64), 128 + (u % 64)>>

\* \u and, for a lead surrogate, the \u that has to follow.
Unicode(t, p) ==
  LET lead == ReadHex(t, p)
      trail == ReadHex(t, lead.p + 2)
  IN IF Len(t) - p < 4 THEN ParseFailed(t, p)
     ELSE IF ~lead.ok THEN ParseFailed(t, lead.p)
     ELSE IF lead.u \notin 55296..56319
     THEN [ok |-> TRUE, p |-> lead.p, bytes |-> WriteUtf8(lead.u)]
     ELSE IF Len(t) - lead.p < 6 \/ SubSeq(t, lead.p + 1, lead.p + 2) # <<Backslash, 117>>
     THEN ParseFailed(t, lead.p)
     ELSE IF ~trail.ok \/ trail.u \notin 56320..57343 THEN ParseFailed(t, trail.p)
     ELSE [ok |-> TRUE, p |-> trail.p,
           bytes |-> WriteUtf8(65536 + 1024 * (lead.u - 55296) + (trail.u - 56320))]

Escape(t, p) ==
  IF p >= Len(t) THEN ParseFailed(t, p)
  ELSE IF ByteAt(t, p) \in DOMAIN Escapes
  THEN [ok |-> TRUE, p |-> p + 1, bytes |-> <<Escapes[ByteAt(t, p)]>>]
  ELSE IF ByteAt(t, p) = 117 THEN Unicode(t, p + 1)
  ELSE ParseFailed(t, p)

\* From the first escape on, a byte or an escape at a time; char is signed, so
\* what is above 127 is below 32.
Ended(d, ok, p) == [d EXCEPT !.open = FALSE, !.ok = ok, !.p = p]
Wrote(d, bytes, p) ==
  [d EXCEPT !.text = Overwritten(@, d.tag[2], bytes), !.p = p,
            !.tag = <<@[1], @[2] + Len(bytes)>>]
Decode(d) ==
  LET c == ByteAt(d.text, d.p)
      e == Escape(d.text, d.p + 1)
  IN CASE ~d.open -> d
       [] d.open /\ (d.p >= Len(d.text) \/ c < 32 \/ c > 127) -> Ended(d, FALSE, d.p)
       [] d.open /\ d.p < Len(d.text) /\ c = Quote -> Ended(d, TRUE, d.p + 1)
       [] d.open /\ d.p < Len(d.text) /\ c = Backslash ->
            IF e.ok THEN Wrote(d, e.bytes, e.p) ELSE Ended(d, FALSE, e.p)
       [] OTHER -> Wrote(d, <<c>>, d.p + 1)
\* After each of them, from the backslash at q on.
Decoding(t, start, q) ==
  LET step[k \in 0..(Len(t) - q + 1)] ==
        IF k = 0 THEN [ok |-> FALSE, open |-> TRUE, text |-> t, p |-> q, tag |-> <<start, q>>]
        ELSE Decode(step[k - 1])
  IN step
ParseStringSlow(t, start, q) == Decoding(t, start, q)[Len(t) - q + 1]

\* From the quote at p.
ParseString(t, p) ==
  LET q == Least({i \in (p + 1)..Len(t) : \/ i = Len(t)
                                          \/ ByteAt(t, i) \in {Quote, Backslash}
                                          \/ ByteAt(t, i) < 32})
  IN IF q = Len(t) \/ Peek(t, q) < 32 THEN ParseFailed(t, q)
     ELSE IF ByteAt(t, q) = Backslash THEN ParseStringSlow(t, p + 1, q)
     ELSE [ok |-> TRUE, text |-> t, p |-> q + 1, tag |-> <<p + 1, q>>]

Pow10Max == 308
Pow10Min == -323
Scaled_Unsigned(negative, digits, exponent) == Decimal(FALSE, digits, exponent)
Scaled(negative, digits, exponent) ==
  CASE exponent > Pow10Max /\ Decimal(FALSE, digits, 0)[2] # <<>> -> <<"inf">>
    [] exponent > Pow10Max /\ Decimal(FALSE, digits, 0)[2] = <<>> -> <<"nan">>
    [] exponent < Pow10Min -> Decimal(FALSE, <<>>, 0)
    [] OTHER -> Decimal(negative, digits, exponent)

EndOfDigits(t, p) ==
  Least({q \in p..Len(t) : q < Len(t) => ByteAt(t, q) \notin 48..57})
DigitsIn(t, p, q) == [i \in 1..(q - p) |-> ByteAt(t, p + i - 1) - 48]
\* The digits as an int, until it is too large for another one.
Accumulated(digits) ==
  FoldLeft(LAMBDA a, d : IF a.wide \/ a.i > IntMax \div 10 - 9 THEN [a EXCEPT !.wide = TRUE]
                         ELSE [a EXCEPT !.i = 10 * @ + d],
           [i |-> 0, wide |-> FALSE], digits)
\* The digits of an exponent as an int. Here nothing tests for the overflow.
Power(digits) ==
  FoldLeft(LAMBDA a, d : IF a.wide \/ a.i > (IntMax - d) \div 10 THEN [a EXCEPT !.wide = TRUE]
                         ELSE [a EXCEPT !.i = 10 * @ + d],
           [i |-> 0, wide |-> FALSE], digits)
\* What a number is when its exponent overflowed: which one depends on the build.
AnyDouble == <<"any">>

ParseNumber(t, p) ==
  LET negative == ByteAt(t, p) = 45
      whole == IF negative THEN p + 1 ELSE p
      point == EndOfDigits(t, whole)
      real == Peek(t, point) = 46
      e == IF real THEN EndOfDigits(t, point + 1) ELSE point
      power == Peek(t, e) \in {69, 101}
      sign == IF power /\ e + 1 < Len(t) THEN Peek(t, e + 1) ELSE 0
      from == IF sign \in {43, 45} THEN e + 2 ELSE e + 1
      end == IF power THEN EndOfDigits(t, from) ELSE e
      fraction == IF real THEN DigitsIn(t, point + 1, e) ELSE <<>>
      written == Power(IF power THEN DigitsIn(t, from, end) ELSE <<>>)
      exponent == (IF sign = 45 THEN -written.i ELSE written.i) - Len(fraction)
      number == Accumulated(DigitsIn(t, whole, point))
      digits == DigitsIn(t, whole, point) \o fraction
  IN IF \/ whole = Len(t)
        \/ real /\ point + 1 = Len(t)
        \/ power /\ from >= Len(t)
     THEN ParseFailed(t, p)
     ELSE [ok |-> TRUE, text |-> t, p |-> end,
           value |-> IF number.wide \/ real \/ power
                     THEN <<"float", IF written.wide THEN AnyDouble
                                     ELSE Scaled(negative, digits, exponent)>>
                     ELSE <<"int", IF negative THEN -number.i ELSE number.i>>]

ParseWord(t, p, word, value) ==
  IF Len(t) - p >= Len(word) /\ SubSeq(t, p + 1, p + Len(word)) = word
  THEN [ok |-> TRUE, text |-> t, p |-> p + Len(word), value |-> value]
  ELSE ParseFailed(t, p)

\* null, false, true, a number or a string, as its first byte says.
ScalarStarts == {102, 110, 116, 45, Quote} \cup 48..57
ParseScalar(t, p) ==
  CASE ByteAt(t, p) = 110 -> ParseWord(t, p, <<110, 117, 108, 108>>, Null)
    [] ByteAt(t, p) = 102 -> ParseWord(t, p, <<102, 97, 108, 115, 101>>, <<"bool", FALSE>>)
    [] ByteAt(t, p) = 116 -> ParseWord(t, p, <<116, 114, 117, 101>>, <<"bool", TRUE>>)
    [] ByteAt(t, p) = Quote -> ParseString(t, p)
    [] OTHER -> ParseNumber(t, p)

-----------------------------------------------------------------------------
(* The document: an array of words. An element is a type and the distance  *)
(* from the words of its container to its own; a word that nothing was     *)
(* written to is fresh.                                                    *)

RootMarker == -1
Element(type, offset) == <<"element", type, offset>>
Word(n) == <<"word", n>>

Reject == parser' = [parser EXCEPT !.at = "rejected"]
Continue(at, next) == parser' = [next EXCEPT !.at = at]

\* The words of a scalar, and its type.
WordsOf_WithLength(r) ==
  CASE "tag" \in DOMAIN r -> <<Word(r.tag[1]), Word(r.tag[2]), Word(r.tag[2] - r.tag[1])>>
    [] "tag" \notin DOMAIN r /\ IsNumber(r.value) -> <<r.value>>
    [] OTHER -> <<>>
WordsOf(r) ==
  CASE "tag" \in DOMAIN r -> <<Word(r.tag[1]), Word(r.tag[2])>>
    [] "tag" \notin DOMAIN r /\ IsNumber(r.value) -> <<r.value>>
    [] OTHER -> <<>>
TypeOf(r) ==
  CASE "tag" \in DOMAIN r -> "string"
    [] "tag" \notin DOMAIN r /\ Type(r.value) = "bool" ->
         IF r.value[2] THEN "true" ELSE "false"
    [] OTHER -> Type(r.value)

\* A scalar was read: its words go below out.
WithScalar(d, r) ==
  LET out == d.out - Len(WordsOf(r))
  IN [d EXCEPT !.text = r.text, !.p = r.p, !.out = out, !.type = TypeOf(r),
               !.words = [i \in DOMAIN @ |-> IF i \in out..(d.out - 1)
                                             THEN WordsOf(r)[i - out + 1] ELSE @[i]]]
\* The element of what was just read, in the container at its base.
WithElement(d, type, base) ==
  [d EXCEPT !.words[d.temp] = Element(type, d.out - base - 1), !.temp = @ + 1]

\* The end of parse(): nothing but blanks may follow.
Finished(d) ==
  Continue(IF SkipBlanks(d.text, d.p) = Len(d.text) THEN "accepted" ELSE "rejected", d)

JPInit == file = <<>> /\ parser = [at |-> "none"]

\* A text arrives, once.
Waiting == file = <<>> /\ parser.at = "none"
Arrive(t) == Waiting /\ file' = t /\ UNCHANGED parser

\* load_string(), and the parser up to its first element.
Begin ==
  /\ file # <<>> /\ parser.at = "none"
  /\ LET p == SkipBlanks(file, 0)
         c == Peek(file, p)
         root == CASE c = 91 -> "array"
                   [] c = 123 -> "object"
                   [] OTHER -> "scalar"
         d == [at |-> "item", text |-> file, p |-> p, temp |-> 1,
               out |-> Len(file) + IF c \in {Quote, 45} \cup 48..57 THEN 2 ELSE 0,
               base |-> 0, type |-> root,
               words |-> [i \in 0..(Len(file) + 1) |->
                            IF i = 0 THEN Element(root, RootMarker) ELSE <<"fresh">>]]
     IN CASE root # "scalar" -> Continue("item", [d EXCEPT !.p = p + 1])
          [] root = "scalar" /\ c \in ScalarStarts \ {110} ->
               LET r == ParseScalar(file, p) IN
               IF ~r.ok THEN Continue("rejected", d)
               ELSE Finished(WithElement(WithScalar(d, r), WithScalar(d, r).type, 0))
          [] OTHER -> Continue("rejected", d)
  /\ UNCHANGED file

\* The comma and the key before a value. The result of reading the key is not
\* looked at: when it failed, its words keep what the memory had.
ItemStart ==
  /\ parser.at = "item"
  /\ LET q == SkipBlanks(parser.text, parser.p)
         c == Peek(parser.text, q)
         first == parser.temp = parser.base + 1
         closing == IF parser.type = "object" THEN 125 ELSE 93
         k == IF ~first /\ c = 44 THEN SkipBlanks(parser.text, q + 1) ELSE q
         key == ParseString(parser.text, k)
         colon == SkipBlanks(key.text, key.p)
     IN CASE ~first /\ c \notin {closing, 44} -> Reject
          [] (first \/ c \in {closing, 44})
               /\ (parser.type = "array" \/ Peek(parser.text, k) = 125) ->
               Continue("value", [parser EXCEPT !.p = k])
          [] OTHER ->
               IF Peek(parser.text, k) # Quote \/ Peek(key.text, colon) # 58 THEN Reject
               ELSE Continue(IF key.ok THEN "value" ELSE "undefined",
                      [parser EXCEPT
                         !.text = key.text, !.p = colon + 1, !.temp = @ + 2,
                         !.words = [i \in DOMAIN @ |->
                           IF key.ok /\ i - parser.temp \in {0, 1}
                           THEN Word(key.tag[i - parser.temp + 1]) ELSE @[i]]])
  /\ UNCHANGED file

Scalar ==
  /\ parser.at = "value"
  /\ LET q == SkipBlanks(parser.text, parser.p)
         r == ParseScalar(parser.text, q)
         d == WithScalar(parser, r)
     IN /\ Peek(parser.text, q) \in ScalarStarts
        /\ IF ~r.ok THEN Reject
           ELSE Continue("item", [WithElement(d, d.type, d.base) EXCEPT !.type = parser.type])
  /\ UNCHANGED file

Push ==
  /\ parser.at = "value"
  /\ LET q == SkipBlanks(parser.text, parser.p) IN
     /\ Peek(parser.text, q) \in {91, 123}
     /\ Continue("item",
          [parser EXCEPT !.p = q + 1, !.base = parser.temp, !.temp = @ + 1,
                         !.words[parser.temp] = Element(parser.type, parser.base),
                         !.type = IF Peek(parser.text, q) = 91 THEN "array" ELSE "object"])
  /\ UNCHANGED file

\* Shorter keys are less; keys of a length compare as memory.
KeyLess(t, a, b) ==
  LET KeyOf(r) == SubSeq(t, r[1][2] + 1, r[2][2])
      x == KeyOf(a)
      y == KeyOf(b)
  IN \/ Len(x) < Len(y)
     \/ /\ Len(x) = Len(y)
        /\ \E i \in DOMAIN x : x[i] < y[i] /\ \A j \in 1..(i - 1) : x[j] = y[j]

\* An element is from now on relative to its new place.
Moved(w, by) == IF w[1] = "element" THEN Element(w[2], w[3] + by) ELSE w

\* install_array() and install_object(): length, and the words, below out.
Installed(d) ==
  LET old == [i \in 1..(d.temp - d.base - 1) |-> d.words[d.base + i]]
      length == IF d.type = "array" THEN Len(old) ELSE Len(old) \div 3
      records == SortSeq([i \in 1..length |-> SubSeq(old, 3 * i - 2, 3 * i)],
                         LAMBDA a, b : KeyLess(d.text, a, b))
      new == IF d.type = "array" THEN old
             ELSE [i \in 1..(3 * length) |->
                     LET r == (i - 1) \div 3 IN records[r + 1][i - 3 * r]]
      to == d.out - Len(new) - 1
  IN [d EXCEPT !.out = to,
               !.words = [i \in DOMAIN @ |->
                 CASE i = to -> Word(length)
                   [] i # to /\ i \in to..(to + Len(new)) -> Moved(new[i - to], d.base + 1 - to)
                   [] OTHER -> @[i]]]
\* A key without a value is dropped when the object has nothing else; otherwise
\* the last words that are moved are not those of the records.
Pop ==
  /\ parser.at = "value"
  /\ LET q == SkipBlanks(parser.text, parser.p)
         element == parser.words[parser.base]
         rest == IF parser.type = "array" THEN 0 ELSE (parser.temp - parser.base - 1) % 3
         d == [Installed(parser) EXCEPT !.p = q + 1]
     IN /\ Peek(parser.text, q) = IF parser.type = "array" THEN 93 ELSE 125
        /\ IF rest > 0 /\ parser.temp - parser.base > 3
           THEN Continue("undefined", parser)
           ELSE IF element[3] = RootMarker THEN Finished(d)
           ELSE Continue("item",
                  [WithElement([d EXCEPT !.temp = parser.base], parser.type, element[3])
                     EXCEPT !.base = element[3], !.type = element[2]])
  /\ UNCHANGED file

Unexpected ==
  /\ parser.at = "value"
  /\ LET c == Peek(parser.text, SkipBlanks(parser.text, parser.p)) IN
     c \notin ScalarStarts \cup {91, 123, IF parser.type = "array" THEN 93 ELSE 125}
  /\ Reject
  /\ UNCHANGED file

Parse == Begin \/ ItemStart \/ Scalar \/ Push \/ Pop \/ Unexpected
JPNext == Parse \/ \E t \in Seq(0..255) : Arrive(t)
JPSpec == JPInit /\ [][JPNext]_jpVars

-----------------------------------------------------------------------------
(* Properties                                                              *)

\* What is open and what is finished do not meet in the array of words, for any
\* text, but for a number or a string at the very end of one, which is rejected
\* next, as the bracket is missing.
WordsSuffice ==
  parser.at \in {"item", "value"} =>
    /\ parser.base < parser.temp
    /\ parser.temp <= parser.out + IF parser.p = Len(parser.text) THEN 1 ELSE 0
=============================================================================
