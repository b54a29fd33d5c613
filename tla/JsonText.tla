------------------------------ MODULE JsonText ------------------------------
(***************************************************************************)
(* The text of a JSON document: its tokens, and what Json::Reader and the  *)
(* writers make of numbers and strings.                                    *)
(*                                                                         *)
(* A text is a sequence of tokens <<kind, characters>>, the characters     *)
(* being those of a number or between the quotes of a string.  A character *)
(* is a TLA+ string: one character, a byte as Byte names it, or a whole    *)
(* word that is never taken apart.                                         *)
(***************************************************************************)
EXTENDS Integers, FiniteSets, SequencesExt, TLC

CONSTANTS
  MaxInt,            \* 2^31 - 1, reduced
  MaxLargestInt      \* 2^63 - 1, reduced

\* The largest integers have more than one digit.
ASSUME JsonTextAssumption ==
  /\ MaxInt \in Nat \ {0} /\ MaxLargestInt \in Nat /\ MaxInt < MaxLargestInt
  /\ 9 <= MaxLargestInt

MaxUInt == 2 * MaxInt + 1
MinLargestInt == -MaxLargestInt - 1
MaxLargestUInt == 2 * MaxLargestInt + 1

Sign(k) == <<k, <<>>>>
Punctuation == {Sign(k) : k \in {"{", "}", "[", "]", ":", ","}}
EOF == Sign("end")
Garbage == Sign("error")
NewLine == Sign("nl")
Space == Sign("sp")
Comments == {Sign("//"), Sign("/**/")}

-----------------------------------------------------------------------------
(* Numbers.                                                                *)

Digits == <<"0", "1", "2", "3", "4", "5", "6", "7", "8", "9">>
IsDigit(c) == \E d \in DOMAIN Digits : Digits[d] = c
Digit(c) == (CHOOSE d \in DOMAIN Digits : Digits[d] = c) - 1

Signed(s) == s # <<>> /\ s[1] = "-"
Unsigned(s) == IF Signed(s) THEN Tail(s) ELSE s

\* A slip of decodeNumber: the last digit is not looked at.
Overflows_NoDelta(v, last, digit, limit) ==
  v >= limit \div 10 /\ (v > limit \div 10 \/ ~last)
\* One more digit would leave the integers.
Overflows(v, last, digit, limit) ==
  v >= limit \div 10 /\ (v > limit \div 10 \/ ~last \/ digit > limit % 10)

Double == -1

\* decodeNumber's integer, or Double.  A lone "-" is 0.
Integer(s) ==
  LET ds == Unsigned(s)
      limit == IF Signed(s) THEN -MinLargestInt ELSE MaxLargestUInt
      value[k \in 0 .. Len(ds)] ==
        IF k = 0 THEN 0
        ELSE IF \/ value[k-1] = Double \/ ~IsDigit(ds[k])
                \/ Overflows(value[k-1], k = Len(ds), Digit(ds[k]), limit)
          THEN Double
          ELSE 10 * value[k-1] + Digit(ds[k])
  IN value[Len(ds)]

\* What istringstream makes of it, in tenths: {} if it is not a number.  There
\* is at most one digit after a point, and an exponent has no digits.
Tenths(s) ==
  LET ds == Unsigned(s)
      value[k \in 0 .. Len(ds)] ==
        IF k = 0 THEN 0
        ELSE IF ds[k] = "." THEN value[k-1] ELSE 10 * value[k-1] + Digit(ds[k])
      points == {k \in DOMAIN ds : ds[k] = "."}
  IN IF \/ \E k \in DOMAIN ds : ~IsDigit(ds[k]) /\ ds[k] # "."
        \/ Cardinality(points) > 1
        \/ ~(points \subseteq {Len(ds) - 1, Len(ds)})
       THEN {}
       ELSE LET v == value[Len(ds)] * (IF Len(ds) - 1 \in points THEN 1 ELSE 10)
            IN {IF Signed(s) THEN -v ELSE v}

\* decodeNumber: {} or the set of its one value.
DecodeNumber(s) ==
  LET n == Integer(s)
  IN IF n = Double THEN {<<"real", x>> : x \in Tenths(s)}
     ELSE IF Signed(s) THEN {<<"int", -n>>}
     ELSE IF n <= MaxInt THEN {<<"int", n>>} ELSE {<<"uint", n>>}

UIntToString[n \in Nat] ==
  IF n < 10 THEN <<Digits[n + 1]>>
  ELSE Append(UIntToString[n \div 10], Digits[(n % 10) + 1])

ValueToString(n) ==
  IF n < 0 THEN <<"-">> \o UIntToString[-n] ELSE UIntToString[n]

\* "%.17g" of a number of tenths: without a point when it is an integer.
DoubleToString(x) ==
  LET a == IF x < 0 THEN -x ELSE x
  IN (IF x < 0 THEN <<"-">> ELSE <<>>)
     \o UIntToString[a \div 10]
     \o (IF a % 10 = 0 THEN <<>> ELSE <<".", Digits[(a % 10) + 1]>>)

-----------------------------------------------------------------------------
(* Strings.                                                                *)

HexDigits == <<"0", "1", "2", "3", "4", "5", "6", "7", "8", "9", "A", "B", "C",
               "D", "E", "F">>
IsHex(c) == \E d \in DOMAIN HexDigits : HexDigits[d] = c
Hex(c) == (CHOOSE d \in DOMAIN HexDigits : HexDigits[d] = c) - 1

Escapes == "\"" :> "\"" @@ "/" :> "/" @@ "\\" :> "\\" @@ "b" :> "#8" @@
           "f" :> "\f" @@ "n" :> "\n" @@ "r" :> "\r" @@ "t" :> "\t"

\* Characters that have names of their own; any other byte is shown by number.
Named == 9 :> "\t" @@ 10 :> "\n" @@ 12 :> "\f" @@ 13 :> "\r" @@
         34 :> "\"" @@ 47 :> "/" @@ 92 :> "\\" @@ 65 :> "A" @@ 66 :> "B"
Byte(n) == IF n \in DOMAIN Named THEN Named[n] ELSE "#" \o ToString(n)
Nul == Byte(0)

CodePointToUTF8(cp) ==
  LET Cont(shift) == Byte(128 + ((cp \div shift) % 64))
  IN CASE cp <= 127     -> <<Byte(cp)>>
       [] cp \in 128 .. 2047 -> <<Byte(192 + cp \div 64), Cont(1)>>
       [] cp \in 2048 .. 65535 -> <<Byte(224 + cp \div 4096), Cont(64), Cont(1)>>
       [] cp \in 65536 .. 1114111 ->
            <<Byte(240 + cp \div 262144), Cont(4096), Cont(64), Cont(1)>>
       [] OTHER -> <<>>

\* The four characters from k on: {} or the set of their number.
DecodeUnicodeEscapeSequence(s, k) ==
  IF Len(s) - k + 1 < 4 \/ \E d \in 0 .. 3 : ~IsHex(s[k + d]) THEN {}
  ELSE {((Hex(s[k]) * 16 + Hex(s[k+1])) * 16 + Hex(s[k+2])) * 16 + Hex(s[k+3])}

\* {} or the set of the code point at k and the place after it.  The second
\* half of a pair may be any escape, and a second half alone is taken as it is.
DecodeUnicodeCodePoint(s, k) ==
  UNION {IF u \notin 55296 .. 56319 THEN {<<u, k + 4>>}
         ELSE IF Len(s) - k - 3 < 6 \/ s[k+4] # "\\" \/ s[k+5] # "u" THEN {}
         ELSE {<<65536 + (u % 1024) * 1024 + (l % 1024), k + 10>> :
               l \in DecodeUnicodeEscapeSequence(s, k + 6)} :
         u \in DecodeUnicodeEscapeSequence(s, k)}

\* decodeString: {} or the set of its one string.
DecodeString(s) ==
  LET from[k \in 1 .. Len(s) + 1] ==
        IF k > Len(s) THEN {<<>>}
        ELSE IF s[k] # "\\" THEN {<<s[k]>> \o r : r \in from[k+1]}
        ELSE IF k = Len(s) THEN {}
        ELSE IF s[k+1] \in DOMAIN Escapes
          THEN {<<Escapes[s[k+1]]>> \o r : r \in from[k+2]}
        ELSE IF s[k+1] = "u"
          THEN UNION {{CodePointToUTF8(u[1]) \o r : r \in from[u[2]]} :
                      u \in DecodeUnicodeCodePoint(s, k + 2)}
        ELSE {}
  IN from[1]

Escaped == [c \in {"\"", "\\", "#8", "\f", "\n", "\r", "\t"} |->
              <<"\\", CHOOSE e \in DOMAIN Escapes : Escapes[e] = c>>]
Control == [c \in {Byte(n) : n \in 0 .. 31} \ DOMAIN Escaped |->
              LET n == CHOOSE n \in 0 .. 31 : Byte(n) = c
              IN <<"\\", "u", "0", "0", HexDigits[(n \div 16) + 1],
                   HexDigits[(n % 16) + 1]>>]

\* What the writers put between the quotes.
ValueToQuotedStringN(s) ==
  FlattenSeq([k \in DOMAIN s |->
            CASE s[k] \in DOMAIN Escaped -> Escaped[s[k]]
              [] s[k] \in DOMAIN Control -> Control[s[k]]
              [] OTHER -> <<s[k]>>])

\* The same for a string that ends at its first zero.
CString(s) ==
  LET zeros == {k \in DOMAIN s : s[k] = Nul}
  IN IF zeros = {} THEN s
     ELSE SubSeq(s, 1, (CHOOSE k \in zeros : \A l \in zeros : k <= l) - 1)
ValueToQuotedString(s) == ValueToQuotedStringN(CString(s))
=============================================================================
