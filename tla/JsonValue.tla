----------------------------- MODULE JsonValue -----------------------------
(***************************************************************************)
(* Json::Value: a tree of <<type, payload, comments>>.  The payload of an  *)
(* array is a map from indices, that of an object a map from names, which  *)
(* are strings as JsonText has them; a real is in tenths.  comments are    *)
(* those before the value, after it on the same line, and after it.        *)
(*                                                                         *)
(* What may throw returns a set: {} when it throws, or else its result.    *)
(***************************************************************************)
EXTENDS JsonText

CONSTANT Order     \* the characters of names, in the order of their bytes

NoComments == <<<<>>, <<>>, <<>>>>
New(type, payload) == <<type, payload, NoComments>>
Null == New("null", 0)
NewArray == New("array", <<>>)
NewObject == New("object", <<>>)
NewBool(b) == New("bool", b)
NewString(s) == New("string", s)
NewNumber(n) == New(n[1], n[2])

Type(v) == v[1]
Payload(v) == v[2]
IsNull(v) == Type(v) = "null"
IsArray(v) == Type(v) = "array"
IsObject(v) == Type(v) = "object"
IsString(v) == Type(v) = "string"

\* swapPayload with a new value, which leaves the comments where they are.
SwapPayload(v, w) == <<w[1], w[2], v[3]>>

\* setComment discards one newline at the end.
Trimmed(c) == IF c # <<>> /\ Last(c) = NewLine THEN Front(c) ELSE c
SetComment(v, place, c) == <<v[1], v[2], [v[3] EXCEPT ![place] = Trimmed(c)]>>
Before == 1
AfterOnSameLine == 2
After == 3
Comment(v, place) == v[3][place]
HasComment(v) == v[3] # NoComments

-----------------------------------------------------------------------------
(* Names and members.                                                      *)

Rank(c) == CHOOSE k \in DOMAIN Order : Order[k] = c

\* CZString's order: the common bytes, then the lengths.
Less(a, b) ==
  \/ IsStrictPrefix(a, b)
  \/ \E k \in DOMAIN a \cap DOMAIN b :
       /\ a[k] # b[k] /\ Rank(a[k]) < Rank(b[k])
       /\ SubSeq(a, 1, k - 1) = SubSeq(b, 1, k - 1)

\* The elements of a finite set in an order of theirs.
InOrder(S, Before_(_, _)) ==
  [k \in 1 .. Cardinality(S) |->
     CHOOSE x \in S : Cardinality({y \in S : Before_(y, x)}) = k - 1]

\* The members' names in the order of the map, {} for a null value.
MemberNames(v) ==
  IF IsNull(v) THEN <<>> ELSE InOrder(DOMAIN Payload(v), Less)

\* The highest index and one; the number of members.
Size(v) ==
  CASE IsArray(v)  -> IF Payload(v) = <<>> THEN 0 ELSE
                      1 + CHOOSE k \in DOMAIN Payload(v) :
                            \A l \in DOMAIN Payload(v) : l <= k
    [] IsObject(v) -> Cardinality(DOMAIN Payload(v))
    [] OTHER -> 0

\* operator[] const: what is not there is null.
At(v, key) ==
  IF ~IsNull(v) /\ key \in DOMAIN Payload(v) THEN Payload(v)[key] ELSE Null

Elements(v) == [k \in 1 .. Size(v) |-> At(v, k - 1)]

\* resolveReference and operator[](ArrayIndex): what is not there is made null,
\* and a null value becomes an object or an array.
Resolved(v, container, key) ==
  LET c == IF IsNull(v) THEN container ELSE v
  IN <<c[1], [k \in DOMAIN c[2] \cup {key} |-> At(c, k)], c[3]>>

IsMember(v, key) ==
  LET there == key \in DOMAIN Payload(v)
  IN IF IsNull(v) THEN {FALSE} ELSE IF IsObject(v) THEN {there} ELSE {}

\* What the reader's pointers point at: the value at the end of a path of keys.
ValueAt(v, path) ==
  LET at[k \in 0 .. Len(path)] == IF k = 0 THEN v ELSE Payload(at[k-1])[path[k]]
  IN at[Len(path)]

\* v with w at the end of the path: under[k] is what is above k of its keys.
Put(v, path, w) ==
  LET n == Len(path)
      under[k \in 0 .. n] ==
        IF k = 0 THEN w
        ELSE LET u == ValueAt(v, SubSeq(path, 1, n - k))
             IN <<u[1], [u[2] EXCEPT ![path[n-k+1]] = under[k-1]], u[3]>>
  IN under[n]

Holds(v, key) == Type(v) \in {"array", "object"} /\ key \in DOMAIN Payload(v)
Lives(v, path) ==
  \A k \in DOMAIN path : Holds(ValueAt(v, SubSeq(path, 1, k - 1)), path[k])

-----------------------------------------------------------------------------
(* Conversions.                                                            *)

Text(s) == <<s>>

AsString(v) ==
  CASE Type(v) = "null"   -> {<<>>}
    [] Type(v) = "string" -> {Payload(v)}
    [] Type(v) = "bool"   -> {Text(IF Payload(v) THEN "true" ELSE "false")}
    [] Type(v) \in {"int", "uint"} -> {ValueToString(Payload(v))}
    [] Type(v) = "real"   -> {DoubleToString(Payload(v))}
    [] OTHER -> {}

\* Towards zero, as a conversion from double to UInt goes.
AsUInt(v) ==
  CASE Type(v) = "null" -> {0}
    [] Type(v) = "bool" -> {IF Payload(v) THEN 1 ELSE 0}
    [] Type(v) \in {"int", "uint"} -> {Payload(v)} \cap (0 .. MaxUInt)
    [] Type(v) = "real" -> IF Payload(v) \in 0 .. 10 * MaxUInt
                             THEN {Payload(v) \div 10} ELSE {}
    [] OTHER -> {}

AsBool(v) ==
  CASE Type(v) = "null" -> {FALSE}
    [] Type(v) = "bool" -> {Payload(v)}
    [] Type(v) \in {"int", "uint", "real"} -> {Payload(v) # 0}
    [] OTHER -> {}
=============================================================================
