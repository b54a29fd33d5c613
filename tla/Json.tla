-------------------------------- MODULE Json --------------------------------
(***************************************************************************)
(* A document is read; what has been read is printed by one of the writers *)
(* and read again.  Meaning says what a document stands for, from its      *)
(* brackets and commas instead of token by token.                          *)
(***************************************************************************)
EXTENDS JsonReader, JsonWriters

VARIABLE written     \* {}, or the writer that printed text, and the value

Writers == {<<"fast">>, <<"styled">>, <<"stream", StyledStream>>}
           \cup {<<"stream", Built(i, c)>> : i \in BOOLEAN, c \in BOOLEAN}

Print_(w, v) ==
  CASE w[1] = "fast"   -> FastWrite(v)
    [] w[1] = "styled" -> StyledWrite(v)
    [] w[1] = "stream" -> StreamWrite(w[2], v)

\* Only what was read with its comments is printed: the other values are among
\* these.
Write(w) ==
  /\ rpc = "done" /\ written = {} /\ features.collectComments
  /\ written' = {<<w, root>>}
  /\ Restart(Print_(w, root))
  /\ UNCHANGED features

-----------------------------------------------------------------------------
(* What a text s of tokens without blanks means: {} or the set of its one  *)
(* value, <<type, payload>>.                                               *)

RECURSIVE Plain(_)
Plain(v) ==
  <<Type(v), IF Type(v) \in {"array", "object"}
               THEN [k \in DOMAIN Payload(v) |-> Plain(Payload(v)[k])]
               ELSE Payload(v)>>

\* The number of brackets that are open before each place.
Levels_(s) ==
  LET step(t) == CASE t \in {Sign("["), Sign("{")} -> 1
                   [] t \in {Sign("]"), Sign("}")} -> -1
                   [] OTHER -> 0
  IN FoldLeft(LAMBDA ls, t : Append(ls, Last(ls) + step(t)), <<0>>, s)

\* s is what is between a bracket and the one that closes it.
Balanced(s) ==
  LET level == Levels_(s)
      \* the bracket that closes the one at j
      Closes(j, k) == level[k+1] = level[j] /\ \A i \in j + 1 .. k : level[i] > level[j]
  IN /\ level[Len(s) + 1] = 0 /\ \A k \in 1 .. Len(s) : level[k] >= 0
     /\ \A j \in DOMAIN s : s[j] \in {Sign("["), Sign("{")} =>
          \A k \in j + 1 .. Len(s) : Closes(j, k) =>
            s[k] = Sign(IF s[j] = Sign("[") THEN "]" ELSE "}")

\* The parts of s between its outermost commas.
Items(s) ==
  LET level == Levels_(s)
      cuts == {k \in DOMAIN s : s[k] = Sign(",") /\ level[k] = 0}
      ends == InOrder(cuts \cup {0, Len(s) + 1}, <)
  IN [n \in 1 .. Len(ends) - 1 |-> SubSeq(s, ends[n] + 1, ends[n+1] - 1)]

Without(s, k) ==
  LET rest == {n \in 1 .. Len(s) + 1 : \A j \in 1 .. n - 1 : s[j] \in Comments}
      start == CHOOSE n \in rest : \A m \in rest : m <= n
  IN IF k THEN SubSeq(s, start, Len(s)) ELSE s
AfterComments(s) == Without(s, TRUE)
BeforeComments(s) == Reverse(AfterComments(Reverse(s)))
\* Comments before a value count as blanks only if they are allowed.
Bare(f, s) == BeforeComments(Without(s, f.allowComments))

Number(s) ==
  LET ds == Unsigned(s)
      size == FoldLeft(LAMBDA n, c : 10 * n + Digit(c), 0, ds)
      n == IF Signed(s) THEN -size ELSE size
  IN IF \E k \in DOMAIN ds : ~IsDigit(ds[k]) THEN {<<"real", x>> : x \in Tenths(s)}
     ELSE IF n \notin MinLargestInt .. MaxLargestUInt THEN {<<"real", 10 * n>>}
     ELSE {<<IF n > MaxInt THEN "uint" ELSE "int", n>>}

Literal(t) ==
  CASE t[1] = "number" -> Number(t[2])
    [] t[1] = "string" -> {<<"string", s>> : s \in DecodeString(t[2])}
    [] t[1] \in {"true", "false"} -> {<<"bool", t[1] = "true">>}
    [] t[1] = "null"   -> {Plain(Null)}
    [] OTHER -> {}

\* All of the sets' elements, if none is empty.
Product(sets) ==
  IF \E k \in DOMAIN sets : sets[k] = {} THEN {}
  ELSE {[k \in DOMAIN sets |-> CHOOSE x \in sets[k] : TRUE]}

RECURSIVE Meaning(_, _)
Item(f, s) ==
  IF s = <<>> /\ f.allowDroppedNullPlaceholders THEN {Plain(Null)} ELSE Meaning(f, s)

\* A member: its name, a colon and its value.
Member(f, s) ==
  IF Len(s) < 2 \/ s[2] # Sign(":") THEN {}
  ELSE LET rest == Bare(f, SubSeq(s, 3, Len(s)))
       IN {<<n, v>> : n \in NameOf(s[1]), v \in Item(f, rest)}

Meaning(f, s) ==
  IF s = <<>> THEN {}
  ELSE IF Len(s) = 1 THEN Literal(s[1])
  ELSE LET inner == SubSeq(s, 2, Len(s) - 1)
           items == Items(inner)
       IN IF <<s[1][1], Last(s)[1]>> \notin {<<"[", "]">>, <<"{", "}">>} \/ ~Balanced(inner)
         THEN {}
     ELSE IF s[1] = Sign("[")
       THEN {<<"array", [k \in 0 .. Len(es) - 1 |-> es[k + 1]]>> :
             es \in IF inner = <<>> THEN {<<>>}
                    ELSE Product([k \in DOMAIN items |-> Item(f, Bare(f, items[k]))])}
     ELSE {<<"object", [n \in {ms[k][1] : k \in DOMAIN ms} |->
                          Last(SelectSeq(ms, LAMBDA m : m[1] = n))[2]]>> :
           ms \in IF AfterComments(inner) = <<>> THEN {<<>>}
                  ELSE Product([k \in DOMAIN items |->
                                  Member(f, AfterComments(items[k]))])}

\* What the text read so far means, whatever follows.
Blankless == SelectSeq(text, LAMBDA t : t \notin {NewLine, Space})
Document ==
  LET s == Blankless
      level == Levels_(s)
  IN UNION {Meaning(features, Bare(features, SubSeq(s, 1, k))) :
            k \in {n \in 1 .. Len(s) : level[n+1] = 0}}
Containers == {m \in Document : m[1] \in {"array", "object"}}

\* Where the reader takes texts that have no meaning: after an empty name a
\* comma may be the last; after a comment behind a member anything is a comma;
\* and where values may be dropped the document may be a "," or a bracket.
Quirk ==
  LET b == Blankless
      s == SelectSeq(b, LAMBDA t : t \notin Comments)
      level == Levels_(s)
      Behind(n) ==      \* there is a comment behind s[n]
        \E k \in DOMAIN b :
          b[k] \in Comments /\ n = Cardinality({j \in 1 .. k : b[j] \notin Comments})
      InBraces(n) == \E j \in 1 .. n :
                       s[j] = Sign("{") /\ \A i \in j + 1 .. n + 1 : level[i] > level[j]
  IN \/ \E n \in 2 .. Len(s) - 1 :
          /\ s[n] = Sign(",") /\ s[n+1] = Sign("}")
          /\ \E j \in 1 .. n - 1 :
               /\ s[j] = <<"string", <<>>>> /\ s[j+1] = Sign(":")
               /\ level[j] = level[n]
     \/ \E n \in 2 .. Len(s) - 1 :
          /\ s[n+1] \notin {Sign(","), Sign("}")}
          /\ s[n] \in {Sign("]"), Sign("}")} \/ s[n-1] = Sign(":")
          /\ InBraces(n) /\ Behind(n)
     \/ s # <<>> /\ Stands(s[1])

-----------------------------------------------------------------------------
(* Properties.                                                             *)

\* Token by token the reader finds what the brackets and commas say: it takes
\* a document exactly if it has a meaning (and, where only an array or an
\* object may be the root, is one), and then the Value is that meaning, with
\* numbers that do not fit an integer as reals and the last of several members
\* of one name; it throws only under as many brackets as the stack may hold.
Means ==
  /\ rpc = "done" /\ written = {} /\ ~Quirk =>
       Plain(root) \in (IF features.strictRoot THEN Containers ELSE Document)
  /\ rpc = "failed" /\ written = {} /\ ~Quirk =>
       (IF features.strictRoot THEN Containers ELSE Document) = {}
  /\ rpc \in {"done", "failed"} => (rpc = "failed" <=> errors > 0)
  /\ rpc = "threw" => Levels_(text)[pos + 1] = StackLimit

\* Whatever has been read and whichever writer prints it, reading the text
\* succeeds and gives the same values: no comment swallows a token, no comma is
\* missing, whatever the layout.  A real without a fraction comes back as an
\* integer; two writers cut names off at a NUL; and without indentation there
\* is no line for a line comment.
RECURSIVE Same(_, _)
Same(v, w) ==
  LET numbers == {"int", "uint", "real"}
      tenths(x) == IF Type(x) = "real" THEN Payload(x) ELSE 10 * Payload(x)
  IN IF Type(v) \in numbers THEN Type(w) \in numbers /\ tenths(v) = tenths(w)
     ELSE /\ Type(v) = Type(w)
          /\ IF Type(v) \in {"array", "object"}
               THEN /\ DOMAIN Payload(v) = DOMAIN Payload(w)
                    /\ \A k \in DOMAIN Payload(v) : Same(Payload(v)[k], Payload(w)[k])
               ELSE Payload(v) = Payload(w)

RECURSIVE Parts(_)
Parts(v) ==
  {v} \cup (IF Type(v) \in {"array", "object"}
             THEN UNION {Parts(Payload(v)[k]) : k \in DOMAIN Payload(v)} ELSE {})

WholeNames(v) == IsObject(v) => \A n \in DOMAIN Payload(v) : CString(n) = n
NoLineComment(v) == \A p \in 1 .. 3 : ~Contains(Comment(v, p), Sign("//"))

Printable(w, v) ==
  /\ w[1] = "styled" \/ (w[1] = "stream" /\ w[2].cnames) => \A x \in Parts(v) : WholeNames(x)
  /\ w[1] = "stream" /\ w[2].comments /\ ~w[2].indentation => \A x \in Parts(v) : NoLineComment(x)

Rereads ==
  \A p \in written : Printable(p[1], p[2]) =>
    /\ rpc \notin {"failed", "threw"}
    /\ (rpc = "done" => Same(p[2], root))
=============================================================================
