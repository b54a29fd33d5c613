---------------------------- MODULE JsonWriters ----------------------------
(***************************************************************************)
(* The writers of jsoncpp, as functions from a value to the tokens they    *)
(* print; blanks matter where a writer looks at them or a line comment     *)
(* would go on.  Settings that drop null placeholders or are for YAML are  *)
(* left alone.                                                             *)
(***************************************************************************)
EXTENDS JsonValue

CONSTANT RightMargin      \* rightMargin_, 74: lines of fewer characters

\* A writer while it writes: document_, childValues_, indented_, and how often
\* indent() has been called.
Fresh == [doc |-> <<>>, kids |-> <<>>, indented |-> TRUE, depth |-> 0]

Put_(st, tokens) == [st EXCEPT !.doc = @ \o tokens]

ScalarToken(v) ==
  CASE Type(v) = "null"   -> Sign("null")
    [] Type(v) = "bool"   -> Sign(IF Payload(v) THEN "true" ELSE "false")
    [] Type(v) = "string" -> <<"string", ValueToQuotedStringN(Payload(v))>>
    [] Type(v) \in {"int", "uint"} -> <<"number", ValueToString(Payload(v))>>
    [] Type(v) = "real"   -> <<"number", DoubleToString(Payload(v))>>

Empty(v) == (IsArray(v) \/ IsObject(v)) /\ Size(v) = 0
EmptyTokens(v) == IF IsArray(v) THEN <<Sign("["), Sign("]")>>
                  ELSE <<Sign("{"), Sign("}")>>
Flat(v) == Type(v) \notin {"array", "object"} \/ Empty(v)
FlatTokens(v) == IF Empty(v) THEN EmptyTokens(v) ELSE <<ScalarToken(v)>>

\* What is between the elements of a sequence ts of tokens.
Separated(ts, sep) ==
  FlattenSeq([k \in DOMAIN ts |-> IF k = 1 THEN ts[k] ELSE sep \o ts[k]])

-----------------------------------------------------------------------------
(* FastWriter.                                                             *)

RECURSIVE FastTokens(_)
FastTokens(v) ==
  CASE IsArray(v) ->
         <<Sign("[")>>
         \o Separated([k \in DOMAIN Elements(v) |-> FastTokens(Elements(v)[k])],
                      <<Sign(",")>>)
         \o <<Sign("]")>>
    [] IsObject(v) ->
         LET names == MemberNames(v)
         IN <<Sign("{")>>
            \o Separated([k \in DOMAIN names |->
                            <<<<"string", ValueToQuotedStringN(names[k])>>,
                              Sign(":")>> \o FastTokens(At(v, names[k]))],
                         <<Sign(",")>>)
            \o <<Sign("}")>>
    [] OTHER -> <<ScalarToken(v)>>

FastWrite(v) == FastTokens(v) \o <<NewLine>>

-----------------------------------------------------------------------------
(* isMultineArray, which the other three have in common: childValues_ is   *)
(* left with the values of an array that fits into one line.               *)

Cleared(st) == [st EXCEPT !.kids = <<>>]

Width(tokens) ==
  FoldLeft(LAMBDA n, t : n + (IF t[1] \in {"number", "string"} THEN Len(t[2]) ELSE 1),
           0, tokens)

Long(v) == \/ Size(v) * 3 >= RightMargin
           \/ \E k \in DOMAIN Elements(v) : ~Flat(Elements(v)[k])
Values(st, v) ==
  [st EXCEPT !.kids = @ \o [k \in DOMAIN Elements(v) |-> FlatTokens(Elements(v)[k])]]
Wide(st, v) ==
  4 + (Size(v) - 1) * 2 + FoldLeft(LAMBDA n, k : n + Width(k), 0, st.kids) >= RightMargin

\* <<whether the array takes several lines, the writer afterwards>>
IsMultineArray(st, v) ==
  IF Long(v) THEN <<TRUE, Cleared(st)>>
  ELSE LET s == Values(Cleared(st), v)
       IN <<Wide(s, v) \/ \E k \in DOMAIN Elements(v) : HasComment(Elements(v)[k]), s>>

OneLine(st, open, close) ==
  Put_(st, open \o Separated(st.kids, <<Sign(","), Space>>) \o close)

Indented(st) == [st EXCEPT !.depth = @ + 1]
Unindented(st) == [st EXCEPT !.depth = @ - 1]

-----------------------------------------------------------------------------
(* StyledWriter.                                                           *)

\* A slip: the line that has been begun is not ended.
StyledIndent_SameLine(st) == Put_(st, IF st.depth > 0 THEN <<Space>> ELSE <<>>)
\* writeIndent looks at what has been written.
StyledIndent(st) ==
  LET last == IF st.doc = <<>> THEN NewLine ELSE Last(st.doc)
  IN IF last = Space THEN st
     ELSE Put_(st, (IF last # NewLine THEN <<NewLine>> ELSE <<>>)
                   \o (IF st.depth > 0 THEN <<Space>> ELSE <<>>))
StyledWithIndent(st, tokens) == Put_(StyledIndent(st), tokens)

StyledCommentBefore(st, v) ==
  IF Comment(v, Before) = <<>> THEN st
  ELSE Put_(StyledIndent(Put_(st, <<NewLine>>)), Comment(v, Before) \o <<NewLine>>)

StyledCommentAfter(st, v) ==
  Put_(st, (IF Comment(v, AfterOnSameLine) = <<>> THEN <<>>
            ELSE <<Space>> \o Comment(v, AfterOnSameLine))
           \o (IF Comment(v, After) = <<>> THEN <<>>
               ELSE <<NewLine>> \o Comment(v, After) \o <<NewLine>>))

RECURSIVE StyledValue(_, _)

\* The child with its comments and the comma; one is called for each child.
StyledChild(st, v, last, print(_)) ==
  LET s == print(StyledCommentBefore(st, v))
  IN StyledCommentAfter(IF last THEN s ELSE Put_(s, <<Sign(",")>>), v)

StyledArray(st, v) ==
  LET m == IsMultineArray(st, v)
      cached == m[2].kids # <<>>
      kids == m[2].kids
      child(s, k) ==
        StyledChild(s, Elements(v)[k], k = Size(v),
          LAMBDA t : IF cached THEN StyledWithIndent(t, kids[k])
                     ELSE StyledValue(StyledIndent(t), Elements(v)[k]))
  IN IF m[1]
       THEN StyledWithIndent(
              Unindented(FoldLeft(child, Indented(StyledWithIndent(m[2], <<Sign("[")>>)),
                                  [k \in 1 .. Size(v) |-> k])),
              <<Sign("]")>>)
       ELSE OneLine(m[2], <<Sign("["), Space>>, <<Space, Sign("]")>>)

StyledObject(st, v) ==
  LET names == MemberNames(v)
      child(s, k) ==
        StyledChild(s, At(v, names[k]), k = Len(names),
          LAMBDA t : StyledValue(
            Put_(StyledWithIndent(t, <<<<"string", ValueToQuotedString(names[k])>>>>),
                 <<Space, Sign(":"), Space>>), At(v, names[k])))
  IN StyledWithIndent(
       Unindented(FoldLeft(child, Indented(StyledWithIndent(st, <<Sign("{")>>)),
                           [k \in DOMAIN names |-> k])),
       <<Sign("}")>>)

StyledValue(st, v) ==
  CASE Flat(v)    -> Put_(st, FlatTokens(v))
    [] IsArray(v) /\ ~Flat(v) -> StyledArray(st, v)
    [] OTHER -> StyledObject(st, v)

StyledWrite(v) ==
  StyledCommentAfter(StyledValue(StyledCommentBefore(Fresh, v), v), v).doc \o <<NewLine>>

-----------------------------------------------------------------------------
(* StyledStreamWriter and BuiltStyledStreamWriter, which cannot look at     *)
(* what they have written and keep indented_ instead.                      *)

\* indentation: it is not empty; comments: they are printed; all: CommentStyle
\* is All, and every array takes several lines; cnames: names end at their first
\* zero.
StyledStream == [indentation |-> TRUE, comments |-> TRUE, all |-> FALSE,
                 cnames |-> TRUE]
Built(indentation, comments) ==
  [indentation |-> indentation, comments |-> comments, all |-> comments,
   cnames |-> FALSE]

StreamIndent(w, st) == IF w.indentation THEN Put_(st, <<NewLine>>) ELSE st
StreamBegin(w, st) == IF st.indented THEN st ELSE StreamIndent(w, st)
StreamWithIndent(w, st, tokens) ==
  [Put_(StreamBegin(w, st), tokens) EXCEPT !.indented = FALSE]

StreamCommentBefore(w, st, v) ==
  IF ~w.comments \/ Comment(v, Before) = <<>> THEN st
  ELSE StreamWithIndent(w, st, Comment(v, Before))

StreamCommentAfter(w, st, v) ==
  LET same == Put_(st, IF Comment(v, AfterOnSameLine) = <<>> THEN <<>>
                       ELSE <<Space>> \o Comment(v, AfterOnSameLine))
      after == IF Comment(v, After) = <<>> THEN same
               ELSE Put_(StreamIndent(w, same), Comment(v, After))
  IN IF ~w.comments THEN st
     ELSE IF w.all THEN after ELSE [after EXCEPT !.indented = FALSE]

RECURSIVE StreamValue(_, _, _)

StreamChild(w, st, v, last, print(_)) ==
  LET s == print(StreamCommentBefore(w, st, v))
  IN StreamCommentAfter(w, IF last THEN s ELSE Put_(s, <<Sign(",")>>), v)

StreamArray(w, st, v) ==
  LET m == IF w.all THEN <<TRUE, st>> ELSE IsMultineArray(st, v)
      cached == m[2].kids # <<>>
      kids == m[2].kids
      whole(t, k) ==
        [StreamValue(w, [StreamBegin(w, t) EXCEPT !.indented = TRUE], Elements(v)[k])
           EXCEPT !.indented = FALSE]
      child(s, k) ==
        StreamChild(w, s, Elements(v)[k], k = Size(v),
          LAMBDA t : IF cached THEN StreamWithIndent(w, t, kids[k]) ELSE whole(t, k))
  IN IF m[1]
       THEN StreamWithIndent(w,
              Unindented(FoldLeft(child,
                Indented(StreamWithIndent(w, m[2], <<Sign("[")>>)),
                [k \in 1 .. Size(v) |-> k])),
              <<Sign("]")>>)
       ELSE OneLine(m[2], <<Sign("["), Space>>, <<Space, Sign("]")>>)

StreamObject(w, st, v) ==
  LET names == MemberNames(v)
      quoted(n) == <<"string", IF w.cnames THEN ValueToQuotedString(n)
                               ELSE ValueToQuotedStringN(n)>>
      child(s, k) ==
        StreamChild(w, s, At(v, names[k]), k = Len(names),
          LAMBDA t : StreamValue(w,
            Put_(StreamWithIndent(w, t, <<quoted(names[k])>>),
                 <<Space, Sign(":"), Space>>), At(v, names[k])))
  IN StreamWithIndent(w,
       Unindented(FoldLeft(child, Indented(StreamWithIndent(w, st, <<Sign("{")>>)),
                           [k \in DOMAIN names |-> k])),
       <<Sign("}")>>)

StreamValue(w, st, v) ==
  CASE Flat(v) -> Put_(st, FlatTokens(v))
    [] IsArray(v) /\ ~Flat(v) -> StreamArray(w, st, v)
    [] OTHER -> StreamObject(w, st, v)

StreamWrite(w, v) ==
  LET st == StreamBegin(w, StreamCommentBefore(w, Fresh, v))
  IN StreamCommentAfter(w, StreamValue(w, [st EXCEPT !.indented = TRUE], v), v).doc
     \o (IF w = StyledStream THEN <<NewLine>> ELSE <<>>)
=============================================================================
