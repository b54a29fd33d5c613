----------------------------- MODULE JsonReader -----------------------------
(***************************************************************************)
(* Json::Reader: parse() and the functions it calls, one token a step, the *)
(* call stack of readValue, readObject and readArray being explicit.  The  *)
(* text is chosen as it is read.                                           *)
(***************************************************************************)
EXTENDS JsonValue

CONSTANTS
  Alphabet,      \* the tokens of a text
  MaxTokens,     \* bound: their number
  Features,      \* records of FeatureFlags
  StackLimit     \* stackLimit_g, 1000

FeatureFlags == [allowComments : BOOLEAN, strictRoot : BOOLEAN,
                 allowDroppedNullPlaceholders : BOOLEAN,
                 allowNumericKeys : BOOLEAN, collectComments : BOOLEAN]

ASSUME JsonReaderAssumption ==
  /\ Features \subseteq FeatureFlags
  /\ MaxTokens \in Nat /\ StackLimit \in Nat \ {0}

VARIABLES
  features,          \* and the argument collectComments
  text, open,        \* the document so far; more of it may follow
  pos,               \* current_: tokens read
  newline,           \* a line ended since lastValueEnd_
  root,              \* the Value parse() fills
  nodes,             \* nodes_: the path from root to currentValue()
  frames,            \* callers of readValue: "object" and its name, "array"
  rpc,               \* what is read next, or the result
  errors,            \* the number of errors
  before,            \* commentsBefore_
  lastValue          \* lastValue_: {}, or its path

input == <<features, text, open, pos, newline>>
reader == <<root, nodes, frames, rpc, errors, before, lastValue>>

Current == ValueAt(root, nodes)
Collect == features.collectComments /\ features.allowComments

Start(t, more) ==
  /\ text = t /\ open = more /\ pos = 0 /\ newline = FALSE
  /\ root = Null /\ nodes = <<>> /\ frames = <<>> /\ rpc = "value"
  /\ errors = 0 /\ before = <<>> /\ lastValue = {}

\* parse() forgets everything of an earlier call.
Restart(t) ==
  /\ text' = t /\ open' = FALSE /\ pos' = 0 /\ newline' = FALSE
  /\ root' = Null /\ nodes' = <<>> /\ frames' = <<>> /\ rpc' = "value"
  /\ errors' = 0 /\ before' = <<>> /\ lastValue' = {}

-----------------------------------------------------------------------------
(* readToken.                                                              *)

Supply ==
  IF pos < Len(text) THEN {text[pos + 1]}
  ELSE IF open THEN Alphabet \cup {EOF} ELSE {EOF}

\* The token t is next: read it, or (n = 0) only look at it.
Take(t, n) ==
  /\ t \in Supply
  /\ text' = IF pos < Len(text) \/ t = EOF THEN text ELSE Append(text, t)
  /\ open' = (open /\ t # EOF /\ Len(text') < MaxTokens)
  /\ pos' = IF t = EOF THEN pos ELSE pos + n
  /\ UNCHANGED features

Read(t) == Take(t, 1) /\ t \notin {NewLine, Space}
Reading == rpc \in {"value", "name", "colon", "comma", "after", "first", "next",
                    "end"}

\* skipSpaces.
SkipSpaces ==
  /\ Reading
  /\ \E t \in {NewLine, Space} :
       Take(t, 1) /\ newline' = (newline \/ t = NewLine)
  /\ UNCHANGED reader

\* A comment is skipped before a value, if the features allow it, before a
\* name and after a value.
Skips == \/ rpc \in {"name", "comma", "after", "next"}
         \/ rpc \in {"value", "end"} /\ features.allowComments

LineEnd == LET ends == {k \in pos + 1 .. Len(text) : text[k] = NewLine}
           IN IF ends = {} THEN Len(text)
              ELSE CHOOSE k \in ends : \A l \in ends : k <= l

\* readComment and addComment.  A line comment goes on to the end of its line
\* or of the text.
ReadComment ==
  /\ Skips
  /\ \/ /\ Sign("/**/") \in Supply
        /\ Take(Sign("/**/"), 1) /\ UNCHANGED newline
     \/ /\ Sign("//") \in Supply
        /\ IF pos < Len(text) THEN UNCHANGED text
           ELSE text' = text \o <<Sign("//"), NewLine>>
        /\ pos' = IF pos < Len(text) THEN LineEnd ELSE pos + 2
        /\ open' = (open /\ Len(text') < MaxTokens)
        /\ newline' = TRUE /\ UNCHANGED features
  /\ rpc' = IF rpc = "comma" THEN "after" ELSE rpc
  /\ LET c == SubSeq(text', pos + 1, pos')
     IN IF ~Collect THEN UNCHANGED <<root, before>>
        ELSE IF lastValue = {} \/ newline
          THEN before' = before \o c /\ UNCHANGED root
        ELSE /\ \E path \in lastValue :
                  root' = Put(root, path,
                    SetComment(ValueAt(root, path), AfterOnSameLine, c))
             /\ UNCHANGED before
  /\ UNCHANGED <<nodes, frames, errors, lastValue>>

-----------------------------------------------------------------------------
(* Going from one function to the next.                                    *)

\* The top of the call stack is the current array or object.
Parent(path) == Front(path)
InObject == frames # <<>> /\ Last(frames)[1] = "object"
Name == Last(frames)[2]
Named_(name) == [frames EXCEPT ![Len(frames)] = <<"object", name>>]

\* readValue is called, one level deeper: depth counts the calls to it.
Enter(value, path, depth) ==
  /\ root' = value /\ nodes' = path
  /\ rpc' = IF depth >= StackLimit THEN "threw" ELSE "value"

\* A slip: only a scalar becomes the last value.
LastValue_Scalar ==
  IF Type(ValueAt(root', nodes)) \in {"array", "object"} THEN lastValue ELSE {nodes}
LastValue == {nodes}

\* readValue returns true for the current value, of payload w.
Return(w, callers) ==
  /\ root' = Put(root, nodes, w)
  /\ frames' = callers
  /\ lastValue' = IF Collect THEN LastValue ELSE lastValue
  /\ newline' = (newline /\ ~Collect)
  /\ IF callers = <<>> THEN rpc' = "end" /\ UNCHANGED nodes
     ELSE /\ rpc' = IF Last(callers)[1] = "object" THEN "comma" ELSE "next"
          /\ nodes' = Parent(nodes)

\* addError.  Whatever recoverFromError skips, no caller reads another value,
\* and parse() adds at most an error about the root.
Fail ==
  /\ errors' = 1 + IF features.strictRoot /\ Type(root') \notin {"array", "object"}
                   THEN 1 ELSE 0
  /\ rpc' = "failed"
  /\ UNCHANGED <<nodes, frames, lastValue, newline>>

-----------------------------------------------------------------------------
(* readValue.                                                              *)

\* The current value with the comments before it.
Commented ==
  IF Collect /\ before # <<>> THEN SetComment(Current, Before, before) ELSE Current
NoneBefore == before' = IF Collect THEN <<>> ELSE before

\* What a token of a scalar stands for: {} if it cannot be decoded.
Scalar(t) ==
  CASE t[1] = "number" -> {NewNumber(n) : n \in DecodeNumber(t[2])}
    [] t[1] = "string" -> {NewString(s) : s \in DecodeString(t[2])}
    [] t[1] = "true"   -> {NewBool(TRUE)}
    [] t[1] = "false"  -> {NewBool(FALSE)}
    [] t[1] = "null"   -> {Null}
    [] OTHER -> {}

ReadScalar ==
  /\ rpc = "value"
  /\ \E t \in Supply : \E v \in Scalar(t) :
       Read(t) /\ Return(SwapPayload(Commented, v), frames)
  /\ NoneBefore /\ UNCHANGED errors

ReadObject ==
  /\ rpc = "value" /\ Read(Sign("{"))
  /\ root' = Put(root, nodes, SwapPayload(Commented, NewObject))
  /\ frames' = Append(frames, <<"object", <<>>>>) /\ rpc' = "name"
  /\ NoneBefore /\ UNCHANGED <<nodes, errors, lastValue, newline>>

ReadArray ==
  /\ rpc = "value" /\ Read(Sign("["))
  /\ root' = Put(root, nodes, SwapPayload(Commented, NewArray))
  /\ frames' = Append(frames, <<"array", <<>>>>) /\ rpc' = "first"
  /\ NoneBefore /\ UNCHANGED <<nodes, errors, lastValue, newline>>

Stands(t) == features.allowDroppedNullPlaceholders
             /\ t \in {Sign(","), Sign("}"), Sign("]")}

\* The token is unread, and a null put before it.
ReadDropped ==
  /\ rpc = "value"
  /\ \E t \in Supply :
       Stands(t) /\ Take(t, 0) /\ Return(SwapPayload(Commented, Null), frames)
  /\ NoneBefore /\ UNCHANGED errors

ReadNothing ==
  /\ rpc = "value"
  /\ \E t \in Supply :
       /\ t \notin {Sign("{"), Sign("[")} /\ Scalar(t) = {} /\ ~Stands(t)
       /\ ~(t \in Comments /\ Skips)
       /\ Read(t)
  /\ root' = Put(root, nodes, Commented) /\ NoneBefore /\ Fail

-----------------------------------------------------------------------------
(* readObject.                                                             *)

\* An object that is empty, or whose last name was.
ReadObjectEnd ==
  /\ rpc = "name" /\ Name = <<>> /\ Read(Sign("}"))
  /\ Return(Current, Front(frames))
  /\ UNCHANGED <<errors, before>>

NameOf(t) ==
  CASE t[1] = "string" -> DecodeString(t[2])
    [] t[1] = "number" /\ features.allowNumericKeys ->
         UNION {AsString(NewNumber(n)) : n \in DecodeNumber(t[2])}
    [] OTHER -> {}

ReadName ==
  /\ rpc = "name"
  /\ \E t \in Supply : \E n \in NameOf(t) : Read(t) /\ frames' = Named_(n)
  /\ rpc' = "colon"
  /\ UNCHANGED <<root, nodes, errors, before, lastValue, newline>>

NoName ==
  /\ rpc = "name"
  /\ \E t \in Supply :
       /\ NameOf(t) = {} /\ t \notin Comments
       /\ ~(t = Sign("}") /\ Name = <<>>)
       /\ Read(t)
  /\ UNCHANGED <<root, before>> /\ Fail

ReadColon ==
  /\ rpc = "colon"
  /\ \E t \in Supply :
       /\ Read(t)
       /\ IF t = Sign(":")
            THEN /\ Enter(Put(root, nodes, Resolved(Current, NewObject, Name)),
                          Append(nodes, Name), Len(frames))
                 /\ UNCHANGED <<frames, errors, before, lastValue, newline>>
            ELSE UNCHANGED <<root, before>> /\ Fail

\* After a member: once there was a comment, whatever follows it separates.
ReadComma ==
  /\ rpc \in {"comma", "after"}
  /\ \E t \in Supply \ Comments :
       /\ Read(t)
       /\ IF t = Sign("}")
            THEN Return(Current, Front(frames)) /\ UNCHANGED <<errors, before>>
          ELSE IF t = Sign(",") \/ rpc = "after"
            THEN /\ rpc' = "name"
                 /\ UNCHANGED <<root, nodes, frames, errors, before, lastValue,
                                newline>>
          ELSE UNCHANGED <<root, before>> /\ Fail

-----------------------------------------------------------------------------
(* readArray.                                                              *)

\* The next index: the first one that the array has not.
Element == /\ Enter(Put(root, nodes, Resolved(Current, NewArray, Size(Current))),
                    Append(nodes, Size(Current)), Len(frames))
           /\ UNCHANGED <<frames, errors, before, lastValue, newline>>

ReadFirst ==
  /\ rpc = "first"
  /\ \E t \in Supply \ {NewLine, Space} :
       IF t = Sign("]")
         THEN Read(t) /\ Return(Current, Front(frames)) /\ UNCHANGED <<errors, before>>
         ELSE Take(t, 0) /\ Element

ReadNext ==
  /\ rpc = "next"
  /\ \E t \in Supply \ Comments :
       /\ Read(t)
       /\ CASE t = Sign("]") ->
                 Return(Current, Front(frames)) /\ UNCHANGED <<errors, before>>
            [] t = Sign(",") -> Element
            [] OTHER -> UNCHANGED <<root, before>> /\ Fail

-----------------------------------------------------------------------------
\* parse() has its value: the comments that follow, and no more of the text.
Finish ==
  /\ rpc = "end"
  /\ \E t \in Supply : ~(t \in Comments /\ Skips) /\ Read(t)
  /\ root' = IF Collect /\ before # <<>> THEN SetComment(root, After, before) ELSE root
  /\ IF features.strictRoot /\ Type(root) \notin {"array", "object"}
       THEN rpc' = "failed" /\ errors' = 1
       ELSE rpc' = "done" /\ UNCHANGED errors
  /\ UNCHANGED <<nodes, frames, before, lastValue, newline>>

Parse ==
  \/ SkipSpaces \/ ReadComment
  \/ ReadScalar \/ ReadObject \/ ReadArray \/ ReadDropped \/ ReadNothing
  \/ ReadObjectEnd \/ ReadName \/ NoName \/ ReadColon \/ ReadComma
  \/ ReadFirst \/ ReadNext
  \/ Finish

\* The reader by itself: any text, with any features, and parse() called again
\* with another text at any time.
ReaderSpec ==
  /\ features \in FeatureFlags /\ Start(text, open)
  /\ [][Parse \/ (Restart(text') /\ UNCHANGED features)]_<<input, reader>>

-----------------------------------------------------------------------------
(* Properties.                                                             *)

\* The pointers that the reader keeps, to the values it is in and to the last
\* one it finished, for a comment on the same line, are never stale: each is
\* the path of a value that the root still holds.
PointersLive ==
  \A path \in {nodes} \cup lastValue : Lives(root, path)
=============================================================================
