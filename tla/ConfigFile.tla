----------------------------- MODULE ConfigFile -----------------------------
(***************************************************************************)
(* The configuration: its text is read by Json::Reader and the services    *)
(* are constructed from what has been read.  The other texts are those of  *)
(* Json, read and printed for their own sake.                              *)
(***************************************************************************)
EXTENDS Json, Settings

CONSTANTS
  Seeds,     \* texts that are longer than MaxTokens allows
  Files      \* the values that configuration files hold

VARIABLE file      \* {}, or the value the text was printed from

vars == <<input, reader, written, conf, file>>

\* Features::all(), and no comments kept.
MainFeatures ==
  [allowComments |-> TRUE, strictRoot |-> FALSE,
   allowDroppedNullPlaceholders |-> FALSE, allowNumericKeys |-> FALSE,
   collectComments |-> FALSE]

Init ==
  /\ written = {} /\ Off
  /\ \/ /\ file = {} /\ features \in Features
        /\ Start(<<>>, TRUE) \/ \E t \in Seeds : Start(t, FALSE)
     \/ \E v \in Files :
          file = {v} /\ features = MainFeatures /\ Start(FastWrite(v), FALSE)

Next ==
  \/ Parse /\ UNCHANGED <<written, conf, file>>
  \/ (\E w \in Writers : Write(w)) /\ UNCHANGED <<conf, file>>
  \/ /\ file # {} /\ rpc = "done" /\ Load(root)
     /\ UNCHANGED <<input, reader, written, file>>

Spec == Init /\ [][Next]_vars

-----------------------------------------------------------------------------
(* Properties.                                                             *)

\* From the text of a file the program gets the services that the file
\* describes, each with the settings written there or the documented defaults,
\* in the order of their names; it runs only with all of them constructed, and
\* stops before only in front of one that is not as documented.  No proxy or
\* destination has the port 0 or one that does not fit, whatever is written.
AsWritten ==
  \A v \in file : LegalRoot(v) =>
    rpc \notin {"failed", "threw"} /\ ServicesOf(v) /\ PortsFit /\ SettingsOf(v)

\* README.md:40: "bind" : "0.0.0.0" binds on all interfaces.  A service that asks
\* for it does not end the program.
BindsAll ==
  \A v \in file : phase = "threw" =>
    LET nodes_ == Member_(v, "services")
    IN ~Given(At(nodes_, MemberNames(nodes_)[Len(services) + 1]), "bind",
              LAMBDA b : b = NewString(Text("0.0.0.0")))
=============================================================================
