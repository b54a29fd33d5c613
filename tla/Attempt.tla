------------------------------ MODULE Attempt ------------------------------
(* What accept_new_incoming promises to the main loop and to the workers:  *)
(* one client at a time gets either two descriptors and a place in the     *)
(* tables, or none; while it is served it never holds more than two.       *)
EXTENDS Naturals

CONSTANT Clients
VARIABLES state, held, adrift

vars == <<state, held, adrift>>

Init ==
  /\ state = [c \in Clients |-> "absent"]
  /\ held = [c \in Clients |-> 0]
  /\ adrift = FALSE

Change(c, from, to, n) ==
  /\ state[c] \in from
  /\ state' = [state EXCEPT ![c] = to]
  /\ held' = [held EXCEPT ![c] = n]

Idle == \A c \in Clients : state[c] # "open"

Arrive(c) == Idle /\ Change(c, {"absent"}, "open", 1)

\* A socket for a destination is made, or closed again.
Try(c) == \E n \in {1, 2} : Change(c, {"open"}, "open", n)

Relay(c) == held[c] = 2 /\ Change(c, {"open"}, "relayed", 2)

Leave(c) == Change(c, {"open", "relayed"}, "gone", 0)

\* Once a number has been used for an object it does not mean, nothing is
\* promised.
Next ==
  \/ /\ \E c \in Clients : Arrive(c) \/ Try(c) \/ Relay(c) \/ Leave(c)
     /\ UNCHANGED adrift
  \/ adrift'

Spec == Init /\ [][Next]_vars
=============================================================================
