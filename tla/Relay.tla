-------------------------------- MODULE Relay --------------------------------
(***************************************************************************)
(* What the tunnel promises about connections once they are registered:    *)
(* each pair is two lossless streams that end together.  Chunk k of socket *)
(* s is <<s, k>>.  The promise ends when the relay confuses two sockets    *)
(* (adrift); it says nothing of numbers, queues, events or threads.        *)
(***************************************************************************)
EXTENDS Naturals, Sequences

CONSTANTS
  Sockets,
  Nobody,    \* the peer of a socket that is not registered
  Patient    \* a pair is never given up because a peer reads slowly

VARIABLES
  peer,      \* peer[s]: the other end of s's pair
  ended,     \* sockets that were registered and have been closed
  sent,      \* sent[s]: chunks that have come in on s
  received,  \* received[s]: chunks that went out on s
  done,      \* sockets whose connection has ended or broken
  adrift

vars == <<peer, ended, sent, received, done, adrift>>

Init ==
  /\ peer = [s \in Sockets |-> Nobody]
  /\ ended = {} /\ done = {}
  /\ sent = [s \in Sockets |-> 0]
  /\ received = [s \in Sockets |-> <<>>]
  /\ adrift = FALSE

Relayed(s) == peer[s] # Nobody /\ s \notin ended
Passed(s) == IF peer[s] = Nobody THEN 0 ELSE Len(received[peer[s]])

Register(s, t) ==
  /\ s # t /\ peer[s] = Nobody /\ peer[t] = Nobody
  /\ peer' = [peer EXCEPT ![s] = t, ![t] = s]
  /\ UNCHANGED <<ended, sent, received, done>>

Send(s) ==
  /\ s \notin done
  /\ sent' = [sent EXCEPT ![s] = @ + 1]
  /\ UNCHANGED <<peer, ended, received, done>>

Finish(s) ==
  /\ s \notin done
  /\ done' = done \cup {s}
  /\ UNCHANGED <<peer, ended, sent, received>>

\* The next chunk of the other end goes out; a write that was under way when
\* the pair was closed may still complete.
Deliver(s) ==
  /\ peer[s] # Nobody
  /\ Len(received[s]) < sent[peer[s]]
  /\ received' =
       [received EXCEPT ![s] = Append(@, <<peer[s], Len(received[s]) + 1>>)]
  /\ UNCHANGED <<peer, ended, sent, done>>

\* Both ends are closed at once; a patient relay does so only when one of them
\* is done.
End(s) ==
  /\ Relayed(s)
  /\ Patient => {s, peer[s]} \cap done # {}
  /\ ended' = ended \cup {s, peer[s]}
  /\ UNCHANGED <<peer, sent, received, done>>

Next ==
  \/ adrift'
  \/ /\ ~adrift'
     /\ \E s \in Sockets :
          \/ Send(s) \/ Finish(s) \/ Deliver(s) \/ End(s)
          \/ \E t \in Sockets : Register(s, t)

Spec == Init /\ [][Next]_vars

\* Every chunk that comes in is sent on, unless the pair ends first.
Arrives ==
  \A s \in Sockets :
    (Relayed(s) /\ Passed(s) < sent[s])
      ~> (Passed(s) = sent[s] \/ s \in ended \/ adrift)

\* When one end is done, the pair ends.
EndsTogether ==
  \A s \in Sockets : (Relayed(s) /\ s \in done) ~> (s \in ended \/ adrift)
=============================================================================
