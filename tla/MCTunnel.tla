------------------------------ MODULE MCTunnel ------------------------------
(* Tunnel on small instances. *)
EXTENDS Tunnel, TLC

\* Numbers and threads are interchangeable.
Symmetry == Permutations(Fds) \cup Permutations(Workers)
=============================================================================
