---------------------------- MODULE MCWhitelist ----------------------------
(* Networks with short addresses. *)
EXTENDS Networks

\* One string for each network, and dotted masks in an address that is not the
\* network's own; mask 5 is no prefix.
Listed ==
  {s \in Strings : s.kind = "prefix" /\ Accepts(s)
                   /\ s.addr % 2^(Width - s.mask) = 0}
  \cup [addr : {5}, kind : {"dotted"}, mask : 4 .. 7]
=============================================================================
