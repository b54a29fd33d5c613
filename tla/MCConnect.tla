----------------------------- MODULE MCConnect -----------------------------
(* Connect on small instances. *)
EXTENDS Connect, TLC

CONSTANTS a1, a2, a3, p1, p2

Dest(a, ps) == [addr |-> a, proxies |-> ps]

\* README.md: a destination with a proxy, then one without.
ReadmePlan == <<Dest(a1, <<p1>>), Dest(a2, <<>>)>>

\* A destination without proxy between two proxied ones; the first, with two
\* proxies, is the one address a client of TCPRELAY or SOCKS5 wants.
Mixed == <<Dest(a1, <<p1, p2>>), Dest(a2, <<>>), Dest(a3, <<p2>>)>>

Symmetry == Permutations(Fds)
=============================================================================
