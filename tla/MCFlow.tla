------------------------------- MODULE MCFlow -------------------------------
(* Flow with the request socket of pair p1 left unread. *)
EXTENDS Flow, TLC

CONSTANTS p1, p2
LazyPeer == {<<p1, "request">>}
Chunks == [s \in Socket |-> CASE s = <<p1, "tunnel">> -> 2
                              [] s = <<p2, "request">> -> 2
                              [] OTHER -> 0]
Early == {<<p2, "request">>}
Ends == {<<p1, "tunnel">>}
=============================================================================
