------------------------------ MODULE MCSocks5 ------------------------------
(* Socks5 with two clients and the requests that are handled differently.  *)
EXTENDS Socks5, TLC

Wants(ms, ok, cmd, atyp) ==
  [methods |-> ms, valid |-> ok, cmd |-> cmd, atyp |-> atyp]

FewRequests ==
  { Wants(<<"noauth">>, TRUE, "connect", "ipv4"),
    Wants(<<"other", "userpwd">>, TRUE, "connect", "dname"),
    Wants(<<"userpwd", "noauth">>, FALSE, "connect", "ipv4"),
    Wants(<<"other">>, TRUE, "connect", "ipv4"),
    Wants(<<"noauth">>, TRUE, "bind", "ipv4"),
    Wants(<<"noauth", "other">>, TRUE, "connect", "ipv6") }
=============================================================================
