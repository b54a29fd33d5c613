---------------------------- MODULE MCConfigFile ----------------------------
(* ConfigFile: texts of a few tokens, and files that differ from a working *)
(* configuration in one place.                                             *)
EXTENDS ConfigFile

Words == <<"A", "B", "addr", "alice", "bind", "bufsize", "daemon", "dst", "listen",
           "loglevel", "logpath", "noauth", "port", "reply", "request", "response",
           "server", "services", "socks5", "socks5-whitelist", "src", "threads",
           "validation">>
MCOrder == <<"#0", "\n", "-", ".">> \o Digits \o <<"a">> \o Words

Chars(s) == <<"string", s>>
Num(s) == <<"number", s>>
MCAlphabet ==
  Punctuation \cup Comments
  \cup {NewLine, Chars(<<>>), Chars(<<"a">>), Num(<<"1">>), Num(<<"3", "2">>)}

Feature(c, s, d, n, l) ==
  [allowComments |-> c, strictRoot |-> s, allowDroppedNullPlaceholders |-> d,
   allowNumericKeys |-> n, collectComments |-> l]
MCFeatures == {Feature(TRUE, FALSE, FALSE, FALSE, TRUE),
               Feature(FALSE, TRUE, FALSE, FALSE, FALSE),
               Feature(TRUE, FALSE, TRUE, TRUE, FALSE)}

L == Sign("[")   R == Sign("]")   O == Sign("{")   C == Sign("}")
N == Sign(":")   K == Sign(",")   X == Sign("/**/")   Y == Sign("//")
Esc == Chars(<<"\\", "n", "\\", "u", "0", "0", "0", "0", "\\", "\"", "\\", "u", "D",
               "8", "0", "0", "\\", "u", "D", "C", "0", "0">>)
MCSeeds ==
  {\* as deep as the stack and deeper
   [k \in 1 .. 16 |-> IF k <= 8 THEN L ELSE R], [k \in 1 .. 18 |-> IF k <= 9 THEN L ELSE R],
   \* one name twice
   <<O, Chars(<<"a">>), N, L, Num(<<"1">>), R, K, Chars(<<"a">>), N, L, Num(<<"1">>), R,
     X, C>>,
   \* numbers
   <<L, Num(<<"-", "1", "6">>), K, Num(<<"-", "1", "7">>), K, Num(<<"3", "1">>), K,
     Num(<<"1", ".", "5">>), K, Num(<<"8">>), K, Sign("true"), K, Sign("false"), K,
     Sign("null"), R>>,
   <<L, Garbage>>,
   \* strings and names with escapes
   <<O, Esc, N, Esc, K, Chars(<<"\\", "n">>), N, Chars(<<"/">>), C>>,
   <<L, Chars(<<"\\", "u", "D", "8", "0", "0", "a">>), R>>,
   \* comments between the values of arrays that take one line or several
   <<L, X, L, Num(<<"1">>), X, R, X, K, Y, NewLine, L, X, NewLine, R, Y, NewLine, K, O, X, C,
     NewLine, X, R, X, NewLine, X>>,
   <<X, O, Y, NewLine, Esc, N, X, L, Num(<<"1">>), K, Num(<<"1">>), X, R, K, Y, NewLine,
     Chars(<<"a">>), N, L, Num(<<"1">>), K, Y, NewLine, Num(<<"1">>), R, C, Y, NewLine>>}

-----------------------------------------------------------------------------
MCClients == 0 .. 7

MCStringToIpint(s) ==
  CASE s = Text("127.0.0.1") -> {5}
    [] s = Text("a.b.c.d") -> {}
    [] OTHER -> {AnyAddress}      \* "0.0.0.0", or no address
MCStringToRange(s) ==
  CASE s = Text("127.0.0.1") -> {<<5, 5>>}
    [] s = Text("2.0.0.0/2") -> {<<2, 3>>}
    [] OTHER -> {}

Obj(f) == New("object", [n \in {Text(w) : w \in DOMAIN f} |-> f[n[1]]])
Arr(vs) == New("array", [k \in 0 .. Len(vs) - 1 |-> vs[k + 1]])
Str(w) == NewString(Text(w))
Whole(n) == New(IF n > MaxInt THEN "uint" ELSE "int", n)
Peer(p) == Obj("addr" :> Str("10.0.0.1") @@ "port" :> Whole(p))

Service(type) == "server" :> Str(type) @@ "port" :> Whole(3)
Relays == Service("TCPRELAY") @@ "socks5" :> Peer(1)
Redirects == Service("REDIRECT") @@ "dst" :> Peer(1)
Listens == Service("BACKDOOR") @@ "listen" :> Str("A")

\* f with another value, or none, for one name.
Without_(f, w) == [n \in DOMAIN f \ {w} |-> f[n]]
Changes(f, w, vs) == {w :> v @@ f : v \in vs} \cup {Without_(f, w)}

Peers == {Peer(0), Peer(7), Peer(8), Peer(16), Arr(<<>>), Arr(<<Peer(2), Peer(1)>>),
          Arr(<<Peer(2), Peer(8)>>), Arr(<<Str("A")>>), Str("A"), Null,
          Obj("addr" :> Str("10.0.0.1")), Obj("port" :> Whole(1)),
          Obj("addr" :> Peer(1) @@ "port" :> Whole(1)),
          Obj("addr" :> Whole(1) @@ "port" :> NewBool(TRUE))}
Ranges == {Str("127.0.0.1"), Arr(<<Str("127.0.0.1"), Str("2.0.0.0/2")>>), Str("A"), Arr(<<>>),
           Arr(<<Str("A")>>), Whole(1), Peer(1)}
Bools == {NewBool(FALSE), NewBool(TRUE), Whole(0), Str("A"), Null}
Numbers == {Whole(0), Whole(9), Whole(16), Whole(-1), New("real", 15), Str("A"), Null}
Dsts == {d @@ p : d \in {"reply" :> NewBool(FALSE), "reply" :> Peer(1),
                         "socks5" :> Peer(2), "socks5" :> Peer(0),
                         "socks5" :> Arr(<<Peer(2), Peer(3)>>)},
                  p \in {"addr" :> Str("10.0.0.1") @@ "port" :> Whole(7)}}

Variants ==
  UNION {
    Changes(Relays, "server", {Str("A"), Whole(1), NewString(<<>>), Null, Peer(1)}),
    Changes(Relays, "port", Numbers), Changes(Relays, "threads", Numbers),
    Changes(Relays, "bufsize", Numbers),
    Changes(Relays, "bind", {Str("127.0.0.1"), Str("a.b.c.d"), Str("0.0.0.0"), Peer(1)}),
    Changes(Relays, "src", Ranges), Changes(Relays, "socks5", Peers),
    Changes(Relays, "socks5-whitelist", Ranges),
    Changes(Service("TCPRELAY"), "socks5-whitelist", {Str("A")}),
    Changes(Redirects, "dst", Peers \cup {Obj(d) : d \in Dsts}
                              \cup {Arr(<<Peer(1), Obj(d)>>) : d \in Dsts}),
    Changes(Service("SOCKS5"), "socks5", Peers),
    Changes(Service("SOCKS5"), "noauth", Bools),
    Changes(Service("SOCKS5"), "validation",
            {Obj("alice" :> Str("A")), Obj("alice" :> Whole(1)), Obj("alice" :> Arr(<<>>)),
             Arr(<<>>), Arr(<<Str("A")>>), Whole(1), Null}),
    Changes(Listens, "listen", {Str("B"), Arr(<<>>)}),
    Changes(Listens, "request", Bools), Changes(Listens, "response", Bools)}

File(v) == Obj("services" :> v)
Roots ==
  UNION {Changes("services" :> Obj("A" :> Obj(Relays)), w,
                 {Str("A"), Str("error"), NewBool(FALSE), Null, Arr(<<>>), Arr(<<Peer(1)>>)}) :
         w \in {"daemon", "logpath", "loglevel", "services"}}
MCFiles ==
  {File(Obj("A" :> Obj(Relays) @@ "B" :> Obj(f))) : f \in Variants}
  \cup {File(Obj("A" :> v @@ "B" :> Obj(Listens))) : v \in {Null, Whole(1), Arr(<<>>)}}
  \cup {Obj(f) : f \in Roots} \cup {Null, Arr(<<>>)}

\* The example of the README, as far as it is about one service, and no texts
\* of other kinds.
NoTexts == {}
DocumentedFiles ==
  {File(Obj("A" :> Obj("bind" :> Str("0.0.0.0") @@ Relays)))}
=============================================================================
