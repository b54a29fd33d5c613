------------------------------ MODULE Settings ------------------------------
(***************************************************************************)
(* What the settings of a document mean: what the README's example says a  *)
(* service may look like, and the configuration each is to have.           *)
(***************************************************************************)
EXTENDS Configs

CONSTANT Clients     \* the addresses that may ask for a service

ASSUME SettingsAssumption == Clients \subseteq Nat

-----------------------------------------------------------------------------
(* What the README's example says a service may look like.                 *)

\* What is there under name satisfies P.
Given(v, name, P(_)) == Text(name) \in DOMAIN Payload(v) /\ P(Member_(v, name))
Maybe(v, name, P(_)) == Text(name) \in DOMAIN Payload(v) => P(Member_(v, name))

IsNumber(v) == Type(v) \in {"int", "uint"} /\ Payload(v) \in 0 .. MaxUInt
IsBool(v) == Type(v) = "bool"
IsIp(v) == IsString(v) /\ StringToIpint(Payload(v)) \notin {{}, {AnyAddress}}
IsRange(v) == IsString(v) /\ StringToRange(Payload(v)) # {}
IsPort(v) == IsNumber(v) /\ Payload(v) \in 1 .. MaxPort
IsUsers(v) == IsObject(v) /\ \A n \in DOMAIN Payload(v) : IsString(At(v, n))
IsServer(v) == \E t \in ServerTypes : v = NewString(Text(t))

\* One of them, or an array of them.
Listed(v) == IF IsArray(v) THEN Elements(v) ELSE <<v>>
Some(v, P(_)) == \A k \in DOMAIN Listed(v) : P(Listed(v)[k])

IsPeer(v) == IsObject(v) /\ Given(v, "addr", IsString) /\ Given(v, "port", IsPort)
ArePeers(v) == Some(v, IsPeer)
AreRanges(v) == Some(v, IsRange)
IsWhitelist(v) == IsArray(v) /\ AreRanges(v)      \* a single string is passed over
IsDst(v) == IsPeer(v) /\ Maybe(v, "reply", IsBool) /\ Maybe(v, "socks5", ArePeers)
AreDsts(v) == Some(v, IsDst)

Legal(v) ==
  /\ IsObject(v) /\ Given(v, "server", IsServer) /\ Given(v, "port", IsNumber)
  /\ Maybe(v, "bind", IsIp) /\ Maybe(v, "src", AreRanges)
  /\ Maybe(v, "threads", IsNumber) /\ Maybe(v, "bufsize", IsNumber)
  /\ CASE Payload(Member_(v, "server")) = Text("TCPRELAY") ->
            Maybe(v, "socks5", ArePeers) /\ Maybe(v, "socks5-whitelist", IsWhitelist)
       [] Payload(Member_(v, "server")) = Text("REDIRECT") -> Given(v, "dst", AreDsts)
       [] Payload(Member_(v, "server")) = Text("SOCKS5") ->
            /\ Maybe(v, "socks5", ArePeers) /\ Maybe(v, "noauth", IsBool)
            /\ Maybe(v, "validation", IsUsers)
       [] OTHER -> /\ Given(v, "listen", IsString) /\ Maybe(v, "request", IsBool)
                   /\ Maybe(v, "response", IsBool)

\* What is there under name is x, or nothing is and x is the default.
Says(v, name, Is(_, _), x, default) ==
  IF Text(name) \in DOMAIN Payload(v) THEN Is(Member_(v, name), x) ELSE x = default

Is_(v, x) == Payload(v) = x
IsIpOf(v, i) == i \in StringToIpint(Payload(v))
IsLevelOf(v, l) == Payload(v) \in {Text(k) : k \in Levels} => Payload(v) = l
\* The clients that v lets in are those of S; with no range written, all.
LetsIn(v, S) ==
  S = IF Listed(v) = <<>> THEN Clients
      ELSE {ip \in Clients : \E k \in DOMAIN Listed(v) :
              \E r \in StringToRange(Payload(Listed(v)[k])) : ip \in r[1] .. r[2]}
IsPeers(v, ps) ==
  /\ Len(ps) = Len(Listed(v))
  /\ \A k \in DOMAIN ps :
       /\ Payload(Member_(Listed(v)[k], "addr")) = ps[k][1]
       /\ Payload(Member_(Listed(v)[k], "port")) = ps[k][2]
IsDsts(v, ds) ==
  /\ IsPeers(v, [k \in DOMAIN ds |-> ds[k].peer])
  /\ \A k \in DOMAIN ds :
       /\ Says(Listed(v)[k], "reply", Is_, ds[k].reply, TRUE)
       /\ Says(Listed(v)[k], "socks5", IsPeers, ds[k].socks5, <<>>)
\* The whitelist has the same ranges in some order.
HasRanges(v, rs) ==
  /\ ToSet(rs) = UNION {StringToRange(Payload(Listed(v)[k])) : k \in DOMAIN Listed(v)}
  /\ Len(rs) = Len(Listed(v))
SameUsers(v, us) ==
  /\ DOMAIN us = DOMAIN Payload(v)
  /\ \A n \in DOMAIN us : Payload(At(v, n)) = us[n]

Describes(v, c, x) ==
  /\ Payload(Member_(v, "server")) = Text(c.type)
  /\ IsPort(Member_(v, "port")) => Payload(Member_(v, "port")) = c.port
  /\ Says(v, "bind", IsIpOf, c.ip, AnyAddress)
  /\ Says(v, "src", LetsIn, {ip \in Clients : IsIpInRange(c, ip)}, Clients)
  /\ Says(v, "threads", Is_, c.threads, 1)
  /\ Says(v, "bufsize", Is_, c.bufsize, BufSize)
  /\ CASE c.type = "TCPRELAY" ->
            /\ Says(v, "socks5", IsPeers, x[1], <<>>)
            /\ IF Text("socks5") \in DOMAIN Payload(v)
                 THEN Says(v, "socks5-whitelist", HasRanges, x[2], <<>>)
                 ELSE x[2] = <<>>
       [] c.type = "REDIRECT" -> IsDsts(Member_(v, "dst"), x)
       [] c.type = "SOCKS5" ->
            /\ Says(v, "socks5", IsPeers, x[1], <<>>) /\ Says(v, "noauth", Is_, x[2], TRUE)
            /\ Says(v, "validation", SameUsers, x[3], <<>>)
       [] OTHER ->
            /\ Payload(Member_(v, "listen")) = x[1]
            /\ Says(v, "request", Is_, x[2], TRUE) /\ Says(v, "response", Is_, x[3], TRUE)

LegalRoot(v) ==
  /\ IsObject(v) /\ Given(v, "services", IsObject) /\ Maybe(v, "daemon", IsBool)
  /\ Maybe(v, "logpath", IsString) /\ Maybe(v, "loglevel", IsString)

-----------------------------------------------------------------------------
(* Properties.                                                             *)

\* The program has the settings that are written, or the defaults, and each of its
\* services those of its node, if they are as documented; it stops only in front of
\* a service that is not.
SettingsOf(v) ==
  LET nodes_ == Member_(v, "services")
      names == MemberNames(nodes_)
      n == Len(services)
  IN /\ phase \in {"load", "running"} =>
          /\ Says(v, "daemon", Is_, daemon, TRUE)
          /\ Says(v, "logpath", Is_, log[1], Text("syslog"))
          /\ Says(v, "loglevel", IsLevelOf, log[2], Text("info"))
     /\ \A k \in 1 .. n : Legal(At(nodes_, names[k])) =>
          Describes(At(nodes_, names[k]), services[k][2][1], services[k][2][2])
     /\ phase \in {"returned", "threw"} =>
          n < Len(names) /\ ~Legal(At(nodes_, names[n + 1]))
=============================================================================
