------------------------------ MODULE Configs ------------------------------
(***************************************************************************)
(* main() from the document to the running services, and the constructors  *)
(* of td_config and its four subclasses.  What throws is not caught: the   *)
(* program ends, whatever services already listen.                         *)
(***************************************************************************)
EXTENDS JsonValue

CONSTANTS
  MaxPort,            \* 2^16 - 1, reduced
  BufSize,            \* 16384, reduced
  StringToIpint(_),   \* g_string_to_ipint and g_string_to_range, which makes
  StringToRange(_)    \* <<low, high>>: sets, {} if they throw

ASSUME ConfigsAssumption == MaxPort \in Nat \ {0} /\ BufSize \in 0 .. MaxUInt

VARIABLES
  phase,       \* "off", "load", "running", "returned", "threw"
  daemon, log, \* log: td_log_start's target and level
  services     \* the services so far: name, configuration, does it listen

conf == <<phase, daemon, log, services>>

Off == phase = "off" /\ daemon = TRUE /\ log = <<>> /\ services = <<>>

-----------------------------------------------------------------------------
(* Reading a member.  Asking a value that is neither an object nor null for *)
(* a member throws.                                                         *)

Has(v, name) == TRUE \in IsMember(v, Text(name))
Member_(v, name) == At(v, Text(name))

\* The set of the results of F for what v holds under name, or of the default.
Optional(v, name, F(_), default) ==
  IF Has(v, name) THEN F(Member_(v, name)) ELSE {default}
Required(v, name, F(_)) == IF Has(v, name) THEN F(Member_(v, name)) ELSE {}

\* The results of F for the elements of an array, {} if one throws.
AllOf(v, F(_)) ==
  IF \E k \in 1 .. Size(v) : F(At(v, k - 1)) = {} THEN {}
  ELSE {[k \in 1 .. Size(v) |-> CHOOSE x \in F(At(v, k - 1)) : TRUE]}

-----------------------------------------------------------------------------
(* Peers and destinations.                                                 *)

\* g_object_to_peerinfo, and a slip of it.
PortOf_Unchecked(v) == AsUInt(v)
PortOf(v) == AsUInt(v) \cap 1 .. MaxPort
PeerInfo(v) ==
  {<<a, p>> : a \in Required(v, "addr", AsString), p \in Required(v, "port", PortOf)}

Socks5List(v) ==
  CASE IsObject(v) -> {<<p>> : p \in PeerInfo(v)}
    [] IsArray(v)  -> AllOf(v, PeerInfo)
    [] OTHER -> {}

Dst(v) ==
  {[peer |-> p, reply |-> r, socks5 |-> ps] :
     p \in PeerInfo(v), r \in Optional(v, "reply", AsBool, TRUE),
     ps \in Optional(v, "socks5", Socks5List, <<>>)}

-----------------------------------------------------------------------------
(* td_config.                                                              *)

ServerTypes == {"TCPRELAY", "REDIRECT", "SOCKS5", "BACKDOOR"}
ServerTypeFromString(s) == {t \in ServerTypes : s = Text(t)}
TypeOf(v) == UNION {ServerTypeFromString(s) : s \in AsString(v)}

AnyAddress == 0
LocalIp(v) == (UNION {StringToIpint(s) : s \in AsString(v)}) \ {AnyAddress}

RangeOf(v) == UNION {StringToRange(s) : s \in AsString(v)}
\* A value of another type is passed over.
Sources(v) ==
  CASE IsString(v) -> {<<r>> : r \in RangeOf(v)}
    [] IsArray(v)  -> AllOf(v, RangeOf)
    [] OTHER -> {<<>>}

Port(v) == {p % (MaxPort + 1) : p \in AsUInt(v)}

Config(v) ==
  {[type |-> t, port |-> p, ip |-> i, src |-> s, threads |-> n, bufsize |-> b] :
     t \in Required(v, "server", TypeOf), p \in Required(v, "port", Port),
     i \in Optional(v, "bind", LocalIp, AnyAddress),
     s \in Optional(v, "src", Sources, <<>>),
     n \in Optional(v, "threads", AsUInt, 1),
     b \in Optional(v, "bufsize", AsUInt, BufSize)}

\* No ranges let every address in.
IsIpInRange(c, ip) ==
  c.src = <<>> \/ \E k \in DOMAIN c.src : c.src[k][1] <= ip /\ ip <= c.src[k][2]

-----------------------------------------------------------------------------
(* The subclasses: what each adds to td_config.                            *)

\* std::sort by the lower ends, which leaves the order of ties open.
Sorted(rs) ==
  {q \in {[k \in DOMAIN rs |-> rs[p[k]]] : p \in Bijection(DOMAIN rs, DOMAIN rs)} :
     \A i, j \in DOMAIN rs : i < j => q[i][1] <= q[j][1]}
\* The whitelist, which is compiled in, is read only if there are proxies.
\* Whitelist has what it is used for.
Whitelisted(v) ==
  IF Size(v) > 0 /\ ~IsArray(v) THEN {}
  ELSE UNION {Sorted(rs) : rs \in AllOf(v, RangeOf)}
TcpRelay(v) ==
  {<<ps, w>> : ps \in Optional(v, "socks5", Socks5List, <<>>),
     w \in IF Has(v, "socks5") THEN Optional(v, "socks5-whitelist", Whitelisted, <<>>)
           ELSE {<<>>}}

Destinations(v) ==
  CASE IsObject(v) -> {<<d>> : d \in Dst(v)}
    [] IsArray(v)  -> AllOf(v, Dst)
    [] OTHER -> {}
Redirect(v) == Required(v, "dst", Destinations)

\* usrpwd_map_.  Looking up an element of an array by its index as a name throws.
Users(v) ==
  CASE IsObject(v) ->
         IF \E n \in DOMAIN Payload(v) : AsString(At(v, n)) = {} THEN {}
         ELSE {[n \in DOMAIN Payload(v) |-> CHOOSE s \in AsString(At(v, n)) : TRUE]}
    [] IsArray(v) /\ Size(v) > 0 -> {}
    [] OTHER -> {<<>>}
Socks5(v) ==
  {<<ps, n, u>> : ps \in Optional(v, "socks5", Socks5List, <<>>),
     n \in Optional(v, "noauth", AsBool, TRUE),
     u \in Optional(v, "validation", Users, <<>>)}

Backdoor(v) ==
  {<<l, q, r>> : l \in Required(v, "listen", AsString),
     q \in Optional(v, "request", AsBool, TRUE),
     r \in Optional(v, "response", AsBool, TRUE)}

\* The constructor of a service: {} if it throws.
Constructed(v) ==
  {<<c, x>> : c \in Config(v),
     x \in UNION {CASE t = "TCPRELAY" -> TcpRelay(v)
                    [] t = "REDIRECT" -> Redirect(v)
                    [] t = "SOCKS5"   -> Socks5(v)
                    [] t = "BACKDOOR" -> Backdoor(v) : t \in Required(v, "server", TypeOf)}}

-----------------------------------------------------------------------------
(* main().                                                                 *)

Levels == {"emergancy", "alert", "critical", "error", "warning", "notice", "info",
           "debug"}
Level_(s) == IF \E l \in Levels : s = Text(l) THEN s ELSE Text("info")

\* From the checks of the root to td_log_start; fork and setsid do not fail.
LoadRoot(v) ==
  /\ phase = "off"
  /\ LET daemons == Optional(v, "daemon", AsBool, TRUE)
         paths == Optional(v, "logpath", AsString, Text("syslog"))
         levels == Optional(v, "loglevel", AsString, Text("info"))
         Fails == UNCHANGED <<daemon, log>>
     IN IF (~IsNull(v) /\ ~IsObject(v)) \/ daemons = {} THEN phase' = "threw" /\ Fails
        ELSE IF ~Has(v, "services") THEN phase' = "returned" /\ Fails
        ELSE IF paths = {} \/ levels = {} THEN phase' = "threw" /\ Fails
        ELSE /\ phase' = "load" /\ daemon' \in daemons
             /\ \E p \in paths, l \in levels : log' = <<p, Level_(l)>>
  /\ UNCHANGED services

\* What the loop goes through: the keys, in their order.
Keys(v) == IF IsObject(v) THEN MemberNames(v) ELSE [k \in 1 .. Size(v) |-> k - 1]

\* One turn of the loop.  A service that cannot listen is dropped.
LoadService(v) ==
  /\ phase = "load"
  /\ LET node == Member_(v, "services")
         names == Keys(node)
         k == Len(services) + 1
         service == At(node, names[k])
         types == AsString(Member_(service, "server"))
         Ends(p) == phase' = p /\ UNCHANGED services
     IN /\ k <= Len(names)
        /\ IF IsArray(node) \/ (~IsNull(service) /\ ~IsObject(service)) \/ types = {}
             THEN Ends("threw")
           ELSE IF types = {<<>>} \/ TypeOf(Member_(service, "server")) = {}
             THEN Ends("returned")
           ELSE IF Constructed(service) = {} THEN Ends("threw")
           ELSE /\ \E c \in Constructed(service), listens \in BOOLEAN :
                     services' = Append(services, <<names[k], c, listens>>)
                /\ UNCHANGED phase
  /\ UNCHANGED <<daemon, log>>

\* The loop is over: the program waits for its signal.
Run(v) ==
  /\ phase = "load" /\ Len(services) = Len(Keys(Member_(v, "services")))
  /\ phase' = "running"
  /\ UNCHANGED <<daemon, log, services>>

Load(v) == LoadRoot(v) \/ LoadService(v) \/ Run(v)

\* main() with the document v.
Loading(v) == Off /\ [][Load(v)]_conf

-----------------------------------------------------------------------------
(* Properties.                                                             *)

\* The services are those of the document, each constructed from what is there
\* under its name and in the order of the names; the program runs only with all
\* of them.
ServicesOf(v) ==
  LET nodes_ == Member_(v, "services")
      names == Keys(nodes_)
  IN /\ Len(services) <= Len(names)
     /\ \A k \in DOMAIN services :
          /\ services[k][1] = names[k]
          /\ services[k][2] \in Constructed(At(nodes_, names[k]))
     /\ phase = "running" => Len(services) = Len(names)

\* No proxy or destination has the port 0 or one that does not fit, whatever is
\* written.
PortsFit ==
  LET Fit(ps) == \A k \in DOMAIN ps : ps[k][2] \in 1 .. MaxPort
  IN \A k \in DOMAIN services :
       LET c == services[k][2][1]  x == services[k][2][2]
       IN /\ c.type \in {"TCPRELAY", "SOCKS5"} => Fit(x[1])
          /\ c.type = "REDIRECT" => \A d \in ToSet(x) : Fit(<<d.peer>>) /\ Fit(d.socks5)
=============================================================================
