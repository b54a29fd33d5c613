------------------------------ MODULE Connect ------------------------------
(***************************************************************************)
(* accept_new_incoming of the three relaying services, step by step: the   *)
(* one thread of the main loop admits a client, walks through proxies and  *)
(* destinations with one sl_tcpsocket, and registers the pair or closes    *)
(* the client.  Every call waits for the network with no lock held, while  *)
(* two other threads of the process open and close descriptors: a worker   *)
(* takes a finished pair down, and the log thread opens the log file for   *)
(* each line (td_log_write_worker).                                        *)
(*                                                                         *)
(* An sl_tcpsocket is a number (so) and a flag (proxied); close() resets   *)
(* the number and not the flag, and _internal_connect closes the number    *)
(* without resetting it.                                                   *)
(***************************************************************************)
EXTENDS Naturals, Sequences, FiniteSets

CONSTANTS
  Fds,           \* descriptor numbers
  Services,      \* the kinds of service the clients come to
  Plan,          \* the destinations in order: [addr, proxies]; the first is
                 \* also the one address a client of tcprelay or socks5 wants
  MaxClients,    \* bound: clients accepted
  MaxLines,      \* bound: log lines; 0 when the log is not a file
  Mute,          \* proxies that may keep an answer back for ever
  None

Kinds == {"redirect", "tcprelay", "socks5"}

ASSUME ConstAssumption ==
  /\ Services \subseteq Kinds
  /\ Plan # <<>>
  /\ MaxClients \in Nat /\ MaxLines \in Nat
  /\ None \notin Fds

VARIABLES
  fdtab,      \* fdtab[f]: the object number f names
  served,     \* clients accepted so far; the last one is being served
  service,    \* the kind of the service it came to
  mpc, back,  \* where the main loop is; the call _internal_connect is for
  src, so, proxied,   \* _wrap_src.m_socket, _wrap_dst and its proxy flag
  i, j,       \* positions in the lists of destinations and of proxies
  lfd,        \* the number inside the log thread's FILE, None if closed
  lines,      \* log lines written so far
  settled,    \* settled[c]: "no" yet, "relayed", or "gone"
  pair,       \* pair[c]: the two numbers registered for c
  link,       \* history: what the current _wrap_dst is really connected to
  asked,      \* history: the destinations really asked for
  down,       \* history: the current destination's proxies that have failed
  astray      \* history: a number was used for an object it did not mean

attempt == <<service, src, proxied, i>>
log == <<lfd, lines>>
done == <<settled, pair>>
past == <<link, asked, down>>
vars == <<fdtab, served, attempt, mpc, back, so, j, log, done, past, astray>>

Clients == 1 .. MaxClients
Nothing == <<"free", 0>>
LogFile == <<"log", 0>>
Client(c) == <<"client", c>>
Dst(c) == <<"dst", c>>
Objects == {Nothing, LogFile} \cup {Client(c) : c \in Clients}
                              \cup {Dst(c) : c \in Clients}

Addrs == {Plan[k].addr : k \in DOMAIN Plan}
Proxies(k) == Plan[k].proxies
ProxiesOf(k) == {Proxies(k)[n] : n \in DOMAIN Proxies(k)}
AllProxies == UNION {ProxiesOf(k) : k \in DOMAIN Plan}

\* Both lists are sequences.
ASSUME PlanAssumption == Plan \in Seq([addr : Addrs, proxies : Seq(AllProxies)])
ASSUME MuteAssumption == Mute \subseteq AllProxies

\* via: the proxy at the other end; auth: it has accepted no-auth; to: the
\* destination the stream ends at.
NoLink == [via |-> None, auth |-> FALSE, to |-> None]
Link == [via : AllProxies \cup {None}, auth : BOOLEAN, to : Addrs \cup {None}]

Named(f) == IF f \in Fds THEN fdtab[f] ELSE Nothing
Meant(f) == Named(f) \in {Nothing, Client(served), Dst(served)}
Connected == Named(so) = Dst(served)

Init ==
  /\ fdtab = [f \in Fds |-> Nothing]
  /\ served = 0 /\ service \in Services
  /\ mpc = "poll" /\ back = "poll"
  /\ src = None /\ so = None /\ proxied = FALSE
  /\ i = 1 /\ j = 1
  /\ lfd = None /\ lines = 0
  /\ settled = [c \in Clients |-> "no"]
  /\ pair = [c \in Clients |-> {}]
  /\ link = NoLink /\ asked = {} /\ down = {}
  /\ astray = FALSE

OpenFd(f, object) ==
  /\ fdtab[f] = Nothing
  /\ fdtab' = [fdtab EXCEPT ![f] = object]

\* The main loop closes the numbers of S; a free one is EBADF.
CloseFds(S) ==
  /\ fdtab' = [f \in Fds |-> IF f \in S THEN Nothing ELSE fdtab[f]]
  /\ astray' = (astray \/ \E f \in S : ~Meant(f))

-----------------------------------------------------------------------------
(* accept_new_incoming, before it looks for a destination.                 *)

\* The wrapper and the loop variables are local to the call.
Accept(f) ==
  /\ mpc = "poll" /\ served < MaxClients
  /\ OpenFd(f, Client(served + 1))
  /\ served' = served + 1
  /\ service' \in Services
  /\ src' = f /\ so' = None /\ proxied' = FALSE
  /\ i' = 1 /\ j' = 1
  /\ link' = NoLink /\ asked' = {} /\ down' = {}
  /\ mpc' = "admit"
  /\ UNCHANGED <<back, log, done, astray>>

\* TCPRELAY connects directly first, and only directly when the address is in
\* the whitelist.
Admit ==
  /\ mpc = "admit"
  /\ mpc' \in IF service = "tcprelay" THEN {"direct", "connect"} ELSE {"proxy"}
  /\ UNCHANGED <<fdtab, served, attempt, back, so, j, log, done, past, astray>>

\* The source filter, SO_ORIGINAL_DST or the SOCKS5 handshake turns the client
\* away, or REDIRECT has run out of destinations.
Refuse ==
  /\ mpc \in {"admit", "refuse"}
  /\ CloseFds({src})
  /\ settled' = [settled EXCEPT ![served] = "gone"]
  /\ mpc' = "poll"
  /\ UNCHANGED <<served, attempt, back, so, j, log, pair, past>>

-----------------------------------------------------------------------------
(* sl_tcpsocket::_internal_connect.                                        *)

MoreProxies == j <= Len(Proxies(i))

Dials == \/ mpc = "direct"
         \/ mpc = "proxy" /\ MoreProxies
         \/ mpc = "connect" /\ ~proxied

\* Where a failed call of _internal_connect leaves its caller.
Failed(call) ==
  mpc' = CASE call = "proxy"   -> "proxy"
           [] call = "connect" -> "failed"
           [] call = "direct"  -> "proxy"

\* A slip of the proxy loops: the iterator stays.
Advance_Stuck(call) == j
Advance(call) == IF call = "proxy" THEN j + 1 ELSE j

Asking(call) == IF call = "proxy" THEN asked ELSE asked \cup {i}
Downed(call) == IF call = "proxy" THEN down \cup {Proxies(i)[j]} ELSE down

\* A bad name or port leaves the wrapper alone; when socket() fails it holds
\* an invalid number.
NoSocket ==
  /\ Dials
  /\ so' \in {so, None}
  /\ j' = Advance(mpc)
  /\ asked' = Asking(mpc) /\ down' = Downed(mpc)
  /\ Failed(mpc)
  /\ UNCHANGED <<fdtab, served, attempt, back, log, done, link, astray>>

Socket(f) ==
  /\ Dials
  /\ OpenFd(f, Dst(served))
  /\ so' = f
  /\ link' = NoLink
  /\ asked' = Asking(mpc)
  /\ back' = mpc
  /\ mpc' = "dialing"
  /\ UNCHANGED <<served, attempt, j, log, done, down, astray>>

\* Refused or timed out: the number is closed and stays in m_socket.
DialFail ==
  /\ mpc = "dialing"
  /\ CloseFds({so})
  /\ j' = Advance(back) /\ down' = Downed(back)
  /\ Failed(back)
  /\ UNCHANGED <<served, attempt, back, so, log, done, link, asked>>

\* A direct connect of TCPRELAY that succeeds leaves _ret false.
DialDone ==
  /\ mpc = "dialing" /\ Connected
  /\ link' = IF back = "proxy" THEN [NoLink EXCEPT !.via = Proxies(i)[j]]
                               ELSE [NoLink EXCEPT !.to = Plan[i].addr]
  /\ mpc' = CASE back = "proxy"   -> "greet"
              [] back = "connect" -> "register"
              [] back = "direct"  -> "failed"
  /\ UNCHANGED <<fdtab, served, service, src, proxied, i, back, so, j, log,
                 done, asked, down, astray>>

-----------------------------------------------------------------------------
(* sl_tcpsocket::setup_proxy after the connect, and connect() through it.  *)

\* A slip of setup_proxy: it returns without this->close().
GreetFailed_NotClosed == UNCHANGED <<fdtab, so, astray>>
GreetFailed == CloseFds({so}) /\ so' = None

\* The test is "ver != 5 && method != noauth".  A proxy that closes instead
\* leaves ver at 5, what the constructor wrote.
Rejected(ver, method) == ver # 5 /\ method # "noauth"

Greet ==
  /\ mpc = "greet"
  /\ \/ /\ GreetFailed  \* write or read fails, or the answer is rejected
        /\ j' = Advance("proxy") /\ down' = Downed("proxy")
        /\ mpc' = "proxy"
        /\ UNCHANGED <<proxied, link>>
     \/ /\ Named(so) # Nothing
        /\ \E ver \in {4, 5}, method \in {"noauth", "none"} :
             /\ ~Rejected(ver, method)
             /\ link' = [link EXCEPT !.auth = (Connected /\ method = "noauth")]
        /\ proxied' = TRUE
        /\ mpc' = "connect"
        /\ astray' = (astray \/ ~Meant(so))
        /\ UNCHANGED <<fdtab, so, j, down>>
  /\ UNCHANGED <<served, service, src, i, back, log, done, asked>>

\* The list of proxies is exhausted: connect() goes the direct way, unless
\* the flag is still set.
ProxiesDown ==
  /\ mpc = "proxy" /\ ~MoreProxies
  /\ mpc' = "connect"
  /\ UNCHANGED <<fdtab, served, attempt, back, so, j, log, done, past, astray>>

\* The proxy is asked for the destination over the number in m_socket,
\* whatever it names.  When it closes instead of answering, the answer is what
\* is on the stack, a grant perhaps.
Request ==
  /\ mpc = "connect" /\ proxied
  /\ asked' = IF Connected THEN asked \cup {i} ELSE asked
  /\ astray' = (astray \/ ~Meant(so))
  /\ \/ /\ mpc' = "failed"
        /\ UNCHANGED link
     \/ /\ Connected /\ link.auth
        /\ link' = [link EXCEPT !.to = Plan[i].addr]
        /\ mpc' = "register"
     \/ /\ Connected \/ ~Meant(so)
        /\ mpc' = "register"
        /\ UNCHANGED link
  /\ UNCHANGED <<fdtab, served, attempt, back, so, j, log, done, down>>

-----------------------------------------------------------------------------
(* The end of accept_new_incoming.                                         *)

\* Slips of the redirect loop: it leaves the socket of a destination that
\* failed open, or runs one destination too far.
LeaveDst_NotClosed == UNCHANGED <<fdtab, so, astray>>
LeaveDst == CloseFds({so}) /\ so' = None

MoreDests_TooFar == i <= Len(Plan)
MoreDests == i < Len(Plan)

\* REDIRECT goes on with the next destination, and the same _wrap_dst.
NextDst ==
  /\ mpc = "failed" /\ service = "redirect"
  /\ LeaveDst
  /\ i' = i + 1 /\ j' = 1 /\ down' = {}
  /\ mpc' = IF MoreDests THEN "proxy" ELSE "refuse"
  /\ UNCHANGED <<served, service, src, proxied, back, log, done,
                 link, asked>>

\* TCPRELAY and SOCKS5 close both sockets.
GiveUp ==
  /\ mpc = "failed" /\ service # "redirect"
  /\ CloseFds({src, so})
  /\ so' = None
  /\ settled' = [settled EXCEPT ![served] = "gone"]
  /\ mpc' = "poll"
  /\ UNCHANGED <<served, attempt, back, j, log, pair, past>>

\* _did_accept_sockets.
Register ==
  /\ mpc = "register"
  /\ settled' = [settled EXCEPT ![served] = "relayed"]
  /\ pair' = [pair EXCEPT ![served] = {src, so}]
  /\ mpc' = "poll"
  /\ UNCHANGED <<fdtab, served, attempt, back, so, j, log, past, astray>>

-----------------------------------------------------------------------------
(* The other threads.                                                      *)

\* close_socket of a worker; Tunnel has the details.
TakeDown(c) ==
  /\ settled[c] = "relayed"
  /\ settled' = [settled EXCEPT ![c] = "gone"]
  /\ fdtab' = [f \in Fds |-> IF f \in pair[c] THEN Nothing ELSE fdtab[f]]
  /\ astray' = (astray \/ \E f \in pair[c] :
                  fdtab[f] \notin {Nothing, Client(c), Dst(c)})
  /\ UNCHANGED <<served, attempt, mpc, back, so, j, log, pair, past>>

\* fopen of the log file, and the fclose that writes the line out.
LogOpen(f) ==
  /\ lfd = None /\ lines < MaxLines
  /\ OpenFd(f, LogFile)
  /\ lfd' = f
  /\ lines' = lines + 1
  /\ UNCHANGED <<served, attempt, mpc, back, so, j, done, past, astray>>

LogClose ==
  /\ lfd # None
  /\ fdtab' = [fdtab EXCEPT ![lfd] = Nothing]
  /\ astray' = (astray \/ fdtab[lfd] \notin {Nothing, LogFile})
  /\ lfd' = None
  /\ UNCHANGED <<served, attempt, mpc, back, so, j, lines, done, past>>

-----------------------------------------------------------------------------
Serve ==
  \/ Admit \/ Refuse \/ NoSocket \/ DialFail \/ DialDone \/ Greet \/ ProxiesDown
  \/ Request \/ NextDst \/ GiveUp \/ Register
  \/ \E f \in Fds : Socket(f)

Next ==
  \/ \E f \in Fds : Accept(f) \/ LogOpen(f)
  \/ Serve
  \/ \E c \in Clients : TakeDown(c)
  \/ LogClose

Spec == Init /\ [][Next]_vars

\* The reads of a proxy's answers, in setup_proxy and in connect.  They have no
\* time limit, and return only if whoever is at the other end, the proxy or a
\* stranger behind a number gone astray, answers or closes.
Reading == mpc = "greet" \/ (mpc = "connect" /\ proxied)
Unheard == Reading /\ ((Connected /\ link.via \in Mute) \/ ~Meant(so))

\* The main loop runs; a dial succeeds, fails or times out; proxies that are
\* not mute answer or close.  Nothing is assumed of an unheard answer.
FairSpec == Spec /\ WF_vars(Serve /\ ~Unheard)

-----------------------------------------------------------------------------
MainPC == {"poll", "admit", "proxy", "direct", "connect", "dialing", "greet",
           "failed", "refuse", "register"}

\* Every variable keeps its type, and the loops stay inside their lists.
TypeOK ==
  /\ fdtab \in [Fds -> Objects]
  /\ served \in 0 .. MaxClients /\ service \in Services
  /\ mpc \in MainPC /\ back \in {"poll", "proxy", "direct", "connect"}
  /\ src \in Fds \cup {None} /\ so \in Fds \cup {None} /\ proxied \in BOOLEAN
  /\ i \in 1 .. Len(Plan) + 1
  /\ mpc \in {"proxy", "direct", "connect", "dialing"} => i \in DOMAIN Plan
  /\ i \in DOMAIN Plan => j \in 1 .. Len(Proxies(i)) + 1
  /\ mpc \in {"dialing", "greet"} => so \in Fds
  /\ lfd \in Fds \cup {None} /\ lines \in 0 .. MaxLines
  /\ settled \in [Clients -> {"no", "relayed", "gone"}]
  /\ pair \in [Clients -> SUBSET (Fds \cup {None})]
  /\ link \in Link /\ asked \subseteq DOMAIN Plan /\ down \subseteq AllProxies
  /\ astray \in BOOLEAN

Numbers(c) == {f \in Fds : fdtab[f] \in {Client(c), Dst(c)}}

\* While no number has gone astray, accept_new_incoming is all or nothing: a
\* client that was turned away, on whichever of the many error paths, holds no
\* descriptor, and one that is relayed holds exactly the two registered ones.
AllOrNothing ==
  ~astray => \A c \in Clients :
    /\ settled[c] = "gone" => Numbers(c) = {}
    /\ settled[c] = "relayed" =>
         /\ pair[c] = Numbers(c)
         /\ {fdtab[f] : f \in pair[c]} = {Client(c), Dst(c)}

\* While no number has gone astray, a client is registered with a socket that
\* ends where the attempt in hand says.  It is the destination, through one of
\* its own proxies that has accepted no-auth and granted the request; or the
\* destination, directly, once each of its proxies has failed (or for TCPRELAY,
\* whose whitelist is asked before the proxies); or one of its proxies that
\* closed without an answer.  It is never another destination's proxy, nor one
\* of an earlier attempt, although _wrap_dst and its flag go from one
\* destination to the next.
RightEnd ==
  (~astray /\ mpc = "register") =>
    \/ link.to = Plan[i].addr /\ link.via \in ProxiesOf(i) /\ link.auth
    \/ /\ link.to = Plan[i].addr /\ link.via = None
       /\ ProxiesOf(i) \subseteq down \/ service = "tcprelay"
    \/ link.to = None /\ link.via \in ProxiesOf(i)

\* README.md, of a "socks5" in a destination: "this dst need a socks proxy".
\* While no number has gone astray, the socket registered for a destination
\* with proxies leads through one of them.
NeedsProxy ==
  (~astray /\ mpc = "register" /\ ProxiesOf(i) # {}) => link.via \in ProxiesOf(i)

\* README.md: "if the first dst is not reachable, then use the second".  While
\* no number has gone astray, no destination is used, and no client of REDIRECT
\* turned away, before all earlier destinations were asked.
InTurn ==
  ~astray => /\ mpc = "register" => \A k \in 1 .. i - 1 : k \in asked
             /\ mpc = "refuse" => asked = DOMAIN Plan

\* accept_new_incoming ends: every accepted client is registered or closed,
\* unless the main loop waits for ever on an answer that does not come.  Every
\* refusal, failure and time-out on the way leads on, and a mute proxy holds
\* the program up only when it is connected to and asked.
Settles ==
  \A c \in Clients :
    (served >= c) ~> (settled[c] # "no" \/ [](served = c /\ Unheard))

\* What the rest of the program relies on: clients are served one at a time,
\* until the first step that uses a number for an object it does not mean.
A == INSTANCE Attempt WITH
       state <- [c \in Clients |->
                   CASE c > served -> "absent"
                     [] c <= served /\ settled[c] = "relayed" -> "relayed"
                     [] c <= served /\ settled[c] # "relayed" ->
                          IF Numbers(c) = {} THEN "gone" ELSE "open"],
       held <- [c \in Clients |-> Cardinality(Numbers(c))],
       adrift <- astray
OneAtATime == A!Spec
=============================================================================
