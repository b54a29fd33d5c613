--------------------------- MODULE ConnectProofs ---------------------------
(***************************************************************************)
(* Theorems about Connect, for every list of destinations and proxies, and *)
(* every number of clients, log lines and descriptors.                     *)
(***************************************************************************)
EXTENDS Connect, TLAPS, FiniteSetTheorems

\* The walk stays inside the lists while it is under way.
Walk ==
  /\ mpc # "poll" => served \in Clients
  /\ mpc \notin {"poll", "refuse"} => i \in DOMAIN Plan
  /\ mpc = "greet" \/ (mpc = "dialing" /\ back = "proxy") => j <= Len(Proxies(i))
  /\ mpc = "dialing" => back # "poll"

WalkInv == TypeOK /\ Walk

-----------------------------------------------------------------------------
(* The lists and the objects.                                              *)

LEMMA PlanFacts ==
  /\ Len(Plan) \in Nat \ {0} /\ DOMAIN Plan = 1 .. Len(Plan)
  /\ \A k \in DOMAIN Plan :
       /\ Len(Proxies(k)) \in Nat /\ Plan[k].addr \in Addrs
       /\ \A n \in 1 .. Len(Proxies(k)) :
            Proxies(k)[n] \in ProxiesOf(k) /\ Proxies(k)[n] \in AllProxies
<1> DEFINE D == [addr : Addrs, proxies : Seq(AllProxies)]
<1>1. Plan \in Seq(D) /\ Plan # <<>>
  BY PlanAssumption, ConstAssumption
<1>4. \A d \in D : d.addr \in Addrs /\ d.proxies \in Seq(AllProxies)
  OBVIOUS
<1> HIDE DEF D
<1>2. Len(Plan) \in Nat \ {0} /\ DOMAIN Plan = 1 .. Len(Plan)
      /\ \A k \in DOMAIN Plan : Plan[k] \in D
  BY <1>1
<1>3. ASSUME NEW k \in DOMAIN Plan
      PROVE  /\ Len(Proxies(k)) \in Nat /\ Plan[k].addr \in Addrs
             /\ \A n \in 1 .. Len(Proxies(k)) :
                  Proxies(k)[n] \in ProxiesOf(k) /\ Proxies(k)[n] \in AllProxies
  <2>1. Plan[k].addr \in Addrs /\ Proxies(k) \in Seq(AllProxies)
    BY <1>2, <1>4 DEF Proxies
  <2>2. Len(Proxies(k)) \in Nat /\ DOMAIN Proxies(k) = 1 .. Len(Proxies(k))
        /\ \A n \in 1 .. Len(Proxies(k)) : Proxies(k)[n] \in AllProxies
    BY <2>1
  <2> QED
    BY <2>1, <2>2 DEF ProxiesOf
<1> QED
  BY <1>2, <1>3

LEMMA ObjectFacts ==
  /\ \A c : Client(c) # Nothing /\ Dst(c) # Nothing
            /\ Client(c) # LogFile /\ Dst(c) # LogFile
  /\ LogFile # Nothing
  /\ \A c, d : /\ Client(c) # Dst(d)
               /\ Client(c) = Client(d) => c = d
               /\ Dst(c) = Dst(d) => c = d
  /\ Nothing \in Objects /\ LogFile \in Objects
  /\ \A c \in Clients : Client(c) \in Objects /\ Dst(c) \in Objects
BY DEF Client, Dst, Nothing, LogFile, Objects

LEMMA LinkFacts ==
  /\ NoLink \in Link
  /\ \A l \in Link : /\ \A p \in AllProxies : [l EXCEPT !.via = p] \in Link
                     /\ \A a \in Addrs : [l EXCEPT !.to = a] \in Link
                     /\ \A b \in BOOLEAN : [l EXCEPT !.auth = b] \in Link
BY DEF NoLink, Link

-----------------------------------------------------------------------------
(* Types.                                                                  *)

LEMMA InitWalk == Init => WalkInv
<1> SUFFICES ASSUME Init PROVE WalkInv
  OBVIOUS
<1>1. 1 \in DOMAIN Plan /\ \A k \in DOMAIN Plan : 1 \in 1 .. Len(Proxies(k)) + 1
  BY PlanFacts
<1>2. /\ MaxClients \in Nat /\ MaxLines \in Nat /\ 1 \in 1 .. Len(Plan) + 1
      /\ NoLink \in Link /\ Nothing \in Objects
  BY ConstAssumption, PlanFacts, LinkFacts, ObjectFacts
<1>3. /\ i = 1 /\ j = 1 /\ mpc = "poll" /\ back = "poll" /\ served = 0 /\ lines = 0
      /\ service \in Services /\ src = None /\ so = None /\ lfd = None
      /\ proxied = FALSE /\ astray = FALSE /\ asked = {} /\ down = {} /\ link = NoLink
  BY DEF Init
<1>4. /\ fdtab \in [Fds -> Objects]
      /\ settled \in [Clients -> {"no", "relayed", "gone"}]
      /\ pair \in [Clients -> SUBSET (Fds \cup {None})]
  BY <1>2 DEF Init
<1>5. /\ served \in 0 .. MaxClients /\ lines \in 0 .. MaxLines
      /\ i \in 1 .. Len(Plan) + 1
      /\ i \in DOMAIN Plan => j \in 1 .. Len(Proxies(i)) + 1
  BY <1>1, <1>2, <1>3
<1> QED
  BY <1>2, <1>3, <1>4, <1>5 DEF WalkInv, TypeOK, Walk, MainPC

\* What the steps do to the descriptor table.
LEMMA FdtabType ==
  ASSUME fdtab \in [Fds -> Objects]
  PROVE  /\ \A f \in Fds, o \in Objects : [fdtab EXCEPT ![f] = o] \in [Fds -> Objects]
         /\ \A S : [f \in Fds |-> IF f \in S THEN Nothing ELSE fdtab[f]]
                     \in [Fds -> Objects]
BY ObjectFacts

LEMMA ThreadsType ==
  ASSUME WalkInv,
         \/ \E c \in Clients : TakeDown(c)
         \/ \E f \in Fds : LogOpen(f)
         \/ LogClose \/ UNCHANGED vars
  PROVE  WalkInv'
<1>1. /\ UNCHANGED <<served, attempt, mpc, back, so, j, link, asked, down, pair>>
      /\ fdtab' \in [Fds -> Objects] /\ astray' \in BOOLEAN
      /\ lfd' \in Fds \cup {None} /\ lines' \in 0 .. MaxLines
      /\ settled' \in [Clients -> {"no", "relayed", "gone"}]
  <2> USE DEF WalkInv, TypeOK
  <2>1. ASSUME NEW c \in Clients, TakeDown(c)
        PROVE  /\ fdtab' \in [Fds -> Objects] /\ astray' \in BOOLEAN
               /\ settled' \in [Clients -> {"no", "relayed", "gone"}]
    BY <2>1, FdtabType DEF TakeDown
  <2>2. ASSUME NEW f \in Fds, LogOpen(f)
        PROVE  /\ fdtab' \in [Fds -> Objects] /\ lines' \in 0 .. MaxLines
               /\ lfd' \in Fds
    BY <2>2, FdtabType, ObjectFacts, ConstAssumption DEF LogOpen, OpenFd
  <2>3. CASE LogClose
    BY <2>3, FdtabType, ObjectFacts DEF LogClose, done, past
  <2>4. CASE UNCHANGED vars
    BY <2>4 DEF vars, log, done, past
  <2>5. CASE \E c \in Clients : TakeDown(c)
    BY <2>1, <2>5 DEF TakeDown, log, past
  <2>6. CASE \E f \in Fds : LogOpen(f)
    BY <2>2, <2>6 DEF LogOpen, done, past
  <2> QED
    BY <2>3, <2>4, <2>5, <2>6
<1> QED
  BY <1>1 DEF WalkInv, TypeOK, Walk, MainPC, Proxies, attempt

\* The ends of an attempt change no position in the lists.
LEMMA EndsType ==
  ASSUME WalkInv, Admit \/ Refuse \/ ProxiesDown \/ GiveUp \/ Register
  PROVE  WalkInv'
<1> USE DEF WalkInv, TypeOK, Walk, MainPC, Proxies
<1>1. CASE Admit
  BY <1>1 DEF Admit, attempt, log, done, past
<1>2. CASE Refuse
  BY <1>2, FdtabType DEF Refuse, CloseFds, attempt, log, past
<1>3. CASE ProxiesDown
  BY <1>3 DEF ProxiesDown, attempt, log, done, past
<1>4. CASE GiveUp
  BY <1>4, FdtabType DEF GiveUp, CloseFds, attempt, log, past
<1>5. CASE Register
  <2>1. /\ settled' \in [Clients -> {"no", "relayed", "gone"}]
        /\ pair' \in [Clients -> SUBSET (Fds \cup {None})]
    BY <1>5 DEF Register
  <2> QED
    BY <1>5, <2>1 DEF Register, attempt, log, past
<1> QED
  BY <1>1, <1>2, <1>3, <1>4, <1>5

LEMMA AcceptType ==
  ASSUME WalkInv, NEW f \in Fds, Accept(f)
  PROVE  WalkInv'
<1> USE DEF WalkInv, TypeOK, Walk, MainPC, Proxies
<1>1. /\ MaxClients \in Nat /\ served + 1 \in Clients /\ served' = served + 1
  BY ConstAssumption DEF Accept, Clients
<1>2. fdtab' \in [Fds -> Objects]
  BY <1>1, FdtabType, ObjectFacts DEF Accept, OpenFd
<1>3. /\ 1 \in DOMAIN Plan /\ 1 \in 1 .. Len(Plan) + 1
      /\ \A k \in DOMAIN Plan : 1 \in 1 .. Len(Proxies(k)) + 1
  BY PlanFacts
<1>4. /\ i' = 1 /\ j' = 1 /\ mpc' = "admit" /\ src' = f /\ so' = None
      /\ proxied' = FALSE /\ link' = NoLink /\ asked' = {} /\ down' = {}
      /\ service' \in Services
      /\ UNCHANGED <<back, lfd, lines, settled, pair, astray>>
  BY DEF Accept, log, done
<1>5. /\ served' \in 0 .. MaxClients /\ served' \in Clients
      /\ i' \in 1 .. Len(Plan) + 1 /\ i' \in DOMAIN Plan
      /\ j' \in 1 .. Len(Proxies(i')) + 1
  BY <1>1, <1>3, <1>4 DEF Clients
<1> QED
  BY <1>2, <1>4, <1>5, LinkFacts

\* Where _internal_connect leaves the position in the list of proxies.
LEMMA AdvanceType ==
  ASSUME WalkInv, i \in DOMAIN Plan, NEW call,
         call = "proxy" => j <= Len(Proxies(i))
  PROVE  Advance(call) \in 1 .. Len(Proxies(i)) + 1 /\ Downed(call) \subseteq AllProxies
<1>1. j \in 1 .. Len(Proxies(i)) + 1 /\ Len(Proxies(i)) \in Nat
  BY PlanFacts DEF WalkInv, TypeOK
<1>2. Advance(call) \in 1 .. Len(Proxies(i)) + 1
  BY <1>1 DEF Advance
<1>3. call = "proxy" => Proxies(i)[j] \in AllProxies
  BY <1>1, PlanFacts
<1>4. Downed(call) \subseteq AllProxies
  BY <1>3 DEF Downed, WalkInv, TypeOK
<1> QED
  BY <1>2, <1>4

LEMMA DialType ==
  ASSUME WalkInv,
         NoSocket \/ (\E f \in Fds : Socket(f)) \/ DialFail \/ DialDone
  PROVE  WalkInv'
<1>0. i \in DOMAIN Plan /\ asked \subseteq DOMAIN Plan /\ served \in 0 .. MaxClients
  BY DEF NoSocket, Socket, DialFail, DialDone, Dials, WalkInv, Walk, TypeOK
<1>1. CASE NoSocket
  <2>1. /\ mpc \in {"direct", "proxy", "connect"}
        /\ mpc = "proxy" => j <= Len(Proxies(i))
    BY <1>1 DEF NoSocket, Dials, MoreProxies
  <2>2. j' \in 1 .. Len(Proxies(i)) + 1 /\ down' \subseteq AllProxies
    BY <1>0, <1>1, <2>1, AdvanceType DEF NoSocket
  <2>3. mpc' \in {"proxy", "failed"} /\ asked' \subseteq DOMAIN Plan
    BY <1>0, <1>1, <2>1 DEF NoSocket, Failed, Asking
  <2>4. so' \in Fds \cup {None}
    BY <1>1 DEF NoSocket, WalkInv, TypeOK
  <2>5. UNCHANGED <<fdtab, served, service, src, proxied, i, back, lfd, lines, settled,
                    pair, link, astray>>
    BY <1>1 DEF NoSocket, attempt, log, done
  <2>6. i' \in DOMAIN Plan => j' \in 1 .. Len(Proxies(i')) + 1
    BY <2>2, <2>5
  <2> QED
    BY <1>0, <2>1, <2>2, <2>3, <2>4, <2>5, <2>6 DEF WalkInv, TypeOK, Walk, MainPC
<1>2. ASSUME NEW f \in Fds, Socket(f) PROVE WalkInv'
  <2>1. /\ mpc \in {"direct", "proxy", "connect"}
        /\ mpc = "proxy" => j <= Len(Proxies(i))
        /\ mpc' = "dialing" /\ back' = mpc /\ so' = f /\ link' = NoLink
        /\ UNCHANGED <<served, attempt, j, log, done, down, astray>>
    BY <1>2 DEF Socket, Dials, MoreProxies
  <2>2. asked' \subseteq DOMAIN Plan
    BY <1>0, <1>2 DEF Socket, Asking
  <2>3. fdtab' \in [Fds -> Objects]
    <3>1. Dst(served) \in Objects
      BY <2>1, ObjectFacts DEF WalkInv, Walk
    <3> QED
      BY <1>2, <3>1, FdtabType DEF Socket, OpenFd, WalkInv, TypeOK
  <2> QED
    BY <1>0, <2>1, <2>2, <2>3, LinkFacts
    DEF WalkInv, TypeOK, Walk, MainPC, Proxies, attempt, log, done
<1>3. CASE DialFail
  <2>1. back \in {"direct", "proxy", "connect"} /\ (back = "proxy" => j <= Len(Proxies(i)))
    BY <1>3 DEF DialFail, WalkInv, TypeOK, Walk
  <2>2. j' \in 1 .. Len(Proxies(i)) + 1 /\ down' \subseteq AllProxies
    BY <1>0, <1>3, <2>1, AdvanceType DEF DialFail
  <2>3. mpc' \in {"proxy", "failed"}
    BY <1>3, <2>1 DEF DialFail, Failed
  <2>4. fdtab' \in [Fds -> Objects] /\ astray' \in BOOLEAN
    BY <1>3, FdtabType DEF DialFail, CloseFds, WalkInv, TypeOK
  <2> QED
    BY <1>0, <1>3, <2>2, <2>3, <2>4
    DEF DialFail, WalkInv, TypeOK, Walk, MainPC, Proxies, attempt, log, done
<1>4. CASE DialDone
  <2>1. back \in {"direct", "proxy", "connect"} /\ (back = "proxy" => j <= Len(Proxies(i)))
        /\ j \in 1 .. Len(Proxies(i)) + 1
    BY <1>0, <1>4 DEF DialDone, WalkInv, TypeOK, Walk
  <2>2. link' \in Link
    BY <1>0, <1>4, <2>1, PlanFacts, LinkFacts DEF DialDone
  <2>3. /\ mpc' \in {"greet", "register", "failed"}
        /\ mpc' = "greet" => back = "proxy"
    BY <1>4, <2>1 DEF DialDone
  <2> QED
    BY <1>0, <1>4, <2>1, <2>2, <2>3
    DEF DialDone, WalkInv, TypeOK, Walk, MainPC, Proxies, log, done
<1> QED
  BY <1>1, <1>2, <1>3, <1>4

LEMMA GreetType ==
  ASSUME WalkInv, Greet
  PROVE  WalkInv'
<1>1. /\ i \in DOMAIN Plan /\ j <= Len(Proxies(i)) /\ j \in 1 .. Len(Proxies(i)) + 1
      /\ Len(Proxies(i)) \in Nat /\ served \in Clients
  BY PlanFacts DEF Greet, WalkInv, TypeOK, Walk
<1>2. UNCHANGED <<served, service, src, i, back, lfd, lines, settled, pair, asked>>
  BY DEF Greet, log, done
<1>3. CASE mpc' = "proxy"
  <2>1. /\ GreetFailed /\ j' = Advance("proxy") /\ down' = Downed("proxy")
        /\ UNCHANGED <<proxied, link>>
    BY <1>3 DEF Greet
  <2>2. j' \in 1 .. Len(Proxies(i)) + 1 /\ down' \subseteq AllProxies
    BY <1>1, <2>1, AdvanceType
  <2>3. fdtab' \in [Fds -> Objects] /\ astray' \in BOOLEAN /\ so' = None
    BY <2>1, FdtabType DEF GreetFailed, CloseFds, WalkInv, TypeOK
  <2> QED
    BY <1>1, <1>2, <1>3, <2>1, <2>2, <2>3 DEF WalkInv, TypeOK, Walk, MainPC, Proxies
<1>4. CASE mpc' = "connect"
  <2>1. /\ \E b : link' = [link EXCEPT !.auth = (Connected /\ b = "noauth")]
        /\ proxied' = TRUE /\ UNCHANGED <<fdtab, so, j, down>>
        /\ astray' = (astray \/ ~Meant(so))
    BY <1>4 DEF Greet
  <2>2. link' \in Link /\ astray' \in BOOLEAN
    BY <2>1, LinkFacts DEF WalkInv, TypeOK
  <2> QED
    BY <1>1, <1>2, <1>4, <2>1, <2>2 DEF WalkInv, TypeOK, Walk, MainPC, Proxies
<1> QED
  BY <1>3, <1>4 DEF Greet

LEMMA RequestType ==
  ASSUME WalkInv, Request
  PROVE  WalkInv'
<1>1. /\ i \in DOMAIN Plan /\ Plan[i].addr \in Addrs /\ served \in Clients
      /\ asked \subseteq DOMAIN Plan
  BY PlanFacts DEF Request, WalkInv, TypeOK, Walk
<1>2. /\ asked' \subseteq DOMAIN Plan /\ astray' \in BOOLEAN
      /\ mpc' \in {"failed", "register"}
      /\ UNCHANGED <<fdtab, served, attempt, back, so, j, lfd, lines, settled, pair,
                     down>>
  BY <1>1 DEF Request, log, done, WalkInv, TypeOK
<1>3. link' \in Link
  <2>1. link' = link \/ link' = [link EXCEPT !.to = Plan[i].addr]
    BY DEF Request
  <2> QED
    BY <1>1, <2>1, LinkFacts DEF WalkInv, TypeOK
<1> QED
  BY <1>1, <1>2, <1>3 DEF WalkInv, TypeOK, Walk, MainPC, Proxies, attempt

LEMMA NextDstType ==
  ASSUME WalkInv, NextDst
  PROVE  WalkInv'
<1>1. /\ i \in DOMAIN Plan /\ served \in Clients /\ Len(Plan) \in Nat
      /\ DOMAIN Plan = 1 .. Len(Plan)
  BY PlanFacts DEF NextDst, WalkInv, TypeOK, Walk
<1>2. /\ i' = i + 1 /\ j' = 1 /\ so' = None
      /\ mpc' = IF i < Len(Plan) THEN "proxy" ELSE "refuse"
      /\ UNCHANGED <<served, service, src, proxied, back, lfd, lines, settled, pair,
                     link, asked>>
      /\ down' = {}
  BY DEF NextDst, MoreDests, LeaveDst, log, done
<1>3. fdtab' \in [Fds -> Objects] /\ astray' \in BOOLEAN
  BY FdtabType DEF NextDst, LeaveDst, CloseFds, WalkInv, TypeOK
<1>4. /\ i' \in 1 .. Len(Plan) + 1 /\ mpc' \in {"proxy", "refuse"}
      /\ mpc' = "proxy" => i' \in DOMAIN Plan
  BY <1>1, <1>2
<1>5. i' \in DOMAIN Plan => j' \in 1 .. Len(Proxies(i')) + 1
  BY <1>2, PlanFacts
<1> QED
  BY <1>1, <1>2, <1>3, <1>4, <1>5 DEF WalkInv, TypeOK, Walk, MainPC

LEMMA WalkStep == WalkInv /\ [Next]_vars => WalkInv'
BY ThreadsType, EndsType, AcceptType, DialType, GreetType, RequestType, NextDstType
   DEF Next, Serve

\* Every variable keeps its type and the loops stay inside their lists, for every
\* list of destinations and proxies.
THEOREM ConnectTypes == Spec => []TypeOK
<1>1. WalkInv => TypeOK
  BY DEF WalkInv
<1> QED
  BY <1>1, InitWalk, WalkStep, PTL DEF Spec

-----------------------------------------------------------------------------
(* Clients are served in the order they came.                              *)

Turn ==
  /\ \A c \in Clients : c > served => settled[c] = "no"
  /\ \A c \in Clients : c < served => settled[c] # "no"
  /\ mpc # "poll" => settled[served] = "no"
  /\ mpc = "poll" /\ served \in Clients => settled[served] # "no"

TurnInv == WalkInv /\ Turn

LEMMA InitTurn == Init => TurnInv
<1>1. Init => Turn
  BY DEF Init, Turn, Clients
<1> QED
  BY <1>1, InitWalk DEF TurnInv

LEMMA TurnStep == TurnInv /\ [Next]_vars => TurnInv'
<1> SUFFICES ASSUME TurnInv, [Next]_vars PROVE Turn'
  BY WalkStep DEF TurnInv
<1> USE DEF TurnInv, WalkInv, Walk, Turn, Clients
<1>0. served \in Nat /\ MaxClients \in Nat /\ DOMAIN settled = Clients
      /\ settled \in [Clients -> {"no", "relayed", "gone"}]
  BY ConstAssumption DEF TypeOK
<1>1. ASSUME NEW f \in Fds, Accept(f) PROVE Turn'
  <2>1. served' = served + 1 /\ settled' = settled /\ mpc = "poll" /\ mpc' = "admit"
        /\ served < MaxClients
    BY <1>1 DEF Accept, done
  <2> QED
    BY <1>0, <2>1
<1>2. CASE Refuse \/ GiveUp \/ Register
  <2>1. /\ mpc # "poll" /\ mpc' = "poll" /\ served' = served
        /\ \/ settled' = [settled EXCEPT ![served] = "gone"]
           \/ settled' = [settled EXCEPT ![served] = "relayed"]
    BY <1>2 DEF Refuse, GiveUp, Register
  <2>2. /\ settled'[served] # "no"
        /\ \A c \in Clients : c # served => settled'[c] = settled[c]
    BY <1>0, <2>1
  <2> QED
    BY <1>0, <2>1, <2>2
<1>3. CASE UNCHANGED <<served, settled>> /\ mpc # "poll" /\ mpc' # "poll"
  BY <1>3
<1>4. CASE Admit \/ NoSocket \/ DialFail \/ DialDone
  <2>1. mpc # "poll" /\ mpc' # "poll" /\ UNCHANGED <<served, settled>>
    BY <1>4 DEF Admit, NoSocket, DialFail, DialDone, Dials, Failed, done, TypeOK
  <2> QED
    BY <1>3, <2>1
<1>5. CASE Greet \/ ProxiesDown \/ Request \/ NextDst \/ \E f \in Fds : Socket(f)
  <2>1. mpc # "poll" /\ mpc' # "poll" /\ UNCHANGED <<served, settled>>
    BY <1>5 DEF Greet, ProxiesDown, Request, NextDst, Socket, Dials, done
  <2> QED
    BY <1>3, <2>1
<1>6. ASSUME NEW c \in Clients, TakeDown(c) PROVE Turn'
  <2>1. /\ settled[c] = "relayed" /\ settled' = [settled EXCEPT ![c] = "gone"]
        /\ UNCHANGED <<served, mpc>>
    BY <1>6 DEF TakeDown
  <2>2. settled'[c] = "gone" /\ \A d \in Clients : d # c => settled'[d] = settled[d]
    BY <1>0, <2>1
  <2> QED
    BY <1>0, <2>1, <2>2
<1>7. CASE LogClose \/ UNCHANGED vars \/ \E f \in Fds : LogOpen(f)
  BY <1>7 DEF LogClose, LogOpen, vars, done
<1> QED
  BY <1>1, <1>2, <1>4, <1>5, <1>6, <1>7 DEF Next, Serve

-----------------------------------------------------------------------------
(* Who owns which descriptor, while no number has gone astray.             *)

Of(c) == {Client(c), Dst(c)}

\* The client that is being served has the number of the wrapper, and so has
\* its destination, once there is one.
ClientNumber ==
  mpc # "poll" =>
    /\ src \in Fds /\ so # src
    /\ \A f \in Fds : fdtab[f] = Client(served) <=> f = src

NoDst == \A f \in Fds : fdtab[f] # Dst(served)

DstNumber ==
  /\ mpc # "poll" => \A f \in Fds : fdtab[f] = Dst(served) => f = so
  /\ mpc \in {"admit", "proxy", "direct", "refuse"} => NoDst
  /\ mpc = "connect" /\ ~proxied => NoDst
  /\ mpc \in {"dialing", "greet", "register"} => Connected

\* The clients that have not come yet have none, and one that is settled has
\* none or exactly the two that were registered.
Whole(c) ==
  /\ settled[c] = "gone" => Numbers(c) = {}
  /\ settled[c] = "relayed" =>
       /\ pair[c] = Numbers(c)
       /\ {fdtab[f] : f \in pair[c]} = {Client(c), Dst(c)}

Owners ==
  /\ \A f \in Fds : fdtab[f] = LogFile <=> f = lfd
  /\ \A c \in Clients : c > served => Numbers(c) = {}
  /\ \A c \in Clients : Whole(c)
  /\ ClientNumber
  /\ DstNumber

OwnersInv == TurnInv /\ (~astray => Owners)

\* The step opens and closes no descriptor of the objects in X.
Kept(X) ==
  \A f \in Fds : fdtab[f] \in X \/ fdtab'[f] \in X => fdtab'[f] = fdtab[f]

LEMMA InitOwners == Init => OwnersInv
<1> SUFFICES ASSUME Init PROVE Owners
  BY InitTurn DEF OwnersInv
<1>1. /\ \A f \in Fds : fdtab[f] = Nothing
      /\ \A c \in Clients : settled[c] = "no"
      /\ mpc = "poll" /\ lfd = None
  BY DEF Init
<1>2. \A c : Numbers(c) = {}
  BY <1>1, ObjectFacts DEF Numbers
<1> QED
  BY <1>1, <1>2, ObjectFacts, ConstAssumption
  DEF Owners, Whole, ClientNumber, DstNumber

LEMMA KeptNumbers ==
  ASSUME NEW c, Kept(Of(c))
  PROVE  Numbers(c)' = Numbers(c)
BY DEF Kept, Of, Numbers

LEMMA KeptWhole ==
  ASSUME NEW c, Whole(c), Kept(Of(c)), settled'[c] = settled[c], pair'[c] = pair[c]
  PROVE  Whole(c)'
<1>1. Numbers(c)' = Numbers(c)
  BY KeptNumbers
<1>2. \A f \in Numbers(c) : fdtab'[f] = fdtab[f]
  BY DEF Kept, Of, Numbers
<1>3. settled'[c] = "relayed" =>
        {fdtab'[f] : f \in pair'[c]} = {fdtab[f] : f \in pair[c]}
  BY <1>2 DEF Whole
<1> QED
  BY <1>1, <1>3 DEF Whole

\* A step that leaves the wrappers alone keeps their numbers.
LEMMA KeptWrappers ==
  ASSUME ClientNumber, DstNumber, Kept(Of(served)),
         so \in Fds \cup {None}, None \notin Fds,
         UNCHANGED <<served, mpc, src, so, proxied>>
  PROVE  ClientNumber' /\ DstNumber'
<1> USE DEF Kept, Of
<1>1. ClientNumber'
  BY DEF ClientNumber
<1>2. DstNumber'
  BY DEF DstNumber, NoDst, Connected, Named
<1> QED
  BY <1>1, <1>2

\* The steps of the main loop leave the log and the other clients alone.
LEMMA OthersKept ==
  ASSUME OwnersInv, ~astray', Serve
  PROVE  /\ ~astray /\ served \in Clients /\ served' = served
         /\ Kept({LogFile})
         /\ \A c \in Clients : c # served => Kept(Of(c))
<1>0. served' = served /\ (astray => astray')
  <2>1. CASE Admit \/ NoSocket \/ DialDone \/ ProxiesDown \/ Register
    BY <2>1 DEF Admit, NoSocket, DialDone, ProxiesDown, Register
  <2>5. CASE Request
    BY <2>5 DEF Request
  <2>2. CASE Refuse \/ DialFail \/ NextDst \/ GiveUp
    BY <2>2 DEF Refuse, DialFail, NextDst, LeaveDst, GiveUp, CloseFds
  <2>3. CASE Greet
    BY <2>3 DEF Greet, GreetFailed, CloseFds
  <2>4. CASE \E f \in Fds : Socket(f)
    BY <2>4 DEF Socket
  <2> QED
    BY <2>1, <2>2, <2>3, <2>4, <2>5 DEF Serve
<1>1. ~astray /\ served' = served
  BY <1>0
<1>2. served \in Clients
  BY DEF Serve, Admit, Refuse, NoSocket, DialFail, DialDone, Greet, ProxiesDown, Request,
         NextDst, GiveUp, Register, Socket, Dials, OwnersInv, TurnInv, WalkInv, Walk
<1>3. ASSUME NEW S, CloseFds(S), S \subseteq Fds \cup {None}
      PROVE  /\ Kept({LogFile}) /\ \A c \in Clients : c # served => Kept(Of(c))
  <2>1. /\ \A f \in Fds : fdtab'[f] = IF f \in S THEN Nothing ELSE fdtab[f]
        /\ \A f \in S : f \in Fds => fdtab[f] \in {Nothing, Client(served), Dst(served)}
    BY <1>3 DEF CloseFds, Meant, Named
  <2> QED
    BY <2>1, ObjectFacts DEF Kept, Of
<1>4. CASE UNCHANGED fdtab
  BY <1>1, <1>2, <1>4 DEF Kept
<1>5. ASSUME NEW f \in Fds, Socket(f)
      PROVE  /\ Kept({LogFile}) /\ \A c \in Clients : c # served => Kept(Of(c))
  <2>1. fdtab[f] = Nothing /\ fdtab' = [fdtab EXCEPT ![f] = Dst(served)]
        /\ fdtab \in [Fds -> Objects]
    BY <1>5 DEF Socket, OpenFd, OwnersInv, TurnInv, WalkInv, TypeOK
  <2>2. fdtab'[f] = Dst(served) /\ \A g \in Fds : g # f => fdtab'[g] = fdtab[g]
    BY <2>1
  <2> QED
    BY <2>1, <2>2, ObjectFacts DEF Kept, Of
<1>6. src \in Fds \cup {None} /\ so \in Fds \cup {None}
  BY DEF OwnersInv, TurnInv, WalkInv, TypeOK
<1>7. CASE Refuse \/ DialFail \/ NextDst \/ GiveUp \/ (Greet /\ GreetFailed)
  <2>1. CloseFds({src}) \/ CloseFds({so}) \/ CloseFds({src, so})
    BY <1>7 DEF Refuse, DialFail, NextDst, LeaveDst, GiveUp, GreetFailed
  <2> QED
    BY <1>1, <1>2, <1>3, <1>6, <2>1
<1>8. CASE Admit \/ NoSocket \/ DialDone \/ ProxiesDown \/ Request \/ Register
  BY <1>4, <1>8 DEF Admit, NoSocket, DialDone, ProxiesDown, Request, Register
<1>9. CASE Greet /\ ~GreetFailed
  BY <1>4, <1>9 DEF Greet
<1> QED
  BY <1>1, <1>2, <1>5, <1>7, <1>8, <1>9 DEF Serve

\* An accepted socket is the first number of its client.
LEMMA AcceptOwners ==
  ASSUME OwnersInv, ~astray', NEW f \in Fds, Accept(f)
  PROVE  Owners'
<1>1. /\ mpc' = "admit" /\ served' = served + 1 /\ src' = f /\ so' = None
      /\ served + 1 \in Clients /\ served \in Nat
      /\ UNCHANGED <<lfd, settled, pair, astray>>
  BY ConstAssumption
  DEF Accept, log, done, Clients, OwnersInv, TurnInv, WalkInv, TypeOK
<1>2. Owners /\ fdtab[f] = Nothing /\ \A c \in Clients : Whole(c)
  BY <1>1 DEF Accept, OpenFd, OwnersInv, Owners
<1>3. fdtab'[f] = Client(served + 1) /\ \A g \in Fds : g # f => fdtab'[g] = fdtab[g]
  BY DEF Accept, OpenFd, OwnersInv, TurnInv, WalkInv, TypeOK
<1>4. Kept({LogFile}) /\ \A c : c # served + 1 => Kept(Of(c))
  BY <1>2, <1>3, ObjectFacts DEF Kept, Of
<1>5. Numbers(served + 1) = {}
  BY <1>1, <1>2 DEF Owners
<1>6. \A f1 \in Fds : fdtab'[f1] = LogFile <=> f1 = lfd'
  BY <1>1, <1>2, <1>4 DEF Kept, Owners
<1>7. ASSUME NEW c \in Clients, c > served' PROVE Numbers(c)' = {}
  <2>1. c # served + 1 /\ c > served
    BY <1>1, <1>7 DEF Clients
  <2> QED
    BY <1>2, <1>4, <2>1, KeptNumbers DEF Owners
<1>8. ASSUME NEW c \in Clients PROVE Whole(c)'
  <2>1. CASE c = served + 1
    <3>1. settled[c] = "no"
      BY <1>1, <2>1 DEF OwnersInv, TurnInv, Turn
    <3> QED
      BY <1>1, <3>1 DEF Whole
  <2>2. CASE c # served + 1
    BY <1>1, <1>2, <1>4, <2>2, KeptWhole
  <2> QED
    BY <2>1, <2>2
<1>9. ClientNumber' /\ DstNumber'
  <2>1. \A g \in Fds : fdtab'[g] = Client(served + 1) <=> g = f
    BY <1>3, <1>5 DEF Numbers
  <2>2. \A g \in Fds : fdtab'[g] # Dst(served + 1)
    BY <1>3, <1>5, ObjectFacts DEF Numbers
  <2>3. so' # src'
    BY <1>1, ConstAssumption
  <2> QED
    BY <1>1, <2>1, <2>2, <2>3 DEF ClientNumber, DstNumber, NoDst
<1> QED
  BY <1>6, <1>7, <1>8, <1>9 DEF Owners

\* A worker takes down a pair that was registered, and the log thread opens and
\* closes a file of its own.
LEMMA ThreadsOwners ==
  ASSUME OwnersInv, ~astray',
         \/ \E c \in Clients : TakeDown(c)
         \/ \E f \in Fds : LogOpen(f)
         \/ LogClose \/ UNCHANGED vars
  PROVE  Owners'
<1>1. /\ so \in Fds \cup {None} /\ None \notin Fds /\ served \in 0 .. MaxClients
      /\ fdtab \in [Fds -> Objects]
      /\ settled \in [Clients -> {"no", "relayed", "gone"}]
  BY ConstAssumption DEF OwnersInv, TurnInv, WalkInv, TypeOK
<1>2. UNCHANGED <<served, mpc, src, so, proxied, pair>> /\ ~astray
  <2>1. CASE \E c \in Clients : TakeDown(c)
    BY <2>1 DEF TakeDown, attempt
  <2>2. CASE LogClose
    BY <2>2 DEF LogClose, attempt, done
  <2>3. CASE UNCHANGED vars \/ \E f \in Fds : LogOpen(f)
    BY <2>3 DEF LogOpen, vars, attempt, done
  <2> QED
    BY <2>1, <2>2, <2>3
<1>3. /\ Owners /\ ClientNumber /\ DstNumber /\ \A c \in Clients : Whole(c)
      /\ mpc # "poll" => settled[served] = "no"
  BY <1>2 DEF OwnersInv, Owners, TurnInv, Turn
<1>4. ASSUME NEW c \in Clients, TakeDown(c) PROVE Owners'
  <2>1. /\ settled[c] = "relayed" /\ UNCHANGED lfd /\ pair[c] = Numbers(c)
        /\ settled'[c] = "gone"
        /\ \A d \in Clients : d # c => settled'[d] = settled[d]
        /\ \A f \in Fds : fdtab'[f] = IF f \in Numbers(c) THEN Nothing ELSE fdtab[f]
    BY <1>1, <1>3, <1>4 DEF TakeDown, log, Whole
  <2>2. Kept({LogFile}) /\ \A d : d # c => Kept(Of(d))
    BY <2>1, ObjectFacts DEF Kept, Of, Numbers
  <2>3. Numbers(c)' = {}
    BY <2>1, ObjectFacts DEF Numbers
  <2>4. \A f \in Fds : fdtab'[f] = LogFile <=> f = lfd'
    BY <1>3, <2>1, <2>2 DEF Kept, Owners
  <2>5. ASSUME NEW d \in Clients, d > served' PROVE Numbers(d)' = {}
    BY <1>2, <1>3, <2>2, <2>3, <2>5, KeptNumbers DEF Owners
  <2>6. ASSUME NEW d \in Clients PROVE Whole(d)'
    <3>1. CASE d = c
      BY <2>1, <2>3, <3>1 DEF Whole
    <3>2. CASE d # c
      BY <1>2, <1>3, <2>1, <2>2, <3>2, KeptWhole
    <3> QED
      BY <3>1, <3>2
  <2>7. ClientNumber' /\ DstNumber'
    <3>1. CASE mpc = "poll"
      BY <1>2, <3>1 DEF ClientNumber, DstNumber
    <3>2. CASE mpc # "poll"
      <4>1. Kept(Of(served))
        BY <1>3, <2>1, <2>2, <3>2
      <4> QED
        BY <1>1, <1>2, <1>3, <4>1, KeptWrappers
    <3> QED
      BY <3>1, <3>2
  <2> QED
    BY <2>4, <2>5, <2>6, <2>7 DEF Owners
<1>5. ASSUME settled' = settled, \A d : Kept(Of(d)),
             \A f \in Fds : fdtab'[f] = LogFile <=> f = lfd'
      PROVE  Owners'
  <2>1. ASSUME NEW d \in Clients, d > served' PROVE Numbers(d)' = {}
    BY <1>2, <1>3, <1>5, <2>1, KeptNumbers DEF Owners
  <2>2. ASSUME NEW d \in Clients PROVE Whole(d)'
    BY <1>2, <1>3, <1>5, KeptWhole
  <2>3. ClientNumber' /\ DstNumber'
    BY <1>1, <1>2, <1>3, <1>5, KeptWrappers
  <2> QED
    BY <1>5, <2>1, <2>2, <2>3 DEF Owners
<1>6. ASSUME NEW f \in Fds, LogOpen(f) PROVE Owners'
  <2>1. /\ lfd = None /\ lfd' = f /\ settled' = settled /\ fdtab[f] = Nothing
        /\ fdtab'[f] = LogFile /\ \A g \in Fds : g # f => fdtab'[g] = fdtab[g]
    BY <1>1, <1>6 DEF LogOpen, OpenFd, done
  <2>2. \A d : Kept(Of(d))
    BY <2>1, ObjectFacts DEF Kept, Of
  <2>3. \A g \in Fds : fdtab'[g] = LogFile <=> g = lfd'
    BY <1>1, <1>3, <2>1 DEF Owners
  <2> QED
    BY <1>5, <2>1, <2>2, <2>3
<1>7. CASE LogClose
  <2>1. /\ lfd # None /\ lfd' = None /\ settled' = settled
        /\ \A g \in Fds : fdtab'[g] = IF g = lfd THEN Nothing ELSE fdtab[g]
        /\ \A g \in Fds : fdtab[g] = LogFile <=> g = lfd
    BY <1>1, <1>3, <1>7 DEF LogClose, done, Owners
  <2>2. \A d : Kept(Of(d))
    BY <2>1, ObjectFacts DEF Kept, Of
  <2>3. \A g \in Fds : fdtab'[g] = LogFile <=> g = lfd'
    BY <1>1, <2>1, ObjectFacts
  <2> QED
    BY <1>5, <2>1, <2>2, <2>3
<1>8. CASE UNCHANGED vars
  BY <1>3, <1>5, <1>8 DEF vars, done, log, Kept, Owners
<1> QED
  BY <1>4, <1>6, <1>7, <1>8

\* What is left when the main loop closes the number of the destination, and that
\* of the client.
LEMMA DstClosed ==
  ASSUME ClientNumber, DstNumber, mpc # "poll", NEW S,
         \A f \in Fds : fdtab'[f] = IF f \in S THEN Nothing ELSE fdtab[f]
  PROVE  /\ so \in S => \A f \in Fds : fdtab'[f] # Dst(served)
         /\ NoDst => \A f \in Fds : fdtab'[f] # Dst(served)
         /\ src \in S => \A f \in Fds : fdtab'[f] # Client(served)
         /\ src \notin S => \A f \in Fds : fdtab'[f] = Client(served) <=> f = src
BY ObjectFacts DEF ClientNumber, DstNumber, NoDst

\* What the main loop does with its two wrappers, until it is done with the client.
LEMMA WrapperOwners ==
  ASSUME OwnersInv, ~astray', Serve, Owners
  PROVE  ClientNumber' /\ DstNumber'
<1>0. /\ ~astray /\ served \in Clients /\ served' = served
      /\ so \in Fds \cup {None} /\ None \notin Fds /\ mpc \in MainPC
      /\ fdtab \in [Fds -> Objects] /\ ClientNumber /\ DstNumber
  BY OthersKept, ConstAssumption DEF OwnersInv, TurnInv, WalkInv, TypeOK, Owners
<1>1. CASE Refuse \/ GiveUp \/ Register
  BY <1>1 DEF Refuse, GiveUp, Register, ClientNumber, DstNumber
<1>2. CASE Admit \/ ProxiesDown
  <2>1. /\ UNCHANGED <<fdtab, src, so, proxied>> /\ mpc \in {"admit", "proxy"}
        /\ mpc' \in {"direct", "connect", "proxy"}
    BY <1>2 DEF Admit, ProxiesDown, attempt
  <2> QED
    BY <1>0, <2>1 DEF ClientNumber, DstNumber, NoDst
<1>3. CASE NoSocket
  <2>1. /\ mpc \in {"direct", "proxy", "connect"} /\ mpc' \in {"proxy", "failed"} /\ NoDst
        /\ UNCHANGED <<fdtab, src, proxied>> /\ so' \in {so, None}
    BY <1>0, <1>3 DEF NoSocket, Dials, Failed, attempt, DstNumber
  <2> QED
    BY <1>0, <2>1 DEF ClientNumber, DstNumber, NoDst
<1>4. ASSUME NEW f \in Fds, Socket(f) PROVE ClientNumber' /\ DstNumber'
  <2>1. /\ mpc \in {"direct", "proxy", "connect"} /\ mpc' = "dialing" /\ NoDst
        /\ UNCHANGED <<src, proxied>> /\ so' = f /\ fdtab[f] = Nothing
        /\ fdtab'[f] = Dst(served) /\ \A g \in Fds : g # f => fdtab'[g] = fdtab[g]
    BY <1>0, <1>4 DEF Socket, OpenFd, Dials, attempt, DstNumber
  <2>2. src \in Fds /\ fdtab[src] = Client(served) /\ f # src
    BY <1>0, <2>1, ObjectFacts DEF ClientNumber
  <2>3. ClientNumber'
    BY <1>0, <2>1, <2>2, ObjectFacts DEF ClientNumber
  <2>4. DstNumber'
    BY <1>0, <2>1 DEF DstNumber, NoDst, Connected, Named
  <2> QED
    BY <2>3, <2>4
<1>5. CASE DialFail \/ NextDst \/ (Greet /\ GreetFailed)
  <2>1. /\ mpc \in {"dialing", "failed", "greet"} /\ mpc' \in {"proxy", "failed", "refuse"}
        /\ UNCHANGED src /\ so' \in {so, None}
        /\ \A f \in Fds : fdtab'[f] = IF f \in {so} THEN Nothing ELSE fdtab[f]
    <3>1. CASE DialFail
      BY <3>1 DEF DialFail, CloseFds, Failed, attempt, OwnersInv, TurnInv, WalkInv, Walk,
                  TypeOK
    <3>2. CASE NextDst
      BY <3>2 DEF NextDst, LeaveDst, CloseFds
    <3>3. CASE Greet /\ GreetFailed
      <4>1. so \in Fds /\ so' = None /\ None \notin Fds
        BY <1>0, <3>3 DEF Greet, GreetFailed, OwnersInv, TurnInv, WalkInv, TypeOK
      <4>2. mpc' = "proxy"
        BY <3>3, <4>1 DEF Greet
      <4> QED
        BY <3>3, <4>1, <4>2 DEF Greet, GreetFailed, CloseFds
    <3> QED
      BY <1>5, <3>1, <3>2, <3>3
  <2>2. \A f \in Fds : fdtab'[f] # Dst(served)
    BY <1>0, <2>1, DstClosed
  <2>3. \A f \in Fds : fdtab'[f] = Client(served) <=> f = src
    BY <1>0, <2>1, DstClosed DEF ClientNumber
  <2> QED
    BY <1>0, <2>1, <2>2, <2>3 DEF ClientNumber, DstNumber, NoDst
<1>6. CASE DialDone
  <2>1. /\ mpc = "dialing" /\ mpc' \in {"greet", "register", "failed"}
        /\ UNCHANGED <<fdtab, src, so, proxied>>
    BY <1>6 DEF DialDone, OwnersInv, TurnInv, WalkInv, Walk, TypeOK
  <2> QED
    BY <1>0, <2>1 DEF ClientNumber, DstNumber, Connected, Named
<1>7. CASE Greet /\ ~GreetFailed
  <2>1. /\ mpc = "greet" /\ mpc' = "connect" /\ UNCHANGED <<fdtab, src, so>> /\ proxied'
    BY <1>7 DEF Greet
  <2> QED
    BY <1>0, <2>1 DEF ClientNumber, DstNumber
<1>8. CASE Request
  <2>1. /\ mpc = "connect" /\ UNCHANGED <<fdtab, src, so>>
        /\ mpc' = "failed" \/ (mpc' = "register" /\ Connected)
    BY <1>0, <1>8 DEF Request, attempt
  <2> QED
    BY <1>0, <2>1 DEF ClientNumber, DstNumber, Connected, Named
<1> QED
  BY <1>1, <1>2, <1>3, <1>4, <1>5, <1>6, <1>7, <1>8 DEF Serve

\* How a client leaves the main loop: with nothing, or with the two numbers.
LEMMA ServedWhole ==
  ASSUME OwnersInv, ~astray', Serve, Owners
  PROVE  Whole(served)'
<1>0. /\ ~astray /\ served \in Clients /\ served' = served /\ ClientNumber /\ DstNumber
      /\ settled \in [Clients -> {"no", "relayed", "gone"}]
      /\ pair \in [Clients -> SUBSET (Fds \cup {None})]
      /\ mpc # "poll" => settled[served] = "no"
  BY OthersKept DEF OwnersInv, TurnInv, Turn, WalkInv, TypeOK, Owners
<1>1. CASE Refuse \/ GiveUp
  <2>1. /\ mpc # "poll" /\ settled'[served] = "gone"
        /\ \E S : /\ src \in S /\ (so \in S \/ NoDst)
                  /\ \A f \in Fds : fdtab'[f] = IF f \in S THEN Nothing ELSE fdtab[f]
    <3>1. CASE Refuse
      BY <1>0, <3>1 DEF Refuse, CloseFds, DstNumber
    <3>2. CASE GiveUp
      BY <1>0, <3>2 DEF GiveUp, CloseFds
    <3> QED
      BY <1>1, <3>1, <3>2
  <2>2. \A f \in Fds : fdtab'[f] # Client(served) /\ fdtab'[f] # Dst(served)
    BY <1>0, <2>1, DstClosed
  <2> QED
    BY <1>0, <2>1, <2>2 DEF Whole, Numbers
<1>2. CASE Register
  <2>1. /\ mpc = "register" /\ settled'[served] = "relayed" /\ pair'[served] = {src, so}
        /\ UNCHANGED fdtab
    BY <1>0, <1>2 DEF Register
  <2>2. /\ src \in Fds /\ so \in Fds /\ fdtab[src] = Client(served)
        /\ fdtab[so] = Dst(served)
        /\ \A f \in Fds : /\ fdtab[f] = Client(served) => f = src
                          /\ fdtab[f] = Dst(served) => f = so
    BY <1>0, <2>1, ObjectFacts DEF ClientNumber, DstNumber, Connected, Named
  <2>3. Numbers(served) = {src, so}
    BY <2>2 DEF Numbers
  <2>4. {fdtab[f] : f \in {src, so}} = {Client(served), Dst(served)}
    BY <2>2
  <2> QED
    BY <1>0, <2>1, <2>3, <2>4 DEF Whole, Numbers
<1>3. CASE ~(Refuse \/ GiveUp \/ Register)
  <2>1. mpc # "poll" /\ settled' = settled
    BY <1>3 DEF Serve, Admit, NoSocket, Socket, DialFail, DialDone, Greet, ProxiesDown,
                Request, NextDst, Dials, done
  <2> QED
    BY <1>0, <2>1 DEF Whole
<1> QED
  BY <1>1, <1>2, <1>3

LEMMA ServeOwners ==
  ASSUME OwnersInv, ~astray', Serve
  PROVE  Owners'
<1>1. /\ ~astray /\ served \in Clients /\ served' = served /\ Kept({LogFile})
      /\ \A c \in Clients : c # served => Kept(Of(c))
  BY OthersKept
<1>2. Owners /\ \A c \in Clients : Whole(c)
  BY <1>1 DEF OwnersInv, Owners
<1>3. /\ UNCHANGED lfd
      /\ \A c \in Clients : c # served => settled'[c] = settled[c] /\ pair'[c] = pair[c]
  <2>0. /\ settled \in [Clients -> {"no", "relayed", "gone"}]
        /\ pair \in [Clients -> SUBSET (Fds \cup {None})]
    BY DEF OwnersInv, TurnInv, WalkInv, TypeOK
  <2>1. CASE Refuse \/ GiveUp \/ Register
    BY <1>1, <2>0, <2>1 DEF Refuse, GiveUp, Register, log
  <2>2. CASE ~(Refuse \/ GiveUp \/ Register)
    BY <2>2 DEF Serve, Admit, NoSocket, Socket, DialFail, DialDone, Greet, ProxiesDown,
                Request, NextDst, Dials, done, log
  <2> QED
    BY <2>1, <2>2
<1>4. \A f \in Fds : fdtab'[f] = LogFile <=> f = lfd'
  BY <1>1, <1>2, <1>3 DEF Kept, Owners
<1>5. ASSUME NEW c \in Clients, c > served' PROVE Numbers(c)' = {}
  <2>1. c # served /\ c > served
    BY <1>1, <1>5, ConstAssumption DEF Clients
  <2> QED
    BY <1>1, <1>2, <2>1, KeptNumbers DEF Owners
<1>6. ASSUME NEW c \in Clients PROVE Whole(c)'
  <2>1. CASE c = served
    <3>1. Whole(served)'
      BY <1>2, ServedWhole
    <3> QED
      BY <1>1, <2>1, <3>1 DEF Whole, Numbers, Client, Dst
  <2>2. CASE c # served
    BY <1>1, <1>2, <1>3, <2>2, KeptWhole
  <2> QED
    BY <2>1, <2>2
<1>7. ClientNumber' /\ DstNumber'
  BY <1>2, WrapperOwners
<1> QED
  BY <1>4, <1>5, <1>6, <1>7 DEF Owners

LEMMA OwnersStep == OwnersInv /\ [Next]_vars => OwnersInv'
<1> SUFFICES ASSUME OwnersInv, [Next]_vars PROVE OwnersInv'
  OBVIOUS
<1>1. TurnInv'
  BY TurnStep DEF OwnersInv
<1>2. ASSUME ~astray' PROVE Owners'
  BY <1>2, AcceptOwners, ThreadsOwners, ServeOwners DEF Next
<1> QED
  BY <1>1, <1>2 DEF OwnersInv

THEOREM OwnersAlways == Spec => []OwnersInv
BY InitOwners, OwnersStep, PTL DEF Spec

\* However the attempts of the clients fail, and whatever the log and the workers
\* open and close meanwhile: unless a number went astray, a client that was
\* turned away holds no descriptor and one that is relayed holds exactly two.
THEOREM ConnectAllOrNothing == Spec => []AllOrNothing
<1>1. OwnersInv => AllOrNothing
  BY DEF OwnersInv, Owners, Whole, AllOrNothing
<1> QED
  BY <1>1, OwnersAlways, PTL

-----------------------------------------------------------------------------
(* What the current socket is connected to, and which way.                 *)

\* Which proxies have failed, and when the direct way is taken.
Direct ==
  /\ \A n \in 1 .. Len(Proxies(i)) : n < j => Proxies(i)[n] \in down
  /\ (mpc = "connect" /\ ~proxied) \/ (mpc = "dialing" /\ back = "connect") =>
       j > Len(Proxies(i)) \/ service = "tcprelay"

Unanswered == link.via \in ProxiesOf(i) /\ link.to = None

Arrived ==
  \/ link.to = Plan[i].addr /\ link.via \in ProxiesOf(i) /\ link.auth
  \/ /\ link.to = Plan[i].addr /\ link.via = None
     /\ ProxiesOf(i) \subseteq down \/ service = "tcprelay"
  \/ Unanswered

LinkGood ==
  /\ mpc = "greet" => Unanswered
  /\ mpc = "connect" /\ proxied /\ Connected => Unanswered
  /\ mpc = "register" => Arrived

Ends == (i \in DOMAIN Plan => Direct) /\ (~astray => LinkGood)
EndsInv == OwnersInv /\ Ends

LEMMA InitEnds == Init => EndsInv
<1>1. Init => Direct /\ LinkGood
  <2> SUFFICES ASSUME Init PROVE Direct /\ LinkGood
    OBVIOUS
  <2>1. mpc = "poll" /\ i = 1 /\ j = 1 /\ Len(Proxies(1)) \in Nat
    BY PlanFacts DEF Init
  <2> QED
    BY <2>1 DEF Direct, LinkGood
<1> QED
  BY <1>1, InitOwners DEF EndsInv, Ends

\* The walk through the proxies of a destination leaves none out.
LEMMA DirectStep ==
  ASSUME WalkInv, i \in DOMAIN Plan => Direct, [Next]_vars, i' \in DOMAIN Plan
  PROVE  Direct'
<1> USE DEF Direct, Proxies
<1>1. ASSUME NEW f \in Fds, Accept(f) PROVE Direct'
  <2>1. i' = 1 /\ j' = 1 /\ mpc' = "admit" /\ Len(Plan[1].proxies) \in Nat
    BY <1>1, PlanFacts DEF Accept
  <2> QED
    BY <2>1
<1>2. CASE NextDst
  <2>1. j' = 1 /\ mpc' \in {"proxy", "refuse"} /\ Len(Plan[i'].proxies) \in Nat
    BY <1>2, PlanFacts DEF NextDst
  <2> QED
    BY <2>1
<1>3. ASSUME UNCHANGED <<i, j, down, service>>,
             \/ mpc' \notin {"connect", "dialing"} \/ (mpc' = "connect" /\ proxied')
             \/ mpc' = mpc /\ UNCHANGED <<proxied, back>>
             \/ mpc' = "connect" /\ j > Len(Proxies(i))
             \/ mpc' = "connect" /\ service = "tcprelay"
             \/ mpc' = "dialing" /\ back' = mpc /\ (mpc = "connect" => ~proxied)
      PROVE  Direct'
  BY <1>3
<1>4. CASE Refuse \/ GiveUp \/ Register \/ Request \/ DialDone
  BY <1>3, <1>4
  DEF Refuse, GiveUp, Register, Request, DialDone, attempt, past, WalkInv, TypeOK, Walk
<1>5. CASE Admit
  BY <1>3, <1>5 DEF Admit, attempt, past
<1>6. CASE ProxiesDown
  <2>1. j > Len(Proxies(i))
    BY <1>6, PlanFacts DEF ProxiesDown, MoreProxies, WalkInv, TypeOK, Walk
  <2> QED
    BY <1>3, <1>6, <2>1 DEF ProxiesDown, attempt, past
<1>7. ASSUME NEW f \in Fds, Socket(f) PROVE Direct'
  BY <1>3, <1>7 DEF Socket, Dials, attempt
<1>8. ASSUME NEW call, i' = i, i \in DOMAIN Plan, mpc' \in {"proxy", "failed"},
             j' = Advance(call), down' = Downed(call)
      PROVE  Direct'
  <2>1. j \in Nat /\ Len(Proxies(i)) \in Nat /\ Direct
    BY <1>8, PlanFacts DEF WalkInv, TypeOK
  <2> QED
    BY <1>8, <2>1 DEF Advance, Downed
<1>9. CASE NoSocket \/ DialFail
  <2>1. \E call : /\ j' = Advance(call) /\ down' = Downed(call) /\ Failed(call)
                  /\ call \in {"proxy", "connect", "direct"}
    BY <1>9 DEF NoSocket, DialFail, Dials, WalkInv, TypeOK, Walk
  <2>2. i' = i /\ i \in DOMAIN Plan
    BY <1>9 DEF NoSocket, DialFail, Dials, attempt, WalkInv, Walk
  <2> QED
    BY <1>8, <2>1, <2>2 DEF Failed
<1>10. CASE Greet
  <2>1. i' = i /\ i \in DOMAIN Plan /\ UNCHANGED service
    BY <1>10 DEF Greet, WalkInv, Walk
  <2>2. \/ j' = Advance("proxy") /\ down' = Downed("proxy") /\ mpc' = "proxy"
        \/ UNCHANGED <<j, down>> /\ mpc' = "connect" /\ proxied'
    BY <1>10 DEF Greet
  <2> QED
    BY <1>3, <1>8, <2>1, <2>2
<1>11. CASE \/ \E c \in Clients : TakeDown(c)
            \/ \E f \in Fds : LogOpen(f)
            \/ LogClose \/ UNCHANGED vars
  <2>1. UNCHANGED <<i, j, down, service, mpc, proxied, back>>
    BY <1>11 DEF TakeDown, LogOpen, LogClose, vars, attempt, past
  <2> QED
    BY <1>3, <2>1
<1> QED
  BY <1>1, <1>2, <1>4, <1>5, <1>6, <1>7, <1>9, <1>10, <1>11 DEF Next, Serve

\* DialDone connects to the next proxy or to the destination; what a proxy answers
\* does not change who it is.
LEMMA ServeLink ==
  ASSUME OwnersInv, Owners, i \in DOMAIN Plan => Direct, LinkGood, ~astray', Serve
  PROVE  LinkGood'
<1>0. /\ ~astray /\ served' = served /\ DstNumber /\ mpc \in MainPC /\ link \in Link
      /\ (mpc \notin {"poll", "refuse"} => i \in DOMAIN Plan)
  BY OthersKept DEF OwnersInv, TurnInv, WalkInv, Walk, TypeOK, Owners
<1> USE DEF LinkGood
<1>1. CASE Refuse \/ GiveUp \/ Register
  BY <1>1 DEF Refuse, GiveUp, Register
<1>2. CASE NoSocket \/ DialFail \/ NextDst \/ \E f \in Fds : Socket(f)
  <2>1. mpc' \in {"proxy", "failed", "refuse", "dialing"}
    BY <1>2 DEF NoSocket, DialFail, NextDst, Socket, Dials, Failed, OwnersInv, TurnInv,
                WalkInv, Walk, TypeOK
  <2> QED
    BY <2>1
<1>3. CASE Admit \/ ProxiesDown
  <2>1. /\ UNCHANGED <<fdtab, so>> /\ mpc' \in {"direct", "connect", "proxy"}
        /\ mpc \in {"admit", "proxy"}
    BY <1>3 DEF Admit, ProxiesDown
  <2>2. so \in Fds \cup {None} /\ NoDst
    BY <1>0, <2>1 DEF DstNumber, OwnersInv, TurnInv, WalkInv, TypeOK
  <2>3. ~Connected'
    BY <1>0, <2>1, <2>2, ObjectFacts DEF Connected, Named, NoDst
  <2> QED
    BY <2>1, <2>3
<1>4. CASE DialDone
  <2>1. /\ mpc = "dialing" /\ i' = i /\ back \in {"proxy", "connect", "direct"}
        /\ i \in DOMAIN Plan /\ Direct /\ UNCHANGED <<down, service>>
        /\ j \in Nat /\ Len(Proxies(i)) \in Nat
        /\ back = "proxy" => j \in 1 .. Len(Proxies(i))
    BY <1>0, <1>4, PlanFacts DEF DialDone, OwnersInv, TurnInv, WalkInv, Walk, TypeOK
  <2>2. CASE back = "proxy"
    <3>1. mpc' = "greet" /\ link' = [NoLink EXCEPT !.via = Proxies(i)[j]]
      BY <1>4, <2>2 DEF DialDone
    <3>2. link'.via \in ProxiesOf(i) /\ link'.to = None
      BY <1>0, <2>1, <2>2, <3>1, PlanFacts DEF NoLink
    <3> QED
      BY <2>1, <3>1, <3>2 DEF Unanswered, ProxiesOf, Proxies
  <2>3. CASE back = "connect"
    <3>1. mpc' = "register" /\ link'.to = Plan[i].addr /\ link'.via = None
      BY <1>4, <2>3 DEF DialDone, NoLink
    <3>2. \A n \in 1 .. Len(Proxies(i)) : Proxies(i)[n] \in down \/ service = "tcprelay"
      BY <2>1, <2>3 DEF Direct
    <3>3. ProxiesOf(i) \subseteq down \/ service = "tcprelay"
      <4>1. DOMAIN Proxies(i) = 1 .. Len(Proxies(i))
        BY <2>1, PlanAssumption DEF Proxies
      <4> QED
        BY <3>2, <4>1 DEF ProxiesOf
    <3> QED
      BY <2>1, <3>1, <3>3 DEF Arrived, ProxiesOf, Proxies
  <2>4. CASE back = "direct"
    BY <1>4, <2>4 DEF DialDone
  <2> QED
    BY <2>1, <2>2, <2>3, <2>4
<1>5. CASE Greet
  <2>1. /\ mpc = "greet" /\ i' = i
        /\ mpc' = "proxy" \/ (mpc' = "connect" /\ \E b : link' = [link EXCEPT !.auth = b])
    BY <1>5 DEF Greet
  <2>2. mpc' = "connect" => link'.via = link.via /\ link'.to = link.to
    BY <1>0, <2>1 DEF Link
  <2> QED
    BY <2>1, <2>2 DEF Unanswered, ProxiesOf, Proxies
<1>6. CASE Request
  <2>1. /\ mpc = "connect" /\ proxied /\ i' = i
        /\ \/ mpc' = "failed"
           \/ /\ Connected /\ mpc' = "register" /\ link.auth
              /\ link' = [link EXCEPT !.to = Plan[i].addr]
           \/ Connected /\ mpc' = "register" /\ link' = link
    BY <1>0, <1>6 DEF Request, attempt
  <2>2. CASE link.auth /\ Connected /\ link' = [link EXCEPT !.to = Plan[i].addr]
    <3>1. link'.via \in ProxiesOf(i) /\ link'.to = Plan[i].addr /\ link'.auth
      BY <1>0, <2>1, <2>2 DEF Link, Unanswered
    <3> QED
      BY <2>1, <3>1 DEF Arrived, ProxiesOf, Proxies
  <2>3. CASE Connected /\ link' = link
    BY <2>1, <2>3 DEF Arrived, Unanswered, ProxiesOf, Proxies
  <2> QED
    BY <2>1, <2>2, <2>3
<1> QED
  BY <1>1, <1>2, <1>3, <1>4, <1>5, <1>6 DEF Serve

LEMMA LinkStep == EndsInv /\ [Next]_vars /\ ~astray' => LinkGood'
<1> SUFFICES ASSUME EndsInv, [Next]_vars, ~astray' PROVE LinkGood'
  OBVIOUS
<1>1. CASE Serve
  BY <1>1, OthersKept, ServeLink DEF EndsInv, Ends, OwnersInv
<1>2. ASSUME NEW f \in Fds, Accept(f) PROVE LinkGood'
  BY <1>2 DEF Accept, LinkGood
<1>3. CASE \/ \E c \in Clients : TakeDown(c)
           \/ \E f \in Fds : LogOpen(f)
           \/ LogClose \/ UNCHANGED vars
  <2>1. ~astray /\ UNCHANGED <<served, mpc, so, i, proxied, link, down, service>>
    <3>1. CASE \E c \in Clients : TakeDown(c)
      BY <3>1 DEF TakeDown, attempt, past
    <3>2. CASE LogClose
      BY <3>2 DEF LogClose, attempt, past
    <3>3. CASE UNCHANGED vars \/ \E f \in Fds : LogOpen(f)
      BY <3>3 DEF LogOpen, vars, attempt, past
    <3> QED
      BY <1>3, <3>1, <3>2, <3>3
  <2>2. LinkGood
    BY <2>1 DEF EndsInv, Ends
  <2>3. mpc = "connect" /\ proxied /\ Connected' => Connected
    <3>1. CASE \E c \in Clients : TakeDown(c)
      BY <2>1, <3>1, ObjectFacts DEF TakeDown, Connected, Named
    <3>2. CASE LogClose
      BY <2>1, <3>2, ObjectFacts
      DEF LogClose, Connected, Named, EndsInv, OwnersInv, TurnInv, WalkInv, TypeOK
    <3>3. ASSUME NEW f \in Fds, LogOpen(f) PROVE Connected' => Connected
      BY <2>1, <3>3, ObjectFacts
      DEF LogOpen, OpenFd, Connected, Named, EndsInv, OwnersInv, TurnInv, WalkInv, TypeOK
    <3>4. CASE UNCHANGED vars
      BY <3>4 DEF vars, Connected, Named
    <3> QED
      BY <1>3, <3>1, <3>2, <3>3, <3>4
  <2> QED
    BY <2>1, <2>2, <2>3 DEF LinkGood, Arrived, Unanswered, ProxiesOf, Proxies
<1> QED
  BY <1>1, <1>2, <1>3 DEF Next

LEMMA EndsStep == EndsInv /\ [Next]_vars => EndsInv'
<1>1. EndsInv /\ [Next]_vars => OwnersInv'
  BY OwnersStep DEF EndsInv
<1>2. EndsInv /\ [Next]_vars => (i \in DOMAIN Plan => Direct)'
  BY DirectStep DEF EndsInv, Ends, OwnersInv, TurnInv
<1> QED
  BY <1>1, <1>2, LinkStep DEF EndsInv, Ends

\* Whatever the proxies do, and unless a number went astray, the socket that is
\* registered leads to the destination in hand, through one of its own proxies
\* or, when all of them have failed, directly; or to one of its proxies that has
\* closed without an answer.
THEOREM ConnectRightEnd == Spec => []RightEnd
<1>1. EndsInv => RightEnd
  BY DEF EndsInv, Ends, LinkGood, Arrived, Unanswered, RightEnd
<1> QED
  BY <1>1, InitEnds, EndsStep, PTL DEF Spec

-----------------------------------------------------------------------------
(* Without a log file nobody takes a number the main loop still believes   *)
(* in: none goes astray.                                                   *)

Fresh ==
  /\ ~astray /\ lfd = None
  /\ mpc # "poll" => Named(so) \in {Nothing, Dst(served)}

FreshInv == OwnersInv /\ Fresh

LEMMA InitFresh == Init => FreshInv
<1>1. Init => Fresh
  BY DEF Init, Fresh
<1> QED
  BY <1>1, InitOwners DEF FreshInv

LEMMA FreshStep == MaxLines = 0 /\ FreshInv /\ [Next]_vars => FreshInv'
<1> SUFFICES ASSUME MaxLines = 0, FreshInv, [Next]_vars PROVE Fresh'
  BY OwnersStep DEF FreshInv
<1>0. /\ ~astray /\ lfd = None /\ None \notin Fds /\ served \in 0 .. MaxClients
      /\ ClientNumber /\ DstNumber /\ \A c \in Clients : Whole(c)
      /\ so \in Fds \cup {None} /\ lines \in 0 .. MaxLines /\ fdtab \in [Fds -> Objects]
      /\ mpc # "poll" => /\ Named(so) \in {Nothing, Dst(served)}
                         /\ src \in Fds /\ Named(src) = Client(served)
  BY ConstAssumption
  DEF FreshInv, Fresh, OwnersInv, Owners, TurnInv, WalkInv, TypeOK, ClientNumber, Named
<1>1. ASSUME NEW f \in Fds, Accept(f) PROVE Fresh'
  <2>1. so' = None /\ lfd' = lfd /\ astray' = astray
    BY <1>1 DEF Accept, log
  <2> QED
    BY <1>0, <2>1 DEF Fresh, Named
<1>2. ASSUME NEW S, CloseFds(S), S \subseteq {src, so}, mpc # "poll"
      PROVE  ~astray' /\ \A f : (IF f \in Fds THEN fdtab'[f] ELSE Nothing) \in {Nothing, Named(f)}
  BY <1>0, <1>2 DEF CloseFds, Meant, Named
<1>3. CASE Refuse \/ GiveUp
  <2>1. \E S : S \subseteq {src, so} /\ CloseFds(S) /\ mpc # "poll"
    BY <1>3 DEF Refuse, GiveUp
  <2>2. ~astray' /\ lfd' = lfd /\ mpc' = "poll"
    BY <1>2, <1>3, <2>1 DEF Refuse, GiveUp, log
  <2> QED
    BY <1>0, <2>2 DEF Fresh
<1>4. CASE DialFail \/ NextDst \/ (Greet /\ GreetFailed)
  <2>1. /\ CloseFds({so}) /\ mpc # "poll" /\ so' \in {so, None}
        /\ UNCHANGED <<lfd, served>>
    BY <1>4 DEF DialFail, NextDst, LeaveDst, Greet, GreetFailed, log
  <2>2. ~astray' /\ \A f \in Fds : fdtab'[f] \in {Nothing, fdtab[f]}
    BY <1>2, <2>1 DEF Named
  <2> QED
    BY <1>0, <2>1, <2>2 DEF Fresh, Named
<1>5. ASSUME UNCHANGED <<fdtab, lfd, served, astray>>, so' \in {so, None}, mpc # "poll"
      PROVE  Fresh'
  BY <1>0, <1>5 DEF Fresh, Named
<1>6. CASE Admit \/ NoSocket \/ DialDone \/ ProxiesDown \/ Register
  BY <1>5, <1>6 DEF Admit, NoSocket, DialDone, ProxiesDown, Register, Dials, log
<1>7. CASE Request \/ (Greet /\ ~GreetFailed)
  <2>1. /\ UNCHANGED <<fdtab, lfd, served, so>> /\ mpc # "poll"
        /\ astray' = (astray \/ ~Meant(so))
    <3>1. CASE Request
      BY <3>1 DEF Request, log
    <3>2. CASE Greet /\ ~GreetFailed
      BY <3>2 DEF Greet, log
    <3> QED
      BY <1>7, <3>1, <3>2
  <2>2. ~astray'
    BY <1>0, <2>1 DEF Meant
  <2> QED
    BY <1>0, <2>1, <2>2 DEF Fresh, Named
<1>8. ASSUME NEW f \in Fds, Socket(f) PROVE Fresh'
  <2>1. /\ so' = f /\ fdtab'[f] = Dst(served)
        /\ UNCHANGED <<lfd, served, astray>>
    BY <1>0, <1>8 DEF Socket, OpenFd, log
  <2> QED
    BY <1>0, <2>1 DEF Fresh, Named
<1>9. ASSUME NEW c \in Clients, TakeDown(c) PROVE Fresh'
  <2>1. /\ pair[c] = Numbers(c) /\ UNCHANGED <<lfd, served, mpc, so>>
        /\ \A f \in Fds : fdtab'[f] \in {Nothing, fdtab[f]}
    BY <1>0, <1>9 DEF TakeDown, Whole, log
  <2>2. ~astray'
    BY <1>0, <1>9, <2>1 DEF TakeDown, Numbers
  <2> QED
    BY <1>0, <2>1, <2>2 DEF Fresh, Named
<1>10. ~LogClose /\ ~\E f \in Fds : LogOpen(f)
  BY <1>0 DEF LogClose, LogOpen
<1>11. CASE UNCHANGED vars
  BY <1>0, <1>11 DEF vars, log, Fresh, Named
<1> QED
  BY <1>1, <1>3, <1>4, <1>6, <1>7, <1>8, <1>9, <1>10, <1>11 DEF Next, Serve

\* Without a log file no number is ever used for an object it did not mean,
\* whatever the many error paths of _internal_connect leave in m_socket.
THEOREM NothingStrays == MaxLines = 0 => (Spec => []~astray)
<1> SUFFICES ASSUME MaxLines = 0 PROVE Spec => []~astray
  OBVIOUS
<1>1. FreshInv => ~astray
  BY DEF FreshInv, Fresh
<1>2. FreshInv /\ [Next]_vars => FreshInv'
  BY FreshStep
<1> QED
  BY <1>1, <1>2, InitFresh, PTL DEF Spec

-----------------------------------------------------------------------------
(* Connect is an Attempt.                                                  *)

\* The abstract state, as OneAtATime reads it from the tables.
State(c) ==
  CASE c > served -> "absent"
    [] c <= served /\ settled[c] = "relayed" -> "relayed"
    [] c <= served /\ settled[c] # "relayed" ->
         IF Numbers(c) = {} THEN "gone" ELSE "open"

Held(c) == Cardinality(Numbers(c))

States == [c \in Clients |-> State(c)]
Helds == [c \in Clients |-> Held(c)]

LEMMA PairCardinality ==
  /\ Cardinality({}) = 0
  /\ \A a : Cardinality({a}) = 1
  /\ \A a, b : a # b => Cardinality({a, b}) = 2
<1>1. Cardinality({}) = 0 /\ \A a : IsFiniteSet({a}) /\ Cardinality({a}) = 1
  BY FS_EmptySet, FS_Singleton
<1>2. ASSUME NEW a, NEW b, a # b PROVE Cardinality({a, b}) = 2
  <2>1. {a, b} = {a} \cup {b}
    OBVIOUS
  <2>2. Cardinality({a} \cup {b}) = Cardinality({a}) + 1
    BY <1>1, <1>2, FS_AddElement
  <2> QED
    BY <1>1, <2>1, <2>2
<1> QED
  BY <1>1, <1>2

\* A client that is being served holds one number or two.
Shape ==
  /\ served \in Clients /\ State(served) = "open" /\ Held(served) \in {1, 2}
  /\ Connected => Held(served) = 2

LEMMA ServedHolds == OwnersInv /\ ~astray /\ mpc # "poll" => Shape
<1> SUFFICES ASSUME OwnersInv, ~astray, mpc # "poll" PROVE Shape
  OBVIOUS
<1>1. /\ served \in Clients /\ served \in Nat /\ settled[served] = "no"
      /\ ClientNumber /\ DstNumber
  BY DEF OwnersInv, Owners, TurnInv, Turn, WalkInv, Walk, Clients
<1>2. /\ src \in Fds /\ src \in Numbers(served) /\ so # src
      /\ \A f \in Numbers(served) : f = src \/ f = so
      /\ Connected => so \in Numbers(served)
  BY <1>1, ObjectFacts
  DEF ClientNumber, DstNumber, Numbers, Connected, Named
<1>3. Held(served) \in {1, 2} /\ (Connected => Held(served) = 2)
  <2>1. Cardinality({src}) = 1 /\ Cardinality({src, so}) = 2
    BY <1>2, PairCardinality
  <2>2. CASE so \in Numbers(served)
    <3>1. Numbers(served) = {src, so}
      BY <1>2, <2>2
    <3> QED
      BY <2>1, <3>1 DEF Held
  <2>3. CASE so \notin Numbers(served)
    <3>1. Numbers(served) = {src}
      BY <1>2, <2>3
    <3> QED
      BY <1>2, <2>1, <2>3, <3>1 DEF Held
  <2> QED
    BY <2>2, <2>3
<1>4. State(served) = "open"
  BY <1>1, <1>2 DEF State
<1> QED
  BY <1>1, <1>3, <1>4 DEF Shape

\* A client whose numbers stay and that is not settled by the step stands still.
LEMMA StandsStill ==
  ASSUME NEW c \in Clients, Kept(Of(c)), settled'[c] = settled[c],
         c > served' <=> c > served, served \in Nat, served' \in Nat
  PROVE  State(c)' = State(c) /\ Held(c)' = Held(c)
<1>1. Numbers(c)' = Numbers(c)
  BY KeptNumbers
<1> QED
  BY <1>1 DEF State, Held, Clients

\* One client changes, the others stand still.
LEMMA OneChanges ==
  ASSUME NEW d \in Clients, NEW to, NEW n, State(d)' = to, Held(d)' = n,
         \A c \in Clients : c # d => State(c)' = State(c) /\ Held(c)' = Held(c)
  PROVE  States' = [States EXCEPT ![d] = to] /\ Helds' = [Helds EXCEPT ![d] = n]
BY DEF States, Helds

LEMMA InitMaps == Init => A!Init
<1> SUFFICES ASSUME Init PROVE A!Init
  OBVIOUS
<1>1. \A c : Numbers(c) = {}
  BY ObjectFacts DEF Init, Numbers
<1>2. ASSUME NEW c \in Clients PROVE State(c) = "absent" /\ Held(c) = 0
  <2>1. served = 0 /\ c \in Nat /\ c > 0 /\ Numbers(c) = {}
    BY <1>1 DEF Init, Clients
  <2>2. State(c) = "absent"
    BY <2>1 DEF State
  <2>3. Held(c) = Cardinality({}) /\ Cardinality({}) = 0
    BY <2>1, PairCardinality DEF Held
  <2> QED
    BY <2>2, <2>3
<1>3. astray = FALSE
  BY DEF Init
<1> QED
  BY <1>2, <1>3 DEF A!Init, State, Held

LEMMA StaysAstray == [Next]_vars /\ ~astray' => ~astray
<1> SUFFICES ASSUME [Next]_vars, astray PROVE astray'
  OBVIOUS
<1>1. CASE Admit \/ NoSocket \/ DialDone \/ ProxiesDown \/ Register \/ Request
  BY <1>1 DEF Admit, NoSocket, DialDone, ProxiesDown, Register, Request
<1>2. CASE Refuse \/ DialFail \/ NextDst \/ GiveUp \/ Greet
  BY <1>2 DEF Refuse, DialFail, NextDst, LeaveDst, GiveUp, Greet, GreetFailed, CloseFds
<1>3. CASE \E f \in Fds : Socket(f) \/ Accept(f) \/ LogOpen(f)
  BY <1>3 DEF Socket, Accept, LogOpen
<1>4. CASE LogClose \/ (\E c \in Clients : TakeDown(c)) \/ UNCHANGED vars
  BY <1>4 DEF LogClose, TakeDown, vars
<1> QED
  BY <1>1, <1>2, <1>3, <1>4 DEF Next, Serve

\* Every step of the system is a step of an attempt or none, as long as it uses
\* no number for an object it does not mean.
LEMMA StepMaps ==
  ASSUME OwnersInv, OwnersInv', ~astray', [Next]_vars
  PROVE  \/ A!Next
         \/ States' = States /\ Helds' = Helds /\ astray' = astray
<1>s. astray' = astray /\ ~astray
  BY StaysAstray DEF OwnersInv, TurnInv, WalkInv, TypeOK
<1> DEFINE Chg(d, from, to, n) == /\ States[d] \in from
                                  /\ States' = [States EXCEPT ![d] = to]
                                  /\ Helds' = [Helds EXCEPT ![d] = n]
<1>a. ASSUME NEW d \in Clients
      PROVE  /\ (\A c \in Clients : States[c] # "open") /\ Chg(d, {"absent"}, "open", 1) => A!Next
             /\ \A n \in {1, 2} : Chg(d, {"open"}, "open", n) => A!Next
             /\ Helds[d] = 2 /\ Chg(d, {"open"}, "relayed", 2) => A!Next
             /\ Chg(d, {"open", "relayed"}, "gone", 0) => A!Next
  BY <1>a, <1>s DEF A!Next, A!Arrive, A!Try, A!Relay, A!Leave, A!Change, A!Idle, States,
                    Helds, State, Held
<1>0. /\ OwnersInv /\ OwnersInv' /\ ~astray /\ ~astray' /\ served \in Nat /\ served' \in Nat
      /\ \A c \in Clients : Whole(c) /\ Whole(c)' /\ c \in Nat
      /\ settled \in [Clients -> {"no", "relayed", "gone"}] /\ Turn /\ Owners /\ Owners'
      /\ served \in 0 .. MaxClients /\ MaxClients \in Nat
      /\ fdtab \in [Fds -> Objects]
  BY <1>s, ConstAssumption DEF OwnersInv, Owners, TurnInv, WalkInv, TypeOK, Clients
<1>1. ASSUME NEW f \in Fds, Accept(f) PROVE A!Next
  <2>1. /\ served + 1 \in Clients /\ served' = served + 1 /\ settled' = settled
        /\ mpc = "poll" /\ mpc' # "poll" /\ served' \in Clients
    BY <1>0, <1>1 DEF Accept, done, Clients
  <2> PICK d \in Clients : d = served + 1
    BY <2>1
  <2>2. /\ fdtab[f] = Nothing /\ fdtab'[f] = Client(d)
        /\ \A g \in Fds : g # f => fdtab'[g] = fdtab[g]
    BY <1>0, <1>1 DEF Accept, OpenFd
  <2>3. \A c : c # d => Kept(Of(c))
    BY <2>2, ObjectFacts DEF Kept, Of
  <2>4. \A c \in Clients : c # d => State(c)' = State(c) /\ Held(c)' = Held(c)
    <3>1. ASSUME NEW c \in Clients, c # d PROVE c > served' <=> c > served
      BY <1>0, <2>1, <3>1
    <3> QED
      BY <1>0, <2>1, <2>3, <3>1, StandsStill
  <2>5. ASSUME NEW c \in Clients PROVE State(c) # "open"
    <3>1. CASE c > served
      BY <1>0, <3>1 DEF State
    <3>2. CASE c <= served
      <4>1. settled[c] # "no"
        BY <1>0, <2>1, <3>2 DEF Turn
      <4>2. settled[c] = "gone" => Numbers(c) = {}
        BY <1>0 DEF Whole
      <4>3. settled[c] \in {"no", "relayed", "gone"}
        BY <1>0
      <4> QED
        BY <1>0, <3>2, <4>1, <4>2, <4>3 DEF State
    <3> QED
      BY <1>0, <3>1, <3>2
  <2>6. State(d) = "absent"
    BY <1>0, <2>1 DEF State
  <2>7. Numbers(d)' = {f}
    <3>1. d > served
      BY <1>0
    <3>2. Numbers(d) = {}
      BY <1>0, <3>1 DEF Owners
    <3> QED
      BY <2>2, <3>2 DEF Numbers
  <2>8. State(d)' = "open" /\ Held(d)' = 1
    <3>1. settled[d] = "no" /\ d <= served'
      BY <1>0, <2>1 DEF Turn
    <3>2. Held(d)' = 1
      BY <2>7, PairCardinality DEF Held
    <3>3. settled'[d] = "no" /\ ~(d > served')
      BY <1>0, <2>1, <3>1
    <3>4. State(d)' = "open"
      BY <1>0, <2>7, <3>1, <3>3 DEF State
    <3> QED
      BY <3>2, <3>4
  <2>9. Chg(d, {"absent"}, "open", 1)
    BY <2>4, <2>6, <2>8, OneChanges DEF States, Helds
  <2> QED
    BY <1>a, <2>5, <2>9 DEF States
<1>2. ASSUME Serve PROVE A!Next
  <2>1. /\ served \in Clients /\ served' = served
        /\ \A c \in Clients : c # served => Kept(Of(c))
    BY <1>0, <1>2, OthersKept
  <2>2. mpc # "poll"
    BY <1>2 DEF Serve, Admit, Refuse, NoSocket, DialFail, DialDone, Greet, ProxiesDown,
                Request, NextDst, GiveUp, Register, Socket, Dials
  <2> PICK d \in Clients : d = served
    BY <2>1
  <2>3. State(d) = "open" /\ Held(d) \in {1, 2} /\ (Connected => Held(d) = 2)
    BY <1>0, <2>2, ServedHolds DEF Shape
  <2>4. /\ settled' = settled \/ mpc' = "poll"
        /\ \A c \in Clients : c # served => settled'[c] = settled[c]
        /\ mpc' = "poll" => Refuse \/ GiveUp \/ Register
    <3>1. CASE Refuse \/ GiveUp \/ Register
      BY <1>0, <3>1 DEF Refuse, GiveUp, Register
    <3>2. CASE ~(Refuse \/ GiveUp \/ Register)
      <4>1. settled' = settled
        BY <1>2, <3>2 DEF Serve, Admit, NoSocket, Socket, DialFail, DialDone, Greet,
                          ProxiesDown, Request, NextDst, Dials, done
      <4>2. mpc' # "poll"
        BY <1>2, <3>2 DEF Serve, Admit, NoSocket, Socket, DialFail, DialDone, Greet,
                          ProxiesDown, Request, NextDst, Dials, Failed, OwnersInv,
                           TurnInv, WalkInv, Walk, TypeOK
      <4> QED
        BY <4>1, <4>2
    <3> QED
      BY <3>1, <3>2
  <2>5. \A c \in Clients : c # d => State(c)' = State(c) /\ Held(c)' = Held(c)
    BY <1>0, <2>1, <2>4, StandsStill
  <2>6. CASE mpc' # "poll"
    <3>1. (OwnersInv /\ ~astray /\ mpc # "poll" => Shape)'
      BY ServedHolds, PTL
    <3>2. Shape'
      BY <1>0, <2>6, <3>1
    <3>3. State(d)' = "open" /\ Held(d)' \in {1, 2}
      BY <2>1, <3>2 DEF Shape, State, Held, Numbers
    <3>4. \E n \in {1, 2} : Chg(d, {"open"}, "open", n)
      BY <2>3, <2>5, <3>3, OneChanges DEF States, Helds
    <3> QED
      BY <1>a, <3>4
  <2>7. CASE Register
    <3>1. mpc = "register" /\ settled'[d] = "relayed" /\ UNCHANGED fdtab
      BY <1>0, <2>1, <2>7 DEF Register
    <3>2. Held(d) = 2
      BY <1>0, <2>3, <3>1 DEF Owners, DstNumber
    <3>3. Numbers(d)' = Numbers(d)
      BY <2>1, <3>1 DEF Numbers
    <3>4. State(d)' = "relayed" /\ Held(d)' = 2
      BY <1>0, <2>1, <3>1, <3>2, <3>3 DEF State, Held
    <3>5. Chg(d, {"open"}, "relayed", 2) /\ Helds[d] = 2
      BY <2>1, <2>3, <2>5, <3>2, <3>4, OneChanges DEF States, Helds
    <3> QED
      BY <1>a, <2>1, <3>5
  <2>8. CASE Refuse \/ GiveUp
    <3>1. settled'[d] = "gone"
      BY <1>0, <2>1, <2>8 DEF Refuse, GiveUp
    <3>2. Numbers(d)' = {}
      BY <1>0, <2>1, <3>1 DEF Whole
    <3>3. State(d)' = "gone" /\ Held(d)' = 0
      BY <1>0, <2>1, <3>1, <3>2, PairCardinality DEF State, Held
    <3>4. Chg(d, {"open", "relayed"}, "gone", 0)
      BY <2>1, <2>3, <2>5, <3>3, OneChanges DEF States, Helds
    <3> QED
      BY <1>a, <2>1, <3>4
  <2> QED
    BY <2>4, <2>6, <2>7, <2>8
<1>3. ASSUME NEW c \in Clients, TakeDown(c) PROVE A!Next
  <2>1. /\ settled[c] = "relayed" /\ pair[c] = Numbers(c) /\ served' = served
        /\ settled'[c] = "gone"
        /\ \A d \in Clients : d # c => settled'[d] = settled[d]
        /\ \A f \in Fds : fdtab'[f] = IF f \in Numbers(c) THEN Nothing ELSE fdtab[f]
    BY <1>0, <1>3 DEF TakeDown, Whole
  <2>2. \A d \in Clients : d # c => State(d)' = State(d) /\ Held(d)' = Held(d)
    <3>1. \A d \in Clients : d # c => Kept(Of(d))
      BY <2>1, ObjectFacts DEF Kept, Of, Numbers
    <3> QED
      BY <1>0, <2>1, <3>1, StandsStill
  <2>3. c <= served
    BY <1>0, <2>1 DEF Turn
  <2>4. State(c) = "relayed"
    BY <1>0, <2>1, <2>3 DEF State
  <2>5. Numbers(c)' = {}
    BY <1>0, <2>1 DEF Whole
  <2>6. State(c)' = "gone" /\ Held(c)' = 0
    BY <1>0, <2>1, <2>3, <2>5, PairCardinality DEF State, Held
  <2>7. Chg(c, {"open", "relayed"}, "gone", 0)
    BY <2>2, <2>4, <2>6, OneChanges DEF States, Helds
  <2> QED
    BY <1>a, <2>7
<1>4. CASE LogClose \/ \E f \in Fds : LogOpen(f)
  <2>1. UNCHANGED <<served, settled>>
    BY <1>4 DEF LogClose, LogOpen, done
  <2>2. \A c : Kept(Of(c))
    <3>1. CASE LogClose
      <4>1. \A f \in Fds : fdtab'[f] = IF f = lfd THEN Nothing ELSE fdtab[f]
        BY <1>0, <3>1 DEF LogClose
      <4>2. \A f \in Fds : f = lfd => fdtab[f] = LogFile
        BY <1>0 DEF Owners
      <4> QED
        BY <4>1, <4>2, ObjectFacts DEF Kept, Of
    <3>2. ASSUME NEW f \in Fds, LogOpen(f) PROVE \A c : Kept(Of(c))
      <4>1. /\ fdtab[f] = Nothing /\ fdtab'[f] = LogFile
            /\ \A g \in Fds : g # f => fdtab'[g] = fdtab[g]
        BY <1>0, <3>2 DEF LogOpen, OpenFd
      <4> QED
        BY <4>1, ObjectFacts DEF Kept, Of
    <3> QED
      BY <1>4, <3>1, <3>2
  <2>3. \A c \in Clients : State(c)' = State(c) /\ Held(c)' = Held(c)
    BY <1>0, <2>1, <2>2, StandsStill
  <2> QED
    BY <1>s, <2>3 DEF States, Helds
<1>5. CASE UNCHANGED vars
  BY <1>5 DEF vars, done, States, Helds, State, Held, Numbers
<1> QED
  BY <1>1, <1>2, <1>3, <1>4, <1>5 DEF Next

\* Until a number is used for an object it does not mean (without a log file:
\* always), accept_new_incoming is an Attempt: one client at a time gets its two
\* descriptors and is registered, or gives back all it took.
THEOREM ServesOneAtATime == Spec => OneAtATime
<1>1. OwnersInv /\ OwnersInv' /\ [Next]_vars => [A!Next]_A!vars
  <2>1. (States' = States /\ Helds' = Helds /\ astray' = astray) => UNCHANGED A!vars
    BY DEF A!vars, States, Helds, State, Held
  <2>2. astray' => A!Next
    BY DEF A!Next
  <2> QED
    BY StepMaps, <2>1, <2>2
<1> QED
  BY <1>1, InitOwners, OwnersStep, InitMaps, PTL DEF Spec, OneAtATime, A!Spec
=============================================================================
