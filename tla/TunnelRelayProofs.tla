-------------------------- MODULE TunnelRelayProofs --------------------------
(***************************************************************************)
(* Tunnel implements Relay, and a single worker finds every flag as the    *)
(* code's comments expect it.                                              *)
(*                                                                         *)
(* Beside HandlerInv this needs to know how far each stream is: what a     *)
(* worker holds is the next chunk of its socket, everything before it has  *)
(* been written, and nobody else is at that stream.  Whatever stands for a *)
(* socket does so because there is something to read, so that a worker     *)
(* never waits in recv().                                                  *)
(***************************************************************************)
EXTENDS TunnelProofs

\* There is one worker.
Lone == \A v, w \in Workers : v = w

PartnersMatch ==
  \A s \in Socks : partner[s] # NoSock =>
    partner[s] \in Socks /\ partner[s] # s /\ partner[partner[s]] = s

StreamsOK ==
  \A s \in Socks : /\ read[s] <= sent[s]
                   /\ partner[s] = NoSock => read[s] = 0 /\ out[s] = <<>>

Holds(w) == pc[w] \in {"block", "send", "sending"}
Passed(s) == Len(out[partner[s]])

ChunksHeld ==
  /\ \A w \in Workers : Holds(w) =>
       buf[w] = <<tok[w], read[tok[w]]>> /\ read[tok[w]] = Passed(tok[w]) + 1
  /\ \A v, w \in Workers : Holds(v) /\ Holds(w) /\ tok[v] = tok[w] => v = w
  /\ \A w \in Workers : pc[w] = "sending" => on[w] = partner[tok[w]]
  /\ \A w \in Workers : pc[w] # "recving"

\* A worker at "close" may have failed to write the chunk it held.
CaughtUp ==
  \A f \in Fds : Mapped(f) =>
    \/ read[fdtab[f]] = Passed(fdtab[f])
    \/ \E w \in Workers : tok[w] = fdtab[f] /\ (Holds(w) \/ pc[w] = "close")

HasNews(s) == s \in fin \cup rst \/ Pending(s)

NewsOfMain ==
  /\ \A e \in batch : e.event # "ACCEPT" =>
       HasNews(e.sock) /\ (e.event = "FAILED" => e.sock \in rst)
  /\ mpc = "enqueue" => HasNews(cur.sock)
  /\ mpc = "close" => cur.sock \in rst
  /\ \A i \in 1 .. Len(pool) : HasNews(pool[i].sock)

NewsOfWorkers ==
  \A w \in Workers : pc[w] \in {"lookup", "deref", "recv"} => HasNews(tok[w])

\* The number worker w was given still names the socket its event was for.
Current(w) == so[w] \in Fds /\ fdtab[so[w]] = tok[w]

PeerKnown ==
  /\ \A w \in dangling : pc[w] = "deref"
  /\ \A w \in Workers : pc[w] # "idle" /\ Current(w) =>
       /\ w \notin dangling
       /\ pc[w] \notin {"lookup", "deref"} => dso[w] = so_map[so[w]]

SoloFlags ==
  /\ \A f \in Fds : Mapped(f) =>
       \/ nb[f]
       \/ \E w \in Workers : /\ pc[w] \in {"send", "sending", "unblock", "close"}
                             /\ Current(w) /\ dso[w] = f
  /\ \A w \in Workers :
       (pc[w] = "send" /\ dso[w] \in Fds /\ fdtab[dso[w]] = partner[tok[w]])
         => ~nb[dso[w]]

SoloCloses ==
  \A w \in Workers : pc[w] = "close" /\ Current(w) =>
    {tok[w], partner[tok[w]]} \cap (fin \cup rst) # {}

StreamsGood == PartnersMatch /\ StreamsOK /\ ChunksHeld /\ CaughtUp
WorkersGood ==
  NewsOfWorkers /\ PeerKnown /\ (Lone => SoloFlags /\ SoloCloses)

RelayGood == StreamsGood /\ NewsOfMain /\ WorkersGood

RelayInv == HandlerInv /\ (~astray => RelayGood)

-----------------------------------------------------------------------------
(* Facts that several steps need.                                          *)

LEMMA InitRelayInv == Init => RelayInv
<1> SUFFICES ASSUME Init PROVE RelayInv
  OBVIOUS
<1>1. HandlerInv
  BY InitHandlerInv
<1>2. PartnersMatch /\ StreamsOK
  BY DEF Init, PartnersMatch, StreamsOK
<1>3. \A f \in Fds : ~Mapped(f)
  BY DEF Init, Mapped
<1>4. \A w \in Workers : pc[w] = "idle"
  BY DEF Init
<1>5. ChunksHeld /\ CaughtUp
  BY <1>3, <1>4 DEF ChunksHeld, CaughtUp, Holds
<1>6. NewsOfMain /\ WorkersGood
  BY <1>3, <1>4 DEF Init, NewsOfMain, WorkersGood, NewsOfWorkers, PeerKnown,
     SoloFlags, SoloCloses
<1> QED
  BY <1>1, <1>2, <1>5, <1>6 DEF RelayInv, RelayGood, StreamsGood

\* The number of a socket that has been registered is in the tables.
LEMMA RegisteredMapped ==
  PairsInv /\ ~astray =>
    \A f \in Fds : fdtab[f] # NoSock /\ partner[fdtab[f]] # NoSock => Mapped(f)
<1> SUFFICES ASSUME PairsInv, ~astray, NEW f \in Fds, fdtab[f] # NoSock,
                    partner[fdtab[f]] # NoSock
             PROVE  Mapped(f)
  OBVIOUS
<1>1. IsMaintaining(f) \/ f \in HeldByMain
  BY DEF PairsInv, NoLeak, IsOpen
<1>2. f \notin HeldByMain
  BY DEF PairsInv, HeldFresh, HeldByMain, Fresh
<1> QED
  BY <1>1, <1>2 DEF PairsInv, TablesAgree, Mapped

LEMMA RegisteredFacts ==
  ASSUME PairsInv, ~astray, PartnersMatch
  PROVE  /\ born \in Nat /\ Socks \subseteq Nat
         /\ \A s \in Socks : partner[s] # NoSock =>
              /\ s <= born /\ partner[s] \in Socks /\ partner[s] # s
              /\ partner[s] <= born /\ partner[partner[s]] = s
         /\ \A w \in Workers : pc[w] # "idle" =>
              tok[w] \in Socks /\ so[w] \in Fds /\ partner[tok[w]] # NoSock
<1>0. born \in Nat /\ Socks \subseteq Nat /\ NoSock \notin Socks
  BY ConstFacts DEF PairsInv, TypeOK, NetTypeOK
<1>1. ASSUME NEW s \in Socks, partner[s] # NoSock PROVE s <= born
  <2>1. ~(s > born)
    BY <1>1 DEF PairsInv, TokensRegistered
  <2> QED
    BY <1>0, <2>1
<1>2. ASSUME NEW s \in Socks, partner[s] # NoSock
      PROVE  /\ partner[s] \in Socks /\ partner[s] # s /\ partner[s] <= born
             /\ partner[partner[s]] = s
  <2>1. partner[s] \in Socks /\ partner[s] # s /\ partner[partner[s]] = s
    BY <1>2 DEF PartnersMatch
  <2> QED
    BY <1>0, <1>1, <2>1
<1>3. \A w \in Workers : pc[w] # "idle" =>
        tok[w] \in Socks /\ so[w] \in Fds /\ partner[tok[w]] # NoSock
  BY DEF PairsInv, TypeOK, WorkersTypeOK, TokensRegistered
<1> QED
  BY <1>0, <1>1, <1>2, <1>3

LEMMA CurrentFacts ==
  ASSUME PairsInv, ~astray, PartnersMatch, NEW w \in Workers, pc[w] # "idle",
         Current(w)
  PROVE  /\ Mapped(so[w]) /\ so[w] \in Fds /\ so_map[so[w]] \in Fds
         /\ so_map[so_map[so[w]]] = so[w] /\ so_map[so[w]] # so[w]
         /\ fdtab[so_map[so[w]]] = partner[tok[w]]
         /\ Mapped(so_map[so[w]])
<1>1. tok[w] \in Socks /\ so[w] \in Fds /\ partner[tok[w]] # NoSock
  BY RegisteredFacts
<1>2. Mapped(so[w])
  BY <1>1, RegisteredMapped, ConstFacts DEF Current
<1>3. /\ so_map[so[w]] # so[w] /\ so_map[so_map[so[w]]] = so[w]
      /\ partner[fdtab[so[w]]] = fdtab[so_map[so[w]]]
      /\ IsOpen(so_map[so[w]])
  BY <1>1, <1>2 DEF PairsInv, PairsMatch
<1> QED
  BY <1>1, <1>2, <1>3, ConstFacts DEF Current, IsOpen, Mapped

\* Nothing else stands for the socket a worker is current with.
LEMMA SoleHandler ==
  ASSUME PairsInv, ~astray, HandlerGood, PartnersMatch, NEW w \in Workers,
         pc[w] # "idle", Current(w)
  PROVE  /\ \A v \in Workers : tok[v] = tok[w] => v = w
         /\ \A e \in batch : e.sock # tok[w]
         /\ \A i \in 1 .. Len(pool) : pool[i].sock # tok[w]
         /\ mpc \in {"close", "enqueue"} => cur.sock # tok[w]
<1>1. so[w] \in Fds /\ Mapped(so[w]) /\ fdtab[so[w]] = tok[w]
  BY CurrentFacts DEF Current
<1>2. Carried(so[w], tok[w])
  BY <1>1 DEF HandlerGood
<1>3. AtWorker(tok[w])
  BY DEF AtWorker
<1>4. ~InBatch(tok[w]) /\ ~InMain(tok[w]) /\ ~InPool(tok[w]) /\ Single(tok[w])
  BY <1>2, <1>3 DEF Carried, ExactlyOne
<1> QED
  BY <1>4 DEF InBatch, InMain, InPool, Single

-----------------------------------------------------------------------------
(* Steps that move no data and no worker: only numbers are opened or       *)
(* closed, and none that stays in the tables changes.                      *)

LEMMA RegisteredMappedThen ==
  (PairsInv /\ ~astray =>
    \A f \in Fds : fdtab[f] # NoSock /\ partner[fdtab[f]] # NoSock => Mapped(f))'
BY RegisteredMapped, PTL

\* How a step may change the numbers: a new name is of a new socket, a number
\* that stays mapped stays what it is, and an iterator is left dangling only if
\* its number has been closed.
NumbersMove ==
  /\ \A f \in Fds : fdtab'[f] = fdtab[f] \/ fdtab'[f] = NoSock \/ fdtab'[f] > born
  /\ \A f \in Fds : Mapped(f)' =>
       Mapped(f) /\ so_map'[f] = so_map[f] /\ fdtab'[f] = fdtab[f]
  /\ \A w \in dangling' :
       w \in dangling \/ (pc[w] = "deref" /\ fdtab'[so[w]] = NoSock)
  /\ UNCHANGED partner

PeersGoOn ==
  /\ fin \subseteq fin' /\ rst \subseteq rst'
  /\ \A s \in Socks : sent[s] <= sent'[s]

LEMMA NewsStays ==
  ASSUME TypeOK, TypeOK', PeersGoOn, NEW s \in Socks, HasNews(s),
         read'[s] = read[s]
  PROVE  HasNews(s)'
<1>1. sent[s] \in Nat /\ sent'[s] \in Nat /\ read[s] \in Nat
  BY DEF TypeOK, NetTypeOK
<1>2. sent[s] <= sent'[s]
  BY DEF PeersGoOn
<1>3. Pending(s) => Pending(s)'
  BY <1>1, <1>2 DEF Pending
<1> QED
  BY <1>3 DEF HasNews, PeersGoOn

\* A number that names a registered socket after such a step did so before, and
\* is still in the tables.
LEMMA NamesStay ==
  ASSUME PairsInv, ~astray, PairsInv', ~astray', PartnersMatch, NumbersMove,
         NEW f \in Fds, NEW s \in Socks, partner[s] # NoSock, fdtab'[f] = s
  PROVE  /\ fdtab[f] = s /\ Mapped(f)' /\ Mapped(f)
         /\ so_map'[f] = so_map[f]
<1>1. s <= born /\ born \in Nat /\ s \in Nat /\ s # NoSock
  BY RegisteredFacts, ConstFacts
<1>2. fdtab[f] = s
  BY <1>1 DEF NumbersMove
<1>4. Mapped(f)'
  BY <1>1, RegisteredMappedThen DEF NumbersMove
<1> QED
  BY <1>2, <1>4 DEF NumbersMove

LEMMA StreamsFrame ==
  ASSUME PairsInv, ~astray, TypeOK', StreamsGood, NumbersMove, PeersGoOn,
         UNCHANGED <<read, out, pc, tok, buf, on>>
  PROVE  StreamsGood'
<1> USE DEF StreamsGood
<1>1. PartnersMatch'
  BY DEF PartnersMatch, NumbersMove
<1>2. StreamsOK'
  <2> SUFFICES ASSUME NEW s \in Socks
               PROVE  /\ read'[s] <= sent'[s]
                      /\ partner'[s] = NoSock => read'[s] = 0 /\ out'[s] = <<>>
    BY DEF StreamsOK
  <2>1. sent[s] \in Nat /\ sent'[s] \in Nat /\ read[s] \in Nat
    BY DEF PairsInv, TypeOK, NetTypeOK
  <2> QED
    BY <2>1 DEF StreamsOK, PeersGoOn, NumbersMove
<1>3. ChunksHeld'
  BY DEF ChunksHeld, Holds, Passed, NumbersMove
<1>4. CaughtUp'
  BY DEF CaughtUp, Holds, Passed, NumbersMove
<1> QED
  BY <1>1, <1>2, <1>3, <1>4

LEMMA WorkersFrame ==
  ASSUME PairsInv, ~astray, PairsInv', ~astray', PartnersMatch, WorkersGood,
         NumbersMove, PeersGoOn,
         \A f \in Fds : fdtab'[f] = fdtab[f] /\ IsOpen(f) => nb'[f] = nb[f],
         UNCHANGED <<read, pc, so, dso, tok>>
  PROVE  WorkersGood'
<1>0. TypeOK /\ TypeOK'
  BY DEF PairsInv
<1>1. \A w \in Workers : pc[w] # "idle" =>
        /\ tok[w] \in Socks /\ so[w] \in Fds /\ partner[tok[w]] # NoSock
        /\ partner[tok[w]] \in Socks /\ partner[partner[tok[w]]] = tok[w]
  BY RegisteredFacts
<1>2. ASSUME NEW w \in Workers, pc[w] # "idle", Current(w)'
      PROVE  /\ Current(w) /\ Mapped(so[w])' /\ so_map'[so[w]] = so_map[so[w]]
             /\ Mapped(so[w])
  BY <1>1, <1>2, NamesStay DEF Current
<1>3. NewsOfWorkers'
  BY <1>0, <1>1, NewsStays DEF WorkersGood, NewsOfWorkers
<1>4. PeerKnown'
  <2>0. \A w \in dangling' : pc'[w] = "deref"
    BY DEF WorkersGood, PeerKnown, NumbersMove
  <2> SUFFICES ASSUME NEW w \in Workers, pc[w] # "idle", Current(w)'
               PROVE  /\ w \notin dangling'
                      /\ pc[w] \notin {"lookup", "deref"}
                           => dso[w] = so_map'[so[w]]
    BY <2>0 DEF PeerKnown
  <2>1. fdtab'[so[w]] # NoSock
    BY <1>1, ConstFacts DEF Current
  <2> QED
    BY <1>2, <2>1 DEF WorkersGood, PeerKnown, NumbersMove
<1>5. ASSUME Lone PROVE SoloFlags'
  <2>0. SoloFlags
    BY <1>5 DEF WorkersGood
  <2>1. ASSUME NEW f \in Fds, Mapped(f)'
        PROVE  \/ nb'[f]
               \/ \E w \in Workers :
                    /\ pc[w] \in {"send", "sending", "unblock", "close"}
                    /\ Current(w)' /\ dso[w] = f
    <3>1. Mapped(f) /\ so_map'[f] = so_map[f] /\ fdtab'[f] = fdtab[f] /\ IsOpen(f)
      BY <2>1, MappedFacts DEF NumbersMove
    <3>2. CASE nb[f]
      BY <3>1, <3>2
    <3>3. CASE ~nb[f]
      <4>1. PICK w \in Workers : /\ pc[w] \in {"send", "sending", "unblock", "close"}
                                 /\ Current(w) /\ dso[w] = f
        BY <2>0, <3>1, <3>3 DEF SoloFlags
      <4>2. dso[w] = so_map[so[w]] /\ so_map[f] = so[w] /\ so[w] \in Fds
        BY <4>1, CurrentFacts DEF WorkersGood, PeerKnown
      <4>3. so_map'[so_map'[f]] = f
        BY <2>1 DEF PairsInv, PairsMatch
      <4>4. Mapped(so[w])'
        BY <3>1, <4>2, <4>3, ConstFacts DEF Mapped
      <4>5. Current(w)'
        BY <4>1, <4>2, <4>4 DEF Current, NumbersMove
      <4> QED
        BY <4>1, <4>5
    <3> QED
      BY <3>2, <3>3
  <2>2. ASSUME NEW w \in Workers, pc[w] = "send", dso[w] \in Fds,
               fdtab'[dso[w]] = partner[tok[w]]
        PROVE  ~nb'[dso[w]]
    <3>1. fdtab[dso[w]] = partner[tok[w]] /\ Mapped(dso[w])
      BY <1>1, <2>2, NamesStay, ConstFacts
    <3>2. ~nb[dso[w]]
      BY <2>0, <2>2, <3>1 DEF SoloFlags
    <3> QED
      BY <2>2, <3>1, <3>2, MappedFacts
  <2>3. UNCHANGED partner
    BY DEF NumbersMove
  <2> QED
    BY <2>1, <2>2, <2>3 DEF SoloFlags
<1>6. ASSUME Lone PROVE SoloCloses'
  BY <1>2, <1>6 DEF WorkersGood, SoloCloses, PeersGoOn, NumbersMove
<1> QED
  BY <1>3, <1>4, <1>5, <1>6 DEF WorkersGood, Lone

-----------------------------------------------------------------------------
(* The peers and the main loop.                                            *)

\* What stands for a socket in the hands of the main loop, and in the queue.
LEMMA NewsFrame ==
  ASSUME PairsInv, ~astray, PairsInv', NewsOfMain, PeersGoOn,
         UNCHANGED <<batch, mpc, cur, pool, read>>
  PROVE  NewsOfMain'
<1>0. /\ \A e \in batch : e.sock \in Socks
      /\ mpc \in {"close", "enqueue"} => cur.sock \in Socks
      /\ \A i \in 1 .. Len(pool) : pool[i].sock \in Socks
  BY TokensBorn
<1>1. \A s \in Socks : HasNews(s) => HasNews(s)'
  BY NewsStays DEF PairsInv
<1>2. \A s \in rst : s \in rst'
  BY DEF PeersGoOn
<1> QED
  BY <1>0, <1>1, <1>2 DEF NewsOfMain

LEMMA EnvRelay ==
  ASSUME PairsInv, ~astray, PairsInv', ~astray', RelayGood,
         ClientConnect \/ (\E s \in Socks : Peer(s)) \/ UNCHANGED vars
  PROVE  RelayGood'
<1>1. UNCHANGED <<fdtab, nb, so_map, read, out, batch, mpc, cur, pool, pc, so, dso,
                  tok, buf, on, partner, dangling>>
  BY DEF ClientConnect, Peer, vars, tables, main, locals
<1>2. PeersGoOn
  <2>1. \A s \in Socks : sent[s] \in Nat
    BY DEF PairsInv, TypeOK, NetTypeOK
  <2>2. CASE \E s \in Socks : Peer(s)
    <3>1. PICK s \in Socks : PeerSend(s) \/ PeerFin(s) \/ PeerReset(s)
      BY <2>2 DEF Peer
    <3>2. sent \in [Socks -> Nat]
      BY DEF PairsInv, TypeOK, NetTypeOK
    <3> QED
      BY <2>1, <3>1, <3>2 DEF PeersGoOn, PeerSend, PeerFin, PeerReset
  <2>3. CASE ClientConnect \/ UNCHANGED vars
    BY <2>1, <2>3 DEF ClientConnect, vars, net, PeersGoOn
  <2> QED
    BY <2>2, <2>3
<1>3. NumbersMove
  BY <1>1 DEF NumbersMove, Mapped
<1>4. PairsInv => TypeOK
  BY DEF PairsInv
<1>5. TypeOK'
  BY DEF PairsInv
<1> QED
  BY <1>1, <1>2, <1>3, <1>5, NewsFrame, StreamsFrame, WorkersFrame
  DEF RelayGood, StreamsGood

\* The events that epoll_wait returns, and where the main loop takes them.
LEMMA NewsOfMainStep ==
  ASSUME PairsInv, ~astray, PairsInv', ~astray', NewsOfMain, MainStep
  PROVE  NewsOfMain'
<1>0. /\ \A e \in batch : e.sock \in Socks
      /\ mpc \in {"close", "enqueue"} => cur.sock \in Socks
      /\ \A i \in 1 .. Len(pool) : pool[i].sock \in Socks
  BY TokensBorn
<1>1. UNCHANGED <<read, sent, fin, rst>>
  BY DEF MainStep, Harvest, AcceptEnd, AcceptInval, MainClose, MainEnqueue, Deny,
     ConnectFail, DidAccept, AcceptOne, OpenDst, Dispatch, net
<1>2. \A s : HasNews(s)' <=> HasNews(s)
  BY <1>1 DEF HasNews, Pending
<1>3. CASE Harvest
  <2>1. /\ UNCHANGED pool /\ mpc' \notin {"close", "enqueue"}
        /\ \A e \in batch' : \E f \in Fds :
             Ready(f) /\ e = [so |-> f, sock |-> fdtab[f],
                              event |-> IF fdtab[f] \in rst THEN "FAILED" ELSE "DATA"]
    BY <1>3 DEF Harvest
  <2>2. \A f \in Fds : Ready(f) => HasNews(fdtab[f])
    BY DEF Ready, HasNews
  <2>3. \A e \in batch' : HasNews(e.sock) /\ (e.event = "FAILED" => e.sock \in rst)
    BY <2>1, <2>2
  <2> QED
    BY <1>1, <1>2, <2>1, <2>3 DEF NewsOfMain
<1>4. CASE AcceptEnd \/ AcceptInval
  BY <1>1, <1>2, <1>4 DEF NewsOfMain, AcceptEnd, AcceptInval
<1>5. CASE MainClose \/ Deny \/ ConnectFail \/ DidAccept
  BY <1>1, <1>2, <1>5
  DEF NewsOfMain, MainClose, Deny, ConnectFail, DidAccept, EventDone
<1>6. CASE MainEnqueue
  <2>1. /\ pool' = Append(pool, [so |-> cur.so, sock |-> cur.sock])
        /\ UNCHANGED batch /\ mpc' \notin {"close", "enqueue"} /\ HasNews(cur.sock)
    BY <1>6 DEF MainEnqueue, EventDone, NewsOfMain
  <2>2. pool \in Seq(Item)
    BY DEF PairsInv, TypeOK, TablesTypeOK
  <2>3. \A i \in 1 .. Len(pool') :
          \/ i \in 1 .. Len(pool) /\ pool'[i] = pool[i]
          \/ pool'[i] = [so |-> cur.so, sock |-> cur.sock]
    BY <2>1, <2>2
  <2>4. \A i \in 1 .. Len(pool') : HasNews(pool'[i].sock)
    BY <2>1, <2>3 DEF NewsOfMain
  <2> QED
    BY <1>1, <1>2, <2>1, <2>4 DEF NewsOfMain
<1>7. ASSUME NEW f \in Fds, AcceptOne(f) \/ OpenDst(f) PROVE NewsOfMain'
  <2>1. /\ UNCHANGED pool /\ mpc' \notin {"close", "enqueue"}
        /\ \A e \in batch' : e \in batch \/ e.event = "ACCEPT"
    BY <1>7 DEF AcceptOne, OpenDst, AcceptNext
  <2> QED
    BY <1>1, <1>2, <2>1 DEF NewsOfMain
<1>8. ASSUME NEW e \in batch, Dispatch(e) PROVE NewsOfMain'
  <2>1. /\ UNCHANGED pool /\ batch' \subseteq batch
        /\ mpc' = "enqueue" => cur' = e /\ e.event = "DATA"
        /\ mpc' = "close" => cur' = e /\ e.event = "FAILED"
    <3>1. e.event \in EventId
      BY DEF PairsInv, TypeOK, MainTypeOK, Event
    <3> QED
      BY <1>8, <3>1 DEF Dispatch, EventId
  <2> QED
    BY <1>1, <1>2, <2>1 DEF NewsOfMain
<1> QED
  BY <1>3, <1>4, <1>5, <1>6, <1>7, <1>8 DEF MainStep

LEMMA CloseSocketNumbers ==
  ASSUME PairsInv, NEW k, NEW s, CloseSocket(k, s), UNCHANGED partner
  PROVE  NumbersMove
<1>1. \A f \in Fds : Mapped(f)' => Mapped(f) /\ so_map'[f] = so_map[f] /\ f \notin Pair(k)
  BY DEF CloseSocket, Unmapped, Mapped
<1>2. \A f \in Fds : fdtab'[f] = IF f \in Pair(k) THEN NoSock ELSE fdtab[f]
  BY DEF CloseSocket, CloseFds, FdsClosed
<1>3. \A w \in dangling' :
        w \in dangling \/ (pc[w] = "deref" /\ fdtab'[so[w]] = NoSock)
  <2> SUFFICES ASSUME NEW w \in dangling', w \notin dangling
               PROVE  pc[w] = "deref" /\ fdtab'[so[w]] = NoSock
    OBVIOUS
  <2>1. so[w] \in Pair(k) /\ pc[w] = "deref" /\ w \in Workers
    BY DEF CloseSocket, Unmapped
  <2>2. so[w] \in Fds
    BY <2>1 DEF PairsInv, TypeOK, WorkersTypeOK
  <2> QED
    BY <1>2, <2>1, <2>2
<1> QED
  BY <1>1, <1>2, <1>3 DEF NumbersMove

\* _did_accept_sockets: two fresh sockets, of which nothing has been read, become
\* partners.
LEMMA DidAcceptRelay ==
  ASSUME PairsInv, ~astray, PairsInv', ~astray', HandlerGood, RelayGood, DidAccept
  PROVE  StreamsGood' /\ WorkersGood'
<1> DEFINE c == cur.so
           d == mdst
           s == fdtab[c]
           t == fdtab[d]
<1>0. /\ mpc = "register" /\ c \in Fds /\ d \in Fds /\ c # d
      /\ Fresh(c, s) /\ Fresh(d, t) /\ cur.sock = s
  BY DEF DidAccept, PairsInv, TypeOK, MainTypeOK, Event, HeldFresh, Fresh
<1>1. /\ s \in Socks /\ t \in Socks /\ s # t
      /\ partner[s] = NoSock /\ partner[t] = NoSock /\ ~Mapped(c) /\ ~Mapped(d)
      /\ IsOpen(c) /\ IsOpen(d)
  BY <1>0, ConstFacts
  DEF Fresh, PairsInv, SocketsDistinct, TypeOK, SocketsTypeOK, IsOpen
<1>2. /\ UNCHANGED <<fdtab, read, out, sent, fin, rst, pool, pc, so, dso, buf, on, tok,
                     dangling>>
      /\ \A f \in Fds : nb'[f] = IF f \in {c, d} THEN TRUE ELSE nb[f]
      /\ \A f \in Fds : so_map'[f] = IF f = d THEN c ELSE IF f = c THEN d ELSE so_map[f]
      /\ \A r \in Socks : partner'[r] = IF r = s THEN t ELSE IF r = t THEN s
                                                   ELSE partner[r]
  BY <1>0, <1>1
  DEF DidAccept, EventDone, net, locals, SetNonblocking, PairsInv, TypeOK, TablesTypeOK
<1> HIDE DEF c, d, s, t
<1>3. /\ born \in Nat
      /\ \A r \in Socks : partner[r] # NoSock => r # s /\ r # t /\ partner[r] # s
                            /\ partner[r] # t /\ partner[r] \in Socks
  BY <1>1, RegisteredFacts, ConstFacts DEF RelayGood, StreamsGood
<1>4. \A w \in Workers : pc[w] # "idle" =>
        /\ tok[w] \in Socks /\ so[w] \in Fds /\ partner[tok[w]] # NoSock
        /\ partner'[tok[w]] = partner[tok[w]]
  BY <1>2, <1>3, RegisteredFacts DEF RelayGood, StreamsGood
<1>5. PartnersMatch'
  <2> SUFFICES ASSUME NEW r \in Socks, partner'[r] # NoSock
               PROVE  /\ partner'[r] \in Socks /\ partner'[r] # r
                      /\ partner'[partner'[r]] = r
    BY DEF PartnersMatch
  <2>1. CASE r \in {s, t}
    BY <1>1, <1>2, <2>1
  <2>2. CASE r \notin {s, t}
    <3>1. partner'[r] = partner[r] /\ partner[r] # NoSock
      BY <1>2, <2>2
    <3>2. /\ partner[r] \in Socks /\ partner[r] # s /\ partner[r] # t
          /\ partner[r] # r /\ partner[partner[r]] = r
      BY <1>3, <3>1 DEF RelayGood, StreamsGood, PartnersMatch
    <3> QED
      BY <1>2, <3>1, <3>2
  <2> QED
    BY <2>1, <2>2
<1>6. StreamsOK'
  BY <1>1, <1>2, <1>3, ConstFacts DEF RelayGood, StreamsGood, StreamsOK
<1>7. ChunksHeld'
  BY <1>2, <1>4 DEF RelayGood, StreamsGood, ChunksHeld, Holds, Passed
<1>8. CaughtUp'
  <2> SUFFICES ASSUME NEW f \in Fds, Mapped(f)'
               PROVE  \/ read'[fdtab'[f]] = Passed(fdtab[f])'
                      \/ \E w \in Workers :
                           tok[w] = fdtab[f] /\ (Holds(w) \/ pc[w] = "close")
    BY <1>2 DEF CaughtUp, Holds
  <2>1. CASE f \in {c, d}
    <3>1. fdtab[f] \in {s, t}
      BY <2>1 DEF s, t
    <3>2. partner'[fdtab[f]] \in {s, t}
      BY <1>1, <1>2, <3>1
    <3>3. /\ read[s] = 0 /\ read[t] = 0 /\ out[s] = <<>> /\ out[t] = <<>>
      BY <1>1 DEF RelayGood, StreamsGood, StreamsOK
    <3>4. Len(out'[partner'[fdtab'[f]]]) = 0 /\ read'[fdtab'[f]] = 0
      BY <1>2, <3>1, <3>2, <3>3
    <3> QED
      BY <3>4 DEF Passed
  <2>2. CASE f \notin {c, d}
    <3>1. Mapped(f)
      BY <1>2, <2>2 DEF Mapped
    <3>2. fdtab[f] \in Socks /\ partner[fdtab[f]] # NoSock
      BY <3>1, MappedFacts
    <3>3. partner'[fdtab[f]] = partner[fdtab[f]]
      BY <1>2, <1>3, <3>2
    <3> QED
      BY <1>2, <3>1, <3>3 DEF RelayGood, StreamsGood, CaughtUp, Passed
  <2> QED
    BY <2>1, <2>2
<1>9. NewsOfWorkers'
  BY <1>2 DEF RelayGood, WorkersGood, NewsOfWorkers, HasNews, Pending
<1>10. \A w \in Workers : Current(w)' <=> Current(w)
  BY <1>2 DEF Current
<1>11. PeerKnown'
  <2>0. \A w \in dangling : pc[w] = "deref"
    BY DEF RelayGood, WorkersGood, PeerKnown
  <2> SUFFICES ASSUME NEW w \in Workers, pc[w] # "idle", Current(w)
               PROVE  /\ w \notin dangling
                      /\ pc[w] \notin {"lookup", "deref"} => dso[w] = so_map'[so[w]]
    BY <1>2, <1>10, <2>0 DEF PeerKnown
  <2>1. so[w] # c /\ so[w] # d
    BY <1>1, CurrentFacts DEF RelayGood, StreamsGood
  <2> QED
    BY <1>2, <1>4, <2>1 DEF RelayGood, WorkersGood, PeerKnown
<1>12. ASSUME Lone PROVE SoloFlags'
  <2>0. SoloFlags
    BY <1>12 DEF RelayGood, WorkersGood
  <2>1. ASSUME NEW f \in Fds, Mapped(f)', f \notin {c, d}, ~nb[f]
        PROVE  \E w \in Workers : /\ pc'[w] \in {"send", "sending", "unblock", "close"}
                                  /\ Current(w)' /\ dso'[w] = f
    <3>1. Mapped(f)
      BY <1>2, <2>1 DEF Mapped
    <3> QED
      BY <1>2, <1>10, <2>0, <2>1, <3>1 DEF SoloFlags
  <2>2. ASSUME NEW w \in Workers, pc[w] = "send", dso[w] \in Fds,
               fdtab[dso[w]] = partner'[tok[w]]
        PROVE  ~nb'[dso[w]]
    <3>1. fdtab[dso[w]] = partner[tok[w]] /\ partner[tok[w]] # s /\ partner[tok[w]] # t
      BY <1>3, <1>4, <2>2
    <3>2. dso[w] \notin {c, d}
      BY <3>1 DEF s, t
    <3> QED
      BY <1>2, <2>0, <2>2, <3>1, <3>2 DEF SoloFlags
  <2> QED
    BY <1>2, <2>1, <2>2 DEF SoloFlags
<1>13. ASSUME Lone PROVE SoloCloses'
  BY <1>2, <1>4, <1>10, <1>13 DEF RelayGood, WorkersGood, SoloCloses
<1> QED
  BY <1>5, <1>6, <1>7, <1>8, <1>9, <1>11, <1>12, <1>13
  DEF StreamsGood, WorkersGood, Lone

\* The other steps of the main loop only open numbers or close what is not mapped,
\* MainClose apart.
LEMMA MainNumbers ==
  ASSUME PairsInv, ~astray, MainStep, ~DidAccept
  PROVE  /\ UNCHANGED <<read, out, sent, fin, rst, pc, so, dso, tok, buf, on, partner>>
         /\ NumbersMove
         /\ \A f \in Fds : fdtab'[f] = fdtab[f] /\ IsOpen(f) => nb'[f] = nb[f]
         /\ ~MainClose => \A f \in Fds : Mapped(f) => fdtab'[f] = fdtab[f]
<1>1. UNCHANGED <<read, out, sent, fin, rst, pc, so, dso, tok, buf, on, partner>>
  BY DEF MainStep, Harvest, AcceptEnd, AcceptInval, MainClose, MainEnqueue,
     Deny, ConnectFail, AcceptOne, OpenDst, Dispatch, net, locals
<1> DEFINE FlagsStay == \A f \in Fds : fdtab'[f] = fdtab[f] /\ IsOpen(f) => nb'[f] = nb[f]
           MappedStay == \A f \in Fds : Mapped(f) => fdtab'[f] = fdtab[f]
<1>2. CASE Harvest \/ AcceptEnd \/ AcceptInval \/ MainEnqueue
             \/ \E e \in batch : Dispatch(e)
  <2>1. UNCHANGED <<fdtab, nb, so_map, dangling>>
    BY <1>2 DEF Harvest, AcceptEnd, AcceptInval, MainEnqueue, Dispatch, tables
  <2> QED
    BY <1>1, <2>1 DEF NumbersMove, Mapped
<1>3. CASE MainClose
  <2>1. CloseSocket(cur.so, cur.sock)
    BY <1>3 DEF MainClose
  <2>2. NumbersMove
    BY <1>1, <2>1, CloseSocketNumbers
  <2> QED
    BY <1>1, <1>3, <2>1, <2>2 DEF CloseSocket, CloseFds, IsOpen
<1>4. CASE Deny \/ ConnectFail
  <2>1. PICK S : /\ CloseFds(S) /\ S \subseteq {cur.so, mdst}
                 /\ mdst \in S /\ mdst # cur.so => mpc = "register"
    BY <1>4 DEF Deny, ConnectFail
  <2>2. /\ mpc \in {"connect", "register"} /\ UNCHANGED <<so_map, dangling>>
    BY <1>4 DEF Deny, ConnectFail, tables
  <2>3. \A f \in S \cap Fds : ~Mapped(f)
    BY <2>1, <2>2 DEF PairsInv, HeldFresh, Fresh
  <2>4. \A f \in Fds : /\ fdtab'[f] = IF f \in S THEN NoSock ELSE fdtab[f]
                       /\ nb'[f] = IF f \in S THEN FALSE ELSE nb[f]
    BY <2>1 DEF CloseFds
  <2>5. NumbersMove /\ MappedStay
    BY <1>1, <2>2, <2>3, <2>4 DEF NumbersMove, Mapped
  <2> QED
    BY <1>1, <2>4, <2>5 DEF IsOpen
<1>5. ASSUME NEW g \in Fds, AcceptOne(g) \/ OpenDst(g)
      PROVE  NumbersMove /\ FlagsStay /\ MappedStay
  <2>1. /\ fdtab[g] = NoSock /\ fdtab' = [fdtab EXCEPT ![g] = born + 1]
        /\ UNCHANGED <<so_map, dangling>>
        /\ UNCHANGED nb \/ nb' = [nb EXCEPT ![g] = TRUE]
    BY <1>5 DEF AcceptOne, OpenDst, OpenFd, Free, tables
  <2>2. born \in Nat /\ fdtab \in [Fds -> 0 .. MaxSock] /\ nb \in [Fds -> BOOLEAN]
    BY DEF PairsInv, TypeOK, NetTypeOK, SocketsTypeOK
  <2>3. ~Mapped(g)
    BY <2>1, MappedFacts
  <2>4. \A f \in Fds : f # g => fdtab'[f] = fdtab[f] /\ nb'[f] = nb[f]
    BY <2>1, <2>2
  <2>5. fdtab'[g] > born
    BY <2>1, <2>2
  <2> QED
    BY <1>1, <2>1, <2>3, <2>4, <2>5 DEF NumbersMove, Mapped, IsOpen
<1> QED
  BY <1>1, <1>2, <1>3, <1>4, <1>5 DEF MainStep

LEMMA MainRelay ==
  ASSUME PairsInv, ~astray, PairsInv', ~astray', HandlerGood, RelayGood, MainStep
  PROVE  RelayGood'
<1>0. TypeOK' /\ StreamsGood /\ WorkersGood /\ PartnersMatch
  BY DEF PairsInv, RelayGood, StreamsGood
<1>1. NewsOfMain'
  BY NewsOfMainStep DEF RelayGood
<1>2. CASE DidAccept
  BY <1>1, <1>2, DidAcceptRelay DEF RelayGood
<1>3. CASE ~DidAccept
  <2>1. /\ UNCHANGED <<read, out, sent, fin, rst, pc, so, dso, tok, buf, on, partner>>
        /\ NumbersMove
        /\ \A f \in Fds : fdtab'[f] = fdtab[f] /\ IsOpen(f) => nb'[f] = nb[f]
    BY <1>3, MainNumbers
  <2>2. PeersGoOn
    <3>1. \A s \in Socks : sent[s] \in Nat
      BY DEF PairsInv, TypeOK, NetTypeOK
    <3> QED
      BY <2>1, <3>1 DEF PeersGoOn
  <2>3. StreamsGood'
    BY <1>0, <2>1, <2>2, StreamsFrame
  <2>4. WorkersGood'
    BY <1>0, <2>1, <2>2, WorkersFrame
  <2> QED
    BY <1>1, <2>3, <2>4 DEF RelayGood
<1> QED
  BY <1>2, <1>3

-----------------------------------------------------------------------------
(* A step of worker w: what it leaves alone.                               *)

Others(w) ==
  \A v \in Workers : v # w =>
    /\ pc'[v] = pc[v] /\ so'[v] = so[v] /\ dso'[v] = dso[v]
    /\ buf'[v] = buf[v] /\ on'[v] = on[v] /\ tok'[v] = tok[v]

LEMMA WorkerFrame ==
  ASSUME PairsInv, NEW w \in Workers, WorkerStep(w)
  PROVE  /\ Others(w) /\ NumbersMove /\ PeersGoOn
         /\ UNCHANGED <<sent, fin, rst, batch, mpc, cur, partner>>
         /\ pc'[w] # "idle" /\ pc[w] # "idle" => so'[w] = so[w] /\ tok'[w] = tok[w]
         /\ ~WorkerClose(w) => \A f \in Fds : Mapped(f) => fdtab'[f] = fdtab[f]
<1>0. /\ pc \in [Workers -> WorkerPC] /\ so \in [Workers -> Fds \cup {None}]
      /\ dso \in [Workers -> Fds \cup {None}] /\ buf \in [Workers -> Chunk]
      /\ on \in [Workers -> 0 .. MaxSock] /\ tok \in [Workers -> 0 .. MaxSock]
      /\ \A s \in Socks : sent[s] \in Nat
  BY DEF PairsInv, TypeOK, WorkersTypeOK, NetTypeOK
<1>1. UNCHANGED <<sent, fin, rst, batch, mpc, cur, partner>>
  BY DEF WorkerStep, Take, Lookup, Deref, Recv, RecvDone, Block, SetDstFlag, Send,
     SendDone, Unblock, Rearm, WorkerClose, net, main
<1>2. PeersGoOn
  BY <1>0, <1>1 DEF PeersGoOn
<1>3. CASE Take(w)
  <2>1. UNCHANGED <<fdtab, so_map, dangling>>
    BY <1>3 DEF Take, tables
  <2>2. NumbersMove
    BY <1>1, <2>1 DEF NumbersMove, Mapped
  <2> QED
    BY <1>0, <1>1, <1>2, <1>3, <2>1, <2>2 DEF Take, TakeItem, GoTo, Others
<1>4. CASE Deref(w) \/ Recv(w) \/ RecvDone(w) \/ Block(w) \/ Send(w) \/ SendDone(w)
           \/ Unblock(w)
  <2>1. UNCHANGED <<fdtab, so_map, so, tok>> /\ dangling' \subseteq dangling
    BY <1>4 DEF Deref, Recv, RecvDone, Block, SetDstFlag, Send, SendDone, Unblock, tables
  <2>2. NumbersMove
    BY <1>1, <2>1 DEF NumbersMove, Mapped
  <2>3. \A v \in Workers : v # w => pc'[v] = pc[v]
    BY <1>0, <1>4 DEF Deref, Recv, RecvDone, RecvFrom, Block, SetDstFlag, Send, SendDone,
       Unblock, GoTo
  <2>4. \A v \in Workers : v # w => dso'[v] = dso[v]
    BY <1>0, <1>4 DEF Deref, Recv, RecvDone, Block, SetDstFlag, Send, SendDone, Unblock
  <2>5. \A v \in Workers : v # w => buf'[v] = buf[v] /\ on'[v] = on[v]
    BY <1>0, <1>4 DEF Deref, Recv, RecvDone, RecvFrom, Block, SetDstFlag, Send, SendDone,
       Unblock
  <2> QED
    BY <1>1, <1>2, <2>1, <2>2, <2>3, <2>4, <2>5 DEF Others
<1>5. CASE Lookup(w)
  <2>1. /\ UNCHANGED <<so_map, dangling, so, dso, buf, on, tok>>
        /\ fdtab' = fdtab \/ (~Mapped(so[w]) /\ CloseFds({so[w]}))
    BY <1>5 DEF Lookup, tables, Mapped
  <2>2. \A f \in Fds : \/ fdtab'[f] = fdtab[f]
                       \/ fdtab'[f] = NoSock /\ ~Mapped(f)
    BY <2>1 DEF CloseFds
  <2>3. NumbersMove
    BY <1>1, <2>1, <2>2 DEF NumbersMove, Mapped
  <2>4. \A v \in Workers : v # w => pc'[v] = pc[v]
    BY <1>0, <1>5 DEF Lookup, GoTo
  <2> QED
    BY <1>1, <1>2, <2>1, <2>2, <2>3, <2>4 DEF Others
<1>6. CASE Rearm(w)
  <2>1. /\ UNCHANGED <<so_map, dangling>>
        /\ fdtab' = fdtab \/ (~Mapped(so[w]) /\ CloseFds({so[w]}))
    BY <1>6 DEF Rearm, tables, Mapped
  <2>2. \A f \in Fds : \/ fdtab'[f] = fdtab[f]
                       \/ fdtab'[f] = NoSock /\ ~Mapped(f)
    BY <2>1 DEF CloseFds
  <2>3. NumbersMove
    BY <1>1, <2>1, <2>2 DEF NumbersMove, Mapped
  <2> QED
    BY <1>0, <1>1, <1>2, <1>6, <2>2, <2>3 DEF Rearm, Finish, GoTo, Others
<1>7. CASE WorkerClose(w)
  <2>1. CloseSocket(so[w], tok[w])
    BY <1>7 DEF WorkerClose
  <2>2. NumbersMove
    BY <1>1, <2>1, CloseSocketNumbers
  <2> QED
    BY <1>0, <1>1, <1>2, <1>7, <2>2 DEF WorkerClose, Finish, GoTo, Others
<1> QED
  BY <1>3, <1>4, <1>5, <1>6, <1>7 DEF WorkerStep

\* The parts of RelayGood are kept by a step of w that moves no data, if w's own
\* part is.
LEMMA StreamsKept ==
  ASSUME PairsInv, TypeOK', StreamsGood, NEW w \in Workers, Others(w), NumbersMove,
         UNCHANGED <<read, out, sent>>,
         Holds(w)' => Holds(w) /\ tok'[w] = tok[w] /\ buf'[w] = buf[w],
         pc'[w] = "sending" => on'[w] = partner[tok'[w]],
         pc'[w] # "recving",
         \A f \in Fds : Mapped(f)' /\ fdtab[f] = tok[w] /\ (Holds(w) \/ pc[w] = "close")
           => tok'[w] = tok[w] /\ (Holds(w)' \/ pc'[w] = "close")
  PROVE  StreamsGood'
<1> USE DEF StreamsGood
<1>1. PartnersMatch' /\ StreamsOK'
  BY DEF PartnersMatch, StreamsOK, NumbersMove
<1>2. \A v \in Workers : Holds(v)' => Holds(v) /\ tok'[v] = tok[v] /\ buf'[v] = buf[v]
  BY DEF Holds, Others
<1>3. ChunksHeld'
  <2>1. \A v \in Workers : Holds(v)' =>
          buf'[v] = <<tok'[v], read'[tok'[v]]>>
            /\ read'[tok'[v]] = Len(out'[partner'[tok'[v]]]) + 1
    BY <1>2 DEF ChunksHeld, Passed, NumbersMove
  <2>2. \A u, v \in Workers : Holds(u)' /\ Holds(v)' /\ tok'[u] = tok'[v] => u = v
    BY <1>2 DEF ChunksHeld
  <2>3. \A v \in Workers : pc'[v] = "sending" => on'[v] = partner'[tok'[v]]
    BY DEF ChunksHeld, Others, NumbersMove
  <2>4. \A v \in Workers : pc'[v] # "recving"
    BY DEF ChunksHeld, Others
  <2> QED
    BY <2>1, <2>2, <2>3, <2>4 DEF ChunksHeld, Passed
<1>4. CaughtUp'
  <2> SUFFICES ASSUME NEW f \in Fds, Mapped(f)'
               PROVE  \/ read'[fdtab'[f]] = Passed(fdtab[f])'
                      \/ \E v \in Workers :
                           tok'[v] = fdtab'[f] /\ (Holds(v)' \/ pc'[v] = "close")
    BY DEF CaughtUp
  <2>1. Mapped(f) /\ fdtab'[f] = fdtab[f] /\ partner' = partner
    BY DEF NumbersMove
  <2>2. CASE read[fdtab[f]] = Passed(fdtab[f])
    BY <2>1, <2>2 DEF Passed
  <2>3. CASE \E v \in Workers : tok[v] = fdtab[f] /\ (Holds(v) \/ pc[v] = "close")
    <3>1. PICK v \in Workers : tok[v] = fdtab[f] /\ (Holds(v) \/ pc[v] = "close")
      BY <2>3
    <3>2. tok'[v] = tok[v] /\ (Holds(v)' \/ pc'[v] = "close")
      BY <3>1 DEF Others, Holds
    <3> QED
      BY <2>1, <3>1, <3>2
  <2> QED
    BY <2>1, <2>2, <2>3 DEF CaughtUp
<1> QED
  BY <1>1, <1>3, <1>4

LEMMA WorkersKept ==
  ASSUME PairsInv, ~astray, PairsInv', ~astray', PartnersMatch, WorkersGood,
         NEW w \in Workers, Others(w), NumbersMove, UNCHANGED <<sent, fin, rst>>,
         \A v \in Workers : v # w /\ pc[v] # "idle" => read'[tok[v]] = read[tok[v]],
         pc'[w] \in {"lookup", "deref", "recv"} => HasNews(tok[w])',
         w \notin dangling',
         pc'[w] \notin {"idle", "lookup", "deref"} /\ Current(w)'
           => dso'[w] = so_map'[so'[w]],
         Lone => SoloFlags' /\ SoloCloses'
  PROVE  WorkersGood'
<1>1. \A v \in Workers : pc[v] # "idle" =>
        tok[v] \in Socks /\ so[v] \in Fds /\ partner[tok[v]] # NoSock
  BY RegisteredFacts
<1>2. NewsOfWorkers'
  <2> SUFFICES ASSUME NEW v \in Workers, v # w, pc[v] \in {"lookup", "deref", "recv"}
               PROVE  HasNews(tok[v])'
    BY DEF NewsOfWorkers, Others
  <2>1. HasNews(tok[v]) /\ tok'[v] = tok[v] /\ read'[tok[v]] = read[tok[v]]
    BY DEF WorkersGood, NewsOfWorkers, Others
  <2> QED
    BY <2>1 DEF HasNews, Pending
<1>3. PeerKnown'
  <2>1. \A v \in dangling' : pc'[v] = "deref"
    <3> SUFFICES ASSUME NEW v \in dangling' PROVE pc'[v] = "deref"
      OBVIOUS
    <3>1. v # w /\ v \in Workers
      BY DEF PairsInv, TypeOK, HistoryTypeOK
    <3> QED
      BY <3>1 DEF WorkersGood, PeerKnown, NumbersMove, Others
  <2>2. ASSUME NEW v \in Workers, v # w, pc'[v] # "idle", Current(v)'
        PROVE  /\ v \notin dangling'
               /\ pc'[v] \notin {"lookup", "deref"} => dso'[v] = so_map'[so'[v]]
    <3>1. /\ pc'[v] = pc[v] /\ so'[v] = so[v] /\ dso'[v] = dso[v] /\ tok'[v] = tok[v]
          /\ tok[v] \in Socks /\ partner[tok[v]] # NoSock /\ so[v] \in Fds
      BY <1>1, <2>2 DEF Others
    <3>2. fdtab'[so[v]] = tok[v] /\ fdtab'[so[v]] # NoSock
      BY <2>2, <3>1, ConstFacts DEF Current
    <3>3. fdtab[so[v]] = tok[v] /\ so_map'[so[v]] = so_map[so[v]]
      BY <3>1, <3>2, NamesStay
    <3>4. Current(v) /\ pc[v] # "idle"
      BY <2>2, <3>1, <3>3 DEF Current
    <3> QED
      BY <3>1, <3>2, <3>3, <3>4 DEF WorkersGood, PeerKnown, NumbersMove
  <2> QED
    BY <2>1, <2>2 DEF PeerKnown
<1> QED
  BY <1>2, <1>3 DEF WorkersGood, Lone

\* A worker at work leaves no iterator behind.
LEMMA NotDangling ==
  ASSUME PairsInv, WorkersGood, NEW w \in Workers, WorkerStep(w)
  PROVE  w \notin dangling'
<1>1. \A v \in dangling : pc[v] = "deref"
  BY DEF WorkersGood, PeerKnown
<1> QED
  BY <1>1 DEF WorkerStep, Take, Lookup, Deref, Recv, RecvDone, Block, SetDstFlag, Send,
     SendDone, Unblock, Rearm, WorkerClose, CloseSocket

LEMMA NewsOfMainKept ==
  ASSUME PairsInv, NewsOfMain, UNCHANGED <<batch, mpc, cur, rst>>,
         pool' = pool \/ (pool # <<>> /\ pool' = Tail(pool)),
         \A s : HasNews(s) /\ (InBatch(s) \/ InMain(s) \/ InPool(s)) => HasNews(s)'
  PROVE  NewsOfMain'
<1>1. \A i \in 1 .. Len(pool') : \E j \in 1 .. Len(pool) : pool'[i] = pool[j]
  <2>0. pool \in Seq(Item)
    BY DEF PairsInv, TypeOK, TablesTypeOK
  <2>1. CASE pool' = pool
    BY <2>1
  <2>2. CASE pool # <<>> /\ pool' = Tail(pool)
    <3>1. \A i \in 1 .. Len(pool') : i + 1 \in 1 .. Len(pool) /\ pool'[i] = pool[i + 1]
      BY <2>0, <2>2
    <3> QED
      BY <3>1
  <2> QED
    BY <2>1, <2>2
<1>2. \A i \in 1 .. Len(pool') : HasNews(pool[i].sock)'
  <2> SUFFICES ASSUME NEW i \in 1 .. Len(pool') PROVE HasNews(pool[i].sock)'
    OBVIOUS
  <2>1. PICK j \in 1 .. Len(pool) : pool'[i] = pool[j]
    BY <1>1
  <2>2. HasNews(pool[j].sock) /\ InPool(pool[j].sock)
    BY DEF NewsOfMain, InPool
  <2> QED
    BY <2>1, <2>2 DEF HasNews, Pending
<1>3. \A e \in batch : e.event # "ACCEPT" => HasNews(e.sock)'
  BY DEF NewsOfMain, InBatch, HasNews, Pending
<1>4. mpc = "enqueue" => HasNews(cur.sock)'
  BY DEF NewsOfMain, InMain, HasNews, Pending
<1> QED
  BY <1>2, <1>3, <1>4 DEF NewsOfMain

-----------------------------------------------------------------------------
(* The steps of a worker, one by one.                                      *)

Before ==
  /\ PairsInv /\ ~astray /\ PairsInv' /\ ~astray'
  /\ HandlerGood /\ HandlerGood' /\ RelayGood

\* What every such step can use of the worker's own socket.
LEMMA OwnSocket ==
  ASSUME Before, NEW w \in Workers, pc[w] # "idle"
  PROVE  /\ tok[w] \in Socks /\ so[w] \in Fds /\ tok[w] # NoSock
         /\ partner[tok[w]] \in Socks /\ partner[tok[w]] # NoSock
         /\ partner[tok[w]] # tok[w] /\ partner[partner[tok[w]]] = tok[w]
         /\ OnlyName(so[w], tok[w])
<1>1. PartnersMatch
  BY DEF Before, RelayGood, StreamsGood
<1>2. tok[w] \in Socks /\ so[w] \in Fds /\ partner[tok[w]] # NoSock
  BY <1>1, RegisteredFacts DEF Before
<1>3. NoSock \notin Socks
  BY ConstFacts DEF Before, PairsInv
<1> QED
  BY <1>1, <1>2, <1>3 DEF PartnersMatch, Before, HandlerGood, TokenNumbers

LEMMA TakeRelay ==
  ASSUME Before, NEW w \in Workers, Take(w)
  PROVE  RelayGood'
<1>0. /\ Others(w) /\ NumbersMove /\ w \notin dangling'
      /\ UNCHANGED <<sent, fin, rst, batch, mpc, cur, partner, read, out, fdtab, nb,
                     so_map, dso>>
  BY WorkerFrame, NotDangling
  DEF Before, RelayGood, WorkerStep, Take, net, main, tables
<1>1. /\ pool # <<>> /\ pool' = Tail(pool) /\ pc[w] = "idle" /\ pc'[w] = "lookup"
      /\ tok'[w] = pool[1].sock /\ 1 \in 1 .. Len(pool)
  <2>1. /\ pc \in [Workers -> WorkerPC] /\ tok \in [Workers -> 0 .. MaxSock]
        /\ pool \in Seq(Item)
    BY DEF Before, PairsInv, TypeOK, WorkersTypeOK, TablesTypeOK
  <2> QED
    BY <2>1 DEF Take, TakeItem, GoTo
<1>2. \A s : HasNews(s)' <=> HasNews(s)
  BY <1>0 DEF HasNews, Pending
<1>3. NewsOfMain'
  BY <1>0, <1>1, <1>2, NewsOfMainKept DEF Before, RelayGood
<1>4. StreamsGood'
  BY <1>0, <1>1, StreamsKept DEF Before, RelayGood, Holds, PairsInv
<1>5. HasNews(pool[1].sock)
  BY <1>1 DEF Before, RelayGood, NewsOfMain
<1>6. ASSUME Lone PROVE SoloFlags' /\ SoloCloses'
  <2>1. \A v \in Workers : v = w
    BY <1>6 DEF Lone
  <2>2. \A f \in Fds : Mapped(f) => nb[f]
    BY <1>1, <1>6, <2>1 DEF Before, RelayGood, WorkersGood, SoloFlags
  <2> QED
    BY <1>0, <1>1, <2>1, <2>2 DEF SoloFlags, SoloCloses, Mapped
<1>7. WorkersGood'
  <2>1. pc'[w] \in {"lookup", "deref", "recv"} => HasNews(tok[w])'
    BY <1>0, <1>1, <1>5 DEF HasNews, Pending
  <2> QED
    BY <1>0, <1>1, <1>6, <2>1, WorkersKept
    DEF Before, RelayGood, StreamsGood
<1> QED
  BY <1>3, <1>4, <1>7 DEF RelayGood

\* Lookup and Deref: under the tables' lock and just after it.
LEMMA LookupRelay ==
  ASSUME Before, NEW w \in Workers, Lookup(w)
  PROVE  RelayGood'
<1>0. /\ Others(w) /\ NumbersMove /\ w \notin dangling'
      /\ UNCHANGED <<sent, fin, rst, batch, mpc, cur, partner, read, out, pool,
                     so_map, so, dso, tok, buf, on>>
  BY WorkerFrame, NotDangling
  DEF Before, RelayGood, WorkerStep, Lookup, net, main, tables
<1>1. /\ pc[w] = "lookup" /\ pc'[w] \in {"deref", "close"}
      /\ pc'[w] = "close" => ~Current(w)'
      /\ \A f \in Fds : Mapped(f) => fdtab'[f] = fdtab[f] /\ nb'[f] = nb[f]
  <2>1. pc \in [Workers -> WorkerPC]
    BY DEF Before, PairsInv, TypeOK, WorkersTypeOK
  <2>2. tok[w] # NoSock /\ so[w] \in Fds /\ pc[w] = "lookup"
    BY OwnSocket DEF Lookup
  <2>3. CASE so_map[so[w]] # None
    BY <1>0, <2>1, <2>2, <2>3 DEF Lookup, GoTo
  <2>4. CASE so_map[so[w]] = None
    <3>1. CloseFds({so[w]}) /\ pc'[w] = "close"
      BY <2>1, <2>4 DEF Lookup, GoTo
    <3> QED
      BY <1>0, <2>2, <2>4, <3>1 DEF CloseFds, Mapped, Current
  <2> QED
    BY <2>3, <2>4
<1>2. \A s : HasNews(s)' <=> HasNews(s)
  BY <1>0 DEF HasNews, Pending
<1>3. NewsOfMain'
  BY <1>0, <1>2, NewsOfMainKept DEF Before, RelayGood
<1>4. StreamsGood'
  BY <1>0, <1>1, StreamsKept DEF Before, RelayGood, Holds, PairsInv
<1>5. HasNews(tok[w])'
  BY <1>0, <1>1 DEF Before, RelayGood, WorkersGood, NewsOfWorkers, HasNews, Pending
<1>6. ASSUME Lone PROVE SoloFlags' /\ SoloCloses'
  <2>1. \A v \in Workers : v = w
    BY <1>6 DEF Lone
  <2>2. \A f \in Fds : Mapped(f) => nb[f]
    BY <1>1, <1>6, <2>1 DEF Before, RelayGood, WorkersGood, SoloFlags
  <2> QED
    BY <1>0, <1>1, <2>1, <2>2 DEF SoloFlags, SoloCloses, Mapped
<1>7. WorkersGood'
  BY <1>0, <1>1, <1>5, <1>6, WorkersKept DEF Before, RelayGood, StreamsGood
<1> QED
  BY <1>3, <1>4, <1>7 DEF RelayGood

LEMMA DerefRelay ==
  ASSUME Before, NEW w \in Workers, Deref(w)
  PROVE  RelayGood'
<1>0. /\ Others(w) /\ NumbersMove /\ w \notin dangling'
      /\ UNCHANGED <<sent, fin, rst, batch, mpc, cur, partner, read, out, pool, fdtab,
                     nb, so_map, so, tok, buf, on>>
  BY WorkerFrame, NotDangling
  DEF Before, RelayGood, WorkerStep, Deref, net, main, tables
<1>1. /\ pc[w] = "deref" /\ pc'[w] = "recv"
      /\ w \in dangling \/ dso'[w] = so_map[so[w]]
  <2>1. pc \in [Workers -> WorkerPC] /\ dso \in [Workers -> Fds \cup {None}]
    BY DEF Before, PairsInv, TypeOK, WorkersTypeOK
  <2> QED
    BY <2>1 DEF Deref, GoTo
<1>2. \A s : HasNews(s)' <=> HasNews(s)
  BY <1>0 DEF HasNews, Pending
<1>3. NewsOfMain'
  BY <1>0, <1>2, NewsOfMainKept DEF Before, RelayGood
<1>4. StreamsGood'
  BY <1>0, <1>1, StreamsKept DEF Before, RelayGood, Holds, PairsInv
<1>5. HasNews(tok[w])'
  BY <1>0, <1>1 DEF Before, RelayGood, WorkersGood, NewsOfWorkers, HasNews, Pending
<1>6. ASSUME Lone PROVE SoloFlags' /\ SoloCloses'
  <2>1. \A v \in Workers : v = w
    BY <1>6 DEF Lone
  <2>2. \A f \in Fds : Mapped(f) => nb[f]
    BY <1>1, <1>6, <2>1 DEF Before, RelayGood, WorkersGood, SoloFlags
  <2> QED
    BY <1>0, <1>1, <2>1, <2>2 DEF SoloFlags, SoloCloses, Mapped
<1>7. Current(w)' => dso'[w] = so_map'[so'[w]]
  BY <1>0, <1>1 DEF Before, RelayGood, WorkersGood, PeerKnown, Current
<1>8. WorkersGood'
  BY <1>0, <1>1, <1>5, <1>6, <1>7, WorkersKept DEF Before, RelayGood, StreamsGood
<1> QED
  BY <1>3, <1>4, <1>8 DEF RelayGood

\* set_nonblocking(false): only the worker that is writing to a number has it
\* blocking.
LEMMA BlockRelay ==
  ASSUME Before, NEW w \in Workers, Block(w)
  PROVE  RelayGood'
<1>0. /\ Others(w) /\ NumbersMove /\ w \notin dangling'
      /\ UNCHANGED <<sent, fin, rst, batch, mpc, cur, partner, read, out, pool, fdtab,
                     so_map, so, dso, tok, buf, on>>
  BY WorkerFrame, NotDangling
  DEF Before, RelayGood, WorkerStep, Block, SetDstFlag, net, main, tables
<1>1. /\ pc[w] = "block" /\ pc'[w] = "send"
      /\ \A f \in Fds : nb'[f] = IF f = dso[w] /\ IsOpen(f) THEN FALSE ELSE nb[f]
      /\ IsOpen(dso[w]) => fdtab[dso[w]] = partner[tok[w]]
  <2>1. pc \in [Workers -> WorkerPC]
    BY DEF Before, PairsInv, TypeOK, WorkersTypeOK
  <2> QED
    BY <2>1 DEF Block, SetDstFlag, GoTo, SetNonblocking, Astray, Before
<1>2. \A s : HasNews(s)' <=> HasNews(s)
  BY <1>0 DEF HasNews, Pending
<1>3. NewsOfMain'
  BY <1>0, <1>2, NewsOfMainKept DEF Before, RelayGood
<1>4. StreamsGood'
  BY <1>0, <1>1, StreamsKept DEF Before, RelayGood, Holds, PairsInv
<1>5. ASSUME Mapped(dso[w]), dso[w] \in Fds PROVE Current(w)
  <2>1. /\ IsOpen(dso[w]) /\ IsOpen(so_map[dso[w]])
        /\ partner[fdtab[dso[w]]] = fdtab[so_map[dso[w]]]
    BY <1>5 DEF Before, PairsInv, PairsMatch
  <2>2. fdtab[so_map[dso[w]]] = tok[w] /\ so_map[dso[w]] \in Fds
    BY <1>1, <2>1, OwnSocket DEF IsOpen
  <2> QED
    BY <1>1, <2>2, OwnSocket DEF OnlyName, Current
<1>6. Current(w)' <=> Current(w)
  BY <1>0 DEF Current
<1>7. ASSUME Lone PROVE SoloFlags' /\ SoloCloses'
  <2>1. \A v \in Workers : v = w
    BY <1>7 DEF Lone
  <2>2. \A f \in Fds : Mapped(f) => nb[f]
    BY <1>1, <1>7, <2>1 DEF Before, RelayGood, WorkersGood, SoloFlags
  <2>3. ASSUME NEW f \in Fds, Mapped(f)'
        PROVE  \/ nb'[f]
               \/ \E v \in Workers :
                    /\ pc'[v] \in {"send", "sending", "unblock", "close"}
                    /\ Current(v)' /\ dso'[v] = f
    BY <1>0, <1>1, <1>5, <1>6, <2>2, <2>3 DEF Mapped
  <2>4. (dso'[w] \in Fds /\ fdtab'[dso'[w]] = partner'[tok'[w]]) => ~nb'[dso'[w]]
    BY <1>0, <1>1, OwnSocket DEF IsOpen
  <2> QED
    BY <1>1, <2>1, <2>3, <2>4 DEF SoloFlags, SoloCloses
<1>8. Current(w)' => dso'[w] = so_map'[so'[w]]
  BY <1>0, <1>1, <1>6 DEF Before, RelayGood, WorkersGood, PeerKnown
<1>9. WorkersGood'
  BY <1>0, <1>1, <1>7, <1>8, WorkersKept DEF Before, RelayGood, StreamsGood
<1> QED
  BY <1>3, <1>4, <1>9 DEF RelayGood

LEMMA UnblockRelay ==
  ASSUME Before, NEW w \in Workers, Unblock(w)
  PROVE  RelayGood'
<1>0. /\ Others(w) /\ NumbersMove /\ w \notin dangling'
      /\ UNCHANGED <<sent, fin, rst, batch, mpc, cur, partner, read, out, pool, fdtab,
                     so_map, so, dso, tok, buf, on>>
  BY WorkerFrame, NotDangling
  DEF Before, RelayGood, WorkerStep, Unblock, SetDstFlag, net, main, tables
<1>1. /\ pc[w] = "unblock" /\ pc'[w] = "rearm"
      /\ \A f \in Fds : nb'[f] = IF f = dso[w] /\ IsOpen(f) THEN TRUE ELSE nb[f]
  <2>1. pc \in [Workers -> WorkerPC]
    BY DEF Before, PairsInv, TypeOK, WorkersTypeOK
  <2> QED
    BY <2>1 DEF Unblock, SetDstFlag, GoTo, SetNonblocking
<1>2. \A s : HasNews(s)' <=> HasNews(s)
  BY <1>0 DEF HasNews, Pending
<1>3. NewsOfMain'
  BY <1>0, <1>2, NewsOfMainKept DEF Before, RelayGood
<1>4. StreamsGood'
  BY <1>0, <1>1, StreamsKept DEF Before, RelayGood, Holds, PairsInv
<1>5. ASSUME Lone PROVE SoloFlags' /\ SoloCloses'
  <2>1. \A v \in Workers : v = w
    BY <1>5 DEF Lone
  <2>2. ASSUME NEW f \in Fds, Mapped(f) PROVE nb'[f]
    <3>1. nb[f] \/ dso[w] = f
      BY <1>5, <2>1, <2>2 DEF Before, RelayGood, WorkersGood, SoloFlags
    <3>2. IsOpen(f)
      BY <2>2, MappedFacts DEF Before
    <3> QED
      BY <1>1, <3>1, <3>2
  <2> QED
    BY <1>0, <1>1, <2>1, <2>2 DEF SoloFlags, SoloCloses, Mapped
<1>6. Current(w)' => dso'[w] = so_map'[so'[w]]
  BY <1>0, <1>1 DEF Before, RelayGood, WorkersGood, PeerKnown, Current
<1>7. WorkersGood'
  BY <1>0, <1>1, <1>5, <1>6, WorkersKept DEF Before, RelayGood, StreamsGood
<1> QED
  BY <1>3, <1>4, <1>7 DEF RelayGood

\* The two ways recv() can end: there is something to read, so it does not block.
LEMMA RecvEnds ==
  ASSUME Before, NEW w \in Workers, Recv(w)
  PROVE  /\ pc[w] = "recv" /\ UNCHANGED on
         /\ \/ /\ Current(w) /\ Pending(tok[w]) /\ pc'[w] = "block"
               /\ read' = [read EXCEPT ![tok[w]] = @ + 1]
               /\ buf' = [buf EXCEPT ![w] = <<tok[w], read[tok[w]] + 1>>]
            \/ /\ pc'[w] = "close" /\ UNCHANGED <<read, buf>>
               /\ Current(w) => tok[w] \in fin \cup rst
<1>0. /\ pc[w] = "recv" /\ pc \in [Workers -> WorkerPC] /\ so[w] \in Fds
      /\ tok[w] # NoSock /\ HasNews(tok[w])
  BY OwnSocket DEF Recv, Before, RelayGood, WorkersGood, NewsOfWorkers, PairsInv,
     TypeOK, WorkersTypeOK
<1>1. fdtab[so[w]] # NoSock => fdtab[so[w]] = tok[w]
  BY <1>0 DEF Recv, Astray, IsOpen, Before
<1>2. ~Quiet(tok[w])
  BY <1>0 DEF HasNews, Quiet
<1>3. CASE fdtab[so[w]] = NoSock
  BY <1>0, <1>3 DEF Recv, GoTo, Current
<1>4. CASE fdtab[so[w]] = tok[w]
  <2>1. RecvFrom(w, tok[w]) /\ UNCHANGED on
    BY <1>0, <1>2, <1>4 DEF Recv
  <2> QED
    BY <1>0, <1>4, <2>1 DEF RecvFrom, GoTo, Current
<1> QED
  BY <1>1, <1>3, <1>4

LEMMA ChunkRelay ==
  ASSUME Before, NEW w \in Workers, Recv(w), Current(w), Pending(tok[w]),
         pc[w] = "recv", pc'[w] = "block", UNCHANGED on,
         read' = [read EXCEPT ![tok[w]] = @ + 1],
         buf' = [buf EXCEPT ![w] = <<tok[w], read[tok[w]] + 1>>]
  PROVE  StreamsGood' /\ NewsOfMain'
         /\ \A v \in Workers : v # w /\ pc[v] # "idle" => read'[tok[v]] = read[tok[v]]
<1>0. /\ Others(w) /\ NumbersMove
      /\ UNCHANGED <<sent, fin, rst, batch, mpc, cur, partner, out, pool, fdtab, so_map,
                     tok>>
  BY WorkerFrame DEF Before, WorkerStep, Recv, net, main, tables
<1>1. /\ tok[w] \in Socks /\ partner[tok[w]] # NoSock /\ so[w] \in Fds
      /\ Mapped(so[w]) /\ fdtab[so[w]] = tok[w]
  BY OwnSocket, CurrentFacts DEF Before, RelayGood, StreamsGood, Current
<1>2. /\ \A v \in Workers : tok[v] = tok[w] => v = w
      /\ ~InBatch(tok[w]) /\ ~InMain(tok[w]) /\ ~InPool(tok[w])
  BY SoleHandler DEF Before, RelayGood, StreamsGood, InBatch, InMain, InPool
<1>3. /\ read \in [Socks -> Nat] /\ sent \in [Socks -> Nat]
      /\ buf'[w] = <<tok[w], read[tok[w]] + 1>>
      /\ read'[tok[w]] = read[tok[w]] + 1
      /\ \A s \in Socks : s # tok[w] => read'[s] = read[s]
  <2>1. /\ read \in [Socks -> Nat] /\ sent \in [Socks -> Nat]
        /\ buf \in [Workers -> Chunk]
    BY DEF Before, PairsInv, TypeOK, NetTypeOK, WorkersTypeOK
  <2>2. \A s \in Socks : s # tok[w] => read'[s] = read[s]
    BY <2>1
  <2> QED
    BY <1>1, <2>1, <2>2
<1>4. read[tok[w]] = Passed(tok[w])
  BY <1>1, <1>2 DEF Before, RelayGood, StreamsGood, CaughtUp, Holds
<1>5. PartnersMatch' /\ StreamsOK'
  <2>1. read'[tok[w]] <= sent[tok[w]]
    BY <1>1, <1>3 DEF Pending
  <2> QED
    BY <1>0, <1>1, <1>3, <2>1
    DEF Before, RelayGood, StreamsGood, PartnersMatch, StreamsOK
<1>6. ChunksHeld'
  <2>1. ASSUME NEW v \in Workers, v # w, Holds(v)'
        PROVE  /\ Holds(v) /\ tok[v] # tok[w] /\ read'[tok[v]] = read[tok[v]]
               /\ buf'[v] = buf[v]
    BY <1>0, <1>2, <1>3, <2>1 DEF Others, Holds
  <2>2. ASSUME NEW v \in Workers, Holds(v)'
        PROVE  /\ buf'[v] = <<tok[v], read'[tok[v]]>>
               /\ read'[tok[v]] = Passed(tok[v])' + 1
    <3>1. CASE v = w
      BY <1>0, <1>3, <1>4, <3>1 DEF Passed
    <3>2. CASE v # w
      BY <1>0, <2>1, <2>2, <3>2
      DEF Before, RelayGood, StreamsGood, ChunksHeld, Passed
    <3> QED
      BY <3>1, <3>2
  <2>3. \A u, v \in Workers : Holds(u)' /\ Holds(v)' /\ tok[u] = tok[v] => u = v
    BY <1>2, <2>1 DEF Before, RelayGood, StreamsGood, ChunksHeld
  <2>4. \A v \in Workers : /\ pc'[v] = "sending" => on'[v] = partner[tok[v]]
                           /\ pc'[v] # "recving"
    BY <1>0 DEF Before, RelayGood, StreamsGood, ChunksHeld, Others
  <2> QED
    BY <1>0, <2>2, <2>3, <2>4 DEF ChunksHeld
<1>7. CaughtUp'
  <2> SUFFICES ASSUME NEW f \in Fds, Mapped(f)
               PROVE  \/ read'[fdtab[f]] = Passed(fdtab[f])'
                      \/ \E v \in Workers :
                           tok[v] = fdtab[f] /\ (Holds(v)' \/ pc'[v] = "close")
    BY <1>0 DEF CaughtUp, Mapped
  <2>1. CASE fdtab[f] = tok[w]
    BY <2>1 DEF Holds
  <2>2. CASE fdtab[f] # tok[w]
    <3>1. read'[fdtab[f]] = read[fdtab[f]]
      BY <1>3, <2>2
    <3>2. \A v \in Workers : tok[v] = fdtab[f] => v # w
      BY <2>2
    <3> QED
      BY <1>0, <3>1, <3>2
      DEF Before, RelayGood, StreamsGood, CaughtUp, Holds, Passed, Others
  <2> QED
    BY <2>1, <2>2
<1>8. NewsOfMain'
  <2>1. \A s : HasNews(s) /\ (InBatch(s) \/ InMain(s) \/ InPool(s)) => HasNews(s)'
    BY <1>0, <1>2, <1>3 DEF HasNews, Pending
  <2> QED
    BY <1>0, <2>1, NewsOfMainKept DEF Before, RelayGood
<1>9. \A v \in Workers : v # w /\ pc[v] # "idle" => read'[tok[v]] = read[tok[v]]
  BY <1>2, <1>3
<1> QED
  BY <1>5, <1>6, <1>7, <1>8, <1>9 DEF StreamsGood

LEMMA RecvRelay ==
  ASSUME Before, NEW w \in Workers, Recv(w)
  PROVE  RelayGood'
<1>0. /\ Others(w) /\ NumbersMove /\ w \notin dangling'
      /\ UNCHANGED <<sent, fin, rst, batch, mpc, cur, partner, out, pool, fdtab,
                     nb, so_map, so, dso, tok, on>>
  BY WorkerFrame, NotDangling, RecvEnds
  DEF Before, RelayGood, WorkerStep, Recv, net, main, tables
<1>1. pc[w] = "recv" /\ pc'[w] \in {"block", "close"}
  BY RecvEnds
<1>2. pc'[w] = "close" /\ Current(w) => tok[w] \in fin \cup rst
  BY RecvEnds
<1>3. /\ StreamsGood' /\ NewsOfMain'
      /\ \A v \in Workers : v # w /\ pc[v] # "idle" => read'[tok[v]] = read[tok[v]]
  <2>1. CASE pc'[w] = "block"
    BY <2>1, RecvEnds, ChunkRelay
  <2>2. CASE pc'[w] = "close"
    <3>1. UNCHANGED <<read, buf>>
      BY <2>2, RecvEnds
    <3>2. \A s : HasNews(s)' <=> HasNews(s)
      BY <1>0, <3>1 DEF HasNews, Pending
    <3>3. NewsOfMain'
      BY <1>0, <3>2, NewsOfMainKept DEF Before, RelayGood
    <3>4. StreamsGood'
      BY <1>0, <1>1, <2>2, <3>1, StreamsKept DEF Before, RelayGood, Holds, PairsInv
    <3> QED
      BY <3>1, <3>3, <3>4
  <2> QED
    BY <1>1, <2>1, <2>2
<1>4. ASSUME Lone PROVE SoloFlags' /\ SoloCloses'
  <2>1. \A v \in Workers : v = w
    BY <1>4 DEF Lone
  <2>2. \A f \in Fds : Mapped(f) => nb[f]
    BY <1>1, <1>4, <2>1 DEF Before, RelayGood, WorkersGood, SoloFlags
  <2>3. SoloFlags'
    BY <1>0, <1>1, <2>1, <2>2 DEF SoloFlags, Mapped
  <2>4. SoloCloses'
    BY <1>0, <1>2, <2>1 DEF SoloCloses, Current
  <2> QED
    BY <2>3, <2>4
<1>5. pc[w] # "idle" /\ Current(w)' => dso'[w] = so_map'[so'[w]]
  BY <1>0, <1>1 DEF Before, RelayGood, WorkersGood, PeerKnown, Current
<1>6. WorkersGood'
  BY <1>0, <1>1, <1>3, <1>4, <1>5, WorkersKept DEF Before, RelayGood, StreamsGood
<1> QED
  BY <1>3, <1>6 DEF RelayGood

\* The three ways write_data can go.  It fails with EAGAIN only on a number that
\* has been made non-blocking again.
LEMMA SendEnds ==
  ASSUME Before, NEW w \in Workers, Send(w)
  PROVE  /\ pc[w] = "send"
         /\ \/ /\ pc'[w] = "close" /\ UNCHANGED <<out, on>>
               /\ \/ ~Current(w) \/ partner[tok[w]] \in rst
                  \/ nb[dso[w]] /\ dso[w] \in Fds /\ fdtab[dso[w]] = partner[tok[w]]
            \/ /\ pc'[w] = "unblock" /\ UNCHANGED on
               /\ Delivered(w, partner[tok[w]])
            \/ /\ pc'[w] = "sending" /\ UNCHANGED out
               /\ on'[w] = partner[tok[w]]
<1>0. /\ pc[w] = "send" /\ pc \in [Workers -> WorkerPC]
      /\ on \in [Workers -> 0 .. MaxSock] /\ partner[tok[w]] # NoSock
  BY OwnSocket DEF Send, Before, PairsInv, TypeOK, WorkersTypeOK
<1>1. SockOf(dso[w]) # NoSock =>
        dso[w] \in Fds /\ SockOf(dso[w]) = partner[tok[w]]
          /\ fdtab[dso[w]] = partner[tok[w]]
  BY DEF Send, Astray, IsOpen, Before, SockOf
<1>2. Current(w) => SockOf(dso[w]) = partner[tok[w]]
  <2>1. ASSUME Current(w) PROVE SockOf(dso[w]) = partner[tok[w]]
    <3>1. dso[w] = so_map[so[w]]
      BY <1>0, <2>1 DEF Before, RelayGood, WorkersGood, PeerKnown
    <3>2. so_map[so[w]] \in Fds /\ fdtab[so_map[so[w]]] = partner[tok[w]]
      BY <1>0, <2>1, CurrentFacts DEF Before, RelayGood, StreamsGood
    <3> QED
      BY <3>1, <3>2 DEF SockOf
  <2> QED
    BY <2>1
<1> DEFINE ok == SockOf(dso[w]) # NoSock /\ SockOf(dso[w]) \notin rst
<1>3. CASE GoTo(w, "close") /\ UNCHANGED <<out, on>> /\ (IF ok THEN nb[dso[w]] ELSE TRUE)
  <2>1. pc'[w] = "close"
    BY <1>0, <1>3 DEF GoTo
  <2>2. \/ ~Current(w) \/ partner[tok[w]] \in rst
        \/ nb[dso[w]] /\ dso[w] \in Fds /\ fdtab[dso[w]] = partner[tok[w]]
    BY <1>0, <1>1, <1>2, <1>3
  <2> QED
    BY <1>0, <1>3, <2>1, <2>2
<1>4. CASE ok /\ Delivered(w, SockOf(dso[w])) /\ GoTo(w, "unblock") /\ UNCHANGED on
  BY <1>0, <1>1, <1>4 DEF GoTo
<1>5. CASE /\ ok /\ on' = [on EXCEPT ![w] = SockOf(dso[w])] /\ GoTo(w, "sending")
           /\ UNCHANGED out
  BY <1>0, <1>1, <1>5 DEF GoTo
<1> QED
  BY <1>3, <1>4, <1>5 DEF Send

LEMMA SendDoneEnds ==
  ASSUME Before, NEW w \in Workers, SendDone(w)
  PROVE  /\ pc[w] = "sending"
         /\ \/ pc'[w] = "close" /\ UNCHANGED out /\ partner[tok[w]] \in rst
            \/ pc'[w] = "unblock" /\ Delivered(w, partner[tok[w]])
<1>1. on[w] = partner[tok[w]] /\ pc \in [Workers -> WorkerPC]
  BY DEF SendDone, Before, RelayGood, StreamsGood, ChunksHeld, PairsInv, TypeOK,
     WorkersTypeOK
<1> QED
  BY <1>1 DEF SendDone, GoTo

LEMMA DeliverStreams ==
  ASSUME Before, NEW w \in Workers, Holds(w), Others(w), NumbersMove,
         UNCHANGED <<read, sent, fdtab, so_map, tok, buf>>, pc'[w] = "unblock",
         Delivered(w, partner[tok[w]])
  PROVE  StreamsGood'
<1> DEFINE s == tok[w]
           d == partner[s]
<1>0. pc[w] # "idle" /\ UNCHANGED partner
  BY DEF Holds, NumbersMove
<1>1. s \in Socks /\ d \in Socks /\ d # NoSock /\ partner[d] = s /\ s # NoSock
  BY <1>0, OwnSocket
<1>2. /\ out \in [Socks -> Seq(Chunk)] /\ buf[w] \in Chunk /\ read[s] \in Nat
  BY <1>1 DEF Before, PairsInv, TypeOK, NetTypeOK, WorkersTypeOK
<1>3. /\ Len(out'[d]) = Len(out[d]) + 1
      /\ \A r \in Socks : r # d => out'[r] = out[r]
  BY <1>1, <1>2 DEF Delivered
<1>4. read[s] = Len(out[d]) + 1
  BY DEF Before, RelayGood, StreamsGood, ChunksHeld, Passed
<1>5. \A r \in Socks : r # s /\ partner[r] # NoSock =>
        partner[r] \in Socks /\ partner[r] # d
  BY <1>1 DEF Before, RelayGood, StreamsGood, PartnersMatch
<1> HIDE DEF s, d
<1>6. PartnersMatch' /\ StreamsOK'
  <2>1. \A r \in Socks : partner[r] = NoSock => out'[r] = <<>>
    BY <1>1, <1>3 DEF Before, RelayGood, StreamsGood, StreamsOK
  <2> QED
    BY <1>0, <2>1 DEF Before, RelayGood, StreamsGood, PartnersMatch, StreamsOK
<1>7. ChunksHeld'
  <2>1. ASSUME NEW v \in Workers, Holds(v)'
        PROVE  Holds(v) /\ v # w /\ Passed(tok[v])' = Passed(tok[v])
    <3>1. v # w
      BY <2>1 DEF Holds
    <3>2. Holds(v)
      BY <2>1, <3>1 DEF Holds, Others
    <3>3. tok[v] # s
      BY <3>1, <3>2 DEF Before, RelayGood, StreamsGood, ChunksHeld, s
    <3>4. tok[v] \in Socks /\ partner[tok[v]] # NoSock
      BY <3>2, OwnSocket DEF Holds
    <3>5. partner[tok[v]] \in Socks /\ partner[tok[v]] # d
      BY <1>5, <3>3, <3>4
    <3> QED
      BY <1>0, <1>3, <3>1, <3>2, <3>5 DEF Passed
  <2>2. \A v \in Workers : Holds(v)' =>
          buf'[v] = <<tok[v], read'[tok[v]]>> /\ read'[tok[v]] = Passed(tok[v])' + 1
    BY <2>1 DEF Before, RelayGood, StreamsGood, ChunksHeld
  <2>3. \A v \in Workers : /\ pc'[v] = "sending" => on'[v] = partner'[tok[v]]
                           /\ pc'[v] # "recving"
    BY <1>0 DEF Before, RelayGood, StreamsGood, ChunksHeld, Others
  <2>4. \A u, v \in Workers : Holds(u)' /\ Holds(v)' /\ tok[u] = tok[v] => u = v
    BY <2>1 DEF Before, RelayGood, StreamsGood, ChunksHeld
  <2> QED
    BY <2>2, <2>3, <2>4 DEF ChunksHeld
<1>8. CaughtUp'
  <2> SUFFICES ASSUME NEW f \in Fds, Mapped(f)
               PROVE  \/ read[fdtab[f]] = Passed(fdtab[f])'
                      \/ \E v \in Workers :
                           tok[v] = fdtab[f] /\ (Holds(v)' \/ pc'[v] = "close")
    BY DEF CaughtUp, Mapped
  <2>1. CASE fdtab[f] = s
    BY <1>0, <1>2, <1>3, <1>4, <2>1 DEF Passed, d
  <2>2. CASE fdtab[f] # s
    <3>1. fdtab[f] \in Socks /\ partner[fdtab[f]] # NoSock
      BY MappedFacts DEF Before
    <3>2. partner[fdtab[f]] \in Socks /\ partner[fdtab[f]] # d
      BY <1>5, <2>2, <3>1
    <3>3. Passed(fdtab[f])' = Passed(fdtab[f])
      BY <1>0, <1>3, <3>2 DEF Passed
    <3>4. \A v \in Workers : tok[v] = fdtab[f] => v # w
      BY <2>2 DEF s
    <3> QED
      BY <3>3, <3>4 DEF Before, RelayGood, StreamsGood, CaughtUp, Holds, Others
  <2> QED
    BY <2>1, <2>2
<1> QED
  BY <1>6, <1>7, <1>8 DEF StreamsGood

\* Both Send and SendDone, by how they end.
LEMMA WriteRelay ==
  ASSUME Before, NEW w \in Workers, Send(w) \/ SendDone(w)
  PROVE  RelayGood'
<1>0. /\ Others(w) /\ NumbersMove /\ w \notin dangling'
      /\ UNCHANGED <<sent, fin, rst, batch, mpc, cur, partner, read, pool, fdtab,
                     nb, so_map, so, dso, tok, buf>>
  BY WorkerFrame, NotDangling
  DEF Before, RelayGood, WorkerStep, Send, SendDone, net, main, tables
<1>1. pc[w] \in {"send", "sending"} /\ pc'[w] \in {"close", "unblock", "sending"}
  BY SendEnds, SendDoneEnds
<1>2. /\ pc'[w] = "unblock" => Delivered(w, partner[tok[w]])
      /\ pc'[w] # "unblock" => UNCHANGED out
      /\ pc'[w] = "sending" => on'[w] = partner[tok[w]]
  BY SendEnds, SendDoneEnds
<1>3. Holds(w)
  BY <1>1 DEF Holds
<1>4. StreamsGood'
  <2>1. CASE pc'[w] = "unblock"
    BY <1>0, <1>2, <1>3, <2>1, DeliverStreams
  <2>2. CASE pc'[w] # "unblock"
    BY <1>0, <1>1, <1>2, <1>3, <2>2, StreamsKept
    DEF Before, RelayGood, Holds, PairsInv
  <2> QED
    BY <2>1, <2>2
<1>5. NewsOfMain'
  <2>1. \A s : HasNews(s)' <=> HasNews(s)
    BY <1>0 DEF HasNews, Pending
  <2> QED
    BY <1>0, <2>1, NewsOfMainKept DEF Before, RelayGood
<1>6. Current(w)' <=> Current(w)
  BY <1>0 DEF Current
<1>7. ASSUME Lone PROVE SoloFlags' /\ SoloCloses'
  <2>1. \A v \in Workers : v = w
    BY <1>7 DEF Lone
  <2>2. SoloFlags
    BY <1>7 DEF Before, RelayGood, WorkersGood
  <2>3. ASSUME NEW f \in Fds, Mapped(f)
        PROVE  nb[f] \/ (Current(w) /\ dso[w] = f)
    BY <2>1, <2>2, <2>3 DEF SoloFlags
  <2>4. SoloFlags'
    BY <1>0, <1>1, <1>6, <2>1, <2>3 DEF SoloFlags, Mapped
  <2>5. ASSUME pc'[w] = "close", Current(w)
        PROVE  {tok[w], partner[tok[w]]} \cap (fin \cup rst) # {}
    <3>1. pc[w] = "send" /\ dso[w] \in Fds /\ fdtab[dso[w]] = partner[tok[w]]
            => ~nb[dso[w]]
      BY <2>2 DEF SoloFlags
    <3>2. partner[tok[w]] \in rst
      BY <2>5, <3>1, SendEnds, SendDoneEnds
    <3> QED
      BY <3>2
  <2>6. SoloCloses'
    BY <1>0, <1>6, <2>1, <2>5 DEF SoloCloses
  <2> QED
    BY <2>4, <2>6
<1>8. Current(w)' => dso'[w] = so_map'[so'[w]]
  BY <1>0, <1>1, <1>6 DEF Before, RelayGood, WorkersGood, PeerKnown
<1>9. WorkersGood'
  BY <1>0, <1>1, <1>7, <1>8, WorkersKept DEF Before, RelayGood, StreamsGood
<1> QED
  BY <1>4, <1>5, <1>9 DEF RelayGood

LEMMA RearmRelay ==
  ASSUME Before, NEW w \in Workers, Rearm(w)
  PROVE  RelayGood'
<1>0. /\ Others(w) /\ NumbersMove /\ w \notin dangling'
      /\ UNCHANGED <<sent, fin, rst, batch, mpc, cur, partner, read, out, pool, so_map>>
  BY WorkerFrame, NotDangling
  DEF Before, RelayGood, WorkerStep, Rearm, net, main, tables
<1>1. /\ pc[w] = "rearm" /\ pc'[w] = "idle"
      /\ \A f \in Fds : Mapped(f) => nb'[f] = nb[f] \/ nb'[f]
  <2>1. pc \in [Workers -> WorkerPC]
    BY DEF Before, PairsInv, TypeOK, WorkersTypeOK
  <2> QED
    BY <2>1 DEF Rearm, Finish, GoTo, CloseFds, SetNonblocking, Mapped
<1>2. \A s : HasNews(s)' <=> HasNews(s)
  BY <1>0 DEF HasNews, Pending
<1>3. NewsOfMain'
  BY <1>0, <1>2, NewsOfMainKept DEF Before, RelayGood
<1>4. StreamsGood'
  BY <1>0, <1>1, StreamsKept DEF Before, RelayGood, Holds, PairsInv
<1>5. ASSUME Lone PROVE SoloFlags' /\ SoloCloses'
  <2>1. \A v \in Workers : v = w
    BY <1>5 DEF Lone
  <2>2. \A f \in Fds : Mapped(f) => nb[f]
    BY <1>1, <1>5, <2>1 DEF Before, RelayGood, WorkersGood, SoloFlags
  <2> QED
    BY <1>0, <1>1, <2>1, <2>2 DEF SoloFlags, SoloCloses, Mapped
<1>6. WorkersGood'
  BY <1>0, <1>1, <1>5, WorkersKept DEF Before, RelayGood, StreamsGood
<1> QED
  BY <1>3, <1>4, <1>6 DEF RelayGood

\* A pair that is closed takes its stream along, whatever the worker still held.
LEMMA WorkerCloseRelay ==
  ASSUME Before, NEW w \in Workers, WorkerClose(w)
  PROVE  RelayGood'
<1>0. /\ Others(w) /\ NumbersMove /\ w \notin dangling'
      /\ UNCHANGED <<sent, fin, rst, batch, mpc, cur, partner, read, out, pool>>
      /\ pc[w] = "close" /\ pc'[w] = "idle"
  <2>1. pc \in [Workers -> WorkerPC]
    BY DEF Before, PairsInv, TypeOK, WorkersTypeOK
  <2> QED
    BY <2>1, WorkerFrame, NotDangling
    DEF Before, RelayGood, WorkerStep, WorkerClose, net, main, Finish, GoTo
<1>1. \A f \in Fds : Mapped(f)' =>
        /\ Mapped(f) /\ f # so[w] /\ f # so_map[so[w]] /\ nb'[f] = nb[f]
        /\ fdtab'[f] = fdtab[f]
  <2>1. so[w] \in Fds
    BY <1>0, OwnSocket
  <2> QED
    BY <2>1, ConstFacts
    DEF Before, PairsInv, WorkerClose, CloseSocket, Unmapped, FdsClosed, CloseFds, Pair,
        Mapped
<1>2. \A s : HasNews(s)' <=> HasNews(s)
  BY <1>0 DEF HasNews, Pending
<1>3. NewsOfMain'
  BY <1>0, <1>2, NewsOfMainKept DEF Before, RelayGood
<1>4. StreamsGood'
  <2>1. \A f \in Fds : Mapped(f)' => fdtab[f] # tok[w]
    BY <1>0, <1>1, OwnSocket DEF OnlyName
  <2> QED
    BY <1>0, <2>1, StreamsKept DEF Before, RelayGood, Holds, PairsInv
<1>5. ASSUME Lone PROVE SoloFlags' /\ SoloCloses'
  <2>1. \A v \in Workers : v = w
    BY <1>5 DEF Lone
  <2>2. ASSUME NEW f \in Fds, Mapped(f)' PROVE nb'[f]
    <3>1. Mapped(f) /\ f # so_map[so[w]] /\ nb'[f] = nb[f]
      BY <1>1, <2>2
    <3>2. nb[f] \/ (Current(w) /\ dso[w] = f)
      BY <1>5, <2>1, <3>1 DEF Before, RelayGood, WorkersGood, SoloFlags
    <3>3. Current(w) => dso[w] = so_map[so[w]]
      BY <1>0 DEF Before, RelayGood, WorkersGood, PeerKnown
    <3> QED
      BY <3>1, <3>2, <3>3
  <2> QED
    BY <1>0, <2>1, <2>2 DEF SoloFlags, SoloCloses
<1>6. WorkersGood'
  BY <1>0, <1>5, WorkersKept DEF Before, RelayGood, StreamsGood
<1> QED
  BY <1>3, <1>4, <1>6 DEF RelayGood

LEMMA WorkerRelay ==
  ASSUME Before, NEW w \in Workers, WorkerStep(w)
  PROVE  RelayGood'
<1>1. ~RecvDone(w)
  BY DEF RecvDone, Before, RelayGood, StreamsGood, ChunksHeld
<1> QED
  BY <1>1, TakeRelay, LookupRelay, DerefRelay, RecvRelay, BlockRelay, WriteRelay,
     UnblockRelay, RearmRelay, WorkerCloseRelay DEF WorkerStep

LEMMA RelayInvStep == RelayInv /\ [Next]_vars => RelayInv'
<1> SUFFICES ASSUME RelayInv, [Next]_vars PROVE RelayInv'
  OBVIOUS
<1>1. HandlerInv /\ HandlerInv'
  BY HandlerInvStep DEF RelayInv
<1>2. PairsInv /\ PairsInv' /\ (~astray' => HandlerGood')
  BY <1>1 DEF HandlerInv
<1>3. ASSUME ~astray' PROVE RelayGood'
  <2>1. ~astray /\ HandlerGood /\ RelayGood
    BY <1>1, <1>2, <1>3, AstrayForever DEF HandlerInv, RelayInv, PairsInv
  <2>2. Before
    BY <1>2, <1>3, <2>1 DEF Before
  <2>3. CASE ClientConnect \/ (\E s \in Socks : Peer(s)) \/ UNCHANGED vars
    BY <1>2, <1>3, <2>1, <2>3, EnvRelay
  <2>4. CASE MainStep
    BY <1>2, <1>3, <2>1, <2>4, MainRelay
  <2>5. CASE \E w \in Workers : WorkerStep(w)
    BY <2>2, <2>5, WorkerRelay
  <2> QED
    BY <2>3, <2>4, <2>5 DEF Next
<1> QED
  BY <1>1, <1>3 DEF RelayInv

-----------------------------------------------------------------------------
(* A single worker and the flags.                                          *)

LEMMA OneIsLone == Cardinality(Workers) = 1 => Lone
BY ConstAssumption, FS_Singleton DEF Lone

LEMMA SoloRecv == RelayInv /\ Lone => RecvNonblocking
<1> SUFFICES ASSUME RelayInv, Lone, ~astray, NEW w \in Workers, pc[w] = "recv",
                    IsOpen(so[w]), ~Astray(so[w], tok[w])
             PROVE  nb[so[w]]
  BY DEF RecvNonblocking
<1>1. PairsInv /\ RelayGood
  BY DEF RelayInv, HandlerInv
<1>2. Current(w)
  BY DEF Current, IsOpen, Astray
<1>3. Mapped(so[w]) /\ so[w] \in Fds
  BY <1>1, <1>2, CurrentFacts DEF RelayGood, StreamsGood
<1>4. \A v \in Workers : pc[v] \notin {"send", "sending", "unblock", "close"}
  BY DEF Lone
<1> QED
  BY <1>1, <1>3, <1>4 DEF RelayGood, WorkersGood, SoloFlags

LEMMA SoloSend == RelayInv /\ Lone => SendBlocking
BY DEF RelayInv, RelayGood, WorkersGood, SoloFlags, SendBlocking, IsOpen, Astray

LEMMA AlwaysRelayInv == Spec => []RelayInv
<1>1. Init => RelayInv
  BY InitRelayInv
<1>2. RelayInv /\ [Next]_vars => RelayInv'
  BY RelayInvStep
<1> QED
  BY <1>1, <1>2, PTL DEF Spec

\* sl_tcpsocket::recv asserts in a comment that the socket it reads is
\* non-blocking.  With one worker thread that is so whenever a worker comes to
\* read the socket it means, whatever the numbers of descriptors, clients and
\* chunks; with more than one it is not.
THEOREM RecvAlwaysNonblocking ==
  Cardinality(Workers) = 1 => (Spec => []RecvNonblocking)
<1> SUFFICES ASSUME Cardinality(Workers) = 1 PROVE Spec => []RecvNonblocking
  OBVIOUS
<1>1. RelayInv => RecvNonblocking
  BY OneIsLone, SoloRecv
<1> QED
  BY <1>1, AlwaysRelayInv, PTL

\* _read_incoming_data forces the destination "to block on sending": with one
\* worker thread it is still blocking when write_data is called.
THEOREM SendAlwaysBlocking ==
  Cardinality(Workers) = 1 => (Spec => []SendBlocking)
<1> SUFFICES ASSUME Cardinality(Workers) = 1 PROVE Spec => []SendBlocking
  OBVIOUS
<1>1. RelayInv => SendBlocking
  BY OneIsLone, SoloSend
<1> QED
  BY <1>1, AlwaysRelayInv, PTL

-----------------------------------------------------------------------------
(* Each step of the tunnel is a step of Relay or changes nothing there.    *)

Ended == {s \in Socks : partner[s] # NoSock /\ ~Named(s)}

\* No pair ends while the numbers in the tables stay what they are.
LEMMA EndedStays ==
  ASSUME Before, NumbersMove, \A f \in Fds : Mapped(f) => fdtab'[f] = fdtab[f]
  PROVE  Ended' = Ended
<1>1. UNCHANGED partner
  BY DEF NumbersMove
<1>2. ASSUME NEW s \in Socks, partner[s] # NoSock PROVE Named(s)' <=> Named(s)
  <2>1. s # NoSock
    BY ConstFacts DEF Before, PairsInv
  <2>2. ASSUME NEW f \in Fds, fdtab[f] = s PROVE fdtab'[f] = s
    BY <1>2, <2>1, <2>2, RegisteredMapped DEF Before
  <2>3. ASSUME NEW f \in Fds, fdtab'[f] = s PROVE fdtab[f] = s
    BY <1>2, <2>3, NamesStay DEF Before, RelayGood, StreamsGood
  <2> QED
    BY <2>2, <2>3 DEF Named
<1> QED
  BY <1>1, <1>2 DEF Ended

\* close_socket ends exactly the pair whose number it is given.
LEMMA EndedGrows ==
  ASSUME Before, NEW k \in Fds, NEW r, CloseSocket(k, r), UNCHANGED partner, Mapped(k)
  PROVE  /\ fdtab[k] \in Socks /\ fdtab[k] \notin Ended /\ partner[fdtab[k]] # NoSock
         /\ Ended' = Ended \cup {fdtab[k], partner[fdtab[k]]}
<1> DEFINE s == fdtab[k]
           g == so_map[k]
           t == fdtab[g]
<1>1. /\ g \in Fds /\ partner[s] = t /\ s \in Socks /\ t \in Socks
      /\ s # NoSock /\ t # NoSock /\ partner[s] # NoSock /\ partner[t] # NoSock
  <2>1. g \in Fds /\ IsOpen(g) /\ partner[s] = t /\ so_map[g] = k
    BY DEF Before, PairsInv, PairsMatch, IsOpen
  <2>2. Mapped(g) /\ IsOpen(k) /\ s \in Socks /\ partner[s] # NoSock
    BY <2>1, MappedFacts, ConstFacts DEF Before, Mapped
  <2>3. t \in Socks /\ partner[t] # NoSock
    BY <2>1, <2>2, MappedFacts DEF Before
  <2> QED
    BY <2>1, <2>2, <2>3 DEF IsOpen
<1>2. \A f \in Fds : fdtab'[f] = IF f \in {k, g} THEN NoSock ELSE fdtab[f]
  BY <1>1, ConstFacts DEF CloseSocket, FdsClosed, Pair, CloseFds
<1>3. \A f \in Fds : (fdtab[f] = s => f = k) /\ (fdtab[f] = t => f = g)
  BY <1>1 DEF Before, PairsInv, SocketsDistinct
<1>4. Named(s) /\ Named(t)
  BY <1>1 DEF Named
<1>5. ASSUME NEW q \in Socks PROVE Named(q)' <=> Named(q) /\ q # s /\ q # t
  <2>1. q # NoSock
    BY ConstFacts DEF Before, PairsInv
  <2>2. ASSUME NEW f \in Fds, fdtab'[f] = q PROVE fdtab[f] = q /\ q # s /\ q # t
    BY <1>2, <1>3, <2>1, <2>2
  <2>3. ASSUME NEW f \in Fds, fdtab[f] = q, q # s, q # t PROVE fdtab'[f] = q
    BY <1>2, <2>3
  <2> QED
    BY <2>2, <2>3 DEF Named
<1>6. Ended' = Ended \cup {s, t}
  BY <1>1, <1>5 DEF Ended
<1> QED
  BY <1>1, <1>4, <1>6 DEF Ended

\* One such call, seen from above.
EndsOrStutters ==
  \/ UNCHANGED Ended
  \/ \E s \in Socks :
       /\ partner[s] # NoSock /\ s \notin Ended
       /\ Cardinality(Workers) = 1 => {s, partner[s]} \cap (fin \cup rst) # {}
       /\ Ended' = Ended \cup {s, partner[s]}

LEMMA CloseEnds ==
  ASSUME Before, NEW k \in Fds, NEW s, CloseSocket(k, s), UNCHANGED partner,
         Cardinality(Workers) = 1 /\ fdtab[k] = s
           => {s, partner[s]} \cap (fin \cup rst) # {}
  PROVE  EndsOrStutters
<1>1. CASE Mapped(k)
  <2>1. fdtab[k] = s
    BY <1>1, MappedFacts DEF CloseSocket, Astray, Before
  <2> QED
    BY <1>1, <2>1, EndedGrows DEF EndsOrStutters
<1>2. CASE ~Mapped(k)
  <2>1. \A f \in Fds : Mapped(f) => fdtab'[f] = fdtab[f]
    BY <1>2 DEF CloseSocket, FdsClosed, CloseFds, Pair, Mapped
  <2>2. NumbersMove
    BY CloseSocketNumbers DEF Before
  <2> QED
    BY <2>1, <2>2, EndedStays DEF EndsOrStutters
<1> QED
  BY <1>1, <1>2

LEMMA EnvRefines ==
  ASSUME Before, ClientConnect \/ (\E s \in Socks : Peer(s)) \/ UNCHANGED vars
  PROVE  [Promise!Next]_(Promise!vars)
<1>1. UNCHANGED <<partner, fdtab, out, astray>>
  BY DEF ClientConnect, Peer, vars
<1>2. UNCHANGED Ended
  BY <1>1 DEF Ended, Named
<1>3. CASE UNCHANGED <<sent, fin, rst>>
  BY <1>1, <1>2, <1>3 DEF Promise!vars, Ended
<1>4. ASSUME NEW s \in Socks, PeerSend(s) PROVE Promise!Send(s)
  BY <1>1, <1>2, <1>4 DEF PeerSend, HasPeer, Promise!Send, Ended
<1>5. ASSUME NEW s \in Socks, PeerFin(s) PROVE Promise!Finish(s)
  BY <1>1, <1>2, <1>5 DEF PeerFin, HasPeer, Promise!Finish, Ended
<1>6. ASSUME NEW s \in Socks, PeerReset(s), s \notin fin PROVE Promise!Finish(s)
  BY <1>1, <1>2, <1>6 DEF PeerReset, HasPeer, Promise!Finish, Ended
<1>7. ASSUME NEW s \in Socks, PeerReset(s), s \in fin PROVE UNCHANGED Promise!vars
  <2>1. fin' \cup rst' = fin \cup rst /\ UNCHANGED sent
    BY <1>7 DEF PeerReset
  <2> QED
    BY <1>1, <1>2, <2>1 DEF Promise!vars, Ended
<1>8. CASE ClientConnect \/ UNCHANGED vars
  BY <1>3, <1>8 DEF ClientConnect, vars, net
<1>9. CASE \E s \in Socks : Peer(s)
  <2>1. PICK s \in Socks : PeerSend(s) \/ PeerFin(s) \/ PeerReset(s)
    BY <1>9 DEF Peer
  <2> QED
    BY <1>4, <1>5, <1>6, <1>7, <2>1 DEF Promise!Next, Before
<1> QED
  BY <1>8, <1>9

\* A step that at most ends a pair.
LEMMA EndRefines ==
  ASSUME Before, EndsOrStutters, UNCHANGED <<partner, sent, out, fin, rst>>
  PROVE  [Promise!Next]_(Promise!vars)
<1>0. UNCHANGED astray
  BY DEF Before, PairsInv, TypeOK, HistoryTypeOK
<1>1. CASE UNCHANGED Ended
  BY <1>0, <1>1 DEF Promise!vars, Ended
<1>2. ASSUME NEW s \in Socks, partner[s] # NoSock, s \notin Ended,
             Cardinality(Workers) = 1 => {s, partner[s]} \cap (fin \cup rst) # {},
             Ended' = Ended \cup {s, partner[s]}
      PROVE  Promise!End(s)
  BY <1>0, <1>2 DEF Promise!End, Promise!Relayed, Ended
<1> QED
  BY <1>1, <1>2 DEF EndsOrStutters, Promise!Next, Before

LEMMA RegisterRefines ==
  ASSUME Before, DidAccept
  PROVE  \E s, t \in Socks : Promise!Register(s, t)
<1> DEFINE s == cur.sock
           t == fdtab[mdst]
<1>0. /\ mpc = "register" /\ cur.so \in Fds /\ mdst \in Fds /\ cur.so # mdst
      /\ Fresh(cur.so, s) /\ Fresh(mdst, t)
  BY DEF DidAccept, Before, PairsInv, TypeOK, MainTypeOK, Event, HeldFresh, Fresh
<1>1. /\ s \in Socks /\ t \in Socks /\ s # t
      /\ partner[s] = NoSock /\ partner[t] = NoSock /\ fdtab[cur.so] = s /\ IsOpen(mdst)
  BY <1>0, ConstFacts
  DEF Fresh, Before, PairsInv, SocketsDistinct, TypeOK, SocketsTypeOK, IsOpen
<1>2. UNCHANGED <<fdtab, out, sent, fin, rst>>
  BY DEF DidAccept, net
<1>3. partner' = [partner EXCEPT ![s] = t, ![t] = s]
  <2>1. partner \in [Socks -> 0 .. MaxSock]
    BY DEF Before, PairsInv, TypeOK, HistoryTypeOK
  <2>2. partner' = [r \in Socks |-> CASE r = s /\ IsOpen(mdst) -> t
                                      [] r = t /\ r # s -> s
                                      [] OTHER -> partner[r]]
    BY DEF DidAccept
  <2> QED
    BY <1>1, <2>1, <2>2
<1>4. UNCHANGED Ended
  <2>1. Named(s) /\ Named(t)
    BY <1>0, <1>1 DEF Named
  <2>2. \A r \in Socks : /\ r # s /\ r # t => partner'[r] = partner[r]
                         /\ Named(r)' <=> Named(r)
    BY <1>1, <1>2, <1>3 DEF Named, Before, PairsInv, TypeOK, HistoryTypeOK
  <2> QED
    BY <1>1, <2>1, <2>2 DEF Ended
<1>5. Promise!Register(s, t)
  BY <1>1, <1>2, <1>3, <1>4 DEF Promise!Register, Ended
<1> QED
  BY <1>1, <1>5

LEMMA DeliverRefines ==
  ASSUME Before, NEW w \in Workers, Send(w) \/ SendDone(w),
         Delivered(w, partner[tok[w]])
  PROVE  Promise!Deliver(partner[tok[w]])
<1> DEFINE s == tok[w]
           d == partner[s]
<1>0. pc[w] # "idle" /\ Holds(w) /\ ~WorkerClose(w)
  BY DEF Send, SendDone, Holds, WorkerClose
<1>1. s \in Socks /\ d \in Socks /\ partner[d] = s /\ s # NoSock
  BY <1>0, OwnSocket
<1>2. /\ UNCHANGED <<partner, sent, fin, rst>> /\ NumbersMove
      /\ \A f \in Fds : Mapped(f) => fdtab'[f] = fdtab[f]
  BY <1>0, WorkerFrame DEF Before, WorkerStep
<1>3. UNCHANGED Ended
  BY <1>2, EndedStays
<1>4. buf[w] = <<s, read[s]>> /\ read[s] = Len(out[d]) + 1
  BY <1>0 DEF Before, RelayGood, StreamsGood, ChunksHeld, Passed
<1>5. Len(out[d]) < sent[s]
  <2>1. read[s] <= sent[s] /\ read[s] \in Nat /\ sent[s] \in Nat /\ out[d] \in Seq(Chunk)
    BY <1>1
    DEF Before, RelayGood, StreamsGood, StreamsOK, PairsInv, TypeOK, NetTypeOK
  <2>2. Len(out[d]) \in Nat
    BY <2>1
  <2> QED
    BY <1>4, <2>1, <2>2
<1> QED
  BY <1>1, <1>2, <1>3, <1>4, <1>5 DEF Promise!Deliver, Delivered, Ended

LEMMA MainRefines ==
  ASSUME Before, MainStep
  PROVE  [Promise!Next]_(Promise!vars)
<1>1. CASE DidAccept
  BY <1>1, RegisterRefines DEF Promise!Next, Before
<1>2. CASE MainClose
  <2>1. /\ CloseSocket(cur.so, cur.sock) /\ mpc = "close"
        /\ UNCHANGED <<partner, sent, out, fin, rst>>
    BY <1>2 DEF MainClose, net
  <2>2. cur.so \in Fds /\ cur.sock \in rst
    BY <2>1 DEF Before, PairsInv, TypeOK, MainTypeOK, Event, RelayGood, NewsOfMain
  <2>3. EndsOrStutters
    BY <2>1, <2>2, CloseEnds
  <2> QED
    BY <2>1, <2>3, EndRefines
<1>3. CASE ~DidAccept /\ ~MainClose
  <2>1. /\ UNCHANGED <<out, sent, fin, rst, partner>> /\ NumbersMove
        /\ \A f \in Fds : Mapped(f) => fdtab'[f] = fdtab[f]
    BY <1>3, MainNumbers DEF Before
  <2>2. UNCHANGED Ended
    BY <2>1, EndedStays
  <2> QED
    BY <2>1, <2>2, EndRefines DEF EndsOrStutters
<1> QED
  BY <1>1, <1>2, <1>3

LEMMA WorkerRefines ==
  ASSUME Before, NEW w \in Workers, WorkerStep(w)
  PROVE  [Promise!Next]_(Promise!vars)
<1>0. UNCHANGED <<partner, sent, fin, rst>> /\ NumbersMove
  BY WorkerFrame DEF Before
<1>1. CASE WorkerClose(w)
  <2>1. CloseSocket(so[w], tok[w]) /\ pc[w] = "close" /\ UNCHANGED out
    BY <1>1 DEF WorkerClose
  <2>2. so[w] \in Fds
    BY <2>1, OwnSocket
  <2>3. Cardinality(Workers) = 1 /\ fdtab[so[w]] = tok[w]
          => {tok[w], partner[tok[w]]} \cap (fin \cup rst) # {}
    BY <2>1, <2>2, OneIsLone
    DEF Current, Before, RelayGood, WorkersGood, SoloCloses
  <2>4. EndsOrStutters
    BY <1>0, <2>1, <2>2, <2>3, CloseEnds
  <2> QED
    BY <1>0, <2>1, <2>4, EndRefines
<1>2. CASE (Send(w) \/ SendDone(w)) /\ Delivered(w, partner[tok[w]])
  <2>1. partner[tok[w]] \in Socks
    BY <1>2, OwnSocket DEF Send, SendDone
  <2>2. Promise!Deliver(partner[tok[w]])
    BY <1>2, DeliverRefines
  <2> QED
    BY <2>1, <2>2 DEF Promise!Next, Before
<1>3. CASE ~WorkerClose(w) /\ UNCHANGED out
  <2>1. UNCHANGED Ended
    BY <1>0, <1>3, WorkerFrame, EndedStays DEF Before
  <2> QED
    BY <1>0, <1>3, <2>1, EndRefines DEF EndsOrStutters
<1>4. Send(w) \/ SendDone(w) => UNCHANGED out \/ Delivered(w, partner[tok[w]])
  BY SendEnds, SendDoneEnds
<1>5. ~Send(w) /\ ~SendDone(w) => UNCHANGED out
  BY DEF WorkerStep, Take, Lookup, Deref, Recv, RecvDone, Block, SetDstFlag, Unblock,
     Rearm, WorkerClose
<1>6. Send(w) \/ SendDone(w) => ~WorkerClose(w)
  BY DEF Send, SendDone, WorkerClose
<1> QED
  BY <1>1, <1>2, <1>3, <1>4, <1>5, <1>6

LEMMA StepRefines ==
  RelayInv /\ RelayInv' /\ [Next]_vars => [Promise!Next]_(Promise!vars)
<1> SUFFICES ASSUME RelayInv, RelayInv', [Next]_vars
             PROVE  [Promise!Next]_(Promise!vars)
  OBVIOUS
<1>1. CASE astray'
  BY <1>1 DEF Promise!Next
<1>2. CASE ~astray'
  <2>1. PairsInv /\ PairsInv' /\ HandlerGood'
    BY <1>2 DEF RelayInv, HandlerInv
  <2>2. ~astray
    BY <1>2, <2>1, AstrayForever DEF PairsInv
  <2>3. Before
    BY <1>2, <2>1, <2>2 DEF RelayInv, HandlerInv, Before
  <2> QED
    BY <2>3, EnvRefines, MainRefines, WorkerRefines DEF Next
<1> QED
  BY <1>1, <1>2

\* Until a number is used for a socket it does not mean, the tunnel does nothing
\* but what Relay describes: every chunk read from a socket is written to its
\* partner once and in order, both sockets of a pair are closed at once, and the
\* only worker of a single-threaded pool closes a pair only when one of its
\* connections has ended or broken.
THEOREM TunnelImplementsRelay == Spec => Implements
<1>1. Init => Promise!Init
  <2> SUFFICES ASSUME Init PROVE Promise!Init
    OBVIOUS
  <2>1. \A s \in Socks : partner[s] = NoSock
    BY DEF Init
  <2>2. {s \in Socks : partner[s] # NoSock /\ ~Named(s)} = {}
    BY <2>1
  <2> QED
    BY <2>2 DEF Init, Promise!Init
<1>2. RelayInv /\ RelayInv' /\ [Next]_vars => [Promise!Next]_(Promise!vars)
  BY StepRefines
<1> QED
  BY <1>1, <1>2, AlwaysRelayInv, PTL DEF Spec, Implements, Promise!Spec
=============================================================================
