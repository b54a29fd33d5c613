---------------------------- MODULE TunnelProofs ----------------------------
(* Theorems about Tunnel, for every number of descriptors, workers, clients *)
(* and chunks.                                                              *)
EXTENDS Tunnel, TLAPS, FiniteSetTheorems

-----------------------------------------------------------------------------
(* Lemmas on the constants and on the helpers that several actions share.  *)

LEMMA ConstFacts ==
  /\ MaxSock \in Nat
  /\ NoSock \in 0 .. MaxSock
  /\ Socks \subseteq 0 .. MaxSock
  /\ \A s \in 0 .. MaxSock : s # NoSock => s \in Socks
  /\ NoSock \notin Socks
  /\ None \notin Fds
BY ConstAssumption DEF MaxSock, Socks, NoSock

LEMMA InitTypeOK == Init => TypeOK
<1> SUFFICES ASSUME Init PROVE TypeOK
  OBVIOUS
<1> USE ConstAssumption, ConstFacts DEF Init
<1>1. SocketsTypeOK
  BY DEF SocketsTypeOK
<1>2. NetTypeOK
  <2>1. <<>> \in Seq(Chunk)
    OBVIOUS
  <2>2. out \in [Socks -> Seq(Chunk)]
    BY <2>1
  <2>3. arrived \in 0 .. MaxConn /\ born \in 0 .. MaxSock /\ chunks \in 0 .. MaxData
    BY DEF NoSock
  <2> QED
    BY <2>2, <2>3 DEF NetTypeOK
<1>3. TablesTypeOK
  BY DEF TablesTypeOK
<1>4. MainTypeOK
  BY DEF MainTypeOK, MainPC
<1>5. WorkersTypeOK
  BY DEF WorkersTypeOK, WorkerPC, Chunk
<1>6. HistoryTypeOK
  BY DEF HistoryTypeOK
<1> QED
  BY <1>1, <1>2, <1>3, <1>4, <1>5, <1>6 DEF TypeOK

\* close() keeps the descriptor table typed, whichever numbers it is given.
LEMMA CloseFdsType ==
  ASSUME NEW S, SocketsTypeOK, CloseFds(S) PROVE SocketsTypeOK'
BY ConstFacts DEF SocketsTypeOK, CloseFds

\* accept() and socket() name a socket that exists.
LEMMA OpenFdType ==
  ASSUME NEW f \in Fds, SocketsTypeOK, NetTypeOK, OpenFd(f)
  PROVE  /\ born + 1 \in Socks
         /\ born' \in 0 .. MaxSock
         /\ fdtab' \in [Fds -> 0 .. MaxSock]
BY ConstFacts DEF SocketsTypeOK, NetTypeOK, OpenFd, Socks

\* epoll_ctl and FIONBIO keep the descriptor table typed.
LEMMA MonitorType ==
  ASSUME SocketsTypeOK, NEW S, NEW f, NEW b \in BOOLEAN
  PROVE  /\ MonitorAdd(S) \in [Fds -> {"none", "off", "on"}]
         /\ MonitorMod(f) \in [Fds -> {"none", "off", "on"}]
         /\ SetNonblocking(S, b) \in [Fds -> BOOLEAN]
BY DEF SocketsTypeOK, MonitorAdd, MonitorMod, SetNonblocking

\* recv() on a socket that exists: a chunk of that socket, or the end.
LEMMA RecvFromType ==
  ASSUME NetTypeOK, WorkersTypeOK, NEW w \in Workers, NEW s \in Socks,
         RecvFrom(w, s)
  PROVE  /\ read' \in [Socks -> Nat]
         /\ buf' \in [Workers -> Chunk]
         /\ \/ pc' = [pc EXCEPT ![w] = "block"]
            \/ pc' = [pc EXCEPT ![w] = "close"]
<1>1. read[s] \in Nat /\ read[s] + 1 \in Nat
  BY DEF NetTypeOK
<1>2. <<s, read[s] + 1>> \in Chunk
  BY <1>1 DEF Chunk
<1>3. read' \in [Socks -> Nat]
  BY <1>1 DEF RecvFrom, NetTypeOK
<1>4. buf' \in [Workers -> Chunk]
  BY <1>2 DEF RecvFrom, WorkersTypeOK
<1> QED
  BY <1>3, <1>4 DEF RecvFrom, GoTo

\* A chunk written to a socket extends that socket's sequence.
LEMMA DeliveredType ==
  ASSUME NetTypeOK, WorkersTypeOK, NEW w \in Workers, NEW s \in Socks,
         Delivered(w, s)
  PROVE  out' \in [Socks -> Seq(Chunk)]
<1>1. out[s] \in Seq(Chunk) /\ buf[w] \in Chunk
  BY DEF NetTypeOK, WorkersTypeOK
<1>2. Append(out[s], buf[w]) \in Seq(Chunk)
  BY <1>1
<1> QED
  BY <1>2 DEF Delivered, NetTypeOK

LEMMA CloseSocketType ==
  ASSUME NEW f \in Fds, NEW s, TypeOK, CloseSocket(f, s), UNCHANGED pool
  PROVE  SocketsTypeOK' /\ TablesTypeOK'
         /\ dangling' \subseteq Workers /\ astray' \in BOOLEAN
<1>1. SocketsTypeOK'
  BY CloseFdsType DEF CloseSocket, TypeOK
<1>2. TablesTypeOK'
  BY DEF CloseSocket, TypeOK, TablesTypeOK, Unregistered, Unmapped, Pair
<1>3. dangling' \subseteq Workers /\ astray' \in BOOLEAN
  BY DEF CloseSocket, TypeOK, HistoryTypeOK, Astray, IsOpen
<1> QED
  BY <1>1, <1>2, <1>3

LEMMA EventDoneType ==
  MainTypeOK /\ EventDone => MainTypeOK'
BY DEF MainTypeOK, EventDone, MainPC

LEMMA FinishType ==
  ASSUME NEW w \in Workers, WorkersTypeOK, Finish(w)
  PROVE  WorkersTypeOK'
BY ConstFacts DEF WorkersTypeOK, Finish, GoTo, WorkerPC, Chunk

-----------------------------------------------------------------------------
LEMMA EnvType ==
  ASSUME TypeOK, ClientConnect \/ \E s \in Socks : Peer(s)
  PROVE  TypeOK'
<1> USE DEF TypeOK, tables, main, locals
<1>1. SocketsTypeOK' /\ TablesTypeOK' /\ MainTypeOK' /\ WorkersTypeOK'
      /\ HistoryTypeOK'
  BY DEF ClientConnect, Peer, SocketsTypeOK, TablesTypeOK, MainTypeOK,
         WorkersTypeOK, HistoryTypeOK
<1>2. CASE ClientConnect
  <2>1. NetTypeOK'
    BY <1>2, ConstAssumption DEF ClientConnect, NetTypeOK
  <2> QED
    BY <1>1, <2>1
<1>3. ASSUME NEW s \in Socks, Peer(s) PROVE NetTypeOK'
  BY <1>3, ConstAssumption DEF Peer, PeerSend, PeerFin, PeerReset, NetTypeOK
<1> QED
  BY <1>1, <1>2, <1>3

LEMMA MainType ==
  ASSUME TypeOK, MainStep
  PROVE  TypeOK'
<1> USE DEF TypeOK
<1>1. CASE Harvest
  <2>1. SocketsTypeOK'
    BY <1>1 DEF Harvest, Disarm, SocketsTypeOK
  <2>2. MainTypeOK'
    <3>1. batch' \subseteq Event
      BY <1>1, ConstFacts DEF Harvest, Ready, IsOpen, Event, EventId,
         SocketsTypeOK
    <3> QED
      BY <3>1, <1>1 DEF Harvest, MainTypeOK, MainPC
  <2>3. NetTypeOK' /\ TablesTypeOK' /\ WorkersTypeOK' /\ HistoryTypeOK'
    BY <1>1 DEF Harvest, NetTypeOK, TablesTypeOK, WorkersTypeOK,
         HistoryTypeOK, tables, locals
  <2> QED
    BY <2>1, <2>2, <2>3
<1>2. ASSUME NEW f \in Fds, AcceptOne(f) PROVE TypeOK'
  <2>1. /\ born + 1 \in Socks
        /\ born' \in 0 .. MaxSock
        /\ fdtab' \in [Fds -> 0 .. MaxSock]
    BY <1>2, OpenFdType DEF AcceptOne
  <2>2. SocketsTypeOK'
    BY <1>2, <2>1 DEF AcceptOne, SocketsTypeOK
  <2>3. NetTypeOK'
    BY <1>2, <2>1 DEF AcceptOne, NetTypeOK
  <2>4. MainTypeOK'
    BY <1>2, <2>1 DEF AcceptOne, AcceptNext, MainTypeOK, MainPC, Event, EventId
  <2>5. TablesTypeOK' /\ WorkersTypeOK' /\ HistoryTypeOK'
    BY <1>2 DEF AcceptOne, TablesTypeOK, WorkersTypeOK, HistoryTypeOK, tables,
         locals
  <2> QED
    BY <2>2, <2>3, <2>4, <2>5
<1>3. CASE AcceptEnd \/ AcceptInval
  <2>1. NetTypeOK'
    BY <1>3 DEF AcceptEnd, AcceptInval, NetTypeOK, net
  <2>2. MainTypeOK'
    BY <1>3 DEF AcceptEnd, AcceptInval, MainTypeOK, MainPC
  <2>3. SocketsTypeOK' /\ TablesTypeOK' /\ WorkersTypeOK' /\ HistoryTypeOK'
    BY <1>3 DEF AcceptEnd, AcceptInval, SocketsTypeOK, TablesTypeOK,
         WorkersTypeOK, HistoryTypeOK, tables, locals
  <2> QED
    BY <2>1, <2>2, <2>3
<1>4. ASSUME NEW e \in batch, Dispatch(e) PROVE TypeOK'
  <2>1. MainTypeOK'
    BY <1>4 DEF Dispatch, MainTypeOK, MainPC, Event, EventId
  <2>2. SocketsTypeOK' /\ NetTypeOK' /\ TablesTypeOK' /\ WorkersTypeOK'
        /\ HistoryTypeOK'
    BY <1>4 DEF Dispatch, SocketsTypeOK, NetTypeOK, TablesTypeOK,
         WorkersTypeOK, HistoryTypeOK, net, tables, locals
  <2> QED
    BY <2>1, <2>2
<1>5. CASE MainClose
  <2>1. cur.so \in Fds
    BY <1>5 DEF MainClose, MainTypeOK, Event
  <2>2. SocketsTypeOK' /\ TablesTypeOK'
        /\ dangling' \subseteq Workers /\ astray' \in BOOLEAN
    BY <1>5, <2>1, CloseSocketType DEF MainClose
  <2>3. MainTypeOK'
    BY <1>5, EventDoneType DEF MainClose
  <2>4. NetTypeOK' /\ WorkersTypeOK' /\ HistoryTypeOK'
    BY <1>5, <2>2 DEF MainClose, NetTypeOK, WorkersTypeOK, HistoryTypeOK, net,
         locals
  <2> QED
    BY <2>2, <2>3, <2>4
<1>6. CASE MainEnqueue
  <2>1. TablesTypeOK'
    <3>1. [so |-> cur.so, sock |-> cur.sock] \in Item
      BY <1>6 DEF MainEnqueue, MainTypeOK, Event, Item
    <3> QED
      BY <1>6, <3>1 DEF MainEnqueue, TablesTypeOK, tables
  <2>2. MainTypeOK'
    BY <1>6, EventDoneType DEF MainEnqueue
  <2>3. SocketsTypeOK' /\ NetTypeOK' /\ WorkersTypeOK' /\ HistoryTypeOK'
    BY <1>6 DEF MainEnqueue, SocketsTypeOK, NetTypeOK, WorkersTypeOK,
         HistoryTypeOK, net, locals
  <2> QED
    BY <2>1, <2>2, <2>3
<1>7. CASE Deny \/ ConnectFail
  <2>1. SocketsTypeOK'
    BY <1>7, CloseFdsType DEF Deny, ConnectFail
  <2>2. MainTypeOK'
    BY <1>7, EventDoneType DEF Deny, ConnectFail
  <2>3. HistoryTypeOK'
    BY <1>7 DEF Deny, ConnectFail, HistoryTypeOK, Astray, IsOpen
  <2>4. NetTypeOK' /\ TablesTypeOK' /\ WorkersTypeOK'
    BY <1>7 DEF Deny, ConnectFail, NetTypeOK, TablesTypeOK, WorkersTypeOK, net,
         tables, locals
  <2> QED
    BY <2>1, <2>2, <2>3, <2>4
<1>8. ASSUME NEW f \in Fds, OpenDst(f) PROVE TypeOK'
  <2>1. /\ born' \in 0 .. MaxSock
        /\ fdtab' \in [Fds -> 0 .. MaxSock]
    BY <1>8, OpenFdType DEF OpenDst
  <2>2. SocketsTypeOK' /\ NetTypeOK'
    BY <1>8, <2>1 DEF OpenDst, SocketsTypeOK, NetTypeOK, net
  <2>3. MainTypeOK'
    BY <1>8 DEF OpenDst, MainTypeOK, MainPC
  <2>4. TablesTypeOK' /\ WorkersTypeOK' /\ HistoryTypeOK'
    BY <1>8 DEF OpenDst, TablesTypeOK, WorkersTypeOK, HistoryTypeOK, tables,
         locals
  <2> QED
    BY <2>2, <2>3, <2>4
<1>9. CASE DidAccept
  <2>1. cur.so \in Fds /\ cur.sock \in Socks /\ mdst \in Fds
    BY <1>9 DEF DidAccept, MainTypeOK, Event
  <2>2. SocketsTypeOK'
    BY <1>9, MonitorType DEF DidAccept, SocketsTypeOK
  <2>3. TablesTypeOK'
    BY <1>9, <2>1 DEF DidAccept, TablesTypeOK
  <2>4. MainTypeOK'
    BY <1>9, EventDoneType DEF DidAccept
  <2>5. partner' \in [Socks -> 0 .. MaxSock]
    BY <1>9, <2>1, ConstFacts DEF DidAccept, SocketsTypeOK, HistoryTypeOK
  <2>6. HistoryTypeOK'
    BY <1>9, <2>5 DEF DidAccept, HistoryTypeOK, Astray, IsOpen
  <2>7. NetTypeOK' /\ WorkersTypeOK'
    BY <1>9 DEF DidAccept, NetTypeOK, WorkersTypeOK, net, locals
  <2> QED
    BY <2>2, <2>3, <2>4, <2>6, <2>7
<1> QED
  BY <1>1, <1>2, <1>3, <1>4, <1>5, <1>6, <1>7, <1>8, <1>9 DEF MainStep

LEMMA WorkerType ==
  ASSUME TypeOK, NEW w \in Workers, WorkerStep(w)
  PROVE  TypeOK'
<1> USE DEF TypeOK
<1>1. CASE Take(w)
  <2>1. TablesTypeOK'
    BY <1>1 DEF Take, TakeItem, TablesTypeOK, tables
  <2>2. Head(pool) \in Item
    <3>1. pool \in Seq(Item) /\ pool # <<>>
      BY <1>1 DEF Take, TakeItem, TablesTypeOK
    <3> QED
      BY <3>1
  <2>3. WorkersTypeOK'
    BY <1>1, <2>2, ConstFacts
    DEF Item, Take, TakeItem, GoTo, WorkersTypeOK, WorkerPC
  <2>4. SocketsTypeOK' /\ NetTypeOK' /\ MainTypeOK' /\ HistoryTypeOK'
    BY <1>1 DEF Take, SocketsTypeOK, NetTypeOK, MainTypeOK, HistoryTypeOK, net,
         main
  <2> QED
    BY <2>1, <2>3, <2>4
<1>2. CASE Lookup(w)
  <2>1. SocketsTypeOK'
    BY <1>2, CloseFdsType DEF Lookup, SocketsTypeOK
  <2>2. WorkersTypeOK'
    BY <1>2 DEF Lookup, GoTo, WorkersTypeOK, WorkerPC
  <2>3. HistoryTypeOK'
    BY <1>2 DEF Lookup, HistoryTypeOK, Astray, IsOpen
  <2>4. NetTypeOK' /\ TablesTypeOK' /\ MainTypeOK'
    BY <1>2 DEF Lookup, NetTypeOK, TablesTypeOK, MainTypeOK, net, tables, main
  <2> QED
    BY <2>1, <2>2, <2>3, <2>4
<1>3. CASE Deref(w)
  <2>1. WorkersTypeOK'
    BY <1>3 DEF Deref, GoTo, WorkersTypeOK, WorkerPC
  <2>2. SocketsTypeOK' /\ NetTypeOK' /\ TablesTypeOK' /\ MainTypeOK'
        /\ HistoryTypeOK'
    BY <1>3 DEF Deref, SocketsTypeOK, NetTypeOK, TablesTypeOK, MainTypeOK,
         HistoryTypeOK, net, tables, main
  <2> QED
    BY <2>1, <2>2
<1>4. CASE Recv(w)
  <2> DEFINE s == fdtab[so[w]]
  <2>1. so[w] \in Fds /\ s \in 0 .. MaxSock
    BY <1>4 DEF Recv, WorkersTypeOK, SocketsTypeOK
  <2>2. s # NoSock => s \in Socks
    BY <2>1, ConstFacts
  <2>3. CASE s # NoSock /\ RecvFrom(w, s) /\ UNCHANGED on
    <3>1. NetTypeOK'
      BY <1>4, <2>2, <2>3, RecvFromType DEF Recv, NetTypeOK, net
    <3>2. WorkersTypeOK'
      BY <1>4, <2>2, <2>3, RecvFromType DEF Recv, WorkersTypeOK, WorkerPC
    <3> QED
      BY <1>4, <3>1, <3>2 DEF Recv, SocketsTypeOK, TablesTypeOK, MainTypeOK,
           HistoryTypeOK, Astray, IsOpen, tables, main
  <2>4. CASE GoTo(w, "close") /\ UNCHANGED <<read, buf, on>>
    BY <1>4, <2>4 DEF Recv, GoTo, WorkersTypeOK, WorkerPC, NetTypeOK,
         SocketsTypeOK, TablesTypeOK, MainTypeOK, HistoryTypeOK, Astray, IsOpen,
         net, tables, main
  <2>5. CASE /\ s # NoSock
             /\ GoTo(w, "recving")
             /\ on' = [on EXCEPT ![w] = s]
             /\ UNCHANGED <<read, buf>>
    <3>1. WorkersTypeOK'
      BY <1>4, <2>1, <2>2, <2>5 DEF Recv, GoTo, WorkersTypeOK, WorkerPC
    <3> QED
      BY <1>4, <2>5, <3>1 DEF Recv, NetTypeOK, SocketsTypeOK, TablesTypeOK,
           MainTypeOK, HistoryTypeOK, Astray, IsOpen, net, tables, main
  <2> QED
    BY <1>4, <2>3, <2>4, <2>5 DEF Recv
<1>5. CASE RecvDone(w)
  <2>1. on[w] \in Socks
    BY <1>5 DEF RecvDone, WorkersTypeOK
  <2>2. NetTypeOK'
    BY <1>5, <2>1, RecvFromType DEF RecvDone, NetTypeOK, net
  <2>3. WorkersTypeOK'
    BY <1>5, <2>1, RecvFromType, ConstFacts DEF RecvDone, WorkersTypeOK,
       WorkerPC
  <2> QED
    BY <1>5, <2>2, <2>3 DEF RecvDone, SocketsTypeOK, TablesTypeOK, MainTypeOK,
         HistoryTypeOK, tables, main
<1>6. CASE Block(w) \/ Unblock(w)
  <2>1. SocketsTypeOK'
    BY <1>6, MonitorType DEF Block, Unblock, SetDstFlag, SocketsTypeOK
  <2>2. WorkersTypeOK'
    BY <1>6 DEF Block, Unblock, SetDstFlag, GoTo, WorkersTypeOK, WorkerPC
  <2> QED
    BY <1>6, <2>1, <2>2 DEF Block, Unblock, SetDstFlag, NetTypeOK, TablesTypeOK,
         MainTypeOK, HistoryTypeOK, Astray, IsOpen, net, tables, main
<1>7. CASE Send(w)
  <2> DEFINE s == SockOf(dso[w])
  <2>1. s \in 0 .. MaxSock /\ (s # NoSock => s \in Socks)
    BY ConstFacts DEF SockOf, SocketsTypeOK
  <2>2. CASE GoTo(w, "close") /\ UNCHANGED <<out, on>>
    BY <1>7, <2>2 DEF Send, GoTo, WorkersTypeOK, WorkerPC, NetTypeOK,
         SocketsTypeOK, TablesTypeOK, MainTypeOK, HistoryTypeOK, Astray, IsOpen,
         net, tables, main
  <2>3. CASE /\ s # NoSock
             /\ Delivered(w, s)
             /\ GoTo(w, "unblock")
             /\ UNCHANGED on
    <3>1. NetTypeOK'
      BY <1>7, <2>1, <2>3, DeliveredType DEF Send, NetTypeOK, net
    <3>2. WorkersTypeOK'
      BY <1>7, <2>3 DEF Send, GoTo, WorkersTypeOK, WorkerPC
    <3> QED
      BY <1>7, <3>1, <3>2 DEF Send, SocketsTypeOK, TablesTypeOK, MainTypeOK,
           HistoryTypeOK, Astray, IsOpen, tables, main
  <2>4. CASE /\ s # NoSock
             /\ on' = [on EXCEPT ![w] = s]
             /\ GoTo(w, "sending")
             /\ UNCHANGED out
    <3>1. WorkersTypeOK'
      BY <1>7, <2>1, <2>4 DEF Send, GoTo, WorkersTypeOK, WorkerPC
    <3> QED
      BY <1>7, <2>4, <3>1 DEF Send, NetTypeOK, SocketsTypeOK, TablesTypeOK,
           MainTypeOK, HistoryTypeOK, Astray, IsOpen, net, tables, main
  <2> QED
    BY <1>7, <2>2, <2>3, <2>4 DEF Send
<1>8. CASE SendDone(w)
  <2>1. on[w] \in Socks
    BY <1>8 DEF SendDone, WorkersTypeOK
  <2>2. NetTypeOK'
    BY <1>8, <2>1, DeliveredType DEF SendDone, NetTypeOK, net
  <2>3. WorkersTypeOK'
    BY <1>8, ConstFacts DEF SendDone, GoTo, WorkersTypeOK, WorkerPC
  <2> QED
    BY <1>8, <2>2, <2>3 DEF SendDone, SocketsTypeOK, TablesTypeOK, MainTypeOK,
         HistoryTypeOK, tables, main
<1>9. CASE Rearm(w)
  <2>1. SocketsTypeOK'
    BY <1>9, CloseFdsType, MonitorType DEF Rearm, RearmInterest, SocketsTypeOK
  <2>2. WorkersTypeOK'
    BY <1>9, FinishType DEF Rearm
  <2> QED
    BY <1>9, <2>1, <2>2 DEF Rearm, NetTypeOK, TablesTypeOK, MainTypeOK,
         HistoryTypeOK, Astray, IsOpen, net, tables, main
<1>10. CASE WorkerClose(w)
  <2>1. so[w] \in Fds
    BY <1>10 DEF WorkerClose, WorkersTypeOK
  <2>2. SocketsTypeOK' /\ TablesTypeOK'
        /\ dangling' \subseteq Workers /\ astray' \in BOOLEAN
    BY <1>10, <2>1, CloseSocketType DEF WorkerClose
  <2>3. WorkersTypeOK'
    BY <1>10, FinishType DEF WorkerClose
  <2> QED
    BY <1>10, <2>2, <2>3 DEF WorkerClose, NetTypeOK, MainTypeOK, HistoryTypeOK,
         net, main
<1> QED
  BY <1>1, <1>2, <1>3, <1>4, <1>5, <1>6, <1>7, <1>8, <1>9, <1>10
  DEF WorkerStep

LEMMA TypeOKStep ==
  ASSUME TypeOK, [Next]_vars
  PROVE  TypeOK'
<1>1. CASE ClientConnect \/ \E s \in Socks : Peer(s)
  BY <1>1, EnvType
<1>2. CASE MainStep
  BY <1>2, MainType
<1>3. ASSUME NEW w \in Workers, WorkerStep(w) PROVE TypeOK'
  BY <1>3, WorkerType
<1>4. CASE UNCHANGED vars
  BY <1>4 DEF vars, net, tables, main, locals, TypeOK, SocketsTypeOK,
       NetTypeOK, TablesTypeOK, MainTypeOK, WorkersTypeOK, HistoryTypeOK
<1> QED
  BY <1>1, <1>2, <1>3, <1>4 DEF Next

\* Type correctness: every number, socket, queue entry and program counter
\* keeps its type, however the threads and the peers interleave.
THEOREM TypeCorrect == Spec => []TypeOK
<1>1. Init => TypeOK
  BY InitTypeOK
<1>2. TypeOK /\ [Next]_vars => TypeOK'
  BY TypeOKStep
<1> QED
  BY <1>1, <1>2, PTL DEF Spec

-----------------------------------------------------------------------------
(* The tables agree and no descriptor leaks, whatever the threads do.      *)

\* Only two operations write the tables.
TablesFrame == UNCHANGED <<request_so, tunnel_so, so_map>>

LEMMA TablesSteps ==
  ASSUME [Next]_vars
  PROVE  \/ TablesFrame
         \/ MainClose
         \/ DidAccept
         \/ \E w \in Workers : WorkerClose(w)
BY DEF Next, vars, MainStep, WorkerStep, TablesFrame, tables, ClientConnect,
   Peer, Harvest, AcceptOne, AcceptEnd, AcceptInval, Dispatch, MainEnqueue,
   Deny, ConnectFail, OpenDst, Take, Lookup, Deref, Recv, RecvDone, Block, Send,
   SendDone, Unblock, SetDstFlag, Rearm

\* close_socket erases the same numbers from all three tables.
LEMMA CloseSocketTables ==
  ASSUME TypeOK, TablesAgree, NEW f \in Fds, NEW s, CloseSocket(f, s)
  PROVE  TablesAgree'
<1> SUFFICES ASSUME NEW g \in Fds
             PROVE  (so_map[g] # None <=> IsMaintaining(g))'
  BY DEF TablesAgree
<1>1. so_map[g] # None <=> IsMaintaining(g)
  BY DEF TablesAgree
<1>2. so_map'[g] = IF g \in Pair(f) THEN None ELSE so_map[g]
  BY DEF CloseSocket, Unmapped
<1>3. IsMaintaining(g)' <=> IsMaintaining(g) /\ g \notin Pair(f)
  BY DEF CloseSocket, Unregistered, IsMaintaining
<1> QED
  BY <1>1, <1>2, <1>3

LEMMA TablesAgreeStep ==
  ASSUME TypeOK, TablesAgree, [Next]_vars
  PROVE  TablesAgree'
<1>1. CASE TablesFrame
  BY <1>1 DEF TablesFrame, TablesAgree, IsMaintaining
<1>2. CASE MainClose
  <2>1. cur.so \in Fds
    BY <1>2 DEF MainClose, TypeOK, MainTypeOK, Event
  <2> QED
    BY <1>2, <2>1, CloseSocketTables DEF MainClose
<1>3. CASE DidAccept
  <2>1. cur.so \in Fds /\ mdst \in Fds
    BY <1>3 DEF DidAccept, TypeOK, MainTypeOK, Event
  <2>2. so_map' = [so_map EXCEPT ![cur.so] = mdst, ![mdst] = cur.so]
        /\ request_so' = request_so \cup {cur.so}
        /\ tunnel_so' = tunnel_so \cup {mdst}
    BY <1>3 DEF DidAccept
  <2> QED
    BY <2>1, <2>2, ConstFacts
    DEF TablesAgree, IsMaintaining, TypeOK, TablesTypeOK
<1>4. ASSUME NEW w \in Workers, WorkerClose(w) PROVE TablesAgree'
  <2>1. so[w] \in Fds
    BY <1>4 DEF WorkerClose, TypeOK, WorkersTypeOK
  <2> QED
    BY <1>4, <2>1, CloseSocketTables DEF WorkerClose
<1> QED
  BY <1>1, <1>2, <1>3, <1>4, TablesSteps

\* is_maintaining_socket and so_map_ always agree.
THEOREM TablesAlwaysAgree == Spec => []TablesAgree
<1>1. Init => TablesAgree
  BY DEF Init, TablesAgree, IsMaintaining
<1>2. TypeOK /\ TablesAgree /\ [Next]_vars => TablesAgree'
  BY TablesAgreeStep
<1> QED
  BY <1>1, <1>2, TypeCorrect, PTL DEF Spec

\* A number that is open and not yet the main loop's stays known.
LEMMA NoLeakKept ==
  ASSUME NoLeak,
         \A f \in Fds : IsOpen(f)' => IsOpen(f) \/ f \in HeldByMain',
         \A f \in Fds : IsOpen(f)' /\ IsMaintaining(f) => IsMaintaining(f)',
         \A f \in Fds : IsOpen(f)' /\ f \in HeldByMain =>
                          IsMaintaining(f)' \/ f \in HeldByMain'
  PROVE  NoLeak'
BY DEF NoLeak

LEMMA CloseSocketNoLeak ==
  ASSUME TypeOK, NoLeak, NEW f \in Fds, NEW s, CloseSocket(f, s),
         \A g \in Fds : g \in HeldByMain => g \in HeldByMain'
  PROVE  NoLeak'
<1>1. \A g \in Fds : IsOpen(g)' <=> IsOpen(g) /\ g \notin Pair(f)
  BY DEF CloseSocket, CloseFds, FdsClosed, IsOpen
<1>2. \A g \in Fds : IsMaintaining(g)' <=> IsMaintaining(g) /\ g \notin Pair(f)
  BY DEF CloseSocket, Unregistered, IsMaintaining
<1> QED
  BY <1>1, <1>2, NoLeakKept

LEMMA NoLeakStep ==
  ASSUME TypeOK, NoLeak, [Next]_vars
  PROVE  NoLeak'
<1>1. ASSUME UNCHANGED <<fdtab, request_so, tunnel_so, batch, cur, mdst, mpc>>
      PROVE  NoLeak'
  BY <1>1 DEF NoLeak, IsOpen, IsMaintaining, HeldByMain, Accepted
<1>2. CASE Harvest
  <2>1. \A f \in Fds : f \in HeldByMain => f \in HeldByMain'
    BY <1>2 DEF Harvest, HeldByMain, Accepted, TypeOK, MainTypeOK
  <2> QED
    BY <1>2, <2>1, NoLeakKept DEF Harvest, IsOpen, IsMaintaining, tables
<1>3. ASSUME NEW f \in Fds, AcceptOne(f) PROVE NoLeak'
  <2>1. f \in HeldByMain'
    <3> DEFINE e == [so |-> f, sock |-> born + 1, event |-> "ACCEPT"]
    <3>1. e \in Accepted'
      BY <1>3 DEF AcceptOne, Accepted
    <3>2. e.so = f
      OBVIOUS
    <3> QED
      BY <3>1, <3>2 DEF HeldByMain
  <2>2. \A g \in Fds : g \in HeldByMain => g \in HeldByMain'
    BY <1>3 DEF AcceptOne, AcceptNext, HeldByMain, Accepted
  <2>3. \A g \in Fds : g # f => (IsOpen(g)' <=> IsOpen(g))
    BY <1>3 DEF AcceptOne, OpenFd, IsOpen, TypeOK, SocketsTypeOK
  <2> QED
    BY <1>3, <2>1, <2>2, <2>3, NoLeakKept DEF AcceptOne, IsMaintaining, tables
<1>4. CASE AcceptEnd \/ AcceptInval
  <2>1. \A g \in Fds : g \in HeldByMain => g \in HeldByMain'
    BY <1>4 DEF AcceptEnd, AcceptInval, HeldByMain, Accepted
  <2> QED
    BY <1>4, <2>1, NoLeakKept DEF AcceptEnd, AcceptInval, IsOpen, IsMaintaining,
       tables
<1>5. ASSUME NEW e \in batch, Dispatch(e) PROVE NoLeak'
  <2>1. \A g \in Fds : g \in HeldByMain => g \in HeldByMain'
    BY <1>5 DEF Dispatch, HeldByMain, Accepted
  <2> QED
    BY <1>5, <2>1, NoLeakKept DEF Dispatch, IsOpen, IsMaintaining, tables
<1>6. CASE MainClose
  <2>1. cur.so \in Fds
    BY <1>6 DEF MainClose, TypeOK, MainTypeOK, Event
  <2>2. \A g \in Fds : g \in HeldByMain => g \in HeldByMain'
    BY <1>6 DEF MainClose, EventDone, HeldByMain, Accepted
  <2> QED
    BY <1>6, <2>1, <2>2, CloseSocketNoLeak DEF MainClose
<1>7. CASE MainEnqueue
  <2>1. \A g \in Fds : g \in HeldByMain => g \in HeldByMain'
    BY <1>7 DEF MainEnqueue, EventDone, HeldByMain, Accepted
  <2> QED
    BY <1>7, <2>1, NoLeakKept DEF MainEnqueue, IsOpen, IsMaintaining, tables
<1>8. CASE Deny \/ ConnectFail
  <2>1. \A g \in Fds : IsOpen(g)' => IsOpen(g)
    <3>1. PICK S : CloseFds(S)
      BY <1>8 DEF Deny, ConnectFail
    <3> QED
      BY <3>1 DEF CloseFds, IsOpen
  <2>2. \A g \in Fds : g \in HeldByMain /\ IsOpen(g)' => g \in HeldByMain'
    BY <1>8 DEF Deny, ConnectFail, CloseFds, EventDone, HeldByMain, Accepted,
       IsOpen
  <2> QED
    BY <1>8, <2>1, <2>2, NoLeakKept DEF Deny, ConnectFail, IsMaintaining, tables
<1>9. ASSUME NEW f \in Fds, OpenDst(f) PROVE NoLeak'
  <2>1. f \in HeldByMain'
    BY <1>9 DEF OpenDst, HeldByMain
  <2>2. \A g \in Fds : g \in HeldByMain => g \in HeldByMain'
    BY <1>9 DEF OpenDst, HeldByMain, Accepted
  <2>3. \A g \in Fds : g # f => (IsOpen(g)' <=> IsOpen(g))
    BY <1>9 DEF OpenDst, OpenFd, IsOpen, TypeOK, SocketsTypeOK
  <2> QED
    BY <1>9, <2>1, <2>2, <2>3, NoLeakKept DEF OpenDst, IsMaintaining, tables
<1>10. CASE DidAccept
  <2>1. \A g \in Fds : g \in HeldByMain =>
                         IsMaintaining(g)' \/ g \in HeldByMain'
    BY <1>10 DEF DidAccept, EventDone, HeldByMain, Accepted, IsMaintaining
  <2> QED
    BY <1>10, <2>1, NoLeakKept DEF DidAccept, IsOpen, IsMaintaining
<1>11. ASSUME NEW w \in Workers, WorkerStep(w) PROVE NoLeak'
  <2>1. CASE WorkerClose(w)
    <3>1. so[w] \in Fds
      BY <2>1 DEF WorkerClose, TypeOK, WorkersTypeOK
    <3>2. \A g \in Fds : g \in HeldByMain => g \in HeldByMain'
      BY <2>1 DEF WorkerClose, HeldByMain, Accepted, main
    <3> QED
      BY <2>1, <3>1, <3>2, CloseSocketNoLeak DEF WorkerClose
  <2>2. CASE Lookup(w) \/ Rearm(w)
    <3>1. \A g \in Fds : IsOpen(g)' => IsOpen(g)
      BY <2>2 DEF Lookup, Rearm, CloseFds, IsOpen
    <3>2. \A g \in Fds : g \in HeldByMain => g \in HeldByMain'
      BY <2>2 DEF Lookup, Rearm, HeldByMain, Accepted, main
    <3> QED
      BY <2>2, <3>1, <3>2, NoLeakKept DEF Lookup, Rearm, IsMaintaining, tables
  <2>3. CASE Take(w) \/ Deref(w) \/ Recv(w) \/ RecvDone(w) \/ Block(w)
             \/ Send(w) \/ SendDone(w) \/ Unblock(w)
    BY <1>1, <2>3 DEF Take, Deref, Recv, RecvDone, Block, Send, SendDone,
       Unblock, SetDstFlag, tables, main
  <2> QED
    BY <1>11, <2>1, <2>2, <2>3 DEF WorkerStep
<1>12. CASE ClientConnect \/ (\E s \in Socks : Peer(s)) \/ UNCHANGED vars
  BY <1>1, <1>12 DEF ClientConnect, Peer, vars, tables, main
<1> QED
  BY <1>2, <1>3, <1>4, <1>5, <1>6, <1>7, <1>8, <1>9, <1>10, <1>11, <1>12
  DEF Next, MainStep

\* No descriptor is ever lost, not even when the threads close numbers that
\* have been given to other sockets in the meantime.
THEOREM NothingLeaks == Spec => []NoLeak
<1>1. Init => NoLeak
  BY DEF Init, NoLeak, IsOpen
<1>2. TypeOK /\ NoLeak /\ [Next]_vars => NoLeak'
  BY NoLeakStep
<1> QED
  BY <1>1, <1>2, TypeCorrect, PTL DEF Spec

-----------------------------------------------------------------------------
(* PairsMatch: while no number has gone astray, so_map_ pairs the sockets   *)
(* that were registered together.  The inductive invariant is PairsInv.     *)


\* The two facts of PairsInv that hold of sockets and tokens, together.
Good == PairsMatch /\ HeldFresh /\ TokensRegistered

LEMMA InitPairsInv == Init => PairsInv
<1> SUFFICES ASSUME Init PROVE PairsInv
  OBVIOUS
<1>1. TypeOK
  BY InitTypeOK
<1>2. TablesAgree /\ NoLeak /\ PairsMatch
  BY DEF Init, TablesAgree, NoLeak, PairsMatch, IsMaintaining, IsOpen, Mapped
<1>3. SocketsDistinct
  BY DEF Init, SocketsDistinct, NoSock
<1>4. HeldFresh /\ TokensRegistered
  BY DEF Init, HeldFresh, TokensRegistered, Accepted
<1> QED
  BY <1>1, <1>2, <1>3, <1>4 DEF PairsInv

-----------------------------------------------------------------------------
(* The kernel names every socket once.                                     *)

LEMMA SocketsDistinctStep ==
  ASSUME TypeOK, SocketsDistinct, [Next]_vars
  PROVE  SocketsDistinct'
<1>1. ASSUME UNCHANGED born,
             \A f \in Fds : fdtab'[f] \in {NoSock, fdtab[f]}
      PROVE  SocketsDistinct'
  <2>1. born \in Nat /\ born' = born
    BY <1>1, ConstFacts DEF TypeOK, NetTypeOK
  <2>2. \A f \in Fds : fdtab'[f] <= born'
    BY <1>1, <2>1 DEF SocketsDistinct, NoSock
  <2>3. \A f, g \in Fds : fdtab'[f] = fdtab'[g] /\ fdtab'[f] # NoSock => f = g
    BY <1>1 DEF SocketsDistinct
  <2> QED
    BY <2>2, <2>3 DEF SocketsDistinct
<1>2. ASSUME NEW f \in Fds, OpenFd(f) PROVE SocketsDistinct'
  BY <1>2, ConstFacts DEF OpenFd, Free, SocketsDistinct, TypeOK, SocketsTypeOK,
     NetTypeOK, NoSock
<1>3. ASSUME NEW S, CloseFds(S), UNCHANGED born PROVE SocketsDistinct'
  BY <1>1, <1>3 DEF CloseFds
<1>4. ASSUME NEW f, NEW s, CloseSocket(f, s), UNCHANGED born
      PROVE  SocketsDistinct'
  BY <1>3, <1>4 DEF CloseSocket
<1>5. CASE MainStep
  BY <1>1, <1>2, <1>3, <1>4, <1>5
  DEF MainStep, Harvest, AcceptOne, AcceptEnd, AcceptInval, Dispatch, MainClose,
      MainEnqueue, Deny, ConnectFail, OpenDst, DidAccept
<1>6. ASSUME NEW w \in Workers, WorkerStep(w) PROVE SocketsDistinct'
  BY <1>1, <1>3, <1>4, <1>6
  DEF WorkerStep, Take, Lookup, Deref, Recv, RecvDone, Block, Send, SendDone,
      Unblock, SetDstFlag, Rearm, WorkerClose
<1>7. CASE ClientConnect \/ (\E s \in Socks : Peer(s)) \/ UNCHANGED vars
  BY <1>1, <1>7 DEF ClientConnect, Peer, vars
<1> QED
  BY <1>5, <1>6, <1>7 DEF Next

-----------------------------------------------------------------------------
(* What closing does to pairs and to the main loop's own numbers.          *)

\* A number of the main loop's names a socket that was never registered.
LEMMA HeldIsFresh ==
  ASSUME HeldFresh, NEW g \in HeldByMain
  PROVE  \E s : Fresh(g, s)
BY DEF HeldFresh, HeldByMain, Accepted

\* A number that stands for a registered socket but is in no table any more is
\* already closed.
LEMMA UnmappedIsClosed ==
  ASSUME TablesAgree, NoLeak, HeldFresh, NEW f \in Fds, NEW s,
         ~Mapped(f), ~Astray(f, s), partner[s] # NoSock
  PROVE  ~IsOpen(f)
<1> SUFFICES ASSUME IsOpen(f) PROVE FALSE
  OBVIOUS
<1>1. fdtab[f] = s
  BY DEF Astray
<1>2. f \in HeldByMain
  BY DEF NoLeak, TablesAgree, Mapped
<1>3. PICK x : Fresh(f, x)
  BY <1>2, HeldIsFresh
<1> QED
  BY <1>1, <1>3 DEF Fresh

\* close_socket leaves the main loop's own numbers alone.
LEMMA CloseSocketFresh ==
  ASSUME TypeOK, PairsMatch, ~astray', NEW f \in Fds, NEW s, CloseSocket(f, s),
         partner[s] # NoSock, UNCHANGED partner,
         NEW h \in Fds, NEW x, Fresh(h, x)
  PROVE  Fresh(h, x)'
<1>1. ~astray /\ ~Astray(f, s)
  BY DEF CloseSocket, TypeOK, HistoryTypeOK, Astray, IsOpen
<1>2. h # f
  BY <1>1 DEF Fresh, Astray, IsOpen
<1>3. h # so_map[f]
  <2> SUFFICES ASSUME h = so_map[f] PROVE FALSE
    OBVIOUS
  <2>1. Mapped(f)
    BY ConstFacts DEF Mapped
  <2>2. so_map[h] = f
    BY <1>1, <2>1 DEF PairsMatch
  <2> QED
    BY <2>2, ConstFacts DEF Fresh, Mapped
<1>4. h \notin Pair(f)
  BY <1>2, <1>3 DEF Pair
<1> QED
  BY <1>4 DEF CloseSocket, CloseFds, FdsClosed, Unmapped, Fresh, Mapped

\* close_socket removes whole pairs.
LEMMA CloseSocketPairs ==
  ASSUME TypeOK, PairsMatch, ~astray', NEW f \in Fds, NEW s, CloseSocket(f, s),
         UNCHANGED partner
  PROVE  PairsMatch'
<1>1. ~astray
  BY DEF CloseSocket, TypeOK, HistoryTypeOK, Astray, IsOpen
<1> SUFFICES ASSUME NEW h \in Fds, Mapped(h)'
             PROVE  LET g == so_map[h] IN
                    (/\ g # h /\ so_map[g] = h
                     /\ h \in request_so <=> h \notin tunnel_so
                     /\ h \in request_so <=> g \in tunnel_so
                     /\ IsOpen(h) /\ IsOpen(g)
                     /\ partner[fdtab[h]] = fdtab[g])'
  BY DEF PairsMatch
<1> DEFINE g == so_map[h]
<1>2. so_map' = [k \in Fds |-> IF k \in Pair(f) THEN None ELSE so_map[k]]
  BY DEF CloseSocket, Unmapped
<1>3. h \notin Pair(f) /\ Mapped(h) /\ so_map'[h] = g
  BY <1>2 DEF Mapped
<1>4. /\ g # h /\ so_map[g] = h
      /\ h \in request_so <=> h \notin tunnel_so
      /\ h \in request_so <=> g \in tunnel_so
      /\ IsOpen(h) /\ IsOpen(g)
      /\ partner[fdtab[h]] = fdtab[g]
  BY <1>1, <1>3 DEF PairsMatch
<1>5. g \in Fds
  BY <1>4 DEF IsOpen
<1>6. g # f
  BY <1>3, <1>4, <1>5, ConstFacts DEF Pair
<1>7. g # so_map[f]
  <2> SUFFICES ASSUME g = so_map[f] PROVE FALSE
    OBVIOUS
  <2>1. so_map[g] = f
    BY <1>1, <1>5, ConstFacts DEF PairsMatch, Mapped
  <2> QED
    BY <2>1, <1>3, <1>4, ConstFacts DEF Pair
<1>8. g \notin Pair(f)
  BY <1>6, <1>7 DEF Pair
<1>9. so_map'[g] = h
  BY <1>2, <1>4, <1>5, <1>8
<1>10. /\ fdtab'[h] = fdtab[h] /\ fdtab'[g] = fdtab[g]
  BY <1>3, <1>5, <1>8 DEF CloseSocket, CloseFds, FdsClosed
<1>11. /\ h \in request_so' <=> h \in request_so
       /\ h \in tunnel_so' <=> h \in tunnel_so
       /\ g \in tunnel_so' <=> g \in tunnel_so
  BY <1>3, <1>8 DEF CloseSocket, Unregistered
<1> QED
  BY <1>3, <1>4, <1>5, <1>9, <1>10, <1>11 DEF IsOpen

-----------------------------------------------------------------------------
(* Every step preserves the three facts, as long as no number goes astray. *)

LEMMA AstrayForever ==
  ASSUME TypeOK, [Next]_vars, ~astray'
  PROVE  ~astray
<1>1. ASSUME NEW b, b \in BOOLEAN, astray' = (astray \/ b) PROVE ~astray
  BY <1>1
<1>2. ASSUME UNCHANGED astray PROVE ~astray
  BY <1>2
<1>3. \A f, s : Astray(f, s) \in BOOLEAN
  BY DEF Astray, IsOpen
<1>4. ASSUME NEW f, NEW s, CloseSocket(f, s) PROVE ~astray
  BY <1>1, <1>3, <1>4 DEF CloseSocket
<1>5. CASE MainStep
  BY <1>1, <1>2, <1>3, <1>4, <1>5
  DEF MainStep, Harvest, AcceptOne, AcceptEnd, AcceptInval, Dispatch, MainClose,
      MainEnqueue, Deny, ConnectFail, OpenDst, DidAccept
<1>6. ASSUME NEW w \in Workers, WorkerStep(w) PROVE ~astray
  BY <1>1, <1>2, <1>3, <1>4, <1>6
  DEF WorkerStep, Take, Lookup, Deref, Recv, RecvDone, Block, Send, SendDone,
      Unblock, SetDstFlag, Rearm, WorkerClose
<1>7. CASE ClientConnect \/ (\E s \in Socks : Peer(s)) \/ UNCHANGED vars
  BY <1>2, <1>7 DEF ClientConnect, Peer, vars
<1> QED
  BY <1>5, <1>6, <1>7 DEF Next

\* A step that leaves alone the tables, the sockets and what stands for them.
LEMMA GoodFrame ==
  ASSUME Good, ~astray,
         UNCHANGED <<fdtab, born, request_so, tunnel_so, so_map, partner>>
  PROVE  /\ PairsMatch'
         /\ UNCHANGED <<batch, mpc, cur, mdst>> => HeldFresh'
BY DEF Good, PairsMatch, HeldFresh, Fresh, Mapped, IsOpen, Accepted

\* After a close_socket called for a registered socket.
LEMMA CloseSocketGood ==
  ASSUME TypeOK, Good, ~astray', NEW f \in Fds, NEW s \in Socks,
         CloseSocket(f, s), partner[s] # NoSock, UNCHANGED <<born, partner, pool>>
  PROVE  /\ PairsMatch'
         /\ \A h \in Fds : \A x : Fresh(h, x) => Fresh(h, x)'
         /\ \A g \in Fds : ep'[g] # "none" =>
              IsOpen(g)' /\ partner'[fdtab'[g]] # NoSock
<1>1. PairsMatch'
  BY CloseSocketPairs DEF Good
<1>2. \A h \in Fds : \A x : Fresh(h, x) => Fresh(h, x)'
  BY CloseSocketFresh DEF Good
<1>3. ASSUME NEW g \in Fds, ep'[g] # "none"
      PROVE  IsOpen(g)' /\ partner'[fdtab'[g]] # NoSock
  <2>1. g \notin Pair(f) /\ ep[g] # "none" /\ fdtab'[g] = fdtab[g]
    BY <1>3 DEF CloseSocket, CloseFds, FdsClosed
  <2>2. IsOpen(g) /\ partner[fdtab[g]] # NoSock
    BY <2>1 DEF Good, TokensRegistered
  <2> QED
    BY <2>1, <2>2 DEF IsOpen
<1> QED
  BY <1>1, <1>2, <1>3

LEMMA MainGood ==
  ASSUME PairsInv, ~astray, ~astray', Good, MainStep
  PROVE  Good'
<1> USE DEF Good
<1>t. TypeOK /\ TablesAgree /\ NoLeak /\ SocketsDistinct
  BY DEF PairsInv
<1>0. /\ batch \subseteq Event
      /\ mpc \in {"close", "enqueue", "connect", "register"} =>
           cur \in Event /\ cur.so \in Fds /\ cur.sock \in Socks
      /\ mpc = "register" => mdst \in Fds
  BY <1>t DEF TypeOK, MainTypeOK, Event
<1>1. CASE Harvest
  <2>1. PairsMatch'
    BY <1>1, GoodFrame DEF Harvest, tables
  <2>2. batch = {}
    BY <1>1, <1>t DEF Harvest, TypeOK, MainTypeOK
  <2>3. Accepted' = {}
    BY <1>1 DEF Harvest, Accepted
  <2>4. HeldFresh'
    BY <1>1, <2>3 DEF Harvest, HeldFresh
  <2>5. \A e \in batch' : partner[e.sock] # NoSock
    BY <1>1 DEF Harvest, Ready, TokensRegistered
  <2>6. \A f \in Fds : ep'[f] # "none" => ep[f] # "none"
    BY <1>1 DEF Harvest, Disarm, Ready
  <2>7. TokensRegistered'
    BY <1>1, <2>5, <2>6 DEF Harvest, TokensRegistered, IsOpen, locals
  <2> QED
    BY <2>1, <2>4, <2>7
<1>2. ASSUME NEW f \in Fds, AcceptOne(f) PROVE Good'
  <2>0. PICK b : b = born + 1
    OBVIOUS
  <2> DEFINE n == [so |-> f, sock |-> b, event |-> "ACCEPT"]
  <2>1. /\ Free(f) /\ b \in Socks /\ born \in Nat /\ b = born + 1
        /\ fdtab' = [fdtab EXCEPT ![f] = b]
        /\ born' = b
        /\ batch' = batch \cup {n}
        /\ UNCHANGED <<ep, tables, pool, cur, mdst, locals, partner>>
    BY <1>2, <1>t, <2>0, ConstFacts DEF AcceptOne, OpenFd, Socks, TypeOK, NetTypeOK
  <2>2. \A g \in Fds : IsOpen(g) => g # f /\ fdtab'[g] = fdtab[g] /\ IsOpen(g)'
    BY <2>1, <1>t DEF Free, IsOpen, TypeOK, SocketsTypeOK
  <2>3. PairsMatch'
    BY <2>1, <2>2 DEF PairsMatch, Mapped, tables, IsOpen
  <2>4. ~Mapped(f)
    BY <2>1 DEF PairsMatch, Free, IsOpen
  <2>5. partner[b] = NoSock
    BY <2>1 DEF TokensRegistered
  <2>6. Fresh(f, b)'
    BY <2>1, <2>4, <2>5, <1>t, ConstFacts
    DEF Fresh, Mapped, tables, TypeOK, SocketsTypeOK
  <2>7. \A e \in Accepted : e.so # f /\ Fresh(e.so, e.sock)'
    BY <1>0, <2>1, <2>2 DEF HeldFresh, Accepted, Fresh, Mapped, tables, IsOpen,
       Event, Free
  <2>8. Accepted' = Accepted \cup {n}
    BY <2>1 DEF Accepted
  <2>9. HeldFresh'
    BY <1>2, <2>6, <2>7, <2>8 DEF HeldFresh, AcceptOne, AcceptNext
  <2>10. batch' \ Accepted' = batch \ Accepted
    BY <2>1, <2>8 DEF Accepted
  <2>11. \A s \in Socks : s > born' => partner[s] = NoSock
    BY <2>1 DEF TokensRegistered, Socks
  <2>12. TokensRegistered'
    BY <1>2, <2>1, <2>2, <2>10, <2>11 DEF TokensRegistered, AcceptOne, AcceptNext,
       locals
  <2> QED
    BY <2>3, <2>9, <2>12
<1>3. CASE AcceptEnd \/ AcceptInval
  <2>1. /\ mpc' \notin {"close", "enqueue", "connect", "register"}
        /\ UNCHANGED <<fdtab, ep, born, tables, pool, batch, cur, mdst, locals,
                       partner>>
    BY <1>3 DEF AcceptEnd, AcceptInval
  <2>2. PairsMatch'
    BY <2>1, GoodFrame DEF tables
  <2>3. HeldFresh'
    BY <2>1 DEF HeldFresh, Accepted, Fresh, Mapped, tables
  <2>4. TokensRegistered'
    BY <2>1 DEF TokensRegistered, Accepted, IsOpen, locals
  <2> QED
    BY <2>2, <2>3, <2>4
<1>4. ASSUME NEW e \in batch, Dispatch(e) PROVE Good'
  <2>1. /\ e.so \in Fds /\ e.sock \in Socks
        /\ batch' = batch \ {e}
        /\ mpc = "dispatch"
        /\ UNCHANGED <<fdtab, ep, born, tables, pool, mdst, locals, partner>>
    BY <1>4, <1>0 DEF Dispatch, Event
  <2>2. PairsMatch'
    BY <2>1, GoodFrame DEF tables
  <2>3. Accepted' = Accepted \ {e}
    BY <2>1 DEF Accepted
  <2>4. \A a \in Accepted : Fresh(a.so, a.sock)'
    BY <2>1 DEF HeldFresh, Fresh, Mapped, tables
  <2>5. mpc' # "register"
    BY <1>4, <1>0 DEF Dispatch, Event, EventId
  <2>6. ASSUME mpc' = "connect"
        PROVE  e \in Accepted /\ cur' = e
    BY <1>4, <1>0, <2>6 DEF Dispatch, Event, EventId, Accepted
  <2>7. ASSUME e \in Accepted, NEW a \in Accepted, a.so = e.so
        PROVE  a = e
    BY <2>7, <1>0 DEF HeldFresh, Fresh, Accepted, Event
  <2>8. HeldFresh'
    BY <2>3, <2>4, <2>5, <2>6, <2>7 DEF HeldFresh
  <2>9. ASSUME mpc' \in {"close", "enqueue"}
        PROVE  e \in batch \ Accepted /\ cur' = e
    BY <1>4, <1>0, <2>9 DEF Dispatch, Event, EventId, Accepted
  <2>10. batch' \ Accepted' \subseteq batch \ Accepted
    BY <2>1, <2>3
  <2>11. TokensRegistered'
    BY <2>1, <2>9, <2>10 DEF TokensRegistered, IsOpen, locals
  <2> QED
    BY <2>2, <2>8, <2>11
<1>5. CASE MainClose
  <2>1. /\ CloseSocket(cur.so, cur.sock)
        /\ cur.so \in Fds /\ cur.sock \in Socks
        /\ partner[cur.sock] # NoSock
        /\ mpc' \in {"poll", "dispatch"}
        /\ UNCHANGED <<born, pool, batch, locals, partner>>
    BY <1>5, <1>0 DEF MainClose, EventDone, TokensRegistered
  <2>2. /\ PairsMatch'
        /\ \A h \in Fds : \A x : Fresh(h, x) => Fresh(h, x)'
        /\ \A g \in Fds : ep'[g] # "none" =>
             IsOpen(g)' /\ partner'[fdtab'[g]] # NoSock
    BY <2>1, <1>t, CloseSocketGood
  <2>3. HeldFresh'
    BY <1>0, <2>1, <2>2 DEF HeldFresh, Accepted, Event
  <2>4. TokensRegistered'
    BY <2>1, <2>2 DEF TokensRegistered, Accepted, locals
  <2> QED
    BY <2>2, <2>3, <2>4
<1>6. CASE MainEnqueue
  <2>1. /\ partner[cur.sock] # NoSock
        /\ mpc' \in {"poll", "dispatch"}
        /\ pool' = Append(pool, [so |-> cur.so, sock |-> cur.sock])
        /\ UNCHANGED <<fdtab, ep, born, tables, batch, locals, partner>>
    BY <1>6 DEF MainEnqueue, EventDone, TokensRegistered
  <2>2. PairsMatch'
    BY <2>1, GoodFrame DEF tables
  <2>3. HeldFresh'
    BY <2>1 DEF HeldFresh, Accepted, Fresh, Mapped, tables
  <2>4. \A i \in 1 .. Len(pool') : partner[pool'[i].sock] # NoSock
    BY <1>t, <2>1 DEF TokensRegistered, TypeOK, TablesTypeOK
  <2>5. TokensRegistered'
    BY <2>1, <2>4 DEF TokensRegistered, Accepted, IsOpen, locals
  <2> QED
    BY <2>2, <2>3, <2>5
<1>7. CASE Deny \/ ConnectFail
  <2> DEFINE S == IF mpc = "register" THEN {cur.so, mdst} ELSE {cur.so}
  <2>1. /\ CloseFds(S)
        /\ mpc \in {"connect", "register"} /\ mpc' \in {"poll", "dispatch"}
        /\ UNCHANGED <<born, pool, batch, locals, partner, tables>>
    BY <1>7 DEF Deny, ConnectFail, EventDone
  <2>2. \A f \in S : ~Mapped(f)
    BY <2>1 DEF HeldFresh, Fresh
  <2>3. \A f \in Fds : f \notin S => fdtab'[f] = fdtab[f] /\ ep'[f] = ep[f]
    BY <2>1 DEF CloseFds
  <2>4. \A f \in Fds : f \in S => ep'[f] = "none"
    BY <2>1 DEF CloseFds
  <2>5. PairsMatch'
    <3> SUFFICES ASSUME NEW h \in Fds, Mapped(h)
                 PROVE  /\ h \notin S
                        /\ so_map[h] \in Fds
                        /\ so_map[h] \notin S
      BY <2>1, <2>3 DEF PairsMatch, Mapped, IsOpen, tables
    <3>1. so_map[h] \in Fds /\ Mapped(so_map[h])
      BY ConstFacts DEF PairsMatch, Mapped, IsOpen
    <3> QED
      BY <2>2, <3>1
  <2>6. \A e \in Accepted : e.so \in Fds /\ e.so \notin S
    BY <1>0, <2>1 DEF HeldFresh, Accepted, Event
  <2>7. HeldFresh'
    BY <2>1, <2>3, <2>6 DEF HeldFresh, Accepted, Fresh, Mapped, tables
  <2>8. TokensRegistered'
    BY <2>1, <2>3, <2>4 DEF TokensRegistered, Accepted, IsOpen, locals
  <2> QED
    BY <2>5, <2>7, <2>8
<1>8. ASSUME NEW f \in Fds, OpenDst(f) PROVE Good'
  <2>0. PICK b : b = born + 1
    OBVIOUS
  <2>1. /\ Free(f) /\ b \in Socks /\ born \in Nat /\ b = born + 1
        /\ fdtab' = [fdtab EXCEPT ![f] = b]
        /\ born' = b
        /\ mpc = "connect" /\ mpc' = "register" /\ mdst' = f
        /\ UNCHANGED <<ep, tables, pool, batch, cur, locals, partner>>
    BY <1>8, <1>t, <2>0, ConstFacts DEF OpenDst, OpenFd, Socks, TypeOK, NetTypeOK
  <2>2. \A g \in Fds : IsOpen(g) => g # f /\ fdtab'[g] = fdtab[g] /\ IsOpen(g)'
    BY <2>1, <1>t DEF Free, IsOpen, TypeOK, SocketsTypeOK
  <2>3. PairsMatch'
    BY <2>1, <2>2 DEF PairsMatch, Mapped, tables, IsOpen
  <2>4. ~Mapped(f)
    BY <2>1 DEF PairsMatch, Free, IsOpen
  <2>5. partner[b] = NoSock
    BY <2>1 DEF TokensRegistered
  <2>6. Fresh(f, b)' /\ fdtab'[f] = b
    BY <2>1, <2>4, <2>5, <1>t, ConstFacts
    DEF Fresh, Mapped, tables, TypeOK, SocketsTypeOK
  <2>7. \A g \in Fds : \A x : Fresh(g, x) => g # f /\ Fresh(g, x)'
    BY <2>1, <2>2 DEF Fresh, Mapped, tables, IsOpen
  <2>8. \A e \in Accepted : e.so \in Fds
    BY <1>0 DEF Accepted, Event
  <2>9. HeldFresh'
    BY <1>0, <2>1, <2>6, <2>7, <2>8 DEF HeldFresh, Accepted
  <2>10. \A s \in Socks : s > born' => partner[s] = NoSock
    BY <2>1 DEF TokensRegistered, Socks
  <2>11. TokensRegistered'
    BY <2>1, <2>2, <2>10 DEF TokensRegistered, Accepted, locals
  <2> QED
    BY <2>3, <2>9, <2>11
<1>9. CASE DidAccept
  <2> DEFINE c == cur.so
             cs == cur.sock
             d == mdst
             ds == fdtab[mdst]
  <2>1. /\ c \in Fds /\ d \in Fds /\ c # d
        /\ cs \in Socks /\ ds \in Socks
        /\ Fresh(c, cs) /\ Fresh(d, ds)
        /\ \A e \in Accepted : e.so \in Fds /\ e.so # c /\ e.so # d
    BY <1>9, <1>0, <1>t, ConstFacts
    DEF DidAccept, HeldFresh, Fresh, TypeOK, SocketsTypeOK, Accepted, Event
  <2>2. cs # ds
    BY <2>1, <1>t DEF Fresh, SocketsDistinct
  <2>3. partner' = [x \in Socks |-> IF x = cs THEN ds
                                    ELSE IF x = ds THEN cs ELSE partner[x]]
    BY <1>9, <2>1, <2>2 DEF DidAccept, IsOpen, Fresh
  <2>4. /\ request_so' = request_so \cup {c}
        /\ tunnel_so' = tunnel_so \cup {d}
        /\ so_map' = [so_map EXCEPT ![c] = d, ![d] = c]
        /\ ep' = MonitorAdd({c, d})
        /\ mpc' \in {"poll", "dispatch"}
        /\ UNCHANGED <<fdtab, born, pool, batch, locals>>
    BY <1>9 DEF DidAccept, EventDone
  <2>5. so_map'[c] = d /\ so_map'[d] = c
        /\ \A f \in Fds : f \notin {c, d} => so_map'[f] = so_map[f]
    BY <2>1, <2>4, <1>t DEF TypeOK, TablesTypeOK
  <2>6. \A f \in {c, d} : f \notin request_so /\ f \notin tunnel_so
    BY <2>1, <1>t DEF TablesAgree, IsMaintaining, Fresh, Mapped
  <2>7. \A x \in Socks : partner[x] # NoSock => partner'[x] = partner[x]
    BY <2>1, <2>3 DEF Fresh
  <2>8. partner'[cs] # NoSock /\ partner'[ds] # NoSock
    BY <2>1, <2>2, <2>3, ConstFacts
  <2>9. PairsMatch'
    <3> SUFFICES ASSUME NEW h \in Fds, Mapped(h)'
                 PROVE  LET g == so_map[h] IN
                        (/\ g # h /\ so_map[g] = h
                         /\ h \in request_so <=> h \notin tunnel_so
                         /\ h \in request_so <=> g \in tunnel_so
                         /\ IsOpen(h) /\ IsOpen(g)
                         /\ partner[fdtab[h]] = fdtab[g])'
      BY DEF PairsMatch
    <3>1. CASE h \in {c, d}
      BY <3>1, <2>1, <2>2, <2>3, <2>4, <2>5, <2>6 DEF Fresh, IsOpen
    <3>2. CASE h \notin {c, d}
      <4> DEFINE g == so_map[h]
      <4>1. so_map'[h] = g /\ Mapped(h)
        BY <3>2, <2>5 DEF Mapped
      <4>2. /\ g # h /\ so_map[g] = h
            /\ h \in request_so <=> h \notin tunnel_so
            /\ h \in request_so <=> g \in tunnel_so
            /\ IsOpen(h) /\ IsOpen(g)
            /\ partner[fdtab[h]] = fdtab[g]
        BY <4>1 DEF PairsMatch
      <4>3. g \in Fds /\ g \notin {c, d}
        BY <4>2, <2>1, ConstFacts DEF Fresh, Mapped, IsOpen
      <4>4. so_map'[g] = h
        BY <4>2, <4>3, <2>5
      <4>5. fdtab[h] \in Socks /\ fdtab[g] # NoSock
        BY <4>2, <1>t, ConstFacts DEF IsOpen, TypeOK, SocketsTypeOK
      <4>6. partner'[fdtab[h]] = fdtab[g]
        BY <4>2, <4>5, <2>7
      <4> QED
        BY <3>2, <4>1, <4>2, <4>3, <4>4, <4>6, <2>4 DEF IsOpen
    <3> QED
      BY <3>1, <3>2
  <2>10. \A f \in Fds : \A x : f \notin {c, d} /\ Fresh(f, x) => Fresh(f, x)'
    <3> SUFFICES ASSUME NEW f \in Fds, NEW x, f \notin {c, d}, Fresh(f, x)
                 PROVE  Fresh(f, x)'
      OBVIOUS
    <3>1. x \in Socks /\ x # cs /\ x # ds
      BY <2>1, <1>t, ConstFacts
      DEF Fresh, SocketsDistinct, TypeOK, SocketsTypeOK
    <3> QED
      BY <3>1, <2>3, <2>4, <2>5 DEF Fresh, Mapped
  <2>11. HeldFresh'
    BY <2>1, <2>4, <2>10 DEF HeldFresh, Accepted
  <2>12. \A f \in Fds : ep'[f] # "none" =>
           IsOpen(f)' /\ partner'[fdtab'[f]] # NoSock
    <3> SUFFICES ASSUME NEW f \in Fds, ep'[f] # "none"
                 PROVE  IsOpen(f)' /\ partner'[fdtab'[f]] # NoSock
      OBVIOUS
    <3>1. CASE f \in {c, d}
      BY <3>1, <2>1, <2>4, <2>8 DEF Fresh, IsOpen
    <3>2. CASE f \notin {c, d}
      <4>1. IsOpen(f) /\ partner[fdtab[f]] # NoSock
        BY <3>2, <2>4 DEF MonitorAdd, TokensRegistered
      <4>2. fdtab[f] \in Socks
        BY <4>1, <1>t, ConstFacts DEF IsOpen, TypeOK, SocketsTypeOK
      <4> QED
        BY <4>1, <4>2, <2>4, <2>7 DEF IsOpen
    <3> QED
      BY <3>1, <3>2
  <2>13. \A x \in Socks : x > born' => partner'[x] = NoSock
    <3>1. cs <= born /\ ds <= born
      BY <2>1, <1>t DEF SocketsDistinct, Fresh
    <3>2. born \in Nat /\ Socks \subseteq Nat
      BY <1>t, ConstFacts DEF TypeOK, NetTypeOK, Socks
    <3>3. ASSUME NEW x \in Socks, x > born PROVE partner'[x] = NoSock
      <4>1. x # cs /\ x # ds
        BY <3>1, <3>2, <3>3, <2>1
      <4> QED
        BY <4>1, <3>3, <2>3 DEF TokensRegistered
    <3> QED
      BY <3>3, <2>4
  <2>14. /\ \A e \in batch : e.sock \in Socks
         /\ \A i \in 1 .. Len(pool) : pool[i].sock \in Socks
         /\ \A w \in Workers : pc[w] # "idle" => tok[w] \in Socks
    <3>1. \A e \in batch : e.sock \in Socks
      BY <1>0 DEF Event
    <3>2. \A i \in 1 .. Len(pool) : pool[i] \in Item
      BY <1>t DEF TypeOK, TablesTypeOK
    <3>3. \A w \in Workers : pc[w] # "idle" => tok[w] \in Socks
      BY <1>t DEF TypeOK, WorkersTypeOK
    <3> QED
      BY <3>1, <3>2, <3>3 DEF Item
  <2>15. \A i \in 1 .. Len(pool') : partner'[pool'[i].sock] # NoSock
    BY <2>4, <2>7, <2>14 DEF TokensRegistered
  <2>16. \A w \in Workers : pc'[w] # "idle" => partner'[tok'[w]] # NoSock
    BY <2>4, <2>7, <2>14 DEF TokensRegistered, locals
  <2>17. \A e \in batch' \ Accepted' : partner'[e.sock] # NoSock
    BY <2>4, <2>7, <2>14 DEF TokensRegistered, Accepted
  <2>18. TokensRegistered'
    BY <2>4, <2>12, <2>13, <2>15, <2>16, <2>17 DEF TokensRegistered
  <2> QED
    BY <2>9, <2>11, <2>18
<1> QED
  BY <1>1, <1>2, <1>3, <1>4, <1>5, <1>6, <1>7, <1>8, <1>9 DEF MainStep

LEMMA WorkerGood ==
  ASSUME PairsInv, ~astray, ~astray', Good, NEW w \in Workers, WorkerStep(w)
  PROVE  Good'
<1> USE DEF Good
<1>t. TypeOK /\ TablesAgree /\ NoLeak /\ SocketsDistinct
  BY DEF PairsInv
<1>0. pc[w] # "idle" =>
        so[w] \in Fds /\ tok[w] \in Socks /\ partner[tok[w]] # NoSock
  BY <1>t DEF TypeOK, WorkersTypeOK, TokensRegistered
<1>1. ASSUME UNCHANGED <<fdtab, born, tables, main, partner>>,
             \A f \in Fds : ep'[f] # "none" => ep[f] # "none",
             \A i \in 1 .. Len(pool') : partner[pool'[i].sock] # NoSock,
             \A v \in Workers : pc'[v] # "idle" => partner[tok'[v]] # NoSock
      PROVE  Good'
  <2>1. PairsMatch' /\ HeldFresh'
    BY <1>1, GoodFrame DEF tables, main
  <2>2. TokensRegistered'
    BY <1>1 DEF TokensRegistered, Accepted, IsOpen, main
  <2> QED
    BY <2>1, <2>2
<1>2. \A l \in WorkerPC :
        pc[w] # "idle" /\ GoTo(w, l) /\ UNCHANGED tok =>
          \A v \in Workers : pc'[v] # "idle" => partner[tok'[v]] # NoSock
  BY <1>0 DEF GoTo, TokensRegistered, TypeOK, WorkersTypeOK
<1>3. Finish(w) =>
        \A v \in Workers : pc'[v] # "idle" => partner[tok'[v]] # NoSock
  BY <1>t DEF Finish, GoTo, TokensRegistered, TypeOK, WorkersTypeOK
<1>4. CASE Take(w)
  <2>1. /\ pool # <<>> /\ pool \in Seq(Item)
        /\ pool' = Tail(pool)
        /\ pc' = [pc EXCEPT ![w] = "lookup"]
        /\ tok' = [tok EXCEPT ![w] = Head(pool).sock]
    BY <1>4, <1>t DEF Take, TakeItem, GoTo, TypeOK, TablesTypeOK
  <2>2. \A i \in 1 .. Len(pool) : partner[pool[i].sock] # NoSock
    BY DEF TokensRegistered
  <2>3. /\ Len(pool) \in Nat /\ Len(pool) >= 1 /\ Head(pool) = pool[1]
        /\ Len(pool') = Len(pool) - 1
        /\ \A i \in 1 .. Len(pool') : pool'[i] = pool[i + 1]
    BY <2>1
  <2>4. ASSUME NEW i \in 1 .. Len(pool')
        PROVE  partner[pool'[i].sock] # NoSock
    <3>1. i + 1 \in 1 .. Len(pool) /\ pool'[i] = pool[i + 1]
      BY <2>3
    <3> QED
      BY <2>2, <3>1
  <2>5. partner[Head(pool).sock] # NoSock
    BY <2>2, <2>3
  <2>6. \A v \in Workers : pc'[v] # "idle" => partner[tok'[v]] # NoSock
    BY <2>1, <2>5, <1>t DEF TokensRegistered, TypeOK, WorkersTypeOK
  <2> QED
    BY <1>4, <1>1, <2>4, <2>6 DEF Take
<1>5. CASE Deref(w) \/ Recv(w) \/ RecvDone(w) \/ Block(w) \/ Send(w)
           \/ SendDone(w) \/ Unblock(w)
  <2>1. /\ UNCHANGED <<fdtab, born, tables, main, partner, ep, pool, tok>>
        /\ pc[w] # "idle"
        /\ \E l \in WorkerPC : GoTo(w, l)
    BY <1>5 DEF Deref, Recv, RecvDone, RecvFrom, Block, Send, SendDone, Unblock,
       SetDstFlag, WorkerPC
  <2>2. \A v \in Workers : pc'[v] # "idle" => partner[tok'[v]] # NoSock
    BY <2>1, <1>2
  <2> QED
    BY <1>1, <2>1, <2>2 DEF TokensRegistered
<1>6. ASSUME ~Mapped(so[w]), CloseFds({so[w]}), pc[w] # "idle",
             ~Astray(so[w], tok[w])
      PROVE  UNCHANGED fdtab /\ \A f \in Fds : ep'[f] # "none" => ep[f] # "none"
  <2>1. ~IsOpen(so[w])
    BY <1>0, <1>6, <1>t, UnmappedIsClosed
  <2>2. fdtab[so[w]] = NoSock
    BY <2>1, <1>0, <1>6 DEF IsOpen
  <2> QED
    BY <2>2, <1>6, <1>t DEF CloseFds, TypeOK, SocketsTypeOK
<1>7. CASE Lookup(w)
  <2>1. /\ UNCHANGED <<born, tables, main, partner, pool, tok>>
        /\ pc[w] # "idle"
        /\ \E l \in WorkerPC : GoTo(w, l)
    BY <1>7 DEF Lookup, WorkerPC
  <2>2. \A v \in Workers : pc'[v] # "idle" => partner[tok'[v]] # NoSock
    BY <2>1, <1>2
  <2>3. UNCHANGED fdtab /\ \A f \in Fds : ep'[f] # "none" => ep[f] # "none"
    BY <1>6, <1>7 DEF Lookup, Mapped, Astray
  <2> QED
    BY <1>1, <2>1, <2>2, <2>3 DEF TokensRegistered
<1>8. CASE Rearm(w)
  <2>1. /\ UNCHANGED <<born, tables, main, partner, pool>>
        /\ pc[w] # "idle" /\ Finish(w)
    BY <1>8 DEF Rearm
  <2>2. UNCHANGED fdtab /\ \A f \in Fds : ep'[f] # "none" => ep[f] # "none"
    <3>1. CASE Mapped(so[w])
      BY <1>8, <3>1, <1>t DEF Rearm, Mapped, RearmInterest, MonitorMod, TypeOK,
         SocketsTypeOK
    <3>2. CASE ~Mapped(so[w])
      BY <1>6, <1>8, <3>2 DEF Rearm, Mapped, Astray
    <3> QED
      BY <3>1, <3>2
  <2> QED
    BY <1>1, <1>3, <2>1, <2>2 DEF TokensRegistered
<1>9. CASE WorkerClose(w)
  <2>1. /\ CloseSocket(so[w], tok[w]) /\ Finish(w)
        /\ so[w] \in Fds /\ tok[w] \in Socks /\ partner[tok[w]] # NoSock
        /\ UNCHANGED <<born, pool, main, partner>>
    BY <1>9, <1>0 DEF WorkerClose, net
  <2>2. /\ PairsMatch'
        /\ \A h \in Fds : \A x : Fresh(h, x) => Fresh(h, x)'
        /\ \A g \in Fds : ep'[g] # "none" =>
             IsOpen(g)' /\ partner'[fdtab'[g]] # NoSock
    BY <2>1, <1>t, CloseSocketGood
  <2>3. /\ \A e \in Accepted : e.so \in Fds
        /\ mpc \in {"connect", "register"} => cur.so \in Fds
        /\ mpc = "register" => mdst \in Fds
    BY <1>t DEF TypeOK, MainTypeOK, Event, Accepted
  <2>4. mpc = "register" => fdtab'[mdst] = fdtab[mdst]
    <3> SUFFICES ASSUME mpc = "register" PROVE fdtab'[mdst] = fdtab[mdst]
      OBVIOUS
    <3>1. PICK h, x : h = mdst /\ x = fdtab[mdst]
      OBVIOUS
    <3>2. h \in Fds /\ Fresh(h, x)
      BY <2>3, <3>1 DEF HeldFresh
    <3>3. Fresh(h, x)'
      BY <2>2, <3>2
    <3> QED
      BY <3>1, <3>3 DEF Fresh
  <2>5. HeldFresh'
    BY <2>1, <2>2, <2>3, <2>4 DEF HeldFresh, Accepted, main
  <2>6. TokensRegistered'
    BY <2>1, <2>2, <1>3 DEF TokensRegistered, Accepted, main
  <2> QED
    BY <2>2, <2>5, <2>6
<1> QED
  BY <1>4, <1>5, <1>7, <1>8, <1>9 DEF WorkerStep

LEMMA PairsInvStep == PairsInv /\ [Next]_vars => PairsInv'
<1> SUFFICES ASSUME PairsInv, [Next]_vars PROVE PairsInv'
  OBVIOUS
<1>1. TypeOK /\ TablesAgree /\ NoLeak /\ SocketsDistinct
  BY DEF PairsInv
<1>2. TypeOK' /\ TablesAgree' /\ NoLeak' /\ SocketsDistinct'
  BY <1>1, TypeOKStep, TablesAgreeStep, NoLeakStep, SocketsDistinctStep
<1>3. ASSUME ~astray' PROVE Good'
  <2>1. ~astray
    BY <1>1, <1>3, AstrayForever
  <2>2. Good
    BY <2>1 DEF PairsInv, Good
  <2>3. CASE MainStep
    BY <1>3, <2>1, <2>2, <2>3, MainGood
  <2>4. ASSUME NEW w \in Workers, WorkerStep(w) PROVE Good'
    BY <1>3, <2>1, <2>2, <2>4, WorkerGood
  <2>5. CASE ClientConnect \/ (\E s \in Socks : Peer(s)) \/ UNCHANGED vars
    <3>1. UNCHANGED <<fdtab, ep, born, tables, pool, main, locals, partner>>
      BY <2>5 DEF ClientConnect, Peer, vars
    <3>2. PairsMatch' /\ HeldFresh'
      BY <2>1, <2>2, <3>1, GoodFrame DEF tables, main
    <3>3. TokensRegistered'
      BY <2>2, <3>1 DEF Good, TokensRegistered, Accepted, IsOpen, main, locals
    <3> QED
      BY <3>2, <3>3 DEF Good
  <2> QED
    BY <2>3, <2>4, <2>5 DEF Next
<1>4. PairsMatch'
  BY <1>3 DEF Good, PairsMatch
<1> QED
  BY <1>2, <1>3, <1>4 DEF PairsInv, Good

\* The inductive invariant as such.  Beside the pairs it says that the kernel
\* names every socket by one number, that a number between accept() and
\* _did_accept_sockets is of a socket never registered, and that every event in
\* epoll, batch, queue and workers is for a socket that has been.
THEOREM PairsInvAlways == Spec => []PairsInv
<1>1. Init => PairsInv
  BY InitPairsInv
<1>2. PairsInv /\ [Next]_vars => PairsInv'
  BY PairsInvStep
<1> QED
  BY <1>1, <1>2, PTL DEF Spec

\* As long as no number is used for a socket it did not mean, close_socket,
\* the workers and the main loop keep so_map_ a matching of the open sockets
\* that were registered together: data read from one client can only go to the
\* destination opened for that client, and back.
THEOREM PairsAlwaysMatch == Spec => []PairsMatch
<1>1. PairsInv => PairsMatch
  BY DEF PairsInv
<1> QED
  BY <1>1, PairsInvAlways, PTL

-----------------------------------------------------------------------------
(* No waiting client is forgotten.  What makes it so is a count: a client   *)
(* that waits has not cost a socket yet, one that was accepted costs two.   *)

\* Sockets the main loop still has to open for clients it has accepted.
Owed == Cardinality(Accepted) + (IF mpc = "connect" THEN 1 ELSE 0)

Counts ==
  /\ IsFiniteSet(Accepted)
  /\ backlog <= arrived
  /\ born + Owed <= 2 * (arrived - backlog)

ClientsInv == TypeOK /\ SocketsDistinct /\ Counts /\ NoClientStranded

\* A descriptor number for each of the sockets that can be open while somebody
\* is waiting, and accept() given a sound address length.
EnoughNumbers ==
  /\ IsFiniteSet(Fds) /\ Cardinality(Fds) + 1 >= 2 * MaxConn
  /\ ~NegativeInlen

LEMMA CountTypes ==
  ASSUME TypeOK, IsFiniteSet(Accepted)
  PROVE  /\ born \in Nat /\ arrived \in Nat /\ backlog \in Nat /\ MaxConn \in Nat
         /\ arrived <= MaxConn
         /\ Cardinality(Accepted) \in Nat /\ Owed \in Nat
<1>1. born \in Nat /\ arrived \in Nat /\ backlog \in Nat /\ MaxConn \in Nat
      /\ arrived <= MaxConn
  BY ConstFacts, ConstAssumption DEF TypeOK, NetTypeOK
<1>2. Cardinality(Accepted) \in Nat
  BY FS_CardinalityType
<1> QED
  BY <1>1, <1>2 DEF Owed

\* While a client waits, a number is free.
LEMMA NumberLeft ==
  ASSUME ClientsInv, EnoughNumbers, backlog > 0
  PROVE  \E f \in Fds : Free(f)
<1> SUFFICES ASSUME \A f \in Fds : fdtab[f] # NoSock PROVE FALSE
  BY DEF Free
<1>1. born \in Nat /\ arrived \in Nat /\ backlog \in Nat /\ MaxConn \in Nat
      /\ arrived <= MaxConn /\ Owed \in Nat
  BY CountTypes DEF ClientsInv, Counts
<1>2. born + 2 <= 2 * MaxConn
  BY <1>1 DEF ClientsInv, Counts
<1>3. fdtab \in [Fds -> 1 .. born]
  <2>1. fdtab \in [Fds -> 0 .. MaxSock] /\ \A f \in Fds : fdtab[f] <= born
    BY DEF ClientsInv, TypeOK, SocketsTypeOK, SocketsDistinct
  <2>2. \A f \in Fds : fdtab[f] \in 1 .. born
    BY <1>1, <2>1, ConstFacts DEF NoSock
  <2> QED
    BY <2>1, <2>2
<1>4. fdtab \in Injection(Fds, 1 .. born)
  BY <1>3 DEF Injection, IsInjective, ClientsInv, SocketsDistinct
<1>5. IsFiniteSet(1 .. born) /\ Cardinality(1 .. born) = born
  <2>1. IsFiniteSet(1 .. born) /\ Cardinality(1 .. born) = IF 1 > born THEN 0 ELSE born - 1 + 1
    BY <1>1, FS_Interval
  <2> QED
    BY <1>1, <2>1
<1>6. Cardinality(Fds) <= born
  BY <1>4, <1>5, FS_Injection
<1>7. Cardinality(Fds) \in Nat
  BY FS_CardinalityType DEF EnoughNumbers
<1> QED
  BY <1>1, <1>2, <1>6, <1>7 DEF EnoughNumbers

\* Steps that open nothing and accept nobody.
LEMMA CountsFrame ==
  ASSUME TypeOK, Counts, UNCHANGED <<born, arrived, backlog>>,
         Accepted' \subseteq Accepted,
         mpc' = "connect" => mpc = "connect" \/ Accepted' # Accepted
  PROVE  Counts'
<1>1. IsFiniteSet(Accepted')
  BY FS_Subset DEF Counts
<1>2. Cardinality(Accepted') \in Nat /\ Cardinality(Accepted) \in Nat
  BY <1>1, FS_CardinalityType DEF Counts
<1>3. /\ Cardinality(Accepted') <= Cardinality(Accepted)
      /\ Accepted' # Accepted => Cardinality(Accepted') < Cardinality(Accepted)
  BY <1>2, FS_Subset DEF Counts
<1>4. born \in Nat /\ arrived \in Nat /\ backlog \in Nat
  BY CountTypes DEF Counts
<1>5. Owed' <= Owed /\ Owed \in Nat /\ Owed' \in Nat
  BY <1>2, <1>3 DEF Owed
<1>6. born + Owed <= 2 * (arrived - backlog) /\ backlog <= arrived
  BY DEF Counts
<1>7. born + Owed' <= 2 * (arrived - backlog)
  <2>1. PICK o \in Nat : o = Owed
    BY <1>5
  <2>2. PICK p \in Nat : p = Owed'
    BY <1>5
  <2>3. born + o <= 2 * (arrived - backlog) /\ p <= o
    BY <1>5, <1>6, <2>1, <2>2
  <2>4. born + p <= 2 * (arrived - backlog)
    BY <1>4, <2>3
  <2> QED
    BY <2>2, <2>4
<1> QED
  BY <1>1, <1>6, <1>7 DEF Counts

LEMMA CountsStep ==
  ASSUME TypeOK, Counts, [Next]_vars
  PROVE  Counts'
<1>0. /\ born \in Nat /\ arrived \in Nat /\ backlog \in Nat
      /\ Cardinality(Accepted) \in Nat
  BY CountTypes DEF Counts
<1>1. CASE ClientConnect
  BY <1>0, <1>1 DEF ClientConnect, main, Counts, Owed, Accepted
<1>2. CASE \/ (\E s \in Socks : Peer(s)) \/ UNCHANGED vars
           \/ \E w \in Workers : WorkerStep(w)
  <2>1. UNCHANGED <<born, arrived, backlog, batch, mpc>>
    BY <1>2
    DEF Peer, vars, net, main, WorkerStep, Take, Lookup, Deref, Recv, RecvDone, Block,
        Send, SendDone, Unblock, SetDstFlag, Rearm, WorkerClose
  <2> QED
    BY <2>1, CountsFrame DEF Accepted
<1>3. CASE Harvest
  <2>1. Accepted' = {} /\ mpc' # "connect" /\ UNCHANGED <<born, arrived, backlog>>
    BY <1>3 DEF Harvest, Accepted
  <2> QED
    BY <2>1, CountsFrame
<1>4. CASE AcceptEnd \/ MainClose \/ MainEnqueue \/ Deny \/ ConnectFail \/ DidAccept
  <2>1. UNCHANGED <<born, arrived, backlog, batch>> /\ mpc' # "connect"
    BY <1>4
    DEF AcceptEnd, MainClose, MainEnqueue, Deny, ConnectFail, DidAccept, EventDone, net
  <2> QED
    BY <2>1, CountsFrame DEF Accepted
<1>5. CASE AcceptInval
  <2>1. /\ UNCHANGED <<born, arrived, batch>> /\ backlog > 0 /\ backlog' = backlog - 1
        /\ mpc = "accept" /\ mpc' # "connect"
    BY <1>5 DEF AcceptInval
  <2> QED
    BY <1>0, <2>1 DEF Counts, Owed, Accepted
<1>6. ASSUME NEW f \in Fds, AcceptOne(f) PROVE Counts'
  <2>1. /\ born' = born + 1 /\ UNCHANGED arrived
        /\ backlog > 0 /\ backlog' = backlog - 1
        /\ mpc = "accept" /\ mpc' # "connect"
    BY <1>6 DEF AcceptOne, OpenFd, AcceptNext
  <2>2. Accepted' = Accepted \cup {[so |-> f, sock |-> born + 1, event |-> "ACCEPT"]}
    BY <1>6 DEF AcceptOne, Accepted
  <2>3. /\ IsFiniteSet(Accepted') /\ Cardinality(Accepted') \in Nat
        /\ Cardinality(Accepted') <= Cardinality(Accepted) + 1
    BY <1>0, <2>2, FS_AddElement DEF Counts
  <2>4. Owed' <= Owed + 1 /\ Owed \in Nat /\ Owed' \in Nat
    BY <1>0, <2>1, <2>3 DEF Owed
  <2>5. born + Owed <= 2 * (arrived - backlog) /\ backlog <= arrived
    BY DEF Counts
  <2>6. born' + Owed' <= 2 * (arrived' - backlog') /\ backlog' <= arrived'
    <3>1. PICK o \in Nat : o = Owed
      BY <2>4
    <3>2. PICK p \in Nat : p = Owed'
      BY <2>4
    <3>3. born + o <= 2 * (arrived - backlog) /\ p <= o + 1
      BY <2>4, <2>5, <3>1, <3>2
    <3>4. born' + p <= 2 * (arrived' - backlog') /\ backlog' <= arrived'
      BY <1>0, <2>1, <2>5, <3>3
    <3> QED
      BY <3>2, <3>4
  <2> QED
    BY <2>3, <2>6 DEF Counts
<1>7. ASSUME NEW f \in Fds, OpenDst(f) PROVE Counts'
  <2>1. /\ born' = born + 1 /\ UNCHANGED <<arrived, backlog, batch>>
        /\ mpc = "connect" /\ mpc' = "register"
    BY <1>7 DEF OpenDst, OpenFd, net
  <2> QED
    BY <1>0, <2>1 DEF Counts, Owed, Accepted
<1>8. ASSUME NEW e \in batch, Dispatch(e) PROVE Counts'
  <2>1. /\ UNCHANGED <<born, arrived, backlog>> /\ Accepted' \subseteq Accepted
        /\ mpc = "dispatch" /\ e \notin Accepted'
    BY <1>8 DEF Dispatch, net, Accepted
  <2>2. mpc' = "connect" => e \in Accepted
    <3>1. e.event \in EventId
      BY DEF TypeOK, MainTypeOK, Event
    <3> QED
      BY <1>8, <3>1 DEF Dispatch, EventId, Accepted
  <2> QED
    BY <2>1, <2>2, CountsFrame
<1> QED
  BY <1>1, <1>2, <1>3, <1>4, <1>5, <1>6, <1>7, <1>8 DEF Next, MainStep

LEMMA StrandedStep ==
  ASSUME ClientsInv, EnoughNumbers, [Next]_vars
  PROVE  NoClientStranded'
<1>1. CASE ClientConnect
  BY <1>1 DEF ClientConnect, NoClientStranded
<1>2. CASE Harvest
  BY <1>2 DEF Harvest, ClientsInv, NoClientStranded
<1>3. CASE AcceptEnd
  <2>1. backlog = 0
    <3>1. backlog > 0 => \E f \in Fds : Free(f)
      BY NumberLeft
    <3>2. backlog \in Nat
      BY DEF ClientsInv, TypeOK, NetTypeOK
    <3> QED
      BY <1>3, <3>1, <3>2 DEF AcceptEnd
  <2> QED
    BY <1>3, <2>1 DEF AcceptEnd, NoClientStranded, net
<1>4. ASSUME NEW f \in Fds, AcceptOne(f) PROVE NoClientStranded'
  BY <1>4 DEF AcceptOne, AcceptNext, NoClientStranded
<1>5. ~AcceptInval
  BY DEF AcceptInval, EnoughNumbers
<1>6. CASE \/ MainClose \/ MainEnqueue \/ Deny \/ ConnectFail \/ DidAccept
           \/ (\E f \in Fds : OpenDst(f)) \/ \E e \in batch : Dispatch(e)
  <2>1. UNCHANGED <<backlog, edge>> /\ mpc # "accept"
    BY <1>6 DEF MainClose, MainEnqueue, Deny, ConnectFail, DidAccept, OpenDst, Dispatch, net
  <2> QED
    BY <2>1 DEF ClientsInv, NoClientStranded
<1>7. CASE \/ (\E s \in Socks : Peer(s)) \/ UNCHANGED vars
           \/ \E w \in Workers : WorkerStep(w)
  <2>1. UNCHANGED <<backlog, edge, mpc>>
    BY <1>7
    DEF Peer, vars, net, main, WorkerStep, Take, Lookup, Deref, Recv, RecvDone, Block,
        Send, SendDone, Unblock, SetDstFlag, Rearm, WorkerClose
  <2> QED
    BY <2>1 DEF ClientsInv, NoClientStranded
<1> QED
  BY <1>1, <1>2, <1>3, <1>4, <1>5, <1>6, <1>7 DEF Next, MainStep

\* The listener is edge-triggered: a client left in the backlog when the accept
\* loop ends would wait until another one connects.  With a number left for each
\* socket the loop ends only when nobody waits, and between two loops whoever
\* waits has been announced; two numbers for each client but the last, whose
\* second one is not needed before it is accepted, are enough.
THEOREM NobodyStranded == EnoughNumbers => (Spec => []NoClientStranded)
<1> SUFFICES ASSUME EnoughNumbers PROVE Spec => []NoClientStranded
  OBVIOUS
<1>1. Init => ClientsInv
  <2> SUFFICES ASSUME Init PROVE ClientsInv
    OBVIOUS
  <2>1. TypeOK /\ SocketsDistinct
    BY InitPairsInv DEF PairsInv
  <2>2. Accepted = {}
    BY DEF Init, Accepted
  <2>3. IsFiniteSet(Accepted) /\ Cardinality(Accepted) = 0
    BY <2>2, FS_EmptySet
  <2> QED
    BY <2>1, <2>3 DEF Init, ClientsInv, Counts, Owed, NoClientStranded
<1>2. ClientsInv /\ [Next]_vars => ClientsInv'
  BY TypeOKStep, SocketsDistinctStep, CountsStep, StrandedStep DEF ClientsInv
<1>3. ClientsInv => NoClientStranded
  BY DEF ClientsInv
<1> QED
  BY <1>1, <1>2, <1>3, PTL DEF Spec

-----------------------------------------------------------------------------
(* OneHandler: while no number has gone astray, exactly one event, queue   *)
(* entry, worker or registration stands for a registered socket.           *)
(*                                                                         *)
(* What makes it inductive, beside PairsInv: whatever stands for a socket  *)
(* has its number, an idle worker stands for none, and a mapped number is  *)
(* known to epoll, so that re-arming it cannot fail.                       *)


\* No number but n names s.
OnlyName(n, s) == \A f \in Fds : fdtab[f] = s => f = n

TokenNumbers ==
  /\ \A e \in batch : OnlyName(e.so, e.sock)
  /\ mpc \in {"close", "enqueue"} => OnlyName(cur.so, cur.sock)
  /\ \A i \in 1 .. Len(pool) : OnlyName(pool[i].so, pool[i].sock)
  /\ \A w \in Workers : pc[w] # "idle" => OnlyName(so[w], tok[w])

Armed(f) == ep[f] = "on"
InBatch(s) == \E e \in batch : e.sock = s
InMain(s) == mpc \in {"close", "enqueue"} /\ cur.sock = s
InPool(s) == \E i \in 1 .. Len(pool) : pool[i].sock = s
AtWorker(s) == \E w \in Workers : tok[w] = s

Single(s) ==
  /\ \A d, e \in batch : d.sock = s /\ e.sock = s => d = e
  /\ \A i, j \in 1 .. Len(pool) : pool[i].sock = s /\ pool[j].sock = s => i = j
  /\ \A v, w \in Workers : tok[v] = s /\ tok[w] = s => v = w

ExactlyOne(a, b, c, d, e) ==
  /\ a \/ b \/ c \/ d \/ e
  /\ a => ~b /\ ~c /\ ~d /\ ~e
  /\ b => ~c /\ ~d /\ ~e
  /\ c => ~d /\ ~e
  /\ d => ~e

Carried(f, s) ==
  /\ Single(s)
  /\ ExactlyOne(Armed(f), InBatch(s), InMain(s), InPool(s), AtWorker(s))

HandlerGood ==
  /\ TokenNumbers
  /\ \A w \in Workers : pc[w] = "idle" => tok[w] = NoSock
  /\ \A f \in Fds : \A s :
       Mapped(f) /\ s = fdtab[f] => ep[f] # "none" /\ Carried(f, s)

HandlerInv == PairsInv /\ (~astray => HandlerGood)

-----------------------------------------------------------------------------
(* What Carried says about Places.                                         *)

LEMMA PlacesAre ==
  ASSUME NEW f, NEW s, NEW p
  PROVE  p \in Places(f, s) <=>
           \/ Armed(f) /\ p = <<"armed", f>>
           \/ \E e \in batch : e.sock = s /\ p = <<"batch", e.event>>
           \/ InMain(s) /\ p = <<"main", cur.event>>
           \/ \E i \in 1 .. Len(pool) : pool[i].sock = s /\ p = <<"pool", i>>
           \/ \E w \in Workers : tok[w] = s /\ p = <<"worker", w>>
BY DEF Places, Armed, InMain

LEMMA CarriedOnePlace ==
  ASSUME NEW f, NEW s, Carried(f, s)
  PROVE  \E p : Places(f, s) = {p}
<1>0. ExactlyOne(Armed(f), InBatch(s), InMain(s), InPool(s), AtWorker(s))
  BY DEF Carried
<1>1. CASE Armed(f)
  <2>1. ~InBatch(s) /\ ~InMain(s) /\ ~InPool(s) /\ ~AtWorker(s)
    BY <1>0, <1>1 DEF ExactlyOne
  <2>2. \A p : p \in Places(f, s) <=> p = <<"armed", f>>
    BY <1>1, <2>1, PlacesAre DEF InBatch, InPool, AtWorker
  <2>3. Places(f, s) = {<<"armed", f>>}
    BY <2>2
  <2> QED
    BY <2>3
<1>2. CASE InBatch(s)
  <2>1. ~Armed(f) /\ ~InMain(s) /\ ~InPool(s) /\ ~AtWorker(s)
    BY <1>0, <1>2 DEF ExactlyOne
  <2>2. PICK e \in batch : e.sock = s
    BY <1>2 DEF InBatch
  <2>3. \A d \in batch : d.sock = s => d = e
    BY <2>2 DEF Carried, Single
  <2>4. \A p : p \in Places(f, s) <=> p = <<"batch", e.event>>
    BY <2>1, <2>2, <2>3, PlacesAre DEF InPool, AtWorker
  <2>5. Places(f, s) = {<<"batch", e.event>>}
    BY <2>4
  <2> QED
    BY <2>5
<1>3. CASE InMain(s)
  <2>1. ~Armed(f) /\ ~InBatch(s) /\ ~InPool(s) /\ ~AtWorker(s)
    BY <1>0, <1>3 DEF ExactlyOne
  <2>2. \A p : p \in Places(f, s) <=> p = <<"main", cur.event>>
    BY <1>3, <2>1, PlacesAre DEF InBatch, InPool, AtWorker
  <2>3. Places(f, s) = {<<"main", cur.event>>}
    BY <2>2
  <2> QED
    BY <2>3
<1>4. CASE InPool(s)
  <2>1. ~Armed(f) /\ ~InBatch(s) /\ ~InMain(s) /\ ~AtWorker(s)
    BY <1>0, <1>4 DEF ExactlyOne
  <2>2. PICK i \in 1 .. Len(pool) : pool[i].sock = s
    BY <1>4 DEF InPool
  <2>3. \A j \in 1 .. Len(pool) : pool[j].sock = s => j = i
    BY <2>2 DEF Carried, Single
  <2>4. \A p : p \in Places(f, s) <=> p = <<"pool", i>>
    BY <2>1, <2>2, <2>3, PlacesAre DEF InBatch, AtWorker
  <2>5. Places(f, s) = {<<"pool", i>>}
    BY <2>4
  <2> QED
    BY <2>5
<1>5. CASE AtWorker(s)
  <2>1. ~Armed(f) /\ ~InBatch(s) /\ ~InMain(s) /\ ~InPool(s)
    BY <1>0, <1>5 DEF ExactlyOne
  <2>2. PICK w \in Workers : tok[w] = s
    BY <1>5 DEF AtWorker
  <2>3. \A v \in Workers : tok[v] = s => v = w
    BY <2>2 DEF Carried, Single
  <2>4. \A p : p \in Places(f, s) <=> p = <<"worker", w>>
    BY <2>1, <2>2, <2>3, PlacesAre DEF InBatch, InPool
  <2>5. Places(f, s) = {<<"worker", w>>}
    BY <2>4
  <2> QED
    BY <2>5
<1> QED
  BY <1>0, <1>1, <1>2, <1>3, <1>4, <1>5 DEF ExactlyOne

LEMMA CarriedIsOneHandler == HandlerInv => OneHandler
<1> SUFFICES ASSUME HandlerInv, ~astray, NEW f \in Fds, Mapped(f)
             PROVE  Cardinality(Places(f, fdtab[f])) = 1
  BY DEF OneHandler
<1>1. PICK p : Places(f, fdtab[f]) = {p}
  BY CarriedOnePlace DEF HandlerInv, HandlerGood
<1> QED
  BY <1>1, FS_Singleton

-----------------------------------------------------------------------------
(* Facts that several steps need.                                          *)

LEMMA InitHandlerInv == Init => HandlerInv
<1> SUFFICES ASSUME Init PROVE HandlerInv
  OBVIOUS
<1>1. \A f \in Fds : ~Mapped(f)
  BY DEF Init, Mapped
<1>2. TokenNumbers
  BY DEF Init, TokenNumbers
<1>3. \A w \in Workers : tok[w] = NoSock
  BY DEF Init
<1> QED
  BY <1>1, <1>2, <1>3, InitPairsInv DEF HandlerInv, HandlerGood

LEMMA MappedFacts ==
  ASSUME PairsInv, ~astray, NEW f \in Fds, Mapped(f)
  PROVE  /\ IsOpen(f) /\ fdtab[f] \in Socks /\ fdtab[f] # NoSock
         /\ fdtab[f] <= born /\ partner[fdtab[f]] # NoSock
         /\ \A g \in Fds : fdtab[g] = fdtab[f] => g = f
<1>1. IsOpen(f) /\ partner[fdtab[f]] = fdtab[so_map[f]] /\ IsOpen(so_map[f])
  BY DEF PairsInv, PairsMatch
<1>2. fdtab[f] \in 0 .. MaxSock /\ fdtab[f] # NoSock /\ fdtab[so_map[f]] # NoSock
  BY <1>1 DEF PairsInv, TypeOK, SocketsTypeOK, IsOpen
<1> QED
  BY <1>1, <1>2, ConstFacts DEF PairsInv, SocketsDistinct

\* A step that closes numbers of pairs that it takes out of the tables, or none,
\* and leaves alone whatever stands for a socket.
LEMMA HandlerFrame ==
  ASSUME HandlerGood,
         \A f \in Fds : fdtab'[f] \in {NoSock, fdtab[f]},
         \A f \in Fds : Mapped(f)' => /\ Mapped(f) /\ fdtab'[f] = fdtab[f]
                                      /\ ep'[f] = ep[f],
         TypeOK,
         UNCHANGED <<batch, pool, so, tok>>,
         UNCHANGED <<mpc, cur>> \/ (/\ mpc \notin {"close", "enqueue"}
                                   /\ mpc' \notin {"close", "enqueue"}),
         \A w \in Workers : pc'[w] = "idle" <=> pc[w] = "idle"
  PROVE  HandlerGood'
<1>1. \A f \in Fds : fdtab'[f] = NoSock \/ fdtab'[f] = fdtab[f]
  OBVIOUS
<1>2. \A e \in batch : e.sock \in Socks
  BY DEF TypeOK, MainTypeOK, Event
<1>3. \A i \in 1 .. Len(pool) : pool[i].sock \in Socks
  <2>1. \A i \in 1 .. Len(pool) : pool[i] \in Item
    BY DEF TypeOK, TablesTypeOK
  <2> QED
    BY <2>1 DEF Item
<1>4. \A w \in Workers : pc[w] # "idle" => tok[w] \in Socks
  BY DEF TypeOK, WorkersTypeOK
<1>5. mpc \in {"close", "enqueue"} => cur.sock \in Socks
  BY DEF TypeOK, MainTypeOK, Event
<1>6. \A n, s : s \in Socks /\ OnlyName(n, s) => OnlyName(n, s)'
  BY <1>1, ConstFacts DEF OnlyName
<1>7. TokenNumbers'
  <2> USE DEF HandlerGood, TokenNumbers
  <2>1. \A e \in batch' : OnlyName(e.so, e.sock)'
    BY <1>2, <1>6
  <2>2. mpc' \in {"close", "enqueue"} => OnlyName(cur.so, cur.sock)'
    BY <1>1, <1>5, ConstFacts DEF OnlyName
  <2>3. \A i \in 1 .. Len(pool') : OnlyName(pool[i].so, pool[i].sock)'
    BY <1>1, <1>3, ConstFacts DEF OnlyName
  <2>4. \A w \in Workers : pc'[w] # "idle" => OnlyName(so[w], tok[w])'
    BY <1>1, <1>4, ConstFacts DEF OnlyName
  <2> QED
    BY <2>1, <2>2, <2>3, <2>4
<1>8. \A w \in Workers : pc'[w] = "idle" => tok'[w] = NoSock
  BY DEF HandlerGood
<1>9. ASSUME NEW f \in Fds, NEW s, Mapped(f)', s = fdtab'[f]
      PROVE  ep'[f] # "none" /\ Carried(f, s)'
  <2>1. ep[f] # "none" /\ Carried(f, s)
    BY <1>9 DEF HandlerGood
  <2>2. ep'[f] = ep[f]
    BY <1>9
  <2>3. Armed(f)' <=> Armed(f)
    BY <2>2 DEF Armed
  <2>4. InMain(s)' <=> InMain(s)
    BY DEF InMain
  <2>5. /\ InBatch(s)' <=> InBatch(s)
        /\ InPool(s)' <=> InPool(s)
        /\ AtWorker(s)' <=> AtWorker(s)
        /\ Single(s)' <=> Single(s)
    BY DEF InBatch, InPool, AtWorker, Single
  <2> QED
    BY <2>1, <2>2, <2>3, <2>4, <2>5 DEF Carried, ExactlyOne
<1> QED
  BY <1>7, <1>8, <1>9 DEF HandlerGood

\* Whatever stands for a socket stands for one that exists.
LEMMA TokensBorn ==
  ASSUME PairsInv, ~astray
  PROVE  /\ \A e \in batch : e.sock \in Socks /\ e.sock <= born
         /\ mpc \in {"close", "enqueue"} => cur.sock \in Socks /\ cur.sock <= born
         /\ \A i \in 1 .. Len(pool) : pool[i].sock \in Socks /\ pool[i].sock <= born
         /\ \A w \in Workers :
              pc[w] # "idle" => tok[w] \in Socks /\ tok[w] <= born
<1> USE DEF PairsInv
<1>0. born \in Nat /\ Socks \subseteq Nat
  BY ConstFacts DEF TypeOK, NetTypeOK
<1>1. \A s \in Socks : partner[s] # NoSock => s <= born
  <2> SUFFICES ASSUME NEW s \in Socks, partner[s] # NoSock PROVE s <= born
    OBVIOUS
  <2>1. ~(s > born)
    BY DEF TokensRegistered
  <2> QED
    BY <1>0, <2>1
<1>2. ASSUME NEW e \in batch PROVE e.sock \in Socks /\ e.sock <= born
  <2>1. e.so \in Fds /\ e.sock \in Socks
    BY DEF TypeOK, MainTypeOK, Event
  <2>2. CASE e \in Accepted
    BY <2>1, <2>2 DEF HeldFresh, Fresh, SocketsDistinct
  <2>3. CASE e \notin Accepted
    BY <1>1, <2>1, <2>3 DEF TokensRegistered
  <2> QED
    BY <2>1, <2>2, <2>3
<1>3. mpc \in {"close", "enqueue"} => cur.sock \in Socks /\ cur.sock <= born
  BY <1>1 DEF TypeOK, MainTypeOK, Event, TokensRegistered
<1>4. ASSUME NEW i \in 1 .. Len(pool)
      PROVE  pool[i].sock \in Socks /\ pool[i].sock <= born
  <2>1. pool[i] \in Item
    BY DEF TypeOK, TablesTypeOK
  <2> QED
    BY <1>1, <2>1 DEF Item, TokensRegistered
<1>5. ASSUME NEW w \in Workers, pc[w] # "idle"
      PROVE  tok[w] \in Socks /\ tok[w] <= born
  BY <1>1, <1>5 DEF TypeOK, WorkersTypeOK, TokensRegistered
<1> QED
  BY <1>2, <1>3, <1>4, <1>5

\* A new socket on a free number: nothing stands for it but, perhaps, the event
\* that it has been accepted.
LEMMA OpenHandler ==
  ASSUME PairsInv, ~astray, HandlerGood, NEW g \in Fds, OpenFd(g),
         UNCHANGED <<ep, so_map, pool, so, tok, pc, cur>>,
         mpc \notin {"close", "enqueue"}, mpc' \notin {"close", "enqueue"},
         \/ UNCHANGED batch
         \/ batch' = batch \cup {[so |-> g, sock |-> born + 1, event |-> "ACCEPT"]}
  PROVE  HandlerGood'
<1> DEFINE b == born + 1
<1>0. /\ born \in Nat /\ Socks \subseteq Nat /\ b \in Nat /\ b > born
      /\ \A f \in Fds : fdtab'[f] = IF f = g THEN b ELSE fdtab[f]
      /\ \A f \in Fds : fdtab[f] \in Nat /\ fdtab[f] <= born
      /\ fdtab[g] = NoSock
  BY ConstFacts
  DEF OpenFd, Free, PairsInv, SocketsDistinct, TypeOK, NetTypeOK, SocketsTypeOK
<1>1. \A n, s : s \in Socks /\ s <= born /\ OnlyName(n, s) => OnlyName(n, s)'
  <2> SUFFICES ASSUME NEW n, NEW s, s \in Socks, s <= born, OnlyName(n, s),
                      NEW f \in Fds, fdtab'[f] = s
               PROVE  f = n
    BY DEF OnlyName
  <2>1. f # g
    BY <1>0
  <2> QED
    BY <1>0, <2>1 DEF OnlyName
<1>2. \A f \in Fds : fdtab'[f] = b => f = g
  <2> SUFFICES ASSUME NEW f \in Fds, fdtab'[f] = b PROVE f = g
    OBVIOUS
  <2>1. fdtab[f] # b
    BY <1>0
  <2> QED
    BY <1>0, <2>1
<1>3. TokenNumbers'
  <2>1. \A e \in batch' : OnlyName(e.so, e.sock)'
    <3> SUFFICES ASSUME NEW e \in batch' PROVE OnlyName(e.so, e.sock)'
      OBVIOUS
    <3>1. CASE e \in batch
      BY <1>1, <3>1, TokensBorn DEF HandlerGood, TokenNumbers
    <3>2. CASE e \notin batch
      <4>1. e \in batch \cup {[so |-> g, sock |-> born + 1, event |-> "ACCEPT"]}
        BY <3>2
      <4>2. e = [so |-> g, sock |-> born + 1, event |-> "ACCEPT"]
        BY <3>2, <4>1
      <4>3. e.so = g /\ e.sock = b
        BY <4>2
      <4> QED
        BY <1>2, <4>3 DEF OnlyName
    <3> QED
      BY <3>1, <3>2
  <2>2. \A i \in 1 .. Len(pool) : OnlyName(pool[i].so, pool[i].sock)'
    <3> SUFFICES ASSUME NEW i \in 1 .. Len(pool)
                 PROVE  OnlyName(pool[i].so, pool[i].sock)'
      OBVIOUS
    <3>1. PICK n, s : n = pool[i].so /\ s = pool[i].sock
      OBVIOUS
    <3>2. OnlyName(n, s)'
      BY <1>1, <3>1, TokensBorn DEF HandlerGood, TokenNumbers
    <3> QED
      BY <3>1, <3>2 DEF OnlyName
  <2>3. ASSUME NEW w \in Workers, pc'[w] # "idle" PROVE OnlyName(so[w], tok[w])'
    <3>1. PICK n, s : n = so[w] /\ s = tok[w]
      OBVIOUS
    <3>2. OnlyName(n, s)'
      BY <1>1, <2>3, <3>1, TokensBorn DEF HandlerGood, TokenNumbers
    <3> QED
      BY <3>1, <3>2 DEF OnlyName
  <2> QED
    BY <2>1, <2>2, <2>3 DEF TokenNumbers
<1>4. ASSUME NEW f \in Fds, NEW s, Mapped(f)', s = fdtab'[f]
      PROVE  ep'[f] # "none" /\ Carried(f, s)'
  <2>1. Mapped(f)
    BY <1>4 DEF Mapped
  <2>2. IsOpen(f) /\ f # g /\ s = fdtab[f] /\ s <= born /\ s # b
    BY <1>0, <1>4, <2>1, MappedFacts DEF IsOpen
  <2>3. ep[f] # "none" /\ Carried(f, s)
    BY <2>1, <2>2 DEF HandlerGood
  <2>4. InBatch(s)' <=> InBatch(s)
    BY <2>2 DEF InBatch
  <2>5. Single(s)' <=> Single(s)
    BY <2>2 DEF Single
  <2>6. /\ Armed(f)' <=> Armed(f)
        /\ InMain(s)' <=> InMain(s)
        /\ InPool(s)' <=> InPool(s)
        /\ AtWorker(s)' <=> AtWorker(s)
    BY DEF Armed, InMain, InPool, AtWorker
  <2> QED
    BY <2>3, <2>4, <2>5, <2>6 DEF Carried, ExactlyOne
<1> QED
  BY <1>3, <1>4 DEF HandlerGood

-----------------------------------------------------------------------------
(* The main loop.                                                          *)

\* A name of a socket stays its only one when numbers are only closed.
LEMMA NamesKept ==
  ASSUME \A f \in Fds : fdtab'[f] \in {NoSock, fdtab[f]},
         NEW n, NEW s \in Socks, OnlyName(n, s)
  PROVE  \A f \in Fds : fdtab'[f] = s => f = n
BY ConstFacts DEF OnlyName

\* So does whatever stands for a socket keep its number.
LEMMA TokensKept ==
  ASSUME PairsInv, ~astray, TokenNumbers,
         \A f \in Fds : fdtab'[f] \in {NoSock, fdtab[f]}
  PROVE  /\ \A e \in batch : \A f \in Fds : fdtab'[f] = e.sock => f = e.so
         /\ \A i \in 1 .. Len(pool) : \A f \in Fds :
              fdtab'[f] = pool[i].sock => f = pool[i].so
         /\ \A w \in Workers : pc[w] # "idle" =>
              \A f \in Fds : fdtab'[f] = tok[w] => f = so[w]
<1>1. \A n, s : s \in Socks /\ OnlyName(n, s)
                 => \A f \in Fds : fdtab'[f] = s => f = n
  BY NamesKept
<1>2. \A e \in batch : e.sock \in Socks /\ OnlyName(e.so, e.sock)
  BY TokensBorn DEF TokenNumbers
<1>3. \A i \in 1 .. Len(pool) :
        pool[i].sock \in Socks /\ OnlyName(pool[i].so, pool[i].sock)
  BY TokensBorn DEF TokenNumbers
<1>4. \A w \in Workers : pc[w] # "idle" =>
        tok[w] \in Socks /\ OnlyName(so[w], tok[w])
  BY TokensBorn DEF TokenNumbers
<1> QED
  BY <1>1, <1>2, <1>3, <1>4

\* epoll_wait: the sockets that were armed and ready are now in the batch.
LEMMA HarvestHandler ==
  ASSUME PairsInv, ~astray, HandlerGood, Harvest
  PROVE  HandlerGood'
<1> DEFINE R == {f \in Fds : Ready(f)}
           ev(f) == [so |-> f, sock |-> fdtab[f],
                     event |-> IF fdtab[f] \in rst THEN "FAILED" ELSE "DATA"]
<1>0. /\ batch' = {ev(f) : f \in R}
      /\ \A f \in Fds : ep'[f] = IF f \in R THEN "off" ELSE ep[f]
      /\ UNCHANGED <<fdtab, so_map, pool, so, tok, pc>>
      /\ mpc \notin {"close", "enqueue"} /\ mpc' \notin {"close", "enqueue"}
      /\ batch = {}
  BY DEF Harvest, Disarm, tables, locals, PairsInv, TypeOK, MainTypeOK
<1>1. \A e \in batch' : \E f \in R : e.so = f /\ e.sock = fdtab[f] /\ e = ev(f)
  BY <1>0
<1>2. \A f \in R : Armed(f) /\ f \in Fds /\ fdtab[f] # NoSock
  BY DEF Ready, Armed, IsOpen
<1>3. \A f, g \in Fds : fdtab[f] = fdtab[g] /\ fdtab[f] # NoSock => f = g
  BY DEF PairsInv, SocketsDistinct
<1> HIDE DEF ev, R
<1>4. TokenNumbers'
  <2>1. \A e \in batch' : OnlyName(e.so, e.sock)'
    BY <1>0, <1>1, <1>2, <1>3 DEF OnlyName
  <2> QED
    BY <1>0, <2>1 DEF HandlerGood, TokenNumbers, OnlyName
<1>5. ASSUME NEW f \in Fds, NEW s, Mapped(f)', s = fdtab'[f]
      PROVE  ep'[f] # "none" /\ Carried(f, s)'
  <2>1. Mapped(f) /\ s = fdtab[f] /\ s # NoSock
    BY <1>0, <1>5, MappedFacts DEF Mapped
  <2>2. ep[f] # "none" /\ Carried(f, s) /\ ~InMain(s) /\ ~InBatch(s)
    BY <1>0, <2>1 DEF HandlerGood, InMain, InBatch
  <2>3. \A e \in batch' : e.sock = s => f \in R /\ e = ev(f)
    BY <1>1, <1>2, <1>3, <2>1
  <2>4. Single(s)'
    BY <1>0, <2>2, <2>3 DEF Carried, Single
  <2>5. /\ InPool(s)' <=> InPool(s)
        /\ AtWorker(s)' <=> AtWorker(s)
        /\ ~InMain(s)'
    BY <1>0 DEF InMain, InPool, AtWorker
  <2>6. CASE f \in R
    <3>1. ep'[f] = "off"
      BY <1>0, <2>6
    <3>2. ev(f) \in batch' /\ ev(f).sock = s
      BY <1>0, <2>1, <2>6 DEF ev
    <3>3. InBatch(s)' /\ ~Armed(f)' /\ Armed(f)
      BY <1>2, <2>6, <3>1, <3>2 DEF InBatch, Armed
    <3> QED
      BY <2>2, <2>4, <2>5, <3>1, <3>3 DEF Carried, ExactlyOne
  <2>7. CASE f \notin R
    <3>1. ep'[f] = ep[f]
      BY <1>0, <2>7
    <3>2. ~InBatch(s)' /\ (Armed(f)' <=> Armed(f))
      BY <2>3, <2>7, <3>1 DEF InBatch, Armed
    <3> QED
      BY <2>2, <2>4, <2>5, <3>1, <3>2 DEF Carried, ExactlyOne
  <2> QED
    BY <2>6, <2>7
<1>6. \A w \in Workers : pc'[w] = "idle" => tok'[w] = NoSock
  BY <1>0 DEF HandlerGood
<1> QED
  BY <1>4, <1>5, <1>6 DEF HandlerGood

\* The next event goes to the call that handles it; one for a number no table
\* knows stands for no registered socket.
LEMMA DispatchHandler ==
  ASSUME PairsInv, ~astray, HandlerGood, NEW e \in batch, Dispatch(e)
  PROVE  HandlerGood'
<1>0. /\ batch' = batch \ {e} /\ mpc = "dispatch"
      /\ UNCHANGED <<fdtab, ep, so_map, pool, so, tok, pc>>
      /\ e.so \in Fds /\ e.sock \in Socks /\ e.event \in EventId
  BY DEF Dispatch, tables, locals, PairsInv, TypeOK, MainTypeOK, Event
<1>1. \/ mpc' \in {"close", "enqueue"} /\ cur' = e /\ e.event # "ACCEPT"
      \/ mpc' \notin {"close", "enqueue"} /\ (e.event = "ACCEPT" \/ ~Mapped(e.so))
  <2>1. IsMaintaining(e.so) <=> Mapped(e.so)
    BY <1>0 DEF PairsInv, TablesAgree, Mapped
  <2> QED
    BY <1>0, <2>1 DEF Dispatch, EventId
<1>2. TokenNumbers'
  <2>1. /\ \A d \in batch' : OnlyName(d.so, d.sock)'
        /\ mpc' \in {"close", "enqueue"} => OnlyName(cur.so, cur.sock)'
    BY <1>0, <1>1 DEF HandlerGood, TokenNumbers, OnlyName
  <2> QED
    BY <1>0, <2>1 DEF HandlerGood, TokenNumbers, OnlyName
<1>3. ASSUME NEW f \in Fds, NEW s, Mapped(f)', s = fdtab'[f]
      PROVE  ep'[f] # "none" /\ Carried(f, s)'
  <2>1. Mapped(f) /\ s = fdtab[f] /\ s # NoSock
    BY <1>0, <1>3, MappedFacts DEF Mapped
  <2>2. ep[f] # "none" /\ Carried(f, s) /\ ~InMain(s)
    BY <1>0, <2>1 DEF HandlerGood, InMain
  <2>3. /\ InPool(s)' <=> InPool(s)
        /\ AtWorker(s)' <=> AtWorker(s)
        /\ Armed(f)' <=> Armed(f)
        /\ ep'[f] = ep[f]
    BY <1>0 DEF Armed, InPool, AtWorker
  <2>4. Single(s)'
    BY <1>0, <2>2 DEF Carried, Single
  <2>5. CASE e.sock = s
    <3>1. e.so = f
      BY <1>0, <2>1, <2>5 DEF HandlerGood, TokenNumbers, OnlyName
    <3>2. e.event # "ACCEPT"
      BY <2>1, <3>1 DEF PairsInv, HeldFresh, Accepted, Fresh
    <3>3. InMain(s)'
      BY <1>1, <2>1, <2>5, <3>1, <3>2 DEF InMain
    <3>4. InBatch(s) /\ ~InBatch(s)'
      BY <1>0, <2>2, <2>5 DEF Carried, Single, InBatch
    <3> QED
      BY <2>2, <2>3, <2>4, <3>3, <3>4 DEF Carried, ExactlyOne
  <2>6. CASE e.sock # s
    <3>1. ~InMain(s)'
      BY <1>1, <2>6 DEF InMain
    <3>2. InBatch(s)' <=> InBatch(s)
      BY <1>0, <2>6 DEF InBatch
    <3> QED
      BY <2>2, <2>3, <2>4, <3>1, <3>2 DEF Carried, ExactlyOne
  <2> QED
    BY <2>5, <2>6
<1>4. \A w \in Workers : pc'[w] = "idle" => tok'[w] = NoSock
  BY <1>0 DEF HandlerGood
<1> QED
  BY <1>2, <1>3, <1>4 DEF HandlerGood

\* The event goes on to the end of the queue.
LEMMA EnqueueHandler ==
  ASSUME PairsInv, ~astray, HandlerGood, MainEnqueue
  PROVE  HandlerGood'
<1> DEFINE x == [so |-> cur.so, sock |-> cur.sock]
           n == Len(pool)
<1>0. /\ mpc = "enqueue" /\ mpc' \notin {"close", "enqueue"}
      /\ pool' = Append(pool, x)
      /\ UNCHANGED <<fdtab, ep, so_map, batch, so, tok, pc>>
  BY DEF MainEnqueue, EventDone, tables, locals
<1>1. x \in Item /\ pool \in Seq(Item) /\ n \in Nat
  BY <1>0 DEF PairsInv, TypeOK, TablesTypeOK, MainTypeOK, Event, Item
<1>2. /\ Len(pool') = n + 1 /\ pool'[n + 1] = x
      /\ \A i \in 1 .. n : pool'[i] = pool[i]
  BY <1>0, <1>1
<1>3. \A i \in 1 .. Len(pool') : i \in 1 .. n \/ i = n + 1
  BY <1>1, <1>2
<1>4. TokenNumbers'
  <2>1. \A i \in 1 .. Len(pool') : OnlyName(pool[i].so, pool[i].sock)'
    <3> SUFFICES ASSUME NEW i \in 1 .. Len(pool')
                 PROVE  OnlyName(pool[i].so, pool[i].sock)'
      OBVIOUS
    <3>1. CASE i \in 1 .. n
      BY <1>0, <1>2, <3>1 DEF HandlerGood, TokenNumbers, OnlyName
    <3>2. CASE i = n + 1
      BY <1>0, <1>2, <3>2 DEF HandlerGood, TokenNumbers, OnlyName
    <3> QED
      BY <1>3, <3>1, <3>2
  <2> QED
    BY <1>0, <2>1 DEF HandlerGood, TokenNumbers, OnlyName
<1>5. ASSUME NEW f \in Fds, NEW s, Mapped(f)', s = fdtab'[f]
      PROVE  ep'[f] # "none" /\ Carried(f, s)'
  <2>1. ep[f] # "none" /\ Carried(f, s)
    BY <1>0, <1>5 DEF HandlerGood, Mapped
  <2>2. /\ InBatch(s)' <=> InBatch(s)
        /\ AtWorker(s)' <=> AtWorker(s)
        /\ Armed(f)' <=> Armed(f)
        /\ ~InMain(s)' /\ ep'[f] = ep[f]
    BY <1>0 DEF Armed, InBatch, AtWorker, InMain
  <2>3. InPool(s)' <=> InPool(s) \/ cur.sock = s
    <3>1. n + 1 \in 1 .. Len(pool') /\ 1 .. n \subseteq 1 .. Len(pool')
      BY <1>1, <1>2
    <3> QED
      BY <1>2, <1>3, <3>1 DEF InPool
  <2>4. InMain(s) <=> cur.sock = s
    BY <1>0 DEF InMain
  <2>5. \A i, j \in 1 .. Len(pool') :
          pool'[i].sock = s /\ pool'[j].sock = s => i = j
    <3>1. CASE cur.sock = s
      <4>1. ~InPool(s)
        BY <2>1, <2>4, <3>1 DEF Carried, ExactlyOne
      <4>2. \A i \in 1 .. Len(pool') : pool'[i].sock = s => i = n + 1
        BY <1>2, <1>3, <4>1 DEF InPool
      <4> QED
        BY <4>2
    <3>2. CASE cur.sock # s
      <4>1. pool'[n + 1].sock # s
        BY <1>2, <3>2
      <4>2. \A i, j \in 1 .. n : pool[i].sock = s /\ pool[j].sock = s => i = j
        BY <2>1 DEF Carried, Single
      <4> QED
        BY <1>2, <1>3, <4>1, <4>2
    <3> QED
      BY <3>1, <3>2
  <2>6. Single(s)'
    BY <1>0, <2>1, <2>5 DEF Carried, Single
  <2> QED
    BY <2>1, <2>2, <2>3, <2>4, <2>6 DEF Carried, ExactlyOne
<1>6. \A w \in Workers : pc'[w] = "idle" => tok'[w] = NoSock
  BY <1>0 DEF HandlerGood
<1> QED
  BY <1>4, <1>5, <1>6 DEF HandlerGood

\* close_socket takes the numbers of one pair out of the tables, and what stood
\* for one of them stands for no mapped number any more.
LEMMA CloseSocketHandler ==
  ASSUME PairsInv, ~astray, HandlerGood, ~astray', NEW k \in Fds, NEW s0 \in Socks,
         CloseSocket(k, s0), OnlyName(k, s0), NEW f \in Fds, Mapped(f)'
  PROVE  /\ Mapped(f) /\ fdtab'[f] = fdtab[f] /\ ep'[f] = ep[f]
         /\ fdtab[f] # s0
<1>1. f \notin Pair(k) /\ Mapped(f)
  BY DEF CloseSocket, Unmapped, Mapped
<1>2. fdtab'[f] = fdtab[f] /\ ep'[f] = ep[f]
  BY <1>1 DEF CloseSocket, CloseFds, FdsClosed
<1>3. f # k
  BY <1>1, ConstFacts DEF Pair
<1>4. fdtab[f] # s0
  BY <1>3 DEF OnlyName
<1> QED
  BY <1>1, <1>2, <1>4

LEMMA MainCloseHandler ==
  ASSUME PairsInv, ~astray, HandlerGood, ~astray', MainClose
  PROVE  HandlerGood'
<1> DEFINE k == cur.so
           s0 == cur.sock
<1>0. /\ mpc = "close" /\ mpc' \notin {"close", "enqueue"}
      /\ CloseSocket(k, s0)
      /\ UNCHANGED <<batch, pool, so, tok, pc>>
      /\ k \in Fds /\ s0 \in Socks
  BY DEF MainClose, EventDone, locals, PairsInv, TypeOK, MainTypeOK, Event
<1>1. OnlyName(k, s0)
  BY <1>0 DEF HandlerGood, TokenNumbers
<1>2. \A f \in Fds : fdtab'[f] \in {NoSock, fdtab[f]}
  BY <1>0 DEF CloseSocket, CloseFds
<1>3. TokenNumbers'
  BY <1>0, <1>2, TokensKept DEF HandlerGood, TokenNumbers, OnlyName
<1>4. ASSUME NEW f \in Fds, NEW s, Mapped(f)', s = fdtab'[f]
      PROVE  ep'[f] # "none" /\ Carried(f, s)'
  <2>1. Mapped(f) /\ s = fdtab[f] /\ ep'[f] = ep[f] /\ s # s0
    BY <1>0, <1>1, <1>4, CloseSocketHandler
  <2>2. ep[f] # "none" /\ Carried(f, s)
    BY <2>1 DEF HandlerGood
  <2>3. /\ InBatch(s)' <=> InBatch(s)
        /\ InPool(s)' <=> InPool(s)
        /\ AtWorker(s)' <=> AtWorker(s)
        /\ Armed(f)' <=> Armed(f)
        /\ Single(s)' <=> Single(s)
        /\ ~InMain(s)' /\ ~InMain(s)
    BY <1>0, <2>1 DEF InBatch, InPool, AtWorker, Armed, InMain, Single
  <2> QED
    BY <2>1, <2>2, <2>3 DEF Carried, ExactlyOne
<1>5. \A w \in Workers : pc'[w] = "idle" => tok'[w] = NoSock
  BY <1>0 DEF HandlerGood
<1> QED
  BY <1>3, <1>4, <1>5 DEF HandlerGood

\* _did_accept_sockets: both numbers are registered with the poller, and so far
\* nothing stood for their sockets.
LEMMA DidAcceptHandler ==
  ASSUME PairsInv, ~astray, HandlerGood, DidAccept
  PROVE  HandlerGood'
<1> DEFINE c == cur.so
           d == mdst
<1>0. /\ mpc = "register" /\ mpc' \notin {"close", "enqueue"}
      /\ so_map' = [so_map EXCEPT ![c] = d, ![d] = c]
      /\ ep' = MonitorAdd({c, d})
      /\ UNCHANGED <<fdtab, batch, pool, so, tok, pc>>
      /\ c \in Fds /\ d \in Fds
  BY DEF DidAccept, EventDone, locals, PairsInv, TypeOK, MainTypeOK, Event
<1>1. /\ Fresh(c, fdtab[c]) /\ Fresh(d, fdtab[d])
      /\ \A e \in Accepted : e.so # c /\ e.so # d /\ Fresh(e.so, e.sock)
  BY <1>0 DEF PairsInv, HeldFresh, Fresh
<1>2. TokenNumbers'
  BY <1>0 DEF HandlerGood, TokenNumbers, OnlyName
<1>3. \A f \in Fds : ep'[f] = IF f \in {c, d} /\ IsOpen(f) /\ ep[f] = "none"
                                THEN "on" ELSE ep[f]
  BY <1>0 DEF MonitorAdd
<1>4. ASSUME NEW f \in Fds, f \in {c, d}
      PROVE  ep'[f] = "on" /\ Carried(f, fdtab[f])'
  <2>1. PICK s : s = fdtab[f]
    OBVIOUS
  <2>2. Fresh(f, s) /\ s # NoSock /\ partner[s] = NoSock /\ IsOpen(f)
    BY <1>1, <1>4, <2>1 DEF Fresh, IsOpen
  <2>3. ep[f] = "none"
    BY <2>1, <2>2 DEF PairsInv, TokensRegistered
  <2>4. ep'[f] = "on"
    BY <1>3, <1>4, <2>2, <2>3
  <2>5. ~InBatch(s)
    <3> SUFFICES ASSUME NEW e \in batch, e.sock = s PROVE FALSE
      BY DEF InBatch
    <3>1. e \in Accepted
      BY <2>2 DEF PairsInv, TokensRegistered
    <3>2. fdtab[e.so] = s /\ e.so # f
      BY <1>1, <1>4, <3>1 DEF Fresh
    <3>3. e.so \in Fds
      BY DEF PairsInv, TypeOK, MainTypeOK, Event
    <3> QED
      BY <2>1, <2>2, <3>2, <3>3 DEF PairsInv, SocketsDistinct
  <2>6. ~InPool(s)
    BY <2>2 DEF PairsInv, TokensRegistered, InPool
  <2>7. ~AtWorker(s)
    BY <2>2 DEF PairsInv, TokensRegistered, HandlerGood, AtWorker
  <2>8. /\ ~InBatch(s)' /\ ~InPool(s)' /\ ~AtWorker(s)' /\ ~InMain(s)'
        /\ Armed(f)'
    BY <1>0, <2>4, <2>5, <2>6, <2>7
    DEF InBatch, InPool, AtWorker, InMain, Armed
  <2>9. Single(s)'
    BY <2>8 DEF Single, InBatch, InPool, AtWorker
  <2>10. Carried(f, s)'
    BY <2>8, <2>9 DEF Carried, ExactlyOne
  <2> QED
    BY <1>0, <2>1, <2>4, <2>10
<1>5. ASSUME NEW f \in Fds, NEW s, Mapped(f)', s = fdtab'[f]
      PROVE  ep'[f] # "none" /\ Carried(f, s)'
  <2>1. CASE f \in {c, d}
    <3>1. ep'[f] = "on" /\ Carried(f, fdtab[f])'
      BY <1>4, <2>1
    <3> QED
      BY <1>5, <3>1 DEF Carried, Single, ExactlyOne, Armed, InBatch, InMain,
         InPool, AtWorker
  <2>2. CASE f \notin {c, d}
    <3>1. Mapped(f) /\ ep'[f] = ep[f] /\ s = fdtab[f]
      BY <1>0, <1>3, <1>5, <2>2 DEF Mapped, PairsInv, TypeOK, TablesTypeOK
    <3>2. ep[f] # "none" /\ Carried(f, s)
      BY <3>1 DEF HandlerGood
    <3>3. /\ InBatch(s)' <=> InBatch(s)
          /\ InPool(s)' <=> InPool(s)
          /\ AtWorker(s)' <=> AtWorker(s)
          /\ Armed(f)' <=> Armed(f)
          /\ Single(s)' <=> Single(s)
          /\ ~InMain(s)' /\ ~InMain(s)
      BY <1>0, <3>1 DEF InBatch, InPool, AtWorker, Armed, InMain, Single
    <3> QED
      BY <3>1, <3>2, <3>3 DEF Carried, ExactlyOne
  <2> QED
    BY <2>1, <2>2
<1>6. \A w \in Workers : pc'[w] = "idle" => tok'[w] = NoSock
  BY <1>0 DEF HandlerGood
<1> QED
  BY <1>2, <1>5, <1>6 DEF HandlerGood

-----------------------------------------------------------------------------
(* The workers.                                                            *)

\* The head of the queue goes to a worker that was idle.
LEMMA TakeHandler ==
  ASSUME PairsInv, ~astray, HandlerGood, NEW w \in Workers, Take(w)
  PROVE  HandlerGood'
<1> DEFINE n == Len(pool)
<1>0. /\ pc[w] = "idle" /\ tok[w] = NoSock
      /\ pool # <<>> /\ pool' = Tail(pool)
      /\ so' = [so EXCEPT ![w] = Head(pool).so]
      /\ tok' = [tok EXCEPT ![w] = Head(pool).sock]
      /\ pc' = [pc EXCEPT ![w] = "lookup"]
      /\ UNCHANGED <<fdtab, ep, so_map, batch, mpc, cur>>
  BY DEF Take, TakeItem, GoTo, tables, main, HandlerGood
<1>1. /\ pool \in Seq(Item) /\ n \in Nat /\ n >= 1 /\ Head(pool) = pool[1]
      /\ Len(pool') = n - 1
      /\ \A i \in 1 .. n - 1 : pool'[i] = pool[i + 1] /\ i + 1 \in 1 .. n
      /\ 1 \in 1 .. n
  <2>1. pool \in Seq(Item)
    BY DEF PairsInv, TypeOK, TablesTypeOK
  <2> QED
    BY <1>0, <2>1
<1>2. /\ so \in [Workers -> Fds \cup {None}] /\ tok \in [Workers -> 0 .. MaxSock]
      /\ pc \in [Workers -> WorkerPC]
  BY DEF PairsInv, TypeOK, WorkersTypeOK
<1>3. /\ \A v \in Workers : v # w => so'[v] = so[v] /\ tok'[v] = tok[v]
                                     /\ pc'[v] = pc[v]
      /\ so'[w] = pool[1].so /\ tok'[w] = pool[1].sock /\ pc'[w] = "lookup"
  BY <1>0, <1>1, <1>2
<1>4. \A i \in 2 .. n : i - 1 \in 1 .. n - 1 /\ (i - 1) + 1 = i
  BY <1>1
<1>5. TokenNumbers'
  <2>1. \A i \in 1 .. Len(pool') : OnlyName(pool[i].so, pool[i].sock)'
    BY <1>0, <1>1 DEF HandlerGood, TokenNumbers, OnlyName
  <2>2. \A v \in Workers : pc'[v] # "idle" => OnlyName(so[v], tok[v])'
    BY <1>0, <1>1, <1>3 DEF HandlerGood, TokenNumbers, OnlyName
  <2> QED
    BY <1>0, <2>1, <2>2 DEF HandlerGood, TokenNumbers, OnlyName
<1>6. ASSUME NEW f \in Fds, NEW s, Mapped(f)', s = fdtab'[f]
      PROVE  ep'[f] # "none" /\ Carried(f, s)'
  <2>1. Mapped(f) /\ s = fdtab[f] /\ s # NoSock
    BY <1>0, <1>6, MappedFacts DEF Mapped
  <2>2. ep[f] # "none" /\ Carried(f, s) /\ Single(s)
    BY <2>1 DEF HandlerGood, Carried
  <2>3. /\ InBatch(s)' <=> InBatch(s)
        /\ InMain(s)' <=> InMain(s)
        /\ Armed(f)' <=> Armed(f)
        /\ ep'[f] = ep[f]
    BY <1>0 DEF InBatch, Armed, InMain
  <2>9. Len(pool') = n - 1
    BY <1>1
  <2>4. \A i, j \in 1 .. Len(pool') :
          pool'[i].sock = s /\ pool'[j].sock = s => i = j
    <3> SUFFICES ASSUME NEW i \in 1 .. n - 1, NEW j \in 1 .. n - 1,
                        pool'[i].sock = s, pool'[j].sock = s
                 PROVE  i = j
      BY <2>9
    <3>0. /\ pool[i + 1].sock = s /\ i + 1 \in 1 .. Len(pool)
          /\ pool[j + 1].sock = s /\ j + 1 \in 1 .. Len(pool)
      BY <1>1
    <3>1. i + 1 = j + 1
      BY <2>2, <3>0 DEF Single
    <3> QED
      BY <1>1, <3>1
  <2>5. CASE pool[1].sock = s
    <3>1. InPool(s) /\ ~AtWorker(s)
      BY <1>1, <2>2, <2>5 DEF InPool, Carried, ExactlyOne
    <3>2. ~InPool(s)'
      <4> SUFFICES ASSUME NEW i \in 1 .. n - 1, pool'[i].sock = s PROVE FALSE
        BY <1>1 DEF InPool
      <4>1. i + 1 = 1
        BY <1>1, <2>2, <2>5 DEF Single
      <4> QED
        BY <1>1, <4>1
    <3>3. AtWorker(s)'
      BY <1>3, <2>5 DEF AtWorker
    <3>4. \A u, v \in Workers : tok'[u] = s /\ tok'[v] = s => u = v
      BY <1>3, <3>1 DEF AtWorker
    <3>5. Single(s)'
      BY <1>0, <2>2, <2>4, <3>4 DEF Single
    <3> QED
      BY <2>2, <2>3, <3>1, <3>2, <3>3, <3>5 DEF Carried, ExactlyOne
  <2>6. CASE pool[1].sock # s
    <3>1. InPool(s)' <=> InPool(s)
      <4>1. ASSUME NEW i \in 1 .. n, pool[i].sock = s PROVE InPool(s)'
        <5>1. i \in 2 .. n
          BY <1>1, <2>6, <4>1
        <5>2. i - 1 \in 1 .. Len(pool') /\ pool'[i - 1].sock = s
          BY <1>1, <1>4, <4>1, <5>1
        <5> QED
          BY <5>2 DEF InPool
      <4>2. ASSUME NEW i \in 1 .. n - 1, pool'[i].sock = s PROVE InPool(s)
        BY <1>1, <4>2 DEF InPool
      <4> QED
        BY <1>1, <4>1, <4>2 DEF InPool
    <3>2. \A v \in Workers : tok'[v] = s <=> tok[v] = s
      BY <1>0, <1>3, <2>1, <2>6
    <3>3. (AtWorker(s)' <=> AtWorker(s)) /\ Single(s)'
      BY <1>0, <2>2, <2>4, <3>2 DEF AtWorker, Single
    <3> QED
      BY <2>2, <2>3, <3>1, <3>3 DEF Carried, ExactlyOne
  <2> QED
    BY <2>5, <2>6
<1>7. \A v \in Workers : pc'[v] = "idle" => tok'[v] = NoSock
  BY <1>3 DEF HandlerGood
<1> QED
  BY <1>5, <1>6, <1>7 DEF HandlerGood

\* Re-arming: the worker's socket is armed again, or no longer mapped.
LEMMA RearmHandler ==
  ASSUME PairsInv, ~astray, HandlerGood, ~astray', NEW w \in Workers, Rearm(w)
  PROVE  HandlerGood'
<1> DEFINE k == so[w]
           s0 == tok[w]
<1>0. /\ pc[w] # "idle" /\ k \in Fds /\ s0 \in Socks
      /\ UNCHANGED <<batch, pool, mpc, cur, so_map>>
      /\ pc' = [pc EXCEPT ![w] = "idle"]
      /\ so' = [so EXCEPT ![w] = None] /\ tok' = [tok EXCEPT ![w] = NoSock]
      /\ so \in [Workers -> Fds \cup {None}] /\ tok \in [Workers -> 0 .. MaxSock]
      /\ pc \in [Workers -> WorkerPC]
  BY DEF Rearm, Finish, GoTo, tables, main, PairsInv, TypeOK, WorkersTypeOK
<1>1. \A v \in Workers : /\ v # w => /\ so'[v] = so[v] /\ tok'[v] = tok[v]
                                     /\ pc'[v] = pc[v]
                         /\ v = w => tok'[v] = NoSock /\ pc'[v] = "idle"
  BY <1>0
<1>2. ~Astray(k, s0)
  BY DEF Rearm, Astray, IsOpen
<1>3. \A f \in Fds : fdtab'[f] \in {NoSock, fdtab[f]}
  BY DEF Rearm, CloseFds
<1>4. TokenNumbers'
  <2>1. \A v \in Workers : pc'[v] # "idle" => OnlyName(so[v], tok[v])'
    BY <1>1, <1>3, TokensKept DEF HandlerGood, OnlyName
  <2>2. mpc' \in {"close", "enqueue"} => OnlyName(cur.so, cur.sock)'
    <3> SUFFICES ASSUME mpc \in {"close", "enqueue"}
                 PROVE  \A f \in Fds : fdtab'[f] = cur.sock => f = cur.so
      BY <1>0 DEF OnlyName
    <3>1. cur.sock \in Socks /\ OnlyName(cur.so, cur.sock)
      BY TokensBorn DEF HandlerGood, TokenNumbers
    <3> QED
      BY <1>3, <3>1, ConstFacts DEF OnlyName
  <2>3. /\ \A e \in batch' : OnlyName(e.so, e.sock)'
        /\ \A i \in 1 .. Len(pool') : OnlyName(pool[i].so, pool[i].sock)'
    BY <1>0, <1>3, TokensKept DEF HandlerGood, OnlyName
  <2> QED
    BY <2>1, <2>2, <2>3 DEF TokenNumbers
<1>5. ASSUME NEW f \in Fds, NEW s, Mapped(f)', s = fdtab'[f]
      PROVE  ep'[f] # "none" /\ Carried(f, s)'
  <2>1. Mapped(f) /\ fdtab[f] # NoSock
    BY <1>0, <1>5, MappedFacts DEF Mapped
  <2>2. /\ f # k => fdtab'[f] = fdtab[f] /\ ep'[f] = ep[f]
        /\ f = k => fdtab'[f] = fdtab[f] /\ ep' = MonitorMod(f)
    BY <2>1 DEF Rearm, CloseFds, RearmInterest, MonitorMod, Mapped, PairsInv,
       TypeOK, SocketsTypeOK
  <2>3. s = fdtab[f] /\ s # NoSock
    BY <1>5, <2>1, <2>2
  <2>4. ep[f] # "none" /\ Carried(f, s) /\ Single(s)
    BY <2>1, <2>3 DEF HandlerGood, Carried
  <2>5. f = k <=> s = s0
    BY <1>0, <1>2, <2>3 DEF HandlerGood, TokenNumbers, OnlyName, Astray, IsOpen
  <2>6. /\ InBatch(s)' <=> InBatch(s)
        /\ InMain(s)' <=> InMain(s)
        /\ InPool(s)' <=> InPool(s)
    BY <1>0 DEF InBatch, InMain, InPool
  <2>7. \A v \in Workers : tok'[v] = s => tok[v] = s /\ v # w
    BY <1>1, <2>3
  <2>8. Single(s)'
    BY <1>0, <2>4, <2>7 DEF Single
  <2>9. CASE f = k
    <3>1. AtWorker(s)
      BY <2>5, <2>9 DEF AtWorker
    <3>2. ~AtWorker(s)'
      BY <2>4, <2>5, <2>7, <2>9 DEF AtWorker, Single
    <3>3. ep'[f] = "on"
      <4>1. ep' = [ep EXCEPT ![f] = IF IsOpen(f) /\ @ # "none" THEN "on" ELSE @]
        BY <2>2, <2>9 DEF MonitorMod
      <4>2. IsOpen(f) /\ ep \in [Fds -> {"none", "off", "on"}]
        BY <2>1 DEF IsOpen, PairsInv, TypeOK, SocketsTypeOK
      <4> QED
        BY <2>4, <4>1, <4>2
    <3>4. Armed(f)'
      BY <3>3 DEF Armed
    <3> QED
      BY <2>4, <2>6, <2>8, <3>1, <3>2, <3>3, <3>4 DEF Carried, ExactlyOne
  <2>10. CASE f # k
    <3>1. s # s0
      BY <2>5, <2>10
    <3>2. AtWorker(s)' <=> AtWorker(s)
      BY <1>1, <2>3, <3>1 DEF AtWorker
    <3>3. Armed(f)' <=> Armed(f)
      BY <2>2, <2>10 DEF Armed
    <3> QED
      BY <2>2, <2>4, <2>6, <2>8, <2>10, <3>2, <3>3 DEF Carried, ExactlyOne
  <2> QED
    BY <2>9, <2>10
<1>6. \A v \in Workers : pc'[v] = "idle" => tok'[v] = NoSock
  BY <1>1 DEF HandlerGood
<1> QED
  BY <1>4, <1>5, <1>6 DEF HandlerGood

LEMMA WorkerCloseHandler ==
  ASSUME PairsInv, ~astray, HandlerGood, ~astray', NEW w \in Workers,
         WorkerClose(w)
  PROVE  HandlerGood'
<1> DEFINE k == so[w]
           s0 == tok[w]
<1>0. /\ pc[w] # "idle" /\ k \in Fds /\ s0 \in Socks
      /\ CloseSocket(k, s0)
      /\ UNCHANGED <<batch, pool, mpc, cur>>
      /\ pc' = [pc EXCEPT ![w] = "idle"]
      /\ so' = [so EXCEPT ![w] = None] /\ tok' = [tok EXCEPT ![w] = NoSock]
      /\ so \in [Workers -> Fds \cup {None}] /\ tok \in [Workers -> 0 .. MaxSock]
      /\ pc \in [Workers -> WorkerPC]
  BY DEF WorkerClose, Finish, GoTo, main, PairsInv, TypeOK, WorkersTypeOK
<1>1. \A v \in Workers : /\ v # w => /\ so'[v] = so[v] /\ tok'[v] = tok[v]
                                     /\ pc'[v] = pc[v]
                         /\ v = w => tok'[v] = NoSock /\ pc'[v] = "idle"
  BY <1>0
<1>2. OnlyName(k, s0)
  BY <1>0 DEF HandlerGood, TokenNumbers
<1>3. \A f \in Fds : fdtab'[f] \in {NoSock, fdtab[f]}
  BY <1>0 DEF CloseSocket, CloseFds
<1>4. TokenNumbers'
  <2>1. \A v \in Workers : pc'[v] # "idle" => OnlyName(so[v], tok[v])'
    BY <1>1, <1>3, TokensKept DEF HandlerGood, OnlyName
  <2>2. mpc' \in {"close", "enqueue"} => OnlyName(cur.so, cur.sock)'
    <3> SUFFICES ASSUME mpc \in {"close", "enqueue"}
                 PROVE  \A f \in Fds : fdtab'[f] = cur.sock => f = cur.so
      BY <1>0 DEF OnlyName
    <3>1. cur.sock \in Socks /\ OnlyName(cur.so, cur.sock)
      BY TokensBorn DEF HandlerGood, TokenNumbers
    <3> QED
      BY <1>3, <3>1, ConstFacts DEF OnlyName
  <2>3. /\ \A e \in batch' : OnlyName(e.so, e.sock)'
        /\ \A i \in 1 .. Len(pool') : OnlyName(pool[i].so, pool[i].sock)'
    BY <1>0, <1>3, TokensKept DEF HandlerGood, OnlyName
  <2> QED
    BY <2>1, <2>2, <2>3 DEF TokenNumbers
<1>5. ASSUME NEW f \in Fds, NEW s, Mapped(f)', s = fdtab'[f]
      PROVE  ep'[f] # "none" /\ Carried(f, s)'
  <2>1. Mapped(f) /\ s = fdtab[f] /\ ep'[f] = ep[f] /\ s # s0
    BY <1>0, <1>2, <1>5, CloseSocketHandler
  <2>2. ep[f] # "none" /\ Carried(f, s) /\ s # NoSock
    BY <2>1, MappedFacts DEF HandlerGood
  <2>3. \A v \in Workers : tok'[v] = s <=> tok[v] = s
    BY <1>1, <2>1, <2>2
  <2>4. /\ InBatch(s)' <=> InBatch(s)
        /\ InPool(s)' <=> InPool(s)
        /\ AtWorker(s)' <=> AtWorker(s)
        /\ Armed(f)' <=> Armed(f)
        /\ Single(s)' <=> Single(s)
        /\ InMain(s)' <=> InMain(s)
    BY <1>0, <2>1, <2>3 DEF InBatch, InPool, AtWorker, Armed, InMain, Single
  <2> QED
    BY <2>1, <2>2, <2>4 DEF Carried, ExactlyOne
<1>6. \A v \in Workers : pc'[v] = "idle" => tok'[v] = NoSock
  BY <1>1 DEF HandlerGood
<1> QED
  BY <1>4, <1>5, <1>6 DEF HandlerGood

\* The steps of a worker between the two critical sections only move its own
\* program counter; the first section may close an unmapped number.
LEMMA WorkerHandler ==
  ASSUME PairsInv, ~astray, HandlerGood, ~astray', NEW w \in Workers,
         WorkerStep(w)
  PROVE  HandlerGood'
<1>0. TypeOK /\ pc \in [Workers -> WorkerPC]
  BY DEF PairsInv, TypeOK, WorkersTypeOK
<1>1. ASSUME NEW l \in WorkerPC, GoTo(w, l), l # "idle", pc[w] # "idle",
             UNCHANGED <<fdtab, ep, so_map, main, pool, so, tok>>
      PROVE  HandlerGood'
  <2>1. \A v \in Workers : pc'[v] = "idle" <=> pc[v] = "idle"
    BY <1>0, <1>1 DEF GoTo
  <2>2. \A f \in Fds : Mapped(f)' => Mapped(f)
    BY <1>1 DEF Mapped
  <2> QED
    BY <1>0, <1>1, <2>1, <2>2, HandlerFrame DEF main
<1>2. CASE Take(w)
  BY <1>2, TakeHandler
<1>3. CASE Lookup(w)
  <2>1. CASE so_map[so[w]] # None
    BY <1>1, <1>3, <2>1 DEF Lookup, WorkerPC, tables
  <2>2. CASE so_map[so[w]] = None
    <3>0. /\ CloseFds({so[w]}) /\ GoTo(w, "close") /\ pc[w] = "lookup"
          /\ UNCHANGED <<so_map, main, pool, so, tok>>
      BY <1>3, <2>2 DEF Lookup, tables
    <3>1. \A v \in Workers : pc'[v] = "idle" <=> pc[v] = "idle"
      BY <1>0, <3>0 DEF GoTo
    <3>2. \A f \in Fds : Mapped(f)' => /\ Mapped(f) /\ fdtab'[f] = fdtab[f]
                                       /\ ep'[f] = ep[f]
      BY <2>2, <3>0 DEF Mapped, CloseFds
    <3>3. \A f \in Fds : fdtab'[f] \in {NoSock, fdtab[f]}
      BY <3>0 DEF CloseFds
    <3> QED
      BY <1>0, <3>0, <3>1, <3>2, <3>3, HandlerFrame DEF main
  <2> QED
    BY <2>1, <2>2
<1>4. CASE Deref(w)
  BY <1>1, <1>4 DEF Deref, WorkerPC, tables
<1>5. CASE Recv(w)
  BY <1>1, <1>5 DEF Recv, RecvFrom, WorkerPC, tables
<1>6. CASE RecvDone(w)
  BY <1>1, <1>6 DEF RecvDone, RecvFrom, WorkerPC, tables
<1>7. CASE Block(w)
  BY <1>1, <1>7 DEF Block, SetDstFlag, WorkerPC, tables
<1>8. CASE Send(w)
  BY <1>1, <1>8 DEF Send, WorkerPC, tables
<1>9. CASE SendDone(w)
  BY <1>1, <1>9 DEF SendDone, WorkerPC, tables
<1>10. CASE Unblock(w)
  BY <1>1, <1>10 DEF Unblock, SetDstFlag, WorkerPC, tables
<1>11. CASE Rearm(w)
  BY <1>11, RearmHandler
<1>12. CASE WorkerClose(w)
  BY <1>12, WorkerCloseHandler
<1> QED
  BY <1>2, <1>3, <1>4, <1>5, <1>6, <1>7, <1>8, <1>9, <1>10, <1>11, <1>12
  DEF WorkerStep

LEMMA MainHandler ==
  ASSUME PairsInv, ~astray, HandlerGood, ~astray', MainStep
  PROVE  HandlerGood'
<1>0. TypeOK
  BY DEF PairsInv
<1>1. ASSUME NEW S, CloseFds(S), UNCHANGED <<so_map, batch, pool, so, tok, pc>>,
             mpc \notin {"close", "enqueue"}, mpc' \notin {"close", "enqueue"},
             \A f \in S \cap Fds : ~Mapped(f)
      PROVE  HandlerGood'
  <2>1. \A f \in Fds : Mapped(f)' => /\ Mapped(f) /\ fdtab'[f] = fdtab[f]
                                     /\ ep'[f] = ep[f]
    BY <1>1 DEF Mapped, CloseFds
  <2>2. \A f \in Fds : fdtab'[f] \in {NoSock, fdtab[f]}
    BY <1>1 DEF CloseFds
  <2> QED
    BY <1>0, <1>1, <2>1, <2>2, HandlerFrame
<1>2. CASE Harvest
  BY <1>2, HarvestHandler
<1>3. CASE AcceptEnd \/ AcceptInval
  <2>1. UNCHANGED <<fdtab, ep, so_map, batch, pool, so, tok, pc>>
    BY <1>3 DEF AcceptEnd, AcceptInval, tables, locals
  <2>2. mpc \notin {"close", "enqueue"} /\ mpc' \notin {"close", "enqueue"}
    BY <1>3 DEF AcceptEnd, AcceptInval
  <2>3. \A f \in Fds : Mapped(f)' => Mapped(f)
    BY <2>1 DEF Mapped
  <2> QED
    BY <1>0, <2>1, <2>2, <2>3, HandlerFrame
<1>4. CASE MainClose
  BY <1>4, MainCloseHandler
<1>5. CASE MainEnqueue
  BY <1>5, EnqueueHandler
<1>6. CASE Deny \/ ConnectFail
  <2>1. PICK S : /\ CloseFds(S) /\ S \subseteq {cur.so, mdst}
                 /\ mdst \in S /\ mdst # cur.so => mpc = "register"
    BY <1>6 DEF Deny, ConnectFail
  <2>2. /\ mpc \in {"connect", "register"} /\ mpc' \notin {"close", "enqueue"}
        /\ UNCHANGED <<so_map, batch, pool, so, tok, pc>>
    BY <1>6 DEF Deny, ConnectFail, EventDone, tables, locals
  <2>3. \A f \in S \cap Fds : ~Mapped(f)
    BY <2>1, <2>2 DEF PairsInv, HeldFresh, Fresh
  <2> QED
    BY <1>1, <2>1, <2>2, <2>3
<1>7. CASE DidAccept
  BY <1>7, DidAcceptHandler
<1>8. ASSUME NEW f \in Fds, AcceptOne(f) \/ OpenDst(f) PROVE HandlerGood'
  <2>1. /\ OpenFd(f) /\ mpc \notin {"close", "enqueue"}
        /\ mpc' \notin {"close", "enqueue"}
        /\ UNCHANGED <<ep, so_map, pool, so, tok, pc, cur>>
        /\ \/ UNCHANGED batch
           \/ batch' = batch \cup {[so |-> f, sock |-> born + 1,
                                    event |-> "ACCEPT"]}
    BY <1>8 DEF AcceptOne, OpenDst, AcceptNext, tables, locals
  <2> QED
    BY <2>1, OpenHandler
<1>9. ASSUME NEW e \in batch, Dispatch(e) PROVE HandlerGood'
  BY <1>9, DispatchHandler
<1> QED
  BY <1>2, <1>3, <1>4, <1>5, <1>6, <1>7, <1>8, <1>9 DEF MainStep

LEMMA HandlerInvStep == HandlerInv /\ [Next]_vars => HandlerInv'
<1> SUFFICES ASSUME HandlerInv, [Next]_vars PROVE HandlerInv'
  OBVIOUS
<1>1. PairsInv /\ PairsInv' /\ TypeOK
  BY PairsInvStep DEF HandlerInv, PairsInv
<1>2. ASSUME ~astray' PROVE HandlerGood'
  <2>1. ~astray /\ HandlerGood
    BY <1>1, <1>2, AstrayForever DEF HandlerInv
  <2>2. CASE MainStep
    BY <1>1, <1>2, <2>1, <2>2, MainHandler
  <2>3. ASSUME NEW w \in Workers, WorkerStep(w) PROVE HandlerGood'
    BY <1>1, <1>2, <2>1, <2>3, WorkerHandler
  <2>4. CASE ClientConnect \/ (\E s \in Socks : Peer(s)) \/ UNCHANGED vars
    <3>1. UNCHANGED <<fdtab, ep, so_map, main, pool, locals>>
      BY <2>4 DEF ClientConnect, Peer, vars, tables
    <3>2. \A f \in Fds : Mapped(f)' => Mapped(f)
      BY <3>1 DEF Mapped
    <3> QED
      BY <1>1, <2>1, <3>1, <3>2, HandlerFrame DEF main, locals
  <2> QED
    BY <2>2, <2>3, <2>4 DEF Next
<1> QED
  BY <1>1, <1>2 DEF HandlerInv

\* As long as no number is used for a socket it did not mean, every registered
\* socket is armed, or reported, queued or being served, and only once: two
\* workers never read one stream at a time, and no connection is forgotten by
\* the poller, the queue and the workers together.
THEOREM OneHandlerAlways == Spec => []OneHandler
<1>1. Init => HandlerInv
  BY InitHandlerInv
<1>2. HandlerInv /\ [Next]_vars => HandlerInv'
  BY HandlerInvStep
<1>3. HandlerInv => OneHandler
  BY CarriedIsOneHandler
<1> QED
  BY <1>1, <1>2, <1>3, PTL DEF Spec
=============================================================================
