------------------------------- MODULE Tunnel -------------------------------
(***************************************************************************)
(* td_service_tunnel in the threaded build (USE_THREAD_SERVICE, the        *)
(* Makefile's default): the thread that runs tiny_distributer_worker polls *)
(* epoll, accepts and connects; the worker threads of the service's pool   *)
(* read a socket and write what they read to its peer.  Sockets are        *)
(* registered one-shot, so each event must be re-armed by the worker that  *)
(* handled it.                                                             *)
(*                                                                         *)
(* Descriptor NUMBERS (Fds) are kept apart from the SOCKETS they name: the *)
(* kernel may give a freed number to the next socket, while the program's  *)
(* tables, queue, event batch and local variables hold numbers only.       *)
(* Every variable of the last group is history: it records which socket a  *)
(* number stood for and never influences a step.                           *)
(***************************************************************************)
EXTENDS Naturals, Sequences, FiniteSets

CONSTANTS
  Fds,      \* descriptor numbers the kernel can give to the relay
  Workers,  \* the threads of the pool, config "threads" of them
  MaxConn,  \* bound: clients that ever connect
  MaxData,  \* bound: chunks all peers together ever send
  MaxResets, \* bound: connections that ever break
  NegativeInlen,  \* accept's uninitialised address length can be negative
  None      \* end() of a map, INVALIDATE_SOCKET

ASSUME ConstAssumption ==
  /\ MaxConn \in Nat
  /\ MaxData \in Nat /\ MaxResets \in Nat
  /\ NegativeInlen \in BOOLEAN
  /\ None \notin Fds
  /\ IsFiniteSet(Workers)

NoSock == 0
MaxSock == 2 * MaxConn       \* every client costs two sockets
Socks == 1 .. MaxSock

VARIABLES
  fdtab,      \* fdtab[f]: the socket number f names, NoSock if f is free
  ep,         \* ep[f]: f's epoll interest, "none", "off" (fired) or "on"
  nb,         \* nb[f]: the O_NONBLOCK flag of the socket f names
  arrived,    \* clients that have connected so far
  backlog,    \* clients waiting in the listen queue
  edge,       \* the edge-triggered listener has an event to report
  born,       \* sockets created so far
  chunks,     \* chunks sent so far by all peers
  sent,       \* sent[s]: chunks the peer of s has sent
  read,       \* read[s]: chunks the relay has taken from s
  fin,        \* sockets whose peer has shut down its side
  rst,        \* sockets whose connection is broken
  out,        \* out[s]: chunks the relay has written to s
  request_so, tunnel_so, so_map,   \* the service's tables
  pool,       \* event_pool: the queue between main loop and workers
  mpc, batch, cur, mdst,           \* the main loop and its _event_list
  pc, so, dso, buf, on,            \* each worker and its locals
  dangling,   \* workers whose so_map_ iterator points to an erased node
  tok,        \* tok[w]: the socket the event worker w handles was for
  partner,    \* partner[s]: the socket s was registered with
  astray      \* some step has used a number for a socket it did not mean

net == <<arrived, backlog, edge, chunks, sent, fin, rst>>
tables == <<request_so, tunnel_so, so_map>>
main == <<mpc, batch, cur, mdst>>
locals == <<pc, so, dso, buf, on, tok>>
vars == <<fdtab, ep, nb, net, born, read, out, tables, pool, main, locals,
          dangling, partner, astray>>

MainPC == {"poll", "accept", "dispatch", "close", "enqueue", "connect",
           "register"}
WorkerPC == {"idle", "lookup", "deref", "recv", "recving", "block", "send",
             "sending", "unblock", "rearm", "close"}
EventId == {"ACCEPT", "DATA", "FAILED"}
Event == [so : Fds, sock : Socks, event : EventId]
Item == [so : Fds, sock : Socks]
NoEvent == [so |-> None, sock |-> NoSock, event |-> "NONE"]
NoChunk == <<NoSock, 0>>
Chunk == (Socks \X Nat) \cup {NoChunk}

IsOpen(f) == f \in Fds /\ fdtab[f] # NoSock
Free(f) == fdtab[f] = NoSock
SockOf(f) == IF f \in Fds THEN fdtab[f] ELSE NoSock
Named(s) == \E f \in Fds : fdtab[f] = s
Pending(s) == read[s] < sent[s]
IsMaintaining(f) == f \in request_so \cup tunnel_so

\* Number f, meant for socket s, names another socket by now.
Astray(f, s) == IsOpen(f) /\ fdtab[f] # s

Init ==
  /\ fdtab = [f \in Fds |-> NoSock]
  /\ ep = [f \in Fds |-> "none"]
  /\ nb = [f \in Fds |-> FALSE]
  /\ arrived = 0 /\ backlog = 0 /\ edge = FALSE /\ born = 0
  /\ chunks = 0 /\ sent = [s \in Socks |-> 0] /\ read = [s \in Socks |-> 0]
  /\ fin = {} /\ rst = {}
  /\ out = [s \in Socks |-> <<>>]
  /\ request_so = {} /\ tunnel_so = {}
  /\ so_map = [f \in Fds |-> None]
  /\ pool = <<>>
  /\ mpc = "poll" /\ batch = {} /\ cur = NoEvent /\ mdst = None
  /\ pc = [w \in Workers |-> "idle"]
  /\ so = [w \in Workers |-> None] /\ dso = [w \in Workers |-> None]
  /\ buf = [w \in Workers |-> NoChunk]
  /\ on = [w \in Workers |-> NoSock]
  /\ dangling = {}
  /\ tok = [w \in Workers |-> NoSock]
  /\ partner = [s \in Socks |-> NoSock]
  /\ astray = FALSE

-----------------------------------------------------------------------------
(* The kernel and the peers.                                               *)

\* accept() or socket(): a new socket on the free number f.
OpenFd(f) ==
  /\ Free(f)
  /\ born < MaxSock
  /\ born' = born + 1
  /\ fdtab' = [fdtab EXCEPT ![f] = born + 1]

\* close() of every number of S: a free number is EBADF, nothing happens.
CloseFds(S) ==
  /\ fdtab' = [f \in Fds |-> IF f \in S THEN NoSock ELSE fdtab[f]]
  /\ ep' = [f \in Fds |-> IF f \in S THEN "none" ELSE ep[f]]
  /\ nb' = [f \in Fds |-> IF f \in S THEN FALSE ELSE nb[f]]

\* epoll_ctl(ADD) refuses a registered number, epoll_ctl(MOD) one that is not.
MonitorAdd(S) ==
  [f \in Fds |-> IF f \in S /\ IsOpen(f) /\ ep[f] = "none" THEN "on" ELSE ep[f]]
MonitorMod(f) ==
  [ep EXCEPT ![f] = IF IsOpen(f) /\ @ # "none" THEN "on" ELSE @]

\* FIONBIO on a free number is EBADF.
SetNonblocking(S, b) ==
  [f \in Fds |-> IF f \in S /\ IsOpen(f) THEN b ELSE nb[f]]

ClientConnect ==
  /\ arrived < MaxConn
  /\ arrived' = arrived + 1
  /\ backlog' = backlog + 1
  /\ edge' = TRUE
  /\ UNCHANGED <<fdtab, ep, nb, born, chunks, sent, fin, rst, read, out,
                 tables, pool, main, locals, dangling, partner, astray>>

\* A peer acts while the relay holds its socket open and connected: some
\* number names it, or a call that is still blocked pins it.
HasPeer(s) ==
  /\ \/ \E f \in Fds : fdtab[f] = s /\ ~(mpc = "register" /\ mdst = f)
     \/ \E w \in Workers : on[w] = s
  /\ s \notin rst

PeerSend(s) ==
  /\ HasPeer(s) /\ s \notin fin
  /\ chunks < MaxData
  /\ chunks' = chunks + 1
  /\ sent' = [sent EXCEPT ![s] = @ + 1]
  /\ UNCHANGED <<fin, rst>>

PeerFin(s) ==
  /\ HasPeer(s) /\ s \notin fin
  /\ fin' = fin \cup {s}
  /\ UNCHANGED <<chunks, sent, rst>>

PeerReset(s) ==
  /\ HasPeer(s) /\ Cardinality(rst) < MaxResets
  /\ rst' = rst \cup {s}
  /\ UNCHANGED <<chunks, sent, fin>>

Peer(s) ==
  /\ PeerSend(s) \/ PeerFin(s) \/ PeerReset(s)
  /\ UNCHANGED <<fdtab, ep, nb, arrived, backlog, edge, born, read, out,
                 tables, pool, main, locals, dangling, partner, astray>>

-----------------------------------------------------------------------------
(* td_service_tunnel::close_socket, one critical section of service_mutex_ *)

Pair(f) == {f, so_map[f]} \ {None}

\* Slips of close_socket: the second close(), or one of the second erase()s,
\* is forgotten.
FdsClosed_FirstOnly(f) == {f}
FdsClosed(f) == Pair(f)

Unregistered_FirstOnly(f) == {f}
Unregistered(f) == Pair(f)

Unmapped_FirstOnly(f) == {f}
Unmapped(f) == Pair(f)

\* Called with number f for the event of socket s.  Erasing the node of f's
\* map entry leaves a worker that has just looked f up with a dead iterator.
CloseSocket(f, s) ==
  /\ CloseFds(FdsClosed(f))
  /\ request_so' = request_so \ Unregistered(f)
  /\ tunnel_so' = tunnel_so \ Unregistered(f)
  /\ so_map' = [g \in Fds |-> IF g \in Unmapped(f) THEN None ELSE so_map[g]]
  /\ dangling' = dangling \cup
       {w \in Workers : pc[w] = "deref" /\ so_map[f] # None
                        /\ so[w] \in Unmapped(f)}
  /\ astray' = (astray \/ Astray(f, s))

-----------------------------------------------------------------------------
(* The main loop: sl_poller::fetch_events and tiny_distributer_worker.     *)

Ready(f) ==
  /\ ep[f] = "on" /\ IsOpen(f)
  /\ fdtab[f] \in fin \cup rst \/ Pending(fdtab[f])

\* A slip of monitor_socket: without EPOLLONESHOT a reported number stays armed.
Disarm_NotOneShot(R) == ep
Disarm(R) == [f \in Fds |-> IF f \in R THEN "off" ELSE ep[f]]

\* epoll_wait returns every ready number; the order in which the loop takes
\* the events is left open.
Harvest ==
  /\ mpc = "poll"
  /\ LET R == {f \in Fds : Ready(f)} IN
       /\ R # {} \/ edge
       /\ batch' = {[so |-> f, sock |-> fdtab[f],
                     event |-> IF fdtab[f] \in rst THEN "FAILED" ELSE "DATA"]
                     : f \in R}
       /\ ep' = Disarm(R)
  /\ edge' = FALSE
  /\ mpc' = IF edge THEN "accept" ELSE "dispatch"
  /\ UNCHANGED <<fdtab, nb, arrived, backlog, born, chunks, sent, fin, rst,
                 read, out, tables, pool, cur, mdst, locals, dangling,
                 partner, astray>>

\* A slip of the accept loop: one accept() per event of the listener.
AcceptNext_OnePerEdge == IF batch' = {} THEN "poll" ELSE "dispatch"
AcceptNext == "accept"

AcceptOne(f) ==
  /\ mpc = "accept"
  /\ backlog > 0
  /\ OpenFd(f)
  /\ backlog' = backlog - 1
  /\ nb' = [nb EXCEPT ![f] = TRUE]
  /\ batch' = batch \cup {[so |-> f, sock |-> born + 1, event |-> "ACCEPT"]}
  /\ mpc' = AcceptNext
  /\ UNCHANGED <<ep, arrived, edge, chunks, sent, fin, rst, read, out, tables,
                 pool, cur, mdst, locals, dangling, partner, astray>>

\* EAGAIN ends the loop; so does EMFILE, whose FAILED event for the listener
\* no service claims.
AcceptEnd ==
  /\ mpc = "accept"
  /\ backlog = 0 \/ \A f \in Fds : ~Free(f)
  /\ mpc' = IF batch = {} THEN "poll" ELSE "dispatch"
  /\ UNCHANGED <<fdtab, ep, nb, net, born, read, out, tables, pool, batch,
                 cur, mdst, locals, dangling, partner, astray>>

\* accept() is given an uninitialised _inlen: a negative one is EINVAL, the
\* kernel drops the client, and the loop ends with others still waiting.
AcceptInval ==
  /\ NegativeInlen
  /\ mpc = "accept"
  /\ backlog > 0
  /\ backlog' = backlog - 1
  /\ mpc' = IF batch = {} THEN "poll" ELSE "dispatch"
  /\ UNCHANGED <<fdtab, ep, nb, arrived, edge, born, chunks, sent, fin, rst,
                 read, out, tables, pool, batch, cur, mdst, locals, dangling,
                 partner, astray>>

\* service_by_maintaining_socket (under the lock) and, in a later step, the
\* call it leads to; service_by_socket for ACCEPT always finds the service.
Dispatch(e) ==
  /\ mpc = "dispatch"
  /\ e \in batch
  /\ batch' = batch \ {e}
  /\ IF e.event = "ACCEPT" \/ IsMaintaining(e.so)
       THEN /\ cur' = e
            /\ mpc' = CASE e.event = "ACCEPT" -> "connect"
                        [] e.event = "DATA"   -> "enqueue"
                        [] e.event = "FAILED" -> "close"
       ELSE /\ UNCHANGED cur
            /\ mpc' = IF batch' = {} THEN "poll" ELSE "dispatch"
  /\ UNCHANGED <<fdtab, ep, nb, net, born, read, out, tables, pool, mdst,
                 locals, dangling, partner, astray>>

EventDone ==
  /\ mpc' = IF batch = {} THEN "poll" ELSE "dispatch"
  /\ cur' = NoEvent
  /\ mdst' = None
  /\ UNCHANGED batch

MainClose ==
  /\ mpc = "close"
  /\ CloseSocket(cur.so, cur.sock)
  /\ EventDone
  /\ UNCHANGED <<net, born, read, out, pool, locals, partner>>

MainEnqueue ==
  /\ mpc = "enqueue"
  /\ pool' = Append(pool, [so |-> cur.so, sock |-> cur.sock])
  /\ EventDone
  /\ UNCHANGED <<fdtab, ep, nb, net, born, read, out, tables, locals,
                 dangling, partner, astray>>

\* accept_new_incoming: the client is refused, or no socket can be made for
\* the destination.
Deny ==
  /\ mpc = "connect"
  /\ CloseFds({cur.so})
  /\ astray' = (astray \/ Astray(cur.so, cur.sock))
  /\ EventDone
  /\ UNCHANGED <<net, born, read, out, tables, pool, locals, dangling,
                 partner>>

\* _internal_connect makes the socket, then waits for the destination.
OpenDst(f) ==
  /\ mpc = "connect"
  /\ OpenFd(f)
  /\ mdst' = f
  /\ mpc' = "register"
  /\ UNCHANGED <<ep, nb, net, read, out, tables, pool, batch, cur, locals,
                 dangling, partner, astray>>

ConnectFail ==
  /\ mpc = "register"
  /\ CloseFds({cur.so, mdst})
  /\ astray' = (astray \/ Astray(cur.so, cur.sock))
  /\ EventDone
  /\ UNCHANGED <<net, born, read, out, tables, pool, locals, dangling,
                 partner>>

\* _did_accept_sockets, one critical section of service_mutex_.
DidAccept ==
  /\ mpc = "register"
  /\ request_so' = request_so \cup {cur.so}
  /\ tunnel_so' = tunnel_so \cup {mdst}
  /\ so_map' = [so_map EXCEPT ![cur.so] = mdst, ![mdst] = cur.so]
  /\ ep' = MonitorAdd({cur.so, mdst})
  /\ nb' = SetNonblocking({cur.so, mdst}, TRUE)
  /\ partner' = [s \in Socks |->
                   CASE s = cur.sock /\ IsOpen(mdst) -> fdtab[mdst]
                     [] s = fdtab[mdst] /\ s # cur.sock -> cur.sock
                     [] OTHER -> partner[s]]
  /\ astray' = (astray \/ Astray(cur.so, cur.sock))
  /\ EventDone
  /\ UNCHANGED <<fdtab, net, born, read, out, pool, locals, dangling>>

MainStep ==
  \/ Harvest \/ AcceptEnd \/ AcceptInval \/ MainClose \/ MainEnqueue
  \/ Deny \/ ConnectFail \/ DidAccept
  \/ \E f \in Fds : AcceptOne(f) \/ OpenDst(f)
  \/ \E e \in batch : Dispatch(e)

-----------------------------------------------------------------------------
(* A worker: the loop of _initialize_thread_pool and _read_incoming_data.  *)

GoTo(w, l) == pc' = [pc EXCEPT ![w] = l]

\* The locals die with the call.
Finish(w) ==
  /\ GoTo(w, "idle")
  /\ so' = [so EXCEPT ![w] = None] /\ dso' = [dso EXCEPT ![w] = None]
  /\ buf' = [buf EXCEPT ![w] = NoChunk] /\ on' = [on EXCEPT ![w] = NoSock]
  /\ tok' = [tok EXCEPT ![w] = NoSock]

\* A slip of the worker loop: the result of wait_for is not looked at, and an
\* uninitialised _so goes to _read_incoming_data after a timeout.
TakeItem_TimeoutIgnored(w) ==
  /\ pool' = IF pool = <<>> THEN <<>> ELSE Tail(pool)
  /\ so' = [so EXCEPT ![w] = IF pool = <<>> THEN None ELSE Head(pool).so]
  /\ tok' = [tok EXCEPT ![w] = IF pool = <<>> THEN NoSock ELSE Head(pool).sock]
TakeItem(w) ==
  /\ pool # <<>>
  /\ pool' = Tail(pool)
  /\ so' = [so EXCEPT ![w] = Head(pool).so]
  /\ tok' = [tok EXCEPT ![w] = Head(pool).sock]

\* event_pool::wait_for; a timeout leaves everything as it was.
Take(w) ==
  /\ pc[w] = "idle"
  /\ TakeItem(w)
  /\ GoTo(w, "lookup")
  /\ UNCHANGED <<fdtab, ep, nb, net, born, read, out, tables, main, dso, buf,
                 on, dangling, partner, astray>>

\* The first critical section.  A number without a peer is closed under the
\* lock; the wrapper is then invalid, recv() returns SO_READ_CLOSE at once and
\* the value read through end() is never used.
Lookup(w) ==
  /\ pc[w] = "lookup"
  /\ IF so_map[so[w]] # None
       THEN /\ GoTo(w, "deref")
            /\ UNCHANGED <<fdtab, ep, nb, astray>>
       ELSE /\ CloseFds({so[w]})
            /\ astray' = (astray \/ Astray(so[w], tok[w]))
            /\ GoTo(w, "close")
  /\ UNCHANGED <<net, born, read, out, tables, pool, main, so, dso, buf, on,
                 tok, dangling, partner>>

\* _peer->second is read after the unlock: through an iterator to an erased
\* node any number can be read, None for one that is no descriptor.
Deref(w) ==
  /\ pc[w] = "deref"
  /\ \E f \in Fds \cup {None} :
       /\ w \in dangling \/ f = so_map[so[w]]
       /\ dso' = [dso EXCEPT ![w] = f]
  /\ dangling' = dangling \ {w}
  /\ GoTo(w, "recv")
  /\ UNCHANGED <<fdtab, ep, nb, net, born, read, out, tables, pool, main, so,
                 buf, on, tok, partner, astray>>

\* What ::recv returns once socket s has something to say: a chunk, or the
\* end of the stream or an error.
RecvFrom(w, s) ==
  \/ /\ s \notin rst /\ Pending(s)
     /\ read' = [read EXCEPT ![s] = @ + 1]
     /\ buf' = [buf EXCEPT ![w] = <<s, read[s] + 1>>]
     /\ GoTo(w, "block")
  \/ /\ s \in rst \/ (s \in fin /\ ~Pending(s))
     /\ GoTo(w, "close")
     /\ UNCHANGED <<read, buf>>

Quiet(s) == s \notin fin \cup rst /\ ~Pending(s)

\* sl_tcpsocket::recv; EBADF and EAGAIN are reported as SO_READ_CLOSE, and a
\* blocking socket with nothing to read holds the worker.
Recv(w) ==
  /\ pc[w] = "recv"
  /\ astray' = (astray \/ Astray(so[w], tok[w]))
  /\ LET s == fdtab[so[w]] IN
       \/ /\ s # NoSock /\ RecvFrom(w, s)
          /\ UNCHANGED on
       \/ /\ IF s = NoSock THEN TRUE ELSE Quiet(s) /\ nb[so[w]]
          /\ GoTo(w, "close")
          /\ UNCHANGED <<read, buf, on>>
       \/ /\ s # NoSock /\ Quiet(s) /\ ~nb[so[w]]
          /\ GoTo(w, "recving")
          /\ on' = [on EXCEPT ![w] = s]
          /\ UNCHANGED <<read, buf>>
  /\ UNCHANGED <<fdtab, ep, nb, net, born, out, tables, pool, main, so, dso,
                 tok, dangling, partner>>

RecvDone(w) ==
  /\ pc[w] = "recving"
  /\ RecvFrom(w, on[w])
  /\ on' = [on EXCEPT ![w] = NoSock]
  /\ UNCHANGED <<fdtab, ep, nb, net, born, out, tables, pool, main, so, dso,
                 tok, dangling, partner, astray>>

\* set_nonblocking(false) and, after the write, set_nonblocking(true) on dso.
SetDstFlag(w, from, b, to) ==
  /\ pc[w] = from
  /\ nb' = SetNonblocking({dso[w]}, b)
  /\ astray' = (astray \/ Astray(dso[w], partner[tok[w]]))
  /\ GoTo(w, to)
  /\ UNCHANGED <<fdtab, ep, net, born, read, out, tables, pool, main, so, dso,
                 buf, on, tok, dangling, partner>>

\* Slips of _read_incoming_data: one of the two set_nonblocking() is wrong.
Block_Forgotten(w) == SetDstFlag(w, "block", TRUE, "send")
Block(w) == SetDstFlag(w, "block", FALSE, "send")

Unblock_Forgotten(w) == SetDstFlag(w, "unblock", FALSE, "rearm")
Unblock(w) == SetDstFlag(w, "unblock", TRUE, "rearm")

Delivered(w, s) == out' = [out EXCEPT ![s] = Append(@, buf[w])]

\* write_data: a blocking send waits for the peer with the socket pinned; a
\* non-blocking one succeeds or fails with EAGAIN.
Send(w) ==
  /\ pc[w] = "send"
  /\ astray' = (astray \/ Astray(dso[w], partner[tok[w]]))
  /\ LET s == SockOf(dso[w])
         ok == s # NoSock /\ s \notin rst IN
       \/ /\ IF ok THEN nb[dso[w]] ELSE TRUE
          /\ GoTo(w, "close")
          /\ UNCHANGED <<out, on>>
       \/ /\ ok /\ nb[dso[w]]
          /\ Delivered(w, s)
          /\ GoTo(w, "unblock")
          /\ UNCHANGED on
       \/ /\ ok /\ ~nb[dso[w]]
          /\ on' = [on EXCEPT ![w] = s]
          /\ GoTo(w, "sending")
          /\ UNCHANGED out
  /\ UNCHANGED <<fdtab, ep, nb, net, born, read, tables, pool, main, so, dso,
                 buf, tok, dangling, partner>>

SendDone(w) ==
  /\ pc[w] = "sending"
  /\ \/ /\ on[w] \notin rst
        /\ Delivered(w, on[w])
        /\ GoTo(w, "unblock")
     \/ /\ on[w] \in rst
        /\ GoTo(w, "close")
        /\ UNCHANGED out
  /\ on' = [on EXCEPT ![w] = NoSock]
  /\ UNCHANGED <<fdtab, ep, nb, net, born, read, tables, pool, main, so, dso,
                 buf, tok, dangling, partner, astray>>

\* A slip of monitor_socket: isreset is ignored, ADD fails with EEXIST.
RearmInterest_Add(f) == MonitorAdd({f})
RearmInterest(f) == MonitorMod(f)

\* The second critical section: a number no longer mapped is closed, any other
\* is put back to the poller.
Rearm(w) ==
  /\ pc[w] = "rearm"
  /\ IF so_map[so[w]] = None
       THEN CloseFds({so[w]})
       ELSE /\ ep' = RearmInterest(so[w])
            /\ nb' = SetNonblocking({so[w]}, TRUE)
            /\ UNCHANGED fdtab
  /\ astray' = (astray \/ Astray(so[w], tok[w]))
  /\ Finish(w)
  /\ UNCHANGED <<net, born, read, out, tables, pool, main, dangling, partner>>

WorkerClose(w) ==
  /\ pc[w] = "close"
  /\ CloseSocket(so[w], tok[w])
  /\ Finish(w)
  /\ UNCHANGED <<net, born, read, out, pool, main, partner>>

WorkerStep(w) ==
  \/ Take(w) \/ Lookup(w) \/ Deref(w) \/ Recv(w) \/ RecvDone(w) \/ Block(w)
  \/ Send(w) \/ SendDone(w) \/ Unblock(w) \/ Rearm(w) \/ WorkerClose(w)

-----------------------------------------------------------------------------
Next ==
  \/ ClientConnect
  \/ \E s \in Socks : Peer(s)
  \/ MainStep
  \/ \E w \in Workers : WorkerStep(w)

Spec == Init /\ [][Next]_vars

\* The threads run; clients and peers need not act, except that a peer takes
\* what is sent to it (SendDone is a step of the worker).
Fairness == WF_vars(MainStep) /\ \A w \in Workers : WF_vars(WorkerStep(w))

FairSpec == Spec /\ Fairness

-----------------------------------------------------------------------------
(* Properties.                                                             *)

SocketsTypeOK ==
  /\ fdtab \in [Fds -> 0 .. MaxSock]
  /\ ep \in [Fds -> {"none", "off", "on"}]
  /\ nb \in [Fds -> BOOLEAN]

NetTypeOK ==
  /\ arrived \in 0 .. MaxConn /\ backlog \in Nat /\ edge \in BOOLEAN
  /\ born \in 0 .. MaxSock
  /\ chunks \in 0 .. MaxData
  /\ sent \in [Socks -> Nat] /\ read \in [Socks -> Nat]
  /\ fin \subseteq Socks /\ rst \subseteq Socks
  /\ out \in [Socks -> Seq(Chunk)]

TablesTypeOK ==
  /\ request_so \subseteq Fds /\ tunnel_so \subseteq Fds
  /\ so_map \in [Fds -> Fds \cup {None}]
  /\ pool \in Seq(Item)

MainTypeOK ==
  /\ mpc \in MainPC /\ batch \subseteq Event /\ cur \in Event \cup {NoEvent}
  /\ mdst \in Fds \cup {None}
  /\ mpc \in {"close", "enqueue", "connect", "register"} => cur \in Event
  /\ mpc = "register" => mdst \in Fds
  /\ mpc = "poll" => batch = {}

WorkersTypeOK ==
  /\ pc \in [Workers -> WorkerPC]
  /\ so \in [Workers -> Fds \cup {None}]
  /\ dso \in [Workers -> Fds \cup {None}]
  /\ buf \in [Workers -> Chunk]
  /\ on \in [Workers -> 0 .. MaxSock]
  /\ tok \in [Workers -> 0 .. MaxSock]
  /\ \A w \in Workers :
       /\ pc[w] # "idle" => so[w] \in Fds /\ tok[w] \in Socks
       /\ pc[w] \in {"recving", "sending"} => on[w] \in Socks

HistoryTypeOK ==
  /\ dangling \subseteq Workers
  /\ partner \in [Socks -> 0 .. MaxSock]
  /\ astray \in BOOLEAN

\* Every variable keeps its type; in particular a worker that is not idle
\* holds a number that the queue gave it, and a blocked one a real socket.
TypeOK ==
  /\ SocketsTypeOK
  /\ NetTypeOK
  /\ TablesTypeOK
  /\ MainTypeOK
  /\ WorkersTypeOK
  /\ HistoryTypeOK

\* is_maintaining_socket, which looks into request_so_ and tunnel_so_, and the
\* workers, who look into so_map_, always agree on which numbers the service
\* knows: every path that enters or erases a number does so in all tables.
TablesAgree == \A f \in Fds : so_map[f] # None <=> IsMaintaining(f)

Accepted == {e \in batch : e.event = "ACCEPT"}

\* Numbers only the main loop knows: just accepted, or being connected.
HeldByMain ==
  {e.so : e \in Accepted}
  \cup (IF mpc \in {"connect", "register"} THEN {cur.so} ELSE {})
  \cup (IF mpc = "register" THEN {mdst} ELSE {})

\* No descriptor leaks: whatever threads closed behind each other's back, an
\* open number is in the tables or in the hands of the main loop.
NoLeak == \A f \in Fds : IsOpen(f) => IsMaintaining(f) \/ f \in HeldByMain

Mapped(f) == so_map[f] # None

\* While no number has gone astray, so_map_ is a matching of open numbers:
\* each mapped number's peer maps back, one is a request and one a tunnel
\* socket, and both name the two sockets that were registered together.
PairsMatch ==
  ~astray => \A f \in Fds : Mapped(f) =>
    LET g == so_map[f] IN
      /\ g # f /\ so_map[g] = f
      /\ f \in request_so <=> f \notin tunnel_so
      /\ f \in request_so <=> g \in tunnel_so
      /\ IsOpen(f) /\ IsOpen(g)
      /\ partner[fdtab[f]] = fdtab[g]

\* What makes PairsMatch inductive.  The kernel never gives two numbers to one
\* socket; a number the main loop holds names a socket never registered; and
\* whatever stands for an event names a socket that has been.
SocketsDistinct ==
  /\ \A f \in Fds : fdtab[f] <= born
  /\ \A f, g \in Fds : fdtab[f] = fdtab[g] /\ fdtab[f] # NoSock => f = g

Fresh(f, s) == fdtab[f] = s /\ s # NoSock /\ ~Mapped(f) /\ partner[s] = NoSock

HeldFresh ==
  /\ \A e \in Accepted : Fresh(e.so, e.sock)
  /\ mpc \in {"connect", "register"} =>
       Fresh(cur.so, cur.sock) /\ \A e \in Accepted : e.so # cur.so
  /\ mpc = "register" =>
       /\ mdst # cur.so /\ Fresh(mdst, fdtab[mdst])
       /\ \A e \in Accepted : e.so # mdst

TokensRegistered ==
  /\ \A e \in batch \ Accepted : partner[e.sock] # NoSock
  /\ mpc \in {"close", "enqueue"} => partner[cur.sock] # NoSock
  /\ \A i \in 1 .. Len(pool) : partner[pool[i].sock] # NoSock
  /\ \A w \in Workers : pc[w] # "idle" => partner[tok[w]] # NoSock
  /\ \A f \in Fds : ep[f] # "none" => IsOpen(f) /\ partner[fdtab[f]] # NoSock
  /\ \A s \in Socks : s > born => partner[s] = NoSock

PairsInv ==
  /\ TypeOK /\ TablesAgree /\ NoLeak /\ PairsMatch
  /\ SocketsDistinct
  /\ ~astray => HeldFresh /\ TokensRegistered

\* The places an event of socket s (on number f) can be in.
Places(f, s) ==
  (IF ep[f] = "on" THEN {<<"armed", f>>} ELSE {})
  \cup {<<"batch", e.event>> : e \in {e \in batch : e.sock = s}}
  \cup (IF mpc \in {"close", "enqueue"} /\ cur.sock = s
          THEN {<<"main", cur.event>>} ELSE {})
  \cup {<<"pool", i>> : i \in {i \in 1 .. Len(pool) : pool[i].sock = s}}
  \cup {<<"worker", w>> : w \in {w \in Workers : tok[w] = s}}

\* While no number has gone astray, every registered socket has exactly one
\* carrier: it is armed in epoll, or exactly one event, queue entry or worker
\* stands for it.  Two would let two workers read one stream and swap its
\* chunks; none would strand the connection.
OneHandler ==
  ~astray => \A f \in Fds :
    Mapped(f) => Cardinality(Places(f, fdtab[f])) = 1

\* socketlite.cpp, sl_tcpsocket::recv: "Socket must be nonblocking".
RecvNonblocking ==
  ~astray => \A w \in Workers :
    (pc[w] = "recv" /\ IsOpen(so[w]) /\ ~Astray(so[w], tok[w])) => nb[so[w]]

\* services.cpp, _read_incoming_data: "force to block on sending".
SendBlocking ==
  ~astray => \A w \in Workers :
    (pc[w] = "send" /\ IsOpen(dso[w]) /\ ~Astray(dso[w], partner[tok[w]]))
      => ~nb[dso[w]]

\* With a number left for each of them no waiting client is forgotten: although
\* the listener reports edges only, a non-empty backlog is always either being
\* accepted or announced by an edge that nobody has taken yet.
NoClientStranded == (mpc # "accept" /\ ~edge) => backlog = 0

\* The tunnel implements Relay until the first step that uses a number for a
\* socket it does not mean: two lossless ordered streams for each pair, closed
\* at once.  A single worker is patient and closes a pair only when one of its
\* connections has ended; of several, one may find its destination non-blocking
\* and full because another has re-armed it.
Promise == INSTANCE Relay WITH
  Sockets <- Socks, Nobody <- NoSock,
  peer <- partner,
  ended <- {s \in Socks : partner[s] # NoSock /\ ~Named(s)},
  received <- out,
  done <- fin \cup rst,
  adrift <- astray,
  Patient <- Cardinality(Workers) = 1

Implements == Promise!Spec

\* With fair threads every chunk a peer sends is written to the other one, and
\* the end of one connection ends the pair: no event is lost between epoll, the
\* queue, the workers and the re-arming.
Arrives == Promise!Arrives
EndsTogether == Promise!EndsTogether
=============================================================================
