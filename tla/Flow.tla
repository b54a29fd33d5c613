-------------------------------- MODULE Flow --------------------------------
(***************************************************************************)
(* Registered pairs under bounded kernel buffers, with a BACKDOOR service  *)
(* that gets copies of what they say: td_service_tunnel's workers, where   *)
(* they block and which lock they hold; td_service_backdoor, whose table   *)
(* they walk while the main loop changes it.                               *)
(*                                                                         *)
(* Numbers are not reused here, connections do not break and a batch has   *)
(* one event: module Tunnel has those.                                     *)
(***************************************************************************)
EXTENDS Naturals, Sequences, FiniteSets

CONSTANTS
  Pairs, Workers,
  Lazy,      \* sockets whose peer never reads
  Cap,       \* chunks a socket's send buffer holds
  Quota,     \* bound: Quota[s] chunks the peer of s ever sends
  Ahead,     \* bound: sockets whose peer has sent them by the registration
  Enders,    \* bound: sockets whose peer may shut down its side
  Spies,     \* clients of the backdoor: numbers, the order of its map
  Leavers,   \* bound: those of them that may hang up
  MaxSeen,   \* bound: copies to a client after which no stray walk adds one
  Copied,    \* "request" and "tunnel", as the backdoor is configured
  None

Socket == Pairs \X {"request", "tunnel"}
Other(s) == <<s[1], IF s[2] = "request" THEN "tunnel" ELSE "request">>

ASSUME FlowAssumption ==
  /\ Lazy \subseteq Socket /\ Enders \subseteq Socket /\ Ahead \subseteq Socket
  /\ Copied \subseteq {"request", "tunnel"}
  /\ Spies \subseteq Nat /\ Leavers \subseteq Spies
  /\ MaxSeen \in Nat /\ Cap \in Nat \ {0} /\ Quota \in [Socket -> Nat]
  /\ None \notin Socket /\ None \notin Workers /\ None \notin Spies

VARIABLES
  sent, read,        \* chunks each peer has sent, and the relay has read
  held, got,         \* chunks in a socket's send buffer; read by its peer
  fin,               \* peers that have shut down their side
  closed,            \* pairs taken down
  failed,            \* pairs of which a write failed
  armed, nonblock,   \* one-shot interest and blocking flag of a socket
  pool, service_mutex, \* the queue; who holds the lock
  mpc, cur, who,     \* the main loop, the socket or client of its event
  pc, so, it,        \* a worker, its socket, its place in the backdoor's map
  request_so,        \* the backdoor's map
  edge, left,        \* of its clients: epoll has an edge to report, hung up
  seen,              \* the chunks a client was given, or a part of them
  raced              \* history: chunks whose copying raced with a change

net == <<sent, read, held, got, fin>>
pairs == <<closed, failed, armed, nonblock>>
main == <<mpc, cur, who>>
workers == <<pc, so, it>>
spies == <<request_so, edge, left, seen, raced>>
vars == <<net, pairs, pool, service_mutex, main, workers, spies>>

Init ==
  /\ sent = [s \in Socket |-> IF s \in Ahead THEN Quota[s] ELSE 0]
  /\ read = [s \in Socket |-> 0]
  /\ held = [s \in Socket |-> 0] /\ got = [s \in Socket |-> 0]
  /\ fin = {} /\ closed = {} /\ failed = {}
  /\ armed = Socket /\ nonblock = Socket
  /\ pool = <<>> /\ service_mutex = None
  /\ mpc = "poll" /\ cur = None /\ who = None
  /\ pc = [w \in Workers |-> "idle"]
  /\ so = [w \in Workers |-> None] /\ it = [w \in Workers |-> None]
  /\ request_so = {} /\ edge = {} /\ left = {}
  /\ seen = [c \in Spies |-> <<>>]
  /\ raced = {}

Open(s) == s[1] \notin closed
Pending(s) == read[s] < sent[s]
Blocked(w, s) == pc[w] = "sending" /\ Other(so[w]) = s
InUse(s) == Open(s) \/ \E w \in Workers : Blocked(w, s)
Room(s) == held[s] < Cap
Unlocked == service_mutex = None

-----------------------------------------------------------------------------
(* Peers and backdoor clients.                                             *)

PeerSend(s) ==
  /\ Open(s) /\ s \notin fin
  /\ sent[s] < Quota[s]
  /\ sent' = [sent EXCEPT ![s] = @ + 1]
  /\ UNCHANGED <<read, held, got, fin>>

PeerFin(s) ==
  /\ Open(s) /\ s \in Enders \ fin
  /\ fin' = fin \cup {s}
  /\ UNCHANGED <<sent, read, held, got>>

\* Closing with linger time zero discards what the kernel has not delivered.
PeerRead(s) ==
  /\ s \notin Lazy /\ InUse(s) /\ held[s] > 0
  /\ held' = [held EXCEPT ![s] = @ - 1]
  /\ got' = [got EXCEPT ![s] = @ + 1]
  /\ UNCHANGED <<sent, read, fin>>

Peer(s) ==
  /\ PeerSend(s) \/ PeerFin(s) \/ PeerRead(s)
  /\ UNCHANGED <<pairs, pool, service_mutex, main, workers, spies>>

SpyArrive(c) ==
  /\ c \notin request_so \cup edge \cup left
  /\ ~(who = c)
  /\ edge' = edge \cup {c}
  /\ UNCHANGED left

SpyLeave(c) ==
  /\ c \in (request_so \cap Leavers) \ left
  /\ left' = left \cup {c} /\ edge' = edge \cup {c}

Spy(c) ==
  /\ SpyArrive(c) \/ SpyLeave(c)
  /\ UNCHANGED <<request_so, seen, raced>>
  /\ UNCHANGED <<net, pairs, pool, service_mutex, main, workers>>

-----------------------------------------------------------------------------
(* The main loop.                                                          *)

\* A slip of monitor_socket: a reported socket stays armed.
Disarm_NotOneShot(s) == armed
Disarm(s) == armed \ {s}

Poll(s) ==
  /\ mpc = "poll"
  /\ s \in armed /\ (Pending(s) \/ s \in fin)
  /\ armed' = Disarm(s)
  /\ mpc' = "lookup" /\ cur' = s /\ UNCHANGED who
  /\ UNCHANGED <<net, closed, failed, nonblock, pool, service_mutex, workers,
                 spies>>

PollSpy(c) ==
  /\ mpc = "poll"
  /\ c \in edge
  /\ edge' = edge \ {c}
  /\ mpc' = "hear" /\ who' = c /\ UNCHANGED cur
  /\ UNCHANGED <<net, pairs, pool, service_mutex, workers, request_so, left,
                 seen, raced>>

EventDone == mpc' = "poll" /\ cur' = None /\ who' = None

\* service_by_maintaining_socket takes each tunnel's lock in turn.
Enqueue ==
  /\ mpc = "lookup" /\ Unlocked
  /\ pool' = IF Open(cur) THEN Append(pool, cur) ELSE pool
  /\ EventDone
  /\ UNCHANGED <<net, pairs, service_mutex, workers, spies>>

Chunk(w) == <<so[w], read[so[w]]>>

\* A change of the map while a worker walks it is a data race.
Change(m) ==
  /\ request_so' = m
  /\ raced' = raced \cup {Chunk(w) : w \in {w \in Workers : pc[w] = "copy"}}

\* The backdoor's accept_new_incoming, which takes no lock; or its
\* socket_has_data_incoming.  That reads once per edge: data that come with a
\* hang-up hide it.
Hear ==
  /\ mpc = "hear"
  /\ \/ /\ who \notin request_so /\ Change(request_so \cup {who})
     \/ /\ Unlocked /\ who \in request_so \cap left
        /\ Change(request_so \ {who}) \/ UNCHANGED <<request_so, raced>>
  /\ EventDone
  /\ UNCHANGED <<net, pairs, pool, service_mutex, workers, edge, left, seen>>

\* A write to a client that has hung up brings a reset, and the main loop
\* closes its socket.
SpyBroken(c) ==
  /\ mpc = "poll" /\ Unlocked
  /\ c \in (request_so \cap left) \ edge
  /\ Change(request_so \ {c})
  /\ UNCHANGED <<net, pairs, pool, service_mutex, main, workers, edge, left,
                 seen>>

MainStep ==
  \/ Enqueue \/ Hear
  \/ \E s \in Socket : Poll(s)
  \/ \E c \in Spies : PollSpy(c) \/ SpyBroken(c)

-----------------------------------------------------------------------------
(* A worker: the loop of _initialize_thread_pool and _read_incoming_data.  *)

GoTo(w, l) == pc' = [pc EXCEPT ![w] = l]
Finish(w) ==
  /\ GoTo(w, "idle")
  /\ so' = [so EXCEPT ![w] = None] /\ it' = [it EXCEPT ![w] = None]

Take(w) ==
  /\ pc[w] = "idle" /\ pool # <<>>
  /\ so' = [so EXCEPT ![w] = Head(pool)]
  /\ pool' = Tail(pool)
  /\ GoTo(w, "lookup")
  /\ UNCHANGED <<net, pairs, service_mutex, main, it, spies>>

\* A slip of _read_incoming_data: the lock of the lookup is never released
\* before the function returns.
Unlock_AtReturn(w) == service_mutex' = w
Unlock(w) == service_mutex' = service_mutex

\* The first critical section; on a closed pair recv() reports CLOSE.
Lookup(w) ==
  /\ pc[w] = "lookup" /\ Unlocked
  /\ GoTo(w, IF Open(so[w]) THEN "recv" ELSE "close")
  /\ Unlock(w)
  /\ UNCHANGED <<net, pairs, pool, main, so, it, spies>>

Recv(w) ==
  /\ pc[w] = "recv"
  /\ LET s == so[w] IN
       IF Open(s) /\ Pending(s)
         THEN /\ read' = [read EXCEPT ![s] = @ + 1]
              /\ GoTo(w, "route")
         ELSE /\ GoTo(w, "close")
              /\ UNCHANGED read
  /\ UNCHANGED <<sent, held, got, fin, pairs, pool, service_mutex, main, so,
                 it, spies>>

First(S) == IF S = {} THEN None ELSE CHOOSE c \in S : \A d \in S : c <= d
After(c) == {d \in request_so : d > c}

\* Which of the tunnel's two maps has so[w]: searched without the lock, so
\* while another thread erases from them either answer may come out.
Erasing == \E w \in Workers : pc[w] = "closing"
Routes(w) ==
  (IF so[w][2] \in Copied /\ (Open(so[w]) \/ Erasing) THEN {"copy"} ELSE {})
  \cup (IF so[w][2] \notin Copied \/ ~Open(so[w]) \/ Erasing THEN {"block"} ELSE {})

\* The walk starts, or goes on, at client c; at the end of the map it is over.
WalkTo(w, c) ==
  /\ it' = [it EXCEPT ![w] = c]
  /\ GoTo(w, IF c = None THEN "block" ELSE "copy")

\* A chunk that is to be copied and is not, its socket not being found, has
\* raced with a close.
Route(w) ==
  /\ pc[w] = "route"
  /\ \/ /\ "copy" \in Routes(w)
        /\ WalkTo(w, First(request_so))
        /\ UNCHANGED raced
     \/ /\ "block" \in Routes(w)
        /\ WalkTo(w, None)
        /\ raced' = IF so[w][2] \in Copied THEN raced \cup {Chunk(w)} ELSE raced
  /\ UNCHANGED <<net, pairs, pool, service_mutex, main, so, request_so, edge, left,
                 seen>>

\* The walk of w has met a change of the map: its iterator may be anywhere.
Torn(w) == pc[w] = "copy" /\ Chunk(w) \in raced

\* A slip of the redirectors: a failed write ends the walk.
Onward_StopsAtFailure(w, whole) ==
  IF Torn(w) \/ whole THEN First(After(it[w])) ELSE None
Onward(w, whole) == First(After(it[w]))

\* request_redirector_, response_redirector_: a copy for each client, whole or cut
\* short by a full send buffer, which nobody notices.  A torn walk may yield any
\* client next, again or not, one that has gone, or none.
Copy(w) ==
  /\ pc[w] = "copy"
  /\ seen' = [seen EXCEPT ![it[w]] = Append(@, Chunk(w))]
  /\ \/ \E whole \in BOOLEAN : WalkTo(w, Onward(w, whole))
     \/ /\ Torn(w)
        /\ \E c \in request_so \cup left :
             Len(seen'[c]) < MaxSeen /\ WalkTo(w, c)
     \/ Torn(w) /\ WalkTo(w, None)
  /\ UNCHANGED <<net, pairs, pool, service_mutex, main, so, request_so, edge,
                 left, raced>>

Block(w) ==
  /\ pc[w] = "block"
  /\ nonblock' = nonblock \ {Other(so[w])}
  /\ GoTo(w, "send")
  /\ UNCHANGED <<net, closed, failed, armed, pool, service_mutex, main, so, it,
                 spies>>

Write(s) == held' = [held EXCEPT ![s] = @ + 1]
Fail(w) ==
  /\ failed' = failed \cup {so[w][1]}
  /\ GoTo(w, "close")
  /\ UNCHANGED held

\* write_data: an open socket with room takes the chunk; a full one blocks the
\* worker, unless the other direction has made it non-blocking meanwhile.
Send(w) ==
  /\ pc[w] = "send"
  /\ LET s == Other(so[w]) IN
       \/ /\ Open(s) /\ Room(s)
          /\ Write(s) /\ GoTo(w, "rearm")
          /\ nonblock' = nonblock \cup {s}
          /\ UNCHANGED failed
       \/ /\ ~Open(s) \/ (~Room(s) /\ s \in nonblock)
          /\ Fail(w)
          /\ UNCHANGED nonblock
       \/ /\ Open(s) /\ ~Room(s) /\ s \notin nonblock
          /\ GoTo(w, "sending")
          /\ UNCHANGED <<held, failed, nonblock>>
  /\ UNCHANGED <<sent, read, got, fin, closed, armed, pool, service_mutex,
                 main, so, it, spies>>

\* A blocked call goes on after another thread has closed the socket.
SendDone(w) ==
  /\ pc[w] = "sending" /\ Room(Other(so[w]))
  /\ Write(Other(so[w])) /\ GoTo(w, "rearm")
  /\ nonblock' = nonblock \cup {Other(so[w])}
  /\ UNCHANGED <<sent, read, got, fin, closed, failed, armed, pool,
                 service_mutex, main, so, it, spies>>

Rearm(w) ==
  /\ pc[w] = "rearm"
  /\ service_mutex \in {None, w}
  /\ IF Open(so[w])
       THEN /\ armed' = armed \cup {so[w]}
            /\ nonblock' = nonblock \cup {so[w]}
       ELSE UNCHANGED <<armed, nonblock>>
  /\ service_mutex' = None
  /\ Finish(w)
  /\ UNCHANGED <<net, closed, failed, pool, main, spies>>

\* close_socket, from taking the lock to its release.
CloseBegin(w) ==
  /\ pc[w] = "close"
  /\ service_mutex \in {None, w}
  /\ service_mutex' = w
  /\ GoTo(w, "closing")
  /\ UNCHANGED <<net, pairs, pool, main, so, it, spies>>

CloseEnd(w) ==
  /\ pc[w] = "closing"
  /\ closed' = closed \cup {so[w][1]}
  /\ armed' = {s \in armed : s[1] # so[w][1]}
  /\ service_mutex' = None
  /\ Finish(w)
  /\ UNCHANGED <<net, failed, nonblock, pool, main, spies>>

WorkerStep(w) ==
  \/ Take(w) \/ Lookup(w) \/ Recv(w) \/ Route(w) \/ Copy(w)
  \/ Block(w) \/ Send(w) \/ SendDone(w) \/ Rearm(w)
  \/ CloseBegin(w) \/ CloseEnd(w)

-----------------------------------------------------------------------------
Next ==
  \/ MainStep
  \/ \E s \in Socket : Peer(s)
  \/ \E c \in Spies : Spy(c)
  \/ \E w \in Workers : WorkerStep(w)

Spec == Init /\ [][Next]_vars

Reads == \E s \in Socket \ Lazy : PeerRead(s) /\ Peer(s)

\* Threads run, and peers that are not lazy read; backdoor clients owe nothing,
\* nor does a worker whose walk is torn.
FairSpec ==
  /\ Spec
  /\ WF_vars(MainStep) /\ WF_vars(Reads)
  /\ \A w \in Workers : WF_vars(~Torn(w) /\ WorkerStep(w))

-----------------------------------------------------------------------------
(* Properties.                                                             *)

\* Every variable keeps its type; the lock is held exactly while a worker
\* closes, so no thread ever sleeps on a peer with it; and nobody waits on a
\* full socket but for a peer's sake.
TypeOK ==
  /\ \A s \in Socket : got[s] + held[s] <= read[Other(s)] /\ read[s] <= sent[s]
  /\ \A s \in Socket : held[s] <= Cap
  /\ armed \subseteq Socket /\ nonblock \subseteq Socket
  /\ pool \in Seq(Socket)
  /\ IF mpc = "lookup" THEN cur \in Socket ELSE cur = None
  /\ IF mpc = "hear" THEN who \in Spies ELSE who = None
  /\ \A w \in Workers : pc[w] = "idle" <=> so[w] = None
  /\ service_mutex = None <=> \A w \in Workers : pc[w] # "closing"
  /\ request_so \subseteq Spies

\* Closing with linger time zero costs at most what the kernel held: when one
\* peer has ended its stream, no write of the pair has failed and the other
\* peer is still there, the latter misses no more than a send buffer of it.
TailOnly ==
  \A s \in Socket :
    (~Open(s) /\ s[1] \notin failed /\ s \in fin /\ Other(s) \notin fin)
      => sent[s] - got[Other(s)] <= Cap

\* Chunks of socket s whose copying is over.
Walking(s) == \E w \in Workers : so[w] = s /\ pc[w] \in {"route", "copy"}
Walked(s) == IF Walking(s) THEN read[s] - 1 ELSE read[s]

\* What a client of the backdoor gets of one direction is in the order of the
\* stream, whatever becomes of the walks that give it: no chunk comes after a
\* later one.  Only a chunk whose copying raced with a change of the map, or of
\* the pair's, can come twice, and only such a chunk can be missing once the
\* client has been given an earlier one and as long as it stays: a client with a
\* full buffer costs nobody else a chunk, nor itself a later one.
CopiesInOrder ==
  \A c \in Spies : \A i \in DOMAIN seen[c] :
    LET s == seen[c][i][1]  n == seen[c][i][2] IN
      /\ \A j \in DOMAIN seen[c] : (i < j /\ seen[c][j][1] = s) =>
           n < seen[c][j][2] \/ (seen[c][j] = seen[c][i] /\ seen[c][i] \in raced)
      /\ c \in request_so => \A m \in n + 1 .. Walked(s) :
           <<s, m>> \in raced \/ \E j \in DOMAIN seen[c] : seen[c][j] = <<s, m>>

\* Peers that never read hold one worker each; while there are fewer of them
\* than workers, every other pair is relayed, whatever the clients of the
\* backdoor do, unless meanwhile one of them breaks a worker's walk.
OthersServed ==
  \A s \in {s \in Socket : Quota[s] > 0 /\ Other(s) \notin Lazy} :
    (got[Other(s)] < sent[s])
      ~> (got[Other(s)] = sent[s] \/ ~Open(s) \/ \E w \in Workers : Torn(w))
=============================================================================
