----------------------------- MODULE FlowProofs -----------------------------
(***************************************************************************)
(* Theorems about Flow: its types and bounds, what an orderly end may      *)
(* lose, and the order of the copies that clients of the backdoor get.     *)
(***************************************************************************)
EXTENDS Flow, TLAPS, WellFoundedInduction

(***************************************************************************)
(* Numbers of clients: the smallest of a set, and the walk of a map.       *)
(***************************************************************************)
LEMMA NatMin ==
  ASSUME NEW S \in SUBSET Nat, S # {}
  PROVE  \E m \in S : \A k \in S : m <= k
<1> DEFINE R == OpToRel(<, Nat)
<1>1. \E m \in S : \A k \in S : <<k, m>> \notin R
  BY NatLessThanWellFounded, WFMin
<1>2. \A k, m \in Nat : k < m => <<k, m>> \in R
  BY Zenon DEF OpToRel
<1> HIDE DEF R
<1>3. \A k, m \in S : <<k, m>> \notin R => m <= k
  <2> SUFFICES ASSUME NEW k \in S, NEW m \in S, ~(m <= k) PROVE <<k, m>> \in R
    OBVIOUS
  <2>1. k < m
    OBVIOUS
  <2> QED
    BY <2>1, <1>2
<1> QED
  BY <1>1, <1>3

LEMMA FirstOf ==
  ASSUME NEW S, S \subseteq Spies, S # {}
  PROVE  First(S) \in S /\ \A k \in S : First(S) <= k
<1>1. \E m \in S : \A k \in S : m <= k
  BY NatMin, FlowAssumption
<1> QED
  BY <1>1 DEF First

LEMMA WalkStart ==
  ASSUME NEW S, S \subseteq Spies
  PROVE  First(S) \in S \cup {None}
BY FirstOf DEF First

\* The next client of the map is the least of those that come later.
LEMMA WalkOn ==
  ASSUME request_so \subseteq Spies, NEW c \in Spies
  PROVE  /\ First(After(c)) # None =>
              /\ First(After(c)) \in request_so /\ First(After(c)) > c
              /\ \A e \in request_so : e > c => e >= First(After(c))
         /\ First(After(c)) = None => \A e \in request_so : ~(e > c)
<1>1. After(c) \subseteq Spies /\ After(c) = {d \in request_so : d > c}
  BY DEF After
<1>2. CASE After(c) = {}
  BY <1>1, <1>2 DEF First
<1>3. CASE After(c) # {}
  <2>1. First(After(c)) \in After(c) /\ \A k \in After(c) : First(After(c)) <= k
    BY <1>1, <1>3, FirstOf
  <2>2. First(After(c)) # None
    BY <1>1, <2>1, FlowAssumption
  <2>3. \A e \in request_so : e > c => e >= First(After(c))
    <3>1. \A e \in request_so : e > c => e \in After(c)
      BY <1>1
    <3>2. \A e \in Spies : e \in Nat
      BY FlowAssumption
    <3> QED
      BY <1>1, <2>1, <3>1, <3>2
  <2> QED
    BY <1>1, <2>1, <2>2, <2>3
<1> QED
  BY <1>2, <1>3

LEMMA OtherSocket ==
  ASSUME NEW s \in Socket
  PROVE  /\ Other(s) \in Socket /\ Other(s)[1] = s[1]
         /\ Other(s) # s /\ Other(Other(s)) = s
         /\ \A x \in Socket : x[1] = s[1] => x = s \/ x = Other(s)
BY DEF Socket, Other

(***************************************************************************)
(* Types, the lock, and the one place each socket's event is in.           *)
(***************************************************************************)
Steps == {"idle", "lookup", "recv", "route", "copy", "block", "send",
          "sending", "rearm", "close", "closing"}

NetTypes ==
  /\ sent \in [Socket -> Nat] /\ read \in [Socket -> Nat]
  /\ held \in [Socket -> Nat] /\ got \in [Socket -> Nat]
  /\ fin \subseteq Socket /\ closed \subseteq Pairs /\ failed \subseteq Pairs

LoopTypes ==
  /\ armed \subseteq Socket /\ nonblock \subseteq Socket
  /\ pool \in Seq(Socket)
  /\ mpc \in {"poll", "lookup", "hear"}
  /\ IF mpc = "lookup" THEN cur \in Socket ELSE cur = None
  /\ IF mpc = "hear" THEN who \in Spies ELSE who = None

WorkerTypes ==
  /\ pc \in [Workers -> Steps]
  /\ so \in [Workers -> Socket \cup {None}]
  /\ it \in [Workers -> Spies \cup {None}]
  /\ \A w \in Workers : pc[w] = "idle" <=> so[w] = None
  /\ \A w \in Workers : pc[w] = "copy" => it[w] # None

SpyTypes ==
  /\ request_so \subseteq Spies /\ edge \subseteq Spies /\ left \subseteq Spies
  /\ seen \in [Spies -> Seq(Socket \X Nat)]

Types == NetTypes /\ LoopTypes /\ WorkerTypes /\ SpyTypes

Mutex ==
  /\ service_mutex \in Workers \cup {None}
  /\ \A w \in Workers : service_mutex = w <=> pc[w] = "closing"

\* A socket is armed, or one thing stands for it: the event of the main loop,
\* an entry of the queue, or a worker.
Tokens ==
  /\ cur \notin armed
  /\ \A i \in 1 .. Len(pool) : pool[i] \notin armed /\ pool[i] # cur
  /\ \A i, j \in 1 .. Len(pool) : pool[i] = pool[j] => i = j
  /\ \A w \in Workers : so[w] # None => so[w] \notin armed /\ so[w] # cur
  /\ \A w \in Workers : \A i \in 1 .. Len(pool) : so[w] # pool[i]
  /\ \A w, v \in Workers : so[w] # None /\ so[w] = so[v] => w = v

TokenInv == Types /\ Mutex /\ Tokens

-----------------------------------------------------------------------------
(***************************************************************************)
(* What was read is with the peer, in its buffer or in a worker's hands.   *)
(***************************************************************************)
Hands == {"route", "copy", "block", "send", "sending"}
Carries(w, s) == so[w] = s /\ pc[w] \in Hands
Carried(s) == \E w \in Workers : Carries(w, s)
Unsent(s) == IF Carried(s) THEN 1 ELSE 0

Counts ==
  \A s \in Socket :
    /\ read[s] <= sent[s] /\ held[s] <= Cap
    /\ got[Other(s)] + held[Other(s)] + Unsent(s) <= read[s]
    /\ s[1] \notin failed =>
         got[Other(s)] + held[Other(s)] + Unsent(s) = read[s]

(***************************************************************************)
(* Why a pair is closed: a write of it failed, or one of its streams ended *)
(* and all of it was read.                                                 *)
(***************************************************************************)
AllRead(x) == x \in fin /\ read[x] = sent[x]

HasNews(x) == Pending(x) \/ x \in fin

Reported ==
  /\ mpc = "lookup" => HasNews(cur)
  /\ \A i \in 1 .. Len(pool) : HasNews(pool[i])
  /\ \A w \in Workers : pc[w] \in {"lookup", "recv"} => HasNews(so[w])

Closes ==
  \A w \in Workers : pc[w] \in {"close", "closing"} =>
    so[w][1] \in failed \/ ~Open(so[w]) \/ AllRead(so[w])

Ended ==
  \A s \in Socket : ~Open(s) =>
    s[1] \in failed \/ \E x \in {s, Other(s)} : AllRead(x) /\ ~Carried(x)

EndInv == Counts /\ Reported /\ Closes /\ Ended

(***************************************************************************)
(* What the clients of the backdoor have of a stream was read before.      *)
(***************************************************************************)
\* Client c has nothing of the chunk that worker w holds, or of later ones.
Before(c, w) ==
  \A i \in 1 .. Len(seen[c]) :
    seen[c][i][1] = so[w] => seen[c][i][2] < read[so[w]]

Has(c, x) == \E i \in 1 .. Len(seen[c]) : seen[c][i] = x

\* Who is given something is in the map, or has left it for good; what is
\* reported of a client is its arrival, or its leave.
Met ==
  /\ \A c \in Spies : seen[c] # <<>> => c \in request_so \cup left
  /\ \A c \in Spies : c \in edge \/ who = c => (c \in request_so <=> c \in left)
  /\ who \notin edge
  /\ \A w \in Workers : pc[w] = "copy" =>
       so[w][2] \in Copied /\ it[w] \in request_so \cup left

\* A walk that is not torn is through with the clients before it, and has given
\* nothing to the others.
Given ==
  /\ \A c \in Spies : \A i \in 1 .. Len(seen[c]) :
       seen[c][i][1][2] \in Copied /\ seen[c][i][2] <= read[seen[c][i][1]]
  /\ \A w \in Workers : pc[w] = "route" => \A c \in Spies : Before(c, w)
  /\ \A w \in Workers : pc[w] = "copy" /\ ~Torn(w) => \A c \in Spies :
       /\ c >= it[w] => Before(c, w)
       /\ c \in request_so /\ c < it[w] => Has(c, Chunk(w))

\* The two halves of CopiesInOrder.
Order ==
  \A c \in Spies : \A i, j \in 1 .. Len(seen[c]) :
    i < j /\ seen[c][i][1] = seen[c][j][1] =>
      \/ seen[c][i][2] < seen[c][j][2]
      \/ seen[c][j] = seen[c][i] /\ seen[c][i] \in raced

Whole ==
  \A c \in request_so : \A i \in 1 .. Len(seen[c]) : \A s \in Socket : \A m \in Nat :
    seen[c][i][1] = s /\ seen[c][i][2] < m /\ m <= Walked(s) =>
      <<s, m>> \in raced \/ Has(c, <<s, m>>)

Copies == Met /\ Given /\ Order /\ Whole

-----------------------------------------------------------------------------
(***************************************************************************)
(* TokenInv is inductive.                                                  *)
(***************************************************************************)
LEMMA TokensFirst ==
  ASSUME Init PROVE TokenInv
<1>1. Types
  <2>1. NetTypes
    BY FlowAssumption DEF Init, NetTypes
  <2>2. LoopTypes
    BY DEF Init, LoopTypes
  <2>3. WorkerTypes
    BY DEF Init, WorkerTypes, Steps
  <2>4. SpyTypes
    <3> DEFINE E == Socket \X Nat
    <3>1. <<>> \in Seq(E)
      OBVIOUS
    <3> HIDE DEF E
    <3>2. [c \in Spies |-> <<>>] \in [Spies -> Seq(E)]
      BY <3>1
    <3> QED
      BY <3>2 DEF Init, SpyTypes, E
  <2> QED
    BY <2>1, <2>2, <2>3, <2>4 DEF Types
<1>2. Mutex
  BY FlowAssumption DEF Init, Mutex
<1>3. Tokens
  BY FlowAssumption DEF Init, Tokens
<1> QED
  BY <1>1, <1>2, <1>3 DEF TokenInv

\* Steps that leave the workers and the places of the events alone.
LEMMA TokensStay ==
  ASSUME TokenInv, NetTypes', SpyTypes',
         UNCHANGED <<armed, nonblock, pool, service_mutex, mpc, cur, who, pc, so, it>>
  PROVE  TokenInv'
<1>1. Types'
  BY DEF TokenInv, Types, LoopTypes, WorkerTypes
<1>2. Mutex'
  BY DEF TokenInv, Mutex
<1>3. Tokens'
  BY DEF TokenInv, Tokens
<1> QED
  BY <1>1, <1>2, <1>3 DEF TokenInv

LEMMA TokensPeer ==
  ASSUME TokenInv, NEW s \in Socket, Peer(s)
  PROVE  TokenInv'
<1>1. NetTypes'
  <2>1. CASE PeerSend(s)
    BY <2>1 DEF Peer, PeerSend, TokenInv, Types, NetTypes, pairs
  <2>2. CASE PeerFin(s)
    BY <2>2 DEF Peer, PeerFin, TokenInv, Types, NetTypes, pairs
  <2>3. CASE PeerRead(s)
    BY <2>3 DEF Peer, PeerRead, TokenInv, Types, NetTypes, pairs
  <2> QED
    BY <2>1, <2>2, <2>3 DEF Peer
<1>2. SpyTypes'
  BY DEF Peer, TokenInv, Types, SpyTypes, spies
<1> QED
  BY <1>1, <1>2, TokensStay DEF Peer, pairs, main, workers

LEMMA TokensSpy ==
  ASSUME TokenInv, NEW c \in Spies, Spy(c)
  PROVE  TokenInv'
<1>1. NetTypes'
  BY DEF Spy, TokenInv, Types, NetTypes, net, pairs
<1>2. SpyTypes'
  <2>1. edge' \subseteq Spies /\ left' \subseteq Spies
    BY DEF Spy, SpyArrive, SpyLeave, TokenInv, Types, SpyTypes
  <2> QED
    BY <2>1 DEF Spy, TokenInv, Types, SpyTypes
<1> QED
  BY <1>1, <1>2, TokensStay DEF Spy, pairs, main, workers

\* The main loop.
LEMMA TokensMain ==
  ASSUME TokenInv, MainStep
  PROVE  TokenInv'
<1> USE FlowAssumption DEF net, pairs, main, workers, spies
<1>a. NetTypes'
  BY DEF MainStep, Enqueue, Hear, Poll, PollSpy, SpyBroken, TokenInv, Types, NetTypes
<1>b. WorkerTypes'
  BY DEF MainStep, Enqueue, Hear, Poll, PollSpy, SpyBroken, TokenInv, Types, WorkerTypes
<1>c. Mutex'
  BY DEF MainStep, Enqueue, Hear, Poll, PollSpy, SpyBroken, TokenInv, Mutex
<1>d. SpyTypes'
  <2>1. CASE Enqueue
    BY <2>1 DEF Enqueue, TokenInv, Types, SpyTypes
  <2>2. CASE Hear
    BY <2>2 DEF Hear, Change, TokenInv, Types, SpyTypes, LoopTypes
  <2>3. ASSUME NEW s \in Socket, Poll(s) PROVE SpyTypes'
    BY <2>3 DEF Poll, TokenInv, Types, SpyTypes
  <2>4. ASSUME NEW c \in Spies, PollSpy(c) PROVE SpyTypes'
    BY <2>4 DEF PollSpy, TokenInv, Types, SpyTypes
  <2>5. ASSUME NEW c \in Spies, SpyBroken(c) PROVE SpyTypes'
    BY <2>5 DEF SpyBroken, Change, TokenInv, Types, SpyTypes
  <2> QED
    BY <2>1, <2>2, <2>3, <2>4, <2>5 DEF MainStep
<1>e. LoopTypes' /\ Tokens'
  <2>1. CASE Enqueue
    <3>1. LoopTypes'
      BY <2>1 DEF Enqueue, EventDone, TokenInv, Types, LoopTypes
    <3>2. Tokens'
      <4>1. CASE Open(cur)
        <5>1. cur \in Socket /\ pool \in Seq(Socket) /\ so \in [Workers -> Socket \cup {None}]
              /\ UNCHANGED <<armed, so>> /\ pool' = Append(pool, cur) /\ cur' = None
              /\ armed \subseteq Socket
          <6>1. cur \in Socket /\ pool \in Seq(Socket) /\ armed \subseteq Socket
            BY <2>1 DEF Enqueue, TokenInv, Types, LoopTypes
          <6>2. so \in [Workers -> Socket \cup {None}]
            BY DEF TokenInv, Types, WorkerTypes
          <6> QED
            BY <2>1, <4>1, <6>1, <6>2 DEF Enqueue, EventDone
        <5>2. Len(pool') = Len(pool) + 1 /\ pool'[Len(pool) + 1] = cur
              /\ \A i \in 1 .. Len(pool) : pool'[i] = pool[i] /\ pool[i] \in Socket
          BY <5>1
        <5>3. \A i \in 1 .. Len(pool') : i \in 1 .. Len(pool) \/ i = Len(pool) + 1
          BY <5>1, <5>2
        <5> QED
          BY <5>1, <5>2, <5>3 DEF TokenInv, Tokens
      <4>2. CASE ~Open(cur)
        <5>1. \A i \in 1 .. Len(pool) : pool[i] \in Socket
          BY DEF TokenInv, Types, LoopTypes
        <5> QED
          BY <2>1, <4>2, <5>1 DEF Enqueue, EventDone, TokenInv, Types, LoopTypes, Tokens
      <4> QED
        BY <4>1, <4>2
    <3> QED
      BY <3>1, <3>2
  <2>2. CASE Hear
    BY <2>2 DEF Hear, EventDone, TokenInv, Types, LoopTypes, Tokens
  <2>3. ASSUME NEW s \in Socket, Poll(s) PROVE LoopTypes' /\ Tokens'
    <3>1. \A i \in 1 .. Len(pool) : pool[i] \in Socket
      BY DEF TokenInv, Types, LoopTypes
    <3> QED
      BY <2>3, <3>1 DEF Poll, Disarm, TokenInv, Types, LoopTypes, WorkerTypes, Tokens
  <2>4. ASSUME NEW c \in Spies, PollSpy(c) PROVE LoopTypes' /\ Tokens'
    BY <2>4 DEF PollSpy, TokenInv, Types, LoopTypes, Tokens
  <2>5. ASSUME NEW c \in Spies, SpyBroken(c) PROVE LoopTypes' /\ Tokens'
    BY <2>5 DEF SpyBroken, TokenInv, Types, LoopTypes, Tokens
  <2> QED
    BY <2>1, <2>2, <2>3, <2>4, <2>5 DEF MainStep
<1> QED
  BY <1>a, <1>b, <1>c, <1>d, <1>e DEF TokenInv, Types

\* The workers.
LEMMA TokensNet ==
  ASSUME TokenInv, NEW w \in Workers, WorkerStep(w)
  PROVE  NetTypes' /\ SpyTypes'
<1> USE FlowAssumption DEF net, pairs, main, workers, spies
<1>1. so[w] # None => so[w] \in Socket /\ so[w][1] \in Pairs /\ Other(so[w]) \in Socket
  BY OtherSocket DEF TokenInv, Types, WorkerTypes, Socket
<1>2. pc[w] # "idle" => so[w] # None
  BY DEF TokenInv, Types, WorkerTypes
<1>3. NetTypes'
  <2>1. read' \in [Socket -> Nat]
    <3>1. read' = read \/ \E s : read' = [read EXCEPT ![s] = @ + 1]
      BY DEF WorkerStep, Take, Lookup, Recv, Route, Copy, Block, Send, SendDone, Rearm, CloseBegin,
             CloseEnd
    <3>2. read \in [Socket -> Nat]
      BY DEF TokenInv, Types, NetTypes
    <3> QED
      BY <3>1, <3>2
  <2>2. held' \in [Socket -> Nat]
    <3>1. held' = held \/ \E s : held' = [held EXCEPT ![s] = @ + 1]
      BY DEF WorkerStep, Take, Lookup, Recv, Route, Copy, Block, Send, SendDone, Rearm, CloseBegin,
             CloseEnd, Write, Fail
    <3>2. held \in [Socket -> Nat]
      BY DEF TokenInv, Types, NetTypes
    <3> QED
      BY <3>1, <3>2
  <2>3. closed' \subseteq Pairs
    BY <1>1, <1>2 DEF WorkerStep, Take, Lookup, Recv, Route, Copy, Block, Send, SendDone, Rearm, CloseBegin,
           CloseEnd, TokenInv, Types, NetTypes
  <2>4. failed' \subseteq Pairs
    BY <1>1, <1>2 DEF WorkerStep, Take, Lookup, Recv, Route, Copy, Block, Send, SendDone, Rearm, CloseBegin,
           CloseEnd, TokenInv, Types, NetTypes, Fail
  <2>5. UNCHANGED <<sent, got, fin>>
    BY DEF WorkerStep, Take, Lookup, Recv, Route, Copy, Block, Send, SendDone, Rearm, CloseBegin,
           CloseEnd
  <2> QED
    BY <2>1, <2>2, <2>3, <2>4, <2>5 DEF TokenInv, Types, NetTypes
<1>4. SpyTypes'
  <2>1. CASE Copy(w)
    <3>1. so[w] \in Socket /\ read[so[w]] \in Nat
      BY <2>1, <1>1, <1>2 DEF Copy, TokenInv, Types, NetTypes
    <3>2. seen' \in [Spies -> Seq(Socket \X Nat)]
      <4> DEFINE E == Socket \X Nat
      <4>1. Chunk(w) \in E
        BY <3>1 DEF Chunk
      <4>2. seen \in [Spies -> Seq(E)]
        BY DEF TokenInv, Types, SpyTypes
      <4>3. seen' = seen \/ seen' = [seen EXCEPT ![it[w]] = Append(@, Chunk(w))]
        BY <2>1 DEF Copy
      <4> HIDE DEF E
      <4>4. \A q \in Seq(E) : Append(q, Chunk(w)) \in Seq(E)
        BY <4>1
      <4>5. ASSUME seen' = [seen EXCEPT ![it[w]] = Append(@, Chunk(w))]
            PROVE  seen' \in [Spies -> Seq(E)]
        <5>1. seen' = [c \in Spies |-> IF c = it[w] THEN Append(seen[c], Chunk(w)) ELSE seen[c]]
          BY <4>2, <4>5
        <5>2. \A c \in Spies : seen[c] \in Seq(E) /\ Append(seen[c], Chunk(w)) \in Seq(E)
          BY <4>2, <4>4
        <5> DEFINE f(c) == IF c = it[w] THEN Append(seen[c], Chunk(w)) ELSE seen[c]
        <5>3. \A c \in Spies : f(c) \in Seq(E)
          BY <5>2
        <5>4. seen' = [c \in Spies |-> f(c)]
          BY <5>1
        <5> HIDE DEF f
        <5> QED
          BY <5>3, <5>4
      <4> QED
        BY <4>2, <4>3, <4>5 DEF E
    <3> QED
      BY <2>1, <3>2 DEF Copy, TokenInv, Types, SpyTypes
  <2>2. CASE ~Copy(w)
    <3>1. UNCHANGED <<request_so, edge, left, seen>>
      BY <2>2 DEF WorkerStep, Take, Lookup, Recv, Route, Block, Send, SendDone, Rearm, CloseBegin,
             CloseEnd
    <3> QED
      BY <3>1 DEF TokenInv, Types, SpyTypes
  <2> QED
    BY <2>1, <2>2
<1> QED
  BY <1>3, <1>4

LEMMA TokensLoop ==
  ASSUME TokenInv, NEW w \in Workers, WorkerStep(w)
  PROVE  LoopTypes' /\ Mutex'
<1> USE FlowAssumption DEF net, pairs, main, workers, spies
<1>1. so[w] # None => so[w] \in Socket /\ Other(so[w]) \in Socket
  BY OtherSocket DEF TokenInv, Types, WorkerTypes
<1>2. pc[w] # "idle" => so[w] # None
  BY DEF TokenInv, Types, WorkerTypes
<1>3. armed' \subseteq Socket /\ nonblock' \subseteq Socket
  BY <1>1, <1>2 DEF WorkerStep, Take, Lookup, Recv, Route, Copy, Block, Send, SendDone, Rearm, CloseBegin,
         CloseEnd, TokenInv, Types, LoopTypes
<1>4. pool' \in Seq(Socket)
  <2>1. pool' = pool \/ (pool # <<>> /\ pool' = Tail(pool))
    BY DEF WorkerStep, Take, Lookup, Recv, Route, Copy, Block, Send, SendDone, Rearm, CloseBegin,
           CloseEnd
  <2>2. pool \in Seq(Socket)
    BY DEF TokenInv, Types, LoopTypes
  <2>3. pool # <<>> => Tail(pool) \in Seq(Socket)
    BY <2>2
  <2> QED
    BY <2>1, <2>2, <2>3
<1>5. UNCHANGED main
  BY DEF WorkerStep, Take, Lookup, Recv, Route, Copy, Block, Send, SendDone, Rearm, CloseBegin,
         CloseEnd
<1>6. Mutex'
  <2>1. pc \in [Workers -> Steps]
    BY DEF TokenInv, Types, WorkerTypes
  <2>2. CASE CloseBegin(w)
    BY <2>1, <2>2 DEF CloseBegin, GoTo, TokenInv, Mutex
  <2>3. CASE CloseEnd(w) \/ Rearm(w)
    BY <2>1, <2>3 DEF CloseEnd, Rearm, GoTo, Finish, TokenInv, Mutex
  <2>4. CASE ~CloseBegin(w) /\ ~CloseEnd(w) /\ ~Rearm(w)
    <3>1. UNCHANGED service_mutex /\ pc[w] # "closing"
      BY <2>4 DEF WorkerStep, Take, Lookup, Recv, Route, Copy, Block, Send, SendDone, Unlock
    <3>2. PICK l : pc' = [pc EXCEPT ![w] = l] /\ l # "closing"
      BY <2>4 DEF WorkerStep, Take, Lookup, Recv, Route, Copy, Block, Send, SendDone, GoTo, WalkTo, Fail
    <3> QED
      BY <2>1, <3>1, <3>2 DEF TokenInv, Mutex
  <2> QED
    BY <2>2, <2>3, <2>4
<1> QED
  BY <1>3, <1>4, <1>5, <1>6 DEF TokenInv, Types, LoopTypes

LEMMA TokensWorker ==
  ASSUME TokenInv, NEW w \in Workers, WorkerStep(w)
  PROVE  WorkerTypes'
<1> USE FlowAssumption DEF net, pairs, main, workers, spies
<1>1. pc \in [Workers -> Steps] /\ so \in [Workers -> Socket \cup {None}]
      /\ it \in [Workers -> Spies \cup {None}]
      /\ (\A v \in Workers : pc[v] = "idle" <=> so[v] = None)
      /\ (\A v \in Workers : pc[v] = "copy" => it[v] # None)
  BY DEF TokenInv, Types, WorkerTypes
<1>2. request_so \subseteq Spies /\ left \subseteq Spies
  BY DEF TokenInv, Types, SpyTypes
<1>3. CASE Take(w)
  <2>1. Head(pool) \in Socket
    BY <1>3 DEF Take, TokenInv, Types, LoopTypes
  <2> QED
    BY <1>1, <1>3, <2>1 DEF Take, GoTo, WorkerTypes, Steps
<1>4. CASE Rearm(w) \/ CloseEnd(w)
  BY <1>1, <1>4 DEF Rearm, CloseEnd, Finish, GoTo, WorkerTypes, Steps
<1>5. CASE Route(w) \/ Copy(w)
  <2>1. PICK d \in Spies \cup {None} : WalkTo(w, d)
    <3>1. First(request_so) \in Spies \cup {None}
      BY <1>2, WalkStart
    <3>2. First(After(it[w])) \in Spies \cup {None}
      BY <1>2, WalkStart DEF After
    <3> QED
      BY <1>2, <1>5, <3>1, <3>2 DEF Route, Copy, Onward
  <2>2. UNCHANGED so /\ pc[w] # "idle"
    BY <1>5 DEF Route, Copy
  <2> QED
    BY <1>1, <2>1, <2>2 DEF WalkTo, GoTo, WorkerTypes, Steps
<1>6. CASE Lookup(w) \/ Recv(w) \/ Block(w) \/ Send(w) \/ SendDone(w) \/ CloseBegin(w)
  <2>1. UNCHANGED <<so, it>> /\ pc[w] # "idle"
    BY <1>6 DEF Lookup, Recv, Block, Send, SendDone, CloseBegin
  <2>2. PICK l : pc' = [pc EXCEPT ![w] = l] /\ l \in Steps /\ l # "idle" /\ l # "copy"
    BY <1>6 DEF Lookup, Recv, Block, Send, SendDone, CloseBegin, GoTo, Fail, Steps
  <2> QED
    BY <1>1, <2>1, <2>2 DEF WorkerTypes
<1> QED
  BY <1>3, <1>4, <1>5, <1>6 DEF WorkerStep

\* An event goes from the head of the queue to a worker, and from a worker
\* back to epoll or away with its pair.
LEMMA TokensMove ==
  ASSUME TokenInv, NEW w \in Workers, WorkerStep(w)
  PROVE  Tokens'
<1> USE FlowAssumption DEF net, pairs, main, workers, spies
<1>1. so \in [Workers -> Socket \cup {None}]
      /\ (\A v \in Workers : pc[v] = "idle" <=> so[v] = None)
  BY DEF TokenInv, Types, WorkerTypes
<1>2. pool \in Seq(Socket) /\ armed \subseteq Socket /\ cur \in Socket \cup {None}
  BY DEF TokenInv, Types, LoopTypes
<1>3. \A i \in 1 .. Len(pool) : pool[i] \in Socket
  BY <1>2
<1>t. Tokens
  BY DEF TokenInv
<1>4. CASE Take(w)
  <2>1. UNCHANGED <<armed, cur>> /\ pool' = Tail(pool)
        /\ so' = [so EXCEPT ![w] = pool[1]]
    BY <1>4 DEF Take
  <2>2. Len(pool') = Len(pool) - 1 /\ 1 \in 1 .. Len(pool)
        /\ \A i \in 1 .. Len(pool') : pool'[i] = pool[i + 1] /\ i + 1 \in 1 .. Len(pool) /\ i + 1 # 1
    BY <1>2, <1>4 DEF Take
  <2>3. \A i, j \in 1 .. Len(pool') : i + 1 = j + 1 => i = j
    OBVIOUS
  <2>4. pool[1] \in Socket /\ so'[w] = pool[1] /\ \A v \in Workers : v # w => so'[v] = so[v]
    BY <1>1, <1>3, <2>1, <2>2
  <2> HIDE FlowAssumption
  <2>5. \A i \in 1 .. Len(pool') : pool'[i] \notin armed' /\ pool'[i] # cur'
    BY <2>1, <2>2, <1>t DEF Tokens
  <2>6. \A i, j \in 1 .. Len(pool') : pool'[i] = pool'[j] => i = j
    <3> SUFFICES ASSUME NEW i \in 1 .. Len(pool'), NEW j \in 1 .. Len(pool'), pool'[i] = pool'[j]
                 PROVE  i = j
      OBVIOUS
    <3>1. i + 1 = j + 1
      BY <2>2, <1>t DEF Tokens
    <3> QED
      BY <3>1, <2>3
  <2>7. \A v \in Workers : so'[v] # None => so'[v] \notin armed' /\ so'[v] # cur'
    BY <2>1, <2>2, <2>4, <1>t DEF Tokens
  <2>8. \A v \in Workers : \A i \in 1 .. Len(pool') : so'[v] # pool'[i]
    BY <2>2, <2>4, <1>t DEF Tokens
  <2>9. \A u, v \in Workers : so'[u] # None /\ so'[u] = so'[v] => u = v
    BY <2>2, <2>4, <1>t DEF Tokens
  <2> QED
    BY <2>1, <2>5, <2>6, <2>7, <2>8, <2>9, <1>t DEF Tokens
<1>5. CASE Rearm(w)
  <2>1. UNCHANGED <<pool, cur>> /\ armed' \subseteq armed \cup {so[w]} /\ so' = [so EXCEPT ![w] = None]
    BY <1>5 DEF Rearm, Finish
  <2>2. so[w] \in Socket
    BY <1>1, <1>5 DEF Rearm
  <2> QED
    BY <1>1, <1>2, <1>3, <1>t, <2>1, <2>2 DEF Tokens
<1>6. CASE CloseEnd(w)
  <2>1. UNCHANGED <<pool, cur>> /\ armed' \subseteq armed /\ so' = [so EXCEPT ![w] = None]
    BY <1>6 DEF CloseEnd, Finish
  <2> QED
    BY <1>1, <1>2, <1>3, <1>t, <2>1 DEF Tokens
<1>7. CASE ~Take(w) /\ ~Rearm(w) /\ ~CloseEnd(w)
  <2>1. UNCHANGED <<armed, pool, so, cur>>
    BY <1>7 DEF WorkerStep, Lookup, Recv, Route, Copy, Block, Send, SendDone, CloseBegin
  <2> QED
    BY <2>1, <1>t DEF Tokens
<1> QED
  BY <1>4, <1>5, <1>6, <1>7

LEMMA TokensStep ==
  ASSUME TokenInv, [Next]_vars
  PROVE  TokenInv'
<1>1. CASE UNCHANGED vars
  <2>1. NetTypes' /\ SpyTypes'
    BY <1>1 DEF vars, net, pairs, spies, TokenInv, Types, NetTypes, SpyTypes
  <2> QED
    BY <1>1, <2>1, TokensStay DEF vars, pairs, main, workers
<1>2. ASSUME NEW w \in Workers, WorkerStep(w) PROVE TokenInv'
  BY <1>2, TokensNet, TokensLoop, TokensWorker, TokensMove DEF TokenInv, Types
<1> QED
  BY <1>1, <1>2, TokensMain, TokensPeer, TokensSpy DEF Next

LEMMA TokensAlways == Spec => []TokenInv
BY TokensFirst, TokensStep, PTL DEF Spec

-----------------------------------------------------------------------------
(***************************************************************************)
(* EndInv is inductive, given TokenInv.                                    *)
(***************************************************************************)
LEMMA Numbers ==
  ASSUME TokenInv, NEW s \in Socket
  PROVE  /\ sent[s] \in Nat /\ read[s] \in Nat /\ held[s] \in Nat /\ got[s] \in Nat
         /\ Cap \in Nat /\ Unsent(s) \in {0, 1}
BY FlowAssumption DEF TokenInv, Types, NetTypes, Unsent

LEMMA WorkerTyped ==
  ASSUME TokenInv, NEW w \in Workers
  PROVE  /\ pc[w] \in Steps /\ so[w] \in Socket \cup {None}
         /\ pc[w] = "idle" <=> so[w] = None
         /\ None \notin Socket
BY FlowAssumption DEF TokenInv, Types, WorkerTypes

LEMMA OwnOnly ==
  ASSUME TokenInv, NEW w \in Workers, WorkerStep(w), NEW v \in Workers, v # w
  PROVE  pc'[v] = pc[v] /\ so'[v] = so[v] /\ it'[v] = it[v]
<1>1. pc \in [Workers -> Steps] /\ so \in [Workers -> Socket \cup {None}]
      /\ it \in [Workers -> Spies \cup {None}]
  BY DEF TokenInv, Types, WorkerTypes
<1>2. \E l : pc' = [pc EXCEPT ![w] = l]
  BY DEF WorkerStep, Take, Lookup, Recv, Route, Copy, Block, Send, SendDone, Rearm, CloseBegin,
         CloseEnd, Finish, GoTo, WalkTo, Fail
<1>3. so' = so \/ \E x : so' = [so EXCEPT ![w] = x]
  BY DEF WorkerStep, Take, Lookup, Recv, Route, Copy, Block, Send, SendDone, Rearm, CloseBegin,
         CloseEnd, Finish
<1>4. it' = it \/ \E x : it' = [it EXCEPT ![w] = x]
  BY DEF WorkerStep, Take, Lookup, Recv, Route, Copy, Block, Send, SendDone, Rearm, CloseBegin,
         CloseEnd, Finish, WalkTo
<1> QED
  BY <1>1, <1>2, <1>3, <1>4

LEMMA WorkersRest ==
  ASSUME [Next]_vars, ~\E w \in Workers : WorkerStep(w)
  PROVE  UNCHANGED workers
BY DEF Next, vars, MainStep, Enqueue, Hear, Poll, PollSpy, SpyBroken, Peer, Spy, workers

\* A step of w makes a difference to who carries a chunk of the socket w is
\* at, and to no other.
LEMMA CarriedNow ==
  ASSUME TokenInv, NEW w \in Workers, WorkerStep(w), NEW s \in Socket
  PROVE  /\ so[w] = s => (Carried(s) <=> pc[w] \in Hands)
         /\ so[w] = s => (Carried(s)' <=> so'[w] = s /\ pc'[w] \in Hands)
         /\ so[w] # s => (Carried(s)' <=> Carried(s) \/ (so'[w] = s /\ pc'[w] \in Hands))
<1>1. \A v \in Workers : v # w => pc'[v] = pc[v] /\ so'[v] = so[v]
  BY OwnOnly
<1>2. \A v \in Workers : so[w] = s /\ so[v] = s => v = w
  BY WorkerTyped DEF TokenInv, Tokens
<1> QED
  BY <1>1, <1>2 DEF Carried, Carries

LEMMA CountsFirst ==
  ASSUME Init PROVE EndInv
<1>1. Counts
  <2> SUFFICES ASSUME NEW s \in Socket
               PROVE  /\ read[s] <= sent[s] /\ held[s] <= Cap
                      /\ got[Other(s)] + held[Other(s)] + Unsent(s) <= read[s]
                      /\ got[Other(s)] + held[Other(s)] + Unsent(s) = read[s]
    BY DEF Counts
  <2>1. ~Carried(s)
    BY DEF Init, Carried, Carries, Hands
  <2> QED
    BY <2>1, OtherSocket, FlowAssumption DEF Init, Unsent
<1>2. Reported
  BY DEF Init, Reported
<1>3. Closes
  BY DEF Init, Closes
<1>4. Ended
  BY DEF Init, Ended, Open, Socket
<1> QED
  BY <1>1, <1>2, <1>3, <1>4 DEF EndInv

LEMMA CountsStay ==
  ASSUME TokenInv, Counts, UNCHANGED <<sent, read, held, got, failed>>,
         \A s \in Socket : Carried(s)' <=> Carried(s)
  PROVE  Counts'
<1>1. \A s \in Socket : Unsent(s)' = Unsent(s)
  BY DEF Unsent
<1> QED
  BY <1>1 DEF Counts

LEMMA CountsPeer ==
  ASSUME TokenInv, Counts, NEW x \in Socket, Peer(x)
  PROVE  Counts'
<1> SUFFICES ASSUME NEW s \in Socket
             PROVE  /\ read'[s] <= sent'[s] /\ held'[s] <= Cap
                    /\ got'[Other(s)] + held'[Other(s)] + Unsent(s)' <= read'[s]
                    /\ s[1] \notin failed' =>
                         got'[Other(s)] + held'[Other(s)] + Unsent(s)' = read'[s]
  BY DEF Counts
<1>1. Unsent(s)' = Unsent(s) /\ failed' = failed
  BY DEF Peer, workers, pairs, Unsent, Carried, Carries
<1>2. Other(s) \in Socket
  BY OtherSocket
<1>3. /\ read[s] <= sent[s] /\ held[s] <= Cap
      /\ got[Other(s)] + held[Other(s)] + Unsent(s) <= read[s]
      /\ s[1] \notin failed =>
           got[Other(s)] + held[Other(s)] + Unsent(s) = read[s]
  BY DEF Counts
<1>4. /\ sent \in [Socket -> Nat] /\ held \in [Socket -> Nat] /\ got \in [Socket -> Nat]
      /\ read[s] \in Nat /\ Cap \in Nat /\ Unsent(s) \in {0, 1}
  BY Numbers DEF TokenInv, Types, NetTypes
<1>5. CASE PeerSend(x)
  BY <1>1, <1>2, <1>3, <1>4, <1>5 DEF PeerSend
<1>6. CASE PeerFin(x)
  BY <1>1, <1>2, <1>3, <1>4, <1>6 DEF PeerFin
<1>7. CASE PeerRead(x)
  <2>1. /\ UNCHANGED <<sent, read>>
        /\ held' = [held EXCEPT ![x] = @ - 1] /\ got' = [got EXCEPT ![x] = @ + 1] /\ held[x] > 0
    BY <1>7 DEF PeerRead
  <2>2. \A y \in Socket : got'[y] + held'[y] = got[y] + held[y] /\ held'[y] <= held[y] /\ held'[y] \in Nat
    BY <2>1, <1>4
  <2>3. held'[s] <= Cap
    BY <2>2, <1>3, <1>4
  <2> QED
    BY <1>1, <1>2, <1>3, <1>4, <2>1, <2>2, <2>3
<1> QED
  BY <1>5, <1>6, <1>7 DEF Peer

LEMMA CountsWorker ==
  ASSUME TokenInv, Counts, NEW w \in Workers, WorkerStep(w)
  PROVE  Counts'
<1> DEFINE x == so[w]
<1>1. CASE Take(w) \/ Lookup(w) \/ Route(w) \/ Copy(w) \/ Block(w) \/ Rearm(w)
           \/ CloseBegin(w) \/ CloseEnd(w)
  <2>1. UNCHANGED <<sent, read, held, got, failed>>
    BY <1>1 DEF Take, Lookup, Route, Copy, Block, Rearm, CloseBegin, CloseEnd, net, pairs
  <2>2. so[w] # None => (pc'[w] \in Hands /\ so'[w] = so[w]) \/ ~(pc[w] \in Hands)
    BY <1>1, WorkerTyped DEF Take, Lookup, Route, Copy, Block, Rearm, CloseBegin, CloseEnd,
       GoTo, Finish, WalkTo, Hands, Steps, TokenInv, Types, WorkerTypes
  <2>3. pc'[w] \in Hands => pc[w] \in Hands
    BY <1>1, WorkerTyped DEF Take, Lookup, Route, Copy, Block, Rearm, CloseBegin, CloseEnd,
       GoTo, Finish, WalkTo, Hands, Steps, TokenInv, Types, WorkerTypes
  <2>4. pc[w] \in Hands => so'[w] = so[w]
    BY <1>1 DEF Take, Lookup, Route, Copy, Block, Rearm, CloseBegin, CloseEnd, Hands
  <2>5. \A s \in Socket : Carried(s)' <=> Carried(s)
    BY <2>2, <2>3, <2>4, CarriedNow, WorkerTyped
  <2> QED
    BY <2>1, <2>5, CountsStay
<1>2. CASE Recv(w) /\ ~(Open(x) /\ Pending(x))
  <2>1. UNCHANGED <<sent, read, held, got, failed, so>> /\ pc[w] \notin Hands /\ pc'[w] \notin Hands
    BY <1>2 DEF Recv, pairs, GoTo, Hands, TokenInv, Types, WorkerTypes
  <2>2. \A s \in Socket : Carried(s)' <=> Carried(s)
    BY <2>1, CarriedNow, WorkerTyped
  <2> QED
    BY <2>1, <2>2, CountsStay
<1>3. CASE Recv(w) /\ Open(x) /\ Pending(x)
  <2>1. UNCHANGED <<sent, held, got, failed, so>> /\ pc[w] \notin Hands /\ pc'[w] \in Hands
        /\ read' = [read EXCEPT ![x] = @ + 1]
    BY <1>3 DEF Recv, pairs, GoTo, Hands, TokenInv, Types, WorkerTypes
  <2>2. x \in Socket /\ read \in [Socket -> Nat] /\ sent \in [Socket -> Nat]
    BY <1>3, WorkerTyped DEF Recv, TokenInv, Types, NetTypes
  <2>3. \A s \in Socket : s # x => Unsent(s)' = Unsent(s)
    BY <2>1, CarriedNow DEF Unsent
  <2>4. Unsent(x) = 0 /\ Unsent(x)' = 1
    <3>1. ~Carried(x) /\ Carried(x)'
      BY <2>1, <2>2, CarriedNow
    <3> QED
      BY <3>1, <2>1 DEF Unsent, Carried, Carries
  <2>5. read[x] + 1 <= sent[x]
    BY <1>3, <2>2 DEF Pending
  <2> QED
    BY <2>1, <2>2, <2>3, <2>4, <2>5, OtherSocket, Numbers DEF Counts
<1>4. CASE (Send(w) \/ SendDone(w)) /\ held' # held
  <2>1. /\ UNCHANGED <<sent, read, got, failed, so>> /\ pc[w] \in Hands /\ pc'[w] \notin Hands
        /\ held' = [held EXCEPT ![Other(x)] = @ + 1] /\ held[Other(x)] < Cap
    BY <1>4, WorkerTyped DEF Send, SendDone, pairs, GoTo, Hands, Write, Fail, Room, TokenInv, Types, WorkerTypes
  <2>2. x \in Socket /\ held \in [Socket -> Nat] /\ Cap \in Nat
    BY <2>1, WorkerTyped, FlowAssumption DEF Hands, TokenInv, Types, NetTypes
  <2>3. \A s \in Socket : s # x => Unsent(s)' = Unsent(s)
    BY <2>1, CarriedNow DEF Unsent
  <2>4. Unsent(x) = 1 /\ Unsent(x)' = 0
    <3>1. Carried(x) /\ ~Carried(x)'
      BY <2>1, <2>2, CarriedNow
    <3> QED
      BY <3>1, <2>1 DEF Unsent, Carried, Carries
  <2>5. Other(x) \in Socket /\ \A s \in Socket : Other(s) \in Socket /\ (Other(s) = Other(x) => s = x)
    BY <2>2, OtherSocket
  <2> QED
    BY <2>1, <2>2, <2>3, <2>4, <2>5, Numbers DEF Counts
<1>5. CASE Send(w) /\ held' = held
  <2>1. CASE pc'[w] = "sending"
    <3>1. UNCHANGED <<sent, read, held, got, failed, so>> /\ pc[w] \in Hands /\ pc'[w] \in Hands
      BY <1>5, <2>1, FlowAssumption DEF Send, pairs, GoTo, Hands, Write, Fail, TokenInv, Types, WorkerTypes
    <3>2. \A s \in Socket : Carried(s)' <=> Carried(s)
      BY <3>1, CarriedNow
    <3> QED
      BY <3>1, <3>2, CountsStay
  <2>2. CASE pc'[w] # "sending"
    <3>1. /\ UNCHANGED <<sent, read, held, got, so>> /\ pc[w] \in Hands /\ pc'[w] = "close"
          /\ failed' = failed \cup {x[1]} /\ x \in Socket
      <4>1. x \in Socket /\ Other(x) \in Socket /\ pc \in [Workers -> Steps] /\ held \in [Socket -> Nat]
        BY <1>5, WorkerTyped, OtherSocket DEF Send, TokenInv, Types, WorkerTypes, NetTypes
      <4>2. ~Write(Other(x))
        BY <1>5, <4>1 DEF Write
      <4> QED
        BY <1>5, <2>2, <4>1, <4>2 DEF Send, GoTo, Hands, Fail
    <3>2. \A s \in Socket : s # x => Unsent(s)' = Unsent(s)
      BY <3>1, CarriedNow DEF Unsent
    <3>3. Unsent(x) = 1 /\ Unsent(x)' = 0
      <4>1. Carried(x) /\ ~Carried(x)'
        BY <3>1, CarriedNow DEF Hands
      <4> QED
        BY <4>1 DEF Unsent
    <3> QED
      BY <3>1, <3>2, <3>3, OtherSocket, Numbers DEF Counts
  <2> QED
    BY <2>1, <2>2
<1>6. SendDone(w) => held' # held
  <2>1. SendDone(w) => so[w] \in Socket /\ Other(so[w]) \in Socket
    BY WorkerTyped, OtherSocket DEF SendDone
  <2> QED
    BY <2>1 DEF SendDone, Write, TokenInv, Types, NetTypes
<1> QED
  BY <1>1, <1>2, <1>3, <1>4, <1>5, <1>6 DEF WorkerStep

LEMMA CountsStep ==
  ASSUME TokenInv, Counts, [Next]_vars
  PROVE  Counts'
<1>1. CASE MainStep \/ UNCHANGED vars \/ \E c \in Spies : Spy(c)
  <2>1. UNCHANGED <<sent, read, held, got, failed, pc, so>>
    BY <1>1 DEF MainStep, Enqueue, Hear, Poll, PollSpy, SpyBroken, vars, net, pairs, workers, Spy
  <2>2. \A s \in Socket : Carried(s)' <=> Carried(s)
    BY <2>1 DEF Carried, Carries
  <2> QED
    BY <2>1, <2>2, CountsStay
<1> QED
  BY <1>1, CountsPeer, CountsWorker DEF Next

\* What only grows; and only a recv that finds something changes what is read.
LEMMA Onwards ==
  ASSUME TokenInv, [Next]_vars, NEW y \in Socket
  PROVE  /\ fin \subseteq fin' /\ failed \subseteq failed' /\ closed \subseteq closed'
         /\ sent'[y] \in Nat /\ sent'[y] >= sent[y]
         /\ y \in fin => sent'[y] = sent[y]
         /\ read'[y] # read[y] =>
              \E w \in Workers : Recv(w) /\ so[w] = y /\ Pending(y) /\ Open(y) /\ pc'[w] = "route"
<1> USE DEF net, pairs, main, workers, spies
<1>1. sent \in [Socket -> Nat] /\ read \in [Socket -> Nat] /\ pc \in [Workers -> Steps]
  BY DEF TokenInv, Types, NetTypes, WorkerTypes
<1>2. CASE MainStep \/ UNCHANGED vars \/ \E c \in Spies : Spy(c)
  <2>1. UNCHANGED <<sent, read, fin, failed, closed>>
    BY <1>2 DEF MainStep, Enqueue, Hear, Poll, PollSpy, SpyBroken, vars, Spy
  <2> QED
    BY <2>1, <1>1
<1>3. ASSUME NEW x \in Socket, Peer(x)
      PROVE  /\ fin \subseteq fin' /\ UNCHANGED <<read, failed, closed>>
             /\ sent'[y] \in Nat /\ sent'[y] >= sent[y]
             /\ y \in fin => sent'[y] = sent[y]
  BY <1>1, <1>3 DEF Peer, PeerSend, PeerFin, PeerRead
<1>4. ASSUME NEW w \in Workers, WorkerStep(w)
      PROVE  /\ UNCHANGED <<sent, fin>> /\ failed \subseteq failed' /\ closed \subseteq closed'
             /\ read'[y] # read[y] =>
                  Recv(w) /\ so[w] = y /\ Pending(y) /\ Open(y) /\ pc'[w] = "route"
  <2>1. UNCHANGED <<sent, fin>> /\ failed \subseteq failed' /\ closed \subseteq closed'
    BY <1>4 DEF WorkerStep, Take, Lookup, Recv, Route, Copy, Block, Send, SendDone, Rearm, CloseBegin,
       CloseEnd, Fail
  <2>2. ~Recv(w) => UNCHANGED read
    BY <1>4 DEF WorkerStep, Take, Lookup, Route, Copy, Block, Send, SendDone, Rearm, CloseBegin,
       CloseEnd
  <2>3. Recv(w) => read'[y] = read[y] \/ (so[w] = y /\ Pending(y) /\ Open(y) /\ pc'[w] = "route")
    BY <1>1 DEF Recv, GoTo
  <2> QED
    BY <2>1, <2>2, <2>3
<1> QED
  BY <1>1, <1>2, <1>3, <1>4 DEF Next

LEMMA NewsKept ==
  ASSUME TokenInv, [Next]_vars, NEW y \in Socket, HasNews(y),
         \A w \in Workers : pc[w] = "recv" /\ so[w] = y => pc'[w] = "recv"
  PROVE  HasNews(y)'
<1>1. read'[y] = read[y]
  BY Onwards DEF Recv
<1>2. sent[y] \in Nat /\ read[y] \in Nat
  BY Numbers
<1> QED
  BY <1>1, <1>2, Onwards DEF HasNews, Pending

LEMMA AllReadKept ==
  ASSUME TokenInv, [Next]_vars, NEW y \in Socket, AllRead(y)
  PROVE  AllRead(y)'
<1>1. ~Pending(y)
  BY Numbers DEF AllRead, Pending
<1>2. read'[y] = read[y] /\ sent'[y] = sent[y] /\ y \in fin'
  BY <1>1, Onwards DEF AllRead
<1> QED
  BY <1>2 DEF AllRead

LEMMA ReportedStep ==
  ASSUME TokenInv, Reported, [Next]_vars
  PROVE  Reported'
<1> USE DEF net, pairs, main, workers, spies
<1>k. ASSUME NEW y \in Socket, HasNews(y),
             \A w \in Workers : pc[w] = "recv" /\ so[w] = y => pc'[w] = "recv"
      PROVE  HasNews(y)'
  BY <1>k, NewsKept
<1>1. ASSUME mpc' = "lookup" PROVE HasNews(cur)'
  <2>1. CASE \E s \in Socket : Poll(s)
    BY <2>1 DEF Poll, HasNews, Pending
  <2>2. CASE ~\E s \in Socket : Poll(s)
    <3>1. UNCHANGED <<mpc, cur>>
      BY <1>1, <2>2 DEF Next, vars, MainStep, Enqueue, EventDone, Hear, PollSpy, SpyBroken, Peer, Spy,
         WorkerStep, Take, Lookup, Recv, Route, Copy, Block, Send, SendDone, Rearm, CloseBegin,
         CloseEnd
    <3>2. PICK y \in Socket : y = cur
      BY <1>1, <3>1 DEF TokenInv, Types, LoopTypes
    <3>3. HasNews(y)
      BY <1>1, <3>1, <3>2 DEF Reported
    <3>4. \A w \in Workers : so[w] # y
      BY <3>2, WorkerTyped DEF TokenInv, Tokens
    <3>5. HasNews(y)'
      BY <3>3, <3>4, <1>k
    <3> QED
      BY <3>1, <3>2, <3>5 DEF HasNews, Pending
  <2> QED
    BY <2>1, <2>2
<1>2. ASSUME NEW i \in 1 .. Len(pool') PROVE HasNews(pool[i])'
  <2>0. pool \in Seq(Socket)
    BY DEF TokenInv, Types, LoopTypes
  <2>1. \/ mpc = "lookup" /\ pool' = Append(pool, cur)
        \/ pool # <<>> /\ pool' = Tail(pool)
        \/ pool' = pool
    BY DEF Next, vars, MainStep, Enqueue, EventDone, Hear, Poll, PollSpy, SpyBroken, Peer, Spy,
         WorkerStep, Take, Lookup, Recv, Route, Copy, Block, Send, SendDone, Rearm, CloseBegin,
         CloseEnd
  <2>2. \/ mpc = "lookup" /\ pool'[i] = cur
        \/ \E j \in 1 .. Len(pool) : pool'[i] = pool[j]
    <3>1. CASE mpc = "lookup" /\ pool' = Append(pool, cur)
      BY <2>0, <3>1
    <3>2. CASE pool # <<>> /\ pool' = Tail(pool)
      <4>1. i + 1 \in 1 .. Len(pool) /\ pool'[i] = pool[i + 1]
        BY <2>0, <3>2
      <4> QED
        BY <4>1
    <3> QED
      BY <2>1, <3>1, <3>2
  <2>3. PICK y \in Socket : /\ y = pool'[i] /\ HasNews(y)
                            /\ \A w \in Workers : so[w] # y
    BY <2>0, <2>2, WorkerTyped DEF TokenInv, Types, LoopTypes, Tokens, Reported
  <2>4. HasNews(y)'
    BY <2>3, <1>k
  <2> QED
    BY <2>3, <2>4 DEF HasNews, Pending
<1>3. ASSUME NEW v \in Workers, pc'[v] \in {"lookup", "recv"} PROVE HasNews(so[v])'
  <2>0. pc \in [Workers -> Steps] /\ so \in [Workers -> Socket \cup {None}]
    BY DEF TokenInv, Types, WorkerTypes
  <2>1. CASE Take(v)
    <3>1. so'[v] = pool[1] /\ 1 \in 1 .. Len(pool) /\ pool[1] \in Socket
      BY <2>0, <2>1 DEF Take, TokenInv, Types, LoopTypes
    <3>2. PICK y \in Socket : y = pool[1]
      BY <3>1
    <3>3. HasNews(y) /\ \A w \in Workers : so[w] # y
      BY <3>1, <3>2 DEF Reported, TokenInv, Tokens
    <3>4. HasNews(y)'
      BY <3>3, <1>k
    <3> QED
      BY <3>1, <3>2, <3>4 DEF HasNews, Pending
  <2>2. CASE ~Take(v)
    <3>1. so'[v] = so[v] /\ pc[v] \in {"lookup", "recv"} /\ (pc[v] = "recv" => pc'[v] = "recv")
      <4>1. CASE WorkerStep(v)
        BY <1>3, <2>0, <2>2, <4>1 DEF WorkerStep, Lookup, Recv, Route, Copy, Block, Send, SendDone,
           Rearm, CloseBegin, CloseEnd, GoTo, WalkTo, Finish, Fail
      <4>2. CASE ~WorkerStep(v)
        <5>1. ASSUME NEW w \in Workers, WorkerStep(w) PROVE pc'[v] = pc[v] /\ so'[v] = so[v]
          BY <4>2, <5>1, OwnOnly
        <5>2. CASE ~\E w \in Workers : WorkerStep(w)
          <6>1. UNCHANGED workers
            BY <5>2, WorkersRest
          <6> QED
            BY <1>3, <6>1
        <5> QED
          BY <1>3, <5>1, <5>2
      <4> QED
        BY <4>1, <4>2
    <3>2. PICK y \in Socket : y = so[v]
      BY <3>1, WorkerTyped
    <3>3. HasNews(y) /\ \A w \in Workers : so[w] = y => w = v
      BY <3>1, <3>2, WorkerTyped DEF Reported, TokenInv, Tokens
    <3>4. HasNews(y)'
      BY <3>1, <3>3, <1>k
    <3> QED
      BY <3>1, <3>2, <3>4 DEF HasNews, Pending
  <2> QED
    BY <2>1, <2>2
<1> QED
  BY <1>1, <1>2, <1>3 DEF Reported

LEMMA ClosesStep ==
  ASSUME TokenInv, Counts, Reported, Closes, [Next]_vars
  PROVE  Closes'
<1> USE DEF net, pairs, main, workers, spies
<1> SUFFICES ASSUME NEW v \in Workers, pc'[v] \in {"close", "closing"}
             PROVE  so'[v][1] \in failed' \/ so'[v][1] \in closed' \/ AllRead(so[v])'
  BY DEF Closes, Open
<1>0. pc \in [Workers -> Steps] /\ so \in [Workers -> Socket \cup {None}]
  BY DEF TokenInv, Types, WorkerTypes
<1>1. CASE pc'[v] = pc[v] /\ so'[v] = so[v]
  <2>1. PICK y \in Socket : y = so[v]
    BY <1>1, WorkerTyped
  <2>2. y[1] \in failed \/ y[1] \in closed \/ AllRead(y)
    BY <1>1, <2>1 DEF Closes, Open
  <2>3. y[1] \in failed' \/ y[1] \in closed' \/ AllRead(y)'
    BY <2>2, Onwards, AllReadKept
  <2> QED
    BY <1>1, <2>1, <2>3 DEF AllRead
<1>2. CASE ~(pc'[v] = pc[v] /\ so'[v] = so[v])
  <2>1. WorkerStep(v)
    <3>1. CASE ~\E w \in Workers : WorkerStep(w)
      BY <1>2, <3>1, WorkersRest
    <3> QED
      BY <1>2, <3>1, OwnOnly
  <2>2. CASE Lookup(v)
    BY <1>0, <2>2 DEF Lookup, GoTo, Open
  <2>3. CASE Recv(v)
    <3>1. PICK y \in Socket : y = so[v]
      BY <2>3, WorkerTyped DEF Recv
    <3>2. so' = so /\ closed' = closed /\ read' = read /\ sent' = sent /\ fin' = fin
          /\ ~(Open(y) /\ Pending(y))
      BY <1>0, <2>3, <3>1 DEF Recv, GoTo
    <3>3. HasNews(y) /\ read[y] <= sent[y]
      BY <2>3, <3>1 DEF Recv, Reported, Counts
    <3>4. Open(y) => AllRead(y)
      BY <3>2, <3>3, Numbers DEF HasNews, Pending, AllRead
    <3> QED
      BY <3>1, <3>2, <3>4 DEF Open, AllRead
  <2>4. CASE Send(v)
    BY <1>0, <2>4 DEF Send, GoTo, Fail
  <2>5. CASE CloseBegin(v)
    <3>1. PICK y \in Socket : y = so[v]
      BY <2>5, WorkerTyped DEF CloseBegin
    <3>2. y[1] \in failed \/ y[1] \in closed \/ AllRead(y)
      BY <2>5, <3>1 DEF Closes, Open, CloseBegin
    <3> QED
      BY <2>5, <3>1, <3>2 DEF CloseBegin, AllRead
  <2>6. CASE Take(v) \/ Route(v) \/ Copy(v) \/ Block(v) \/ SendDone(v) \/ Rearm(v) \/ CloseEnd(v)
    BY <1>0, <2>6 DEF Take, Route, Copy, Block, SendDone, Rearm, CloseEnd, GoTo, WalkTo, Finish
  <2> QED
    BY <2>1, <2>2, <2>3, <2>4, <2>5, <2>6 DEF WorkerStep
<1> QED
  BY <1>1, <1>2

\* Nobody takes up again a socket of which all was read.
LEMMA NotCarriedKept ==
  ASSUME TokenInv, [Next]_vars, NEW x \in Socket, AllRead(x), ~Carried(x)
  PROVE  ~Carried(x)'
<1> USE DEF net, pairs, main, workers, spies
<1>1. ~Pending(x)
  BY Numbers DEF AllRead, Pending
<1>2. CASE ~\E w \in Workers : WorkerStep(w)
  <2>1. UNCHANGED <<pc, so>>
    BY <1>2, WorkersRest
  <2> QED
    BY <2>1 DEF Carried, Carries
<1>3. ASSUME NEW w \in Workers, WorkerStep(w) PROVE ~Carried(x)'
  <2>1. pc \in [Workers -> Steps] /\ so \in [Workers -> Socket \cup {None}]
    BY DEF TokenInv, Types, WorkerTypes
  <2>2. so'[w] = x /\ pc'[w] \in Hands => so[w] = x
    BY <1>3, <2>1 DEF WorkerStep, Take, Lookup, Recv, Route, Copy, Block, Send, SendDone, Rearm,
       CloseBegin, CloseEnd, GoTo, WalkTo, Finish, Fail, Hands
  <2>3. so[w] = x /\ pc'[w] \in Hands => pc[w] \in Hands
    BY <1>1, <1>3, <2>1 DEF WorkerStep, Take, Lookup, Recv, Route, Copy, Block, Send, SendDone, Rearm,
       CloseBegin, CloseEnd, GoTo, WalkTo, Finish, Fail, Hands
  <2> QED
    BY <1>3, <2>2, <2>3, CarriedNow
<1> QED
  BY <1>2, <1>3

LEMMA EndedStep ==
  ASSUME TokenInv, Closes, Ended, [Next]_vars
  PROVE  Ended'
<1> USE DEF net, pairs, main, workers, spies
<1> SUFFICES ASSUME NEW s \in Socket, s[1] \in closed', s[1] \notin failed'
             PROVE  \E x \in {s, Other(s)} : AllRead(x)' /\ ~Carried(x)'
  BY DEF Ended, Open
<1>0. s[1] \notin failed
  BY Onwards
<1>1. CASE s[1] \in closed
  <2>1. PICK x \in {s, Other(s)} : AllRead(x) /\ ~Carried(x)
    BY <1>0, <1>1 DEF Ended, Open
  <2>2. x \in Socket
    BY OtherSocket
  <2>3. AllRead(x)' /\ ~Carried(x)'
    BY <2>1, <2>2, AllReadKept, NotCarriedKept
  <2> QED
    BY <2>3
<1>2. CASE s[1] \notin closed
  <2>1. PICK w \in Workers : CloseEnd(w)
    BY <1>2 DEF Next, vars, MainStep, Enqueue, Hear, Poll, PollSpy, SpyBroken, Peer, Spy,
       WorkerStep, Take, Lookup, Recv, Route, Copy, Block, Send, SendDone, Rearm, CloseBegin
  <2>2. PICK y \in Socket : y = so[w]
    BY <2>1, WorkerTyped DEF CloseEnd
  <2>3. y[1] = s[1]
    BY <1>2, <2>1, <2>2 DEF CloseEnd
  <2>4. AllRead(y)
    BY <1>0, <1>2, <2>1, <2>2, <2>3 DEF CloseEnd, Closes, Open
  <2>5. so'[w] = None /\ y # None
    BY <2>1, <2>2, WorkerTyped DEF CloseEnd, Finish, TokenInv, Types, WorkerTypes
  <2>6. ~Carried(y)'
    BY <2>1, <2>2, <2>5, CarriedNow DEF WorkerStep
  <2>7. y \in {s, Other(s)}
    BY <2>3, OtherSocket
  <2> QED
    BY <2>4, <2>6, <2>7, AllReadKept
<1> QED
  BY <1>1, <1>2

LEMMA EndStep ==
  ASSUME TokenInv, EndInv, [Next]_vars
  PROVE  EndInv'
BY CountsStep, ReportedStep, ClosesStep, EndedStep DEF EndInv

LEMMA EndAlways == Spec => []EndInv
BY TokensAlways, CountsFirst, EndStep, PTL DEF Spec

-----------------------------------------------------------------------------
(***************************************************************************)
(* Copies is inductive, given TokenInv.                                    *)
(***************************************************************************)
LEMMA CopiesFirst ==
  ASSUME Init PROVE Copies
<1>1. \A c \in Spies : seen[c] = <<>> /\ 1 .. Len(seen[c]) = {}
  BY DEF Init
<1>2. \A w \in Workers : pc[w] = "idle"
  BY DEF Init
<1>3. Met
  BY <1>1, <1>2, FlowAssumption DEF Init, Met
<1>4. Given
  BY <1>1, <1>2 DEF Given
<1>5. Order /\ Whole
  BY <1>1 DEF Init, Order, Whole
<1> QED
  BY <1>3, <1>4, <1>5 DEF Copies

LEMMA SeenTyped ==
  ASSUME TokenInv, NEW c \in Spies
  PROVE  /\ Len(seen[c]) \in Nat /\ DOMAIN seen[c] = 1 .. Len(seen[c])
         /\ \A i \in 1 .. Len(seen[c]) :
              /\ seen[c][i][1] \in Socket /\ seen[c][i][2] \in Nat
              /\ seen[c][i] = <<seen[c][i][1], seen[c][i][2]>>
<1> DEFINE E == Socket \X Nat
<1>1. seen[c] \in Seq(E)
  BY DEF TokenInv, Types, SpyTypes
<1>2. Len(seen[c]) \in Nat /\ DOMAIN seen[c] = 1 .. Len(seen[c])
      /\ \A i \in 1 .. Len(seen[c]) : seen[c][i] \in E
  <2> HIDE DEF E
  <2> QED
    BY <1>1
<1> QED
  BY <1>2

\* A chunk that has raced with a change stays one.
LEMMA RacedGrows ==
  ASSUME [Next]_vars
  PROVE  raced \subseteq raced'
<1> USE DEF net, pairs, main, workers, spies
<1>1. ASSUME NEW w \in Workers, WorkerStep(w) PROVE raced \subseteq raced'
  BY <1>1 DEF WorkerStep, Take, Lookup, Recv, Route, Copy, Block, Send, SendDone, Rearm, CloseBegin,
     CloseEnd
<1>2. ASSUME MainStep PROVE raced \subseteq raced'
  BY <1>2 DEF MainStep, Enqueue, Hear, Poll, PollSpy, SpyBroken, Change
<1> QED
  BY <1>1, <1>2 DEF Next, vars, Spy, Peer

\* While nobody copies, a change of the map makes the walks it meets torn.
LEMMA MapChange ==
  ASSUME TokenInv, [Next]_vars, ~\E w \in Workers : WorkerStep(w)
  PROVE  /\ UNCHANGED <<pc, so, it, seen, read>>
         /\ \A w \in Workers : pc[w] = "copy" /\ Chunk(w) \notin raced' => request_so' = request_so
<1> USE DEF net, pairs, main, workers, spies
<1>1. UNCHANGED <<pc, so, it>>
  BY WorkersRest
<1>2. UNCHANGED <<seen, read>>
  BY DEF Next, vars, MainStep, Enqueue, Hear, Poll, PollSpy, SpyBroken, Spy, Peer, PeerSend, PeerFin,
     PeerRead
<1>3. request_so' = request_so
      \/ \A w \in Workers : pc[w] = "copy" => Chunk(w) \in raced'
  BY DEF Next, vars, MainStep, Enqueue, Hear, Poll, PollSpy, SpyBroken, Change, Spy, Peer
<1> QED
  BY <1>1, <1>2, <1>3

\* What a client is given, and where the walk goes.
LEMMA CopyEffect ==
  ASSUME TokenInv, NEW w \in Workers, Copy(w)
  PROVE  /\ pc[w] = "copy" /\ it[w] \in Spies /\ so[w] \in Socket /\ read[so[w]] \in Nat
         /\ UNCHANGED <<read, so, raced, request_so, left, edge, who>>
         /\ \A c \in Spies : c # it[w] => seen'[c] = seen[c]
         /\ Len(seen'[it[w]]) = Len(seen[it[w]]) + 1
         /\ seen'[it[w]][Len(seen[it[w]]) + 1] = Chunk(w)
         /\ \A i \in 1 .. Len(seen[it[w]]) : seen'[it[w]][i] = seen[it[w]][i]
         /\ \A i \in 1 .. Len(seen'[it[w]]) : i \in 1 .. Len(seen[it[w]]) \/ i = Len(seen[it[w]]) + 1
         /\ \A v \in Workers : v # w => pc'[v] = pc[v] /\ it'[v] = it[v]
         /\ it'[w] = First(After(it[w])) \/ Torn(w)
         /\ it'[w] = None \/ it'[w] \in request_so \cup left
         /\ pc'[w] = IF it'[w] = None THEN "block" ELSE "copy"
<1> USE DEF net, pairs, main, workers, spies
<1> DEFINE b == it[w]
<1>1. /\ pc[w] = "copy" /\ b \in Spies /\ so[w] \in Socket /\ read[so[w]] \in Nat
      /\ UNCHANGED <<read, so, raced, request_so, left, edge, who>>
      /\ pc \in [Workers -> Steps] /\ it \in [Workers -> Spies \cup {None}]
  BY WorkerTyped, Numbers, FlowAssumption DEF Copy, TokenInv, Types, WorkerTypes
<1>2. PICK d : /\ d = First(After(b)) \/ Torn(w)
               /\ d = None \/ d \in request_so \cup left
               /\ WalkTo(w, d)
  <2>1. First(After(b)) = None \/ First(After(b)) \in request_so
    <3>1. After(b) \subseteq Spies /\ After(b) \subseteq request_so
      BY DEF After, TokenInv, Types, SpyTypes
    <3> QED
      BY <3>1, FirstOf DEF First
  <2> QED
    BY <2>1 DEF Copy, Onward
<1>3. /\ it' = [it EXCEPT ![w] = d]
      /\ pc' = [pc EXCEPT ![w] = IF d = None THEN "block" ELSE "copy"]
  BY <1>2 DEF WalkTo, GoTo
<1>4. /\ it'[w] = d /\ pc'[w] = IF d = None THEN "block" ELSE "copy"
      /\ \A v \in Workers : v # w => pc'[v] = pc[v] /\ it'[v] = it[v]
  BY <1>1, <1>3
<1>5. /\ \A c \in Spies : c # b => seen'[c] = seen[c]
      /\ Len(seen'[b]) = Len(seen[b]) + 1 /\ seen'[b][Len(seen[b]) + 1] = Chunk(w)
      /\ \A i \in 1 .. Len(seen[b]) : seen'[b][i] = seen[b][i]
      /\ \A i \in 1 .. Len(seen'[b]) : i \in 1 .. Len(seen[b]) \/ i = Len(seen[b]) + 1
  <2> DEFINE E == Socket \X Nat
  <2>1. seen \in [Spies -> Seq(E)]
    BY DEF TokenInv, Types, SpyTypes
  <2>2. Chunk(w) \in E
    BY <1>1 DEF Chunk
  <2>3. seen[b] \in Seq(E) /\ seen'[b] = Append(seen[b], Chunk(w))
        /\ \A c \in Spies : c # b => seen'[c] = seen[c]
    BY <1>1, <2>1 DEF Copy
  <2> HIDE DEF E, b
  <2> QED
    BY <2>2, <2>3
<1> QED
  BY <1>1, <1>2, <1>4, <1>5

LEMMA MetStep ==
  ASSUME TokenInv, Met, [Next]_vars
  PROVE  Met'
<1> USE FlowAssumption DEF net, pairs, main, workers, spies
<1>t. /\ request_so \subseteq Spies /\ edge \subseteq Spies /\ left \subseteq Spies
      /\ IF mpc = "hear" THEN who \in Spies ELSE who = None
  BY DEF TokenInv, Types, SpyTypes, LoopTypes
<1>1. ASSUME NEW w \in Workers, WorkerStep(w) PROVE Met'
  <2>1. UNCHANGED <<request_so, edge, left, who>>
    BY <1>1 DEF WorkerStep, Take, Lookup, Recv, Route, Copy, Block, Send, SendDone, Rearm, CloseBegin,
       CloseEnd
  <2>2. ASSUME NEW c \in Spies, seen'[c] # <<>> PROVE c \in request_so \cup left
    <3>1. CASE Copy(w) /\ c = it[w]
      BY <3>1, CopyEffect DEF Met
    <3>2. CASE Copy(w) /\ c # it[w]
      BY <2>2, <3>2, CopyEffect DEF Met
    <3>3. CASE ~Copy(w)
      <4>1. UNCHANGED seen
        BY <1>1, <3>3 DEF WorkerStep, Take, Lookup, Recv, Route, Block, Send, SendDone, Rearm, CloseBegin,
           CloseEnd
      <4> QED
        BY <2>2, <4>1 DEF Met
    <3> QED
      BY <3>1, <3>2, <3>3
  <2>3. ASSUME NEW v \in Workers, pc'[v] = "copy"
        PROVE  so'[v][2] \in Copied /\ it'[v] \in request_so \cup left
    <3>0. pc \in [Workers -> Steps] /\ it \in [Workers -> Spies \cup {None}]
          /\ so \in [Workers -> Socket \cup {None}]
      BY DEF TokenInv, Types, WorkerTypes
    <3>1. CASE v # w
      BY <1>1, <2>3, <3>1, OwnOnly DEF Met
    <3>2. CASE v = w /\ Copy(w)
      BY <2>3, <3>2, CopyEffect DEF Met
    <3>3. CASE v = w /\ ~Copy(w)
      <4>1. Route(w)
        BY <1>1, <2>3, <3>0, <3>3 DEF WorkerStep, Take, Lookup, Recv, Block, Send, SendDone, Rearm,
           CloseBegin, CloseEnd, GoTo, Finish, Fail
      <4>2. so' = so /\ so[w][2] \in Copied /\ it'[w] = First(request_so) /\ First(request_so) # None
        BY <2>3, <3>0, <3>3, <4>1 DEF Route, Routes, WalkTo, GoTo
      <4> QED
        BY <1>t, <3>3, <4>2, FirstOf DEF First
    <3> QED
      BY <3>1, <3>2, <3>3
  <2> QED
    BY <2>1, <2>2, <2>3 DEF Met
<1>2. CASE ~\E w \in Workers : WorkerStep(w)
  <2>1. UNCHANGED <<pc, so, it, seen, read>>
    BY <1>2, MapChange
  <2>2. request_so \cup left \subseteq request_so' \cup left'
    BY <1>2, <1>t DEF Next, vars, MainStep, Enqueue, Hear, Poll, PollSpy, SpyBroken, Change, Spy, SpyArrive,
       SpyLeave, Peer
  <2>3. /\ \A c \in Spies : c \in edge' \/ who' = c => (c \in request_so' <=> c \in left')
        /\ who' \notin edge'
    <3>1. CASE Enqueue
      BY <1>t, <3>1 DEF Enqueue, EventDone, Met
    <3>2. CASE Hear
      BY <1>t, <3>2 DEF Hear, Change, EventDone, Met
    <3>3. ASSUME NEW s \in Socket, Poll(s)
          PROVE  /\ \A c \in Spies : c \in edge' \/ who' = c => (c \in request_so' <=> c \in left')
                 /\ who' \notin edge'
      BY <3>3 DEF Poll, Met
    <3>4. ASSUME NEW a \in Spies, PollSpy(a)
          PROVE  /\ \A c \in Spies : c \in edge' \/ who' = c => (c \in request_so' <=> c \in left')
                 /\ who' \notin edge'
      BY <1>t, <3>4 DEF PollSpy, Met
    <3>5. ASSUME NEW a \in Spies, SpyBroken(a)
          PROVE  /\ \A c \in Spies : c \in edge' \/ who' = c => (c \in request_so' <=> c \in left')
                 /\ who' \notin edge'
      BY <1>t, <3>5 DEF SpyBroken, Change, Met
    <3>6. ASSUME NEW a \in Spies, Spy(a)
          PROVE  /\ \A c \in Spies : c \in edge' \/ who' = c => (c \in request_so' <=> c \in left')
                 /\ who' \notin edge'
      BY <1>t, <3>6 DEF Spy, SpyArrive, SpyLeave, Met
    <3>7. ASSUME NEW s \in Socket, Peer(s)
          PROVE  /\ \A c \in Spies : c \in edge' \/ who' = c => (c \in request_so' <=> c \in left')
                 /\ who' \notin edge'
      BY <3>7 DEF Peer, Met
    <3>8. CASE UNCHANGED vars
      BY <3>8 DEF vars, Met
    <3> QED
      BY <1>2, <3>1, <3>2, <3>3, <3>4, <3>5, <3>6, <3>7, <3>8 DEF Next, MainStep
  <2> QED
    BY <2>1, <2>2, <2>3 DEF Met
<1> QED
  BY <1>1, <1>2

\* What the worker of a step, or another thread, keeps of the walks of others.
LEMMA GivenOthers ==
  ASSUME TokenInv, Given, NEW w \in Workers, WorkerStep(w), ~Copy(w),
         NEW v \in Workers, v # w
  PROVE  /\ pc'[v] = "route" => \A c \in Spies : Before(c, v)'
         /\ pc'[v] = "copy" /\ ~Torn(v)' => \A c \in Spies :
              /\ c >= it'[v] => Before(c, v)'
              /\ c \in request_so' /\ c < it'[v] => Has(c, Chunk(v))'
<1> USE DEF net, pairs, main, workers, spies
<1>1. pc'[v] = pc[v] /\ so'[v] = so[v] /\ it'[v] = it[v]
  BY OwnOnly
<1>2. UNCHANGED <<seen, request_so>>
  BY DEF WorkerStep, Take, Lookup, Recv, Route, Block, Send, SendDone, Rearm, CloseBegin, CloseEnd
<1>3. CASE pc[v] \in {"route", "copy"}
  <2>1. so[v] \in Socket
    BY <1>3, WorkerTyped
  <2>2. read'[so[v]] = read[so[v]]
    <3>1. CASE Recv(w)
      <4>1. so[w] # so[v] /\ read \in [Socket -> Nat]
        BY <2>1, <3>1, WorkerTyped DEF Recv, TokenInv, Tokens, Types, NetTypes
      <4> QED
        BY <2>1, <3>1, <4>1 DEF Recv
    <3>2. CASE ~Recv(w)
      BY <3>2 DEF WorkerStep, Take, Lookup, Route, Copy, Block, Send, SendDone, Rearm, CloseBegin, CloseEnd
    <3> QED
      BY <3>1, <3>2
  <2>3. Chunk(v)' = Chunk(v)
    BY <1>1, <2>2 DEF Chunk
  <2>4. Torn(v) => Torn(v)'
    <3>1. raced \subseteq raced'
      BY RacedGrows DEF Next
    <3> QED
      BY <1>1, <2>3, <3>1 DEF Torn
  <2>5. \A c \in Spies : Before(c, v)' <=> Before(c, v)
    BY <1>1, <1>2, <2>2 DEF Before
  <2>6. \A c \in Spies : Has(c, Chunk(v))' <=> Has(c, Chunk(v))
    BY <1>2, <2>3 DEF Has
  <2> QED
    BY <1>1, <1>2, <2>4, <2>5, <2>6 DEF Given
<1>4. CASE pc[v] \notin {"route", "copy"}
  BY <1>1, <1>4
<1> QED
  BY <1>3, <1>4

LEMMA GivenWorker ==
  ASSUME TokenInv, Given, NEW w \in Workers, WorkerStep(w), ~Copy(w)
  PROVE  Given'
<1> USE DEF net, pairs, main, workers, spies
<1>0. /\ pc \in [Workers -> Steps] /\ so \in [Workers -> Socket \cup {None}]
      /\ it \in [Workers -> Spies \cup {None}] /\ read \in [Socket -> Nat]
      /\ request_so \subseteq Spies
  BY DEF TokenInv, Types, NetTypes, WorkerTypes, SpyTypes
<1>1. UNCHANGED <<seen, request_so>>
  BY DEF WorkerStep, Take, Lookup, Recv, Route, Block, Send, SendDone, Rearm, CloseBegin, CloseEnd
<1>2. \A y \in Socket : read'[y] \in Nat /\ read'[y] >= read[y]
  <2>1. read' = read \/ read' = [read EXCEPT ![so[w]] = @ + 1]
    BY DEF WorkerStep, Take, Lookup, Recv, Route, Block, Send, SendDone, Rearm, CloseBegin, CloseEnd
  <2> QED
    BY <1>0, <2>1
<1>3. ASSUME NEW c \in Spies, NEW i \in 1 .. Len(seen'[c])
      PROVE  seen'[c][i][1][2] \in Copied /\ seen'[c][i][2] <= read'[seen'[c][i][1]]
  <2>1. seen[c][i][1] \in Socket /\ seen[c][i][2] \in Nat
    BY <1>1, <1>3, SeenTyped
  <2>2. read[seen[c][i][1]] \in Nat
    BY <1>0, <2>1
  <2> QED
    BY <1>1, <1>2, <1>3, <2>1, <2>2 DEF Given
<1>4. ASSUME pc'[w] = "route", NEW c \in Spies PROVE Before(c, w)'
  <2>1. Recv(w)
    BY <1>0, <1>4 DEF WorkerStep, Take, Lookup, Route, Block, Send, SendDone, Rearm,
       CloseBegin, CloseEnd, GoTo, WalkTo, Finish, Fail
  <2>2. so[w] \in Socket /\ so' = so /\ read' = [read EXCEPT ![so[w]] = @ + 1]
    BY <1>0, <1>4, <2>1, WorkerTyped DEF Recv, GoTo
  <2>3. read[so[w]] \in Nat /\ read'[so[w]] = read[so[w]] + 1
    BY <1>0, <2>2
  <2>4. \A i \in 1 .. Len(seen[c]) : seen[c][i][1] = so[w] =>
          seen[c][i][2] <= read[so[w]] /\ seen[c][i][2] \in Nat
    BY SeenTyped DEF Given
  <2> QED
    BY <1>1, <2>2, <2>3, <2>4 DEF Before
<1>5. ASSUME pc'[w] = "copy", NEW c \in Spies
      PROVE  /\ Before(c, w)'
             /\ c \in request_so' /\ c < it'[w] => Has(c, Chunk(w))'
  <2>1. Route(w)
    BY <1>0, <1>5 DEF WorkerStep, Take, Lookup, Recv, Block, Send, SendDone, Rearm,
       CloseBegin, CloseEnd, GoTo, Finish, Fail
  <2>2. UNCHANGED <<so, read>> /\ pc[w] = "route" /\ it'[w] = First(request_so)
        /\ First(request_so) # None
    BY <1>0, <1>5, <2>1 DEF Route, WalkTo, GoTo
  <2>3. \A e \in request_so : ~(e < it'[w])
    <3>1. request_so # {}
      BY <2>2 DEF First
    <3>2. First(request_so) \in request_so /\ \A e \in request_so : First(request_so) <= e
      BY <1>0, <3>1, FirstOf
    <3>3. \A e \in request_so : e \in Nat
      BY <1>0, FlowAssumption
    <3> QED
      BY <2>2, <3>2, <3>3
  <2>4. Before(c, w)
    BY <2>2 DEF Given
  <2> QED
    BY <1>1, <2>2, <2>3, <2>4 DEF Before
<1>6. ASSUME NEW v \in Workers, pc'[v] = "route", NEW c \in Spies PROVE Before(c, v)'
  BY <1>4, <1>6, GivenOthers
<1>7. ASSUME NEW v \in Workers, pc'[v] = "copy", ~Torn(v)', NEW c \in Spies
      PROVE  /\ c >= it'[v] => Before(c, v)'
             /\ c \in request_so' /\ c < it'[v] => Has(c, Chunk(v))'
  BY <1>5, <1>7, GivenOthers
<1> QED
  BY <1>3, <1>6, <1>7 DEF Given

\* A client that a walk is at, or is to come to, has nothing of the chunk; once
\* the walk is on its way, the client has it.
LEMMA GivenCopy ==
  ASSUME TokenInv, Met, Given, NEW w \in Workers, Copy(w)
  PROVE  Given'
<1> DEFINE b == it[w]
           y == so[w]
           k == read[y]
           n == Len(seen[b])
<1>1. /\ pc[w] = "copy" /\ b \in Spies /\ y \in Socket /\ k \in Nat
      /\ UNCHANGED <<read, so, raced, request_so>>
      /\ request_so \subseteq Spies /\ Spies \subseteq Nat /\ n \in Nat /\ y[2] \in Copied
  BY CopyEffect, SeenTyped, FlowAssumption DEF Met, TokenInv, Types, SpyTypes
<1>2. /\ \A c \in Spies : c # b => seen'[c] = seen[c]
      /\ Len(seen'[b]) = n + 1 /\ seen'[b][n + 1] = <<y, k>>
      /\ \A i \in 1 .. n : seen'[b][i] = seen[b][i]
      /\ \A i \in 1 .. Len(seen'[b]) : i \in 1 .. n \/ i = n + 1
  BY CopyEffect DEF Chunk
<1>3. \A v \in Workers : Chunk(v)' = Chunk(v) /\ (v # w => pc'[v] = pc[v] /\ it'[v] = it[v] /\ so[v] # y)
  <2>1. \A v \in Workers : v # w => so[v] # y
    BY <1>1, WorkerTyped DEF TokenInv, Tokens
  <2> QED
    BY <1>1, <2>1, CopyEffect DEF Chunk
<1>a. ASSUME NEW c \in Spies, NEW i \in 1 .. Len(seen'[c])
      PROVE  seen'[c][i][1][2] \in Copied /\ seen'[c][i][2] <= read[seen'[c][i][1]]
  <2>1. CASE c # b
    BY <1>2, <1>a, <2>1 DEF Given
  <2>2. CASE c = b /\ i \in 1 .. n
    BY <1>1, <1>2, <2>2 DEF Given
  <2>3. CASE c = b /\ i = n + 1
    BY <1>1, <1>2, <2>3
  <2> QED
    BY <1>2, <1>a, <2>1, <2>2, <2>3
<1>b. ASSUME NEW v \in Workers, v # w, NEW c \in Spies, Before(c, v) PROVE Before(c, v)'
  <2> SUFFICES ASSUME NEW i \in 1 .. Len(seen'[c]), seen'[c][i][1] = so[v]
               PROVE  seen'[c][i][2] < read[so[v]]
    BY <1>1 DEF Before
  <2>1. CASE c # b
    BY <1>2, <1>b, <2>1 DEF Before
  <2>2. CASE c = b /\ i \in 1 .. n
    BY <1>2, <1>b, <2>2 DEF Before
  <2>3. CASE c = b /\ i = n + 1
    BY <1>2, <1>3, <1>b, <2>3
  <2> QED
    BY <1>2, <2>1, <2>2, <2>3
<1>c. ASSUME NEW c \in Spies, NEW x, Has(c, x) PROVE Has(c, x)'
  <2>1. PICK i \in 1 .. Len(seen[c]) : seen[c][i] = x
    BY <1>c DEF Has
  <2>2. CASE c # b
    BY <1>2, <2>1, <2>2 DEF Has
  <2>3. CASE c = b
    <3>1. i \in 1 .. Len(seen'[b]) /\ seen'[b][i] = x
      BY <1>1, <1>2, <2>1, <2>3
    <3> QED
      BY <2>3, <3>1 DEF Has
  <2> QED
    BY <2>2, <2>3
<1>d. pc'[w] # "route" /\ (pc'[w] = "copy" => it'[w] # None)
  BY CopyEffect
<1>e. ASSUME NEW v \in Workers, pc'[v] = "route", NEW c \in Spies PROVE Before(c, v)'
  BY <1>3, <1>b, <1>d, <1>e DEF Given
<1>f. ASSUME pc'[w] = "copy", ~Torn(w)', NEW c \in Spies
      PROVE  /\ c >= it'[w] => Before(c, w)'
             /\ c \in request_so /\ c < it'[w] => Has(c, Chunk(w))'
  <2>1. ~Torn(w) /\ it'[w] = First(After(b)) /\ First(After(b)) # None
    BY <1>1, <1>3, <1>d, <1>f, CopyEffect DEF Torn
  <2>2. /\ First(After(b)) \in request_so /\ First(After(b)) > b
        /\ \A e \in request_so : e > b => e >= First(After(b))
    BY <1>1, <2>1, WalkOn
  <2>3. it'[w] \in Nat /\ c \in Nat /\ b \in Nat /\ it'[w] > b
    BY <1>1, <2>1, <2>2
  <2>4. ASSUME c >= it'[w] PROVE Before(c, w)'
    <3>1. c # b /\ c >= b
      BY <2>3, <2>4
    <3>2. Before(c, w)
      BY <1>1, <2>1, <3>1 DEF Given
    <3> QED
      BY <1>1, <1>2, <3>1, <3>2 DEF Before
  <2>5. ASSUME c \in request_so, c < it'[w] PROVE Has(c, Chunk(w))'
    <3>1. c <= b
      BY <2>1, <2>2, <2>3, <2>5
    <3>2. CASE c = b
      <4>1. n + 1 \in 1 .. Len(seen'[b])
        BY <1>1, <1>2
      <4> QED
        BY <1>2, <1>3, <3>2, <4>1 DEF Has, Chunk
    <3>3. CASE c < b
      <4>1. Has(c, Chunk(w))
        BY <1>1, <2>1, <2>5, <3>3 DEF Given
      <4> QED
        BY <1>3, <1>c, <4>1
    <3> QED
      BY <2>3, <3>1, <3>2, <3>3
  <2> QED
    BY <2>4, <2>5
<1>g. ASSUME NEW v \in Workers, v # w, pc'[v] = "copy", ~Torn(v)', NEW c \in Spies
      PROVE  /\ c >= it'[v] => Before(c, v)'
             /\ c \in request_so /\ c < it'[v] => Has(c, Chunk(v))'
  <2>1. pc[v] = "copy" /\ ~Torn(v) /\ it'[v] = it[v]
    BY <1>1, <1>3, <1>g DEF Torn
  <2>2. ASSUME c >= it'[v] PROVE Before(c, v)'
    BY <1>b, <1>g, <2>1, <2>2 DEF Given
  <2>3. ASSUME c \in request_so, c < it'[v] PROVE Has(c, Chunk(v))'
    <3>1. Has(c, Chunk(v))
      BY <1>g, <2>1, <2>3 DEF Given
    <3> QED
      BY <1>3, <1>c, <3>1
  <2> QED
    BY <2>2, <2>3
<1>h. ASSUME NEW v \in Workers, pc'[v] = "copy", ~Torn(v)', NEW c \in Spies
      PROVE  /\ c >= it'[v] => Before(c, v)'
             /\ c \in request_so' /\ c < it'[v] => Has(c, Chunk(v))'
  BY <1>1, <1>f, <1>g, <1>h
<1> QED
  BY <1>1, <1>a, <1>e, <1>h DEF Given

LEMMA GivenStep ==
  ASSUME TokenInv, Met, Given, [Next]_vars
  PROVE  Given'
<1>1. CASE \E w \in Workers : WorkerStep(w)
  BY <1>1, GivenWorker, GivenCopy
<1>2. CASE ~\E w \in Workers : WorkerStep(w)
  <2>1. /\ UNCHANGED <<pc, so, it, seen, read>>
        /\ \A w \in Workers : pc[w] = "copy" /\ Chunk(w) \notin raced' => request_so' = request_so
    BY <1>2, MapChange
  <2>2. raced \subseteq raced'
    BY RacedGrows
  <2>3. \A w \in Workers : Chunk(w)' = Chunk(w) /\ (Torn(w) => Torn(w)')
    BY <2>1, <2>2 DEF Chunk, Torn
  <2>4. ASSUME NEW w \in Workers, pc[w] = "copy", ~Torn(w)', NEW c \in Spies
        PROVE  /\ c >= it[w] => Before(c, w)
               /\ c \in request_so' /\ c < it[w] => Has(c, Chunk(w))
    <3>1. ~Torn(w) /\ request_so' = request_so
      BY <2>1, <2>3, <2>4 DEF Torn
    <3> QED
      BY <2>4, <3>1 DEF Given
  <2>5. \A w \in Workers : \A c \in Spies :
          (Before(c, w)' <=> Before(c, w)) /\ (Has(c, Chunk(w))' <=> Has(c, Chunk(w)))
    BY <2>1, <2>3 DEF Before, Has
  <2> QED
    BY <2>1, <2>4, <2>5 DEF Given
<1> QED
  BY <1>1, <1>2

\* A new entry comes after all those of its stream, or repeats a raced one.
LEMMA OrderStep ==
  ASSUME TokenInv, Given, Order, [Next]_vars
  PROVE  Order'
<1>1. raced \subseteq raced'
  BY RacedGrows
<1>2. CASE UNCHANGED seen
  BY <1>1, <1>2 DEF Order
<1>3. ASSUME NEW w \in Workers, Copy(w) PROVE Order'
  <2> DEFINE b == it[w]
             y == so[w]
             k == read[y]
             n == Len(seen[b])
  <2>1. /\ pc[w] = "copy" /\ b \in Spies /\ b \in Nat /\ y \in Socket /\ k \in Nat
        /\ UNCHANGED raced /\ n \in Nat
    BY <1>3, CopyEffect, SeenTyped, FlowAssumption
  <2>2. /\ \A c \in Spies : c # b => seen'[c] = seen[c]
        /\ Len(seen'[b]) = n + 1 /\ seen'[b][n + 1] = <<y, k>>
        /\ \A i \in 1 .. n : seen'[b][i] = seen[b][i]
        /\ \A i \in 1 .. Len(seen'[b]) : i \in 1 .. n \/ i = n + 1
    BY <1>3, CopyEffect DEF Chunk
  <2>3. ASSUME NEW i \in 1 .. n, seen[b][i][1] = y
        PROVE  seen[b][i][2] < k \/ (seen[b][i] = <<y, k>> /\ <<y, k>> \in raced)
    <3>1. seen[b][i][2] <= k /\ seen[b][i][2] \in Nat /\ seen[b][i] = <<y, seen[b][i][2]>>
      BY <2>1, <2>3, SeenTyped DEF Given
    <3>2. CASE Torn(w)
      <4>1. <<y, k>> \in raced
        BY <3>2 DEF Torn, Chunk
      <4>2. seen[b][i][2] < k \/ seen[b][i][2] = k
        BY <2>1, <3>1
      <4> QED
        BY <3>1, <4>1, <4>2
    <3>3. CASE ~Torn(w)
      <4>1. b >= b
        <5> HIDE DEF b
        <5> QED
          BY <2>1
      <4> QED
        BY <2>1, <2>3, <3>3, <4>1 DEF Given, Before
    <3> QED
      BY <3>2, <3>3
  <2> SUFFICES ASSUME NEW c \in Spies, NEW i \in 1 .. Len(seen'[c]), NEW j \in 1 .. Len(seen'[c]),
                      i < j, seen'[c][i][1] = seen'[c][j][1]
               PROVE  \/ seen'[c][i][2] < seen'[c][j][2]
                      \/ seen'[c][j] = seen'[c][i] /\ seen'[c][i] \in raced
    BY <2>1 DEF Order
  <2>4. CASE c # b
    <3>1. seen'[c] = seen[c]
      BY <2>2, <2>4
    <3>2. /\ i \in 1 .. Len(seen[c]) /\ j \in 1 .. Len(seen[c])
          /\ seen[c][i][1] = seen[c][j][1]
      BY <3>1
    <3>3. \/ seen[c][i][2] < seen[c][j][2]
          \/ seen[c][j] = seen[c][i] /\ seen[c][i] \in raced
      BY <3>2 DEF Order
    <3> QED
      BY <3>1, <3>3
  <2>5. CASE c = b /\ j \in 1 .. n
    <3>1. i \in 1 .. n
      BY <2>1, <2>2, <2>5
    <3>2. seen'[b][i] = seen[b][i] /\ seen'[b][j] = seen[b][j]
      BY <2>2, <2>5, <3>1
    <3>3. j \in 1 .. n /\ seen[b][i][1] = seen[b][j][1]
      BY <2>5, <3>2
    <3>4. \/ seen[b][i][2] < seen[b][j][2]
          \/ seen[b][j] = seen[b][i] /\ seen[b][i] \in raced
      BY <2>1, <3>1, <3>3 DEF Order
    <3> QED
      BY <2>5, <3>2, <3>4
  <2>6. CASE c = b /\ j = n + 1
    <3>1. i \in 1 .. n
      BY <2>1, <2>2, <2>6
    <3>2. seen'[b][i] = seen[b][i] /\ seen'[b][j] = <<y, k>>
      BY <2>2, <2>6, <3>1
    <3>3. seen[b][i][1] = y
      <4> HIDE DEF b, y, k, n
      <4> QED
        BY <2>6, <3>2
    <3>4. seen[b][i][2] < k \/ (seen[b][i] = <<y, k>> /\ <<y, k>> \in raced)
      BY <2>3, <3>1, <3>3
    <3> HIDE DEF b, y, k, n
    <3> QED
      BY <2>6, <3>2, <3>4
  <2> QED
    BY <2>2, <2>4, <2>5, <2>6
<1>4. CASE ~\E w \in Workers : Copy(w)
  <2>1. ASSUME NEW w \in Workers, WorkerStep(w) PROVE UNCHANGED seen
    BY <1>4, <2>1 DEF WorkerStep, Take, Lookup, Recv, Route, Block, Send, SendDone, Rearm, CloseBegin,
       CloseEnd, spies
  <2>2. UNCHANGED seen
    BY <2>1, MapChange
  <2> QED
    BY <1>2, <2>2
<1> QED
  BY <1>3, <1>4

\* The copying of a chunk is over when its worker leaves the walk.
LEMMA WalkedNow ==
  ASSUME TokenInv, NEW w \in Workers, WorkerStep(w), NEW s \in Socket
  PROVE  \/ Walked(s)' = Walked(s)
         \/ /\ s = so[w] /\ Walked(s)' = read[s] /\ pc'[w] = "block" /\ UNCHANGED read
            /\ Route(w) \/ Copy(w)
<1> USE DEF net, pairs, main, workers, spies
<1>0. /\ pc \in [Workers -> Steps] /\ so \in [Workers -> Socket \cup {None}]
      /\ read \in [Socket -> Nat] /\ read[s] \in Nat
  BY DEF TokenInv, Types, NetTypes, WorkerTypes
<1>1. \A v \in Workers : v # w => pc'[v] = pc[v] /\ so'[v] = so[v]
  BY OwnOnly
<1>2. \A v \in Workers : so[w] = s /\ so[v] = s => v = w
  BY WorkerTyped DEF TokenInv, Tokens
<1>3. CASE Recv(w)
  <2>1. pc[w] = "recv" /\ so[w] \in Socket /\ so' = so
    BY <1>3, WorkerTyped DEF Recv
  <2>2. CASE so[w] = s /\ pc'[w] = "route"
    <3>1. read'[s] = read[s] + 1
      BY <1>0, <1>3, <2>2 DEF Recv, GoTo
    <3>2. Walking(s)' /\ ~Walking(s)
      BY <1>2, <2>1, <2>2 DEF Walking
    <3> QED
      BY <1>0, <3>1, <3>2 DEF Walked
  <2>3. CASE so[w] # s \/ pc'[w] # "route"
    <3>1. read'[s] = read[s] /\ pc'[w] \notin {"copy"}
      BY <1>0, <1>3, <2>1, <2>3 DEF Recv, GoTo
    <3>2. Walking(s)' <=> Walking(s)
      BY <1>1, <2>1, <2>3, <3>1 DEF Walking
    <3> QED
      BY <3>1, <3>2 DEF Walked
  <2> QED
    BY <2>2, <2>3
<1>4. CASE Route(w) \/ Copy(w)
  <2>1. pc[w] \in {"route", "copy"} /\ pc'[w] \in {"copy", "block"} /\ UNCHANGED <<so, read>>
    BY <1>0, <1>4 DEF Route, Copy, WalkTo, GoTo
  <2>2. CASE so[w] = s /\ pc'[w] = "block"
    <3>1. ~Walking(s)'
      BY <1>2, <2>1, <2>2 DEF Walking
    <3> QED
      BY <1>4, <2>1, <2>2, <3>1 DEF Walked
  <2>3. CASE so[w] # s \/ pc'[w] = "copy"
    <3>1. Walking(s)' <=> Walking(s)
      BY <1>1, <2>1, <2>3 DEF Walking
    <3> QED
      BY <2>1, <3>1 DEF Walked
  <2> QED
    BY <2>1, <2>2, <2>3
<1>5. CASE ~Recv(w) /\ ~Route(w) /\ ~Copy(w)
  <2>1. pc[w] \notin {"route", "copy"} /\ pc'[w] \notin {"route", "copy"} /\ UNCHANGED read
    BY <1>0, <1>5 DEF WorkerStep, Take, Lookup, Block, Send, SendDone, Rearm, CloseBegin, CloseEnd,
       GoTo, Finish, Fail
  <2>2. Walking(s)' <=> Walking(s)
    BY <1>1, <2>1 DEF Walking
  <2> QED
    BY <2>1, <2>2 DEF Walked
<1> QED
  BY <1>3, <1>4, <1>5

\* Whoever is in the map when the copying of a chunk is over has it, unless it
\* raced or the client had nothing of the stream.
LEMMA WalkOver ==
  ASSUME TokenInv, Met, Given, NEW w \in Workers, Route(w) \/ Copy(w), pc'[w] = "block",
         NEW c \in request_so, NEW i \in 1 .. Len(seen[c]), seen[c][i][1] = so[w]
  PROVE  Chunk(w) \in raced' \/ Has(c, Chunk(w))'
<1>0. c \in Spies /\ request_so \subseteq Spies /\ c \in Nat /\ pc \in [Workers -> Steps]
  BY FlowAssumption DEF TokenInv, Types, SpyTypes, WorkerTypes
<1>1. CASE Route(w)
  <2>1. so[w][2] \in Copied
    BY <1>0 DEF Given
  <2>2. First(request_so) # None
    <3>1. First(request_so) \in request_so
      BY <1>0, FirstOf
    <3> QED
      BY <1>0, <3>1, FlowAssumption
  <2>3. ~WalkTo(w, First(request_so))
    BY <1>0, <2>2 DEF WalkTo, GoTo
  <2> QED
    BY <1>1, <2>1, <2>3 DEF Route
<1>2. CASE Copy(w)
  <2>1. /\ it[w] \in Spies /\ it[w] \in Nat /\ UNCHANGED raced /\ it'[w] = None
        /\ it'[w] = First(After(it[w])) \/ Torn(w)
        /\ \A e \in Spies : e # it[w] => seen'[e] = seen[e]
        /\ Len(seen'[it[w]]) = Len(seen[it[w]]) + 1
        /\ seen'[it[w]][Len(seen[it[w]]) + 1] = Chunk(w)
        /\ pc[w] = "copy"
    BY <1>2, CopyEffect, FlowAssumption
  <2>2. CASE Torn(w)
    BY <2>1, <2>2 DEF Torn
  <2>3. CASE ~Torn(w)
    <3>1. ~(c > it[w])
      BY <1>0, <2>1, <2>3, WalkOn
    <3>2. CASE c = it[w]
      <4>1. Len(seen[c]) + 1 \in 1 .. Len(seen'[c])
        BY <1>0, <2>1, <3>2, SeenTyped
      <4>2. Chunk(w)' = Chunk(w)
        BY <1>2, CopyEffect DEF Chunk
      <4> QED
        BY <2>1, <3>2, <4>1, <4>2 DEF Has
    <3>3. CASE c < it[w]
      <4>1. Has(c, Chunk(w)) /\ c # it[w]
        BY <1>0, <2>1, <2>3, <3>3 DEF Given
      <4>2. Chunk(w)' = Chunk(w) /\ seen'[c] = seen[c]
        BY <1>0, <1>2, <2>1, <4>1, CopyEffect DEF Chunk
      <4> QED
        BY <4>1, <4>2 DEF Has
    <3> QED
      BY <1>0, <2>1, <3>1, <3>2, <3>3
  <2> QED
    BY <2>2, <2>3
<1> QED
  BY <1>1, <1>2

LEMMA WholeStep ==
  ASSUME TokenInv, Met, Given, Whole, [Next]_vars
  PROVE  Whole'
<1> USE DEF net, pairs, main, workers, spies
<1>0. raced \subseteq raced' /\ request_so \subseteq Spies
  BY RacedGrows DEF TokenInv, Types, SpyTypes
<1>1. CASE ~\E w \in Workers : WorkerStep(w)
  <2>1. UNCHANGED <<pc, so, it, seen, read>>
    BY <1>1, MapChange
  <2>2. \A c \in request_so' : c \in request_so \/ seen[c] = <<>>
    <3>1. mpc = "hear" => who \in Spies
      BY DEF TokenInv, Types, LoopTypes
    <3>2. mpc = "hear" /\ who \notin request_so => seen[who] = <<>>
      BY <3>1 DEF Met
    <3> QED
      BY <1>1, <3>2 DEF Next, vars, MainStep, Enqueue, Hear, Poll, PollSpy, SpyBroken, Change, Spy, Peer
  <2>3. \A s : Walked(s)' = Walked(s)
    BY <2>1 DEF Walked, Walking
  <2>4. \A c, x : Has(c, x)' <=> Has(c, x)
    BY <2>1 DEF Has
  <2> SUFFICES ASSUME NEW c \in request_so', NEW i \in 1 .. Len(seen[c]), NEW s \in Socket, NEW m \in Nat,
                      seen[c][i][1] = s, seen[c][i][2] < m, m <= Walked(s)
               PROVE  <<s, m>> \in raced' \/ Has(c, <<s, m>>)
    BY <2>1, <2>3, <2>4 DEF Whole
  <2>5. c \in request_so
    BY <2>2
  <2> QED
    BY <1>0, <2>5 DEF Whole
<1>2. ASSUME NEW w \in Workers, WorkerStep(w) PROVE Whole'
  <2>1. UNCHANGED request_so
    BY <1>2 DEF WorkerStep, Take, Lookup, Recv, Route, Copy, Block, Send, SendDone, Rearm, CloseBegin,
       CloseEnd
  <2>2. ~Copy(w) => UNCHANGED seen
    BY <1>2 DEF WorkerStep, Take, Lookup, Recv, Route, Block, Send, SendDone, Rearm, CloseBegin, CloseEnd
  <2> SUFFICES ASSUME NEW c \in request_so, NEW i \in 1 .. Len(seen'[c]), NEW s \in Socket, NEW m \in Nat,
                      seen'[c][i][1] = s, seen'[c][i][2] < m, m <= Walked(s)'
               PROVE  <<s, m>> \in raced' \/ Has(c, <<s, m>>)'
    BY <2>1 DEF Whole
  <2>3. c \in Spies
    BY <1>0
  <2>4. CASE ~(i \in 1 .. Len(seen[c]))
    <3>1. Copy(w) /\ c = it[w]
      BY <2>2, <2>3, <2>4, CopyEffect
    <3>2. i = Len(seen[c]) + 1
      BY <2>4, <3>1, CopyEffect
    <3>3. seen'[c][i] = <<so[w], read[so[w]]>> /\ read' = read
      BY <3>1, <3>2, CopyEffect DEF Chunk
    <3>4. s = so[w] /\ read[s] < m /\ read[s] \in Nat
      BY <3>3, Numbers
    <3>5. Walked(s)' <= read[s]
      BY <3>3, <3>4 DEF Walked
    <3>6. Walked(s)' \in Int
      BY <3>3, <3>4 DEF Walked
    <3> QED
      BY <3>4, <3>5, <3>6
  <2>5. CASE i \in 1 .. Len(seen[c])
    <3>1. seen'[c][i] = seen[c][i]
      BY <2>2, <2>3, <2>5, CopyEffect
    <3>2. seen[c][i][1] = s /\ seen[c][i][2] < m /\ seen[c][i][2] \in Nat
      BY <2>3, <2>5, <3>1, SeenTyped
    <3>3. ASSUME Has(c, <<s, m>>) PROVE Has(c, <<s, m>>)'
      <4>1. CASE Copy(w) /\ c = it[w]
        <5>1. PICK j \in 1 .. Len(seen[c]) : seen[c][j] = <<s, m>>
          BY <3>3 DEF Has
        <5>2. j \in 1 .. Len(seen'[c]) /\ seen'[c][j] = seen[c][j]
          <6>1. Len(seen'[c]) = Len(seen[c]) + 1 /\ Len(seen[c]) \in Nat
            BY <2>3, <4>1, CopyEffect, SeenTyped
          <6>2. seen'[c][j] = seen[c][j]
            BY <4>1, <5>1, CopyEffect
          <6> QED
            BY <5>1, <6>1, <6>2
        <5> QED
          BY <5>1, <5>2 DEF Has
      <4>2. CASE ~Copy(w) \/ c # it[w]
        <5>1. seen'[c] = seen[c]
          BY <2>2, <2>3, <4>2, CopyEffect
        <5> QED
          BY <3>3, <5>1 DEF Has
      <4> QED
        BY <4>1, <4>2
    <3>4. CASE m <= Walked(s)
      <4>1. <<s, m>> \in raced \/ Has(c, <<s, m>>)
        BY <2>5, <3>2, <3>4 DEF Whole
      <4> QED
        BY <1>0, <3>3, <4>1
    <3>5. CASE ~(m <= Walked(s))
      <4>1. /\ s = so[w] /\ Walked(s)' = read[s] /\ pc'[w] = "block"
            /\ Route(w) \/ Copy(w)
        <5>1. Walked(s)' # Walked(s)
          BY <3>5
        <5> QED
          BY <1>2, <5>1, WalkedNow
      <4>2. Walked(s) = read[s] - 1 /\ read[s] \in Nat
        <5>1. pc[w] \in {"route", "copy"}
          BY <4>1 DEF Route, Copy
        <5> QED
          BY <4>1, <5>1, Numbers DEF Walked, Walking
      <4>3. m = read[s]
        BY <3>5, <4>1, <4>2
      <4>4. Chunk(w) = <<s, m>>
        BY <4>1, <4>3 DEF Chunk
      <4>5. Chunk(w)' = <<s, m>>
        <5>1. UNCHANGED <<so, read>>
          BY <4>1 DEF Route, Copy
        <5> QED
          BY <4>4, <5>1 DEF Chunk
      <4>6. Chunk(w) \in raced' \/ Has(c, Chunk(w))'
        BY <2>5, <3>2, <4>1, WalkOver
      <4> QED
        BY <4>4, <4>5, <4>6
    <3> QED
      BY <3>4, <3>5
  <2> QED
    BY <2>4, <2>5
<1> QED
  BY <1>1, <1>2

LEMMA CopiesStep ==
  ASSUME TokenInv, Copies, [Next]_vars
  PROVE  Copies'
BY MetStep, GivenStep, OrderStep, WholeStep DEF Copies

LEMMA CopiesFollow ==
  ASSUME TokenInv, Copies
  PROVE  CopiesInOrder
<1>1. ASSUME NEW c \in Spies, NEW i \in DOMAIN seen[c], NEW j \in DOMAIN seen[c],
             i < j, seen[c][j][1] = seen[c][i][1]
      PROVE  \/ seen[c][i][2] < seen[c][j][2]
             \/ seen[c][j] = seen[c][i] /\ seen[c][i] \in raced
  BY <1>1, SeenTyped DEF Copies, Order
<1>2. ASSUME NEW c \in Spies, c \in request_so, NEW i \in DOMAIN seen[c],
             NEW m \in seen[c][i][2] + 1 .. Walked(seen[c][i][1])
      PROVE  \/ <<seen[c][i][1], m>> \in raced
             \/ \E j \in DOMAIN seen[c] : seen[c][j] = <<seen[c][i][1], m>>
  <2>1. DOMAIN seen[c] = 1 .. Len(seen[c]) /\ seen[c][i][1] \in Socket /\ seen[c][i][2] \in Nat
    BY <1>2, SeenTyped
  <2>2. m \in Nat /\ seen[c][i][2] < m /\ m <= Walked(seen[c][i][1])
    BY <1>2, <2>1 DEF Walked
  <2>3. \/ <<seen[c][i][1], m>> \in raced
        \/ Has(c, <<seen[c][i][1], m>>)
    BY <1>2, <2>1, <2>2 DEF Copies, Whole
  <2> QED
    BY <2>1, <2>3 DEF Has
<1> QED
  BY <1>1, <1>2 DEF CopiesInOrder

LEMMA CopiesAlways == Spec => []Copies
BY TokensAlways, CopiesFirst, CopiesStep, PTL DEF Spec

-----------------------------------------------------------------------------
(***************************************************************************)
(* The theorems.                                                           *)
(***************************************************************************)
LEMMA FlowTypesFollow ==
  ASSUME TokenInv, EndInv
  PROVE  TypeOK
<1>1. ASSUME NEW s \in Socket
      PROVE  /\ got[s] + held[s] <= read[Other(s)] /\ read[s] <= sent[s] /\ held[s] <= Cap
  <2>1. Other(s) \in Socket /\ Other(Other(s)) = s
    BY OtherSocket
  <2>2. got[s] + held[s] + Unsent(Other(s)) <= read[Other(s)]
    BY <2>1 DEF EndInv, Counts
  <2>3. got[s] \in Nat /\ held[s] \in Nat /\ read[Other(s)] \in Nat /\ Unsent(Other(s)) \in {0, 1}
    BY <2>1, Numbers
  <2> QED
    BY <2>2, <2>3 DEF EndInv, Counts
<1>2. service_mutex = None <=> \A w \in Workers : pc[w] # "closing"
  BY FlowAssumption DEF TokenInv, Mutex
<1> QED
  BY <1>1, <1>2 DEF TokenInv, Types, LoopTypes, WorkerTypes, SpyTypes, TypeOK

\* For any number of pairs, workers and backdoor clients and any buffer size:
\* no chunk is invented or read twice, the lock is held exactly while a worker
\* closes (so no thread sleeps on a peer with it), whichever threads block.
THEOREM FlowTypes == Spec => []TypeOK
BY TokensAlways, EndAlways, FlowTypesFollow, PTL

LEMMA TailFollows ==
  ASSUME TokenInv, EndInv
  PROVE  TailOnly
<1> SUFFICES ASSUME NEW s \in Socket, ~Open(s), s[1] \notin failed, s \in fin, Other(s) \notin fin
             PROVE  sent[s] - got[Other(s)] <= Cap
  BY DEF TailOnly
<1>1. AllRead(s) /\ ~Carried(s)
  BY DEF EndInv, Ended, AllRead
<1>2. got[Other(s)] + held[Other(s)] + Unsent(s) = read[s] /\ Unsent(s) = 0
  BY <1>1 DEF EndInv, Counts, Unsent
<1>3. Other(s) \in Socket /\ held[Other(s)] <= Cap
  BY OtherSocket DEF EndInv, Counts
<1>4. sent[s] = read[s]
  BY <1>1 DEF AllRead
<1>5. got[Other(s)] \in Nat /\ held[Other(s)] \in Nat /\ read[s] \in Nat /\ Cap \in Nat
  BY <1>3, Numbers
<1> QED
  BY <1>2, <1>3, <1>4, <1>5

\* A pair taken down with linger zero, of which one peer ended its stream and
\* no write failed, costs the other peer no more than its send buffer held.
THEOREM OnlyTheTailIsLost == Spec => []TailOnly
BY TokensAlways, EndAlways, TailFollows, PTL

\* For any number of pairs, workers and clients of a backdoor, however the walks
\* of several workers interleave with arrivals, hang-ups and closes: a client
\* never gets a chunk after a later one of the same direction; only a chunk whose
\* copying raced with a change of a map can come twice, and only such a one can be
\* missing between what a client that stays has got and what was walked.
THEOREM CopiesAlwaysInOrder == Spec => []CopiesInOrder
BY TokensAlways, CopiesAlways, CopiesFollow, PTL
=============================================================================
