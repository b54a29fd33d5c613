---------------------------- MODULE Socks5Proofs ----------------------------
(***************************************************************************)
(* Theorems about Socks5: the types, the queue nobody drains, and what a   *)
(* client that keeps to the protocol is given and told.                    *)
(***************************************************************************)
EXTENDS Socks5, TLAPS, SequenceTheorems

Parts == {"ver nmethods", "methods", "user", "password", "head", "address", "data"}
Text == Seq(Parts)
Answers == {"noauth", "userpwd", "nomethod", "granted", "denied", "unreachable", "succeeded"}

SocksTypes ==
  /\ TypeOK
  /\ mpc = "idle" <=> cur = None
  /\ want \in [Clients -> Requests] /\ style \in [Clients -> Styles]
  /\ said = [c \in Clients |-> said[c]] /\ inbox = [c \in Clients |-> inbox[c]]
  /\ replies \in [Clients -> Seq(Answers)]
  /\ conn \in [Clients -> {"none", "wanted", "zero", "garbage"}]

\* What is armed or queued belongs to a pair that was registered, and no
\* socket is both.
QueueInv ==
  /\ \A s \in armed : state[s[1]] = "relayed"
  /\ \A i \in 1 .. Len(pool) :
       pool[i] \notin armed /\ state[pool[i][1]] \in {"relayed", "closed"}
  /\ QueuedOnce

SocksInv == SocksTypes /\ QueueInv

-----------------------------------------------------------------------------
(***************************************************************************)
(* The stages of the handshake with a client that keeps to the protocol.   *)
(***************************************************************************)
Offers(c, m) ==
  \E i \in 1 .. Len(want[c].methods) : want[c].methods[i] = m

\* What the service has heard of it, and what it is to say next.
Ready(c, heard, next) ==
  said[c] = heard \o inbox[c] /\ inbox[c] \in {<<>>, next}

\* A method it offered was chosen, and k replies came after that.
Chosen(c, k) ==
  \/ /\ Len(replies[c]) = 1 + k /\ replies[c][1] = "noauth"
     /\ Offers(c, "noauth")
  \/ /\ Len(replies[c]) = 2 + k /\ replies[c][1] = "userpwd"
     /\ replies[c][2] = "granted"
     /\ Offers(c, "userpwd") /\ want[c].valid

Last(c) == replies[c][Len(replies[c])]
ByPassword(c) == replies[c][1] = "userpwd"
Begun(c) == IF ByPassword(c) THEN Greeting \o Login ELSE Greeting

AtGreeting(c) == replies[c] = <<>> /\ Ready(c, <<>>, Greeting)
AtLogin(c) ==
  /\ Len(replies[c]) = 1 /\ replies[c][1] = "userpwd" /\ Offers(c, "userpwd")
  /\ Ready(c, Greeting, Login)
AtRequest(c) == Chosen(c, 0) /\ Ready(c, Begun(c), Command)
AtDial(c) ==
  /\ Chosen(c, 0)
  /\ said[c] = Begun(c) \o Command /\ inbox[c] = <<>>
  /\ dst = "wanted" /\ want[c].cmd = "connect"
AtRelay(c) ==
  /\ Chosen(c, 1) /\ Last(c) = "succeeded"
  /\ Ready(c, Begun(c) \o Command, <<"data">>)
  /\ conn[c] = "wanted" /\ want[c].cmd = "connect"
AtEnd(c) ==
  (c \notin late /\ replies[c] # <<>> /\ want[c].cmd = "connect" /\ want[c].atyp # "ipv6")
    => Last(c) \in {"nomethod", "denied", "unreachable", "succeeded"}

Progress(c) ==
  /\ state[c] \in {"absent", "waiting"} => AtGreeting(c)
  /\ state[c] = "open" /\ mpc = "greet" => AtGreeting(c)
  /\ state[c] = "open" /\ mpc = "auth" => AtLogin(c)
  /\ state[c] = "open" /\ mpc = "request" => AtRequest(c)
  /\ state[c] = "open" /\ mpc = "dial" => AtDial(c)
  /\ state[c] = "relayed" => AtRelay(c)
  /\ state[c] = "closed" => AtEnd(c)

StageInv == \A c \in Clients : Conforming(c) => Progress(c)

-----------------------------------------------------------------------------
(***************************************************************************)
(* Types and queue.                                                        *)
(***************************************************************************)
LEMMA CurOpen ==
  ASSUME SocksTypes
  PROVE  /\ \A c \in Clients : state[c] = "open" <=> c = cur
         /\ mpc # "idle" => cur \in Clients /\ state[cur] = "open"
         /\ mpc = "idle" => cur = None
         /\ None \notin Clients
BY Socks5Assumption DEF SocksTypes, TypeOK

LEMMA SocksFirst ==
  ASSUME Init PROVE SocksInv
<1>1. <<>> \in Seq(Answers)
  OBVIOUS
<1>2. SocksTypes
  <2>1. TypeOK
    BY DEF Init, TypeOK
  <2> QED
    BY <1>1, <2>1 DEF Init, SocksTypes
<1>3. QueueInv
  BY DEF Init, QueueInv, QueuedOnce
<1> QED
  BY <1>2, <1>3 DEF SocksInv

LEMMA SocketOf ==
  ASSUME NEW c \in Clients
  PROVE  <<c, "request">> \in Socket /\ <<c, "tunnel">> \in Socket
BY DEF Socket

\* What the clients and the destinations do.
LEMMA SocksClients ==
  ASSUME SocksInv, NEW c \in Clients, Arrive(c) \/ Say(c) \/ DestinationTalks(c)
  PROVE  SocksInv'
<1> USE DEF client, main, events
<1>1. TypeOK'
  BY SocketOf DEF Arrive, Say, DestinationTalks, SocksInv, SocksTypes, TypeOK
<1>2. SocksTypes'
  <2>1. said' = [d \in Clients |-> said'[d]] /\ inbox' = [d \in Clients |-> inbox'[d]]
    BY DEF Arrive, Say, DestinationTalks, SocksInv, SocksTypes
  <2>2. UNCHANGED <<want, style, replies, conn, mpc, cur>>
    BY DEF Arrive, Say, DestinationTalks
  <2> QED
    BY <1>1, <2>1, <2>2 DEF SocksInv, SocksTypes
<1>3. QueueInv'
  <2>1. UNCHANGED <<armed, pool>>
        /\ \A d \in Clients : state[d] \in {"relayed", "closed"} => state'[d] = state[d]
    BY DEF Arrive, Say, DestinationTalks, SocksInv, SocksTypes, TypeOK
  <2>2. \A s \in armed : s[1] \in Clients
    BY DEF SocksInv, SocksTypes, TypeOK, Socket
  <2>3. \A i \in 1 .. Len(pool) : pool[i][1] \in Clients
    BY DEF SocksInv, SocksTypes, TypeOK, Socket
  <2> QED
    BY <2>1, <2>2, <2>3 DEF SocksInv, QueueInv, QueuedOnce
<1> QED
  BY <1>2, <1>3 DEF SocksInv

LEMMA SocksAccept ==
  ASSUME SocksInv, NEW c \in Clients, Accept(c)
  PROVE  SocksInv'
<1> USE DEF client, main, events
<1>1. TypeOK'
  <2>1. state \in [Clients -> {"absent", "waiting", "open", "relayed", "closed"}]
        /\ cur = None /\ None \notin Clients /\ \A d \in Clients : state[d] # "open"
    BY CurOpen DEF Accept, SocksInv, SocksTypes, TypeOK
  <2>2. {d \in Clients : state'[d] = "open"} = {cur'} \ {None}
    <3>1. CASE state' = [state EXCEPT ![c] = "closed"] /\ cur' = cur
      BY <2>1, <3>1
    <3>2. CASE state' = [state EXCEPT ![c] = "open"] /\ cur' = c
      BY <2>1, <3>2
    <3> QED
      BY <3>1, <3>2 DEF Accept, Close
  <2>3. state' \in [Clients -> {"absent", "waiting", "open", "relayed", "closed"}]
    BY <2>1 DEF Accept, Close
  <2>4. /\ mpc' \in {"idle", "greet"} /\ cur' \in Clients \cup {None} /\ UNCHANGED <<dst, late, events>>
        /\ mpc = "idle"
    BY <2>1 DEF Accept
  <2> QED
    BY <2>2, <2>3, <2>4 DEF SocksInv, SocksTypes, TypeOK
<1>2. SocksTypes'
  BY <1>1, CurOpen DEF Accept, SocksInv, SocksTypes
<1>3. QueueInv'
  <2>1. UNCHANGED <<armed, pool>>
        /\ \A d \in Clients : state[d] \in {"relayed", "closed"} => state'[d] = state[d]
    BY DEF Accept, Close, SocksInv, SocksTypes, TypeOK
  <2>2. \A s \in armed : s[1] \in Clients
    BY DEF SocksInv, SocksTypes, TypeOK, Socket
  <2>3. \A i \in 1 .. Len(pool) : pool[i][1] \in Clients
    BY DEF SocksInv, SocksTypes, TypeOK, Socket
  <2> QED
    BY <2>1, <2>2, <2>3 DEF SocksInv, QueueInv, QueuedOnce
<1> QED
  BY <1>2, <1>3 DEF SocksInv

\* What the handlers of the main loop have in common: they concern the client
\* it is at, and either stay with it, turn it away, or register it.
LEMMA HandleOutcome ==
  ASSUME SocksInv, Handle
  PROVE  /\ cur \in Clients /\ state[cur] = "open" /\ mpc # "idle"
         /\ UNCHANGED <<want, style, said, pool>> /\ late' \subseteq Clients /\ late \subseteq late'
         /\ hasData' \subseteq hasData
         /\ inbox' = inbox \/ inbox' = [inbox EXCEPT ![cur] = <<>>]
         /\ replies' = replies \/ \E r \in Answers : Reply(r)
         /\ \/ /\ UNCHANGED <<state, armed, conn, cur>>
               /\ mpc' \in {"auth", "request", "dial"} /\ (mpc' = "dial" <=> dst' # "none")
               /\ dst' \in {"none", "wanted", "zero", "garbage"}
            \/ /\ state' = [state EXCEPT ![cur] = "closed"] /\ UNCHANGED <<armed, conn>>
               /\ mpc' = "idle" /\ cur' = None /\ dst' = "none"
            \/ /\ state' = [state EXCEPT ![cur] = "relayed"] /\ mpc = "dial"
               /\ conn' = [conn EXCEPT ![cur] = dst]
               /\ armed' = armed \cup {<<cur, "request">>, <<cur, "tunnel">>}
               /\ mpc' = "idle" /\ cur' = None /\ dst' = "none"
<1> USE DEF client, main, events
<1>0. mpc # "idle" /\ cur \in Clients /\ state[cur] = "open"
  BY CurOpen DEF SocksInv, Handle, HandshakeHandler, AuthByUsername, GetConnectInfo, ReadNothing,
     DialFail, DidAccept, Read
<1>1. late \subseteq Clients /\ (mpc = "dial" <=> dst # "none")
      /\ dst \in {"none", "wanted", "zero", "garbage"}
  BY DEF SocksInv, SocksTypes, TypeOK
<1>2. CASE HandshakeHandler
  <2>1. PICK m \in Method :
          /\ Reply(m)
          /\ IF m = "nomethod" THEN Refuse
             ELSE /\ mpc' = IF m = "userpwd" THEN "auth" ELSE "request"
                  /\ UNCHANGED <<state, cur, dst, armed, conn>>
    BY <1>2 DEF HandshakeHandler
  <2>2. m \in {"noauth", "userpwd", "nomethod"}
    BY <2>1 DEF Method, Preferred, Known, Supported
  <2>3. \E r \in Answers : Reply(r)
    BY <2>1, <2>2 DEF Answers
  <2> QED
    BY <1>0, <1>1, <1>2, <2>1, <2>3 DEF HandshakeHandler, Read, Refuse, Dropped, Close, Done
<1>3. CASE AuthByUsername
  <2>1. replies' = replies \/ \E r \in Answers : Reply(r)
    BY <1>3 DEF AuthByUsername, Answers
  <2> QED
    BY <1>0, <1>1, <1>3, <2>1 DEF AuthByUsername, Read, Refuse, Dropped, Close, Done
<1>4. CASE GetConnectInfo
  <2>1. PICK t \in Targets :
          IF t = "none" THEN Refuse
          ELSE dst' = t /\ mpc' = "dial" /\ UNCHANGED <<state, cur, armed, conn>>
    BY <1>4 DEF GetConnectInfo
  <2>2. t \in {"none", "wanted", "zero", "garbage"}
    BY <2>1 DEF Targets
  <2> QED
    BY <1>0, <1>1, <1>4, <2>1, <2>2 DEF GetConnectInfo, Read, Refuse, Dropped, Close, Done
<1>5. CASE ReadNothing
  BY <1>0, <1>1, <1>5 DEF ReadNothing, Refuse, Dropped, Close, Done
<1>6. CASE DialFail
  <2>1. \E r \in Answers : Reply(r)
    BY <1>6 DEF DialFail, FailReply, Answers
  <2> QED
    BY <1>0, <1>1, <1>6, <2>1 DEF DialFail, Refuse, Dropped, Close, Done
<1>7. CASE DidAccept
  <2>1. \E r \in Answers : Reply(r)
    BY <1>7 DEF DidAccept, Answers
  <2> QED
    BY <1>0, <1>1, <1>7, <2>1 DEF DidAccept, Done
<1> QED
  BY <1>2, <1>3, <1>4, <1>5, <1>6, <1>7 DEF Handle

LEMMA SocksHandle ==
  ASSUME SocksInv, Handle
  PROVE  SocksInv'
<1>0. cur \in Clients /\ state[cur] = "open" /\ cur # None
  BY HandleOutcome, CurOpen DEF SocksInv
<1>1. TypeOK'
  <2>1. TypeOK
    BY DEF SocksInv, SocksTypes
  <2>2. <<cur, "request">> \in Socket /\ <<cur, "tunnel">> \in Socket
    BY <1>0, SocketOf
  <2>3. state' \in [Clients -> {"absent", "waiting", "open", "relayed", "closed"}]
    BY <1>0, <2>1, HandleOutcome DEF TypeOK
  <2>4. {c \in Clients : state'[c] = "open"} = {cur'} \ {None}
    <3>1. {c \in Clients : state[c] = "open"} = {cur} \ {None}
          /\ state \in [Clients -> {"absent", "waiting", "open", "relayed", "closed"}]
      BY <2>1 DEF TypeOK
    <3> QED
      BY <1>0, <3>1, HandleOutcome
  <2>5. armed' \subseteq Socket /\ hasData' \subseteq Socket /\ late' \subseteq Clients
    BY <2>1, <2>2, HandleOutcome DEF TypeOK
  <2>6. /\ mpc' \in {"idle", "greet", "auth", "request", "dial"}
        /\ cur' \in Clients \cup {None} /\ dst' \in {"none", "wanted", "zero", "garbage"}
        /\ mpc' = "dial" <=> dst' # "none"
    BY <1>0, HandleOutcome
  <2> QED
    BY <2>1, <2>3, <2>4, <2>5, <2>6, HandleOutcome DEF TypeOK
<1>2. SocksTypes'
  <2>1. replies' \in [Clients -> Seq(Answers)]
    <3>1. replies \in [Clients -> Seq(Answers)]
      BY DEF SocksInv, SocksTypes
    <3>2. ASSUME NEW r \in Answers, Reply(r)
          PROVE  replies' \in [Clients -> Seq(Answers)]
      <4>1. \A q \in Seq(Answers) : Append(q, r) \in Seq(Answers)
        BY AppendProperties
      <4> QED
        BY <1>0, <3>1, <3>2, <4>1 DEF Reply
    <3> QED
      BY <3>1, <3>2, HandleOutcome
  <2>2. inbox' = [c \in Clients |-> inbox'[c]]
    BY <1>0, HandleOutcome DEF SocksInv, SocksTypes
  <2>3. conn' \in [Clients -> {"none", "wanted", "zero", "garbage"}]
    BY <1>0, HandleOutcome DEF SocksInv, SocksTypes, TypeOK
  <2>4. mpc' = "idle" <=> cur' = None
    BY <1>0, HandleOutcome
  <2> QED
    BY <1>1, <2>1, <2>2, <2>3, <2>4, HandleOutcome DEF SocksInv, SocksTypes
<1>3. QueueInv'
  <2>1. \A d \in Clients : state[d] \in {"relayed", "closed"} => state'[d] = state[d]
    BY <1>0, HandleOutcome DEF SocksInv, SocksTypes, TypeOK
  <2>2. \A s \in armed : s[1] \in Clients
    BY DEF SocksInv, SocksTypes, TypeOK, Socket
  <2>3. \A i \in 1 .. Len(pool) : pool[i][1] \in Clients
    BY DEF SocksInv, SocksTypes, TypeOK, Socket
  <2>4. \A s \in armed' : state'[s[1]] = "relayed"
    <3>1. ASSUME NEW s \in armed', s \notin armed PROVE s[1] = cur /\ state'[cur] = "relayed"
      BY <1>0, <3>1, HandleOutcome DEF SocksInv, SocksTypes, TypeOK
    <3> QED
      BY <2>1, <2>2, <3>1 DEF SocksInv, QueueInv
  <2>5. ASSUME NEW i \in 1 .. Len(pool) PROVE pool[i] \notin armed'
    <3>1. pool[i] \notin armed /\ pool[i][1] # cur
      BY <1>0 DEF SocksInv, QueueInv
    <3> QED
      BY <3>1, HandleOutcome
  <2> QED
    BY <2>1, <2>3, <2>4, <2>5, HandleOutcome DEF SocksInv, QueueInv, QueuedOnce
<1> QED
  BY <1>2, <1>3 DEF SocksInv

LEMMA SocksEvents ==
  ASSUME SocksInv, NEW s \in Socket, Enqueue(s) \/ ConnectionBreaks(s)
  PROVE  SocksInv'
<1> USE DEF client, main, events
<1>0. s[1] \in Clients /\ cur = None /\ mpc = "idle" /\ state[s[1]] = "relayed"
  BY CurOpen DEF Enqueue, ConnectionBreaks, SocksInv, QueueInv, Socket
<1>t. pool \in Seq(Socket) /\ armed \subseteq Socket
      /\ state \in [Clients -> {"absent", "waiting", "open", "relayed", "closed"}]
  BY DEF SocksInv, SocksTypes, TypeOK
<1>1. TypeOK'
  <2>1. state' \in [Clients -> {"absent", "waiting", "open", "relayed", "closed"}]
        /\ \A d \in Clients : state'[d] = "open" <=> state[d] = "open"
    BY <1>0, <1>t DEF Enqueue, ConnectionBreaks, Close
  <2>2. armed' \subseteq Socket /\ pool' \in Seq(Socket) /\ UNCHANGED <<hasData, late, main>>
    BY <1>t DEF Enqueue, ConnectionBreaks, Disarm
  <2>3. {d \in Clients : state'[d] = "open"} = {d \in Clients : state[d] = "open"}
    BY <2>1
  <2> QED
    BY <2>1, <2>2, <2>3 DEF SocksInv, SocksTypes, TypeOK
<1>2. SocksTypes'
  BY <1>1 DEF Enqueue, ConnectionBreaks, SocksInv, SocksTypes
<1>3. CASE Enqueue(s)
  <2>1. /\ Len(pool') = Len(pool) + 1 /\ pool'[Len(pool) + 1] = s
        /\ \A i \in 1 .. Len(pool) : pool'[i] = pool[i]
        /\ \A i \in 1 .. Len(pool') : i \in 1 .. Len(pool) \/ i = Len(pool) + 1
    BY <1>t, <1>3 DEF Enqueue
  <2>2. armed' = armed \ {s} /\ UNCHANGED state /\ s \in armed
    BY <1>3 DEF Enqueue, Disarm
  <2>3. \A i \in 1 .. Len(pool) : pool[i] # s
    BY <2>2 DEF SocksInv, QueueInv
  <2>4. QueueInv'
    BY <1>0, <2>1, <2>2, <2>3 DEF SocksInv, QueueInv, QueuedOnce
  <2> QED
    BY <1>2, <2>4 DEF SocksInv
<1>4. CASE ConnectionBreaks(s)
  <2>1. armed' \subseteq armed /\ (\A r \in armed' : r[1] # s[1]) /\ UNCHANGED pool
        /\ state' = [state EXCEPT ![s[1]] = "closed"]
    BY <1>t, <1>4 DEF ConnectionBreaks, Close, Socket
  <2>2. \A r \in armed' : r[1] \in Clients
    BY <1>t, <2>1 DEF Socket
  <2>3. \A i \in 1 .. Len(pool) : pool[i][1] \in Clients
    BY <1>t DEF Socket
  <2>4. QueueInv'
    BY <1>t, <2>1, <2>2, <2>3 DEF SocksInv, QueueInv, QueuedOnce
  <2> QED
    BY <1>2, <2>4 DEF SocksInv
<1> QED
  BY <1>3, <1>4

LEMMA SocksStep ==
  ASSUME SocksInv, [Next]_vars
  PROVE  SocksInv'
<1>1. CASE UNCHANGED vars
  BY <1>1 DEF vars, client, main, events, SocksInv, SocksTypes, TypeOK, QueueInv, QueuedOnce
<1> QED
  BY <1>1, SocksClients, SocksAccept, SocksHandle, SocksEvents DEF Next, MainStep

LEMMA SocksAlways == Spec => []SocksInv
BY SocksFirst, SocksStep, PTL DEF Spec

-----------------------------------------------------------------------------
(***************************************************************************)
(* The stages, for a client that keeps to the protocol.                    *)
(***************************************************************************)
LEMMA Messages ==
  /\ Greeting \in Text /\ Login \in Text /\ Command \in Text /\ <<"data">> \in Text
  /\ <<>> \in Text
  /\ Len(Greeting) = 2 /\ Len(Login) = 2 /\ Len(Command) = 2 /\ Len(<<"data">>) = 1
<1>1. \A x, y \in Parts : <<x, y>> \in Text /\ Len(<<x, y>>) = 2
  BY DEF Text
<1>2. \A x \in Parts : <<x>> \in Text /\ Len(<<x>>) = 1
  BY DEF Text
<1>3. <<>> \in Text
  BY DEF Text
<1> QED
  BY <1>1, <1>2, <1>3 DEF Greeting, Login, Command, Parts

LEMMA FirstWords ==
  /\ Head(Login) = "user" /\ Head(Command) = "head"
  /\ Greeting # <<>> /\ Login # <<>> /\ Command # <<>>
BY DEF Greeting, Login, Command

LEMMA Cat ==
  ASSUME NEW S, NEW h \in Seq(S), NEW n \in Seq(S)
  PROVE  h \o n \in Seq(S) /\ Len(h \o n) = Len(h) + Len(n)
OBVIOUS

LEMMA SubMiddle ==
  ASSUME NEW S, NEW h \in Seq(S), NEW n \in Seq(S), NEW r \in Seq(S)
  PROVE  SubSeq((h \o n) \o r, Len(h) + 1, Len(h) + Len(n)) = n
<1> DEFINE q == (h \o n) \o r
           x == SubSeq(q, Len(h) + 1, Len(h) + Len(n))
<1>1. q \in Seq(S) /\ Len(q) = Len(h) + Len(n) + Len(r)
      /\ Len(h) \in Nat /\ Len(n) \in Nat /\ Len(r) \in Nat
  OBVIOUS
<1>2. \A i \in 1 .. Len(n) : q[Len(h) + i] = n[i]
  OBVIOUS
<1>3. x \in Seq(S) /\ Len(x) = Len(n)
  BY <1>1, SubSeqProperties
<1>4. \A i \in 1 .. Len(n) : x[i] = q[Len(h) + i]
  BY <1>1, SubSeqProperties
<1> QED
  BY <1>2, <1>3, <1>4, SeqEqual

LEMMA OddAfterEven == \A x \in {0, 2, 4, 6} : (x + 1) % 2 # 0
OBVIOUS

\* Of its script, c has said h and possibly n, and r is for later.
Due(c, h, n, r) ==
  /\ Script(c) = (h \o n) \o r /\ Ready(c, h, n)
  /\ Allowed(c) = Len(h) + Len(n)
  /\ Len(h) \in {0, 2, 4, 6}
  /\ Len(n) = 2 \/ (Len(n) = 1 /\ Len(r) = 0)

\* A client that has sent none or all of its next message sends it whole.
LEMMA SayNext ==
  ASSUME SocksInv, NEW c \in Clients, Say(c), Conforming(c),
         NEW h \in Text, NEW n \in Text, NEW r \in Text, Due(c, h, n, r)
  PROVE  said'[c] = h \o n /\ inbox'[c] = n
<1> USE DEF Due
<1>1. PICK e \in PacketEnds(c) :
        LET new == SubSeq(Script(c), Len(said[c]) + 1, e) IN
          /\ said' = [said EXCEPT ![c] = @ \o new]
          /\ inbox' = [inbox EXCEPT ![c] = @ \o new]
  BY DEF Say
<1>2. /\ e \in Len(said[c]) + 1 .. Allowed(c)
      /\ e % 2 = 0 \/ e = Len(Script(c))
  BY DEF PacketEnds, Conforming
<1>3. Len(h \o n) = Len(h) + Len(n) /\ Len(Script(c)) = Len(h) + Len(n) + Len(r)
      /\ Len(h) \in Nat /\ Len(n) \in Nat /\ Len(r) \in Nat
  BY DEF Text
<1>4. inbox[c] = <<>> /\ said[c] = h
  <2>1. inbox[c] # n \/ n = <<>>
    <3> SUFFICES ASSUME inbox[c] = n PROVE FALSE
      OBVIOUS
    <3>1. Len(said[c]) = Allowed(c)
      BY <1>3 DEF Ready
    <3> QED
      BY <1>2, <1>3, <3>1
  <2>2. inbox[c] = <<>>
    BY <2>1 DEF Ready
  <2>3. h \o <<>> = h
    BY ConcatEmptySeq DEF Text
  <2> QED
    BY <2>2, <2>3 DEF Ready
<1>5. e = Len(h) + Len(n)
  <2>1. e \in Len(h) + 1 .. Len(h) + Len(n)
    BY <1>2, <1>4
  <2>2. CASE Len(n) = 1
    BY <1>3, <2>1, <2>2
  <2>3. CASE Len(n) = 2
    <3>1. e = Len(h) + 1 => e % 2 # 0
      BY OddAfterEven
    <3>2. e = Len(h) + 1 => e # Len(Script(c))
      BY <1>3, <2>3
    <3> QED
      BY <1>2, <1>3, <2>1, <2>3, <3>1, <3>2
  <2> QED
    BY <2>2, <2>3
<1>6. SubSeq(Script(c), Len(h) + 1, e) = n
  BY <1>5, SubMiddle DEF Text
<1>7. <<>> \o n = n
  BY ConcatEmptySeq DEF Text
<1>8. said = [d \in Clients |-> said[d]] /\ inbox = [d \in Clients |-> inbox[d]]
  BY DEF SocksInv, SocksTypes
<1> QED
  BY <1>1, <1>4, <1>6, <1>7, <1>8

\* The replies of each stage, as what the client makes of them.
LEMMA ChosenMeans ==
  ASSUME NEW c \in Clients, Conforming(c), NEW k \in {0, 1}, Chosen(c, k),
         k = 1 => Last(c) = "succeeded"
  PROVE  /\ Answered(c, "userpwd") <=> ByPassword(c)
         /\ Answered(c, "succeeded") <=> k = 1
         /\ Len(Begun(c)) + 2 = 2 * (Len(replies[c]) - k + 1)
         /\ Begun(c) \in Text /\ Len(Begun(c)) \in {2, 4}
         /\ Handshake(c) = Begun(c) \o Command
<1>1. CASE replies[c][1] = "noauth" /\ Len(replies[c]) = 1 + k
  <2>1. ~Answered(c, "userpwd") /\ ~ByPassword(c)
    BY <1>1 DEF Answered, ByPassword, Last
  <2>2. Answered(c, "succeeded") <=> k = 1
    BY <1>1 DEF Answered, Last
  <2>3. Begun(c) = Greeting /\ Len(Greeting) = 2
    BY <2>1, Messages DEF Begun
  <2>4. Greeting \o <<>> = Greeting
    BY Messages, ConcatEmptySeq DEF Text
  <2>5. Handshake(c) = Begun(c) \o Command
    BY <2>1, <2>3, <2>4 DEF Handshake, Wordy
  <2> QED
    BY <1>1, <2>1, <2>2, <2>3, <2>5, Messages
<1>2. CASE replies[c][1] = "userpwd" /\ replies[c][2] = "granted" /\ Len(replies[c]) = 2 + k
  <2>1. Answered(c, "userpwd") /\ ByPassword(c)
    BY <1>2 DEF Answered, ByPassword
  <2>2. Answered(c, "succeeded") <=> k = 1
    BY <1>2 DEF Answered, Last
  <2>3. Begun(c) = Greeting \o Login
    BY <2>1 DEF Begun
  <2>4. Begun(c) \in Text /\ Len(Begun(c)) = 4
    <3>1. Greeting \in Text /\ Login \in Text /\ Len(Greeting) = 2 /\ Len(Login) = 2
      BY Messages
    <3>2. Greeting \o Login \in Text /\ Len(Greeting \o Login) = Len(Greeting) + Len(Login)
      BY <3>1, Cat DEF Text
    <3> QED
      BY <2>3, <3>1, <3>2
  <2>5. Handshake(c) = Begun(c) \o Command
    BY <2>1, <2>3 DEF Handshake, Wordy, Conforming
  <2> QED
    BY <1>2, <2>1, <2>2, <2>4, <2>5
<1> QED
  BY <1>1, <1>2 DEF Chosen

LEMMA StagesFirst ==
  ASSUME Init PROVE StageInv
<1>1. <<>> \o <<>> = <<>>
  BY Messages, ConcatEmptySeq DEF Text
<1> QED
  BY <1>1 DEF Init, StageInv, Progress, AtGreeting, Ready

\* A client to whom nothing happens stays at its stage, and a closed or
\* relayed one whatever the main loop does.
LEMMA StageKept ==
  ASSUME NEW c \in Clients, Progress(c),
         state'[c] = state[c], said'[c] = said[c], inbox'[c] = inbox[c],
         replies'[c] = replies[c], conn'[c] = conn[c], want'[c] = want[c], late \subseteq late',
         state[c] = "open" => UNCHANGED <<mpc, dst>>
  PROVE  Progress(c)'
<1>1. AtGreeting(c) => AtGreeting(c)'
  BY DEF AtGreeting, Ready
<1>2. AtLogin(c) => AtLogin(c)'
  BY DEF AtLogin, Ready, Offers
<1>3. \A k \in {0, 1} : Chosen(c, k) => Chosen(c, k)'
  BY DEF Chosen, Offers
<1>4. Begun(c)' = Begun(c)
  BY DEF Begun, ByPassword
<1>5. AtRequest(c) => AtRequest(c)'
  BY <1>3, <1>4 DEF AtRequest, Ready
<1>6. state[c] = "open" /\ AtDial(c) => AtDial(c)'
  BY <1>3, <1>4 DEF AtDial
<1>7. AtRelay(c) => AtRelay(c)'
  BY <1>3, <1>4 DEF AtRelay, Ready, Last
<1>8. AtEnd(c) => AtEnd(c)'
  BY DEF AtEnd, Last
<1> QED
  BY <1>1, <1>2, <1>5, <1>6, <1>7, <1>8 DEF Progress

\* What the client says next, at each stage.
LEMMA StageSay ==
  ASSUME SocksInv, StageInv, NEW c \in Clients, Say(c), Conforming(c)
  PROVE  Progress(c)'
<1> USE DEF main
<1>0. Progress(c) /\ state[c] \in {"waiting", "open", "relayed"}
  BY DEF StageInv, Say
<1>u. UNCHANGED <<want, style, state, replies, late, conn, mpc, dst>>
  BY DEF Say
<1>m. mpc \in {"idle", "greet", "auth", "request", "dial"} /\ (state[c] = "open" => mpc # "idle")
  BY CurOpen DEF SocksInv, SocksTypes, TypeOK
<1>k. \A k \in {0, 1} : Chosen(c, k)' <=> Chosen(c, k)
  BY <1>u DEF Chosen, Offers
<1>b. Begun(c)' = Begun(c)
  BY <1>u DEF Begun, ByPassword
<1>t. replies[c] \in Seq(Answers)
  BY DEF SocksInv, SocksTypes
<1>d. <<>> \in Text /\ <<"data">> \in Text /\ Len(<<"data">>) = 1 /\ Len(<<>>) = 0
  BY Messages DEF Text
<1>1. CASE state[c] = "waiting" \/ (state[c] = "open" /\ mpc = "greet")
  <2>1. replies[c] = <<>> /\ Ready(c, <<>>, Greeting)
    BY <1>0, <1>1 DEF Progress, AtGreeting
  <2>2. ~Answered(c, "userpwd") /\ ~Answered(c, "succeeded")
    BY <2>1 DEF Answered
  <2>3. Allowed(c) = Len(<<>>) + Len(Greeting)
    BY <2>1, <2>2, Messages, <1>d DEF Allowed, Conforming
  <2>4. Script(c) = (<<>> \o Greeting) \o (Command \o <<"data">>)
    <3>1. Greeting \o <<>> = Greeting /\ <<>> \o Greeting = Greeting
      BY Messages, ConcatEmptySeq DEF Text
    <3>2. (Greeting \o Command) \o <<"data">> = Greeting \o (Command \o <<"data">>)
      BY Messages, ConcatAssociative DEF Text
    <3> QED
      BY <2>2, <3>1, <3>2 DEF Script, Handshake, Wordy
  <2>5. Command \o <<"data">> \in Text
    BY Messages DEF Text
  <2>6. said'[c] = <<>> \o Greeting /\ inbox'[c] = Greeting
    <3> DEFINE h == <<>>
               n == Greeting
               r == Command \o <<"data">>
    <3>1. h \in Text /\ n \in Text /\ r \in Text /\ Len(h) \in {0, 2, 4, 6}
          /\ (Len(n) = 2 \/ (Len(n) = 1 /\ Len(r) = 0))
      BY <2>5, <1>d, Messages
    <3>2. Script(c) = (h \o n) \o r /\ Ready(c, h, n) /\ Allowed(c) = Len(h) + Len(n)
      BY <2>1, <2>3, <2>4
    <3> HIDE DEF h, n, r
    <3>3. said'[c] = h \o n /\ inbox'[c] = n
      <4>1. Due(c, h, n, r)
        BY <3>1, <3>2 DEF Due
      <4> QED
        BY <3>1, <4>1, SayNext
    <3> QED
      BY <3>3 DEF h, n, r
  <2>7. AtGreeting(c)'
    BY <1>u, <2>1, <2>6 DEF AtGreeting, Ready
  <2> QED
    BY <1>1, <1>u, <2>7 DEF Progress
<1>2. CASE state[c] = "open" /\ mpc = "auth"
  <2>1. AtLogin(c)
    BY <1>0, <1>2 DEF Progress
  <2>2. Answered(c, "userpwd") /\ ~Answered(c, "succeeded")
    BY <2>1 DEF Answered, AtLogin
  <2>3. Allowed(c) = Len(Greeting) + Len(Login)
    BY <2>1, <2>2, Messages DEF Allowed, Conforming, AtLogin
  <2>4. Script(c) = (Greeting \o Login) \o (Command \o <<"data">>)
    <3>1. Greeting \o Login \in Text
      BY Messages DEF Text
    <3>2. ((Greeting \o Login) \o Command) \o <<"data">> = (Greeting \o Login) \o (Command \o <<"data">>)
      BY <3>1, Messages, ConcatAssociative DEF Text
    <3> QED
      BY <2>2, <3>2 DEF Script, Handshake, Wordy, Conforming
  <2>5. Command \o <<"data">> \in Text
    BY Messages DEF Text
  <2>6. said'[c] = Greeting \o Login /\ inbox'[c] = Login
    <3> DEFINE h == Greeting
               n == Login
               r == Command \o <<"data">>
    <3>1. h \in Text /\ n \in Text /\ r \in Text /\ Len(h) \in {0, 2, 4, 6}
          /\ (Len(n) = 2 \/ (Len(n) = 1 /\ Len(r) = 0))
      BY <2>5, Messages
    <3>2. Script(c) = (h \o n) \o r /\ Ready(c, h, n) /\ Allowed(c) = Len(h) + Len(n)
      BY <2>1, <2>3, <2>4 DEF AtLogin
    <3> HIDE DEF h, n, r
    <3>3. said'[c] = h \o n /\ inbox'[c] = n
      <4>1. Due(c, h, n, r)
        BY <3>1, <3>2 DEF Due
      <4> QED
        BY <3>1, <4>1, SayNext
    <3> QED
      BY <3>3 DEF h, n, r
  <2>7. AtLogin(c)'
    BY <1>u, <2>1, <2>6 DEF AtLogin, Ready, Offers
  <2> QED
    BY <1>2, <1>u, <2>7 DEF Progress
<1>3. CASE state[c] = "open" /\ mpc = "request"
  <2>1. AtRequest(c)
    BY <1>0, <1>3 DEF Progress
  <2>2. /\ ~Answered(c, "succeeded") /\ Handshake(c) = Begun(c) \o Command
        /\ Len(Begun(c)) + 2 = 2 * (Len(replies[c]) - 0 + 1)
        /\ Begun(c) \in Text /\ Len(Begun(c)) \in {2, 4}
    BY <2>1, ChosenMeans DEF AtRequest
  <2>3. Allowed(c) = Len(Begun(c)) + Len(Command)
    <3>1. Len(replies[c]) \in Nat
      BY <1>t
    <3> QED
      BY <2>2, <3>1, Messages DEF Allowed, Conforming
  <2>4. Script(c) = (Begun(c) \o Command) \o <<"data">>
    BY <2>2 DEF Script
  <2>6. said'[c] = Begun(c) \o Command /\ inbox'[c] = Command
    <3> DEFINE h == Begun(c)
               n == Command
               r == <<"data">>
    <3>1. h \in Text /\ n \in Text /\ r \in Text /\ Len(h) \in {0, 2, 4, 6}
          /\ (Len(n) = 2 \/ (Len(n) = 1 /\ Len(r) = 0))
      BY <2>2, Messages
    <3>2. Script(c) = (h \o n) \o r /\ Ready(c, h, n) /\ Allowed(c) = Len(h) + Len(n)
      BY <2>1, <2>3, <2>4 DEF AtRequest
    <3> HIDE DEF h, n, r
    <3>3. said'[c] = h \o n /\ inbox'[c] = n
      <4>1. Due(c, h, n, r)
        BY <3>1, <3>2 DEF Due
      <4> QED
        BY <3>1, <4>1, SayNext
    <3> QED
      BY <3>3 DEF h, n, r
  <2>7. AtRequest(c)'
    BY <1>k, <1>b, <2>1, <2>6 DEF AtRequest, Ready
  <2> QED
    BY <1>3, <1>u, <2>7 DEF Progress
<1>4. CASE state[c] = "open" /\ mpc = "dial"
  <2>1. AtDial(c)
    BY <1>0, <1>4 DEF Progress
  <2>2. /\ ~Answered(c, "succeeded")
        /\ Len(Begun(c)) + 2 = 2 * (Len(replies[c]) - 0 + 1)
        /\ Begun(c) \in Text /\ Len(Begun(c)) \in {2, 4}
    BY <2>1, ChosenMeans DEF AtDial
  <2>3. Len(replies[c]) \in Nat /\ Len(said[c]) = Len(Begun(c)) + 2
    <3>1. Len(Begun(c) \o Command) = Len(Begun(c)) + Len(Command)
      BY <2>2, Messages, Cat DEF Text
    <3> QED
      BY <1>t, <2>1, <3>1, Messages DEF AtDial
  <2>4. Allowed(c) = Len(said[c])
    BY <2>2, <2>3 DEF Allowed, Conforming
  <2>5. PacketEnds(c) = {}
    BY <2>2, <2>3, <2>4 DEF PacketEnds
  <2> QED
    BY <2>5 DEF Say
<1>5. CASE state[c] = "relayed"
  <2>1. AtRelay(c)
    BY <1>0, <1>5 DEF Progress
  <2>2. /\ Answered(c, "succeeded") /\ Handshake(c) = Begun(c) \o Command
        /\ Begun(c) \in Text /\ Len(Begun(c)) \in {2, 4}
    BY <2>1, ChosenMeans DEF AtRelay
  <2>3. Begun(c) \o Command \in Text /\ Len(Begun(c) \o Command) = Len(Begun(c)) + 2
    <3>1. Begun(c) \in Seq(Parts) /\ Command \in Seq(Parts) /\ Len(Command) = 2
      BY <2>2, Messages DEF Text
    <3>2. Begun(c) \o Command \in Seq(Parts) /\ Len(Begun(c) \o Command) = Len(Begun(c)) + Len(Command)
      BY <3>1, Cat
    <3> QED
      BY <3>1, <3>2 DEF Text
  <2>4. Script(c) = ((Begun(c) \o Command) \o <<"data">>) \o <<>>
    <3>1. (Begun(c) \o Command) \o <<"data">> \in Text
      BY <2>3, <1>d DEF Text
    <3>2. ((Begun(c) \o Command) \o <<"data">>) \o <<>> = (Begun(c) \o Command) \o <<"data">>
      BY <3>1, ConcatEmptySeq DEF Text
    <3> QED
      BY <2>2, <3>2 DEF Script
  <2>5. Allowed(c) = Len(Begun(c) \o Command) + Len(<<"data">>)
    <3>1. Len((Begun(c) \o Command) \o <<"data">>) = Len(Begun(c) \o Command) + Len(<<"data">>)
      BY <2>3, <1>d DEF Text
    <3> QED
      BY <2>2, <3>1 DEF Allowed, Script
  <2>6. said'[c] = (Begun(c) \o Command) \o <<"data">> /\ inbox'[c] = <<"data">>
    <3> DEFINE h == Begun(c) \o Command
               n == <<"data">>
               r == <<>>
    <3>1. h \in Text /\ n \in Text /\ r \in Text /\ Len(h) \in {0, 2, 4, 6}
          /\ (Len(n) = 2 \/ (Len(n) = 1 /\ Len(r) = 0))
      <4>1. Len(Begun(c) \o Command) \in {4, 6}
        <5>1. \A x \in {2, 4} : x + 2 \in {4, 6}
          OBVIOUS
        <5> QED
          BY <2>2, <2>3, <5>1
      <4> QED
        BY <2>3, <4>1, <1>d
    <3>2. Script(c) = (h \o n) \o r /\ Ready(c, h, n) /\ Allowed(c) = Len(h) + Len(n)
      BY <2>1, <2>3, <2>4, <2>5 DEF AtRelay
    <3> HIDE DEF h, n, r
    <3>3. said'[c] = h \o n /\ inbox'[c] = n
      <4>1. Due(c, h, n, r)
        BY <3>1, <3>2 DEF Due
      <4> QED
        BY <3>1, <4>1, SayNext
    <3> QED
      BY <3>3 DEF h, n, r
  <2>7. AtRelay(c)'
    BY <1>k, <1>b, <1>u, <2>1, <2>6 DEF AtRelay, Ready, Last
  <2> QED
    BY <1>5, <1>u, <2>7 DEF Progress
<1> QED
  BY <1>0, <1>m, <1>1, <1>2, <1>3, <1>4, <1>5

\* What the main loop's handlers do to the client they are at.
LEMMA StageRefused ==
  ASSUME SocksInv, NEW c \in Clients, c = cur, Handle, Refuse,
         \/ c \in late'
         \/ want[c].cmd # "connect" \/ want[c].atyp = "ipv6"
         \/ \E r \in {"nomethod", "denied", "unreachable"} : Reply(r)
  PROVE  Progress(c)'
<1>1. state' = [state EXCEPT ![c] = "closed"] /\ want' = want
  BY HandleOutcome DEF Refuse, Dropped, Close
<1>2. state'[c] = "closed"
  BY <1>1 DEF SocksInv, SocksTypes, TypeOK
<1>3. ASSUME NEW r \in {"nomethod", "denied", "unreachable"}, Reply(r) PROVE Last(c)' = r
  <2>1. replies[c] \in Seq(Answers) /\ replies \in [Clients -> Seq(Answers)] /\ r \in Answers
    BY DEF SocksInv, SocksTypes, Answers
  <2>2. replies'[c] = Append(replies[c], r)
    BY <1>3, <2>1 DEF Reply
  <2>3. Len(replies'[c]) = Len(replies[c]) + 1 /\ replies'[c][Len(replies[c]) + 1] = r
    BY <2>1, <2>2
  <2> QED
    BY <2>3 DEF Last
<1>4. AtEnd(c)'
  BY <1>1, <1>3 DEF AtEnd
<1> QED
  BY <1>2, <1>4 DEF Progress

LEMMA Appended ==
  ASSUME SocksInv, NEW c \in Clients, c = cur, NEW r \in Answers, Reply(r)
  PROVE  /\ Len(replies[c]) \in Nat /\ Len(replies'[c]) = Len(replies[c]) + 1
         /\ replies'[c][Len(replies[c]) + 1] = r
         /\ \A i \in 1 .. Len(replies[c]) : replies'[c][i] = replies[c][i]
<1>1. replies[c] \in Seq(Answers) /\ replies \in [Clients -> Seq(Answers)]
  BY DEF SocksInv, SocksTypes
<1>2. replies'[c] = Append(replies[c], r)
  BY <1>1 DEF Reply
<1> QED
  BY <1>1, <1>2

LEMMA StageGreet ==
  ASSUME SocksInv, StageInv, NEW c \in Clients, c = cur, Conforming(c), HandshakeHandler
  PROVE  Progress(c)'
<1> USE DEF client, main
<1>1. mpc = "greet" /\ state[c] = "open" /\ AtGreeting(c) /\ Handle
  BY CurOpen DEF HandshakeHandler, Read, SocksInv, StageInv, Progress, Handle
<1>2. inbox[c] = Greeting /\ said[c] = <<>> \o Greeting /\ replies[c] = <<>> /\ ~Cut
  BY <1>1, Messages DEF HandshakeHandler, Read, AtGreeting, Ready, Cut
<1>3. PICK m \in Method :
        /\ Reply(m)
        /\ IF m = "nomethod" THEN Refuse
           ELSE /\ mpc' = IF m = "userpwd" THEN "auth" ELSE "request"
                /\ UNCHANGED <<state, cur, dst, armed, conn>>
  BY DEF HandshakeHandler
<1>4. /\ m \in {"nomethod", "noauth", "userpwd"}
      /\ m # "nomethod" => Offers(c, m)
  <2>1. CASE Known = {}
    BY <1>2, <1>3, <2>1 DEF Method
  <2>2. CASE Known # {}
    <3>1. m \in Preferred
      BY <1>2, <1>3, <2>2 DEF Method
    <3>2. PICK i \in Known : m = want[c].methods[i]
      BY <3>1 DEF Preferred
    <3>3. m \in Supported /\ i \in DOMAIN want[c].methods
      BY <3>2 DEF Known
    <3>4. want[c].methods \in Seq({"noauth", "userpwd", "other"})
      <4>1. want[c] \in Request
        BY Socks5Assumption DEF SocksInv, SocksTypes
      <4> QED
        BY <4>1 DEF Request
    <3> QED
      BY <3>2, <3>3, <3>4 DEF Supported, Offers
  <2> QED
    BY <2>1, <2>2
<1>5. CASE m = "nomethod"
  BY <1>1, <1>3, <1>5, StageRefused
<1>6. CASE m # "nomethod"
  <2>1. UNCHANGED <<state, want, said>> /\ inbox'[c] = <<>>
    BY <1>3, <1>6 DEF HandshakeHandler, Read, SocksInv, SocksTypes
  <2>2. Len(replies'[c]) = 1 /\ replies'[c][1] = m
    <3>1. m \in Answers /\ Len(replies[c]) = 0
      BY <1>2, <1>4 DEF Answers
    <3>2. Len(replies'[c]) = Len(replies[c]) + 1 /\ replies'[c][Len(replies[c]) + 1] = m
      BY <1>3, <3>1, Appended
    <3> QED
      BY <3>1, <3>2
  <2>3. said'[c] = Greeting \o <<>>
    <3>1. Greeting \o <<>> = Greeting /\ <<>> \o Greeting = Greeting
      BY Messages, ConcatEmptySeq DEF Text
    <3> QED
      BY <1>2, <2>1, <3>1
  <2>4. Offers(c, m)'
    BY <1>4, <1>6, <2>1 DEF Offers
  <2>5. CASE m = "userpwd"
    <3>1. mpc' = "auth" /\ AtLogin(c)'
      BY <1>3, <2>1, <2>2, <2>3, <2>4, <2>5 DEF AtLogin, Ready
    <3> QED
      BY <1>1, <2>1, <3>1 DEF Progress
  <2>6. CASE m = "noauth"
    <3>1. Chosen(c, 0)' /\ Begun(c)' = Greeting
      BY <2>2, <2>4, <2>6 DEF Chosen, Begun, ByPassword
    <3>2. mpc' = "request" /\ AtRequest(c)'
      BY <1>3, <2>1, <2>3, <2>6, <3>1 DEF AtRequest, Ready
    <3> QED
      BY <1>1, <2>1, <3>2 DEF Progress
  <2> QED
    BY <1>4, <1>6, <2>5, <2>6
<1> QED
  BY <1>5, <1>6

LEMMA StageAuth ==
  ASSUME SocksInv, StageInv, NEW c \in Clients, c = cur, Conforming(c), AuthByUsername
  PROVE  Progress(c)'
<1> USE DEF client, main
<1>1. mpc = "auth" /\ state[c] = "open" /\ AtLogin(c) /\ Handle
  BY CurOpen DEF AuthByUsername, Read, SocksInv, StageInv, Progress, Handle
<1>2. inbox[c] = Login /\ said[c] = Greeting \o Login /\ IsLogin
  BY <1>1, Messages, FirstWords DEF AuthByUsername, Read, AtLogin, Ready, Cut, IsLogin, First
<1>3. CASE ~Granted
  BY <1>1, <1>2, <1>3, StageRefused DEF AuthByUsername
<1>4. CASE Granted
  <2>1. UNCHANGED <<state, want, said>> /\ inbox'[c] = <<>> /\ mpc' = "request" /\ Reply("granted")
    BY <1>2, <1>4 DEF AuthByUsername, Read, SocksInv, SocksTypes
  <2>2. Len(replies'[c]) = 2 /\ replies'[c][2] = "granted" /\ replies'[c][1] = "userpwd"
    <3>1. "granted" \in Answers /\ Len(replies[c]) = 1 /\ replies[c][1] = "userpwd"
      BY <1>1 DEF Answers, AtLogin
    <3>2. /\ Len(replies'[c]) = Len(replies[c]) + 1
          /\ replies'[c][Len(replies[c]) + 1] = "granted"
          /\ \A i \in 1 .. Len(replies[c]) : replies'[c][i] = replies[c][i]
      BY <2>1, <3>1, Appended
    <3> QED
      BY <3>1, <3>2
  <2>3. Chosen(c, 0)' /\ Begun(c)' = Greeting \o Login
    BY <1>1, <1>4, <2>1, <2>2 DEF Chosen, Begun, ByPassword, AtLogin, Offers, Granted
  <2>4. (Greeting \o Login) \o <<>> = Greeting \o Login
    <3>1. Greeting \o Login \in Text
      BY Messages, Cat DEF Text
    <3> QED
      BY <3>1, ConcatEmptySeq DEF Text
  <2>5. AtRequest(c)'
    BY <1>2, <2>1, <2>3, <2>4 DEF AtRequest, Ready
  <2> QED
    BY <1>1, <2>1, <2>5 DEF Progress
<1> QED
  BY <1>3, <1>4

LEMMA StageRequest ==
  ASSUME SocksInv, StageInv, NEW c \in Clients, c = cur, Conforming(c), GetConnectInfo
  PROVE  Progress(c)'
<1> USE DEF client, main
<1>1. mpc = "request" /\ state[c] = "open" /\ AtRequest(c) /\ Handle
  BY CurOpen DEF GetConnectInfo, Read, SocksInv, StageInv, Progress, Handle
<1>2. inbox[c] = Command /\ said[c] = Begun(c) \o Command /\ First = "head" /\ ~Cut
  <2>1. inbox[c] = Command /\ said[c] = Begun(c) \o Command
    BY <1>1 DEF GetConnectInfo, Read, AtRequest, Ready
  <2> QED
    BY <2>1, Messages, FirstWords DEF Cut, First
<1>3. want[c].cmd \in {"connect", "bind"}
  <2>1. want[c] \in Request
    BY Socks5Assumption DEF SocksInv, SocksTypes
  <2> QED
    BY <2>1 DEF Request
<1>4. CASE want[c].cmd = "bind" \/ want[c].atyp = "ipv6"
  <2>1. Targets = {"none"}
    BY <1>2, <1>4 DEF Targets
  <2>2. Refuse
    BY <2>1 DEF GetConnectInfo
  <2> QED
    BY <1>1, <1>4, <2>2, StageRefused
<1>5. CASE ~(want[c].cmd = "bind" \/ want[c].atyp = "ipv6")
  <2>1. Targets = {"wanted"}
    BY <1>2, <1>5 DEF Targets
  <2>2. dst' = "wanted" /\ mpc' = "dial" /\ UNCHANGED <<state, want, said, replies>> /\ inbox'[c] = <<>>
    BY <2>1 DEF GetConnectInfo, Read, SocksInv, SocksTypes
  <2>3. Chosen(c, 0)' /\ Begun(c)' = Begun(c)
    BY <1>1, <2>2 DEF Chosen, Begun, ByPassword, AtRequest, Offers
  <2>4. AtDial(c)'
    BY <1>2, <1>3, <1>5, <2>2, <2>3 DEF AtDial
  <2> QED
    BY <1>1, <2>2, <2>4 DEF Progress
<1> QED
  BY <1>4, <1>5

LEMMA StageAccept ==
  ASSUME SocksInv, StageInv, NEW c \in Clients, c = cur, Conforming(c), DidAccept
  PROVE  Progress(c)'
<1> USE DEF client, main
<1>1. mpc = "dial" /\ state[c] = "open" /\ AtDial(c)
  BY CurOpen DEF DidAccept, SocksInv, StageInv, Progress
<1>2. UNCHANGED <<want, said, inbox>> /\ state'[c] = "relayed" /\ conn'[c] = "wanted" /\ Reply("succeeded")
  BY <1>1 DEF DidAccept, SocksInv, SocksTypes, TypeOK, AtDial
<1>3. /\ Len(replies[c]) \in Nat /\ Len(replies'[c]) = Len(replies[c]) + 1
      /\ replies'[c][Len(replies[c]) + 1] = "succeeded"
      /\ \A i \in 1 .. Len(replies[c]) : replies'[c][i] = replies[c][i]
  <2>1. "succeeded" \in Answers
    BY DEF Answers
  <2> QED
    BY <1>2, <2>1, Appended
<1>4. Last(c)' = "succeeded"
  BY <1>3 DEF Last
<1>5. Chosen(c, 1)' /\ (ByPassword(c)' <=> ByPassword(c))
  <2>1. Chosen(c, 0)
    BY <1>1 DEF AtDial
  <2>2. CASE Len(replies[c]) = 1 /\ replies[c][1] = "noauth" /\ Offers(c, "noauth")
    BY <1>2, <1>3, <2>2 DEF Chosen, ByPassword, Offers
  <2>3. CASE /\ Len(replies[c]) = 2 /\ replies[c][1] = "userpwd" /\ replies[c][2] = "granted"
             /\ Offers(c, "userpwd") /\ want[c].valid
    BY <1>2, <1>3, <2>3 DEF Chosen, ByPassword, Offers
  <2> QED
    BY <2>1, <2>2, <2>3 DEF Chosen
<1>6. (Begun(c) \o Command) \o <<>> = Begun(c) \o Command
  <2>1. Begun(c) \in Text
    BY <1>1, ChosenMeans DEF AtDial
  <2>2. Begun(c) \o Command \in Text
    BY <2>1, Messages, Cat DEF Text
  <2> QED
    BY <2>2, ConcatEmptySeq DEF Text
<1>7. AtRelay(c)'
  BY <1>1, <1>2, <1>4, <1>5, <1>6 DEF AtRelay, AtDial, Ready, Begun
<1> QED
  BY <1>2, <1>7 DEF Progress

LEMMA StageHandle ==
  ASSUME SocksInv, StageInv, Handle, NEW c \in Clients, Conforming(c)
  PROVE  Progress(c)'
<1>1. CASE c # cur
  <2>1. state[c] # "open" /\ Progress(c)
    BY <1>1, CurOpen DEF SocksInv, StageInv
  <2>2. /\ state'[c] = state[c] /\ said'[c] = said[c] /\ inbox'[c] = inbox[c]
        /\ conn'[c] = conn[c] /\ want'[c] = want[c] /\ late \subseteq late'
    BY <1>1, HandleOutcome DEF SocksInv, SocksTypes, TypeOK
  <2>3. replies'[c] = replies[c]
    BY <1>1, HandleOutcome DEF Reply, SocksInv, SocksTypes
  <2> QED
    BY <2>1, <2>2, <2>3, StageKept
<1>2. CASE c = cur
  <2>1. CASE ReadNothing
    BY <1>2, <2>1, StageRefused DEF ReadNothing
  <2>2. CASE DialFail
    BY <1>2, <2>2, StageRefused DEF DialFail, FailReply
  <2> QED
    BY <1>2, <2>1, <2>2, StageGreet, StageAuth, StageRequest, StageAccept DEF Handle
<1> QED
  BY <1>1, <1>2

LEMMA StagesStep ==
  ASSUME SocksInv, StageInv, [Next]_vars
  PROVE  StageInv'
<1> USE DEF client, main, events
<1> SUFFICES ASSUME NEW c \in Clients, Conforming(c) PROVE Progress(c)'
  <2>1. UNCHANGED style
    BY HandleOutcome DEF Next, MainStep, vars, Arrive, Say, DestinationTalks, Accept, Enqueue, ConnectionBreaks
  <2> QED
    BY <2>1 DEF StageInv, Conforming
<1>0. Progress(c)
  BY DEF StageInv
<1>t. /\ state \in [Clients -> {"absent", "waiting", "open", "relayed", "closed"}]
      /\ said = [d \in Clients |-> said[d]] /\ inbox = [d \in Clients |-> inbox[d]]
  BY DEF SocksInv, SocksTypes, TypeOK
<1>1. CASE Handle
  BY <1>1, StageHandle
<1>2. CASE Say(c)
  BY <1>2, StageSay
<1>3. ASSUME NEW d \in Clients, d # c, Say(d) PROVE Progress(c)'
  BY <1>0, <1>3, <1>t, StageKept DEF Say
<1>4. ASSUME NEW d \in Clients, Arrive(d) PROVE Progress(c)'
  <2>1. CASE d # c
    BY <1>0, <1>4, <1>t, <2>1, StageKept DEF Arrive
  <2>2. CASE d = c
    <3>1. AtGreeting(c) /\ state'[c] = "waiting" /\ UNCHANGED <<replies, said, inbox>>
      BY <1>0, <1>4, <1>t, <2>2 DEF Arrive, Progress
    <3> QED
      BY <3>1 DEF Progress, AtGreeting, Ready
  <2> QED
    BY <2>1, <2>2
<1>5. ASSUME NEW d \in Clients, Accept(d) PROVE Progress(c)'
  <2>1. CASE d # c
    <3>1. state[c] # "open"
      BY <1>5, CurOpen DEF Accept, SocksInv
    <3> QED
      BY <1>0, <1>5, <1>t, <2>1, <3>1, StageKept DEF Accept, Close
  <2>2. CASE d = c
    <3>1. AtGreeting(c) /\ UNCHANGED <<replies, said, inbox>>
          /\ (state'[c] = "closed" \/ (state'[c] = "open" /\ mpc' = "greet"))
      BY <1>0, <1>5, <1>t, <2>2 DEF Accept, Progress, Close
    <3>2. AtGreeting(c)' /\ AtEnd(c)'
      BY <3>1 DEF AtGreeting, AtEnd, Ready
    <3> QED
      BY <3>1, <3>2 DEF Progress
  <2> QED
    BY <2>1, <2>2
<1>6. ASSUME NEW s \in Socket, Enqueue(s) PROVE Progress(c)'
  BY <1>0, <1>6, StageKept DEF Enqueue
<1>7. ASSUME NEW s \in Socket, ConnectionBreaks(s) PROVE Progress(c)'
  <2>1. CASE s[1] # c
    BY <1>0, <1>7, <1>t, <2>1, StageKept DEF ConnectionBreaks, Close
  <2>2. CASE s[1] = c
    <3>1. state[c] = "relayed"
      BY <1>7, <2>2 DEF ConnectionBreaks, SocksInv, QueueInv
    <3>2. Last(c) = "succeeded" /\ UNCHANGED replies /\ state'[c] = "closed"
      BY <1>0, <1>7, <1>t, <2>2, <3>1 DEF ConnectionBreaks, Close, Progress, AtRelay
    <3> QED
      BY <3>2 DEF Progress, AtEnd, Last
  <2> QED
    BY <2>1, <2>2
<1>8. ASSUME NEW d \in Clients, DestinationTalks(d) PROVE Progress(c)'
  BY <1>0, <1>8, StageKept DEF DestinationTalks
<1>9. CASE UNCHANGED vars
  BY <1>0, <1>9, StageKept DEF vars
<1> QED
  BY <1>1, <1>2, <1>3, <1>4, <1>5, <1>6, <1>7, <1>8, <1>9 DEF Next, MainStep

LEMMA StagesAlways == Spec => []StageInv
BY SocksAlways, StagesFirst, StagesStep, PTL DEF Spec

-----------------------------------------------------------------------------
(***************************************************************************)
(* The theorems.                                                           *)
(***************************************************************************)
\* For any number of clients, of requests and of ways to cut them into
\* packets, the main loop has an open client exactly while it is in a
\* handshake with it: no path of accept_new_incoming forgets one.
THEOREM Socks5Types == Spec => []TypeOK
<1>1. SocksInv => TypeOK
  BY DEF SocksInv, SocksTypes
<1> QED
  BY <1>1, SocksAlways, PTL

\* event_pool, which nobody drains here, holds each socket at most once.
THEOREM QueueBounded == Spec => []QueuedOnce
<1>1. SocksInv => QueuedOnce
  BY DEF SocksInv, QueueInv
<1> QED
  BY <1>1, SocksAlways, PTL

LEMMA ServedFollows ==
  ASSUME SocksInv, StageInv
  PROVE  ServedAsAsked
<1> SUFFICES ASSUME NEW c \in Clients, Relayed(c), Conforming(c)
             PROVE  /\ conn[c] = "wanted" /\ want[c].cmd = "connect"
                    /\ Offers(c, Head(replies[c]))
                    /\ Answered(c, "userpwd") => want[c].valid
                    /\ said[c] = Handshake(c) \o inbox[c]
  BY DEF ServedAsAsked, Offers
<1>1. AtRelay(c)
  BY DEF StageInv, Progress, Relayed
<1>2. Handshake(c) = Begun(c) \o Command /\ (Answered(c, "userpwd") <=> ByPassword(c))
  BY <1>1, ChosenMeans DEF AtRelay
<1>3. Head(replies[c]) = replies[c][1]
  BY <1>1 DEF AtRelay, Chosen, SocksInv, SocksTypes
<1>4. Offers(c, Head(replies[c])) /\ (ByPassword(c) => want[c].valid)
  BY <1>1, <1>3 DEF AtRelay, Chosen, ByPassword
<1> QED
  BY <1>1, <1>2, <1>4 DEF AtRelay, Ready

\* A client that keeps to the protocol is relayed only to what it asked for,
\* by a method it offered and a password that is listed, and its handshake is
\* read to the last byte and no further.
THEOREM AlwaysServedAsAsked == Spec => []ServedAsAsked
BY SocksAlways, StagesAlways, ServedFollows, PTL

LEMMA ToldFollows ==
  ASSUME StageInv
  PROVE  ToldWhy
BY DEF StageInv, Progress, AtEnd, Last, ToldWhy

\* Such a client is never dropped in silence once it has had an answer, unless
\* it was slow or asked for what the service does not support.
THEOREM AlwaysToldWhy == Spec => []ToldWhy
BY StagesAlways, ToldFollows, PTL
=============================================================================
