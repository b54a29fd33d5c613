------------------------------- MODULE Socks5 -------------------------------
(***************************************************************************)
(* The SOCKS5 service towards its clients: td_service_socks5's             *)
(* accept_new_incoming with the handshake of socketlite.cpp, and what      *)
(* becomes of the sockets it registers.                                    *)
(*                                                                         *)
(* A client's messages are cut into the PARTS at which a packet may end.   *)
(* read_data returns all parts that have arrived; each handler reads once, *)
(* takes the first message it expects from the front and forgets the rest. *)
(* Bytes behind the data are zero: read_data resizes the buffer twice.     *)
(***************************************************************************)
EXTENDS Naturals, Sequences, FiniteSets

CONSTANTS
  Clients,
  Requests,  \* what a client may want: records as in Request
  Styles,    \* how it talks: "whole", "split", "eager"
  None

Request == [methods : Seq({"noauth", "userpwd", "other"}), valid : BOOLEAN,
            cmd : {"connect", "bind"}, atyp : {"ipv4", "dname", "ipv6"}]

ASSUME Socks5Assumption ==
  /\ Requests \subseteq Request
  /\ Styles \subseteq {"whole", "split", "eager"}
  /\ None \notin Clients

VARIABLES
  want, style,   \* each client's request and manner, fixed
  state,         \* "absent", "waiting", "open", "relayed", "closed"
  said,          \* the parts the client has sent
  inbox,         \* those nobody has read
  replies,       \* what the service has answered
  late,          \* the client let a read time out, or hung up
  conn,          \* the address its tunnel leads to
  mpc, cur, dst, \* the main loop: where it is, for whom, _addr
  armed, pool,   \* epoll's one-shot interest, event_pool
  hasData        \* sockets with something to read

client == <<want, style, said>>
main == <<mpc, cur, dst>>
events == <<armed, pool, hasData>>
vars == <<client, state, inbox, replies, late, conn, main, events>>

\* A client's socket and that of its destination.
Socket == Clients \X {"request", "tunnel"}

Init ==
  /\ want \in [Clients -> Requests] /\ style \in [Clients -> Styles]
  /\ state = [c \in Clients |-> "absent"]
  /\ said = [c \in Clients |-> <<>>] /\ inbox = [c \in Clients |-> <<>>]
  /\ replies = [c \in Clients |-> <<>>] /\ late = {}
  /\ conn = [c \in Clients |-> "none"]
  /\ mpc = "idle" /\ cur = None /\ dst = "none"
  /\ armed = {} /\ pool = <<>> /\ hasData = {}

-----------------------------------------------------------------------------
(* The clients.  An eager one takes noauth for granted and waits for no    *)
(* reply; the others send a message when the last has been answered.       *)

Greeting == <<"ver nmethods", "methods">>
Login == <<"user", "password">>
Command == <<"head", "address">>

Answered(c, r) == \E i \in 1 .. Len(replies[c]) : replies[c][i] = r
Wordy(c) == style[c] # "eager" /\ Answered(c, "userpwd")
Handshake(c) == Greeting \o (IF Wordy(c) THEN Login ELSE <<>>) \o Command
Script(c) == Handshake(c) \o <<"data">>

\* How far its own protocol lets the client go, and where a packet may end.
Allowed(c) ==
  IF style[c] = "eager" \/ Answered(c, "succeeded") THEN Len(Script(c))
  ELSE 2 * (Len(replies[c]) + 1)
PacketEnds(c) ==
  {n \in Len(said[c]) + 1 .. Allowed(c) :
     style[c] = "split" \/ n % 2 = 0 \/ n = Len(Script(c))}

Arrive(c) ==
  /\ state[c] = "absent"
  /\ state' = [state EXCEPT ![c] = "waiting"]
  /\ UNCHANGED <<client, inbox, replies, late, conn, main, events>>

Say(c) ==
  /\ state[c] \in {"waiting", "open", "relayed"} /\ c \notin late
  /\ \E n \in PacketEnds(c) :
       LET new == SubSeq(Script(c), Len(said[c]) + 1, n) IN
         /\ said' = [said EXCEPT ![c] = @ \o new]
         /\ inbox' = [inbox EXCEPT ![c] = @ \o new]
  /\ hasData' = hasData \cup {<<c, "request">>}
  /\ UNCHANGED <<want, style, state, replies, late, conn, main, armed, pool>>

DestinationTalks(c) ==
  /\ state[c] = "relayed" /\ <<c, "tunnel">> \notin hasData
  /\ hasData' = hasData \cup {<<c, "tunnel">>}
  /\ UNCHANGED <<client, state, inbox, replies, late, conn, main, armed, pool>>

-----------------------------------------------------------------------------
(* accept_new_incoming.                                                    *)

Close(c) == state' = [state EXCEPT ![c] = "closed"]
Done == mpc' = "idle" /\ cur' = None /\ dst' = "none"
Reply(r) == replies' = [replies EXCEPT ![cur] = Append(@, r)]

\* A slip of an error path: it returns without closing the client.
Dropped_NotClosed == state' = state
Dropped == Close(cur)

Refuse ==
  /\ Dropped /\ Done
  /\ UNCHANGED <<armed, conn>>

Accept(c) ==
  /\ mpc = "idle" /\ state[c] = "waiting"
  /\ \/ /\ Close(c)                                  \* the source filter
        /\ UNCHANGED main
     \/ /\ state' = [state EXCEPT ![c] = "open"]
        /\ mpc' = "greet" /\ cur' = c /\ UNCHANGED dst
  /\ UNCHANGED <<client, inbox, replies, late, conn, events>>

\* read_data: everything that has arrived, which is forgotten but for the
\* first message.
Read(step) ==
  /\ mpc = step
  /\ inbox[cur] # <<>>
  /\ inbox' = [inbox EXCEPT ![cur] = <<>>]
  /\ hasData' = hasData \ {<<cur, "request">>}
  /\ UNCHANGED <<client, late, pool>>

First == Head(inbox[cur])
Cut == Len(inbox[cur]) = 1       \* the second half of the message is missing

\* A slip of the select(): a timeout is taken for data.
Silent_TimeoutIgnored == FALSE
Silent == inbox[cur] = <<>>

\* No data within the second read_data waits, or the client hung up.
ReadNothing ==
  /\ mpc \in {"greet", "auth", "request"}
  /\ Silent
  /\ late' = late \cup {cur}
  /\ Refuse
  /\ UNCHANGED <<client, inbox, replies, pool, hasData>>

\* The first of the client's methods that is supported; both are, whatever
\* "noauth" says in the configuration.  Missing method bytes read as noauth, a
\* missing count of them as none at all.
Supported == {"noauth", "userpwd"}
Known == {i \in DOMAIN want[cur].methods : want[cur].methods[i] \in Supported}
Preferred == {want[cur].methods[i] : i \in {i \in Known : \A j \in Known : i <= j}}

\* A slip of handshake_handler: the response starts out with method 0.
Method_DefaultZero == IF Known = {} THEN {"noauth"} ELSE Preferred
Method ==
  IF Cut THEN {"noauth", "nomethod"}
  ELSE IF Known = {} THEN {"nomethod"} ELSE Preferred

HandshakeHandler ==
  /\ Read("greet")
  /\ \E m \in Method :
       /\ Reply(m)
       /\ IF m = "nomethod" THEN Refuse
          ELSE /\ mpc' = IF m = "userpwd" THEN "auth" ELSE "request"
               /\ UNCHANGED <<state, cur, dst, armed, conn>>

\* Only a whole login gets an answer; anything else closes in silence.
IsLogin == First = "user" /\ ~Cut

Granted == want[cur].valid

AuthByUsername ==
  /\ Read("auth")
  /\ \/ /\ IsLogin /\ Granted
        /\ Reply("granted")
        /\ mpc' = "request"
        /\ UNCHANGED <<state, cur, dst, armed, conn>>
     \/ /\ IsLogin /\ ~Granted
        /\ Reply("denied")
        /\ Refuse
     \/ /\ ~IsLogin
        /\ Refuse
        /\ UNCHANGED replies

\* Where the request read as connect_request leads: the address, zero bytes
\* in place of it, or what other bytes happen to mean.  The rest of a split
\* greeting is a connect if its second method, none of the supported ones, is
\* the code of that.  An unsupported request is refused without a reply.
Targets ==
  CASE First = "methods" /\ 2 \notin DOMAIN want[cur].methods \ Known -> {"none"}
    [] First # "head" -> {"none", "garbage"}
    [] want[cur].cmd = "bind" \/ want[cur].atyp = "ipv6" -> {"none"}
    [] Cut -> {"none", "zero"}
    [] OTHER -> {"wanted"}

GetConnectInfo ==
  /\ Read("request")
  /\ \E t \in Targets :
       IF t = "none" THEN Refuse
       ELSE /\ dst' = t /\ mpc' = "dial"
            /\ UNCHANGED <<state, cur, armed, conn>>
  /\ UNCHANGED replies

\* A slip of accept_new_incoming: the failure is not told to the client.
FailReply_Silent == replies' = replies
FailReply == Reply("unreachable")

\* Proxies and connect() (module Connect), then the last reply.
DialFail ==
  /\ mpc = "dial"
  /\ FailReply
  /\ Refuse
  /\ UNCHANGED <<client, inbox, late, pool, hasData>>

DidAccept ==
  /\ mpc = "dial"
  /\ Reply("succeeded")
  /\ conn' = [conn EXCEPT ![cur] = dst]
  /\ state' = [state EXCEPT ![cur] = "relayed"]
  /\ armed' = armed \cup {<<cur, "request">>, <<cur, "tunnel">>}
  /\ Done
  /\ UNCHANGED <<client, inbox, late, pool, hasData>>

-----------------------------------------------------------------------------
(* Registered sockets: the main loop queues what epoll reports, once.      *)

\* A slip of monitor_socket: a reported socket stays armed.
Disarm_NotOneShot(s) == armed
Disarm(s) == armed \ {s}

Enqueue(s) ==
  /\ mpc = "idle"
  /\ s \in armed \cap hasData
  /\ armed' = Disarm(s)
  /\ pool' = Append(pool, s)
  /\ UNCHANGED <<client, state, inbox, replies, late, conn, main, hasData>>

\* A broken connection is only seen while its socket is armed.
ConnectionBreaks(s) ==
  /\ mpc = "idle"
  /\ s \in armed
  /\ Close(s[1])
  /\ armed' = armed \ ({s[1]} \X {"request", "tunnel"})
  /\ UNCHANGED <<client, inbox, replies, late, conn, main, pool, hasData>>

Handle ==
  \/ HandshakeHandler \/ AuthByUsername \/ GetConnectInfo \/ ReadNothing
  \/ DialFail \/ DidAccept

MainStep ==
  \/ Handle
  \/ \E c \in Clients : Accept(c)
  \/ \E s \in Socket : Enqueue(s)

Next ==
  \/ MainStep
  \/ \E c \in Clients : Arrive(c) \/ Say(c) \/ DestinationTalks(c)
  \/ \E s \in Socket : ConnectionBreaks(s)

Spec == Init /\ [][Next]_vars

\* The main loop runs, and reads of clients time out; clients owe nothing, and
\* a dial need not end: a proxy is waited for without a timeout.
FairSpec ==
  /\ Spec
  /\ WF_vars(Handle /\ mpc # "dial")
  /\ \A c \in Clients : SF_vars(Accept(c))

-----------------------------------------------------------------------------
(* Properties.                                                             *)

\* Every variable keeps its type, and the main loop holds an open client
\* exactly while it is in a handshake.
TypeOK ==
  /\ state \in [Clients -> {"absent", "waiting", "open", "relayed", "closed"}]
  /\ mpc \in {"idle", "greet", "auth", "request", "dial"}
  /\ cur \in Clients \cup {None} /\ dst \in {"none", "wanted", "zero", "garbage"}
  /\ mpc = "dial" <=> dst # "none"
  /\ {c \in Clients : state[c] = "open"} = {cur} \ {None}
  /\ armed \subseteq Socket /\ hasData \subseteq Socket /\ late \subseteq Clients
  /\ pool \in Seq(Socket)

Relayed(c) == state[c] = "relayed"
Conforming(c) == style[c] = "whole"

\* A client that sends each message in one packet and waits for each answer is
\* relayed only to the address it asked for, with a method it offered and, if
\* that is userpwd, a password the configuration lists; the handshake has read
\* its messages to the last byte and none of its data.
ServedAsAsked ==
  \A c \in Clients : Relayed(c) /\ Conforming(c) =>
    /\ conn[c] = "wanted"
    /\ want[c].cmd = "connect"
    /\ \E i \in 1 .. Len(want[c].methods) : want[c].methods[i] = Head(replies[c])
    /\ Answered(c, "userpwd") => want[c].valid
    /\ said[c] = Handshake(c) \o inbox[c]

\* Such a client is never dropped without a word: unless it was slow, filtered
\* out, relayed before, or asked for something get_connect_info does not
\* support, the last thing it hears is why.
ToldWhy ==
  \A c \in Clients :
    (state[c] = "closed" /\ Conforming(c) /\ c \notin late
       /\ replies[c] # <<>> /\ want[c].cmd = "connect"
       /\ want[c].atyp # "ipv6")
    => replies[c][Len(replies[c])]
         \in {"nomethod", "denied", "unreachable", "succeeded"}

\* Nobody drains the queue, but it cannot grow with the traffic: the one-shot
\* registration lets every socket into it at most once.
QueuedOnce ==
  \A i, j \in 1 .. Len(pool) : pool[i] = pool[j] => i = j

\* However its clients stall, the one main loop comes to everyone who waits; only
\* a dial that never ends keeps it from them.
EveryoneServed ==
  \A c \in Clients :
    state[c] = "waiting" ~> (state[c] \in {"relayed", "closed"} \/ [](mpc = "dial"))
=============================================================================
