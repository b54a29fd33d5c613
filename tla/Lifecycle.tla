----------------------------- MODULE Lifecycle -----------------------------
(***************************************************************************)
(* The process from main() to its return: arguments and configuration, the *)
(* fork, the log thread, the services in the order of their names, the     *)
(* backdoors bound to them, the signal that ends it, and the order in      *)
(* which threads are stopped and objects destroyed.                        *)
(*                                                                         *)
(* One worker stands for the pool of a service; a connection costs one     *)
(* descriptor here, and what the service does with it is in Tunnel.        *)
(***************************************************************************)
EXTENDS Naturals, Sequences, FiniteSets

CONSTANTS
  Configs,     \* configuration files: records as in Config
  MaxTries,    \* start_service's attempts to listen, 60
  MaxFd,       \* descriptors for listeners, connections and the log file
  MaxLines,    \* bound: lines in the log's queue, more are not counted
  MaxSignals   \* bound: signals sent

Service == [kind : {"relay", "socks5", "backdoor", "none", "unknown", "broken"},
            listens : Nat]
Config == [args : {"run", "help", "bad"}, parses : BOOLEAN,
           services : BOOLEAN, daemon : BOOLEAN,
           log : {"file", "nofile", "other"},  \* a path; one fopen refuses; none
           list : Seq(Service)]

ASSUME LifecycleAssumption ==
  /\ Configs \subseteq Config
  /\ MaxTries \in Nat \ {0} /\ MaxFd \in Nat
  /\ MaxLines \in Nat \ {0} /\ MaxSignals \in Nat

VARIABLES
  config,            \* the configuration, fixed
  mpc, i, tries,     \* main(), its service and attempt
  code,              \* what main() returns
  obj, cfg,          \* each service: "none", "live", "dying", "dead"; config_
  listed, bound,     \* g_service_list, whose order is that of the names;
                     \* redirects <<listened, backdoor>>
  doors, doorsDead,  \* g_backdoor_map, and whether it has been destroyed
  status, wpc, work, \* a pool's service_status_, its worker, its queue
  conns,             \* connections of a service
  lpc, flag,         \* the main loop thread; its entry in __g_threadinfo
  gmutex, handler, signals,  \* __g_mutex, signal handlers set, signals sent
  logstatus, logpc, lines,   \* the log thread and its queue
  lateCalls, lateMap \* history: a dead backdoor called, a dead map changed

process == <<config, mpc, i, tries, code>>
objects == <<obj, cfg, listed, bound, doors, doorsDead>>
pools == <<status, wpc, work, conns>>
loop == <<lpc, flag>>
signal == <<gmutex, handler, signals>>
logger == <<logstatus, logpc, lines>>
history == <<lateCalls, lateMap>>
vars == <<process, objects, pools, loop, signal, logger, history>>

N == Len(config.list)
Names == 1 .. N
AllNames == UNION {1 .. Len(c.list) : c \in Configs}
Kind(n) == config.list[n].kind
Up == mpc \notin {"exit", "killed"}

Init ==
  /\ config \in Configs
  /\ mpc = "arguments" /\ i = 1 /\ tries = 0 /\ code = 0
  /\ obj = [n \in Names |-> "none"] /\ cfg = [n \in Names |-> FALSE]
  /\ listed = {} /\ bound = {} /\ doors = {} /\ doorsDead = FALSE
  /\ status = [n \in Names |-> FALSE] /\ wpc = [n \in Names |-> "none"]
  /\ work = [n \in Names |-> 0] /\ conns = [n \in Names |-> 0]
  /\ lpc = "none" /\ flag = "none"
  /\ gmutex = "free" /\ handler = FALSE /\ signals = 0
  /\ logstatus = TRUE /\ logpc = "none" /\ lines = 0
  /\ lateCalls = {} /\ lateMap = FALSE

InList(n) == n \in listed
Listeners == {n \in Names : InList(n) /\ obj[n] # "dead"}
Connections == UNION {{n} \X (1 .. conns[n]) : n \in Names}
Descriptors == Cardinality(Listeners) + Cardinality(Connections)
FdLeft == Descriptors + (IF logpc = "open" THEN 1 ELSE 0) < MaxFd

Log(k) == lines' = IF lines + k > MaxLines THEN MaxLines ELSE lines + k
Say == Log(1) /\ UNCHANGED <<logstatus, logpc>>
Quiet == UNCHANGED logger

Goto(l) == mpc' = l /\ UNCHANGED <<config, i, tries, code>>
Return(c) == mpc' = "exit" /\ code' = c /\ UNCHANGED <<config, i, tries>>

-----------------------------------------------------------------------------
(* main() up to the services.                                              *)

Arguments ==
  /\ mpc = "arguments"
  /\ CASE config.args = "help" -> Return(0)
       [] config.args = "bad"  -> Return(1)
       [] OTHER -> Goto("load")
  /\ UNCHANGED <<objects, pools, loop, signal, logger, history>>

\* The configuration; then the fork, whose parent returns 0 and is gone.
Load ==
  /\ mpc = "load"
  /\ IF ~config.parses \/ ~config.services THEN Return(1)
     ELSE IF ~config.daemon THEN Goto("log")
     ELSE \/ Goto("log")
          \/ Return(1)         \* fork fails
          \/ Return(3)         \* setsid fails
  /\ UNCHANGED <<objects, pools, loop, signal, logger, history>>

LogStart ==
  /\ mpc = "log"
  /\ Goto("create")
  /\ logstatus' = TRUE /\ logpc' = "check" /\ UNCHANGED lines
  /\ UNCHANGED <<objects, pools, loop, signal, history>>

-----------------------------------------------------------------------------
(* The services.                                                           *)

IsTunnel(n) == Kind(n) \in {"relay", "socks5"}

\* An entry without a type, or of an unknown one, makes main() return; what
\* has been made by then is left to the destructors of static objects.
CreateRefused ==
  /\ mpc = "create" /\ i <= N /\ Kind(i) \in {"none", "unknown"}
  /\ code' = IF Kind(i) = "none" THEN 2 ELSE 3
  /\ mpc' = "statics" /\ UNCHANGED <<config, i, tries>>
  /\ Say
  /\ UNCHANGED <<objects, pools, loop, signal, history>>

\* A constructor that throws: nobody catches it.
CreateThrows ==
  /\ mpc = "create" /\ i <= N /\ Kind(i) = "broken"
  /\ mpc' = "killed" /\ UNCHANGED <<config, i, tries, code>>
  /\ UNCHANGED <<objects, pools, loop, signal, logger, history>>

\* The constructor.  Only relays (TCPRELAY, REDIRECT) start workers: SOCKS5
\* asks for USE_THREAD_POOL, which nothing defines.
Create ==
  /\ mpc = "create" /\ i <= N /\ Kind(i) \in {"relay", "socks5", "backdoor"}
  /\ obj' = [obj EXCEPT ![i] = "live"] /\ cfg' = [cfg EXCEPT ![i] = TRUE]
  /\ doors' = IF Kind(i) = "backdoor" THEN doors \cup {i} ELSE doors
  /\ IF Kind(i) = "relay"
       THEN /\ status' = [status EXCEPT ![i] = TRUE]
            /\ wpc' = [wpc EXCEPT ![i] = "hello"]
       ELSE UNCHANGED <<status, wpc>>
  /\ mpc' = "listen" /\ tries' = 0 /\ UNCHANGED <<config, i, code>>
  /\ UNCHANGED <<listed, bound, doorsDead, work, conns, loop, signal, logger,
                 history>>

\* sl_tcpsocket::listen: socket() needs a number; bind and listen may fail for
\* reasons of their own.  What they fail with is closed.
CanListen == FdLeft

\* start_service and register_new_service: the service goes into the list, or,
\* after the last attempt, is destroyed with the shared_ptr that held it.
Listen ==
  /\ mpc = "listen"
  /\ \/ /\ CanListen
        /\ listed' = listed \cup {i}
        /\ i' = i + 1 /\ mpc' = "create" /\ UNCHANGED tries
     \/ /\ tries + 1 < MaxTries
        /\ tries' = tries + 1 /\ UNCHANGED <<mpc, i, listed>>
     \/ /\ tries + 1 = MaxTries
        /\ mpc' = "delete" /\ UNCHANGED <<i, tries, listed>>
  /\ Say
  /\ UNCHANGED <<config, code, obj, cfg, bound, doors, doorsDead, pools, loop,
                 signal, history>>

\* bind_backdoor_services; then the locked mutex, and the handlers that
\* unlock it.
Bind ==
  /\ mpc = "create" /\ i > N
  /\ bound' = {l \in Names \X doors : config.list[l[2]].listens = l[1] /\ InList(l[1])}
  /\ Goto("lock")
  /\ UNCHANGED <<obj, cfg, listed, doors, doorsDead, pools, loop, signal, logger,
                 history>>

Lock ==
  /\ mpc = "lock" /\ gmutex' = "locked"
  /\ Goto("handler")
  /\ UNCHANGED <<objects, pools, loop, handler, signals, logger, history>>

SetHandler ==
  /\ mpc = "handler" /\ handler' = TRUE
  /\ lpc' = "start" /\ UNCHANGED flag
  /\ Goto("wait")
  /\ UNCHANGED <<objects, pools, gmutex, signals, logger, history>>

\* wait_for_exit_signal, and the line about it.
Wait ==
  /\ mpc = "wait" /\ gmutex = "free"
  /\ Goto("flag")
  /\ Say
  /\ UNCHANGED <<objects, pools, loop, signal, history>>

\* A signal kills the process until it is handled; then it unlocks the mutex,
\* whoever holds it.
Kill ==
  /\ Up /\ ~handler /\ signals < MaxSignals
  /\ signals' = signals + 1
  /\ mpc' = "killed" /\ UNCHANGED <<config, i, tries, code>>
  /\ UNCHANGED <<objects, pools, loop, gmutex, handler, logger, history>>

Signal ==
  /\ Up /\ handler /\ signals < MaxSignals
  /\ signals' = signals + 1 /\ gmutex' = "free"
  /\ UNCHANGED <<process, objects, pools, loop, handler, logger, history>>

-----------------------------------------------------------------------------
(* Stopping.                                                               *)

\* join_all_threads: only a thread that has registered is told.
JoinAll ==
  /\ mpc = "flag"
  /\ flag' = IF flag = "run" THEN "stop" ELSE flag
  /\ Goto("join loop")
  /\ UNCHANGED <<objects, pools, lpc, signal, logger, history>>

\* A slip of main(): the services are stopped while the main loop runs.
LoopJoined_Detached == TRUE
LoopJoined == lpc = "ended"

\* The first of the list; a slip of it: the last.
Victim_Last(n) == \A m \in listed : n >= m
Victim(n) == \A m \in listed : n <= m

\* g_backdoor_map has been made before g_service_list.
MapFirst == \E n \in Names : /\ Kind(n) = "backdoor" /\ obj[n] # "none"
                             /\ \A m \in listed : n <= m

\* stop_all_services, or the static list's destructor: services are destroyed
\* from the front of the list.  A static map that was made after the list goes
\* before it.
Clear ==
  /\ \/ mpc = "join loop" /\ LoopJoined
     \/ mpc = "statics"
     \/ mpc = "next"
  /\ doorsDead' = (doorsDead \/ (mpc = "statics" /\ doors # {} /\ listed # {}
                                 /\ ~MapFirst))
  /\ IF listed # {}
       THEN /\ \E n \in listed : Victim(n) /\ i' = n
            /\ mpc' = "delete"
            /\ UNCHANGED <<config, tries, code>>
       ELSE Goto(IF code # 0 THEN "exit" ELSE "stop log")
  /\ UNCHANGED <<obj, cfg, listed, bound, doors, pools, loop, signal, logger,
                 history>>

\* A slip of ~td_service_backdoor: it stays in g_backdoor_map.
Unregistered_Forgotten == doors
Unregistered == doors \ {i}

Told == [status EXCEPT ![i] = FALSE]

\* The derived destructor deletes config_ ...
Delete ==
  /\ mpc = "delete"
  /\ obj' = [obj EXCEPT ![i] = "dying"] /\ cfg' = [cfg EXCEPT ![i] = FALSE]
  /\ IF Kind(i) = "backdoor"
       THEN /\ doors' = Unregistered
            /\ lateMap' = (lateMap \/ doorsDead)
       ELSE UNCHANGED <<doors, lateMap>>
  /\ status' = Told
  /\ Goto("join pool")
  /\ UNCHANGED <<listed, bound, doorsDead, wpc, work, conns, loop, signal, logger,
                 lateCalls>>

PoolJoined == wpc[i] \in {"none", "ended"}

\* ... the next one joins the workers, the last closes what is open.
Destroy ==
  /\ mpc = "join pool" /\ PoolJoined
  /\ obj' = [obj EXCEPT ![i] = "dead"]
  /\ conns' = [conns EXCEPT ![i] = 0]
  /\ listed' = listed \ {i}
  /\ IF InList(i)
       THEN Goto("next")
       ELSE mpc' = "create" /\ i' = i + 1 /\ UNCHANGED <<config, tries, code>>
  /\ UNCHANGED <<cfg, bound, doors, doorsDead, status, wpc, work, loop, signal,
                 logger, history>>

LogStop ==
  /\ mpc = "stop log"
  /\ logstatus' = FALSE /\ UNCHANGED <<logpc, lines>>
  /\ Goto("join log")
  /\ UNCHANGED <<objects, pools, loop, signal, history>>

\* The last line goes into a queue that nobody reads.
End ==
  /\ mpc = "join log" /\ logpc = "ended"
  /\ Return(0)
  /\ Say
  /\ UNCHANGED <<objects, pools, loop, signal, history>>

Main ==
  \/ Arguments \/ Load \/ LogStart \/ CreateRefused \/ CreateThrows \/ Create \/ Listen
  \/ Bind \/ Lock \/ SetHandler \/ Wait \/ JoinAll \/ Clear \/ Delete \/ Destroy
  \/ LogStop \/ End

-----------------------------------------------------------------------------
(* The main loop thread.                                                   *)

LoopTo(l) == lpc' = l /\ UNCHANGED flag

LoopRegister ==
  /\ lpc = "start" /\ lpc' = "check" /\ flag' = "run"
  /\ UNCHANGED <<pools>>

LoopCheck ==
  /\ lpc = "check"
  /\ LoopTo(IF flag = "run" THEN "serve" ELSE "ended")
  /\ UNCHANGED <<pools>>

\* A client of some service, data for a relay, or no event in time.
LoopServe ==
  /\ lpc = "serve"
  /\ LoopTo("check")
  /\ \/ \E n \in Names : /\ InList(n) /\ FdLeft
                         /\ conns' = [conns EXCEPT ![n] = @ + 1]
                         /\ UNCHANGED <<status, wpc, work>>
     \/ \E n \in Names : /\ InList(n) /\ conns[n] > 0 /\ work[n] = 0
                         /\ Kind(n) = "relay"
                         /\ work' = [work EXCEPT ![n] = 1]
                         /\ UNCHANGED <<status, wpc, conns>>
     \/ UNCHANGED pools

Loop ==
  /\ Up
  /\ LoopRegister \/ LoopCheck \/ LoopServe
  /\ UNCHANGED <<process, objects, signal, logger, history>>

-----------------------------------------------------------------------------
(* A pool's worker.                                                        *)

WorkerTo(n, l) == wpc' = [wpc EXCEPT ![n] = l]

\* Its first and last lines name the service: they read config_.
WorkerSays(n) ==
  /\ \/ wpc[n] = "hello" /\ WorkerTo(n, "check")
     \/ wpc[n] = "bye" /\ WorkerTo(n, "ended")
  /\ Say
  /\ UNCHANGED <<status, work, conns, history>>

WorkerCheck(n) ==
  /\ wpc[n] = "check"
  /\ WorkerTo(n, IF status[n] THEN "wait" ELSE "bye")
  /\ Quiet /\ UNCHANGED <<status, work, conns, history>>

WorkerWait(n) ==
  /\ wpc[n] = "wait"
  /\ WorkerTo(n, IF work[n] > 0 THEN "read" ELSE "check")
  /\ work' = [work EXCEPT ![n] = 0]
  /\ Quiet /\ UNCHANGED <<status, conns, history>>

\* The data also go to the backdoors bound to the service, alive or not.
WorkerRead(n) ==
  /\ wpc[n] = "read"
  /\ WorkerTo(n, "send")
  /\ lateCalls' = lateCalls \cup {l \in bound : l[1] = n /\ obj[l[2]] = "dead"}
  /\ Quiet /\ UNCHANGED <<status, work, conns, lateMap>>

\* The send ends when the peer reads, if ever, and the connection may end with it.
WorkerSend(n) ==
  /\ wpc[n] = "send"
  /\ WorkerTo(n, "check")
  /\ \E k \in {conns[n], conns[n] - 1} : k >= 0 /\ conns' = [conns EXCEPT ![n] = k]
  /\ Quiet /\ UNCHANGED <<status, work, history>>

Worker(n) ==
  /\ Up /\ n \in Names
  /\ \/ WorkerSays(n) \/ WorkerCheck(n) \/ WorkerWait(n) \/ WorkerRead(n)
     \/ WorkerSend(n)
  /\ UNCHANGED <<process, objects, loop, signal>>

-----------------------------------------------------------------------------
(* The log thread: it looks at its flag first, so lines may be left.       *)

LogTo(l) == logpc' = l /\ UNCHANGED <<logstatus, lines>>

LogCheck ==
  /\ logpc = "check"
  /\ LogTo(IF logstatus THEN "wait" ELSE "ended")

LogWait ==
  /\ logpc = "wait"
  /\ IF lines = 0 THEN LogTo("check")
     ELSE /\ logpc' = "write" /\ lines' = lines - 1 /\ UNCHANGED logstatus

\* A file is opened for each line, again and again: until a number is free, and
\* for ever when it is the path that fopen refuses.
LogWrite ==
  \/ /\ logpc = "write"
     /\ \/ config.log = "file" /\ FdLeft /\ LogTo("open")
        \/ config.log = "other" /\ LogTo("check")
  \/ logpc = "open" /\ LogTo("check")

LogThread ==
  /\ Up
  /\ LogCheck \/ LogWait \/ LogWrite
  /\ UNCHANGED <<process, objects, pools, loop, signal, history>>

-----------------------------------------------------------------------------
Next ==
  \/ Main \/ Kill \/ Signal \/ Loop \/ LogThread
  \/ \E n \in Names : Worker(n)

Spec == Init /\ [][Next]_vars

\* Threads run.  A blocked send need not end, nor need anybody send a signal.
FairSpec ==
  /\ Spec
  /\ WF_vars(Main) /\ WF_vars(Loop) /\ WF_vars(LogThread)
  /\ \A n \in AllNames : WF_vars(Worker(n) /\ wpc[n] # "send")

-----------------------------------------------------------------------------
(* Properties.                                                             *)

\* Every variable keeps its type; config_ lives as long as its service, and
\* the list holds live services, but for the one being destroyed.
TypeOK ==
  /\ i \in 1 .. N + 1 /\ tries \in 0 .. MaxTries /\ code \in 0 .. 3
  /\ obj \in [Names -> {"none", "live", "dying", "dead"}]
  /\ \A n \in Names : cfg[n] <=> obj[n] = "live"
  /\ \A n \in Names : InList(n) => obj[n] = "live" \/ (obj[n] = "dying" /\ n = i)
  /\ doors \subseteq {n \in Names : Kind(n) = "backdoor" /\ obj[n] = "live"}
  /\ lines \in 0 .. MaxLines /\ Descriptors <= MaxFd
  /\ wpc \in [Names -> {"none", "hello", "check", "wait", "read", "send", "bye",
                        "ended"}]

\* Nobody outlives what it uses: the main loop has ended before any service it
\* may call is destroyed, and a service is gone only after its workers are, so
\* that a worker finds config_ deleted only while main() waits for it.
NoneOutlives ==
  \A n \in Names :
    /\ obj[n] = "dying" => lpc \in {"none", "ended"}
    /\ obj[n] = "dead" => wpc[n] \in {"none", "ended"}
    /\ wpc[n] \in {"hello", "read", "bye"} /\ ~cfg[n] =>
         mpc \in {"join pool", "killed"} /\ i = n

\* While the program runs, copies go only from and to services that started.
BoundAlive ==
  mpc \in {"lock", "handler", "wait", "flag", "join loop"} =>
    \A l \in bound : obj[l[1]] = "live" /\ obj[l[2]] = "live"

\* At the end a worker calls a dead backdoor only if its name comes before the
\* one of the service it listens to; and only a configuration main() refuses
\* destroys a backdoor after the map it is in.
OrderlyEnd ==
  /\ \A l \in lateCalls : l[2] < l[1]
  /\ lateMap => code # 0

\* What main() joins and nothing ends: a worker in a send whose peer does not
\* read; a log thread whose file cannot be opened; a main loop that registered
\* after join_all_threads had told everybody to stop.
StuckSend == mpc = "join pool" /\ wpc[i] = "send"
StuckLog == mpc = "join log" /\ logpc = "write" /\ config.log = "nofile"
StuckLoop == mpc = "join loop" /\ flag = "run"

=============================================================================
