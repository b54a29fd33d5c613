-------------------------- MODULE LifecycleProofs --------------------------
(***************************************************************************)
(* Theorems about Lifecycle.                                               *)
(*                                                                         *)
(* NoneOutlives is not inductive: that no service dies while the main loop *)
(* runs depends on where main() is, and on main() destroying a service     *)
(* that is not in the list only before the thread has been started.        *)
(***************************************************************************)
EXTENDS Lifecycle, TLAPS, FiniteSetTheorems

WorkerPC == {"none", "hello", "check", "wait", "read", "send", "bye", "ended"}

ShapeInv ==
  /\ config \in Config /\ i \in Nat \ {0}
  /\ obj \in [Names -> {"none", "live", "dying", "dead"}]
  /\ cfg \in [Names -> BOOLEAN] /\ wpc \in [Names -> WorkerPC]
  /\ listed \subseteq Names

\* Where main() is, and whether the main loop may be running there.
BeforeLoop == {"arguments", "load", "log", "create", "listen", "lock", "handler"}
AfterLoop == {"statics", "next", "stop log", "join log", "exit"}

MainInv ==
  /\ mpc \in {"listen", "delete", "join pool"} => i \in Names
  /\ mpc \in BeforeLoop => lpc = "none"
  /\ mpc \in AfterLoop => lpc \in {"none", "ended"}
  /\ mpc \in {"delete", "join pool"} =>
       lpc = "none" \/ (lpc = "ended" /\ InList(i))
  /\ mpc = "join pool" => obj[i] = "dying"

ServiceInv ==
  \A n \in Names :
    /\ cfg[n] <=> obj[n] = "live"
    /\ obj[n] = "none" => wpc[n] = "none"
    /\ obj[n] = "dying" => /\ lpc \in {"none", "ended"}
                           /\ mpc \in {"join pool", "killed"} /\ i = n
    /\ obj[n] = "dead" => wpc[n] \in {"none", "ended"}

LifeInv == ShapeInv /\ MainInv /\ ServiceInv

LEMMA NamesNat ==
  ASSUME config \in Config
  PROVE  /\ N \in Nat
         /\ \A n : n \in Names <=> n \in Nat \ {0} /\ n <= N
  BY DEF Config, N, Names

LEMMA LifeInvInit == Init => LifeInv
<1> SUFFICES ASSUME Init PROVE LifeInv
  OBVIOUS
<1>1. ShapeInv
  BY LifecycleAssumption DEF Init, ShapeInv, WorkerPC
<1>2. MainInv
  BY DEF Init, MainInv, BeforeLoop, AfterLoop
<1>3. ServiceInv
  BY DEF Init, ServiceInv
<1> QED
  BY <1>1, <1>2, <1>3 DEF LifeInv

\* A step that leaves the services, the list and the workers alone, and either
\* main() and the main loop too, or moves main() on before its loop.
LEMMA LifeInvQuiet ==
  ASSUME LifeInv, UNCHANGED <<config, i, obj, cfg, listed, wpc, lpc>>,
         mpc' \notin {"listen", "delete", "join pool"},
         mpc' \in BeforeLoop => mpc \in BeforeLoop,
         mpc' \in AfterLoop => mpc \in BeforeLoop \cup AfterLoop,
         mpc \in {"join pool", "killed"} => mpc' = "killed"
  PROVE  LifeInv'
<1>1. ShapeInv'
  BY DEF LifeInv, ShapeInv, Names, N
<1>2. MainInv'
  BY DEF LifeInv, MainInv, InList, Names, N, BeforeLoop, AfterLoop
<1>3. ServiceInv'
  BY DEF LifeInv, ServiceInv, Names, N
<1> QED
  BY <1>1, <1>2, <1>3 DEF LifeInv

\* main(), before and after it starts and ends services.
LEMMA LifeInvMain ==
  ASSUME LifeInv,
         Arguments \/ Load \/ LogStart \/ CreateRefused \/ CreateThrows \/ Bind
         \/ Lock \/ Wait \/ JoinAll \/ LogStop \/ End \/ Kill
  PROVE  LifeInv'
<1>1. CASE Arguments
  BY <1>1, LifeInvQuiet DEF Arguments, Return, Goto, objects, pools, loop, BeforeLoop,
     AfterLoop
<1>2. CASE Load
  BY <1>2, LifeInvQuiet DEF Load, Return, Goto, objects, pools, loop, BeforeLoop,
     AfterLoop
<1>3. CASE LogStart
  BY <1>3, LifeInvQuiet DEF LogStart, Goto, objects, pools, loop, BeforeLoop, AfterLoop
<1>4. CASE CreateRefused \/ CreateThrows
  BY <1>4, LifeInvQuiet DEF CreateRefused, CreateThrows, objects, pools, loop,
     BeforeLoop, AfterLoop
<1>5. CASE Bind
  BY <1>5, LifeInvQuiet DEF Bind, Goto, pools, loop, BeforeLoop, AfterLoop
<1>6. CASE Lock
  BY <1>6, LifeInvQuiet DEF Lock, Goto, objects, pools, loop, BeforeLoop, AfterLoop
<1>7. CASE Wait
  BY <1>7, LifeInvQuiet DEF Wait, Goto, objects, pools, loop, BeforeLoop, AfterLoop
<1>8. CASE JoinAll
  BY <1>8, LifeInvQuiet DEF JoinAll, Goto, objects, pools, BeforeLoop, AfterLoop
<1>9. CASE LogStop \/ End
  BY <1>9, LifeInvQuiet DEF LogStop, End, Return, Goto, objects, pools, loop,
     BeforeLoop, AfterLoop
<1>10. CASE Kill
  BY <1>10, LifeInvQuiet DEF Kill, objects, pools, loop, BeforeLoop, AfterLoop
<1> QED
  BY <1>1, <1>2, <1>3, <1>4, <1>5, <1>6, <1>7, <1>8, <1>9, <1>10

\* A service is made.
LEMMA LifeInvCreate == ASSUME LifeInv, Create PROVE LifeInv'
<1> USE DEF Create, Kind, pools, loop
<1>1. i \in Names
  BY NamesNat DEF LifeInv, ShapeInv
<1>2. ShapeInv'
  BY <1>1 DEF LifeInv, ShapeInv, Names, N, WorkerPC
<1>3. MainInv'
  BY <1>1 DEF LifeInv, MainInv, ShapeInv, Names, N, BeforeLoop, AfterLoop
<1>4. ServiceInv'
  <2> SUFFICES ASSUME NEW n \in Names
               PROVE  /\ cfg'[n] <=> obj'[n] = "live"
                      /\ obj'[n] = "none" => wpc'[n] = "none"
                      /\ obj'[n] # "dying"
                      /\ obj'[n] = "dead" => wpc'[n] \in {"none", "ended"}
    BY DEF ServiceInv, Names, N
  <2>1. CASE n = i
    BY <1>1, <2>1 DEF LifeInv, ShapeInv
  <2>2. CASE n # i
    BY <2>2 DEF LifeInv, ShapeInv, ServiceInv
  <2> QED
    BY <2>1, <2>2
<1> QED
  BY <1>2, <1>3, <1>4 DEF LifeInv

\* A service listens, or has failed to for the last time.
LEMMA LifeInvListen == ASSUME LifeInv, Listen PROVE LifeInv'
<1> USE DEF Listen, pools, loop
<1>0. /\ i \in Names /\ UNCHANGED <<config, obj, cfg, wpc>>
      /\ i' \in Nat \ {0} /\ listed' \subseteq Names
  BY DEF LifeInv, MainInv, ShapeInv
<1>1. ShapeInv'
  BY <1>0 DEF LifeInv, ShapeInv, Names, N
<1>2. MainInv'
  BY DEF LifeInv, MainInv, ShapeInv, Names, N, BeforeLoop, AfterLoop
<1>3. ServiceInv'
  BY DEF LifeInv, ServiceInv, Names, N
<1> QED
  BY <1>1, <1>2, <1>3 DEF LifeInv

\* The main loop is started when no service is being destroyed.
LEMMA LifeInvStart == ASSUME LifeInv, SetHandler PROVE LifeInv'
<1> USE DEF SetHandler, Goto, objects, pools
<1>1. ShapeInv'
  BY DEF LifeInv, ShapeInv, Names, N
<1>2. MainInv'
  BY DEF LifeInv, MainInv, BeforeLoop, AfterLoop
<1>3. ServiceInv'
  BY DEF LifeInv, ServiceInv, Names, N
<1> QED
  BY <1>1, <1>2, <1>3 DEF LifeInv

\* The next service to be destroyed is in the list, and the main loop is over.
LEMMA LifeInvClear == ASSUME LifeInv, Clear PROVE LifeInv'
<1> USE DEF Clear, pools, loop
<1>1. lpc \in {"none", "ended"}
  BY DEF LifeInv, MainInv, LoopJoined, AfterLoop
<1>2. /\ i' \in Nat \ {0} /\ UNCHANGED config
      /\ mpc' \in {"delete", "exit", "stop log"}
      /\ mpc' = "delete" => i' \in listed
  BY NamesNat DEF LifeInv, ShapeInv, Goto
<1>3. ShapeInv'
  BY <1>2 DEF LifeInv, ShapeInv, Names, N
<1>4. MainInv'
  BY <1>1, <1>2 DEF LifeInv, MainInv, ShapeInv, Names, N, InList, BeforeLoop, AfterLoop
<1>5. ServiceInv'
  BY <1>2 DEF LifeInv, ServiceInv, Names, N
<1> QED
  BY <1>3, <1>4, <1>5 DEF LifeInv

\* The service that is deleted becomes the one that dies.
LEMMA LifeInvDelete == ASSUME LifeInv, Delete PROVE LifeInv'
<1> USE DEF Delete, loop, Goto
<1>1. i \in Names /\ lpc \in {"none", "ended"}
  BY DEF LifeInv, MainInv
<1>2. ShapeInv'
  BY <1>1 DEF LifeInv, ShapeInv, Names, N
<1>3. MainInv'
  BY <1>1 DEF LifeInv, ShapeInv, MainInv, Names, N, InList, BeforeLoop, AfterLoop
<1>4. ServiceInv'
  <2> SUFFICES ASSUME NEW n \in Names
               PROVE  /\ cfg'[n] <=> obj'[n] = "live"
                      /\ obj'[n] = "none" => wpc[n] = "none"
                      /\ obj'[n] = "dying" => i = n
                      /\ obj'[n] = "dead" => wpc[n] \in {"none", "ended"}
    BY <1>1 DEF ServiceInv, Names, N
  <2>1. CASE n = i
    BY <1>1, <2>1 DEF LifeInv, ShapeInv
  <2>2. CASE n # i
    BY <2>2 DEF LifeInv, ShapeInv, ServiceInv
  <2> QED
    BY <2>1, <2>2
<1> QED
  BY <1>2, <1>3, <1>4 DEF LifeInv

\* Its worker has ended when it is gone.
LEMMA LifeInvDestroy == ASSUME LifeInv, Destroy PROVE LifeInv'
<1> USE DEF Destroy, loop, Goto
<1>1. i \in Names /\ obj[i] = "dying" /\ wpc[i] \in {"none", "ended"}
  BY DEF LifeInv, MainInv, PoolJoined
<1>2. /\ UNCHANGED config /\ i' \in Nat \ {0}
      /\ mpc' \in {"next", "create"}
      /\ mpc' = "create" => lpc = "none"
      /\ mpc' = "next" => lpc \in {"none", "ended"}
  <2>1. CASE InList(i)
    BY <2>1 DEF LifeInv, MainInv, ShapeInv
  <2>2. CASE ~InList(i)
    <3>1. mpc' = "create" /\ i' = i + 1 /\ UNCHANGED config
      BY <2>2
    <3>2. i' \in Nat \ {0}
      <4> HIDE DEF Destroy
      <4> QED
        BY <3>1 DEF LifeInv, ShapeInv
    <3>3. lpc = "none"
      BY <2>2 DEF LifeInv, MainInv
    <3> QED
      BY <3>1, <3>2, <3>3
  <2> QED
    BY <2>1, <2>2
<1>3. ShapeInv'
  BY <1>2 DEF LifeInv, ShapeInv, Names, N
<1>4. MainInv'
  BY <1>2 DEF MainInv, BeforeLoop, AfterLoop
<1>5. ServiceInv'
  <2> SUFFICES ASSUME NEW n \in Names
               PROVE  /\ cfg'[n] <=> obj'[n] = "live"
                      /\ obj'[n] = "none" => wpc[n] = "none"
                      /\ obj'[n] # "dying"
                      /\ obj'[n] = "dead" => wpc[n] \in {"none", "ended"}
    BY <1>2 DEF ServiceInv, Names, N
  <2>1. CASE n = i
    BY <1>1, <2>1 DEF LifeInv, ShapeInv, ServiceInv
  <2>2. CASE n # i
    BY <2>2 DEF LifeInv, ShapeInv, ServiceInv
  <2> QED
    BY <2>1, <2>2
<1> QED
  BY <1>3, <1>4, <1>5 DEF LifeInv

\* The main loop runs only where main() lets it.
LEMMA LifeInvLoop == ASSUME LifeInv, Loop PROVE LifeInv'
<1> USE DEF Loop, process, objects
<1>1. /\ lpc \notin {"none", "ended"} /\ UNCHANGED wpc
      /\ lpc' \in {"check", "serve", "ended"}
  BY DEF LoopRegister, LoopCheck, LoopServe, LoopTo, pools
<1>2. ShapeInv'
  BY <1>1 DEF LifeInv, ShapeInv, Names, N
<1>3. MainInv'
  BY <1>1 DEF LifeInv, MainInv, BeforeLoop, AfterLoop
<1>4. ServiceInv'
  BY <1>1 DEF LifeInv, ServiceInv, Names, N
<1> QED
  BY <1>2, <1>3, <1>4 DEF LifeInv

\* A worker steps only between its first line and its last.
LEMMA LifeInvWorker == ASSUME LifeInv, NEW n \in Names, Worker(n) PROVE LifeInv'
<1> USE DEF Worker, process, objects, loop
<1>1. /\ wpc[n] \notin {"none", "ended"}
      /\ \E l \in WorkerPC \ {"none"} : wpc' = [wpc EXCEPT ![n] = l]
  BY DEF WorkerSays, WorkerCheck, WorkerWait, WorkerRead, WorkerSend, WorkerTo, WorkerPC
<1>2. ShapeInv'
  BY <1>1 DEF LifeInv, ShapeInv, Names, N
<1>3. MainInv'
  BY DEF LifeInv, MainInv, InList, Names, N, BeforeLoop, AfterLoop
<1>4. ServiceInv'
  BY <1>1 DEF LifeInv, ShapeInv, ServiceInv, Names, N
<1> QED
  BY <1>2, <1>3, <1>4 DEF LifeInv

LEMMA LifeInvNext == LifeInv /\ [Next]_vars => LifeInv'
<1> SUFFICES ASSUME LifeInv, [Next]_vars PROVE LifeInv'
  OBVIOUS
<1>1. CASE Main \/ Kill
  BY <1>1, LifeInvMain, LifeInvCreate, LifeInvListen, LifeInvStart, LifeInvClear,
     LifeInvDelete, LifeInvDestroy DEF Main
<1>2. CASE Signal \/ LogThread \/ UNCHANGED vars
  <2>1. UNCHANGED <<config, i, mpc, obj, cfg, listed, wpc, lpc>>
    BY <1>2 DEF Signal, LogThread, vars, process, objects, pools, loop
  <2>2. ShapeInv'
    BY <2>1 DEF LifeInv, ShapeInv, Names, N
  <2>3. MainInv'
    BY <2>1 DEF LifeInv, MainInv, InList, Names, N, BeforeLoop, AfterLoop
  <2>4. ServiceInv'
    BY <2>1 DEF LifeInv, ServiceInv, Names, N
  <2> QED
    BY <2>2, <2>3, <2>4 DEF LifeInv
<1>3. CASE Loop
  BY <1>3, LifeInvLoop
<1>4. CASE \E n \in Names : Worker(n)
  BY <1>4, LifeInvWorker
<1> QED
  BY <1>1, <1>2, <1>3, <1>4 DEF Next

\* Whatever the configuration, the number of services and the moment of the
\* signal: the main loop has ended before a service it may call is destroyed,
\* and nothing a worker uses goes away but config_, while main() waits for it.
THEOREM NothingOutlives == Spec => []NoneOutlives
<1>1. LifeInv => NoneOutlives
  BY DEF LifeInv, ShapeInv, ServiceInv, NoneOutlives
<1> QED
  BY <1>1, LifeInvInit, LifeInvNext, PTL DEF Spec

-----------------------------------------------------------------------------
(* The copies to backdoors.                                                *)

Bound == {"lock", "handler", "wait", "flag", "join loop"}

LiveInv ==
  /\ \A n \in listed : obj[n] = "live" \/ (obj[n] = "dying" /\ n = i)
  /\ \A b \in doors : b \in Names /\ Kind(b) = "backdoor" /\ obj[b] = "live"
  /\ mpc = "listen" => obj[i] = "live"
  /\ mpc \in Bound => \A l \in bound : obj[l[1]] = "live" /\ obj[l[2]] = "live"

\* A step that leaves the services alone, or moves only in the list of them.
LEMMA LiveInvQuiet ==
  ASSUME LiveInv, UNCHANGED <<config, obj, listed, bound, doors>>,
         i' = i \/ \A n \in listed : obj[n] # "dying",
         mpc' = mpc \/ mpc' # "listen", mpc' = "listen" => i' = i,
         mpc' \in Bound => mpc \in Bound
  PROVE  LiveInv'
BY DEF LiveInv, Kind, Names, N

LEMMA LiveInvMain ==
  ASSUME LiveInv,
         Arguments \/ Load \/ LogStart \/ CreateRefused \/ CreateThrows
         \/ Lock \/ SetHandler \/ Wait \/ JoinAll \/ LogStop \/ End \/ Kill
  PROVE  LiveInv'
<1> USE LiveInvQuiet DEF Goto, Return, objects, Bound
<1>1. CASE Arguments
  BY <1>1 DEF Arguments
<1>2. CASE Load
  BY <1>2 DEF Load
<1>3. CASE LogStart
  BY <1>3 DEF LogStart
<1>4. CASE CreateRefused \/ CreateThrows
  BY <1>4 DEF CreateRefused, CreateThrows
<1>5. CASE Lock \/ SetHandler
  BY <1>5 DEF Lock, SetHandler
<1>6. CASE Wait \/ JoinAll
  BY <1>6 DEF Wait, JoinAll
<1>7. CASE LogStop \/ End
  BY <1>7 DEF LogStop, End
<1>8. CASE Kill
  BY <1>8 DEF Kill
<1> QED
  BY <1>1, <1>2, <1>3, <1>4, <1>5, <1>6, <1>7, <1>8

\* bind_backdoor_services: whatever is in the list or in the map is alive.
LEMMA LiveInvBind == ASSUME LifeInv, LiveInv, Bind PROVE LiveInv'
<1>1. mpc = "create" /\ mpc' = "lock" /\ UNCHANGED <<config, i, obj, listed, doors>>
  BY DEF Bind, Goto
<1>2. \A l \in bound' : l[1] \in listed /\ l[2] \in doors
  BY DEF Bind, InList
<1>3. listed \subseteq Names /\ \A n \in Names : obj[n] # "dying"
  BY <1>1 DEF LifeInv, ShapeInv, ServiceInv
<1>4. \A n \in listed \cup doors : obj[n] = "live"
  BY <1>3 DEF LiveInv
<1> QED
  BY <1>1, <1>2, <1>4 DEF LiveInv, Kind, Names, N

LEMMA LiveInvCreate == ASSUME LifeInv, LiveInv, Create PROVE LiveInv'
<1>1. i \in Names
  BY NamesNat DEF Create, LifeInv, ShapeInv
<1>2. obj' = [obj EXCEPT ![i] = "live"] /\ obj \in [Names -> {"none", "live", "dying", "dead"}]
  BY DEF Create, LifeInv, ShapeInv
<1>3. /\ UNCHANGED <<config, i, listed>> /\ mpc' = "listen" /\ listed \subseteq Names
      /\ doors' \subseteq doors \cup {i} /\ (i \in doors' => i \in doors \/ Kind(i) = "backdoor")
  BY DEF Create, LifeInv, ShapeInv
<1> QED
  BY <1>1, <1>2, <1>3 DEF LiveInv, Bound, Kind, Names, N

LEMMA LiveInvListen == ASSUME LifeInv, LiveInv, Listen PROVE LiveInv'
<1>1. /\ obj[i] = "live" /\ UNCHANGED <<config, obj, doors>>
      /\ mpc' \notin Bound /\ mpc = "listen" /\ (mpc' = "listen" => i' = i)
      /\ listed' \subseteq listed \cup {i}
  BY DEF Listen, LiveInv, Bound
<1>2. listed \subseteq Names /\ \A n \in Names : obj[n] # "dying"
  BY <1>1 DEF LifeInv, ShapeInv, ServiceInv
<1> QED
  BY <1>1, <1>2 DEF LiveInv, Kind, Names, N

\* Nothing in the list is dying when its next service is chosen.
LEMMA LiveInvClear == ASSUME LifeInv, LiveInv, Clear PROVE LiveInv'
<1>1. \A n \in listed : obj[n] # "dying"
  BY DEF Clear, LifeInv, ShapeInv, ServiceInv
<1>2. /\ UNCHANGED <<config, obj, listed, bound, doors>>
      /\ mpc' \notin Bound \cup {"listen"}
  BY DEF Clear, Goto, Bound
<1> QED
  BY <1>1, <1>2, LiveInvQuiet

\* A backdoor leaves the map before it dies.
LEMMA LiveInvDelete == ASSUME LifeInv, LiveInv, Delete PROVE LiveInv'
<1>1. /\ obj' = [obj EXCEPT ![i] = "dying"] /\ mpc = "delete" /\ mpc' = "join pool"
      /\ UNCHANGED <<config, i, listed>> /\ i \in Names /\ listed \subseteq Names
      /\ obj \in [Names -> {"none", "live", "dying", "dead"}]
  BY DEF Delete, Goto, LifeInv, ShapeInv, MainInv
<1>2. doors' \subseteq doors /\ i \notin doors'
  BY DEF Delete, Unregistered, LiveInv
<1> QED
  BY <1>1, <1>2 DEF LiveInv, Bound, Kind, Names, N

LEMMA LiveInvDestroy == ASSUME LifeInv, LiveInv, Destroy PROVE LiveInv'
<1>1. /\ obj' = [obj EXCEPT ![i] = "dead"] /\ obj[i] = "dying"
      /\ mpc' \notin Bound \cup {"listen"} /\ listed' = listed \ {i} /\ UNCHANGED <<config, doors>>
      /\ i \in Names /\ listed \subseteq Names
      /\ obj \in [Names -> {"none", "live", "dying", "dead"}]
  BY DEF Destroy, Goto, LifeInv, ShapeInv, MainInv, Bound
<1>2. i \notin doors
  BY <1>1 DEF LiveInv
<1> QED
  BY <1>1, <1>2 DEF LiveInv, Kind, Names, N

LEMMA LiveInvNext == LifeInv /\ LiveInv /\ [Next]_vars => LiveInv'
<1> SUFFICES ASSUME LifeInv, LiveInv, [Next]_vars PROVE LiveInv'
  OBVIOUS
<1>1. CASE Main \/ Kill
  BY <1>1, LiveInvMain, LiveInvBind, LiveInvCreate, LiveInvListen, LiveInvClear,
     LiveInvDelete, LiveInvDestroy DEF Main
<1>2. CASE Signal \/ Loop \/ LogThread \/ (\E n \in Names : Worker(n)) \/ UNCHANGED vars
  BY <1>2, LiveInvQuiet DEF Signal, Loop, LogThread, Worker, vars, process, objects
<1> QED
  BY <1>1, <1>2 DEF Next

\* Whatever the configuration: as long as the program is not being stopped, data
\* are copied only between services that have started and still exist.
THEOREM CopiesOnlyToLiving == Spec => []BoundAlive
<1>1. Init => LiveInv
  BY DEF Init, LiveInv, Bound
<1>2. LiveInv => BoundAlive
  BY DEF LiveInv, BoundAlive, Bound
<1> QED
  BY <1>1, <1>2, LifeInvInit, LifeInvNext, LiveInvNext, PTL DEF Spec

-----------------------------------------------------------------------------
(* The end: the order of destruction, and what comes too late.             *)

Begin == {"arguments", "load", "log", "create"}
Ending == mpc \in {"delete", "join pool"}
Starting == mpc \in Begin \cup {"listen"} \/ (Ending /\ ~InList(i))

\* A service that was bound is in the list, or gone, and then before all that are
\* still in it.
Passed(n) == n \in listed \/ (obj[n] = "dead" /\ \A m \in listed : n < m)

OrderInv ==
  /\ \A l \in bound : /\ l[1] \in Names /\ l[2] \in Names
                      /\ Passed(l[1]) /\ Passed(l[2])
  /\ Ending /\ InList(i) => \A m \in listed : i <= m
  /\ Starting => /\ bound = {} /\ \A m \in listed : m < i
                 /\ doors \subseteq listed \cup {i}
  /\ mpc \in Begin => doors \subseteq listed
  /\ \A l \in lateCalls : l[2] < l[1]

\* main() returns another code than 0 only before its loop has started.
EndInv ==
  /\ code # 0 => mpc \in {"statics", "delete", "join pool", "next", "exit", "killed"}
  /\ code # 0 /\ Ending => InList(i)
  /\ mpc = "statics" => code # 0
  /\ doorsDead \/ lateMap => code # 0

\* A step that destroys nothing.
LEMMA EndInvQuiet ==
  ASSUME EndInv, UNCHANGED <<doorsDead, lateMap>>,
         mpc' \notin {"statics", "delete", "join pool"},
         code' = code \/ code = 0,
         code' # 0 => mpc' \in {"next", "exit", "killed"}
  PROVE  EndInv'
<1>1. doorsDead' \/ lateMap' => code' # 0
  <2>1. doorsDead' = doorsDead /\ lateMap' = lateMap
    OBVIOUS
  <2>2. doorsDead \/ lateMap => code # 0
    BY DEF EndInv
  <2>3. code # 0 => code' # 0
    OBVIOUS
  <2>4. CASE code = 0
    <3>1. ~doorsDead /\ ~lateMap
      BY <2>2, <2>4
    <3>2. ~doorsDead' /\ ~lateMap'
      BY <3>1
    <3> QED
      BY <3>2
  <2> QED
    BY <2>3, <2>4
<1> QED
  BY <1>1 DEF EndInv, Ending

LEMMA EndInvNext == EndInv /\ [Next]_vars => EndInv'
<1> SUFFICES ASSUME EndInv, [Next]_vars PROVE EndInv'
  OBVIOUS
<1>1. CASE Arguments \/ Load \/ LogStart \/ Bind \/ Lock \/ SetHandler \/ Wait \/ JoinAll
           \/ LogStop \/ End
  <2>1. /\ UNCHANGED <<doorsDead, lateMap>> /\ code = 0
        /\ mpc' \notin {"statics", "delete", "join pool", "next"}
        /\ code' # 0 => mpc' = "exit"
    BY <1>1 DEF Arguments, Load, LogStart, Bind, Lock, SetHandler, Wait, JoinAll, LogStop,
                End, Goto, Return, objects, history, EndInv
  <2> QED
    BY <2>1, EndInvQuiet
<1>2. CASE CreateRefused
  BY <1>2 DEF CreateRefused, objects, history, EndInv, Ending
<1>3. CASE CreateThrows \/ Kill
  BY <1>3, EndInvQuiet DEF CreateThrows, Kill, objects, history
<1>4. CASE Create \/ Listen
  <2>1. UNCHANGED <<doorsDead, lateMap, code>> /\ code = 0 /\ mpc' # "statics"
    BY <1>4 DEF Create, Listen, history, EndInv
  <2>2. ~doorsDead /\ ~lateMap
    BY <2>1 DEF EndInv
  <2> QED
    BY <2>1, <2>2, Zenon DEF EndInv
<1>5. CASE Clear
  <2>1. /\ UNCHANGED <<code, listed, lateMap>>
        /\ mpc \in {"join loop", "statics", "next"} /\ mpc' \in {"delete", "exit", "stop log"}
        /\ mpc' = "delete" => i' \in listed
        /\ mpc' = "stop log" => code = 0
        /\ doorsDead' => doorsDead \/ mpc = "statics"
    BY <1>5 DEF Clear, Goto, history
  <2>2. lateMap' = lateMap
    BY <2>1
  <2>3. doorsDead' \/ lateMap' => code' # 0
    <3>1. doorsDead \/ lateMap \/ mpc = "statics" => code # 0
      BY DEF EndInv
    <3>2. code' = code /\ (doorsDead' => doorsDead \/ mpc = "statics")
      BY <2>1
    <3> QED
      BY <2>2, <3>1, <3>2, Zenon
  <2> QED
    BY <2>1, <2>3 DEF EndInv, Ending, InList
<1>6. CASE Delete
  BY <1>6 DEF Delete, Goto, EndInv, Ending, InList
<1>7. CASE Destroy
  BY <1>7 DEF Destroy, Goto, history, EndInv, Ending, InList
<1>8. CASE Signal \/ Loop \/ LogThread \/ (\E n \in Names : Worker(n)) \/ UNCHANGED vars
  <2>1. UNCHANGED <<mpc, i, code, listed, doorsDead, lateMap>>
    BY <1>8 DEF Signal, Loop, LogThread, Worker, WorkerSays, WorkerCheck, WorkerWait,
                WorkerRead, WorkerSend, vars, process, objects, history
  <2> QED
    BY <2>1 DEF EndInv, Ending, InList
<1> QED
  BY <1>1, <1>2, <1>3, <1>4, <1>5, <1>6, <1>7, <1>8 DEF Next, Main

\* A step that leaves the services and the list alone, and main() where it starts
\* or ends them.
LEMMA OrderInvQuiet ==
  ASSUME OrderInv, UNCHANGED <<config, i, obj, listed, bound, doors, lateCalls>>,
         \/ mpc' = mpc
         \/ mpc' \notin {"listen", "delete", "join pool"} /\ (mpc' \in Begin => mpc \in Begin)
  PROVE  OrderInv'
BY DEF OrderInv, Passed, Starting, Ending, Begin, InList, Names, N

LEMMA OrderInvMain ==
  ASSUME OrderInv,
         Arguments \/ Load \/ LogStart \/ CreateRefused \/ CreateThrows
         \/ Lock \/ SetHandler \/ Wait \/ JoinAll \/ LogStop \/ End \/ Kill
  PROVE  OrderInv'
<1>1. CASE Arguments \/ Load \/ LogStart
  BY <1>1, OrderInvQuiet
  DEF Arguments, Load, LogStart, Return, Goto, objects, history, Begin
<1>2. CASE CreateRefused \/ CreateThrows \/ Lock \/ SetHandler
  BY <1>2, OrderInvQuiet
  DEF CreateRefused, CreateThrows, Lock, SetHandler, Goto, objects, history, Begin
<1>3. CASE Wait \/ JoinAll \/ LogStop \/ End \/ Kill
  BY <1>3, OrderInvQuiet
  DEF Wait, JoinAll, LogStop, End, Kill, Return, Goto, objects, history, Begin
<1> QED
  BY <1>1, <1>2, <1>3

\* Services are made and listed in the order of their names, and bound when all
\* of them have been.
LEMMA OrderInvMake ==
  ASSUME LifeInv, LiveInv, OrderInv, Create \/ Listen \/ Bind
  PROVE  OrderInv'
<1>0. /\ config \in Config /\ i \in Nat /\ Starting /\ bound = {}
      /\ \A m \in listed : m < i
      /\ doors \subseteq listed \cup {i} /\ mpc \in {"create", "listen"}
      /\ mpc = "create" => doors \subseteq listed
      /\ listed \subseteq Names /\ \A m \in Names : m \in Nat
  BY DEF OrderInv, Starting, Begin, Create, Listen, Bind, LifeInv, ShapeInv, Names
<1>1. CASE Create
  <2>1. /\ UNCHANGED <<config, i, listed, bound, lateCalls>> /\ mpc' = "listen"
        /\ doors' \subseteq doors \cup {i}
    BY <1>1 DEF Create, history
  <2> QED
    BY <1>0, <2>1 DEF OrderInv, Starting, Ending, Begin
<1>2. CASE Listen
  <2>1. /\ UNCHANGED <<config, bound, doors, lateCalls>> /\ mpc = "listen" /\ i \notin listed
    BY <1>0, <1>2 DEF Listen, history
  <2>2. CASE i' = i + 1
    <3>1. mpc' = "create" /\ listed' = listed \cup {i}
      BY <1>0, <1>2, <2>2 DEF Listen
    <3>2. \A m \in listed' : m < i'
      BY <1>0, <2>2, <3>1
    <3> QED
      BY <1>0, <2>1, <3>1, <3>2 DEF OrderInv, Starting, Ending, Begin
  <2>3. CASE i' = i
    <3>1. mpc' \in {"listen", "delete"} /\ listed' = listed
      BY <1>0, <1>2, <2>3 DEF Listen
    <3> QED
      BY <1>0, <2>1, <2>3, <3>1 DEF OrderInv, Starting, Ending, Begin, InList
  <2> QED
    BY <1>2, <2>2, <2>3 DEF Listen
<1>3. CASE Bind
  <2>1. /\ UNCHANGED <<config, i, obj, listed, doors, lateCalls>>
        /\ mpc = "create" /\ mpc' = "lock"
        /\ \A l \in bound' : l[1] \in listed /\ l[2] \in doors
    BY <1>3 DEF Bind, Goto, InList, history
  <2>2. \A l \in bound' : l[1] \in listed /\ l[2] \in listed
    BY <1>0, <2>1
  <2> QED
    BY <1>0, <2>1, <2>2 DEF OrderInv, Passed, Starting, Ending, Begin, Names, N
<1> QED
  BY <1>1, <1>2, <1>3

\* They are destroyed in the same order.
LEMMA OrderInvEnd ==
  ASSUME LifeInv, LiveInv, OrderInv, Clear \/ Delete \/ Destroy
  PROVE  OrderInv'
<1>0. /\ config \in Config /\ i \in Nat /\ listed \subseteq Names
      /\ obj \in [Names -> {"none", "live", "dying", "dead"}]
      /\ \A m \in Names : m \in Nat
  BY DEF LifeInv, ShapeInv, Names
<1>1. CASE Clear
  <2>1. /\ UNCHANGED <<config, obj, listed, bound, doors, lateCalls>>
        /\ mpc' \in {"delete", "exit", "stop log"}
        /\ mpc' = "delete" => i' \in listed /\ \A m \in listed : i' <= m
    BY <1>1 DEF Clear, Goto, Victim, history
  <2> QED
    BY <2>1 DEF OrderInv, Passed, Starting, Ending, Begin, InList, Names, N
<1>2. CASE Delete
  <2>1. /\ UNCHANGED <<config, i, listed, bound, lateCalls>>
        /\ mpc = "delete" /\ mpc' = "join pool" /\ doors' \subseteq doors
        /\ i \in Names /\ obj' = [obj EXCEPT ![i] = "dying"]
    BY <1>2 DEF Delete, Goto, Unregistered, LifeInv, MainInv
  <2>2. ASSUME NEW n \in Names, Passed(n), bound # {}
        PROVE  n \in listed' \/ (obj'[n] = "dead" /\ \A m \in listed' : n < m)
    <3>1. i \in listed
      BY <2>1, <2>2 DEF OrderInv, Starting, Ending, InList
    <3> QED
      BY <1>0, <2>1, <2>2, <3>1 DEF Passed
  <2> QED
    BY <1>0, <2>1, <2>2 DEF OrderInv, Passed, Starting, Ending, Begin, InList, Names, N
<1>3. CASE Destroy
  <2>1. /\ UNCHANGED <<config, bound, doors, lateCalls>> /\ mpc = "join pool"
        /\ listed' = listed \ {i} /\ obj' = [obj EXCEPT ![i] = "dead"] /\ i \in Names
        /\ i \notin doors
    BY <1>3 DEF Destroy, Goto, LifeInv, MainInv, LiveInv, history
  <2>2. CASE InList(i)
    <3>1. mpc' = "next" /\ \A m \in listed : i <= m
      BY <1>3, <2>1, <2>2 DEF Destroy, Goto, OrderInv, Ending
    <3>2. ASSUME NEW m \in listed' PROVE i < m
      <4>1. m \in listed /\ m # i /\ m \in Nat
        BY <1>0, <2>1
      <4>2. i <= m
        BY <3>1, <4>1
      <4> QED
        BY <1>0, <4>1, <4>2
    <3>3. ASSUME NEW n \in Names, Passed(n)
          PROVE n \in listed' \/ (obj'[n] = "dead" /\ \A m \in listed' : n < m)
      <4>1. CASE n = i
        BY <1>0, <2>1, <3>2, <4>1
      <4>2. CASE n # i
        BY <1>0, <2>1, <3>3, <4>2 DEF Passed
      <4> QED
        BY <4>1, <4>2
    <3> QED
      BY <2>1, <3>1, <3>3 DEF OrderInv, Passed, Starting, Ending, Begin, Names, N
  <2>3. CASE ~InList(i)
    <3>1. /\ mpc' = "create" /\ i' = i + 1 /\ bound = {} /\ listed' = listed
          /\ doors \subseteq listed \cup {i} /\ \A m \in listed : m < i
      BY <1>3, <2>1, <2>3 DEF Destroy, OrderInv, Starting, Ending, InList
    <3>2. doors \subseteq listed
      BY <2>1, <3>1
    <3>3. ASSUME NEW m \in listed PROVE m < i'
      <4>1. m \in Nat /\ m < i
        BY <1>0, <3>1
      <4> QED
        BY <1>0, <3>1, <4>1
    <3> QED
      BY <2>1, <3>1, <3>2, <3>3 DEF OrderInv, Starting, Ending, Begin
  <2> QED
    BY <2>2, <2>3
<1> QED
  BY <1>1, <1>2, <1>3

\* A worker that still copies has a service that is still there.
LEMMA OrderInvWorker ==
  ASSUME LifeInv, LiveInv, OrderInv, NEW n \in Names, Worker(n)
  PROVE  OrderInv'
<1>1. UNCHANGED <<config, i, mpc, obj, listed, bound, doors>>
  BY DEF Worker, process, objects
<1>2. CASE WorkerRead(n)
  <2>1. /\ wpc[n] = "read"
        /\ \A l \in lateCalls' : l \in lateCalls \/ (l \in bound /\ l[1] = n /\ obj[l[2]] = "dead")
    BY <1>2 DEF WorkerRead
  <2>2. obj[n] # "dead"
    BY <2>1 DEF LifeInv, ServiceInv
  <2>3. ASSUME NEW l \in bound, l[1] = n, obj[l[2]] = "dead" PROVE l[2] < l[1]
    <3>1. Passed(n) /\ Passed(l[2])
      BY <2>3 DEF OrderInv
    <3>2. n \in listed /\ l[2] \notin listed
      BY <2>2, <2>3, <3>1 DEF Passed, LiveInv
    <3> QED
      BY <2>3, <3>1, <3>2 DEF Passed
  <2> QED
    BY <1>1, <2>1, <2>3 DEF OrderInv, Passed, Starting, Ending, InList, Names, N
<1>3. CASE ~WorkerRead(n)
  <2>1. lateCalls' = lateCalls
    BY <1>3 DEF Worker, WorkerSays, WorkerCheck, WorkerWait, WorkerSend, history
  <2> QED
    BY <1>1, <2>1, OrderInvQuiet
<1> QED
  BY <1>2, <1>3

LEMMA OrderInvNext == LifeInv /\ LiveInv /\ OrderInv /\ [Next]_vars => OrderInv'
<1> SUFFICES ASSUME LifeInv, LiveInv, OrderInv, [Next]_vars PROVE OrderInv'
  OBVIOUS
<1>1. CASE Main \/ Kill
  BY <1>1, OrderInvMain, OrderInvMake, OrderInvEnd DEF Main
<1>2. CASE Signal \/ Loop \/ LogThread \/ UNCHANGED vars
  BY <1>2, OrderInvQuiet DEF Signal, Loop, LogThread, vars, process, objects, history
<1>3. CASE \E n \in Names : Worker(n)
  BY <1>3, OrderInvWorker
<1> QED
  BY <1>1, <1>2, <1>3 DEF Next

\* Whatever the configuration and the moment of the end: a worker calls a backdoor
\* that is gone only if its name is before the one of the service it listens to,
\* and only a configuration main() refuses leaves a backdoor to static destructors.
THEOREM EndsInOrder == Spec => []OrderlyEnd
<1>1. Init => LiveInv /\ OrderInv /\ EndInv
  <2>1. Init => LiveInv
    BY DEF Init, LiveInv, Bound
  <2>2. Init => OrderInv
    BY DEF Init, OrderInv, Starting, Ending, Begin
  <2>3. Init => EndInv
    BY DEF Init, EndInv, Ending
  <2> QED
    BY <2>1, <2>2, <2>3
<1>2. OrderInv /\ EndInv => OrderlyEnd
  BY DEF OrderInv, EndInv, OrderlyEnd
<1> QED
  BY <1>1, <1>2, LifeInvInit, LifeInvNext, LiveInvNext, OrderInvNext, EndInvNext, PTL
  DEF Spec

-----------------------------------------------------------------------------
(* Types, and the table of descriptors.                                    *)

CountInv ==
  /\ config \in Config /\ i \in 1 .. N + 1 /\ tries \in 0 .. MaxTries /\ code \in 0 .. 3
  /\ lines \in 0 .. MaxLines /\ conns \in [Names -> Nat] /\ listed \subseteq Names
  /\ mpc \in {"listen", "delete", "join pool"} => i \in Names

TableInv == IsFiniteSet(Connections) /\ Descriptors <= MaxFd

LEMMA CountInvInit == Init => CountInv
BY LifecycleAssumption, NamesNat DEF Init, CountInv

LEMMA LogBounded ==
  ASSUME lines \in 0 .. MaxLines, NEW k \in Nat, Log(k)
  PROVE  lines' \in 0 .. MaxLines
BY LifecycleAssumption DEF Log

LEMMA CountInvNext == CountInv /\ [Next]_vars => CountInv'
<1> SUFFICES ASSUME CountInv, [Next]_vars PROVE CountInv'
  OBVIOUS
<1>0. /\ N \in Nat /\ \A n : n \in Names <=> n \in Nat \ {0} /\ n <= N
      /\ MaxTries \in Nat \ {0} /\ MaxLines \in Nat
  BY NamesNat, LifecycleAssumption DEF CountInv
<1>c. ASSUME NEW n \in Names PROVE n \in 1 .. N + 1 /\ n + 1 \in 1 .. N + 1
  BY <1>0 DEF Names
<1>d. \A n \in 1 .. N + 1 : n <= N => n \in Names
  BY <1>0
<1>a. conns \in [Names -> Nat]
  BY DEF CountInv
<1>b. lines \in 0 .. MaxLines /\ MaxLines \in Nat
  BY <1>0 DEF CountInv
<1>1. lines' \in 0 .. MaxLines
  <2>1. CASE Log(1)
    BY <2>1, LogBounded DEF CountInv
  <2>2. CASE lines' = lines \/ (lines # 0 /\ lines' = lines - 1)
    BY <1>b, <2>2
  <2>3. CASE Main
    BY <2>1, <2>2, <2>3
    DEF Main, Arguments, Load, LogStart, CreateRefused, CreateThrows, Create, Listen, Bind,
        Lock, SetHandler, Wait, JoinAll, Clear, Delete, Destroy, LogStop, End, Say, logger
  <2>4. CASE Kill \/ Signal \/ Loop \/ LogThread \/ UNCHANGED vars
    BY <2>2, <2>4 DEF Kill, Signal, Loop, LogThread, LogCheck, LogWait, LogWrite, LogTo,
                      vars, logger
  <2>5. ASSUME NEW n \in Names, Worker(n) PROVE lines' \in 0 .. MaxLines
    BY <2>1, <2>2, <2>5 DEF Worker, WorkerSays, WorkerCheck, WorkerWait, WorkerRead,
                            WorkerSend, Say, Quiet, logger
  <2> QED
    BY <2>3, <2>4, <2>5 DEF Next
<1>2. code' \in 0 .. 3
  <2>1. code' = code \/ code' \in {0, 1, 2, 3}
    <3>1. CASE Main \/ Kill
      BY <3>1 DEF Main, Kill, Arguments, Load, LogStart, CreateRefused, CreateThrows, Create,
                  Listen, Bind, Lock, SetHandler, Wait, JoinAll, Clear, Delete, Destroy,
                  LogStop, End, Goto, Return
    <3>2. CASE ~(Main \/ Kill)
      BY <3>2 DEF Next, Signal, Loop, LogThread, Worker, vars, process
    <3> QED
      BY <3>1, <3>2
  <2>2. code \in 0 .. 3
    BY DEF CountInv
  <2> QED
    BY <2>1, <2>2
<1>4. tries' \in 0 .. MaxTries
  <2>0. tries \in 0 .. MaxTries
    BY DEF CountInv
  <2>1. \/ tries' = tries \/ tries' = 0
        \/ tries + 1 < MaxTries /\ tries' = tries + 1
    <3>1. CASE Main \/ Kill
      BY <3>1 DEF Main, Kill, Arguments, Load, LogStart, CreateRefused, CreateThrows, Create,
                  Listen, Bind, Lock, SetHandler, Wait, JoinAll, Clear, Delete, Destroy,
                  LogStop, End, Goto, Return
    <3>2. CASE ~(Main \/ Kill)
      BY <3>2 DEF Next, Signal, Loop, LogThread, Worker, vars, process
    <3> QED
      BY <3>1, <3>2
  <2> QED
    BY <1>0, <2>0, <2>1
<1>5. /\ config' = config /\ listed' \subseteq Names /\ i' \in 1 .. N + 1
      /\ mpc' \in {"listen", "delete", "join pool"} => i' \in Names
  <2>0. /\ listed \subseteq Names /\ i \in 1 .. N + 1
        /\ mpc \in {"listen", "delete", "join pool"} => i \in Names
    BY DEF CountInv
  <2>1. CASE \/ Arguments \/ Load \/ LogStart \/ Bind \/ Lock \/ SetHandler \/ Wait
             \/ JoinAll \/ LogStop \/ End \/ CreateRefused \/ CreateThrows \/ Kill
    <3>1. /\ UNCHANGED <<config, i, listed>>
          /\ mpc' \notin {"listen", "delete", "join pool"}
      BY <2>1 DEF Arguments, Load, LogStart, Bind, Lock, SetHandler, Wait, JoinAll, LogStop,
                  End, CreateRefused, CreateThrows, Kill, Goto, Return, objects
    <3> QED
      BY <2>0, <3>1
  <2>2. CASE Create
    <3>1. UNCHANGED <<config, i, listed>> /\ i <= N
      BY <2>2 DEF Create
    <3>2. i \in Names
      BY <1>d, <2>0, <3>1
    <3> QED
      BY <2>0, <3>1, <3>2
  <2>3. CASE Listen
    <3>1. /\ config' = config /\ i \in Names
          /\ listed' = listed \/ listed' = listed \cup {i}
      BY <2>0, <2>3 DEF Listen
    <3>2. CASE i' = i + 1 /\ mpc' = "create"
      BY <1>c, <2>0, <3>1, <3>2
    <3>3. CASE i' = i
      BY <2>0, <3>1, <3>3
    <3> QED
      BY <2>3, <3>2, <3>3 DEF Listen
  <2>4. CASE Clear
    <3>1. /\ UNCHANGED <<config, listed>>
          /\ i' = i \/ i' \in listed
          /\ mpc' \in {"listen", "delete", "join pool"} => i' \in listed
      BY <2>4 DEF Clear, Goto
    <3>2. CASE i' = i
      BY <1>c, <2>0, <3>1, <3>2
    <3>3. CASE i' \in listed
      BY <1>c, <2>0, <3>1, <3>3
    <3> QED
      BY <3>1, <3>2, <3>3
  <2>5. CASE Delete
    BY <2>0, <2>5 DEF Delete, Goto
  <2>6. CASE Destroy
    <3>1. /\ config' = config /\ i \in Names /\ listed' \subseteq listed
          /\ i' = i \/ i' = i + 1
          /\ mpc' \in {"next", "create"}
      BY <2>0, <2>6 DEF Destroy, Goto
    <3> QED
      BY <1>c, <2>0, <3>1
  <2>7. CASE Signal \/ Loop \/ LogThread \/ (\E n \in Names : Worker(n)) \/ UNCHANGED vars
    <3>1. UNCHANGED <<config, i, listed, mpc>>
      BY <2>7 DEF Signal, Loop, LogThread, Worker, vars, process, objects
    <3> QED
      BY <2>0, <3>1
  <2> QED
    BY <2>1, <2>2, <2>3, <2>4, <2>5, <2>6, <2>7 DEF Next, Main
<1>3. conns' \in [Names -> Nat]
  <2>1. CASE conns' = conns
    BY <1>a, <2>1
  <2>2. CASE Main \/ Kill \/ Signal \/ LogThread \/ UNCHANGED vars
    <3>1. conns' = conns \/ conns' = [conns EXCEPT ![i] = 0]
      BY <2>2 DEF Main, Arguments, Load, LogStart, CreateRefused, CreateThrows, Create, Listen,
                  Bind, Lock, SetHandler, Wait, JoinAll, Clear, Delete, Destroy, LogStop, End,
                  Kill, Signal, LogThread, vars, pools
    <3> QED
      BY <1>a, <3>1
  <2>3. CASE Loop
    <3>1. conns' = conns \/ \E n \in Names : conns' = [conns EXCEPT ![n] = @ + 1]
      BY <2>3 DEF Loop, LoopRegister, LoopCheck, LoopServe, pools
    <3> QED
      BY <1>a, <3>1
  <2>4. ASSUME NEW n \in Names, Worker(n) PROVE conns' \in [Names -> Nat]
    <3>1. \/ conns' = conns
          \/ \E k \in {conns[n], conns[n] - 1} : k >= 0 /\ conns' = [conns EXCEPT ![n] = k]
      BY <2>4 DEF Worker, WorkerSays, WorkerCheck, WorkerWait, WorkerRead, WorkerSend
    <3>2. conns[n] \in Nat
      BY <1>a
    <3> QED
      BY <1>a, <3>1, <3>2
  <2> QED
    BY <2>2, <2>3, <2>4 DEF Next
<1> QED
  BY <1>1, <1>2, <1>3, <1>4, <1>5 DEF CountInv, Names, N

\* The listeners are a part of a finite list.
LEMMA ListenersFinite ==
  ASSUME CountInv
  PROVE  IsFiniteSet(Listeners) /\ Cardinality(Listeners) \in Nat
<1>1. IsFiniteSet(Names)
  <2>1. config \in Config
    BY DEF CountInv
  <2>2. N \in Nat
    BY <2>1, NamesNat
  <2>3. N \in Int /\ 1 \in Int
    BY <2>2
  <2> QED
    BY <2>3, FS_Interval DEF Names
<1>2. Listeners \subseteq Names
  BY DEF Listeners
<1> QED
  BY <1>1, <1>2, FS_Subset, FS_CardinalityType

\* A step that takes no number.
LEMMA TableShrinks ==
  ASSUME CountInv, TableInv,
         Listeners' \subseteq Listeners, Connections' \subseteq Connections
  PROVE  TableInv'
<1>1. IsFiniteSet(Listeners') /\ IsFiniteSet(Connections')
  BY ListenersFinite, FS_Subset DEF TableInv
<1>2. /\ Cardinality(Listeners') <= Cardinality(Listeners)
      /\ Cardinality(Connections') <= Cardinality(Connections)
  BY ListenersFinite, FS_Subset DEF TableInv
<1>3. /\ Cardinality(Listeners) \in Nat /\ Cardinality(Connections) \in Nat
      /\ Cardinality(Listeners') \in Nat /\ Cardinality(Connections') \in Nat
  BY <1>1, ListenersFinite, FS_CardinalityType DEF TableInv
<1> QED
  BY <1>1, <1>2, <1>3, LifecycleAssumption DEF TableInv, Descriptors

\* A step that takes one, when there is one.
LEMMA TableGrows ==
  ASSUME CountInv, TableInv, FdLeft, NEW x,
         \/ Listeners' \subseteq Listeners \cup {x} /\ Connections' = Connections
         \/ Listeners' = Listeners /\ Connections' \subseteq Connections \cup {x}
  PROVE  TableInv'
<1>1. /\ IsFiniteSet(Listeners) /\ IsFiniteSet(Connections)
      /\ Cardinality(Listeners) \in Nat /\ Cardinality(Connections) \in Nat
  BY ListenersFinite, FS_CardinalityType DEF TableInv
<1>2. Cardinality(Listeners) + Cardinality(Connections) + 1 <= MaxFd
  <2>1. PICK k \in {0, 1} : Descriptors + k < MaxFd
    BY DEF FdLeft
  <2> QED
    BY <1>1, <2>1, LifecycleAssumption DEF Descriptors
<1>3. ASSUME NEW S, IsFiniteSet(S), NEW T, T \subseteq S \cup {x}
      PROVE  /\ IsFiniteSet(T) /\ Cardinality(T) \in Nat
             /\ Cardinality(T) <= Cardinality(S) + 1
  <2>1. /\ IsFiniteSet(S \cup {x}) /\ Cardinality(S) \in Nat
        /\ Cardinality(S \cup {x}) <= Cardinality(S) + 1
    BY <1>3, FS_AddElement, FS_CardinalityType
  <2>2. /\ IsFiniteSet(T) /\ Cardinality(T) <= Cardinality(S \cup {x})
        /\ Cardinality(T) \in Nat /\ Cardinality(S \cup {x}) \in Nat
    BY <1>3, <2>1, FS_Subset, FS_CardinalityType
  <2> QED
    BY <2>1, <2>2
<1>4. CASE Listeners' \subseteq Listeners \cup {x} /\ Connections' = Connections
  BY <1>1, <1>2, <1>3, <1>4, LifecycleAssumption DEF TableInv, Descriptors
<1>5. CASE Listeners' = Listeners /\ Connections' \subseteq Connections \cup {x}
  BY <1>1, <1>2, <1>3, <1>5, LifecycleAssumption DEF TableInv, Descriptors
<1> QED
  BY <1>4, <1>5

LEMMA TableInvInit == Init => TableInv
<1> SUFFICES ASSUME Init PROVE TableInv
  OBVIOUS
<1>1. Listeners = {} /\ Connections = {}
  BY DEF Init, Listeners, Connections, InList
<1> QED
  BY <1>1, FS_EmptySet, LifecycleAssumption DEF TableInv, Descriptors

LEMMA TableInvNext ==
  ASSUME LifeInv, LiveInv, CountInv, TableInv, [Next]_vars
  PROVE  TableInv'
<1>0. /\ conns \in [Names -> Nat] /\ config' = config /\ listed \subseteq Names
      /\ obj \in [Names -> {"none", "live", "dying", "dead"}]
  <2>1. config' = config
    BY DEF Next, Main, Kill, Arguments, Load, LogStart, CreateRefused, CreateThrows, Create,
           Listen, Bind, Lock, SetHandler, Wait, JoinAll, Clear, Delete, Destroy, LogStop,
           End, Goto, Return, Signal, Loop, LogThread, Worker, vars, process
  <2> QED
    BY <2>1 DEF CountInv, LifeInv, ShapeInv
<1>a. Names' = Names
  BY <1>0 DEF Names, N
<1>1. ASSUME \A n \in Names : conns'[n] \in Nat /\ conns'[n] <= conns[n]
      PROVE  Connections' \subseteq Connections
  BY <1>0, <1>1, <1>a DEF Connections
<1>2. ASSUME UNCHANGED conns PROVE Connections' = Connections
  BY <1>2, <1>a DEF Connections
<1>3. ASSUME UNCHANGED <<listed, obj>> PROVE Listeners' = Listeners
  BY <1>3, <1>a DEF Listeners, InList
<1>4. CASE \/ Arguments \/ Load \/ LogStart \/ CreateRefused \/ CreateThrows \/ Bind
           \/ Lock \/ SetHandler \/ Wait \/ JoinAll \/ Clear \/ LogStop \/ End
           \/ Kill \/ Signal \/ LogThread \/ UNCHANGED vars
  <2>1. UNCHANGED <<listed, obj, conns>>
    BY <1>4 DEF Arguments, Load, LogStart, CreateRefused, CreateThrows, Bind, Lock,
                SetHandler, Wait, JoinAll, Clear, LogStop, End, Kill, Signal, LogThread,
                vars, objects, pools
  <2> QED
    BY <1>2, <1>3, <2>1, TableShrinks
<1>5. CASE Create \/ Delete
  <2>1. /\ UNCHANGED <<listed, conns>>
        /\ obj' = [obj EXCEPT ![i] = "live"] \/ obj' = [obj EXCEPT ![i] = "dying"]
    BY <1>5 DEF Create, Delete, pools
  <2>2. i \in listed => obj[i] # "dead"
    BY DEF LiveInv
  <2>3. Listeners' \subseteq Listeners
    BY <1>0, <1>a, <2>1, <2>2 DEF Listeners, InList
  <2> QED
    BY <1>2, <2>1, <2>3, TableShrinks
<1>6. CASE Listen
  <2>1. \/ UNCHANGED <<listed, obj, conns>>
        \/ FdLeft /\ UNCHANGED <<obj, conns>> /\ listed' = listed \cup {i}
    BY <1>6 DEF Listen, CanListen, pools
  <2>2. CASE UNCHANGED <<listed, obj, conns>>
    BY <1>2, <1>3, <2>2, TableShrinks
  <2>3. CASE FdLeft /\ UNCHANGED <<obj, conns>> /\ listed' = listed \cup {i}
    <3>1. Listeners' \subseteq Listeners \cup {i}
      BY <1>a, <2>3 DEF Listeners, InList
    <3> QED
      BY <1>2, <2>3, <3>1, TableGrows
  <2> QED
    BY <2>1, <2>2, <2>3
<1>7. CASE Destroy
  <2>1. /\ listed' = listed \ {i} /\ i \in Names
        /\ obj' = [obj EXCEPT ![i] = "dead"] /\ conns' = [conns EXCEPT ![i] = 0]
    BY <1>7 DEF Destroy, LifeInv, MainInv
  <2>2. Listeners' \subseteq Listeners
    BY <1>0, <1>a, <2>1 DEF Listeners, InList
  <2>3. \A n \in Names : conns'[n] \in Nat /\ conns'[n] <= conns[n]
    BY <1>0, <2>1
  <2> QED
    BY <1>1, <2>2, <2>3, TableShrinks
<1>8. CASE Loop
  <2>1. /\ UNCHANGED <<listed, obj>>
        /\ \/ conns' = conns
           \/ FdLeft /\ \E n \in Names : conns' = [conns EXCEPT ![n] = @ + 1]
    BY <1>8 DEF Loop, LoopRegister, LoopCheck, LoopServe, pools, objects
  <2>2. ASSUME NEW n \in Names, conns' = [conns EXCEPT ![n] = @ + 1]
        PROVE  Connections' \subseteq Connections \cup {<<n, conns[n] + 1>>}
    <3>1. /\ conns'[n] = conns[n] + 1 /\ conns[n] \in Nat
          /\ \A m \in Names : m # n => conns'[m] = conns[m]
      BY <1>0, <2>2
    <3>2. ASSUME NEW m \in Names, NEW k \in 1 .. conns'[m]
          PROVE  <<m, k>> \in Connections \cup {<<n, conns[n] + 1>>}
      <4>1. CASE k \in 1 .. conns[m]
        BY <4>1 DEF Connections
      <4>2. CASE k \notin 1 .. conns[m]
        <5>1. m = n
          BY <3>1, <4>2
        <5>2. k = conns[n] + 1
          BY <3>1, <4>2, <5>1
        <5> QED
          BY <5>1, <5>2
      <4> QED
        BY <4>1, <4>2
    <3> QED
      BY <1>a, <3>2 DEF Connections
  <2> QED
    BY <1>2, <1>3, <2>1, <2>2, TableShrinks, TableGrows
<1>9. ASSUME NEW n \in Names, Worker(n) PROVE TableInv'
  <2>1. /\ UNCHANGED <<listed, obj>>
        /\ \/ conns' = conns
           \/ \E k \in {conns[n], conns[n] - 1} : k >= 0 /\ conns' = [conns EXCEPT ![n] = k]
    BY <1>9 DEF Worker, WorkerSays, WorkerCheck, WorkerWait, WorkerRead, WorkerSend, objects
  <2>2. \A m \in Names : conns'[m] \in Nat /\ conns'[m] <= conns[m]
    <3>1. conns[n] \in Nat /\ \A m \in Names : conns[m] \in Nat
      BY <1>0
    <3>2. CASE conns' = conns
      BY <3>1, <3>2
    <3>3. CASE \E k \in {conns[n], conns[n] - 1} : k >= 0 /\ conns' = [conns EXCEPT ![n] = k]
      <4>1. PICK k \in {conns[n], conns[n] - 1} : k >= 0 /\ conns' = [conns EXCEPT ![n] = k]
        BY <3>3
      <4>2. k \in Nat /\ k <= conns[n]
        BY <3>1, <4>1
      <4> QED
        BY <1>0, <3>1, <4>1, <4>2
    <3> QED
      BY <2>1, <3>2, <3>3
  <2> QED
    BY <1>1, <1>3, <2>1, <2>2, TableShrinks
<1> QED
  BY <1>4, <1>5, <1>6, <1>7, <1>8, <1>9 DEF Next, Main

\* Every variable keeps its type, the list holds what is alive, and no more
\* descriptors are in use than there are, for every configuration.
THEOREM LifecycleTypes == Spec => []TypeOK
<1>1. Init => LiveInv
  BY DEF Init, LiveInv, Bound
<1>2. LifeInv /\ LiveInv /\ CountInv /\ TableInv => TypeOK
  <2> SUFFICES ASSUME LifeInv, LiveInv, CountInv, TableInv PROVE TypeOK
    OBVIOUS
  <2>1. /\ i \in 1 .. N + 1 /\ tries \in 0 .. MaxTries /\ code \in 0 .. 3
        /\ lines \in 0 .. MaxLines /\ Descriptors <= MaxFd
    BY DEF CountInv, TableInv
  <2>2. /\ obj \in [Names -> {"none", "live", "dying", "dead"}]
        /\ \A n \in Names : cfg[n] <=> obj[n] = "live"
        /\ wpc \in [Names -> WorkerPC]
    BY DEF LifeInv, ShapeInv, ServiceInv
  <2>3. /\ \A n \in Names : InList(n) => obj[n] = "live" \/ (obj[n] = "dying" /\ n = i)
        /\ doors \subseteq {n \in Names : Kind(n) = "backdoor" /\ obj[n] = "live"}
    BY DEF LiveInv, InList
  <2> QED
    BY <2>1, <2>2, <2>3 DEF TypeOK, WorkerPC
<1>3. LifeInv /\ LiveInv /\ CountInv /\ TableInv /\ [Next]_vars => TableInv'
  BY TableInvNext
<1> QED
  BY <1>1, <1>2, <1>3, LifeInvInit, LifeInvNext, LiveInvNext, CountInvInit, CountInvNext,
     TableInvInit, PTL DEF Spec
=============================================================================
