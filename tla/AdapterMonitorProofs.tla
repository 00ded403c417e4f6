------------------------- MODULE AdapterMonitorProofs -------------------------
(***************************************************************************)
(* The injector that is registered works for the published address, for    *)
(* any number of addresses, injector threads, clients, failures and        *)
(* respawns, as long as an injector thread starts faster than the poll.    *)
(***************************************************************************)
EXTENDS AdapterMonitor, TLAPS

(***************************************************************************)
(* Types                                                                   *)
(***************************************************************************)
LEMMA Machine ==
  ASSUME TypeOK
  PROVE  /\ Fail => failures' \in 0 .. MaxFailures /\ UNCHANGED <<alive, wan, changes, respawns>>
         /\ changes < MaxChanges => changes + 1 \in 0 .. MaxChanges
         /\ respawns < MaxRespawns => respawns + 1 \in 0 .. MaxRespawns
BY AdapterAssumption DEF TypeOK, Fail

LEMMA FreeThread ==
  ASSUME Free # {}
  PROVE  (CHOOSE j \in Free : TRUE) \in Threads /\ thread[CHOOSE j \in Free : TRUE] = "none"
<1>1. (CHOOSE j \in Free : TRUE) \in Free
  OBVIOUS
<1> QED  BY <1>1 DEF Free

LEMMA DecideRange ==
  ASSUME NEW a
  PROVE  /\ Decide(a) \in {"close", "publish", "asleep"}
         /\ Decide(a) = "publish" => last_ip = NoAddr
         /\ Decide(a) = "close" => a # NoAddr \/ last_ip # NoAddr
<1>1. CASE last_ip # NoAddr /\ a = NoAddr
  BY <1>1, Zenon DEF Decide
<1>2. CASE last_ip = NoAddr /\ a # NoAddr
  BY <1>2, Zenon DEF Decide
<1>3. CASE last_ip # NoAddr /\ a # NoAddr /\ a # last_ip
  BY <1>3, Zenon DEF Decide
<1>4. CASE last_ip = a
  <2>1. CASE a # NoAddr /\ ~ injector_running /\ ~ recent
    BY <1>4, <2>1, Zenon DEF Decide
  <2>2. CASE ~ (a # NoAddr /\ ~ injector_running /\ ~ recent)
    <3>1. Decide(a) = "asleep"
      BY <1>4, <2>2, Zenon DEF Decide
    <3> QED  BY <3>1
  <2> QED  BY <2>1, <2>2
<1> QED  BY <1>1, <1>2, <1>3, <1>4

LEMMA MonitorType ==
  ASSUME TypeOK, Monitor
  PROVE  TypeOK'
<1>1. CASE StartMonitor
  BY <1>1 DEF StartMonitor, TypeOK, globals, thr_vars, cl_vars, machine
<1>2. CASE Tick
  <2>1. PICK a \in Address : /\ Resolve(a) /\ current_ip' = a /\ mon' = Decide(a)
                             /\ recent' = (recent \/ a = last_ip)
                             /\ UNCHANGED <<globals, last_ip, thr_vars, cl_vars>>
    BY <1>2, Zenon DEF Tick
  <2>2. /\ failures' \in 0 .. MaxFailures /\ UNCHANGED <<alive, wan, changes, respawns>>
    BY <2>1, Machine DEF Resolve, machine, TypeOK
  <2>3. mon' \in {"started", "asleep", "close", "clear", "publish", "spawn"}
    BY <2>1, DecideRange
  <2>4. recent' \in BOOLEAN
    BY <2>1, Zenon
  <2> QED  BY <2>1, <2>2, <2>3, <2>4 DEF TypeOK, globals, thr_vars, cl_vars
<1>3. CASE CloseEngine
  <2>1. thread' \in [Threads -> {"none", "create", "open", "recv", "ending"}]
    BY <1>3 DEF CloseEngine, TypeOK, thr_vars
  <2>2. engine' \in [Threads -> [ip : Address, state : {"unopened", "open", "closed"}]]
    BY <1>3 DEF CloseEngine, TypeOK, thr_vars
  <2> QED  BY <1>3, <2>1, <2>2 DEF CloseEngine, TypeOK, globals, cl_vars, machine
<1>4. CASE ClearInjector
  BY <1>4 DEF ClearInjector, Stopped, TypeOK, thr_vars, cl_vars, machine
<1>5. CASE Publish
  BY <1>5 DEF Publish, TypeOK, thr_vars, cl_vars, machine
<1>6. CASE Spawn
  <2> DEFINE i == CHOOSE j \in Free : TRUE
  <2>1. i \in Threads
    BY <1>6, FreeThread DEF Spawn
  <2>2. /\ thread' = [thread EXCEPT ![i] = "create"] /\ injector_thread' = i /\ mon' = "asleep"
        /\ engine' = [engine EXCEPT ![i] = [ip |-> current_ip, state |-> "unopened"]]
        /\ UNCHANGED <<INTERFACE_IPV4, fake_tcp_injector, current_ip, last_ip, recent,
                       cl_vars, machine>>
    BY <1>6, Zenon DEF Spawn
  <2> HIDE DEF i
  <2> QED  BY <2>1, <2>2 DEF TypeOK, cl_vars, machine
<1>7. CASE NothingToStop
  BY <1>7 DEF NothingToStop, Stopped, TypeOK, globals, thr_vars, cl_vars, machine
<1> QED  BY <1>1, <1>2, <1>3, <1>4, <1>5, <1>6, <1>7 DEF Monitor

LEMMA InjectorType ==
  ASSUME TypeOK, NEW i \in Threads, InjectorStep(i) \/ InjectorMay(i)
  PROVE  TypeOK'
<1>1. CASE Register(i)
  BY <1>1 DEF Register, Move, TypeOK, mon_vars, cl_vars, machine
<1>2. CASE OpenEngine(i)
  BY <1>2 DEF OpenEngine, Move, TypeOK, globals, mon_vars, cl_vars, machine
<1>3. CASE End(i)
  BY <1>3 DEF End, Move, NoEngine, Address, TypeOK, mon_vars, cl_vars, machine
<1>4. CASE EngineFails(i)
  <2>1. failures' \in 0 .. MaxFailures /\ UNCHANGED <<alive, wan, changes, respawns>>
    BY <1>4, Machine DEF EngineFails
  <2> QED  BY <1>4, <2>1 DEF EngineFails, Move, TypeOK, globals, mon_vars, cl_vars
<1>5. CASE LastPacket(i)
  BY <1>5 DEF LastPacket, Move, TypeOK, globals, mon_vars, cl_vars, machine
<1> QED  BY <1>1, <1>2, <1>3, <1>4, <1>5 DEF InjectorStep, InjectorMay

LEMMA HandlerType ==
  ASSUME TypeOK, NEW c \in Clients, Handler(c)
  PROVE  TypeOK' /\ UNCHANGED <<globals, mon_vars, thr_vars>>
<1>1. CASE CheckAddress(c)
  BY <1>1 DEF CheckAddress, TypeOK, globals, mon_vars, thr_vars, machine
<1>2. CASE Bind(c)
  BY <1>2 DEF Bind, TypeOK, globals, mon_vars, thr_vars, machine
<1>3. CASE BindRaises(c)
  BY <1>3 DEF BindRaises, TypeOK, globals, mon_vars, thr_vars, cl_vars
<1>4. CASE RegisterConnection(c)
  BY <1>4 DEF RegisterConnection, TypeOK, globals, mon_vars, thr_vars, machine
<1> QED  BY <1>1, <1>2, <1>3, <1>4 DEF Handler

LEMMA OutsideType ==
  ASSUME TypeOK, WanChanges \/ Respawn \/ BackOff
  PROVE  TypeOK'
<1>1. CASE WanChanges
  BY <1>1, Machine DEF WanChanges, TypeOK, globals, mon_vars, thr_vars, cl_vars
<1>2. CASE Respawn
  BY <1>2, Machine DEF Respawn, NoThreads, NoEngine, NoClients, Unbound, Address, TypeOK
<1>3. CASE BackOff
  BY <1>3 DEF BackOff, TypeOK, globals, thr_vars, cl_vars, machine
<1> QED  BY <1>1, <1>2, <1>3

LEMMA TypeInduction ==
  /\ Init => TypeOK
  /\ TypeOK /\ [Next]_vars => TypeOK'
<1>1. Init => TypeOK
  <2>1. 0 \in 0 .. MaxChanges /\ 0 \in 0 .. MaxFailures /\ 0 \in 0 .. MaxRespawns
    BY AdapterAssumption
  <2>2. NoAddr \in Address
    BY DEF Address
  <2>3. ASSUME Init
        PROVE  /\ NoThreads \in [Threads -> {"none", "create", "open", "recv", "ending"}]
               /\ engine \in [Threads -> [ip : Address, state : {"unopened", "open", "closed"}]]
    BY <2>2, <2>3 DEF Init, NoThreads, NoEngine
  <2>4. NoClients \in [Clients -> {"new", "checked", "bound", "registered", "refused"}]
        /\ Unbound \in [Clients -> Address]
    BY <2>2 DEF NoClients, Unbound
  <2> QED  BY <2>1, <2>3, <2>4 DEF Init, TypeOK
<1>2. ASSUME TypeOK, [Next]_vars PROVE TypeOK'
  <2>1. CASE UNCHANGED vars
    BY <1>2, <2>1 DEF vars, globals, mon_vars, thr_vars, cl_vars, machine, TypeOK
  <2>2. CASE Next
    BY <1>2, <2>2, MonitorType, InjectorType, HandlerType, OutsideType DEF Next, Running
  <2> QED  BY <1>2, <2>1, <2>2
<1> QED  BY <1>1, <1>2

\* The globals hold addresses and threads, never the labels they are logged with
\* (main.py:387-394, 492-497).
THEOREM TypeCorrect == Spec => []TypeOK
BY TypeInduction, PTL DEF Spec

(***************************************************************************)
(* The registered injector                                                 *)
(***************************************************************************)
Starting(i) == thread[i] \in {"create", "open"}

\* An injector is only started while the monitor sleeps, with the published address;
\* none is registered from the moment the monitor has stopped it to the next start.
FollowInv ==
  /\ last_ip = INTERFACE_IPV4
  /\ mon \in {"started", "spawn"} => current_ip = last_ip
  /\ mon = "spawn" => current_ip # NoAddr
  /\ mon \in {"close", "clear"} => current_ip # NoAddr \/ last_ip # NoAddr
  /\ \A i \in Threads :
       Starting(i) => mon = "asleep" /\ last_ip # NoAddr /\ engine[i].ip = last_ip
  /\ mon \in {"publish", "spawn", "started"} \/ (mon = "asleep" /\ last_ip = NoAddr)
       => fake_tcp_injector = None
  /\ mon = "asleep" /\ fake_tcp_injector # None => engine[fake_tcp_injector].ip = last_ip

LEMMA MonitorFollows ==
  ASSUME Prompt, TypeOK, FollowInv, Monitor
  PROVE  FollowInv'
<1>1. CASE StartMonitor
  BY <1>1 DEF StartMonitor, FollowInv, Starting, globals, thr_vars
<1>2. CASE Tick
  <2>1. PICK a \in Address : /\ Decide(a) # "asleep" /\ current_ip' = a /\ mon' = Decide(a)
                             /\ UNCHANGED <<globals, last_ip, thr_vars, cl_vars>>
    BY <1>2, Zenon DEF Tick
  <2>2. \A i \in Threads : ~ Starting(i)
    BY <1>2 DEF Tick, Settled, Starting
  <2>3. \A i \in Threads : ~ Starting(i)'
    BY <2>1, <2>2 DEF Starting, thr_vars
  <2>4. mon = "asleep" /\ mon' \in {"close", "publish"}
    BY <1>2, <2>1, DecideRange DEF Tick
  <2> QED  BY <2>1, <2>3, <2>4, DecideRange DEF FollowInv, globals
<1>3. CASE CloseEngine
  <2>1. /\ mon = "close" /\ mon' = "clear" /\ current_ip' = current_ip /\ last_ip' = last_ip
        /\ UNCHANGED globals
    BY <1>3, Zenon DEF CloseEngine
  <2>2. \A i \in Threads : ~ Starting(i)
    BY <2>1 DEF FollowInv
  <2>3. ASSUME NEW i \in Threads PROVE ~ Starting(i)'
    <3>1. thread' = thread \/ \E l \in {thread[fake_tcp_injector], "ending"} :
                                thread' = [thread EXCEPT ![fake_tcp_injector] = l]
      BY <1>3, Zenon DEF CloseEngine, thr_vars
    <3>2. thread'[i] = thread[i] \/ thread'[i] = "ending"
      BY <3>1 DEF TypeOK
    <3> QED  BY <2>2, <3>2 DEF Starting
  <2> QED  BY <2>1, <2>3 DEF FollowInv, globals
<1>4. CASE ClearInjector
  <2>1. \A i \in Threads : ~ Starting(i)'
    BY <1>4 DEF ClearInjector, FollowInv, Starting, thr_vars
  <2> QED  BY <1>4, <2>1 DEF ClearInjector, Stopped, FollowInv
<1>5. CASE Publish
  <2>1. \A i \in Threads : ~ Starting(i)'
    BY <1>5 DEF Publish, FollowInv, Starting, thr_vars
  <2> QED  BY <1>5, <2>1 DEF Publish, FollowInv
<1>6. CASE Spawn
  <2> DEFINE i == CHOOSE j \in Free : TRUE
  <2>1. i \in Threads
    BY <1>6, FreeThread DEF Spawn
  <2>2. /\ thread' = [thread EXCEPT ![i] = "create"] /\ mon = "spawn" /\ mon' = "asleep"
        /\ engine' = [engine EXCEPT ![i] = [ip |-> current_ip, state |-> "unopened"]]
        /\ UNCHANGED <<INTERFACE_IPV4, fake_tcp_injector, current_ip, last_ip>>
    BY <1>6, Zenon DEF Spawn
  <2> HIDE DEF i
  <2>3. ASSUME NEW j \in Threads, Starting(j)' PROVE engine'[j].ip = last_ip
    <3>1. CASE j = i
      BY <2>1, <2>2, <3>1 DEF FollowInv, TypeOK
    <3>2. CASE j # i
      BY <2>1, <2>2, <2>3, <3>2 DEF FollowInv, Starting, TypeOK
    <3> QED  BY <3>1, <3>2
  <2> QED  BY <2>2, <2>3 DEF FollowInv
<1>7. CASE NothingToStop
  BY <1>7 DEF NothingToStop, Stopped, FollowInv, Starting, globals, thr_vars
<1> QED  BY <1>1, <1>2, <1>3, <1>4, <1>5, <1>6, <1>7 DEF Monitor

LEMMA InjectorFollows ==
  ASSUME TypeOK, FollowInv, NEW i \in Threads, InjectorStep(i) \/ InjectorMay(i)
  PROVE  FollowInv'
<1>1. UNCHANGED <<INTERFACE_IPV4, mon_vars>>
  BY DEF InjectorStep, InjectorMay, Register, OpenEngine, End, EngineFails, LastPacket, globals
<1>2. CASE Register(i)
  <2>1. /\ thread' = [thread EXCEPT ![i] = "open"] /\ engine' = engine
        /\ thread[i] = "create" /\ fake_tcp_injector' = i
    BY <1>2, Zenon DEF Register, Move
  <2>2. mon = "asleep" /\ last_ip # NoAddr /\ engine[i].ip = last_ip
    BY <2>1 DEF FollowInv, Starting
  <2>3. \A j \in Threads : Starting(j)' => Starting(j)
    BY <2>1 DEF Starting, TypeOK
  <2> QED  BY <1>1, <2>1, <2>2, <2>3 DEF FollowInv, mon_vars
<1>3. CASE OpenEngine(i)
  <2>1. /\ thread' = [thread EXCEPT ![i] = "recv"] /\ UNCHANGED globals
        /\ engine' = [engine EXCEPT ![i].state = "open"]
    BY <1>3, Zenon DEF OpenEngine, Move
  <2>2. \A j \in Threads : engine'[j].ip = engine[j].ip /\ (Starting(j)' => Starting(j))
    BY <2>1 DEF Starting, TypeOK
  <2> QED  BY <1>1, <2>1, <2>2 DEF FollowInv, mon_vars, globals, TypeOK
<1>4. CASE End(i)
  <2>1. /\ thread' = [thread EXCEPT ![i] = "none"] /\ fake_tcp_injector' = None
        /\ engine' = [engine EXCEPT ![i] = NoEngine]
    BY <1>4, Zenon DEF End, Move
  <2>2. \A j \in Threads : Starting(j)' => Starting(j) /\ engine'[j] = engine[j]
    BY <2>1 DEF Starting, TypeOK
  <2> QED  BY <1>1, <2>1, <2>2 DEF FollowInv, mon_vars
<1>5. CASE EngineFails(i) \/ LastPacket(i)
  <2>1. /\ thread' = [thread EXCEPT ![i] = "ending"] /\ engine' = engine /\ UNCHANGED globals
    BY <1>5, Zenon DEF EngineFails, LastPacket, Move
  <2>2. \A j \in Threads : Starting(j)' => Starting(j)
    BY <2>1 DEF Starting, TypeOK
  <2> QED  BY <1>1, <2>1, <2>2 DEF FollowInv, mon_vars, globals
<1> QED  BY <1>2, <1>3, <1>4, <1>5 DEF InjectorStep, InjectorMay

\* Provided that a start takes less than a poll, the injector stop_injector() would
\* close works for the address handlers bind to, whatever failed or came back
\* (main.py:517-561).
THEOREM FollowsAddress ==
  ASSUME Prompt
  PROVE  Spec => []InjectorFollowsAddress
<1>1. Init => TypeOK /\ FollowInv
  BY TypeInduction DEF Init, FollowInv, Starting, NoThreads
<1>2. TypeOK /\ FollowInv /\ [Next]_vars => TypeOK' /\ FollowInv'
  <2> SUFFICES ASSUME TypeOK, FollowInv, [Next]_vars PROVE FollowInv'
    BY TypeInduction
  <2>1. CASE UNCHANGED <<globals, mon_vars, thr_vars>>
    BY <2>1 DEF globals, mon_vars, thr_vars, FollowInv, Starting
  <2>2. CASE Running
    <3>1. CASE BackOff
      BY <3>1 DEF BackOff, globals, thr_vars, FollowInv, Starting
    <3> QED  BY <2>1, <2>2, <3>1, MonitorFollows, InjectorFollows, HandlerType DEF Running
  <2>3. CASE WanChanges
    BY <2>1, <2>3 DEF WanChanges
  <2>4. CASE Respawn
    BY <2>4 DEF Respawn, FollowInv, Starting, NoThreads
  <2>5. CASE UNCHANGED vars
    BY <2>1, <2>5 DEF vars
  <2> QED  BY <2>2, <2>3, <2>4, <2>5 DEF Next
<1>3. FollowInv => InjectorFollowsAddress
  BY DEF FollowInv, InjectorFollowsAddress
<1> QED  BY <1>1, <1>2, <1>3, PTL DEF Spec
===============================================================================
