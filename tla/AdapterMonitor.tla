---------------------------- MODULE AdapterMonitor ----------------------------
(***************************************************************************)
(* The life of the injector, src/main.py: the monitor thread polls the     *)
(* outbound IPv4 every 2 s and starts, stops and restarts injector threads *)
(* so that one of them always watches the address the handlers bind to.    *)
(* The three kinds of thread only meet in the globals INTERFACE_IPV4,      *)
(* fake_tcp_injector and injector_thread, which have no lock.              *)
(*                                                                         *)
(* The injector thread is the raw-socket engine of Linux and OpenWRT:      *)
(* close() of its capture socket does not wake a recvfrom() that is        *)
(* already blocked; the thread notices only after one more packet.         *)
(***************************************************************************)
EXTENDS Naturals

CONSTANTS
  Addrs,        \* the IPv4 addresses the WAN may get
  NoAddr,       \* '', no address; bound to a socket it is 0.0.0.0
  Threads,      \* identities of injector threads
  None,         \* fake_tcp_injector or injector_thread is None
  Clients,
  MaxChanges,   \* how often the WAN may change its address
  MaxFailures,  \* how many calls of the engine or of the lookup may fail
  MaxRespawns,  \* how often procd starts a dead process again
  Prompt        \* TRUE: injector threads start and end faster than the 2 s poll

ASSUME AdapterAssumption ==
  /\ NoAddr \notin Addrs /\ None \notin Threads
  /\ MaxChanges \in Nat /\ MaxFailures \in Nat /\ MaxRespawns \in Nat
  /\ Prompt \in BOOLEAN

Address == Addrs \cup {NoAddr}

VARIABLES
  \* globals of main.py
  INTERFACE_IPV4,
  fake_tcp_injector,  \* whose engine stop_injector() would close
  injector_thread,
  \* the monitor thread
  mon,                \* where monitor_adapter_loop is
  current_ip, last_ip,
  recent,             \* it has restarted the injector less than 10 s ago
  \* the injector threads
  thread,             \* where run_injector_safe is
  engine,             \* the engine of each: its local_ip and its sockets
  \* the handlers
  client,             \* where handle() is
  bound,              \* the address its socket is bound to
  src_ip,             \* the address it is registered under
  \* the machine
  alive,              \* the process runs
  wan,                \* the address of the outbound interface
  changes, failures, respawns

globals  == <<INTERFACE_IPV4, fake_tcp_injector, injector_thread>>
mon_vars == <<mon, current_ip, last_ip, recent>>
thr_vars == <<thread, engine>>
cl_vars  == <<client, bound, src_ip>>
machine  == <<alive, wan, changes, failures, respawns>>
vars     == <<globals, mon_vars, thr_vars, cl_vars, machine>>

TypeOK ==
  /\ INTERFACE_IPV4 \in Address
  /\ fake_tcp_injector \in Threads \cup {None}
  /\ injector_thread \in Threads \cup {None}
  /\ mon \in {"started", "asleep", "close", "clear", "publish", "spawn"}
  /\ current_ip \in Address /\ last_ip \in Address
  /\ recent \in BOOLEAN
  /\ thread \in [Threads -> {"none", "create", "open", "recv", "ending"}]
  /\ engine \in [Threads -> [ip : Address, state : {"unopened", "open", "closed"}]]
  /\ client \in [Clients -> {"new", "checked", "bound", "registered", "refused"}]
  /\ bound \in [Clients -> Address] /\ src_ip \in [Clients -> Address]
  /\ alive \in BOOLEAN /\ wan \in Address
  /\ changes \in 0 .. MaxChanges /\ failures \in 0 .. MaxFailures
  /\ respawns \in 0 .. MaxRespawns

\* The state of a process that has just started: the main thread has looked the
\* address up (select_network_interface) and started the monitor.
NoThreads == [i \in Threads |-> "none"]
NoEngine  == [ip |-> NoAddr, state |-> "unopened"]
NoClients == [c \in Clients |-> "new"]
Unbound   == [c \in Clients |-> NoAddr]

Init ==
  /\ wan \in Address /\ alive = TRUE
  /\ INTERFACE_IPV4 = wan /\ last_ip = wan /\ current_ip = wan
  /\ fake_tcp_injector = None /\ injector_thread = None
  /\ mon = "started" /\ recent = FALSE
  /\ thread = NoThreads /\ engine = [i \in Threads |-> NoEngine]
  /\ client = NoClients /\ bound = Unbound /\ src_ip = Unbound
  /\ changes = 0 /\ failures = 0 /\ respawns = 0

\* One of the calls that may raise does.
Fail ==
  /\ failures < MaxFailures /\ failures' = failures + 1
  /\ UNCHANGED <<alive, wan, changes, respawns>>

(***************************************************************************)
(* The monitor thread                                                      *)
(***************************************************************************)
injector_running ==
  /\ fake_tcp_injector # None
  /\ injector_thread # None
  /\ thread[injector_thread] # "none"

\* Before the loop: start the injector if there is an address.
StartMonitor ==
  /\ mon = "started"
  /\ mon' = IF last_ip # NoAddr THEN "spawn" ELSE "asleep"
  /\ UNCHANGED <<globals, current_ip, last_ip, recent, thr_vars, cl_vars, machine>>

\* resolve_bind_ip(); one that raises counts as no address.
Resolve(a) == (a = wan /\ UNCHANGED machine) \/ (a = NoAddr /\ Fail)

\* (A plausible bug: an injector thread that has died is not noticed.)
UnwatchedDecide(a) ==
  CASE last_ip # NoAddr /\ a = NoAddr  -> "close"
    [] last_ip = NoAddr /\ a # NoAddr  -> "publish"
    [] last_ip # NoAddr /\ a # NoAddr /\ a # last_ip -> "close"
    [] OTHER                           -> "asleep"

\* What one tick of the loop sets out to do.  Only a last_ip needs to be stopped.
Decide(a) ==
  CASE last_ip # NoAddr /\ a = NoAddr  -> "close"
    [] last_ip = NoAddr /\ a # NoAddr  -> "publish"
    [] last_ip # NoAddr /\ a # NoAddr /\ a # last_ip -> "close"
    [] a # NoAddr /\ a = last_ip /\ ~ injector_running /\ ~ recent -> "close"
    [] OTHER                           -> "asleep"

Settled == \A i \in Threads : thread[i] \in {"none", "recv"}

Tick ==
  /\ mon = "asleep"
  /\ Prompt => Settled
  /\ \E a \in Address :
       /\ Resolve(a)
       /\ Decide(a) # "asleep"        \* the other ticks change nothing
       /\ current_ip' = a
       /\ mon' = Decide(a)
       /\ recent' = (recent \/ a = last_ip)
  /\ UNCHANGED <<globals, last_ip, thr_vars, cl_vars>>

\* 10 s have passed since the last restart.
BackOff ==
  /\ recent /\ recent' = FALSE
  /\ UNCHANGED <<globals, mon, current_ip, last_ip, thr_vars, cl_vars, machine>>

\* What the loop does once stop_injector() has returned.
Stopped == IF current_ip # last_ip THEN "publish" ELSE "spawn"

\* stop_injector() does nothing if no injector is registered.
NothingToStop ==
  /\ mon = "close" /\ fake_tcp_injector = None
  /\ mon' = Stopped
  /\ UNCHANGED <<globals, current_ip, last_ip, recent, thr_vars, cl_vars, machine>>

\* Otherwise it closes the engine ...  A thread between two recv() calls finds the
\* socket gone; one inside recvfrom() sleeps on.
CloseEngine ==
  /\ mon = "close" /\ fake_tcp_injector # None
  /\ IF engine[fake_tcp_injector].state = "open"
     THEN /\ engine' = [engine EXCEPT ![fake_tcp_injector].state = "closed"]
          /\ \E l \in {thread[fake_tcp_injector], "ending"} :
               thread' = [thread EXCEPT ![fake_tcp_injector] = l]
     ELSE UNCHANGED thr_vars
  /\ mon' = "clear"
  /\ UNCHANGED <<globals, current_ip, last_ip, recent, cl_vars, machine>>

\* (A plausible bug: a changed address is not published before the restart.)
UnpublishedClearInjector ==
  /\ mon = "clear"
  /\ fake_tcp_injector' = None
  /\ mon' = IF current_ip = NoAddr THEN "publish" ELSE "spawn"
  /\ last_ip' = current_ip
  /\ UNCHANGED <<INTERFACE_IPV4, injector_thread, current_ip, recent, thr_vars, cl_vars, machine>>

\* ... and forgets whichever injector is registered by now.
ClearInjector ==
  /\ mon = "clear"
  /\ fake_tcp_injector' = None
  /\ mon' = Stopped
  /\ UNCHANGED <<INTERFACE_IPV4, injector_thread, current_ip, last_ip, recent,
                 thr_vars, cl_vars, machine>>

Publish ==
  /\ mon = "publish"
  /\ INTERFACE_IPV4' = current_ip
  /\ last_ip' = current_ip
  /\ mon' = IF current_ip # NoAddr THEN "spawn" ELSE "asleep"
  /\ UNCHANGED <<fake_tcp_injector, injector_thread, current_ip, recent,
                 thr_vars, cl_vars, machine>>

\* Threads bounds the injector threads that are left over at one time.
Free == {j \in Threads : thread[j] = "none"}

\* (A plausible bug: the thread is given the label in place of the address.)
LabelSpawn ==
  /\ mon = "spawn"
  /\ Free # {}
  /\ LET i == CHOOSE j \in Free : TRUE IN
       /\ thread' = [thread EXCEPT ![i] = "create"]
       /\ engine' = [engine EXCEPT ![i] = [ip |-> None, state |-> "unopened"]]
       /\ injector_thread' = i
  /\ mon' = "asleep"
  /\ UNCHANGED <<INTERFACE_IPV4, fake_tcp_injector, current_ip, last_ip, recent, cl_vars, machine>>

\* start_injector(): a new thread runs run_injector_safe(current_ip).
Spawn ==
  /\ mon = "spawn"
  /\ Free # {}
  /\ LET i == CHOOSE j \in Free : TRUE IN
       /\ thread' = [thread EXCEPT ![i] = "create"]
       /\ engine' = [engine EXCEPT ![i] = [ip |-> current_ip, state |-> "unopened"]]
       /\ injector_thread' = i
  /\ mon' = "asleep"
  /\ UNCHANGED <<INTERFACE_IPV4, fake_tcp_injector, current_ip, last_ip, recent, cl_vars, machine>>

Monitor ==
  \/ StartMonitor \/ Tick \/ NothingToStop \/ CloseEngine \/ ClearInjector \/ Publish \/ Spawn

(***************************************************************************)
(* An injector thread: run_injector_safe and TcpInjector.run               *)
(***************************************************************************)
Move(i, l) == thread' = [thread EXCEPT ![i] = l]

\* create_engine() and FakeTcpInjector(); only then stop_injector() can see it.
Register(i) ==
  /\ thread[i] = "create"
  /\ fake_tcp_injector' = i
  /\ Move(i, "open")
  /\ UNCHANGED <<INTERFACE_IPV4, injector_thread, mon_vars, engine, cl_vars, machine>>

\* The engine's __enter__.  A stop before it had no socket to close.
OpenEngine(i) ==
  /\ thread[i] = "open"
  /\ engine' = [engine EXCEPT ![i].state = "open"]
  /\ Move(i, "recv")
  /\ UNCHANGED <<globals, mon_vars, cl_vars, machine>>

\* create_engine, open(), recv() or the state machine raises.
EngineFails(i) ==
  /\ thread[i] \in {"create", "open", "recv"}
  /\ Fail
  /\ Move(i, "ending")
  /\ UNCHANGED <<globals, mon_vars, engine, cl_vars>>

\* A packet of the engine's address wakes recvfrom(): it is handed to the state
\* machine, and the loop goes on unless the socket was closed meanwhile.
LastPacket(i) ==
  /\ thread[i] = "recv" /\ engine[i].state = "closed"
  /\ engine[i].ip = wan
  /\ Move(i, "ending")
  /\ UNCHANGED <<globals, mon_vars, engine, cl_vars, machine>>

\* The end of run_injector_safe: close, and forget "the" injector.
End(i) ==
  /\ thread[i] = "ending"
  /\ engine' = [engine EXCEPT ![i] = NoEngine]
  /\ fake_tcp_injector' = None
  /\ Move(i, "none")
  /\ UNCHANGED <<INTERFACE_IPV4, injector_thread, mon_vars, cl_vars, machine>>

InjectorStep(i) == Register(i) \/ OpenEngine(i) \/ End(i)
InjectorMay(i)  == EngineFails(i) \/ LastPacket(i)

(***************************************************************************)
(* The handlers, up to the registration of the connection.  Each of the    *)
(* three steps reads INTERFACE_IPV4 anew.                                   *)
(***************************************************************************)
CheckAddress(c) ==
  /\ client[c] = "new"
  /\ client' = [client EXCEPT ![c] = IF INTERFACE_IPV4 = NoAddr THEN "refused" ELSE "checked"]
  /\ UNCHANGED <<globals, mon_vars, thr_vars, bound, src_ip, machine>>

Bind(c) ==
  /\ client[c] = "checked"
  /\ INTERFACE_IPV4 \in {wan, NoAddr}
  /\ bound' = [bound EXCEPT ![c] = INTERFACE_IPV4]
  /\ client' = [client EXCEPT ![c] = "bound"]
  /\ UNCHANGED <<globals, mon_vars, thr_vars, src_ip, machine>>

\* The address is not the machine's any more: bind() raises, and the handler
\* ends the process with sys.exit().
BindRaises(c) ==
  /\ client[c] = "checked"
  /\ INTERFACE_IPV4 \notin {wan, NoAddr}
  /\ alive' = FALSE
  /\ UNCHANGED <<globals, mon_vars, thr_vars, cl_vars, wan, changes, failures, respawns>>

RegisterConnection(c) ==
  /\ client[c] = "bound"
  /\ src_ip' = [src_ip EXCEPT ![c] = INTERFACE_IPV4]
  /\ client' = [client EXCEPT ![c] = "registered"]
  /\ UNCHANGED <<globals, mon_vars, thr_vars, bound, machine>>

Handler(c) == CheckAddress(c) \/ Bind(c) \/ BindRaises(c) \/ RegisterConnection(c)

(***************************************************************************)
(* The machine                                                             *)
(***************************************************************************)
\* DHCP, PPPoE: the interface gets, changes or loses its address.
WanChanges ==
  /\ changes < MaxChanges /\ changes' = changes + 1
  /\ \E a \in Address \ {wan} : wan' = a
  /\ UNCHANGED <<globals, mon_vars, thr_vars, cl_vars, alive, failures, respawns>>

\* procd starts a process that has died again.
Respawn ==
  /\ ~ alive /\ alive' = TRUE
  /\ respawns < MaxRespawns /\ respawns' = respawns + 1
  /\ INTERFACE_IPV4' = wan /\ last_ip' = wan /\ current_ip' = wan
  /\ fake_tcp_injector' = None /\ injector_thread' = None
  /\ mon' = "started" /\ recent' = FALSE
  /\ thread' = NoThreads /\ engine' = [i \in Threads |-> NoEngine]
  /\ client' = NoClients /\ bound' = Unbound /\ src_ip' = Unbound
  /\ UNCHANGED <<wan, changes, failures>>

Running ==
  /\ alive
  /\ \/ Monitor \/ BackOff
     \/ \E i \in Threads : InjectorStep(i) \/ InjectorMay(i)
     \/ \E c \in Clients : Handler(c)

Next == Running \/ WanChanges \/ Respawn

Spec == Init /\ [][Next]_vars

\* The poll, the threads that have something to do and procd keep going; nobody
\* owes a packet, a failure, a client or a change of the WAN.
Fairness ==
  /\ WF_vars(alive /\ Monitor) /\ WF_vars(alive /\ BackOff) /\ WF_vars(Respawn)
  /\ \A i \in Threads : WF_vars(alive /\ InjectorStep(i))

FairSpec == Spec /\ Fairness

(***************************************************************************)
(* Properties                                                              *)
(***************************************************************************)
Watching(i) == thread[i] = "recv" /\ engine[i].state = "open"

\* The injector that stop_injector() would close works for the address handlers
\* bind to now: between two ticks no injector of an older address is registered
\* (main.py:517-561; it rests on Prompt: a start takes less than a poll).
InjectorFollowsAddress ==
  mon = "asleep" /\ fake_tcp_injector # None =>
    engine[fake_tcp_injector].ip = INTERFACE_IPV4

\* However the WAN came and went and whatever failed, once it stays as it is,
\* handlers bind to its address and an injector watches it for ever; only a
\* process procd has given up is not repaired (main.py:501-561).
Recovers ==
  \A a \in Address :
    <>[](wan = a) =>
      <>[](alive => INTERFACE_IPV4 = a /\ (a # NoAddr =>
              \E i \in Threads : Watching(i) /\ engine[i].ip = a))

\* "Duplicates are fatal to the state machine, so exact repeats are suppressed
\* here" (raw_socket_engine.py:54-55): a packet of the flow is not handed to the
\* state machine by two injectors.
OneWatcher ==
  \A i, j \in Threads :
    Watching(i) /\ Watching(j) /\ engine[i].ip = engine[j].ip => i = j

\* "handle should not raise exception" (main.py:250).
HandleNeverRaises == alive
===============================================================================
