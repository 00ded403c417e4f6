-------------------------------- MODULE Relay ---------------------------------
(***************************************************************************)
(* The event loop under handle() and relay_main_loop(), src/main.py: each  *)
(* client has a socket to the client ("in") and one to the server ("out"), *)
(* and two tasks that forward and that close BOTH sockets when their       *)
(* direction ends, whatever the other task is waiting for.                 *)
(*                                                                         *)
(* asyncio keeps its waiters by file number (key), the kernel keeps its    *)
(* own list of what to report (epoll) and forgets a number when the        *)
(* socket is closed; asyncio does not learn of that.  The next socket gets *)
(* the lowest free number.                                                 *)
(***************************************************************************)
EXTENDS Naturals, Sequences, FiniteSets

CONSTANTS
  Clients,
  Fds,         \* the file numbers of relayed sockets
  MaxRecv,     \* segments one recv() returns (65575 bytes)
  Room,        \* segments the send buffer of a socket holds
  MaxAtOnce,   \* clients that are served at once
  MaxWrites,   \* segments all the peers write
  MaxTrouble   \* connects refused, connections reset, sockets the injector closes

ASSUME RelayAssumption ==
  /\ Fds \subseteq Nat \ {0} /\ IsFiniteSet(Fds)
  /\ MaxRecv \in Nat \ {0} /\ Room \in Nat \ {0} /\ MaxAtOnce \in Nat \ {0}
  /\ MaxWrites \in Nat /\ MaxTrouble \in Nat

\* A task is named by the socket it reads: <<c, "in">> is handle() and the relay
\* it awaits, <<c, "out">> is oti_task.
Sock == Clients \X {"in", "out"}
Other(s) == <<s[1], IF s[2] = "in" THEN "out" ELSE "in">>
In(c) == <<c, "in">>
Out(c) == <<c, "out">>
None == <<>>

VARIABLES
  \* the sockets
  fd,          \* the number each socket has, or had
  open,        \* the sockets that are open
  \* the event loop
  sel,         \* key: the waiters by number; epoll: what the kernel reports of a
               \* number; cancelled: the tasks whose waiting handle was cancelled
  ready,       \* the callbacks to run: [task, run]
  batch,       \* how many of them belong to this iteration
  cur,         \* the task that is running
  \* the tasks
  at,          \* where each task is
  fut,         \* the future it waits for
  buf,         \* data received and not yet sent
  verdict,     \* what the injector said of each client
  failed,      \* the clients reported as "could not connect"
  \* the kernel and the peers
  con,         \* the connect to the server; "reset" if the connection was reset before
               \* the loop had looked at its SO_ERROR
  rx,          \* received and not yet read
  end,         \* how the peer has ended the stream
  wrote,       \* history: what the peer wrote
  sent,        \* history: what was passed on to the peer
  taken,       \* how much of it the peer has read
  spent,       \* how often the bounded things have happened
  inherited    \* history: clients that got a number asyncio still had a key for

loop_vars == <<sel, ready, batch, cur>>
task_vars == <<at, fut, buf, verdict, failed>>
peer_vars == <<con, rx, end, wrote, sent, taken, spent>>
sock_vars == <<fd, open, inherited>>
vars      == <<loop_vars, task_vars, peer_vars, sock_vars>>

Mode  == {"read", "write"}
Place == {"new", "start", "connect", "gate", "receive", "recv", "send",
          "sending", "failed", "break", "done"}
Item  == [task : Sock, run : {"start", "event", "wake"}]
NoKey == [read |-> None, write |-> None]
Segments == Seq(1 .. MaxWrites)

TypeOK ==
  /\ fd \in [Sock -> Fds \cup {0}] /\ open \subseteq Sock
  /\ sel \in [key : [Fds -> [Mode -> Sock \cup {None}]],
              epoll : [Fds -> SUBSET Mode], cancelled : SUBSET Sock]
  /\ ready \in Seq(Item) /\ batch \in 0 .. Len(ready) /\ cur \in Sock \cup {None}
  /\ at \in [Sock -> Place]
  /\ fut \in [Sock -> {"none", "pending", "data", "ok", "error"}]
  /\ buf \in [Sock -> Segments]
  /\ verdict \in [Clients -> {"none", "good", "bad"}] /\ failed \subseteq Clients
  /\ con \in [Clients -> {"none", "trying", "up", "refused", "reset"}]
  /\ rx \in [Sock -> Segments] /\ wrote \in [Sock -> Segments] /\ sent \in [Sock -> Segments]
  /\ end \in [Sock -> {"open", "eof", "reset"}]
  /\ taken \in [Sock -> 0 .. MaxWrites]
  /\ spent \in [writes : 0 .. MaxWrites, trouble : 0 .. MaxTrouble]
  /\ inherited \subseteq Clients

Init ==
  /\ fd = [s \in Sock |-> 0] /\ open = {} /\ inherited = {}
  /\ sel = [key |-> [n \in Fds |-> NoKey], epoll |-> [n \in Fds |-> {}], cancelled |-> {}]
  /\ ready = <<>> /\ batch = 0 /\ cur = None
  /\ at = [s \in Sock |-> "new"] /\ fut = [s \in Sock |-> "none"]
  /\ buf = [s \in Sock |-> <<>>]
  /\ verdict = [c \in Clients |-> "none"] /\ failed = {}
  /\ con = [c \in Clients |-> "none"]
  /\ rx = [s \in Sock |-> <<>>] /\ wrote = rx /\ sent = rx
  /\ end = [s \in Sock |-> "open"] /\ taken = [s \in Sock |-> 0]
  /\ spent = [writes |-> 0, trouble |-> 0]

(***************************************************************************)
(* The selector: BaseSelectorEventLoop over EpollSelector                  *)
(***************************************************************************)
modes(S, n) == {m \in Mode : S.key[n][m] # None}

\* The key is that of a socket which was closed while asyncio waited for it, and
\* its events have to change: epoll_ctl(MOD) fails.
Raises(S, n, m) == modes(S, n) # {} /\ m \notin modes(S, n) /\ S.epoll[n] = {}

\* (A plausible bug: a second mode is written into the key, but not to the kernel.)
AddFirstHandler(S, t, n, m) ==
  [key |-> [S.key EXCEPT ![n][m] = t],
   epoll |-> IF modes(S, n) = {} THEN [S.epoll EXCEPT ![n] = {m}] ELSE S.epoll,
   cancelled |-> S.cancelled \ {t}]

\* _add_reader, _add_writer: register the number, or change its key.  Where the
\* events stay the same, selector.modify() does not tell the kernel.
AddHandler(S, t, n, m) ==
  IF Raises(S, n, m) THEN [S EXCEPT !.key[n] = NoKey]
  ELSE [key |-> [S.key EXCEPT ![n][m] = t],
        epoll |-> IF m \in modes(S, n) THEN S.epoll
                  ELSE [S.epoll EXCEPT ![n] = modes(S, n) \cup {m}],
        cancelled |-> (S.cancelled \cup ({S.key[n][m]} \ {None})) \ {t}]

\* (A plausible bug: no look whether there is a key.)
RemoveNoHandler(S, t, n, m) ==
  IF t \in S.cancelled THEN S
  ELSE [key |-> [S.key EXCEPT ![n][m] = None],
        epoll |-> [S.epoll EXCEPT ![n] = @ \ {m}],
        cancelled |-> S.cancelled \cup {S.key[n][m]}]

\* _sock_read_done, _sock_write_done: whoever waits at the number now is removed.
RemoveHandler(S, t, n, m) ==
  IF t \in S.cancelled \/ m \notin modes(S, n) THEN S
  ELSE LET rest == modes(S, n) \ {m} IN
       IF rest # {} /\ S.epoll[n] = {} THEN [S EXCEPT !.key[n] = NoKey]
       ELSE [key |-> [S.key EXCEPT ![n][m] = None],
             epoll |-> [S.epoll EXCEPT ![n] = rest],
             cancelled |-> S.cancelled \cup {S.key[n][m]}]

\* close(): the kernel drops the number from its list, asyncio keeps the key.
Gone(f, c, empty) == [f EXCEPT ![In(c)] = empty, ![Out(c)] = empty]
CloseBoth(c) ==
  /\ open' = open \ {In(c), Out(c)}
  /\ rx' = Gone(rx, c, <<>>) /\ end' = Gone(end, c, "open") /\ taken' = Gone(taken, c, 0)
  /\ UNCHANGED <<fd, inherited, con, wrote, sent>>

\* (A plausible bug: a duplicate of the socket stays open, so the kernel goes on
\* reporting it.)
NotDropped(S, c) == S

Dropped(S, c) ==
  [S EXCEPT !.epoll = [n \in Fds |-> IF \E s \in {In(c), Out(c)} \cap open : fd[s] = n
                                     THEN {} ELSE S.epoll[n]]]

\* A new socket gets the lowest number that is free.
Free == {n \in Fds : \A s \in open : fd[s] # n}
Lowest == CHOOSE n \in Free : \A k \in Free : n <= k
OpenSocket(s) ==
  /\ Free # {}
  /\ fd' = [fd EXCEPT ![s] = Lowest]
  /\ open' = open \cup {s}
  /\ inherited' = IF modes(sel, Lowest) = {} THEN inherited ELSE inherited \cup {s[1]}

(***************************************************************************)
(* The loop: select, then run what was ready                               *)
(***************************************************************************)
Wake(t) == ready' = Append(ready, [task |-> t, run |-> "wake"])

SpaceIn(s) == Room + taken[s] - Len(sent[s])

Readable(s) == rx[s] # <<>> \/ end[s] # "open"
Writable(s) ==
  \/ s[2] = "out" /\ con[s[1]] = "refused"
  \/ (s[2] = "out" => con[s[1]] = "up") /\ SpaceIn(s) > 0
  \/ end[s] = "reset"

\* The tasks whose handles epoll_wait() makes ready; one whose future is done
\* already would do nothing.
Reported ==
  {t \in Sock : fut[t] = "pending" /\
     \E s \in open : \E m \in sel.epoll[fd[s]] :
       /\ sel.key[fd[s]][m] = t
       /\ IF m = "read" THEN Readable(s) ELSE Writable(s)}

Select ==
  /\ batch = 0 /\ cur = None
  /\ ready # <<>> \/ Reported # {}
  /\ \E order \in [1 .. Cardinality(Reported) -> Reported] :
       /\ \A t \in Reported : \E i \in DOMAIN order : order[i] = t
       /\ ready' = ready \o [i \in DOMAIN order |-> [task |-> order[i], run |-> "event"]]
  /\ batch' = Len(ready')
  /\ UNCHANGED <<sel, cur, task_vars, peer_vars, sock_vars>>

Runs(t, run) ==
  /\ batch > 0 /\ cur = None
  /\ Head(ready) = [task |-> t, run |-> run]
  /\ batch' = batch - 1

\* A task starts, or goes on after its await: first the callback that takes its
\* handle out of the selector.
Awaited(t) ==
  CASE at[t] = "connect" -> [sock |-> Out(t[1]), mode |-> "write"]
    [] at[t] = "recv"    -> [sock |-> t, mode |-> "read"]
    [] at[t] = "sending" -> [sock |-> Other(t), mode |-> "write"]

GoOn(t, place) == at' = [at EXCEPT ![t] = place] /\ cur' = t /\ ready' = Tail(ready)

\* (A plausible bug: the event is only looked at when it is set.)
WaitNext(t) == at' = [at EXCEPT ![t] = "gate"] /\ cur' = None /\ ready' = Tail(ready)

\* wait_for(t2a_event.wait(), 2): not at once, even if the verdict is there.
WaitVerdict(t) ==
  /\ at' = [at EXCEPT ![t] = "gate"] /\ cur' = None
  /\ ready' = IF verdict[t[1]] = "none" THEN Tail(ready)
              ELSE Append(Tail(ready), [task |-> t, run |-> "wake"])

\* create_task(relay_main_loop(...)), and the other direction right away.
ActOnVerdict(t) ==
  /\ cur' = t
  /\ IF verdict[t[1]] = "good"
     THEN /\ at' = [at EXCEPT ![t] = "receive", ![Other(t)] = "receive"]
          /\ ready' = Append(Tail(ready), [task |-> Other(t), run |-> "start"])
     ELSE at' = [at EXCEPT ![t] = "break"] /\ ready' = Tail(ready)

Resume(t) ==
  /\ \E run \in {"start", "wake"} : Runs(t, run)
  /\ sel' = IF at[t] \in {"connect", "recv", "sending"}
            THEN RemoveHandler(sel, t, fd[Awaited(t).sock], Awaited(t).mode)
            ELSE sel
  /\ fut' = [fut EXCEPT ![t] = "none"]
  /\ \/ at[t] = "connect" /\ fut[t] = "ok" /\ WaitVerdict(t)
     \/ at[t] = "connect" /\ fut[t] # "ok" /\ GoOn(t, "failed")
     \/ at[t] = "gate" /\ ActOnVerdict(t)
     \/ at[t] = "recv" /\ GoOn(t, IF fut[t] = "data" THEN "send" ELSE "break")
     \/ at[t] = "sending" /\ GoOn(t, IF fut[t] = "ok" THEN "receive" ELSE "break")
     \/ at[t] \notin {"connect", "gate", "recv", "sending"} /\ GoOn(t, at[t])
  /\ UNCHANGED <<buf, verdict, failed, peer_vars, sock_vars>>

Suspend == cur' = None

\* The future of t is done: its task is put on the list.
Done(t, result) ==
  /\ fut' = [fut EXCEPT ![t] = result]
  /\ ready' = Append(Tail(ready), [task |-> t, run |-> "wake"])

StillPending == UNCHANGED fut /\ ready' = Tail(ready)

\* sock.recv(): at most MaxRecv of what is there.
Received(t) == SubSeq(rx[t], 1, IF Len(rx[t]) < MaxRecv THEN Len(rx[t]) ELSE MaxRecv)
RecvOutcome(t) ==
  IF t \notin open THEN "error"                 \* EBADF
  ELSE IF rx[t] # <<>> THEN "data"
  ELSE IF end[t] # "open" THEN "error"          \* b"" or ECONNRESET: both end the loop
  ELSE "pending"
TakeReceived(t) ==
  /\ buf' = [buf EXCEPT ![t] = Received(t)]
  /\ rx' = [rx EXCEPT ![t] = SubSeq(@, Len(Received(t)) + 1, Len(@))]
  /\ UNCHANGED <<con, end, wrote, sent, taken, spent>>

\* sock.send(): as much as there is room for.
Sendable(t) == IF Len(buf[t]) < SpaceIn(Other(t)) THEN Len(buf[t]) ELSE SpaceIn(Other(t))
SendOutcome(t) ==
  IF Other(t) \notin open \/ end[Other(t)] = "reset" THEN "error"
  ELSE IF Sendable(t) = Len(buf[t]) THEN "ok" ELSE "pending"
SendSome(t) ==
  /\ sent' = [sent EXCEPT ![Other(t)] = @ \o SubSeq(buf[t], 1, Sendable(t))]
  /\ buf' = [buf EXCEPT ![t] = SubSeq(@, Sendable(t) + 1, Len(@))]
  /\ UNCHANGED <<con, rx, end, wrote, taken, spent>>

\* A handle that was cancelled does not run; one whose future is done does nothing.
Cancelled(t) ==
  /\ Runs(t, "event") /\ (t \in sel.cancelled \/ fut[t] # "pending")
  /\ StillPending
  /\ UNCHANGED <<sel, cur, at, buf, verdict, failed, peer_vars, sock_vars>>

HandleRuns(t) ==
  /\ Runs(t, "event") /\ t \notin sel.cancelled /\ fut[t] = "pending"
  /\ UNCHANGED <<sel, cur, at, verdict, failed, sock_vars>>

\* _sock_connect_cb(): getsockopt() fails on a closed socket, and SO_ERROR tells of a
\* connect that was refused and of a connection that has been reset since.
ConnectCallback(t) ==
  /\ at[t] = "connect" /\ HandleRuns(t)
  /\ Done(t, IF Out(t[1]) \in open /\ con[t[1]] = "up" THEN "ok" ELSE "error")
  /\ UNCHANGED <<buf, peer_vars>>

RecvCallback(t) ==
  /\ at[t] = "recv" /\ HandleRuns(t)
  /\ IF RecvOutcome(t) = "pending" THEN StillPending ELSE Done(t, RecvOutcome(t))
  /\ IF RecvOutcome(t) = "data" THEN TakeReceived(t) ELSE UNCHANGED <<buf, peer_vars>>

SendCallback(t) ==
  /\ at[t] = "sending" /\ HandleRuns(t)
  /\ IF SendOutcome(t) = "pending" THEN StillPending ELSE Done(t, SendOutcome(t))
  /\ IF SendOutcome(t) = "error" THEN UNCHANGED <<buf, peer_vars>> ELSE SendSome(t)

Callback(t) == Cancelled(t) \/ ConnectCallback(t) \/ RecvCallback(t) \/ SendCallback(t)

(***************************************************************************)
(* The coroutines, from one await to the next                              *)
(***************************************************************************)
\* A task of c is about to close its sockets: they do not count any more as the
\* sockets of one of the MaxAtOnce clients.
Parting(c) == \E t \in {In(c), Out(c)} : fut[t] = "error"

\* main(): sock_accept() returns a client, and its handler is put on the list.
Accept(c) ==
  /\ cur = None /\ at[In(c)] = "new"
  /\ Cardinality({d \in Clients : In(d) \in open /\ ~ Parting(d)}) < MaxAtOnce
  /\ OpenSocket(In(c))
  /\ at' = [at EXCEPT ![In(c)] = "start"]
  /\ ready' = Append(ready, [task |-> In(c), run |-> "start"])
  /\ UNCHANGED <<sel, batch, cur, fut, buf, verdict, failed, peer_vars>>

\* await fut: the handle of t is put into the selector, or that raises.
Await(t, n, place, mode, broken) ==
  /\ sel' = AddHandler(sel, t, n, mode)
  /\ IF Raises(sel, n, mode)
     THEN at' = [at EXCEPT ![t] = broken] /\ UNCHANGED <<cur, fut>>
     ELSE /\ at' = [at EXCEPT ![t] = place] /\ Suspend
          /\ fut' = [fut EXCEPT ![t] = "pending"]

\* handle(): the outgoing socket and sock_connect().
Connect(c) ==
  /\ cur = In(c) /\ at[In(c)] = "start"
  /\ OpenSocket(Out(c))
  /\ con' = [con EXCEPT ![c] = "trying"]
  /\ Await(In(c), Lowest, "connect", "write", "failed")
  /\ UNCHANGED <<ready, batch, buf, verdict, failed, rx, end, wrote, sent, taken, spent>>

\* (A plausible bug: the direction whose peer has ended closes nothing, and the
\* other one is left to notice.)
PoliteLeave(t) ==
  /\ cur = t /\ at[t] \in {"failed", "break"} /\ Suspend
  /\ at' = [at EXCEPT ![t] = "done"]
  /\ UNCHANGED <<sel, ready, batch, fut, buf, verdict, failed, peer_vars, sock_vars>>

\* (A plausible bug: a direction closes only the socket it has read.)
LeaveOneSide(t) ==
  /\ cur = t /\ at[t] \in {"failed", "break"} /\ Suspend
  /\ open' = open \ {t}
  /\ at' = [at EXCEPT ![t] = "done"]
  /\ UNCHANGED <<sel, ready, batch, fut, buf, verdict, failed, peer_vars, fd, inherited>>

\* (A plausible bug: the end of a relay is reported like that of a connect.)
LeaveFailed(t) ==
  /\ cur = t /\ at[t] \in {"failed", "break"}
  /\ CloseBoth(t[1]) /\ sel' = Dropped(sel, t[1])
  /\ failed' = failed \cup {t[1]}
  /\ at' = [at EXCEPT ![t] = "done"] /\ Suspend
  /\ UNCHANGED <<ready, batch, fut, buf, verdict, spent>>

\* The finally of relay_main_loop(), and every refusal in handle().  The shutdown before
\* the close changes nothing more: nobody runs between the two.
Leave(t) ==
  /\ cur = t /\ at[t] \in {"failed", "break"}
  /\ CloseBoth(t[1]) /\ sel' = Dropped(sel, t[1])
  /\ failed' = IF at[t] = "failed" THEN failed \cup {t[1]} ELSE failed
  /\ at' = [at EXCEPT ![t] = "done"] /\ Suspend
  /\ UNCHANGED <<ready, batch, fut, buf, verdict, spent>>

\* relay_main_loop(): data = await sock_recv(sock_1, 65575)
SockRecv(t) ==
  /\ cur = t /\ at[t] = "receive"
  /\ \/ /\ RecvOutcome(t) = "error"
        /\ at' = [at EXCEPT ![t] = "break"] /\ UNCHANGED <<sel, cur, fut, buf, peer_vars>>
     \/ /\ RecvOutcome(t) = "data"
        /\ at' = [at EXCEPT ![t] = "send"] /\ TakeReceived(t) /\ UNCHANGED <<sel, cur, fut>>
     \/ /\ RecvOutcome(t) = "pending"
        /\ Await(t, fd[t], "recv", "read", "break") /\ UNCHANGED <<buf, peer_vars>>
  /\ UNCHANGED <<ready, batch, verdict, failed, sock_vars>>

\* (A plausible bug: send() in place of sock_sendall().)
SockSend(t) ==
  /\ cur = t /\ at[t] = "send" /\ SendOutcome(t) # "error"
  /\ at' = [at EXCEPT ![t] = "receive"]
  /\ sent' = [sent EXCEPT ![Other(t)] = @ \o SubSeq(buf[t], 1, Sendable(t))]
  /\ buf' = [buf EXCEPT ![t] = <<>>]
  /\ UNCHANGED <<sel, cur, fut, con, rx, end, wrote, taken, spent>>
  /\ UNCHANGED <<ready, batch, verdict, failed, sock_vars>>

\* await sock_sendall(sock_2, data)
SockSendall(t) ==
  /\ cur = t /\ at[t] = "send"
  /\ \/ /\ SendOutcome(t) = "error"
        /\ at' = [at EXCEPT ![t] = "break"] /\ UNCHANGED <<sel, cur, fut, buf, peer_vars>>
     \/ /\ SendOutcome(t) = "ok"
        /\ at' = [at EXCEPT ![t] = "receive"] /\ SendSome(t) /\ UNCHANGED <<sel, cur, fut>>
     \/ /\ SendOutcome(t) = "pending"
        /\ Await(t, fd[Other(t)], "sending", "write", "break") /\ SendSome(t)
  /\ UNCHANGED <<ready, batch, verdict, failed, sock_vars>>

Coroutine(t) == SockRecv(t) \/ SockSendall(t) \/ Leave(t)

(***************************************************************************)
(* The injector, the kernel and the peers                                  *)
(***************************************************************************)
Count(what, max) ==
  /\ spent[what] < max
  /\ spent' = [spent EXCEPT ![what] = @ + 1]

\* The server accepts or refuses the connection, or cannot be reached.
Answer(c) ==
  /\ cur = None /\ con[c] = "trying" /\ Out(c) \in open
  /\ \/ con' = [con EXCEPT ![c] = "up"] /\ UNCHANGED spent
     \/ con' = [con EXCEPT ![c] = "refused"] /\ Count("trouble", MaxTrouble)
  /\ UNCHANGED <<loop_vars, task_vars, rx, end, wrote, sent, taken, sock_vars>>

\* The injector's verdict, or the end of the 2 s without one.
Decide(c, v) ==
  /\ verdict[c] = "none"
  /\ verdict' = [verdict EXCEPT ![c] = v]
  /\ IF at[In(c)] = "gate" THEN Wake(In(c)) ELSE UNCHANGED ready
  /\ UNCHANGED <<batch, cur, at, fut, buf, failed>>

Verdict(c) ==
  /\ con[c] \in {"up", "reset"} /\ at[In(c)] \in {"connect", "gate"}
  /\ \E v \in {"good", "bad"} :
       /\ v = "bad" => at[In(c)] = "gate"
       /\ Decide(c, v)
  /\ UNCHANGED <<sel, peer_vars, sock_vars>>

\* on_unexpected_packet(): its own thread closes both sockets.
Abort(c) ==
  /\ at[In(c)] \in {"connect", "gate"}
  /\ Decide(c, "bad") /\ CloseBoth(c) /\ sel' = Dropped(sel, c)
  /\ Count("trouble", MaxTrouble)

\* The peers act between two callbacks of the loop: what happens during one is seen
\* by its next recv() or send() all the same.
Connected(s) == cur = None /\ s \in open /\ (s[2] = "out" => con[s[1]] = "up")

PeerWrites(s) ==
  /\ Connected(s) /\ end[s] = "open"
  /\ Count("writes", MaxWrites)
  /\ wrote' = [wrote EXCEPT ![s] = Append(@, Len(@) + 1)]
  /\ rx' = [rx EXCEPT ![s] = Append(@, Len(wrote[s]) + 1)]
  /\ UNCHANGED <<loop_vars, task_vars, con, end, sent, taken, sock_vars>>

PeerReads(s) ==
  /\ Connected(s) /\ taken[s] < Len(sent[s]) /\ end[s] # "reset"
  /\ taken' = [taken EXCEPT ![s] = @ + 1]
  /\ UNCHANGED <<loop_vars, task_vars, con, rx, end, wrote, sent, spent, sock_vars>>

\* The connect of c is still awaited.
Connecting(c) == at[In(c)] = "connect" /\ fut[In(c)] = "pending"

PeerEnds(s) ==
  /\ Connected(s)
  /\ \/ end[s] = "open" /\ end' = [end EXCEPT ![s] = "eof"] /\ UNCHANGED <<con, spent>>
     \/ /\ end[s] # "reset" /\ end' = [end EXCEPT ![s] = "reset"]
        /\ con' = IF s[2] = "out" /\ Connecting(s[1])
                  THEN [con EXCEPT ![s[1]] = "reset"] ELSE con
        /\ Count("trouble", MaxTrouble)
  /\ UNCHANGED <<loop_vars, task_vars, rx, wrote, sent, taken, sock_vars>>

Environment ==
  \/ \E c \in Clients : Accept(c) \/ Answer(c) \/ Verdict(c) \/ Abort(c)
  \/ \E s \in Sock : PeerWrites(s) \/ PeerReads(s) \/ PeerEnds(s)

Loop ==
  \/ Select
  \/ \E t \in Sock : Resume(t) \/ Callback(t) \/ Coroutine(t)
  \/ \E c \in Clients : Connect(c)

Next == Loop \/ Environment

Spec == Init /\ [][Next]_vars

\* The loop runs, the server's kernel answers a SYN (or the connect times out),
\* a verdict comes within 2 s, and a peer reads what it is sent.  Nobody owes a
\* client, a byte or the end of a stream.  (What is owed happens finitely often, so
\* one condition for all of it is as good as one for each.)
Owed ==
  \/ \E c \in Clients : Answer(c) \/ Verdict(c)
  \/ \E s \in Sock : PeerReads(s)

Fairness == WF_vars(Loop) /\ WF_vars(Owed)

FairSpec == Spec /\ Fairness

(***************************************************************************)
(* Properties                                                              *)
(***************************************************************************)
\* While a socket is open, everything its peer wrote was passed on, is in the hand
\* of the task that reads the socket, or is still to be read (relay_main_loop).
NothingLost == \A s \in open : wrote[s] = sent[Other(s)] \o buf[s] \o rx[s]

\* A task that waits for an open socket is known to asyncio AND to the kernel, so
\* the awaits of handle() and relay_main_loop() end when the socket is ready; only
\* a client that got a number with an old key may wait unheard.
Waits(t) == fut[t] = "pending" /\ Awaited(t).sock \in open
WaitersRegistered ==
  \A t \in Sock : Waits(t) /\ t[1] \notin inherited =>
    LET n == fd[Awaited(t).sock]  m == Awaited(t).mode IN
    sel.key[n][m] = t /\ m \in sel.epoll[n] /\ t \notin sel.cancelled

\* No wake-up is lost: a task that has begun and has not ended runs, is on the loop's
\* list, waits for the selector, or waits for a verdict that has not been given.
Begun(t) == at[t] \notin {"new", "done"}
NoTaskForgotten ==
  \A t \in Sock : Begun(t) =>
    \/ cur = t \/ fut[t] = "pending"
    \/ \E i \in 1 .. Len(ready) : ready[i].task = t
    \/ at[t] = "gate" /\ verdict[t[1]] = "none"

\* No event of a socket is handed to a task that waits for another one (two
\* clients, or the two directions of one).
OwnEvents == \A s \in open : \A m \in sel.epoll[fd[s]] :
  LET t == sel.key[fd[s]][m] IN fut[t] = "pending" => Awaited(t) = [sock |-> s, mode |-> m]

\* A relay is two pipes that break together (Pipes).
P == INSTANCE Pipes WITH Ends <- Sock, Peer <- [s \in Sock |-> Other(s)],
                         written <- wrote, delivered <- sent, broken <- Sock \ open
KeepsPipes == P!Spec

\* A client that has ended its connection gets its socket closed, unless it has
\* got a number with an old key.
Released ==
  \A c \in Clients :
    (In(c) \in open /\ end[In(c)] # "open") ~> (In(c) \notin open \/ c \in inherited)

\* "could not connect to {CONNECT_IP}:{CONNECT_PORT}" (main.py:205) is only said of
\* a server that refused.
ConnectErrorIsReal == \A c \in failed : con[c] = "refused"

\* It is said for one of four reasons: the server refused (or could not be reached); the
\* connection came up and was reset before the loop had seen that; the number of one of
\* the client's sockets came with an old key; or the injector has closed the sockets
\* during the connect.
ConnectErrorExplained ==
  \A c \in failed :
    con[c] \in {"refused", "reset"} \/ c \in inherited \/ verdict[c] = "bad"
===============================================================================
