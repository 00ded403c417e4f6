-------------------------------- MODULE Desync --------------------------------
(***************************************************************************)
(* The desync of src/fake_tcp.py and src/main.py: every accepted client    *)
(* gets a TCP connection to the server whose handshake is watched by the   *)
(* injector thread.  On the third packet of the handshake a fake           *)
(* ClientHello with an already acknowledged sequence number is injected by *)
(* an executor thread; only when the server has acknowledged it may the    *)
(* event loop start relaying the client's own bytes.                       *)
(*                                                                         *)
(* Four kinds of thread share the connection object: the asyncio loop      *)
(* (handle), the injector thread (TcpInjector.run), the executor threads   *)
(* (fake_send_thread) and, through the socket, the kernel.                 *)
(***************************************************************************)
EXTENDS Integers, Sequences

CONSTANTS
  Conns,        \* the connections (one per accepted client)
  NoPacket,     \* the injector holds no packet
  SeqMod,       \* number of TCP sequence numbers (2^32 in the code)
  FakeLen,      \* length of the fake ClientHello
  ISNs,         \* initial sequence numbers the two ends may choose
  MaxTrouble,   \* how many faults of the environment a behaviour may show
  Prompt        \* TRUE: the 2 s timer fires only when nothing else can happen

Seqs == 0 .. SeqMod - 1

ASSUME DesyncAssumption ==
  /\ SeqMod \in Nat \ {0}
  /\ FakeLen \in 1 .. SeqMod
  /\ ISNs \subseteq Seqs
  /\ MaxTrouble \in Nat
  /\ Prompt \in BOOLEAN

NoSeq == -1     \* syn_seq and syn_ack_seq before the packet was seen

\* The classes of packets the code's flag tests tell apart.  FAKE is the
\* injected ClientHello: the engine absorbs its echo, it is never captured.
Kinds  == {"SYN", "SYNACK", "ACK", "RST", "FIN", "DATA", "FAKE"}
Packet == [conn : Conns, dir : {"out", "in"}, kind : Kinds, seq : Seqs, ack : Seqs]

ASSUME NoPacketAssumption == NoPacket \notin Packet

Plus(s, n)      == (s + n) % SeqMod
Out(c, k, s, a) == [conn |-> c, dir |-> "out", kind |-> k, seq |-> s, ack |-> a]
In(c, k, s, a)  == [conn |-> c, dir |-> "in", kind |-> k, seq |-> s, ack |-> a]

Connection ==
  [monitor : BOOLEAN, syn_seq : Seqs \cup {NoSeq}, syn_ack_seq : Seqs \cup {NoSeq},
   sch_fake_sent : BOOLEAN, fake_sent : BOOLEAN,
   t2a_msg : {"", "unexpected_close", "fake_data_ack_recv"}, t2a_event : BOOLEAN]

\* The two ends of a TCP connection: own and the other's initial number.
KernelEnd == [state : {"closed", "syn_sent", "established", "reset"}, isn : Seqs, irs : Seqs]
ServerEnd == [state : {"listen", "syn_rcvd", "established"}, isn : Seqs, irs : Seqs]

NewConnection ==
  [monitor |-> TRUE, syn_seq |-> NoSeq, syn_ack_seq |-> NoSeq,
   sch_fake_sent |-> FALSE, fake_sent |-> FALSE,
   t2a_msg |-> "", t2a_event |-> FALSE]

VARIABLES
  \* the event loop
  pc,           \* where handle() of each client is
  diag,         \* what report_desync_timeout() printed for it
  connections,  \* fake_injective_connections: the registered connections
  \* shared between the threads
  conn,         \* the FakeInjectiveConnection objects
  thread_lock,  \* who holds each connection's lock
  sock,         \* the outgoing socket
  peer_sock,    \* the client's socket (incoming_sock)
  \* the injector and the executor
  inj_at, inj_pkt,
  task,         \* the fake_send_thread call of each connection
  fakes,        \* how many times send(packet, True) was called for it
  emitted,      \* the fakes that really left the machine
  \* the environment
  tcp,          \* the kernel's end of each connection
  srv,          \* the server's end
  polluted,     \* connections whose server took fake bytes as stream data
  net,          \* packets in flight; a set: the network may reorder
  capture,      \* packets the engine has captured and recv() not yet returned
  trouble       \* faults so far

loop_vars   == <<pc, diag, connections>>
object_vars == <<conn, thread_lock, sock, peer_sock>>
inj_vars    == <<inj_at, inj_pkt>>
task_vars   == <<task, fakes, emitted>>
srv_vars    == <<srv, polluted>>
vars == <<loop_vars, object_vars, inj_vars, task_vars, tcp, srv_vars, net, capture, trouble>>

TypeOK ==
  /\ pc \in [Conns -> {"idle", "registered", "connecting", "polled", "waiting",
                       "verified", "dropping", "relaying", "streaming", "closed"}]
  /\ diag \in [Conns -> {"none", "rate_limited", "no_syn", "no_syn_ack", "no_fake", "no_ack"}]
  /\ connections \subseteq Conns
  /\ conn \in [Conns -> Connection]
  /\ thread_lock \in [Conns -> {"free", "injector", "executor"}]
  /\ sock \in [Conns -> {"open", "closed"}]
  /\ peer_sock \in [Conns -> {"open", "closed"}]
  /\ inj_at \in {"recv", "lock", "judge"}
  /\ inj_pkt \in Packet \cup {NoPacket}
  /\ inj_at # "recv" => inj_pkt \in Packet
  /\ task \in [Conns -> {"none", "queued", "crafting", "sending", "sent", "dropped"}]
  /\ fakes \in [Conns -> Nat]
  /\ emitted \subseteq Packet
  /\ tcp \in [Conns -> KernelEnd]
  /\ srv \in [Conns -> ServerEnd]
  /\ polluted \subseteq Conns
  /\ net \subseteq Packet
  /\ capture \in Seq(Packet)
  /\ trouble \in 0 .. MaxTrouble

Init ==
  /\ pc = [c \in Conns |-> "idle"]
  /\ diag = [c \in Conns |-> "none"]
  /\ connections = {}
  /\ conn = [c \in Conns |-> NewConnection]
  /\ thread_lock = [c \in Conns |-> "free"]
  /\ sock = [c \in Conns |-> "open"]
  /\ peer_sock = [c \in Conns |-> "open"]
  /\ inj_at = "recv" /\ inj_pkt = NoPacket
  /\ task = [c \in Conns |-> "none"]
  /\ fakes = [c \in Conns |-> 0]
  /\ emitted = {}
  /\ tcp = [c \in Conns |-> [state |-> "closed", isn |-> 0, irs |-> 0]]
  /\ srv = [c \in Conns |-> [state |-> "listen", isn |-> 0, irs |-> 0]]
  /\ polluted = {} /\ net = {} /\ capture = << >> /\ trouble = 0

(***************************************************************************)
(* The event loop: main.handle.  Between two awaits it is not interrupted  *)
(* by other handlers, but the injector and the executor run at any time;   *)
(* the steps below are cut where one of them can see a difference.         *)
(***************************************************************************)
Goto(c, l) == pc' = [pc EXCEPT ![c] = l]

\* The kernel puts p on the wire; the engine's capture taps it.
Transmit(p) == net' = net \cup {p} /\ capture' = Append(capture, p)

\* close() of the outgoing socket; an established connection sends its FIN.
\* (A second close() of a Python socket does nothing.)
CloseSock(c) ==
  /\ sock' = [sock EXCEPT ![c] = "closed"]
  /\ tcp' = [tcp EXCEPT ![c].state = "closed"]
  /\ IF tcp[c].state = "established"
     THEN Transmit(Out(c, "FIN", Plus(tcp[c].isn, 1), Plus(tcp[c].irs, 1)))
     ELSE UNCHANGED <<net, capture>>

ClosePeer(c) == peer_sock' = [peer_sock EXCEPT ![c] = "closed"]

\* The connection object is built and registered before the first SYN.
Accept(c) ==
  /\ pc[c] = "idle"
  /\ conn' = [conn EXCEPT ![c] = NewConnection]
  /\ connections' = connections \cup {c}
  /\ Goto(c, "registered")
  /\ UNCHANGED <<diag, thread_lock, sock, peer_sock, inj_vars, task_vars, tcp, srv_vars,
                 net, capture, trouble>>

\* sock_connect: the kernel sends the SYN and the loop waits for the socket.
SockConnect(c) ==
  /\ pc[c] = "registered"
  /\ \E s \in ISNs :
       /\ tcp' = [tcp EXCEPT ![c] = [state |-> "syn_sent", isn |-> s, irs |-> 0]]
       /\ Transmit(Out(c, "SYN", s, 0))
  /\ Goto(c, "connecting")
  /\ UNCHANGED <<diag, connections, object_vars, inj_vars, task_vars, srv_vars, trouble>>

\* The selector reports the socket.  A socket closed by another thread has
\* left the kernel's interest list and is never reported.
Poll(c) ==
  /\ pc[c] = "connecting"
  /\ sock[c] = "open"
  /\ tcp[c].state \in {"established", "reset"}
  /\ Goto(c, "polled")
  /\ UNCHANGED <<diag, connections, object_vars, inj_vars, task_vars, tcp, srv_vars,
                 net, capture, trouble>>

\* The loop's callback reads SO_ERROR and resumes the handler.
Connected(c) ==
  /\ pc[c] = "polled"
  /\ tcp[c].state = "established"
  /\ Goto(c, "waiting")
  /\ UNCHANGED <<diag, connections, object_vars, inj_vars, task_vars, tcp, srv_vars,
                 net, capture, trouble>>

ConnectFails(c) ==
  /\ pc[c] = "polled"
  /\ tcp[c].state # "established"
  /\ CloseSock(c) /\ ClosePeer(c)
  /\ Goto(c, "dropping")
  /\ UNCHANGED <<diag, connections, conn, thread_lock, inj_vars, task_vars, srv_vars, trouble>>

\* The event was set: the verdict decides.
WakeVerified(c) ==
  /\ pc[c] = "waiting"
  /\ conn[c].t2a_event /\ conn[c].t2a_msg = "fake_data_ack_recv"
  /\ Goto(c, "verified")
  /\ UNCHANGED <<diag, connections, object_vars, inj_vars, task_vars, tcp, srv_vars,
                 net, capture, trouble>>

WakeAborted(c) ==
  /\ pc[c] = "waiting"
  /\ conn[c].t2a_event /\ conn[c].t2a_msg = "unexpected_close"
  /\ CloseSock(c) /\ ClosePeer(c)
  /\ Goto(c, "dropping")
  /\ UNCHANGED <<diag, connections, conn, thread_lock, inj_vars, task_vars, srv_vars, trouble>>

\* Nothing is left to happen to c but the timer.
Settled(c) ==
  /\ ~ conn[c].t2a_event
  /\ \A p \in net : p.conn # c
  /\ \A i \in DOMAIN capture : capture[i].conn # c
  /\ inj_at # "recv" => inj_pkt.conn # c
  /\ task[c] \notin {"queued", "crafting", "sending"}

\* report_desync_timeout: the first milestone that was not reached.
Diagnosis(c) ==
  IF conn[c].syn_seq = NoSeq THEN "no_syn"
  ELSE IF conn[c].syn_ack_seq = NoSeq THEN "no_syn_ack"
  ELSE IF ~ conn[c].fake_sent THEN "no_fake"
  ELSE "no_ack"

\* wait_for gives up after 2 s, even if the verdict arrives at that moment.
Timeout(c) ==
  /\ pc[c] = "waiting"
  /\ Prompt => Settled(c)
  /\ \E d \in {Diagnosis(c), "rate_limited"} : diag' = [diag EXCEPT ![c] = d]
  /\ CloseSock(c) /\ ClosePeer(c)
  /\ Goto(c, "dropping")
  /\ UNCHANGED <<connections, conn, thread_lock, inj_vars, task_vars, srv_vars, trouble>>

\* The finally block, without the lock; then the relay starts, or it is over.
Finally(c) ==
  /\ pc[c] \in {"verified", "dropping"}
  /\ conn' = [conn EXCEPT ![c].monitor = FALSE]
  /\ connections' = connections \ {c}
  /\ Goto(c, IF pc[c] = "verified" THEN "relaying" ELSE "closed")
  /\ UNCHANGED <<diag, thread_lock, sock, peer_sock, inj_vars, task_vars, tcp, srv_vars,
                 net, capture, trouble>>

\* The first bytes of the client leave for the server.
RelayData(c) ==
  /\ pc[c] = "relaying"
  /\ tcp[c].state = "established"
  /\ Transmit(Out(c, "DATA", Plus(tcp[c].isn, 1), Plus(tcp[c].irs, 1)))
  /\ Goto(c, "streaming")
  /\ UNCHANGED <<diag, connections, object_vars, inj_vars, task_vars, tcp, srv_vars, trouble>>

Handler(c) ==
  \/ SockConnect(c) \/ Poll(c) \/ Connected(c) \/ ConnectFails(c)
  \/ WakeVerified(c) \/ WakeAborted(c) \/ Timeout(c) \/ Finally(c) \/ RelayData(c)

(***************************************************************************)
(* The injector thread: TcpInjector.run and FakeTcpInjector.inject.        *)
(***************************************************************************)
Recv ==
  /\ inj_at = "recv"
  /\ capture # << >>
  /\ capture' = Tail(capture)
  /\ IF Head(capture).conn \in connections
     THEN inj_at' = "lock" /\ inj_pkt' = Head(capture)
     ELSE UNCHANGED inj_vars
  /\ UNCHANGED <<loop_vars, object_vars, task_vars, tcp, srv_vars, net, trouble>>

\* (A plausible bug: the monitor flag is not looked at again under the lock.)
UncheckedAcquireLock ==
  /\ inj_at = "lock"
  /\ thread_lock[inj_pkt.conn] = "free"
  /\ thread_lock' = [thread_lock EXCEPT ![inj_pkt.conn] = "injector"]
  /\ inj_at' = "judge"
  /\ UNCHANGED <<loop_vars, conn, sock, peer_sock, inj_pkt, task_vars, tcp, srv_vars,
                 net, capture, trouble>>

AcquireLock ==
  LET c == inj_pkt.conn IN
  /\ inj_at = "lock"
  /\ thread_lock[c] = "free"
  /\ IF conn[c].monitor
     THEN /\ thread_lock' = [thread_lock EXCEPT ![c] = "injector"]
          /\ inj_at' = "judge"
          /\ UNCHANGED inj_pkt
     ELSE /\ inj_at' = "recv" /\ inj_pkt' = NoPacket
          /\ UNCHANGED thread_lock
  /\ UNCHANGED <<loop_vars, conn, sock, peer_sock, task_vars, tcp, srv_vars,
                 net, capture, trouble>>

\* What each state of a connection expects of the packet at hand.
SynExpected(c, p) ==
  /\ p.dir = "out" /\ p.kind = "SYN" /\ ~ conn[c].sch_fake_sent
  /\ p.ack = 0
  /\ conn[c].syn_seq \in {NoSeq, p.seq}

SynAckExpected(c, p) ==
  /\ p.dir = "in" /\ p.kind = "SYNACK" /\ conn[c].syn_seq # NoSeq
  /\ conn[c].syn_ack_seq \in {NoSeq, p.seq}
  /\ p.ack = Plus(conn[c].syn_seq, 1)

\* (A plausible bug: the comparison forgets that sequence numbers wrap.)
UnwrappedFinalAck(c, p) ==
  /\ p.dir = "out" /\ p.kind = "ACK" /\ ~ conn[c].sch_fake_sent
  /\ conn[c].syn_seq # NoSeq /\ p.seq = conn[c].syn_seq + 1
  /\ conn[c].syn_ack_seq # NoSeq /\ p.ack = Plus(conn[c].syn_ack_seq, 1)

FinalAckExpected(c, p) ==
  /\ p.dir = "out" /\ p.kind = "ACK" /\ ~ conn[c].sch_fake_sent
  /\ conn[c].syn_seq # NoSeq /\ p.seq = Plus(conn[c].syn_seq, 1)
  /\ conn[c].syn_ack_seq # NoSeq /\ p.ack = Plus(conn[c].syn_ack_seq, 1)

FakeAckExpected(c, p) ==
  /\ p.dir = "in" /\ p.kind = "ACK" /\ conn[c].syn_seq # NoSeq /\ conn[c].fake_sent
  /\ conn[c].syn_ack_seq # NoSeq /\ p.seq = Plus(conn[c].syn_ack_seq, 1)
  /\ p.ack = Plus(conn[c].syn_seq, 1)

Expected(c, p) ==
  \/ SynExpected(c, p) \/ SynAckExpected(c, p)
  \/ FinalAckExpected(c, p) \/ FakeAckExpected(c, p)

\* The injector leaves the lock and goes back to recv().
ReleaseLock(c) ==
  /\ thread_lock' = [thread_lock EXCEPT ![c] = "free"]
  /\ inj_at' = "recv" /\ inj_pkt' = NoPacket

\* The end of monitoring: the verdict for the loop, and the event that wakes it.
Verdict(c, m) ==
  conn' = [conn EXCEPT ![c] = [@ EXCEPT !.monitor = FALSE, !.t2a_msg = m, !.t2a_event = TRUE]]

OnSyn(c, p) ==
  /\ SynExpected(c, p)
  /\ conn' = [conn EXCEPT ![c].syn_seq = p.seq]
  /\ ReleaseLock(c)
  /\ UNCHANGED <<loop_vars, sock, peer_sock, task_vars, tcp, srv_vars, net, capture, trouble>>

OnSynAck(c, p) ==
  /\ SynAckExpected(c, p)
  /\ conn' = [conn EXCEPT ![c].syn_ack_seq = p.seq]
  /\ ReleaseLock(c)
  /\ UNCHANGED <<loop_vars, sock, peer_sock, task_vars, tcp, srv_vars, net, capture, trouble>>

\* (A plausible bug: the fake is scheduled again for every handshake ACK.)
RepeatedFinalAck(c, p) ==
  /\ FinalAckExpected(c, p)
  /\ task' = [task EXCEPT ![c] = "queued"]
  /\ ReleaseLock(c)
  /\ UNCHANGED <<loop_vars, conn, sock, peer_sock, fakes, emitted, tcp, srv_vars,
                 net, capture, trouble>>

OnFinalAck(c, p) ==
  /\ FinalAckExpected(c, p)
  /\ conn' = [conn EXCEPT ![c].sch_fake_sent = TRUE]
  /\ task' = [task EXCEPT ![c] = "queued"]
  /\ ReleaseLock(c)
  /\ UNCHANGED <<loop_vars, sock, peer_sock, fakes, emitted, tcp, srv_vars,
                 net, capture, trouble>>

\* (A plausible bug: the verdict leaves the connection monitored.)
MonitoredFakeAck(c, p) ==
  /\ FakeAckExpected(c, p)
  /\ conn' = [conn EXCEPT ![c].t2a_msg = "fake_data_ack_recv", ![c].t2a_event = TRUE]
  /\ ReleaseLock(c)
  /\ UNCHANGED <<loop_vars, sock, peer_sock, task_vars, tcp, srv_vars, net, capture, trouble>>

OnFakeAck(c, p) ==
  /\ FakeAckExpected(c, p)
  /\ Verdict(c, "fake_data_ack_recv")
  /\ ReleaseLock(c)
  /\ UNCHANGED <<loop_vars, sock, peer_sock, task_vars, tcp, srv_vars, net, capture, trouble>>

\* (A plausible bug: only the outgoing socket is closed.)
UnexpectedKeepsPeer(c, p) ==
  /\ ~ Expected(c, p)
  /\ CloseSock(c)
  /\ Verdict(c, "unexpected_close")
  /\ ReleaseLock(c)
  /\ UNCHANGED <<loop_vars, peer_sock, task_vars, srv_vars, trouble>>

OnUnexpected(c, p) ==
  /\ ~ Expected(c, p)
  /\ CloseSock(c) /\ ClosePeer(c)
  /\ Verdict(c, "unexpected_close")
  /\ ReleaseLock(c)
  /\ UNCHANGED <<loop_vars, task_vars, srv_vars, trouble>>

Judge ==
  LET c == inj_pkt.conn IN
  /\ inj_at = "judge"
  /\ \/ OnSyn(c, inj_pkt) \/ OnSynAck(c, inj_pkt) \/ OnFinalAck(c, inj_pkt)
     \/ OnFakeAck(c, inj_pkt) \/ OnUnexpected(c, inj_pkt)

Injector == Recv \/ AcquireLock \/ Judge

(***************************************************************************)
(* An executor thread: fake_send_thread, after its 1 ms sleep.             *)
(***************************************************************************)
\* (A plausible bug: the lock is not kept until the fake is sent.)
UnlockedTask(c) ==
  /\ task[c] = "queued"
  /\ task' = [task EXCEPT ![c] = IF conn[c].monitor THEN "crafting" ELSE "dropped"]
  /\ UNCHANGED <<loop_vars, object_vars, inj_vars, fakes, emitted, tcp, srv_vars,
                 net, capture, trouble>>

TaskLock(c) ==
  /\ task[c] = "queued"
  /\ thread_lock[c] = "free"
  /\ IF conn[c].monitor
     THEN /\ task' = [task EXCEPT ![c] = "crafting"]
          /\ thread_lock' = [thread_lock EXCEPT ![c] = "executor"]
     ELSE /\ task' = [task EXCEPT ![c] = "dropped"]
          /\ UNCHANGED thread_lock
  /\ UNCHANGED <<loop_vars, conn, sock, peer_sock, inj_vars, fakes, emitted, tcp, srv_vars,
                 net, capture, trouble>>

\* (A plausible bug: the packet is sent, but fake_sent stays False.)
UnmarkedSend(c) ==
  /\ task[c] = "crafting"
  /\ task' = [task EXCEPT ![c] = "sending"]
  /\ UNCHANGED <<loop_vars, object_vars, inj_vars, fakes, emitted, tcp, srv_vars,
                 net, capture, trouble>>

MarkSent(c) ==
  /\ task[c] = "crafting"
  /\ conn' = [conn EXCEPT ![c].fake_sent = TRUE]
  /\ task' = [task EXCEPT ![c] = "sending"]
  /\ UNCHANGED <<loop_vars, thread_lock, sock, peer_sock, inj_vars, fakes, emitted, tcp,
                 srv_vars, net, capture, trouble>>

\* (Plausible bugs: the mask is forgotten; the fake ends one byte late.)
UnmaskedFakePacket(c) ==
  Out(c, "FAKE", conn[c].syn_seq + 1 - FakeLen, Plus(conn[c].syn_ack_seq, 1))
LateFakePacket(c) ==
  Out(c, "FAKE", Plus(conn[c].syn_seq, 2 - FakeLen), Plus(conn[c].syn_ack_seq, 1))

\* send(packet, True).  A send that raises is lost in the executor's future.
FakePacket(c) ==
  Out(c, "FAKE", Plus(conn[c].syn_seq, 1 - FakeLen), Plus(conn[c].syn_ack_seq, 1))

SendFake(c) ==
  /\ task[c] = "sending"
  /\ \/ /\ net' = net \cup {FakePacket(c)}
        /\ emitted' = emitted \cup {FakePacket(c)}
        /\ UNCHANGED trouble
     \/ /\ trouble < MaxTrouble /\ trouble' = trouble + 1
        /\ UNCHANGED <<net, emitted>>
  /\ fakes' = [fakes EXCEPT ![c] = @ + 1]
  /\ task' = [task EXCEPT ![c] = "sent"]
  /\ thread_lock' = [thread_lock EXCEPT ![c] = "free"]
  /\ UNCHANGED <<loop_vars, conn, sock, peer_sock, inj_vars, tcp, srv_vars, capture>>

Executor(c) == TaskLock(c) \/ MarkSent(c) \/ SendFake(c)

(***************************************************************************)
(* The environment: the kernel's TCP, the server and the network.          *)
(***************************************************************************)
env_same == <<loop_vars, object_vars, inj_vars, task_vars>>

\* A packet reaches the machine: the engine sees it, then the kernel's TCP.
KernelSynAck(c, p) ==
  /\ p.dir = "in" /\ p.kind = "SYNACK"
  /\ LET irs   == IF tcp[c].state = "syn_sent" THEN p.seq ELSE tcp[c].irs
         reply == IF tcp[c].state \in {"syn_sent", "established"}
                  THEN Out(c, "ACK", Plus(tcp[c].isn, 1), Plus(irs, 1))
                  ELSE Out(c, "RST", p.ack, 0)
     IN /\ capture' = capture \o <<p, reply>>
        /\ net' = (net \ {p}) \cup {reply}
  /\ tcp' = IF tcp[c].state = "syn_sent"
            THEN [tcp EXCEPT ![c] = [@ EXCEPT !.state = "established", !.irs = p.seq]]
            ELSE tcp
  /\ UNCHANGED <<env_same, srv_vars, trouble>>

KernelOther(c, p) ==
  /\ p.dir = "in" /\ p.kind \in {"ACK", "RST"}
  /\ capture' = Append(capture, p)
  /\ net' = net \ {p}
  /\ tcp' = IF p.kind = "RST" /\ tcp[c].state \in {"syn_sent", "established"}
            THEN [tcp EXCEPT ![c].state = "reset"]
            ELSE tcp
  /\ UNCHANGED <<env_same, srv_vars, trouble>>

\* A packet reaches the server, which may answer.
Answer(p, replies) == net' = (net \ {p}) \cup replies

ServerAck(c, n) == In(c, "ACK", Plus(srv[c].isn, 1), Plus(srv[c].irs, n))

ServerSyn(c, p) ==
  /\ p.kind = "SYN"
  /\ \/ /\ srv[c].state = "listen"
        /\ \E s \in ISNs :
             /\ srv' = [srv EXCEPT ![c] = [state |-> "syn_rcvd", isn |-> s, irs |-> p.seq]]
             /\ Answer(p, {In(c, "SYNACK", s, Plus(p.seq, 1))})
     \/ /\ srv[c].state = "syn_rcvd"
        /\ Answer(p, {In(c, "SYNACK", srv[c].isn, Plus(srv[c].irs, 1))})
        /\ UNCHANGED srv
     \/ /\ srv[c].state = "established"       \* a challenge ACK (RFC 5961)
        /\ Answer(p, {ServerAck(c, 1)})
        /\ UNCHANGED srv
  /\ UNCHANGED polluted

ServerFinalAck(c, p) ==
  /\ p.kind \in {"ACK", "RST"}
  /\ srv' = [srv EXCEPT ![c].state =
               IF p.kind = "RST" THEN "listen"
               ELSE IF @ = "syn_rcvd" /\ p.ack = Plus(srv[c].isn, 1) THEN "established"
               ELSE @]
  /\ Answer(p, {})
  /\ UNCHANGED polluted

\* Bytes that end at or before the next expected one are old: discarded and
\* acknowledged.  Bytes beyond it are taken into the stream.
ServerFake(c, p) ==
  /\ p.kind = "FAKE"
  /\ IF srv[c].state = "listen"
     THEN Answer(p, {In(c, "RST", p.ack, 0)}) /\ UNCHANGED polluted
     ELSE LET beyond == (p.seq + FakeLen - (srv[c].irs + 1)) % SeqMod IN
          IF beyond \in 1 .. SeqMod \div 2
          THEN Answer(p, {ServerAck(c, 1 + beyond)}) /\ polluted' = polluted \cup {c}
          ELSE Answer(p, {ServerAck(c, 1)}) /\ UNCHANGED polluted
  /\ UNCHANGED srv

ServerStream(c, p) ==
  /\ p.kind \in {"FIN", "DATA"}
  /\ Answer(p, IF srv[c].state = "established" THEN {ServerAck(c, 2)} ELSE {})
  /\ UNCHANGED srv_vars

Server(c, p) ==
  /\ p.dir = "out"
  /\ ServerSyn(c, p) \/ ServerFinalAck(c, p) \/ ServerFake(c, p) \/ ServerStream(c, p)
  /\ UNCHANGED <<env_same, tcp, capture, trouble>>

Deliver(c) ==
  \E p \in net : p.conn = c /\ (KernelSynAck(c, p) \/ KernelOther(c, p) \/ Server(c, p))

\* The kernel gives up on a connect none of whose packets is alive (ETIMEDOUT).
ConnectGivesUp(c) ==
  /\ tcp[c].state = "syn_sent"
  /\ \A p \in net : p.conn # c
  /\ tcp' = [tcp EXCEPT ![c].state = "reset"]
  /\ UNCHANGED <<env_same, srv_vars, net, capture, trouble>>

(***************************************************************************)
(* The faults, at most MaxTrouble of them in a behaviour.                  *)
(***************************************************************************)
Lose(c) ==
  /\ \E p \in net : p.conn = c /\ net' = net \ {p}
  /\ UNCHANGED <<tcp, srv, capture>>

\* The capture buffer overflowed, or the filter missed the packet.
Miss(c) ==
  /\ capture # << >> /\ Head(capture).conn = c
  /\ capture' = Tail(capture)
  /\ UNCHANGED <<tcp, srv, net>>

RetransmitSyn(c) ==
  /\ tcp[c].state = "syn_sent"
  /\ Transmit(Out(c, "SYN", tcp[c].isn, 0))
  /\ UNCHANGED <<tcp, srv>>

RetransmitSynAck(c) ==
  /\ srv[c].state = "syn_rcvd"
  /\ net' = net \cup {In(c, "SYNACK", srv[c].isn, Plus(srv[c].irs, 1))}
  /\ UNCHANGED <<tcp, srv, capture>>

\* A reset by the server or by a middlebox.
Reset(c) ==
  /\ tcp[c].state \in {"syn_sent", "established"}
  /\ net' = net \cup {In(c, "RST", Plus(tcp[c].irs, 1), Plus(tcp[c].isn, 1))}
  /\ UNCHANGED <<tcp, srv, capture>>

\* The server restarts or drops the half-open connection.
ServerForgets(c) ==
  /\ srv[c].state = "syn_rcvd"
  /\ srv' = [srv EXCEPT ![c].state = "listen"]
  /\ UNCHANGED <<tcp, net, capture>>

Fault(c) ==
  /\ trouble < MaxTrouble /\ trouble' = trouble + 1
  /\ \/ Lose(c) \/ Miss(c) \/ RetransmitSyn(c) \/ RetransmitSynAck(c)
     \/ Reset(c) \/ ServerForgets(c)
  /\ UNCHANGED <<env_same, polluted>>

(***************************************************************************)
(* The specification                                                       *)
(***************************************************************************)
\* Every handler is over and the wire is quiet.
Finished ==
  /\ \A c \in Conns : pc[c] \in {"relaying", "streaming", "closed"}
  /\ net = {} /\ capture = << >> /\ inj_at = "recv"
  /\ \A c \in Conns : task[c] \in {"none", "sent", "dropped"}
  /\ UNCHANGED vars

Step(c) == Accept(c) \/ Handler(c) \/ Executor(c) \/ Deliver(c) \/ ConnectGivesUp(c) \/ Fault(c)

Next == (\E c \in Conns : Step(c)) \/ Injector \/ Finished

Spec == Init /\ [][Next]_vars

\* The loop, the threads and the kernel keep running; only the faults and the
\* arrival of a client are not owed.
Fairness ==
  /\ WF_vars(Injector)
  /\ \A c \in Conns : /\ WF_vars(Handler(c)) /\ WF_vars(Executor(c))
                      /\ WF_vars(Deliver(c)) /\ WF_vars(ConnectGivesUp(c))

FairSpec == Spec /\ Fairness
(***************************************************************************)
(* Properties                                                              *)
(***************************************************************************)
Relayed(c) == pc[c] \in {"relaying", "streaming"}

\* The relay starts only after fake_send_thread has called send(packet, True)
\* for that connection, exactly once, and has returned: no fake can follow the
\* client's own bytes (fake_tcp.py:47-61, 108-125 and main.py:226-246).
FakeBeforeRelay ==
  \A c \in Conns : Relayed(c) => fakes[c] = 1 /\ task[c] = "sent"

\* Every connection keeps what RelayGate promises of it.
Phase(c) == CASE pc[c] = "idle" -> "new"
              [] Relayed(c) -> "open"
              [] pc[c] \in {"dropping", "closed"} -> "refused"
              [] OTHER -> "gated"

Gate == INSTANCE RelayGate WITH phase <- [c \in Conns |-> Phase(c)], attempts <- fakes

\* The gate opens for a client at most once, never after it was refused, and the
\* one attempt to send the fake lies before it (main.py:201-246, fake_tcp.py:45-61).
KeepsGate == Gate!Spec

\* Whatever the injector and the executor still have in hand, they never close
\* the sockets of a connection that is being relayed (fake_tcp.py:79-80).
RelayUndisturbed ==
  \A c \in Conns : Relayed(c) => sock[c] = "open" /\ peer_sock[c] = "open"

\* The server never takes a byte of the fake ClientHello into its stream: the
\* fake ends where the server's next expected byte begins (fake_tcp.py:59).
ServerStreamClean == polluted = {}

\* The verdict the injector hands to the loop is given once and never changed,
\* whatever is still captured afterwards (fake_tcp.py:81-83, 122-124).
VerdictOnce ==
  [][\A c \in Conns : conn[c].t2a_msg # "" => conn'[c].t2a_msg = conn[c].t2a_msg]_vars

\* Every accepted client is relayed or has its socket closed, even the one
\* whose handler waits for ever in sock_connect (fake_tcp.py:80).
ClientNeverStalls ==
  \A c \in Conns : pc[c] = "registered" ~> (Relayed(c) \/ peer_sock[c] = "closed")

\* "The fake ClientHello was never injected" (main.py:309): report_desync_timeout()
\* reads the object without the lock, and yet does not say so of a fake that is out.
NoFakeReportTrue ==
  [][\A c \in Conns : diag'[c] # diag[c] /\ diag'[c] = "no_fake" => fakes[c] = 0]_vars

\* "The state machine reaches fake_data_ack_recv (the wrong-seq fake ClientHello
\* was injected and acknowledged by the peer)" (tests/net_e2e.py:6-7).
VerdictMeansFakeSent ==
  \A c \in Conns :
    conn[c].t2a_msg = "fake_data_ack_recv" => \E p \in emitted : p.conn = c

\* Without faults, and when the threads keep up with the 2 s timer, every
\* accepted client is relayed.
BenignRelays == \A c \in Conns : pc[c] = "registered" ~> Relayed(c)
===============================================================================
