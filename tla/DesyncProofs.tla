----------------------------- MODULE DesyncProofs -----------------------------
(* Theorems about Desync for every set of connections, every modulus and *)
(* any number of faults. *)
EXTENDS Desync, TLAPS

USE DesyncAssumption, NoPacketAssumption

\* Every computed sequence number is a sequence number, whatever was added.
LEMMA PlusType == ASSUME NEW s \in Int, NEW n \in Int PROVE Plus(s, n) \in Seqs
  BY DEF Plus, Seqs

LEMMA SeqsAreInts == Seqs \subseteq Int
  BY DEF Seqs

LEMMA NextSeq == ASSUME NEW s \in Seqs PROVE Plus(s, 1) \in Seqs
<1>1. s \in Int
  BY SeqsAreInts
<1> QED  BY <1>1, PlusType

LEMMA KindNames ==
  /\ "SYN" \in Kinds /\ "SYNACK" \in Kinds /\ "ACK" \in Kinds /\ "RST" \in Kinds
  /\ "FIN" \in Kinds /\ "DATA" \in Kinds /\ "FAKE" \in Kinds
  BY DEF Kinds

LEMMA PacketType ==
  ASSUME NEW c \in Conns, NEW k \in Kinds, NEW s \in Seqs, NEW a \in Seqs
  PROVE  Out(c, k, s, a) \in Packet /\ In(c, k, s, a) \in Packet
  BY DEF Out, In, Packet

LEMMA TransmitType ==
  ASSUME TypeOK, NEW p \in Packet, Transmit(p)
  PROVE  net' \subseteq Packet /\ capture' \in Seq(Packet)
  BY DEF TypeOK, Transmit

LEMMA SeqOrNone == Seqs \cup {NoSeq} \subseteq Int
  BY DEF NoSeq, Seqs

LEMMA ConnFields ==
  ASSUME conn \in [Conns -> Connection], NEW c \in Conns
  PROVE  /\ conn[c].syn_seq \in Seqs \cup {NoSeq}
         /\ conn[c].syn_ack_seq \in Seqs \cup {NoSeq}
  BY DEF Connection

LEMMA ConnUpdates ==
  ASSUME conn \in [Conns -> Connection], NEW c \in Conns, NEW s \in Seqs
  PROVE  /\ [conn EXCEPT ![c].monitor = FALSE] \in [Conns -> Connection]
         /\ [conn EXCEPT ![c].syn_seq = s] \in [Conns -> Connection]
         /\ [conn EXCEPT ![c].syn_ack_seq = s] \in [Conns -> Connection]
         /\ [conn EXCEPT ![c].sch_fake_sent = TRUE] \in [Conns -> Connection]
         /\ [conn EXCEPT ![c].fake_sent = TRUE] \in [Conns -> Connection]
<1>1. [conn EXCEPT ![c].monitor = FALSE] \in [Conns -> Connection]
  BY ZenonT(30) DEF Connection
<1>2. [conn EXCEPT ![c].syn_seq = s] \in [Conns -> Connection]
  BY ZenonT(30) DEF Connection
<1>3. [conn EXCEPT ![c].syn_ack_seq = s] \in [Conns -> Connection]
  BY ZenonT(30) DEF Connection
<1>4. [conn EXCEPT ![c].sch_fake_sent = TRUE] \in [Conns -> Connection]
  BY ZenonT(30) DEF Connection
<1>5. [conn EXCEPT ![c].fake_sent = TRUE] \in [Conns -> Connection]
  BY ZenonT(30) DEF Connection
<1> QED  BY <1>1, <1>2, <1>3, <1>4, <1>5

LEMMA VerdictType ==
  ASSUME conn \in [Conns -> Connection], NEW c \in Conns,
         NEW m \in {"unexpected_close", "fake_data_ack_recv"}, Verdict(c, m)
  PROVE  conn' \in [Conns -> Connection]
<1>1. [conn[c] EXCEPT !.monitor = FALSE, !.t2a_msg = m, !.t2a_event = TRUE] \in Connection
  BY DEF Connection
<1> QED  BY <1>1 DEF Verdict

LEMMA CloseSockType ==
  ASSUME TypeOK, NEW c \in Conns, CloseSock(c)
  PROVE  /\ sock' \in [Conns -> {"open", "closed"}]
         /\ tcp' \in [Conns -> KernelEnd]
         /\ net' \subseteq Packet /\ capture' \in Seq(Packet)
<1>1. sock' \in [Conns -> {"open", "closed"}]
  BY DEF TypeOK, CloseSock
<1>2. tcp' \in [Conns -> KernelEnd]
  BY DEF TypeOK, CloseSock, KernelEnd
<1>3. Out(c, "FIN", Plus(tcp[c].isn, 1), Plus(tcp[c].irs, 1)) \in Packet
  <2>1. tcp[c].isn \in Int /\ tcp[c].irs \in Int
    BY SeqsAreInts DEF TypeOK, KernelEnd
  <2>2. Plus(tcp[c].isn, 1) \in Seqs /\ Plus(tcp[c].irs, 1) \in Seqs
    BY <2>1, PlusType
  <2> QED  BY <2>2, PacketType, KindNames
<1>4. net' \subseteq Packet /\ capture' \in Seq(Packet)
  BY <1>3, TransmitType DEF TypeOK, CloseSock
<1> QED  BY <1>1, <1>2, <1>4

-------------------------------------------------------------------------------
(* Type correctness *)

\* The unchanged groups of variables, expanded.
LEMMA TypeStutter == ASSUME TypeOK, UNCHANGED vars PROVE TypeOK'
  BY DEF TypeOK, vars, loop_vars, object_vars, inj_vars, task_vars, srv_vars

LEMMA TypeHandler ==
  ASSUME TypeOK, NEW c \in Conns, Accept(c) \/ Handler(c)
  PROVE  TypeOK'
<1> USE DEF loop_vars, object_vars, inj_vars, task_vars, srv_vars, Goto, ClosePeer
<1>1. CASE Accept(c)
  BY <1>1 DEF TypeOK, Accept, NewConnection, Connection
<1>2. CASE SockConnect(c)
  <2>1. PICK s \in ISNs :
          /\ tcp' = [tcp EXCEPT ![c] = [state |-> "syn_sent", isn |-> s, irs |-> 0]]
          /\ Transmit(Out(c, "SYN", s, 0))
    BY <1>2 DEF SockConnect
  <2>2. s \in Seqs /\ 0 \in Seqs
    BY DEF Seqs
  <2>3. net' \subseteq Packet /\ capture' \in Seq(Packet)
    BY <2>1, <2>2, PacketType, KindNames, TransmitType
  <2>4. tcp' \in [Conns -> KernelEnd]
    BY <2>1, <2>2 DEF TypeOK, KernelEnd
  <2> QED  BY <1>2, <2>3, <2>4 DEF TypeOK, SockConnect
<1>3. CASE Poll(c)
  BY <1>3 DEF TypeOK, Poll
<1>4. CASE Connected(c)
  BY <1>4 DEF TypeOK, Connected
<1>5. CASE ConnectFails(c)
  BY <1>5, CloseSockType DEF TypeOK, ConnectFails
<1>6. CASE WakeVerified(c)
  BY <1>6 DEF TypeOK, WakeVerified
<1>7. CASE WakeAborted(c)
  BY <1>7, CloseSockType DEF TypeOK, WakeAborted
<1>8. CASE Timeout(c)
  BY <1>8, CloseSockType DEF TypeOK, Timeout, Diagnosis
<1>9. CASE Finally(c)
  <2>1. conn' \in [Conns -> Connection]
    BY <1>9, ConnUpdates, 0 \in Seqs DEF TypeOK, Finally, Seqs
  <2> QED  BY <1>9, <2>1 DEF TypeOK, Finally
<1>10. CASE RelayData(c)
  <2>1. tcp[c].isn \in Int /\ tcp[c].irs \in Int
    BY SeqsAreInts DEF TypeOK, KernelEnd
  <2>2. net' \subseteq Packet /\ capture' \in Seq(Packet)
    BY <1>10, <2>1, PlusType, PacketType, KindNames, TransmitType DEF RelayData
  <2> QED  BY <1>10, <2>2 DEF TypeOK, RelayData
<1> QED
  BY <1>1, <1>2, <1>3, <1>4, <1>5, <1>6, <1>7, <1>8, <1>9, <1>10 DEF Handler

LEMMA TypeInjector == ASSUME TypeOK, Injector PROVE TypeOK'
<1> USE DEF loop_vars, object_vars, inj_vars, task_vars, srv_vars, ClosePeer
<1>1. CASE Recv
  <2>1. Head(capture) \in Packet /\ Tail(capture) \in Seq(Packet)
    BY <1>1 DEF Recv, TypeOK
  <2> QED  BY <1>1, <2>1 DEF TypeOK, Recv
<1>2. CASE AcquireLock
  <2>1. inj_pkt \in Packet /\ inj_pkt.conn \in Conns
    BY <1>2 DEF AcquireLock, TypeOK, Packet
  <2> QED  BY <1>2, <2>1 DEF TypeOK, AcquireLock
<1>3. CASE Judge
  <2> DEFINE c == inj_pkt.conn
  <2>0. inj_pkt \in Packet /\ c \in Conns /\ inj_pkt.seq \in Seqs
    BY <1>3 DEF Judge, TypeOK, Packet
  <2> HIDE DEF c
  <2> USE DEF ReleaseLock
  <2>1. CASE OnSyn(c, inj_pkt)
    <3>1. conn' \in [Conns -> Connection]
      BY <2>0, <2>1, ConnUpdates DEF TypeOK, OnSyn
    <3> QED  BY <2>0, <2>1, <3>1 DEF TypeOK, OnSyn
  <2>2. CASE OnSynAck(c, inj_pkt)
    <3>1. conn' \in [Conns -> Connection]
      BY <2>0, <2>2, ConnUpdates DEF TypeOK, OnSynAck
    <3> QED  BY <2>0, <2>2, <3>1 DEF TypeOK, OnSynAck
  <2>3. CASE OnFinalAck(c, inj_pkt)
    <3>1. conn' \in [Conns -> Connection]
      BY <2>0, <2>3, ConnUpdates DEF TypeOK, OnFinalAck
    <3> QED  BY <2>0, <2>3, <3>1 DEF TypeOK, OnFinalAck
  <2>4. CASE OnFakeAck(c, inj_pkt)
    <3>1. conn' \in [Conns -> Connection]
      BY <2>0, <2>4, VerdictType DEF TypeOK, OnFakeAck
    <3> QED  BY <2>0, <2>4, <3>1 DEF TypeOK, OnFakeAck
  <2>5. CASE OnUnexpected(c, inj_pkt)
    <3>1. conn' \in [Conns -> Connection]
      BY <2>0, <2>5, VerdictType DEF TypeOK, OnUnexpected
    <3> QED  BY <2>0, <2>5, <3>1, CloseSockType DEF TypeOK, OnUnexpected
  <2> QED  BY <1>3, <2>1, <2>2, <2>3, <2>4, <2>5 DEF Judge, c
<1> QED  BY <1>1, <1>2, <1>3 DEF Injector

LEMMA TypeExecutor ==
  ASSUME TypeOK, NEW c \in Conns, Executor(c) PROVE TypeOK'
<1> USE DEF loop_vars, object_vars, inj_vars, task_vars, srv_vars
<1>1. CASE TaskLock(c)
  BY <1>1 DEF TypeOK, TaskLock
<1>2. CASE MarkSent(c)
  <2>1. conn' \in [Conns -> Connection]
    BY <1>2, ConnUpdates, 0 \in Seqs DEF TypeOK, MarkSent, Seqs
  <2> QED  BY <1>2, <2>1 DEF TypeOK, MarkSent
<1>3. CASE SendFake(c)
  <2>1. conn[c].syn_seq \in Int /\ conn[c].syn_ack_seq \in Int
    BY SeqOrNone, ConnFields DEF TypeOK
  <2>2. FakePacket(c) \in Packet
    BY <2>1, PlusType, PacketType, KindNames DEF FakePacket
  <2>3. net' \subseteq Packet /\ emitted' \subseteq Packet /\ trouble' \in 0 .. MaxTrouble
    BY <1>3, <2>2 DEF TypeOK, SendFake
  <2> QED  BY <1>3, <2>3 DEF TypeOK, SendFake
<1> QED  BY <1>1, <1>2, <1>3 DEF Executor

\* What the kernel and the server answer is made of sequence numbers.
LEMMA EndNumbers ==
  ASSUME TypeOK, NEW c \in Conns
  PROVE  /\ tcp[c].isn \in Seqs /\ tcp[c].irs \in Seqs
         /\ srv[c].isn \in Seqs /\ srv[c].irs \in Seqs
         /\ Plus(tcp[c].isn, 1) \in Seqs /\ Plus(tcp[c].irs, 1) \in Seqs
         /\ Plus(srv[c].isn, 1) \in Seqs /\ Plus(srv[c].irs, 1) \in Seqs
         /\ \A k \in Int : /\ Plus(tcp[c].isn, k) \in Seqs /\ Plus(tcp[c].irs, k) \in Seqs
                           /\ Plus(srv[c].isn, k) \in Seqs /\ Plus(srv[c].irs, k) \in Seqs
<1>1. /\ tcp[c].isn \in Seqs /\ tcp[c].irs \in Seqs
      /\ srv[c].isn \in Seqs /\ srv[c].irs \in Seqs
  BY DEF TypeOK, KernelEnd, ServerEnd
<1>2. /\ Plus(tcp[c].isn, 1) \in Seqs /\ Plus(tcp[c].irs, 1) \in Seqs
      /\ Plus(srv[c].isn, 1) \in Seqs /\ Plus(srv[c].irs, 1) \in Seqs
  BY <1>1, NextSeq
<1> QED  BY <1>1, <1>2, SeqsAreInts, PlusType

LEMMA EndUpdates ==
  ASSUME TypeOK, NEW c \in Conns, NEW s \in Seqs
  PROVE  /\ \A st \in {"closed", "syn_sent", "established", "reset"} :
              [tcp EXCEPT ![c].state = st] \in [Conns -> KernelEnd]
         /\ [tcp EXCEPT ![c] = [@ EXCEPT !.state = "established", !.irs = s]]
              \in [Conns -> KernelEnd]
         /\ \A st \in {"listen", "syn_rcvd", "established"} :
              [srv EXCEPT ![c].state = st] \in [Conns -> ServerEnd]
<1>1. ASSUME NEW st \in {"closed", "syn_sent", "established", "reset"}
      PROVE  [tcp EXCEPT ![c].state = st] \in [Conns -> KernelEnd]
  BY DEF TypeOK, KernelEnd
<1>2. [tcp EXCEPT ![c] = [@ EXCEPT !.state = "established", !.irs = s]]
        \in [Conns -> KernelEnd]
  <2>0. tcp[c] \in KernelEnd
    BY DEF TypeOK
  <2>1. [tcp[c] EXCEPT !.state = "established", !.irs = s] \in KernelEnd
    BY <2>0 DEF KernelEnd
  <2> QED  BY <2>1 DEF TypeOK
<1>3. ASSUME NEW st \in {"listen", "syn_rcvd", "established"}
      PROVE  [srv EXCEPT ![c].state = st] \in [Conns -> ServerEnd]
  BY DEF TypeOK, ServerEnd
<1> QED  BY <1>1, <1>2, <1>3

LEMMA AnswerType ==
  ASSUME TypeOK, NEW p, NEW replies \in SUBSET Packet, Answer(p, replies)
  PROVE  net' \subseteq Packet
  BY DEF TypeOK, Answer

LEMMA TypeKernel ==
  ASSUME TypeOK, NEW c \in Conns, NEW p \in Packet, KernelSynAck(c, p) \/ KernelOther(c, p)
  PROVE  TypeOK'
<1> USE DEF loop_vars, object_vars, inj_vars, task_vars, srv_vars, env_same
<1>0. p.seq \in Seqs /\ p.ack \in Seqs
  BY DEF Packet
<1>1. CASE KernelSynAck(c, p)
  <2> DEFINE irs   == IF tcp[c].state = "syn_sent" THEN p.seq ELSE tcp[c].irs
             reply == IF tcp[c].state \in {"syn_sent", "established"}
                      THEN Out(c, "ACK", Plus(tcp[c].isn, 1), Plus(irs, 1))
                      ELSE Out(c, "RST", p.ack, 0)
  <2>0. 0 \in Seqs
    BY DEF Seqs
  <2>1. irs \in Seqs /\ Plus(irs, 1) \in Seqs
    BY <1>0, EndNumbers, NextSeq
  <2>2. reply \in Packet
    BY <1>0, <2>0, <2>1, EndNumbers, PacketType, KindNames
  <2>3. net' = (net \ {p}) \cup {reply} /\ capture' = capture \o <<p, reply>>
    BY <1>1 DEF KernelSynAck
  <2> HIDE DEF reply, irs
  <2>4. net' \subseteq Packet /\ capture' \in Seq(Packet)
    BY <2>2, <2>3 DEF TypeOK
  <2>5. tcp' \in [Conns -> KernelEnd]
    BY <1>0, <1>1, EndUpdates DEF TypeOK, KernelSynAck
  <2> QED  BY <1>1, <2>4, <2>5 DEF TypeOK, KernelSynAck
<1>2. CASE KernelOther(c, p)
  <2>1. tcp' \in [Conns -> KernelEnd]
    BY <1>0, <1>2, EndUpdates DEF TypeOK, KernelOther
  <2> QED  BY <1>2, <2>1 DEF TypeOK, KernelOther
<1> QED  BY <1>1, <1>2

LEMMA TypeServer ==
  ASSUME TypeOK, NEW c \in Conns, NEW p \in Packet, Server(c, p)
  PROVE  TypeOK'
<1> USE DEF loop_vars, object_vars, inj_vars, task_vars, srv_vars, env_same
<1>0. /\ p.seq \in Seqs /\ p.ack \in Seqs /\ Plus(p.seq, 1) \in Seqs
      /\ \A n \in Int : ServerAck(c, n) \in Packet
  <2>1. p.seq \in Seqs /\ p.ack \in Seqs
    BY DEF Packet
  <2>2. Plus(p.seq, 1) \in Seqs
    BY <2>1, NextSeq
  <2>3. ASSUME NEW n \in Int PROVE ServerAck(c, n) \in Packet
    BY EndNumbers, PacketType, KindNames DEF ServerAck
  <2> QED  BY <2>1, <2>2, <2>3
<1>1. /\ srv' \in [Conns -> ServerEnd] /\ polluted' \subseteq Conns
      /\ net' \subseteq Packet
  <2>1. CASE ServerSyn(c, p)
    <3>1. CASE srv[c].state = "listen"
      <4>1. PICK s \in ISNs :
              /\ srv' = [srv EXCEPT ![c] = [state |-> "syn_rcvd", isn |-> s, irs |-> p.seq]]
              /\ Answer(p, {In(c, "SYNACK", s, Plus(p.seq, 1))})
        BY <2>1, <3>1 DEF ServerSyn
      <4>2. s \in Seqs /\ In(c, "SYNACK", s, Plus(p.seq, 1)) \in Packet
        BY <1>0, PacketType, KindNames
      <4>3. net' \subseteq Packet
        BY <4>1, <4>2, AnswerType
      <4>4. srv' \in [Conns -> ServerEnd]
        BY <1>0, <4>1, <4>2 DEF TypeOK, ServerEnd
      <4> QED  BY <2>1, <4>3, <4>4 DEF ServerSyn, TypeOK
    <3>2. CASE srv[c].state # "listen"
      <4>1. In(c, "SYNACK", srv[c].isn, Plus(srv[c].irs, 1)) \in Packet
        BY EndNumbers, PacketType, KindNames
      <4>2. srv' = srv /\ polluted' = polluted
        BY <2>1, <3>2 DEF ServerSyn
      <4>3. net' \subseteq Packet
        BY <1>0, <2>1, <3>2, <4>1, AnswerType DEF ServerSyn
      <4> QED  BY <4>2, <4>3 DEF TypeOK
    <3> QED  BY <3>1, <3>2
  <2>2. CASE ServerFinalAck(c, p)
    <3>1. srv' \in [Conns -> ServerEnd]
      <4> DEFINE st == IF p.kind = "RST" THEN "listen"
                       ELSE IF srv[c].state = "syn_rcvd" /\ p.ack = Plus(srv[c].isn, 1)
                            THEN "established"
                       ELSE srv[c].state
      <4>1. st \in {"listen", "syn_rcvd", "established"}
        BY DEF TypeOK, ServerEnd
      <4>2. srv' = [srv EXCEPT ![c].state = st]
        BY <2>2 DEF ServerFinalAck, TypeOK
      <4> HIDE DEF st
      <4> QED  BY <1>0, <4>1, <4>2, EndUpdates
    <3>2. net' \subseteq Packet
      BY <2>2, AnswerType DEF ServerFinalAck
    <3> QED  BY <2>2, <3>1, <3>2 DEF TypeOK, ServerFinalAck
  <2>3. CASE ServerFake(c, p)
    <3> DEFINE beyond == (p.seq + FakeLen - (srv[c].irs + 1)) % SeqMod
    <3>1. 0 \in Seqs /\ In(c, "RST", p.ack, 0) \in Packet
      BY <1>0, PacketType, KindNames, 0 \in Seqs DEF Seqs
    <3>2. beyond \in Int
      BY <1>0, EndNumbers DEF Seqs
    <3> HIDE DEF beyond
    <3>3. ServerAck(c, 1 + beyond) \in Packet /\ ServerAck(c, 1) \in Packet
      BY <1>0, <3>2
    <3>4. net' \subseteq Packet
      BY <2>3, <3>1, <3>3, AnswerType DEF ServerFake, beyond
    <3> QED  BY <2>3, <3>4 DEF TypeOK, ServerFake
  <2>4. CASE ServerStream(c, p)
    <3>1. net' \subseteq Packet
      BY <1>0, <2>4, AnswerType DEF ServerStream
    <3> QED  BY <2>4, <3>1 DEF TypeOK, ServerStream
  <2> QED  BY <2>1, <2>2, <2>3, <2>4 DEF Server
<1> QED  BY <1>1 DEF TypeOK, Server

LEMMA TypeFault ==
  ASSUME TypeOK, NEW c \in Conns, Fault(c) PROVE TypeOK'
<1> USE DEF loop_vars, object_vars, inj_vars, task_vars, env_same
<1>0. trouble' \in 0 .. MaxTrouble
  BY DEF TypeOK, Fault
<1>1. CASE Lose(c)
  BY <1>0, <1>1 DEF TypeOK, Fault, Lose
<1>2. CASE Miss(c)
  <2>1. capture' \in Seq(Packet)
    BY <1>2 DEF TypeOK, Miss
  <2> QED  BY <1>0, <1>2, <2>1 DEF TypeOK, Fault, Miss
<1>3. CASE RetransmitSyn(c)
  <2>1. Out(c, "SYN", tcp[c].isn, 0) \in Packet
    BY EndNumbers, PacketType, KindNames, 0 \in Seqs DEF Seqs
  <2>2. net' \subseteq Packet /\ capture' \in Seq(Packet)
    BY <1>3, <2>1, TransmitType DEF RetransmitSyn
  <2> QED  BY <1>0, <1>3, <2>2 DEF TypeOK, Fault, RetransmitSyn
<1>4. CASE RetransmitSynAck(c)
  <2>1. In(c, "SYNACK", srv[c].isn, Plus(srv[c].irs, 1)) \in Packet
    BY EndNumbers, PacketType, KindNames
  <2> QED  BY <1>0, <1>4, <2>1 DEF TypeOK, Fault, RetransmitSynAck
<1>5. CASE Reset(c)
  <2>1. In(c, "RST", Plus(tcp[c].irs, 1), Plus(tcp[c].isn, 1)) \in Packet
    BY EndNumbers, PacketType, KindNames
  <2> QED  BY <1>0, <1>5, <2>1 DEF TypeOK, Fault, Reset
<1>6. CASE ServerForgets(c)
  <2>1. srv' \in [Conns -> ServerEnd]
    BY <1>6 DEF TypeOK, ServerForgets, ServerEnd
  <2> QED  BY <1>0, <1>6, <2>1 DEF TypeOK, Fault, ServerForgets
<1> QED  BY <1>1, <1>2, <1>3, <1>4, <1>5, <1>6 DEF Fault

LEMMA TypeGivesUp ==
  ASSUME TypeOK, NEW c \in Conns, ConnectGivesUp(c) PROVE TypeOK'
<1>1. 0 \in Seqs
  BY DEF Seqs
<1>2. tcp' = [tcp EXCEPT ![c].state = "reset"]
  BY DEF ConnectGivesUp
<1>3. tcp' \in [Conns -> KernelEnd]
  BY <1>1, <1>2, EndUpdates
<1> QED
  BY <1>3 DEF TypeOK, ConnectGivesUp, loop_vars, object_vars, inj_vars, task_vars,
              srv_vars, env_same

LEMMA TypeInit == Init => TypeOK
<1> SUFFICES ASSUME Init PROVE TypeOK
  OBVIOUS
<1>1. 0 \in Seqs
  BY DEF Seqs
<1>2. conn \in [Conns -> Connection]
  BY DEF Init, NewConnection, Connection
<1>3. tcp \in [Conns -> KernelEnd] /\ srv \in [Conns -> ServerEnd]
  BY <1>1 DEF Init, KernelEnd, ServerEnd
<1>4. capture \in Seq(Packet)
  BY DEF Init
<1> QED  BY <1>2, <1>3, <1>4 DEF Init, TypeOK

LEMMA TypeNext == TypeOK /\ [Next]_vars => TypeOK'
<1> SUFFICES ASSUME TypeOK, [Next]_vars PROVE TypeOK'
  OBVIOUS
<1>1. ASSUME NEW c \in Conns, Step(c) PROVE TypeOK'
  <2>1. CASE Accept(c) \/ Handler(c)
    BY <2>1, TypeHandler
  <2>2. CASE Executor(c)
    BY <2>2, TypeExecutor
  <2>3. CASE Deliver(c)
    <3>1. PICK p \in net : KernelSynAck(c, p) \/ KernelOther(c, p) \/ Server(c, p)
      BY <2>3 DEF Deliver
    <3>2. p \in Packet
      BY DEF TypeOK
    <3> QED  BY <3>1, <3>2, TypeKernel, TypeServer
  <2>4. CASE ConnectGivesUp(c)
    BY <2>4, TypeGivesUp
  <2>5. CASE Fault(c)
    BY <2>5, TypeFault
  <2> QED  BY <1>1, <2>1, <2>2, <2>3, <2>4, <2>5 DEF Step
<1>2. CASE Injector
  BY <1>2, TypeInjector
<1>3. CASE Finished \/ UNCHANGED vars
  BY <1>3, TypeStutter DEF Finished
<1> QED  BY <1>1, <1>2, <1>3 DEF Next

\* Every variable keeps its type: in particular a sequence number computed by
\* the code never leaves 0 .. SeqMod - 1 (fake_tcp.py:59, 99-151).
THEOREM TypeCorrect == Spec => []TypeOK
  BY TypeInit, TypeNext, PTL DEF Spec

-------------------------------------------------------------------------------
(* The inductive invariant *)

\* A connection's lock is held by the thread that works under it.
LockInv ==
  \A c \in Conns :
    /\ thread_lock[c] = "executor" <=> task[c] \in {"crafting", "sending"}
    /\ thread_lock[c] = "injector" <=> inj_at = "judge" /\ inj_pkt.conn = c

\* How far the fake is: scheduled, marked as sent, sent.
TaskInv ==
  \A c \in Conns :
    /\ task[c] = "none" <=> ~ conn[c].sch_fake_sent
    /\ conn[c].fake_sent <=> task[c] \in {"sending", "sent"}
    /\ fakes[c] = IF task[c] = "sent" THEN 1 ELSE 0

\* A monitored connection has no verdict, nor has the one being judged; a good
\* verdict is only given when the fake was sent.
VerdictInv ==
  \A c \in Conns :
    /\ conn[c].monitor => conn[c].t2a_msg = ""
    /\ inj_at = "judge" /\ inj_pkt.conn = c => conn[c].t2a_msg = ""
    /\ conn[c].t2a_msg = "fake_data_ack_recv" => task[c] = "sent"

\* The handler believes the verdict, and a socket is closed for a reason.
HandlerInv ==
  \A c \in Conns :
    /\ pc[c] \in {"verified", "relaying", "streaming"} =>
         conn[c].t2a_msg = "fake_data_ack_recv"
    /\ sock[c] = "closed" \/ peer_sock[c] = "closed" =>
         conn[c].t2a_msg = "unexpected_close" \/ pc[c] \in {"dropping", "closed"}

\* Nothing happens to a connection before it is registered.
IdleInv ==
  \A c \in Conns :
    pc[c] = "idle" => /\ conn[c] = NewConnection /\ c \notin connections
                      /\ inj_at # "recv" => inj_pkt.conn # c

IInv == LockInv /\ TaskInv /\ VerdictInv /\ HandlerInv /\ IdleInv

LEMMA InvInit == Init => IInv
<1> SUFFICES ASSUME Init PROVE IInv
  OBVIOUS
<1>1. LockInv
  BY DEF Init, LockInv
<1>2. TaskInv
  BY DEF Init, TaskInv, NewConnection
<1>3. VerdictInv
  BY DEF Init, VerdictInv, NewConnection
<1>4. HandlerInv
  BY DEF Init, HandlerInv
<1>5. IdleInv
  BY DEF Init, IdleInv
<1> QED  BY <1>1, <1>2, <1>3, <1>4, <1>5 DEF IInv

\* The kernel, the network and the server change nothing the invariant is about.
LEMMA InvUntouched ==
  ASSUME IInv, UNCHANGED <<loop_vars, object_vars, inj_vars, task_vars>>
  PROVE  IInv'
  BY DEF IInv, LockInv, TaskInv, VerdictInv, HandlerInv, IdleInv,
         loop_vars, object_vars, inj_vars, task_vars

LEMMA InvHandler ==
  ASSUME TypeOK, IInv, NEW c \in Conns, Accept(c) \/ Handler(c)
  PROVE  IInv'
<1> USE DEF loop_vars, object_vars, inj_vars, task_vars, srv_vars, Goto, ClosePeer
<1>0. pc \in [Conns -> {"idle", "registered", "connecting", "polled", "waiting",
                        "verified", "dropping", "relaying", "streaming", "closed"}]
      /\ conn \in [Conns -> Connection]
      /\ sock \in [Conns -> {"open", "closed"}] /\ peer_sock \in [Conns -> {"open", "closed"}]
  BY DEF TypeOK
<1>1. CASE Accept(c)
  <2>1. conn' = conn
    BY <1>0, <1>1 DEF Accept, IInv, IdleInv
  <2>11. LockInv'
    BY <1>0, <1>1, <2>1 DEF Accept, IInv, LockInv
  <2>12. TaskInv'
    BY <1>0, <1>1, <2>1 DEF Accept, IInv, TaskInv
  <2>13. VerdictInv'
    BY <1>0, <1>1, <2>1 DEF Accept, IInv, VerdictInv
  <2>14. HandlerInv'
    BY <1>0, <1>1, <2>1 DEF Accept, IInv, HandlerInv
  <2>15. IdleInv'
    BY <1>0, <1>1, <2>1 DEF Accept, IInv, IdleInv
  <2> QED  BY <2>11, <2>12, <2>13, <2>14, <2>15 DEF IInv
\* The steps that only move the handler on.
<1>2. CASE \/ SockConnect(c) \/ Poll(c) \/ Connected(c) \/ WakeVerified(c) \/ RelayData(c)
  <2>1. /\ UNCHANGED <<connections, object_vars, inj_vars, task_vars>>
        /\ pc[c] # "idle"
        /\ \E l \in {"connecting", "polled", "waiting", "verified", "streaming"} :
             pc' = [pc EXCEPT ![c] = l]
        /\ pc'[c] \in {"verified", "relaying", "streaming"} =>
             conn[c].t2a_msg = "fake_data_ack_recv"
        /\ pc[c] \notin {"dropping", "closed"}
    <3>1. CASE SockConnect(c)
      BY <1>0, <3>1 DEF SockConnect
    <3>2. CASE Poll(c)
      BY <1>0, <3>2 DEF Poll
    <3>3. CASE Connected(c)
      BY <1>0, <3>3 DEF Connected
    <3>4. CASE WakeVerified(c)
      BY <1>0, <3>4 DEF WakeVerified
    <3>5. CASE RelayData(c)
      BY <1>0, <3>5 DEF RelayData, IInv, HandlerInv
    <3> QED  BY <1>2, <3>1, <3>2, <3>3, <3>4, <3>5
  <2>11. LockInv'
    BY <1>0, <2>1 DEF IInv, LockInv
  <2>12. TaskInv'
    BY <1>0, <2>1 DEF IInv, TaskInv
  <2>13. VerdictInv'
    BY <1>0, <2>1 DEF IInv, VerdictInv
  <2>14. HandlerInv'
    BY <1>0, <2>1 DEF IInv, HandlerInv
  <2>15. IdleInv'
    BY <1>0, <2>1 DEF IInv, IdleInv
  <2> QED  BY <2>11, <2>12, <2>13, <2>14, <2>15 DEF IInv
\* The steps that give the connection up.
<1>3. CASE ConnectFails(c) \/ WakeAborted(c) \/ Timeout(c)
  <2>1. /\ UNCHANGED <<connections, conn, thread_lock, inj_vars, task_vars>>
        /\ pc[c] # "idle" /\ pc' = [pc EXCEPT ![c] = "dropping"]
        /\ sock' = [sock EXCEPT ![c] = "closed"]
        /\ peer_sock' = [peer_sock EXCEPT ![c] = "closed"]
    BY <1>3 DEF ConnectFails, WakeAborted, Timeout, CloseSock
  <2>11. LockInv'
    BY <1>0, <2>1 DEF IInv, LockInv
  <2>12. TaskInv'
    BY <1>0, <2>1 DEF IInv, TaskInv
  <2>13. VerdictInv'
    BY <1>0, <2>1 DEF IInv, VerdictInv
  <2>14. HandlerInv'
    BY <1>0, <2>1 DEF IInv, HandlerInv
  <2>15. IdleInv'
    BY <1>0, <2>1 DEF IInv, IdleInv
  <2> QED  BY <2>11, <2>12, <2>13, <2>14, <2>15 DEF IInv
<1>4. CASE Finally(c)
  <2>1. /\ pc[c] \in {"verified", "dropping"}
        /\ pc' = [pc EXCEPT ![c] = IF pc[c] = "verified" THEN "relaying" ELSE "closed"]
        /\ connections' \subseteq connections
        /\ UNCHANGED <<thread_lock, sock, peer_sock, inj_vars, task_vars>>
    BY <1>4 DEF Finally
  <2>2. \A d \in Conns :
          /\ conn'[d].sch_fake_sent = conn[d].sch_fake_sent
          /\ conn'[d].fake_sent = conn[d].fake_sent
          /\ conn'[d].t2a_msg = conn[d].t2a_msg
          /\ conn'[d].monitor => conn[d].monitor
          /\ d # c => conn'[d] = conn[d]
    BY <1>0, <1>4 DEF Finally, Connection
  <2>11. LockInv'
    BY <1>0, <2>1, <2>2 DEF IInv, LockInv
  <2>12. TaskInv'
    BY <1>0, <2>1, <2>2 DEF IInv, TaskInv
  <2>13. VerdictInv'
    BY <1>0, <2>1, <2>2 DEF IInv, VerdictInv
  <2>14. HandlerInv'
    BY <1>0, <2>1, <2>2 DEF IInv, HandlerInv
  <2>15. IdleInv'
    BY <1>0, <2>1, <2>2 DEF IInv, IdleInv
  <2> QED  BY <2>11, <2>12, <2>13, <2>14, <2>15 DEF IInv
<1> QED  BY <1>1, <1>2, <1>3, <1>4 DEF Handler

LEMMA InvExecutor ==
  ASSUME TypeOK, IInv, NEW c \in Conns, Executor(c) PROVE IInv'
<1> USE DEF loop_vars, object_vars, inj_vars, task_vars, srv_vars
<1>0. /\ conn \in [Conns -> Connection]
      /\ thread_lock \in [Conns -> {"free", "injector", "executor"}]
      /\ task \in [Conns -> {"none", "queued", "crafting", "sending", "sent", "dropped"}]
      /\ fakes \in [Conns -> Nat]
  BY DEF TypeOK
<1>1. CASE TaskLock(c)
  <2>11. LockInv'
    BY <1>0, <1>1 DEF TaskLock, IInv, LockInv
  <2>12. TaskInv'
    BY <1>0, <1>1 DEF TaskLock, IInv, TaskInv
  <2>13. VerdictInv'
    BY <1>0, <1>1 DEF TaskLock, IInv, VerdictInv
  <2>14. HandlerInv'
    BY <1>0, <1>1 DEF TaskLock, IInv, HandlerInv
  <2>15. IdleInv'
    BY <1>0, <1>1 DEF TaskLock, IInv, IdleInv
  <2> QED  BY <2>11, <2>12, <2>13, <2>14, <2>15 DEF IInv
<1>2. CASE MarkSent(c)
  <2>1. \A d \in Conns :
          /\ conn'[d].sch_fake_sent = conn[d].sch_fake_sent
          /\ conn'[d].fake_sent = (d = c \/ conn[d].fake_sent)
          /\ conn'[d].t2a_msg = conn[d].t2a_msg
          /\ conn'[d].monitor = conn[d].monitor
          /\ d # c => conn'[d] = conn[d]
    BY <1>0, <1>2 DEF MarkSent, Connection
  <2>2. LockInv' /\ TaskInv' /\ VerdictInv'
    <3>1. LockInv'
      BY <1>0, <1>2 DEF MarkSent, IInv, LockInv
    <3>2. TaskInv'
      BY <1>0, <1>2, <2>1 DEF MarkSent, IInv, TaskInv
    <3>3. VerdictInv'
      BY <1>0, <1>2, <2>1 DEF MarkSent, IInv, VerdictInv
    <3> QED  BY <3>1, <3>2, <3>3
  <2>3. HandlerInv'
    BY <1>2, <2>1 DEF MarkSent, IInv, HandlerInv
  <2>4. pc[c] # "idle"
    <3>1. task[c] # "none"
      BY <1>2 DEF MarkSent
    <3>2. ASSUME pc[c] = "idle" PROVE FALSE
      <4>1. conn[c] = NewConnection
        BY <3>2 DEF IInv, IdleInv
      <4>2. NewConnection.sch_fake_sent = FALSE
        BY DEF NewConnection
      <4> QED  BY <3>1, <4>1, <4>2 DEF IInv, TaskInv
    <3> QED  BY <3>2
  <2>5. IdleInv'
    BY <1>2, <2>1, <2>4 DEF MarkSent, IInv, IdleInv
  <2> QED  BY <2>2, <2>3, <2>5 DEF IInv
<1>3. CASE SendFake(c)
  <2>11. LockInv'
    BY <1>0, <1>3 DEF SendFake, IInv, LockInv
  <2>12. TaskInv'
    BY <1>0, <1>3 DEF SendFake, IInv, TaskInv
  <2>13. VerdictInv'
    BY <1>0, <1>3 DEF SendFake, IInv, VerdictInv
  <2>14. HandlerInv'
    BY <1>0, <1>3 DEF SendFake, IInv, HandlerInv
  <2>15. IdleInv'
    BY <1>0, <1>3 DEF SendFake, IInv, IdleInv
  <2> QED  BY <2>11, <2>12, <2>13, <2>14, <2>15 DEF IInv
<1> QED  BY <1>1, <1>2, <1>3 DEF Executor

LEMMA InvInjector == ASSUME TypeOK, IInv, Injector PROVE IInv'
<1> USE DEF loop_vars, object_vars, inj_vars, task_vars, srv_vars, ClosePeer
<1>0. /\ conn \in [Conns -> Connection]
      /\ thread_lock \in [Conns -> {"free", "injector", "executor"}]
      /\ task \in [Conns -> {"none", "queued", "crafting", "sending", "sent", "dropped"}]
      /\ sock \in [Conns -> {"open", "closed"}] /\ peer_sock \in [Conns -> {"open", "closed"}]
  BY DEF TypeOK
<1>1. CASE Recv
  <2>11. LockInv'
    BY <1>0, <1>1 DEF Recv, IInv, LockInv
  <2>12. TaskInv'
    BY <1>0, <1>1 DEF Recv, IInv, TaskInv
  <2>13. VerdictInv'
    BY <1>0, <1>1 DEF Recv, IInv, VerdictInv
  <2>14. HandlerInv'
    BY <1>0, <1>1 DEF Recv, IInv, HandlerInv
  <2>15. IdleInv'
    BY <1>0, <1>1 DEF Recv, IInv, IdleInv
  <2> QED  BY <2>11, <2>12, <2>13, <2>14, <2>15 DEF IInv
<1>2. CASE AcquireLock
  <2>1. inj_pkt.conn \in Conns
    BY <1>2 DEF AcquireLock, TypeOK, Packet
  <2>2. LockInv'
    BY <1>0, <1>2, <2>1 DEF AcquireLock, IInv, LockInv
  <2>3. TaskInv'
    BY <1>2 DEF AcquireLock, IInv, TaskInv
  <2>4. VerdictInv'
    BY <1>2, <2>1 DEF AcquireLock, IInv, VerdictInv
  <2>5. HandlerInv'
    BY <1>2 DEF AcquireLock, IInv, HandlerInv
  <2>6. IdleInv'
    BY <1>2, <2>1 DEF AcquireLock, IInv, IdleInv
  <2> QED  BY <2>2, <2>3, <2>4, <2>5, <2>6 DEF IInv
<1>3. CASE Judge
  <2> DEFINE c == inj_pkt.conn
  <2>0. /\ c \in Conns /\ pc[c] # "idle" /\ conn[c].t2a_msg = ""
        /\ thread_lock[c] = "injector" /\ task[c] \notin {"crafting", "sending"}
        /\ inj_at = "judge"
    BY <1>3 DEF Judge, TypeOK, Packet, IInv, IdleInv, VerdictInv, LockInv
  <2>1. /\ UNCHANGED <<pc, diag, connections, fakes, emitted>>
        /\ thread_lock' = [thread_lock EXCEPT ![c] = "free"]
        /\ inj_at' = "recv"
    BY <1>3 DEF Judge, OnSyn, OnSynAck, OnFinalAck, OnFakeAck, OnUnexpected, ReleaseLock
  <2> SUFFICES /\ TaskInv'
               /\ \A d \in Conns \ {c} : /\ conn'[d] = conn[d] /\ task'[d] = task[d]
                                         /\ sock'[d] = sock[d] /\ peer_sock'[d] = peer_sock[d]
               /\ task'[c] \notin {"crafting", "sending"}
               /\ conn'[c].monitor => conn'[c].t2a_msg = ""
               /\ conn'[c].t2a_msg = "fake_data_ack_recv" => task'[c] = "sent"
               /\ sock'[c] = "closed" \/ peer_sock'[c] = "closed" =>
                    conn'[c].t2a_msg = "unexpected_close" \/ pc[c] \in {"dropping", "closed"}
    <3>1. LockInv'
      BY <1>0, <2>0, <2>1 DEF IInv, LockInv
    <3>2. VerdictInv'
      <4> SUFFICES ASSUME NEW d \in Conns
                   PROVE  /\ conn'[d].monitor => conn'[d].t2a_msg = ""
                          /\ conn'[d].t2a_msg = "fake_data_ack_recv" => task'[d] = "sent"
        BY <2>1 DEF VerdictInv
      <4>1. CASE d = c
        BY <4>1
      <4>2. CASE d # c
        <5>1. conn'[d] = conn[d] /\ task'[d] = task[d]
          BY <4>2
        <5>2. /\ conn[d].monitor => conn[d].t2a_msg = ""
              /\ conn[d].t2a_msg = "fake_data_ack_recv" => task[d] = "sent"
          BY DEF IInv, VerdictInv
        <5> QED  BY <5>1, <5>2
      <4> QED  BY <4>1, <4>2
    <3>3. HandlerInv'
      BY <2>0, <2>1 DEF IInv, HandlerInv
    <3>4. IdleInv'
      BY <2>0, <2>1 DEF IInv, IdleInv
    <3> QED  BY <3>1, <3>2, <3>3, <3>4 DEF IInv
  <2> HIDE DEF c
  <2>2. CASE OnSyn(c, inj_pkt) \/ OnSynAck(c, inj_pkt)
    <3>1. /\ UNCHANGED <<sock, peer_sock, task, fakes>>
          /\ \A d \in Conns \ {c} : conn'[d] = conn[d]
          /\ conn'[c].monitor = conn[c].monitor /\ conn'[c].t2a_msg = conn[c].t2a_msg
          /\ conn'[c].sch_fake_sent = conn[c].sch_fake_sent
          /\ conn'[c].fake_sent = conn[c].fake_sent
      BY <1>0, <2>0, <2>2 DEF OnSyn, OnSynAck, Connection
    <3>2. TaskInv'
      BY <2>0, <3>1 DEF IInv, TaskInv
    <3> QED  BY <2>0, <3>1, <3>2 DEF IInv, VerdictInv, HandlerInv
  <2>3. CASE OnFinalAck(c, inj_pkt)
    <3>1. /\ UNCHANGED <<sock, peer_sock, fakes>>
          /\ task' = [task EXCEPT ![c] = "queued"]
          /\ ~ conn[c].sch_fake_sent
          /\ \A d \in Conns \ {c} : conn'[d] = conn[d]
          /\ conn'[c].monitor = conn[c].monitor /\ conn'[c].t2a_msg = conn[c].t2a_msg
          /\ conn'[c].sch_fake_sent = TRUE
          /\ conn'[c].fake_sent = conn[c].fake_sent
      BY <1>0, <2>0, <2>3 DEF OnFinalAck, FinalAckExpected, Connection
    <3>2. TaskInv'
      BY <1>0, <2>0, <3>1 DEF IInv, TaskInv
    <3> QED  BY <1>0, <2>0, <3>1, <3>2 DEF IInv, VerdictInv, HandlerInv
  <2>4. CASE OnFakeAck(c, inj_pkt)
    <3>1. /\ UNCHANGED <<sock, peer_sock, task, fakes>>
          /\ conn[c].fake_sent
          /\ \A d \in Conns \ {c} : conn'[d] = conn[d]
          /\ conn'[c].monitor = FALSE /\ conn'[c].t2a_msg = "fake_data_ack_recv"
          /\ conn'[c].sch_fake_sent = conn[c].sch_fake_sent
          /\ conn'[c].fake_sent = conn[c].fake_sent
      BY <1>0, <2>0, <2>4 DEF OnFakeAck, FakeAckExpected, Verdict, Connection
    <3>2. task[c] = "sent"
      BY <2>0, <3>1 DEF IInv, TaskInv
    <3>3. TaskInv'
      BY <2>0, <3>1 DEF IInv, TaskInv
    <3> QED  BY <2>0, <3>1, <3>2, <3>3 DEF IInv, HandlerInv
  <2>5. CASE OnUnexpected(c, inj_pkt)
    <3>1. /\ UNCHANGED <<task, fakes>>
          /\ sock' = [sock EXCEPT ![c] = "closed"]
          /\ peer_sock' = [peer_sock EXCEPT ![c] = "closed"]
          /\ \A d \in Conns \ {c} : conn'[d] = conn[d]
          /\ conn'[c].monitor = FALSE /\ conn'[c].t2a_msg = "unexpected_close"
          /\ conn'[c].sch_fake_sent = conn[c].sch_fake_sent
          /\ conn'[c].fake_sent = conn[c].fake_sent
      BY <1>0, <2>0, <2>5 DEF OnUnexpected, CloseSock, Verdict, Connection
    <3>2. TaskInv'
      BY <2>0, <3>1 DEF IInv, TaskInv
    <3> QED  BY <1>0, <2>0, <3>1, <3>2
  <2> QED  BY <1>3, <2>2, <2>3, <2>4, <2>5 DEF Judge, c
<1> QED  BY <1>1, <1>2, <1>3 DEF Injector

LEMMA InvNext == TypeOK /\ IInv /\ [Next]_vars => IInv'
<1> SUFFICES ASSUME TypeOK, IInv, [Next]_vars PROVE IInv'
  OBVIOUS
<1>1. ASSUME NEW c \in Conns, Step(c) PROVE IInv'
  <2>1. CASE Accept(c) \/ Handler(c)
    BY <2>1, InvHandler
  <2>2. CASE Executor(c)
    BY <2>2, InvExecutor
  <2>3. CASE Deliver(c) \/ ConnectGivesUp(c) \/ Fault(c)
    <3>1. UNCHANGED env_same
      BY <2>3 DEF Deliver, KernelSynAck, KernelOther, Server, ConnectGivesUp, Fault
    <3> QED  BY <3>1, InvUntouched DEF env_same
  <2> QED  BY <1>1, <2>1, <2>2, <2>3 DEF Step
<1>2. CASE Injector
  BY <1>2, InvInjector
<1>3. CASE Finished \/ UNCHANGED vars
  BY <1>3, InvUntouched DEF Finished, vars
<1> QED  BY <1>1, <1>2, <1>3 DEF Next

THEOREM Invariance == Spec => [](TypeOK /\ IInv)
<1>1. Init => TypeOK /\ IInv
  BY TypeInit, InvInit
<1>2. TypeOK /\ IInv /\ [Next]_vars => (TypeOK /\ IInv)'
  BY TypeNext, InvNext
<1> QED  BY <1>1, <1>2, PTL DEF Spec

\* The client's bytes are relayed only after the one attempt to send the fake
\* for that connection is over.
THEOREM FakeIsFirst == Spec => []FakeBeforeRelay
<1>1. TypeOK /\ IInv => FakeBeforeRelay
  BY DEF IInv, TaskInv, VerdictInv, HandlerInv, FakeBeforeRelay, Relayed
<1> QED  BY <1>1, Invariance, PTL

\* The injector and the executor never close the sockets of a relayed connection.
THEOREM RelayKeepsSockets == Spec => []RelayUndisturbed
<1>1. TypeOK /\ IInv => RelayUndisturbed
  BY DEF TypeOK, IInv, HandlerInv, RelayUndisturbed, Relayed
<1> QED  BY <1>1, Invariance, PTL

-------------------------------------------------------------------------------
(* The server's stream *)

\* Arithmetic modulo an arbitrary number.
LEMMA ModuloIs ==
  ASSUME NEW m \in Nat \ {0}, NEW x \in 0 .. m - 1
  PROVE  x % m = x /\ (x + m) % m = x /\ (x - m) % m = x
  OBVIOUS

\* The fake ends where the server's stream begins, wherever the number wraps.
LEMMA FakeEndsAtStream ==
  ASSUME NEW s \in Seqs
  PROVE  (Plus(s, 1 - FakeLen) + FakeLen - (s + 1)) % SeqMod = 0
<1>1. /\ SeqMod \in Nat \ {0} /\ FakeLen \in Int /\ 1 <= FakeLen /\ FakeLen <= SeqMod
      /\ s \in Int /\ 0 <= s /\ s < SeqMod
  BY DEF Seqs
<1>2. CASE s + 1 - FakeLen >= 0
  <2>1. (s + 1 - FakeLen) % SeqMod = s + 1 - FakeLen
    BY <1>1, <1>2, ModuloIs
  <2>2. Plus(s, 1 - FakeLen) = s + 1 - FakeLen
    BY <1>1, <2>1 DEF Plus
  <2>3. 0 % SeqMod = 0
    BY <1>1, ModuloIs
  <2> QED  BY <1>1, <2>2, <2>3
<1>3. CASE s + 1 - FakeLen < 0
  <2> DEFINE x == s + 1 - FakeLen + SeqMod
  <2>1. x \in 0 .. SeqMod - 1 /\ x - SeqMod = s + 1 - FakeLen
    BY <1>1, <1>3
  <2>2. (x - SeqMod) % SeqMod = x
    BY <1>1, <2>1, ModuloIs
  <2>3. Plus(s, 1 - FakeLen) = x
    BY <1>1, <2>1, <2>2 DEF Plus
  <2>4. SeqMod % SeqMod = 0
    BY <1>1, ModuloIs
  <2>5. Plus(s, 1 - FakeLen) + FakeLen - (s + 1) = SeqMod
    BY <1>1, <2>3
  <2> QED  BY <2>4, <2>5
<1> QED  BY <1>1, <1>2, <1>3

\* Before sock_connect the kernel has no number for the connection yet.
Early(l) == l \in {"idle", "registered"}

\* A SYN carries the kernel's own number, and the fake the one that goes with it.
Numbered(p, at, end) ==
  p.kind \in {"SYN", "FAKE"} =>
    /\ ~ Early(at[p.conn])
    /\ p.seq = IF p.kind = "SYN" THEN end[p.conn].isn ELSE Plus(end[p.conn].isn, 1 - FakeLen)

Pending == {"queued", "crafting", "sending"}

\* So do all the packets there are; and what the injector has noted and what the
\* server has is the kernel's number too.
WireInv ==
  /\ \A p \in net : Numbered(p, pc, tcp)
  /\ \A i \in DOMAIN capture : Numbered(capture[i], pc, tcp)
  /\ inj_at # "recv" => Numbered(inj_pkt, pc, tcp)
  /\ \A c \in Conns :
       /\ conn[c].syn_seq # NoSeq => ~ Early(pc[c]) /\ conn[c].syn_seq = tcp[c].isn
       /\ srv[c].state # "listen" => ~ Early(pc[c]) /\ srv[c].irs = tcp[c].isn
       /\ task[c] \in Pending => conn[c].syn_seq # NoSeq
       /\ tcp[c].state # "closed" => ~ Early(pc[c])
  /\ polluted = {}

\* What a step has to show of the parts it changes.
EndsKept ==
  \A d \in Conns :
    /\ ~ Early(pc[d]) => ~ Early(pc'[d]) /\ tcp'[d].isn = tcp[d].isn
    /\ tcp'[d].state # "closed" => tcp[d].state # "closed" \/ ~ Early(pc'[d])

\* The kernel's end keeps its number, and a closed one stays closed.
SameEnds ==
  \A d \in Conns : /\ tcp'[d].isn = tcp[d].isn
                   /\ tcp'[d].state # "closed" => tcp[d].state # "closed"

FlightKept == \A p \in net' : p \in net \/ Numbered(p, pc', tcp')

CaptureKept ==
  \A i \in DOMAIN capture' : \/ \E j \in DOMAIN capture : capture'[i] = capture[j]
                             \/ Numbered(capture'[i], pc', tcp')

HandKept ==
  inj_at' # "recv" => \/ inj_at # "recv" /\ inj_pkt' = inj_pkt
                      \/ \E j \in DOMAIN capture : inj_pkt' = capture[j]

NotesKept ==
  \A d \in Conns :
    /\ conn'[d].syn_seq # conn[d].syn_seq => ~ Early(pc[d]) /\ conn'[d].syn_seq = tcp[d].isn
    /\ task'[d] \in Pending => task[d] \in Pending \/ conn[d].syn_seq # NoSeq

ServerKept ==
  /\ \A d \in Conns : srv'[d].state # "listen" =>
       \/ srv[d].state # "listen" /\ srv'[d].irs = srv[d].irs
       \/ ~ Early(pc[d]) /\ srv'[d].irs = tcp[d].isn
  /\ polluted' = {}

LEMMA WireStep ==
  ASSUME TypeOK, TypeOK', WireInv, EndsKept, FlightKept, CaptureKept, HandKept,
         NotesKept, ServerKept
  PROVE  WireInv'
<1>1. ASSUME NEW p \in Packet, Numbered(p, pc, tcp) PROVE Numbered(p, pc', tcp')
  <2>1. p.conn \in Conns
    BY DEF Packet
  <2> QED  BY <1>1, <2>1 DEF Numbered, EndsKept
<1>2. \A j \in DOMAIN capture : capture[j] \in Packet
  BY DEF TypeOK
<1>3. \A p \in net' : Numbered(p, pc', tcp')
  BY <1>1 DEF TypeOK, WireInv, FlightKept
<1>4. \A j \in DOMAIN capture : Numbered(capture[j], pc', tcp')
  BY <1>1, <1>2 DEF WireInv
<1>5. \A i \in DOMAIN capture' : Numbered(capture'[i], pc', tcp')
  BY <1>4 DEF CaptureKept
<1>6. inj_at' # "recv" => Numbered(inj_pkt', pc', tcp')
  <2>1. CASE inj_at # "recv" /\ inj_pkt' = inj_pkt
    BY <1>1, <2>1 DEF TypeOK, WireInv
  <2>2. CASE \E j \in DOMAIN capture : inj_pkt' = capture[j]
    BY <1>4, <2>2
  <2> QED  BY <2>1, <2>2 DEF HandKept
<1>7. ASSUME NEW d \in Conns
      PROVE  /\ conn'[d].syn_seq # NoSeq => ~ Early(pc'[d]) /\ conn'[d].syn_seq = tcp'[d].isn
             /\ srv'[d].state # "listen" => ~ Early(pc'[d]) /\ srv'[d].irs = tcp'[d].isn
             /\ task'[d] \in Pending => conn'[d].syn_seq # NoSeq
             /\ tcp'[d].state # "closed" => ~ Early(pc'[d])
  <2>1. tcp[d].isn # NoSeq
    BY DEF TypeOK, KernelEnd, Seqs, NoSeq
  <2>2. /\ ~ Early(pc[d]) => ~ Early(pc'[d]) /\ tcp'[d].isn = tcp[d].isn
        /\ tcp'[d].state # "closed" => tcp[d].state # "closed" \/ ~ Early(pc'[d])
    BY DEF EndsKept
  <2>3. /\ conn[d].syn_seq # NoSeq => ~ Early(pc[d]) /\ conn[d].syn_seq = tcp[d].isn
        /\ srv[d].state # "listen" => ~ Early(pc[d]) /\ srv[d].irs = tcp[d].isn
        /\ task[d] \in Pending => conn[d].syn_seq # NoSeq
        /\ tcp[d].state # "closed" => ~ Early(pc[d])
    BY DEF WireInv
  <2>4. conn'[d].syn_seq # conn[d].syn_seq => ~ Early(pc[d]) /\ conn'[d].syn_seq = tcp[d].isn
    BY DEF NotesKept
  <2>5. task'[d] \in Pending => task[d] \in Pending \/ conn[d].syn_seq # NoSeq
    BY DEF NotesKept
  <2>6. srv'[d].state # "listen" =>
          \/ srv[d].state # "listen" /\ srv'[d].irs = srv[d].irs
          \/ ~ Early(pc[d]) /\ srv'[d].irs = tcp[d].isn
    BY DEF ServerKept
  <2> QED  BY <2>1, <2>2, <2>3, <2>4, <2>5, <2>6
<1>8. polluted' = {}
  BY DEF ServerKept
<1> QED  BY <1>3, <1>5, <1>6, <1>7, <1>8 DEF WireInv

\* Other packets carry no number the server or the injector takes over.
LEMMA OtherPackets ==
  ASSUME NEW p, p.kind \notin {"SYN", "FAKE"}, NEW at, NEW end
  PROVE  Numbered(p, at, end)
  BY DEF Numbered

LEMMA PacketFields ==
  ASSUME NEW c, NEW k, NEW s, NEW a
  PROVE  /\ Out(c, k, s, a).kind = k /\ In(c, k, s, a).kind = k
         /\ Out(c, k, s, a).conn = c /\ In(c, k, s, a).conn = c
         /\ Out(c, k, s, a).seq = s /\ In(c, k, s, a).seq = s
  BY DEF Out, In

LEMMA AppendKeeps ==
  ASSUME TypeOK, NEW p, Numbered(p, pc', tcp'), capture' = Append(capture, p)
  PROVE  CaptureKept
<1>1. ASSUME NEW i \in DOMAIN capture'
      PROVE  (\E j \in DOMAIN capture : capture'[i] = capture[j]) \/ capture'[i] = p
  BY <1>1 DEF TypeOK
<1> QED  BY <1>1 DEF CaptureKept

LEMMA TailKeeps ==
  ASSUME TypeOK, capture # << >>, capture' = Tail(capture)
  PROVE  CaptureKept
<1> SUFFICES ASSUME NEW i \in DOMAIN capture'
             PROVE  \E j \in DOMAIN capture : capture'[i] = capture[j]
  BY DEF CaptureKept
<1>1. capture \in Seq(Packet) /\ Len(capture) > 0
  BY DEF TypeOK
<1>2. i + 1 \in DOMAIN capture /\ capture'[i] = capture[i + 1]
  BY <1>1
<1> QED  BY <1>2

LEMMA TransmitKeeps ==
  ASSUME TypeOK, NEW p, Transmit(p), Numbered(p, pc', tcp')
  PROVE  FlightKept /\ CaptureKept
  BY AppendKeeps DEF Transmit, FlightKept

LEMMA SameCapture == ASSUME capture' = capture PROVE CaptureKept
  BY DEF CaptureKept

LEMMA SameFlight == ASSUME net' \subseteq net PROVE FlightKept
  BY DEF FlightKept

\* close() changes the state of the kernel's end and may send a FIN.
LEMMA CloseKeeps ==
  ASSUME TypeOK, NEW c \in Conns, CloseSock(c)
  PROVE  SameEnds /\ FlightKept /\ CaptureKept
<1>1. SameEnds
  BY DEF SameEnds, CloseSock, TypeOK, KernelEnd
<1>2. CASE UNCHANGED <<net, capture>>
  BY <1>1, <1>2, SameCapture, SameFlight
<1>3. CASE Transmit(Out(c, "FIN", Plus(tcp[c].isn, 1), Plus(tcp[c].irs, 1)))
  <2>1. Numbered(Out(c, "FIN", Plus(tcp[c].isn, 1), Plus(tcp[c].irs, 1)), pc', tcp')
    BY OtherPackets, PacketFields
  <2> QED  BY <1>1, <1>3, <2>1, TransmitKeeps
<1> QED  BY <1>2, <1>3 DEF CloseSock

LEMMA WireHandler ==
  ASSUME TypeOK, TypeOK', IInv, WireInv, NEW c \in Conns, Accept(c) \/ Handler(c)
  PROVE  WireInv'
<1> USE DEF loop_vars, object_vars, inj_vars, task_vars, srv_vars, Goto
<1>0. /\ pc \in [Conns -> {"idle", "registered", "connecting", "polled", "waiting",
                           "verified", "dropping", "relaying", "streaming", "closed"}]
      /\ conn \in [Conns -> Connection] /\ tcp \in [Conns -> KernelEnd]
  BY DEF TypeOK
\* The injector, the executor and the server stand still.
<1>1. HandKept /\ ServerKept /\ NotesKept
  <2>1. UNCHANGED <<inj_at, inj_pkt, task, srv, polluted>>
    BY DEF Handler, Accept, SockConnect, Poll, Connected, ConnectFails, WakeVerified,
           WakeAborted, Timeout, Finally, RelayData
  <2>2. \A d \in Conns : conn'[d].syn_seq = conn[d].syn_seq
    <3>1. CASE Accept(c)
      BY <1>0, <3>1 DEF Accept, IInv, IdleInv
    <3>2. CASE Finally(c)
      BY <1>0, <3>2 DEF Finally, Connection
    <3>3. CASE Handler(c) /\ ~ Finally(c)
      <4>1. conn' = conn
        BY <3>3 DEF Handler, SockConnect, Poll, Connected, ConnectFails, WakeVerified,
                    WakeAborted, Timeout, RelayData
      <4> QED  BY <4>1
    <3> QED  BY <3>1, <3>2, <3>3
  <2>3. HandKept
    BY <2>1 DEF HandKept
  <2>4. ServerKept
    BY <2>1 DEF ServerKept, WireInv
  <2>5. NotesKept
    BY <2>1, <2>2 DEF NotesKept
  <2> QED  BY <2>3, <2>4, <2>5
<1>2. EndsKept /\ FlightKept /\ CaptureKept
  <2>1. CASE SockConnect(c)
    <3>1. PICK s \in ISNs : /\ tcp' = [tcp EXCEPT ![c] = [state |-> "syn_sent", isn |-> s,
                                                          irs |-> 0]]
                            /\ Transmit(Out(c, "SYN", s, 0))
      BY <2>1 DEF SockConnect
    <3>2. pc[c] = "registered" /\ pc' = [pc EXCEPT ![c] = "connecting"]
      BY <2>1 DEF SockConnect
    <3>3. EndsKept
      BY <1>0, <3>1, <3>2 DEF EndsKept, Early
    <3>4. Numbered(Out(c, "SYN", s, 0), pc', tcp')
      BY <1>0, <3>1, <3>2, PacketFields DEF Numbered, Early
    <3> QED  BY <3>1, <3>3, <3>4, TransmitKeeps
  <2>2. CASE ConnectFails(c) \/ WakeAborted(c) \/ Timeout(c)
    <3>1. CloseSock(c) /\ pc' = [pc EXCEPT ![c] = "dropping"]
      BY <2>2 DEF ConnectFails, WakeAborted, Timeout
    <3>2. SameEnds /\ FlightKept /\ CaptureKept
      BY <3>1, CloseKeeps
    <3> QED  BY <1>0, <3>1, <3>2 DEF EndsKept, SameEnds, Early
  <2>3. CASE RelayData(c)
    <3>1. Transmit(Out(c, "DATA", Plus(tcp[c].isn, 1), Plus(tcp[c].irs, 1)))
      BY <2>3 DEF RelayData
    <3>2. Numbered(Out(c, "DATA", Plus(tcp[c].isn, 1), Plus(tcp[c].irs, 1)), pc', tcp')
      BY OtherPackets, PacketFields
    <3>3. EndsKept
      BY <1>0, <2>3 DEF RelayData, EndsKept, Early
    <3> QED  BY <3>1, <3>2, <3>3, TransmitKeeps
  <2>4. CASE Accept(c) \/ Poll(c) \/ Connected(c) \/ WakeVerified(c) \/ Finally(c)
    <3>1. /\ UNCHANGED <<tcp, net, capture>>
          /\ \E l : pc' = [pc EXCEPT ![c] = l] /\ (~ Early(pc[c]) => ~ Early(l))
      BY <1>0, <2>4 DEF Accept, Poll, Connected, WakeVerified, Finally, Early
    <3> QED  BY <1>0, <3>1, SameCapture, SameFlight DEF EndsKept
  <2> QED  BY <2>1, <2>2, <2>3, <2>4 DEF Handler
<1> QED  BY <1>1, <1>2, WireStep

LEMMA WireInjector ==
  ASSUME TypeOK, TypeOK', WireInv, Injector PROVE WireInv'
<1> USE DEF loop_vars, object_vars, inj_vars, task_vars, srv_vars
<1>0. /\ conn \in [Conns -> Connection] /\ tcp \in [Conns -> KernelEnd]
      /\ task \in [Conns -> {"none", "queued", "crafting", "sending", "sent", "dropped"}]
  BY DEF TypeOK
<1>1. pc' = pc /\ ServerKept
  <2>1. UNCHANGED <<pc, srv, polluted>>
    BY DEF Injector, Recv, AcquireLock, Judge, OnSyn, OnSynAck, OnFinalAck, OnFakeAck,
           OnUnexpected
  <2> QED  BY <2>1 DEF ServerKept, WireInv
<1>2. CASE Recv
  <2>1. /\ capture # << >> /\ capture' = Tail(capture)
        /\ UNCHANGED <<conn, task, tcp, net>>
        /\ inj_at' # "recv" => \/ inj_at # "recv" /\ inj_pkt' = inj_pkt
                               \/ inj_pkt' = Head(capture)
    BY <1>2 DEF Recv
  <2>2. 1 \in DOMAIN capture /\ Head(capture) = capture[1]
    BY <2>1 DEF TypeOK
  <2>3. EndsKept /\ NotesKept /\ HandKept
    BY <1>1, <2>1, <2>2 DEF EndsKept, NotesKept, HandKept
  <2> QED  BY <1>1, <2>1, <2>3, TailKeeps, SameFlight, WireStep
<1>3. CASE AcquireLock
  <2>1. UNCHANGED <<conn, task, tcp, net, capture>>
    BY <1>3 DEF AcquireLock
  <2>2. HandKept
    BY <1>3 DEF AcquireLock, HandKept
  <2>3. EndsKept /\ NotesKept
    BY <1>1, <2>1 DEF EndsKept, NotesKept
  <2> QED  BY <1>1, <2>1, <2>2, <2>3, SameCapture, SameFlight, WireStep
<1>4. CASE Judge
  <2> DEFINE c == inj_pkt.conn
  <2>1. inj_at = "judge" /\ inj_pkt \in Packet /\ c \in Conns /\ Numbered(inj_pkt, pc, tcp)
    BY <1>4 DEF Judge, TypeOK, Packet, WireInv
  <2>2. HandKept
    BY <1>4 DEF Judge, OnSyn, OnSynAck, OnFinalAck, OnFakeAck, OnUnexpected, ReleaseLock, HandKept
  <2>3. CASE OnSyn(c, inj_pkt)
    <3>1. /\ conn' = [conn EXCEPT ![c].syn_seq = inj_pkt.seq]
          /\ inj_pkt.kind = "SYN" /\ UNCHANGED <<task, tcp, net, capture>>
      BY <2>3 DEF OnSyn, SynExpected
    <3>2. ~ Early(pc[c]) /\ inj_pkt.seq = tcp[c].isn
      BY <2>1, <3>1 DEF Numbered
    <3>3. NotesKept
      BY <1>0, <2>1, <3>1, <3>2 DEF NotesKept, Connection
    <3>4. EndsKept
      BY <1>1, <3>1 DEF EndsKept
    <3> QED  BY <1>1, <2>2, <3>1, <3>3, <3>4, SameCapture, SameFlight, WireStep
  <2>4. CASE OnSynAck(c, inj_pkt) \/ OnFinalAck(c, inj_pkt) \/ OnFakeAck(c, inj_pkt)
    <3>1. UNCHANGED <<tcp, net, capture>>
      BY <2>4 DEF OnSynAck, OnFinalAck, OnFakeAck
    <3>2. \A d \in Conns : conn'[d].syn_seq = conn[d].syn_seq
      <4>1. CASE OnSynAck(c, inj_pkt)
        BY <1>0, <2>1, <4>1 DEF OnSynAck, Connection
      <4>2. CASE OnFinalAck(c, inj_pkt)
        BY <1>0, <2>1, <4>2 DEF OnFinalAck, Connection
      <4>3. CASE OnFakeAck(c, inj_pkt)
        BY <1>0, <2>1, <4>3 DEF OnFakeAck, Verdict, Connection
      <4> QED  BY <2>4, <4>1, <4>2, <4>3
    <3>3. \A d \in Conns : task'[d] \in Pending => task[d] \in Pending \/ conn[d].syn_seq # NoSeq
      BY <1>0, <2>1, <2>4 DEF OnSynAck, OnFinalAck, OnFakeAck, FinalAckExpected
    <3>4. EndsKept /\ NotesKept
      BY <1>1, <3>1, <3>2, <3>3 DEF EndsKept, NotesKept
    <3> QED  BY <1>1, <2>2, <3>1, <3>4, SameCapture, SameFlight, WireStep
  <2>5. CASE OnUnexpected(c, inj_pkt)
    <3>1. CloseSock(c) /\ Verdict(c, "unexpected_close") /\ task' = task
      BY <2>5 DEF OnUnexpected
    <3>2. SameEnds /\ FlightKept /\ CaptureKept
      BY <2>1, <3>1, CloseKeeps
    <3>3. \A d \in Conns : conn'[d].syn_seq = conn[d].syn_seq
      BY <1>0, <2>1, <3>1 DEF Verdict, Connection
    <3>4. EndsKept /\ NotesKept
      BY <1>1, <3>1, <3>2, <3>3 DEF EndsKept, SameEnds, NotesKept
    <3> QED  BY <1>1, <2>2, <3>2, <3>4, WireStep
  <2> QED  BY <1>4, <2>3, <2>4, <2>5 DEF Judge
<1> QED  BY <1>2, <1>3, <1>4 DEF Injector

LEMMA WireExecutor ==
  ASSUME TypeOK, TypeOK', WireInv, NEW c \in Conns, Executor(c) PROVE WireInv'
<1> USE DEF loop_vars, object_vars, inj_vars, task_vars, srv_vars
<1>0. /\ conn \in [Conns -> Connection]
      /\ task \in [Conns -> {"none", "queued", "crafting", "sending", "sent", "dropped"}]
  BY DEF TypeOK
<1>1. UNCHANGED <<pc, inj_at, inj_pkt, tcp, srv, polluted, capture>>
  BY DEF Executor, TaskLock, MarkSent, SendFake
<1>2. EndsKept /\ HandKept /\ ServerKept
  BY <1>1 DEF EndsKept, HandKept, ServerKept, WireInv
<1>3. NotesKept
  <2>1. \A d \in Conns : conn'[d].syn_seq = conn[d].syn_seq
    <3>1. CASE MarkSent(c)
      BY <1>0, <3>1 DEF MarkSent, Connection
    <3>2. conn' = conn \/ MarkSent(c)
      BY DEF Executor, TaskLock, SendFake
    <3> QED  BY <3>1, <3>2
  <2>2. \A d \in Conns : task'[d] \in Pending => task[d] \in Pending
    BY <1>0 DEF Executor, TaskLock, MarkSent, SendFake, Pending
  <2> QED  BY <2>1, <2>2 DEF NotesKept
<1>4. FlightKept
  <2>1. CASE TaskLock(c) \/ MarkSent(c)
    BY <2>1, SameFlight DEF TaskLock, MarkSent
  <2>2. CASE SendFake(c)
    <3>1. task[c] = "sending"
      BY <2>2 DEF SendFake
    <3>2. ~ Early(pc[c]) /\ conn[c].syn_seq = tcp[c].isn
      BY <3>1 DEF WireInv, Pending
    <3>3. Numbered(FakePacket(c), pc', tcp')
      BY <1>1, <3>2, PacketFields DEF FakePacket, Numbered
    <3>4. \A p \in net' : p \in net \/ p = FakePacket(c)
      BY <2>2 DEF SendFake
    <3> QED  BY <3>3, <3>4 DEF FlightKept
  <2> QED  BY <2>1, <2>2 DEF Executor
<1> QED  BY <1>1, <1>2, <1>3, <1>4, SameCapture, WireStep

\* A packet that reaches the machine is captured; the kernel may answer it.
LEMMA WireKernel ==
  ASSUME TypeOK, TypeOK', WireInv, NEW c \in Conns, NEW p \in net, p.conn = c,
         KernelSynAck(c, p) \/ KernelOther(c, p)
  PROVE  WireInv'
<1> USE DEF loop_vars, object_vars, inj_vars, task_vars, srv_vars, env_same
<1>0. tcp \in [Conns -> KernelEnd] /\ capture \in Seq(Packet)
  BY DEF TypeOK
<1>1. UNCHANGED <<pc, conn, inj_at, inj_pkt, task, srv, polluted>>
  BY DEF KernelSynAck, KernelOther
<1>2. SameEnds
  <2>1. CASE KernelSynAck(c, p)
    BY <1>0, <2>1 DEF KernelSynAck, KernelEnd, SameEnds
  <2>2. CASE KernelOther(c, p)
    BY <1>0, <2>2 DEF KernelOther, KernelEnd, SameEnds
  <2> QED  BY <2>1, <2>2
<1>3. EndsKept /\ HandKept /\ NotesKept /\ ServerKept
  BY <1>1, <1>2 DEF SameEnds, EndsKept, HandKept, NotesKept, ServerKept, WireInv
<1>4. FlightKept /\ CaptureKept
  <2>1. Numbered(p, pc', tcp')
    BY OtherPackets DEF KernelSynAck, KernelOther
  <2>2. CASE KernelSynAck(c, p)
    <3>1. PICK reply : /\ reply.kind \notin {"SYN", "FAKE"}
                       /\ capture' = capture \o <<p, reply>>
                       /\ net' = (net \ {p}) \cup {reply}
      <4> DEFINE irs   == IF tcp[c].state = "syn_sent" THEN p.seq ELSE tcp[c].irs
                 reply == IF tcp[c].state \in {"syn_sent", "established"}
                          THEN Out(c, "ACK", Plus(tcp[c].isn, 1), Plus(irs, 1))
                          ELSE Out(c, "RST", p.ack, 0)
      <4>1. reply.kind \notin {"SYN", "FAKE"}
        BY DEF Out
      <4>2. capture' = capture \o <<p, reply>> /\ net' = (net \ {p}) \cup {reply}
        BY <2>2 DEF KernelSynAck
      <4> HIDE DEF reply
      <4> QED  BY <4>1, <4>2
    <3>2. Numbered(reply, pc', tcp')
      BY <3>1, OtherPackets
    <3>3. FlightKept
      BY <3>1, <3>2 DEF FlightKept
    <3>4. ASSUME NEW i \in DOMAIN capture'
          PROVE  \/ \E j \in DOMAIN capture : capture'[i] = capture[j]
                 \/ capture'[i] = p \/ capture'[i] = reply
      BY <1>0, <3>1
    <3> QED  BY <2>1, <3>2, <3>3, <3>4 DEF CaptureKept
  <2>3. CASE KernelOther(c, p)
    BY <2>1, <2>3, AppendKeeps, SameFlight DEF KernelOther
  <2> QED  BY <2>2, <2>3
<1> QED  BY <1>3, <1>4, WireStep

\* A packet that reaches the server: its first number is the kernel's, and a
\* fake ends exactly where the stream begins.
LEMMA WireServer ==
  ASSUME TypeOK, TypeOK', WireInv, NEW c \in Conns, NEW p \in net, p.conn = c, Server(c, p)
  PROVE  WireInv'
<1> USE DEF loop_vars, object_vars, inj_vars, task_vars, srv_vars, env_same
<1>0. srv \in [Conns -> ServerEnd] /\ Numbered(p, pc, tcp)
  BY DEF TypeOK, WireInv
<1>1. UNCHANGED <<pc, conn, inj_at, inj_pkt, task, tcp, capture>>
  BY DEF Server
<1>2. EndsKept /\ HandKept /\ NotesKept
  BY <1>1 DEF EndsKept, HandKept, NotesKept
<1>3. ASSUME NEW replies, Answer(p, replies), \A q \in replies : q.kind \notin {"SYN", "FAKE"}
      PROVE  FlightKept
  <2>1. \A q \in net' : q \in net \/ q \in replies
    BY <1>3 DEF Answer
  <2>2. \A q \in replies : Numbered(q, pc', tcp')
    BY <1>3, OtherPackets
  <2> QED  BY <2>1, <2>2 DEF FlightKept
<1>4. \A n : ServerAck(c, n).kind = "ACK"
  BY PacketFields DEF ServerAck
<1>5. \A s, a : In(c, "SYNACK", s, a).kind = "SYNACK" /\ In(c, "RST", s, a).kind = "RST"
  BY PacketFields
<1>6. CASE ServerSyn(c, p)
  <2>1. p.kind = "SYN" /\ polluted' = polluted
    BY <1>6 DEF ServerSyn
  <2>2. ~ Early(pc[c]) /\ p.seq = tcp[c].isn
    BY <1>0, <2>1 DEF Numbered
  <2>3. ServerKept
    <3>1. CASE srv' = srv
      BY <2>1, <3>1 DEF ServerKept, WireInv
    <3>2. CASE \E s \in ISNs :
                 srv' = [srv EXCEPT ![c] = [state |-> "syn_rcvd", isn |-> s, irs |-> p.seq]]
      BY <1>0, <2>1, <2>2, <3>2 DEF ServerKept, WireInv
    <3> QED  BY <1>6, <3>1, <3>2 DEF ServerSyn
  <2>4. FlightKept
    <3>1. CASE srv[c].state = "listen"
      <4>1. \E s \in ISNs : Answer(p, {In(c, "SYNACK", s, Plus(p.seq, 1))})
        BY <1>6, <3>1 DEF ServerSyn
      <4> QED  BY <1>3, <1>5, <4>1
    <3>2. CASE srv[c].state = "syn_rcvd"
      BY <1>3, <1>5, <1>6, <3>2 DEF ServerSyn
    <3>3. CASE srv[c].state = "established"
      BY <1>3, <1>4, <1>6, <3>3 DEF ServerSyn
    <3> QED  BY <1>6, <3>1, <3>2, <3>3 DEF ServerSyn
  <2> QED  BY <1>1, <1>2, <2>3, <2>4, SameCapture, WireStep
<1>7. CASE ServerFinalAck(c, p)
  <2>1. Answer(p, {}) /\ polluted' = polluted
    BY <1>7 DEF ServerFinalAck
  <2>2. \A d \in Conns : /\ srv'[d].irs = srv[d].irs
                         /\ srv'[d].state # "listen" => srv[d].state # "listen"
    BY <1>0, <1>7 DEF ServerFinalAck, ServerEnd
  <2>3. ServerKept
    BY <2>1, <2>2 DEF ServerKept, WireInv
  <2>4. FlightKept
    BY <1>3, <2>1
  <2> QED  BY <1>1, <1>2, <2>3, <2>4, SameCapture, WireStep
<1>8. CASE ServerFake(c, p)
  <2>1. p.kind = "FAKE" /\ srv' = srv
    BY <1>8 DEF ServerFake
  <2>2. FlightKept /\ polluted' = polluted
    <3>1. CASE srv[c].state = "listen"
      BY <1>3, <1>5, <1>8, <3>1 DEF ServerFake
    <3>2. CASE srv[c].state # "listen"
      <4>1. p.seq = Plus(tcp[c].isn, 1 - FakeLen)
        BY <1>0, <2>1 DEF Numbered
      <4>2. srv[c].irs = tcp[c].isn /\ tcp[c].isn \in Seqs
        BY <3>2 DEF WireInv, TypeOK, KernelEnd
      <4>3. (p.seq + FakeLen - (srv[c].irs + 1)) % SeqMod = 0
        BY <4>1, <4>2, FakeEndsAtStream
      <4>4. Answer(p, {ServerAck(c, 1)}) /\ polluted' = polluted
        BY <1>8, <3>2, <4>3 DEF ServerFake
      <4> QED  BY <1>3, <1>4, <4>4
    <3> QED  BY <3>1, <3>2
  <2>3. ServerKept
    BY <2>1, <2>2 DEF ServerKept, WireInv
  <2> QED  BY <1>1, <1>2, <2>2, <2>3, SameCapture, WireStep
<1>9. CASE ServerStream(c, p)
  <2>1. ServerKept
    BY <1>9 DEF ServerStream, ServerKept, WireInv
  <2>2. FlightKept
    BY <1>3, <1>4, <1>9 DEF ServerStream
  <2> QED  BY <1>1, <1>2, <2>1, <2>2, SameCapture, WireStep
<1> QED  BY <1>6, <1>7, <1>8, <1>9 DEF Server

LEMMA WireFault ==
  ASSUME TypeOK, TypeOK', WireInv, NEW c \in Conns, Fault(c) \/ ConnectGivesUp(c)
  PROVE  WireInv'
<1> USE DEF loop_vars, object_vars, inj_vars, task_vars, srv_vars, env_same
<1>0. tcp \in [Conns -> KernelEnd] /\ srv \in [Conns -> ServerEnd]
  BY DEF TypeOK
<1>1. UNCHANGED <<pc, conn, inj_at, inj_pkt, task, polluted>>
  BY DEF Fault, ConnectGivesUp
<1>2. SameEnds
  <2>1. CASE ConnectGivesUp(c)
    BY <1>0, <2>1 DEF ConnectGivesUp, KernelEnd, SameEnds
  <2>2. CASE Fault(c)
    BY <2>2 DEF SameEnds, Fault, Lose, Miss, RetransmitSyn, RetransmitSynAck, Reset,
                ServerForgets
  <2> QED  BY <2>1, <2>2
<1>3. EndsKept /\ HandKept /\ NotesKept
  BY <1>1, <1>2 DEF SameEnds, EndsKept, HandKept, NotesKept
<1>4. ServerKept
  <2>1. \A d \in Conns : /\ srv'[d].irs = srv[d].irs
                         /\ srv'[d].state # "listen" => srv[d].state # "listen"
    <3>1. CASE Fault(c) /\ ServerForgets(c)
      BY <1>0, <3>1 DEF ServerForgets, ServerEnd
    <3>2. CASE srv' = srv
      BY <3>2
    <3>3. srv' = srv \/ (Fault(c) /\ ServerForgets(c))
      BY DEF Fault, ConnectGivesUp, Lose, Miss, RetransmitSyn, RetransmitSynAck, Reset
    <3> QED  BY <3>1, <3>2, <3>3
  <2> QED  BY <1>1, <2>1 DEF ServerKept, WireInv
<1>5. FlightKept /\ CaptureKept
  <2>1. CASE ConnectGivesUp(c) \/ Lose(c) \/ ServerForgets(c)
    BY <2>1, SameFlight, SameCapture DEF ConnectGivesUp, Lose, ServerForgets
  <2>2. CASE Miss(c)
    BY <2>2, SameFlight, TailKeeps DEF Miss
  <2>3. CASE RetransmitSyn(c)
    <3>1. tcp' = tcp /\ tcp[c].state = "syn_sent"
          /\ Transmit(Out(c, "SYN", tcp[c].isn, 0))
      BY <2>3 DEF RetransmitSyn
    <3>2. ~ Early(pc[c])
      BY <3>1 DEF WireInv
    <3>3. Numbered(Out(c, "SYN", tcp[c].isn, 0), pc', tcp')
      BY <1>1, <3>1, <3>2, PacketFields DEF Numbered
    <3> QED  BY <3>1, <3>3, TransmitKeeps
  <2>4. CASE RetransmitSynAck(c) \/ Reset(c)
    <3>1. CaptureKept
      BY <2>4, SameCapture DEF RetransmitSynAck, Reset
    <3>2. \A s, a : /\ Numbered(In(c, "SYNACK", s, a), pc', tcp')
                    /\ Numbered(In(c, "RST", s, a), pc', tcp')
      BY PacketFields, OtherPackets
    <3>3. FlightKept
      BY <2>4, <3>2 DEF RetransmitSynAck, Reset, FlightKept
    <3> QED  BY <3>1, <3>3
  <2> QED  BY <2>1, <2>2, <2>3, <2>4 DEF Fault
<1> QED  BY <1>3, <1>4, <1>5, WireStep

LEMMA WireInit == Init => WireInv
<1> SUFFICES ASSUME Init PROVE WireInv
  OBVIOUS
<1>1. net = {} /\ DOMAIN capture = {} /\ inj_at = "recv" /\ polluted = {}
  BY DEF Init
<1>2. \A c \in Conns : /\ conn[c].syn_seq = NoSeq /\ srv[c].state = "listen"
                       /\ task[c] = "none" /\ tcp[c].state = "closed"
  BY DEF Init, NewConnection
<1> QED  BY <1>1, <1>2 DEF WireInv, Pending

LEMMA WireNext == TypeOK /\ TypeOK' /\ IInv /\ WireInv /\ [Next]_vars => WireInv'
<1> SUFFICES ASSUME TypeOK, TypeOK', IInv, WireInv, [Next]_vars PROVE WireInv'
  OBVIOUS
<1>1. ASSUME NEW c \in Conns, Step(c) PROVE WireInv'
  <2>1. CASE Deliver(c)
    <3>1. PICK p \in net : /\ p.conn = c
                           /\ KernelSynAck(c, p) \/ KernelOther(c, p) \/ Server(c, p)
      BY <2>1 DEF Deliver
    <3> QED  BY <3>1, WireKernel, WireServer
  <2> QED  BY <1>1, <2>1, WireHandler, WireExecutor, WireFault DEF Step
<1>2. CASE UNCHANGED vars
  BY <1>2 DEF vars, loop_vars, object_vars, inj_vars, task_vars, srv_vars,
              WireInv, Numbered
<1> QED  BY <1>1, <1>2, WireInjector DEF Next, Finished

\* Whatever is lost, repeated or reordered, and wherever the numbers wrap: the
\* server takes no byte of the fake ClientHello into the client's stream.
THEOREM StreamIsClean == Spec => []ServerStreamClean
<1>1. Init => WireInv
  BY WireInit
<1>2. TypeOK /\ TypeOK' /\ IInv /\ WireInv /\ [Next]_vars => WireInv'
  BY WireNext
<1>3. WireInv => ServerStreamClean
  BY DEF WireInv, ServerStreamClean
<1> QED  BY <1>1, <1>2, <1>3, Invariance, PTL DEF Spec

-------------------------------------------------------------------------------
(* The verdict *)

LEMMA VerdictStep ==
  ASSUME TypeOK, IInv, [Next]_vars, NEW d \in Conns, conn[d].t2a_msg # ""
  PROVE  conn'[d].t2a_msg = conn[d].t2a_msg
<1> USE DEF loop_vars, object_vars, inj_vars, task_vars, srv_vars
<1>0. conn \in [Conns -> Connection]
  BY DEF TypeOK
<1>1. ASSUME NEW c \in Conns, Step(c) PROVE conn'[d].t2a_msg = conn[d].t2a_msg
  <2>1. CASE Accept(c)
    <3>1. conn' = conn
      BY <1>0, <2>1 DEF Accept, IInv, IdleInv
    <3> QED  BY <3>1
  <2>2. CASE Finally(c)
    <3>1. conn' = [conn EXCEPT ![c].monitor = FALSE]
      BY <2>2 DEF Finally
    <3> QED  BY <1>0, <3>1 DEF Connection
  <2>6. CASE MarkSent(c)
    <3>1. conn' = [conn EXCEPT ![c].fake_sent = TRUE]
      BY <2>6 DEF MarkSent
    <3> QED  BY <1>0, <3>1 DEF Connection
  <2>3. CASE Handler(c) /\ ~ Finally(c)
    BY <2>3 DEF Handler, SockConnect, Poll, Connected, ConnectFails, WakeVerified,
                WakeAborted, Timeout, RelayData
  <2>4. CASE Executor(c) /\ ~ MarkSent(c)
    BY <2>4 DEF Executor, TaskLock, SendFake
  <2>5. CASE Deliver(c) \/ ConnectGivesUp(c) \/ Fault(c)
    BY <2>5 DEF Deliver, KernelSynAck, KernelOther, Server, ConnectGivesUp, Fault, env_same
  <2> QED  BY <1>1, <2>1, <2>2, <2>3, <2>4, <2>5, <2>6 DEF Step
<1>2. CASE Injector
  <2>1. CASE Recv \/ AcquireLock
    BY <2>1 DEF Recv, AcquireLock
  <2>2. CASE Judge
    <3> DEFINE c == inj_pkt.conn
    <3>1. c \in Conns /\ c # d
      BY <2>2 DEF Judge, TypeOK, Packet, IInv, VerdictInv
    <3>2. \/ OnSyn(c, inj_pkt) \/ OnSynAck(c, inj_pkt) \/ OnFinalAck(c, inj_pkt)
          \/ OnFakeAck(c, inj_pkt) \/ OnUnexpected(c, inj_pkt)
      BY <2>2 DEF Judge
    <3> HIDE DEF c
    <3>3. conn'[d] = conn[d]
      BY <1>0, <3>1, <3>2 DEF OnSyn, OnSynAck, OnFinalAck, OnFakeAck, OnUnexpected, Verdict
    <3> QED  BY <3>3
  <2> QED  BY <1>2, <2>1, <2>2 DEF Injector
<1>3. CASE Finished \/ UNCHANGED vars
  BY <1>3 DEF Finished, vars
<1> QED  BY <1>1, <1>2, <1>3 DEF Next

\* A verdict, once given, is never replaced.
THEOREM VerdictIsFinal == Spec => VerdictOnce
<1>1. TypeOK /\ IInv /\ [Next]_vars =>
        [\A c \in Conns : conn[c].t2a_msg # "" => conn'[c].t2a_msg = conn[c].t2a_msg]_vars
  BY VerdictStep
<1> QED  BY <1>1, Invariance, PTL DEF Spec, VerdictOnce

\* A send that was called has put the fake on the wire, or has failed.
SentInv ==
  \A c \in Conns : task[c] = "sent" => trouble > 0 \/ \E p \in emitted : p.conn = c

LEMMA SentNext == TypeOK /\ SentInv /\ [Next]_vars => SentInv'
<1> USE DEF loop_vars, object_vars, inj_vars, task_vars, srv_vars
<1> SUFFICES ASSUME TypeOK, SentInv, [Next]_vars PROVE SentInv'
  OBVIOUS
<1>0. /\ task \in [Conns -> {"none", "queued", "crafting", "sending", "sent", "dropped"}]
      /\ trouble \in Nat
  BY DEF TypeOK
<1>1. ASSUME NEW c \in Conns, SendFake(c) PROVE SentInv'
  <2>1. task' = [task EXCEPT ![c] = "sent"] /\ trouble' >= trouble /\ emitted \subseteq emitted'
    BY <1>0, <1>1 DEF SendFake
  <2>2. trouble' > 0 \/ FakePacket(c) \in emitted'
    BY <1>0, <1>1 DEF SendFake
  <2>3. FakePacket(c).conn = c
    BY PacketFields DEF FakePacket
  <2>4. trouble > 0 => trouble' > 0
    BY <1>0, <1>1 DEF SendFake
  <2> QED  BY <1>0, <2>1, <2>2, <2>3, <2>4 DEF SentInv
<1>2. ASSUME \A d \in Conns : task'[d] = "sent" => task[d] = "sent",
             emitted' = emitted, trouble' = trouble \/ trouble' = trouble + 1
      PROVE  SentInv'
  BY <1>0, <1>2 DEF SentInv
<1>3. ASSUME NEW c \in Conns, Step(c), ~ SendFake(c) PROVE SentInv'
  <2>1. CASE Accept(c) \/ Handler(c)
    <3>1. UNCHANGED <<task, emitted, trouble>>
      BY <2>1 DEF Handler, Accept, SockConnect, Poll, Connected, ConnectFails, WakeVerified,
                  WakeAborted, Timeout, Finally, RelayData
    <3> QED  BY <1>2, <3>1
  <2>2. CASE TaskLock(c) \/ MarkSent(c)
    BY <1>0, <1>2, <2>2 DEF TaskLock, MarkSent
  <2>3. CASE Deliver(c) \/ ConnectGivesUp(c) \/ Fault(c)
    BY <1>2, <2>3 DEF Deliver, KernelSynAck, KernelOther, Server, ConnectGivesUp, Fault, env_same
  <2> QED  BY <1>3, <2>1, <2>2, <2>3 DEF Step, Executor
<1>4. CASE Injector
  BY <1>0, <1>2, <1>4 DEF Injector, Recv, AcquireLock, Judge, OnSyn, OnSynAck, OnFinalAck,
                          OnFakeAck, OnUnexpected
<1>5. CASE UNCHANGED vars
  BY <1>2, <1>5 DEF vars
<1> QED  BY <1>1, <1>3, <1>4, <1>5 DEF Next, Finished

\* Only a fault can make the documented meaning of the verdict wrong: as long as
\* no send has failed and nothing else has gone wrong, it means an injected fake.
THEOREM OnlyFaultsMislead == Spec => [](trouble = 0 => VerdictMeansFakeSent)
<1>1. Init => SentInv
  BY DEF Init, SentInv
<1>2. TypeOK /\ SentInv /\ [Next]_vars => SentInv'
  BY SentNext
<1>3. TypeOK /\ IInv /\ SentInv => (trouble = 0 => VerdictMeansFakeSent)
  <2> SUFFICES ASSUME IInv, SentInv, trouble = 0, NEW c \in Conns,
                      conn[c].t2a_msg = "fake_data_ack_recv"
               PROVE  \E p \in emitted : p.conn = c
    BY DEF VerdictMeansFakeSent
  <2>1. task[c] = "sent"
    BY DEF IInv, VerdictInv
  <2>2. ~ trouble > 0
    OBVIOUS
  <2> QED  BY <2>1, <2>2 DEF SentInv
<1> QED  BY <1>1, <1>2, <1>3, Invariance, PTL DEF Spec

LEMMA ReportStep ==
  ASSUME TypeOK, IInv, Next, NEW d \in Conns, diag'[d] # diag[d], diag'[d] = "no_fake"
  PROVE  fakes[d] = 0
<1>1. ASSUME NEW c \in Conns, Timeout(c) PROVE fakes[d] = 0
  <2>1. PICK r \in {Diagnosis(c), "rate_limited"} : diag' = [diag EXCEPT ![c] = r]
    BY <1>1 DEF Timeout
  <2>2. d = c /\ Diagnosis(c) = "no_fake"
    BY <2>1 DEF TypeOK
  <2>3. ~ conn[c].fake_sent
    BY <2>2 DEF Diagnosis
  <2>4. fakes[c] = 0
    BY <2>3 DEF IInv, TaskInv
  <2> QED  BY <2>2, <2>4
<1>2. ASSUME NEW c \in Conns, Accept(c) \/ (Handler(c) /\ ~ Timeout(c))
      PROVE  UNCHANGED diag
  BY <1>2 DEF Accept, Handler, SockConnect, Poll, Connected, ConnectFails, WakeVerified,
              WakeAborted, Finally, RelayData
<1>3. ASSUME NEW c \in Conns, Executor(c) \/ Deliver(c) \/ ConnectGivesUp(c) \/ Fault(c)
      PROVE  UNCHANGED diag
  BY <1>3 DEF Executor, TaskLock, MarkSent, SendFake, Deliver, KernelSynAck, KernelOther,
              Server, ConnectGivesUp, Fault, env_same, loop_vars
<1>4. ASSUME Injector \/ Finished PROVE UNCHANGED diag
  BY <1>4 DEF Injector, Recv, AcquireLock, Judge, OnSyn, OnSynAck, OnFinalAck, OnFakeAck,
              OnUnexpected, Finished, vars, loop_vars
<1> QED  BY <1>1, <1>2, <1>3, <1>4 DEF Next, Step

\* A timeout report that says no fake was injected is right about it.
THEOREM ReportIsTrue == Spec => NoFakeReportTrue
<1>1. TypeOK /\ IInv /\ [Next]_vars =>
        [\A c \in Conns : diag'[c] # diag[c] /\ diag'[c] = "no_fake" => fakes[c] = 0]_vars
  BY ReportStep
<1> QED  BY <1>1, Invariance, PTL DEF Spec, NoFakeReportTrue

-------------------------------------------------------------------------------
(* Desync implements RelayGate *)

\* A step that sends no fake and leaves every connection in its phase.
LEMMA GateStutter ==
  ASSUME UNCHANGED <<pc, fakes>> PROVE UNCHANGED Gate!vars
  BY DEF Gate!vars, Phase, Relayed

LEMMA GateInit == Init => Gate!Init
<1> SUFFICES ASSUME Init PROVE Gate!Init
  OBVIOUS
<1>1. ASSUME NEW c \in Conns PROVE Phase(c) = "new"
  <2>1. pc[c] = "idle"
    BY DEF Init
  <2> QED  BY <2>1 DEF Phase, Relayed
<1>2. [c \in Conns |-> Phase(c)] = [c \in Conns |-> "new"]
  BY <1>1
<1> QED  BY <1>2 DEF Init, Gate!Init

LEMMA GateHandler ==
  ASSUME TypeOK, IInv, NEW c \in Conns, Accept(c) \/ Handler(c)
  PROVE  [Gate!Next]_(Gate!vars)
<1> DEFINE before == [d \in Conns |-> Phase(d)]
           after  == [d \in Conns |-> Phase(d)']
<1>0. pc \in [Conns -> {"idle", "registered", "connecting", "polled", "waiting",
                        "verified", "dropping", "relaying", "streaming", "closed"}]
  BY DEF TypeOK
<1>1. UNCHANGED fakes
  BY DEF Accept, Handler, SockConnect, Poll, Connected, ConnectFails, WakeVerified,
         WakeAborted, Timeout, Finally, RelayData, task_vars
<1>2. PICK l \in {"registered", "connecting", "polled", "waiting", "verified",
                  "dropping", "relaying", "streaming", "closed"} :
        pc' = [pc EXCEPT ![c] = l]
  BY DEF Accept, Handler, SockConnect, Poll, Connected, ConnectFails, WakeVerified,
         WakeAborted, Timeout, Finally, RelayData, Goto
<1>3. after = [before EXCEPT ![c] = Phase(c)']
  BY <1>0, <1>2 DEF Phase, Relayed
<1>4. CASE Accept(c)
  <2>1. before[c] = "new" /\ Phase(c)' = "gated"
    BY <1>0, <1>4 DEF Accept, Goto, Phase, Relayed
  <2>2. Gate!Accept(c)
    BY <1>1, <1>3, <2>1 DEF Gate!Accept, Gate!Move
  <2> QED  BY <2>2 DEF Gate!Next
<1>5. CASE SockConnect(c) \/ Poll(c) \/ Connected(c) \/ WakeVerified(c) \/ RelayData(c)
  <2>1. before[c] = Phase(c)'
    BY <1>0, <1>5 DEF SockConnect, Poll, Connected, WakeVerified, RelayData, Goto,
                      Phase, Relayed
  <2>2. after = before
    BY <1>3, <2>1
  <2> QED  BY <1>1, <2>2 DEF Gate!vars
<1>6. CASE ConnectFails(c) \/ WakeAborted(c) \/ Timeout(c)
  <2>1. before[c] = "gated" /\ Phase(c)' = "refused"
    BY <1>0, <1>6 DEF ConnectFails, WakeAborted, Timeout, Goto, Phase, Relayed
  <2>2. Gate!Refuse(c)
    BY <1>1, <1>3, <2>1 DEF Gate!Refuse, Gate!Move
  <2> QED  BY <2>2 DEF Gate!Next
<1>7. CASE Finally(c) /\ pc[c] = "verified"
  <2>1. before[c] = "gated" /\ Phase(c)' = "open"
    BY <1>0, <1>7 DEF Finally, Goto, Phase, Relayed
  <2>2. fakes[c] = 1
    BY <1>7 DEF IInv, HandlerInv, VerdictInv, TaskInv
  <2>3. Gate!Open(c)
    BY <1>1, <1>3, <2>1, <2>2 DEF Gate!Open, Gate!Move
  <2> QED  BY <2>3 DEF Gate!Next
<1>8. CASE Finally(c) /\ pc[c] = "dropping"
  <2>1. before[c] = Phase(c)'
    BY <1>0, <1>8 DEF Finally, Goto, Phase, Relayed
  <2>2. after = before
    BY <1>3, <2>1
  <2> QED  BY <1>1, <2>2 DEF Gate!vars
<1>9. CASE Handler(c)
  <2>1. Finally(c) => pc[c] = "verified" \/ pc[c] = "dropping"
    BY DEF Finally
  <2> HIDE DEF before, after
  <2> QED  BY <1>5, <1>6, <1>7, <1>8, <1>9, <2>1 DEF Handler
<1> QED  BY <1>4, <1>9

LEMMA GateExecutor ==
  ASSUME TypeOK, IInv, NEW c \in Conns, Executor(c)
  PROVE  [Gate!Next]_(Gate!vars)
<1>1. CASE TaskLock(c) \/ MarkSent(c)
  BY <1>1, GateStutter DEF TaskLock, MarkSent, loop_vars
<1>2. CASE SendFake(c)
  <2>1. fakes[c] = 0 /\ fakes' = [fakes EXCEPT ![c] = 1]
    <3>1. task[c] = "sending" /\ fakes' = [fakes EXCEPT ![c] = @ + 1]
      BY <1>2 DEF SendFake
    <3>2. fakes[c] = 0
      BY <3>1 DEF IInv, TaskInv
    <3> QED  BY <3>1, <3>2
  <2>2. UNCHANGED [d \in Conns |-> Phase(d)]
    BY <1>2 DEF SendFake, loop_vars, Phase, Relayed
  <2>3. Phase(c) \in {"gated", "refused"}
    <3>1. pc[c] \notin {"idle", "verified", "relaying", "streaming"}
      <4>1. task[c] = "sending"
        BY <1>2 DEF SendFake
      <4>2. pc[c] \notin {"verified", "relaying", "streaming"}
        BY <4>1 DEF IInv, HandlerInv, VerdictInv
      <4>3. ASSUME pc[c] = "idle" PROVE FALSE
        <5>1. conn[c] = NewConnection
          BY <4>3 DEF IInv, IdleInv
        <5>2. NewConnection.sch_fake_sent = FALSE
          BY DEF NewConnection
        <5> QED  BY <4>1, <5>1, <5>2 DEF IInv, TaskInv
      <4> QED  BY <4>2, <4>3
    <3> QED  BY <3>1 DEF Phase, Relayed
  <2>4. Gate!Attempt(c)
    BY <2>1, <2>2, <2>3 DEF Gate!Attempt
  <2> QED  BY <2>4 DEF Gate!Next
<1> QED  BY <1>1, <1>2 DEF Executor

LEMMA GateNext == TypeOK /\ IInv /\ [Next]_vars => [Gate!Next]_(Gate!vars)
<1> SUFFICES ASSUME TypeOK, IInv, [Next]_vars PROVE [Gate!Next]_(Gate!vars)
  OBVIOUS
<1>1. ASSUME NEW c \in Conns, Step(c) PROVE [Gate!Next]_(Gate!vars)
  <2>1. CASE Accept(c) \/ Handler(c)
    BY <2>1, GateHandler
  <2>2. CASE Executor(c)
    BY <2>2, GateExecutor
  <2>3. CASE Deliver(c) \/ ConnectGivesUp(c) \/ Fault(c)
    <3>1. UNCHANGED <<pc, fakes>>
      BY <2>3 DEF Deliver, KernelSynAck, KernelOther, Server, ConnectGivesUp, Fault,
                  env_same, loop_vars, task_vars
    <3> QED  BY <3>1, GateStutter
  <2> QED  BY <1>1, <2>1, <2>2, <2>3 DEF Step
<1>2. CASE Injector
  <2>1. UNCHANGED <<pc, fakes>>
    BY <1>2 DEF Injector, Recv, AcquireLock, Judge, OnSyn, OnSynAck, OnFinalAck, OnFakeAck,
                OnUnexpected, loop_vars, task_vars
  <2> QED  BY <2>1, GateStutter
<1>3. CASE Finished \/ UNCHANGED vars
  BY <1>3, GateStutter DEF Finished, vars, loop_vars, task_vars
<1> QED  BY <1>1, <1>2, <1>3 DEF Next

\* The threads, the kernel and the network together do to a client only what
\* RelayGate allows.
THEOREM Refinement == Spec => KeepsGate
<1>1. Init => Gate!Init
  BY GateInit
<1>2. TypeOK /\ IInv /\ [Next]_vars => [Gate!Next]_(Gate!vars)
  BY GateNext
<1> QED  BY <1>1, <1>2, Invariance, PTL DEF Spec, KeepsGate, Gate!Spec
===============================================================================
