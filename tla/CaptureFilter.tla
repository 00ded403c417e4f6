---------------------------- MODULE CaptureFilter ----------------------------
(***************************************************************************)
(* Which packets reach the state machine: the classic-BPF program that     *)
(* _build_bpf() assembles by hand, executed instruction by instruction as  *)
(* the kernel does, and then the clauses of RawSocketEngine.recv().        *)
(* Together they are to accept exactly what the filter of the WinDivert    *)
(* engine accepts (src/engines/windivert_engine.py).  And what becomes of  *)
(* the handshake ACK among them: fake_send_thread turns it into the fake.  *)
(***************************************************************************)
EXTENDS Codec

CONSTANTS
  Hosts, local_ip, dst_ip, Ports, dst_port, Protocols,
  Shapes,    \* lengths of captured frames
  Names,     \* lengths of FAKE_SNI
  Fills,     \* pairs of bytes the ClientHello is filled with
  Bases      \* sums of the words before the payload

\* An upstream on this machine has no outside address to tell the directions apart.
ASSUME DirectionsDiffer == local_ip # dst_ip

\* Header lengths are counted in words of four bytes, and the buffer of recv() holds
\* the largest datagram there is.
ASSUME ShapesAssumption ==
  /\ Shapes \subseteq Lengths
  /\ \A s \in Shapes : s.ihl % 4 = 0 /\ s.data_off % 4 = 0 /\ s.total_len <= s.cap
  /\ Names \subseteq Nat

\* The words before the payload are those of the pseudo header, six, and of the TCP
\* header, thirty at most.
ASSUME SumsAssumption ==
  /\ Fills \subseteq (0 .. 255) \X (0 .. 255)
  /\ Bases \subseteq Nat /\ \A base \in Bases : base <= 36 * 65535

\* Captured frames, with the fields the filters look at.
Packet == [proto : Protocols, src : Hosts, dst : Hosts, sport : Ports, dport : Ports,
           syn : BOOLEAN, rst : BOOLEAN, fin : BOOLEAN, shape : Shapes]

VARIABLES
  packet,   \* the packet on the wire
  stage,    \* bpf, recv, delivered, dropped or sent
  pc, A,    \* the kernel's program counter and accumulator
  fake      \* the fake made of the packet: its lengths, data, checksum

vars == <<packet, stage, pc, A, fake>>

\* With SNI_NO_BPF=1 there is no kernel filter and recv() decides alone.
Init ==
  /\ packet \in Packet
  /\ stage \in {"bpf", "recv"}
  /\ pc = 0 /\ A = 0
  /\ fake = <<>>

(***************************************************************************)
(* The kernel filter                                                       *)
(***************************************************************************)
Load(o) == [op |-> "load", k |-> o]
\* (Plausible bugs: jumps counted from the instruction itself; branches swapped.)
FromSelfJeq(jt, jf, k) == [op |-> "jeq", jt |-> jt + 1, jf |-> jf + 1, k |-> k]
SwappedJeq(jt, jf, k)  == [op |-> "jeq", jt |-> jf, jf |-> jt, k |-> k]

\* jt and jf count the instructions to skip.
Jeq(jt, jf, k) == [op |-> "jeq", jt |-> jt, jf |-> jf, k |-> k]
Ret(k) == [op |-> "ret", k |-> k]

ACCEPT == 9
DROP   == 10

prog(i) ==
  CASE i = 0 -> Load(9)                                           \* ip.proto
    [] i = 1 -> Jeq(0, DROP - 1 - 1, TCP)
    [] i = 2 -> Load(12)                                          \* ip.src
    [] i = 3 -> Jeq(7 - 3 - 1, 0, local_ip)
    [] i = 4 -> Jeq(0, DROP - 4 - 1, dst_ip)
    [] i = 5 -> Load(16)                                          \* ip.dst, inbound
    [] i = 6 -> Jeq(ACCEPT - 6 - 1, DROP - 6 - 1, local_ip)
    [] i = 7 -> Load(16)                                          \* ip.dst, outbound
    [] i = 8 -> Jeq(ACCEPT - 8 - 1, DROP - 8 - 1, dst_ip)
    [] i = 9 -> Ret(262144)
    [] OTHER -> Ret(0)

Field(p, o) == CASE o = 9 -> p.proto [] o = 12 -> p.src [] OTHER -> p.dst

\* A load beyond the end of the packet rejects it.
Beyond(p, o) == p.shape.cap < (IF o = 9 THEN 10 ELSE o + 4)

Kernel ==
  /\ stage = "bpf"
  /\ \/ /\ prog(pc).op = "load" /\ Beyond(packet, prog(pc).k)
        /\ stage' = "dropped"
        /\ UNCHANGED <<A, pc>>
     \/ /\ prog(pc).op = "load" /\ ~ Beyond(packet, prog(pc).k)
        /\ A' = Field(packet, prog(pc).k)
        /\ pc' = pc + 1
        /\ UNCHANGED stage
     \/ /\ prog(pc).op = "jeq"
        /\ pc' = pc + 1 + (IF A = prog(pc).k THEN prog(pc).jt ELSE prog(pc).jf)
        /\ UNCHANGED <<A, stage>>
     \/ /\ prog(pc).op = "ret"
        /\ stage' = IF prog(pc).k = 0 THEN "dropped" ELSE "recv"
        /\ UNCHANGED <<A, pc>>
  /\ UNCHANGED <<packet, fake>>

(***************************************************************************)
(* RawSocketEngine.recv(), for a packet it neither injected nor saw before *)
(***************************************************************************)
InvolvesServer(p) == p.src = dst_ip \/ p.dst = dst_ip

OfTheFlow(p) ==
  IF p.src = local_ip /\ p.dst = dst_ip THEN p.dport = dst_port
  ELSE p.src = dst_ip /\ p.dst = local_ip /\ p.sport = dst_port

\* (A plausible bug: any payload is dropped, that of a FIN as well.)
AnyPayload(p) == parse(p.shape).payload > 0

PayloadOnly(p) == parse(p.shape).payload > 0 /\ ~ (p.syn \/ p.rst \/ p.fin)

Recv ==
  /\ stage = "recv"
  /\ stage' = IF /\ packet.shape.cap >= 20
                 /\ InvolvesServer(packet) /\ packet.proto = TCP
                 /\ Parses(packet.proto, packet.shape)
                 /\ OfTheFlow(packet)
                 /\ ~ PayloadOnly(packet)
              THEN "delivered" ELSE "dropped"
  /\ UNCHANGED <<packet, pc, A, fake>>

(***************************************************************************)
(* fake_send_thread() and send(): the fake, for the handshake ACK          *)
(***************************************************************************)
HandshakeAck(p) == p.src = local_ip /\ ~ (p.syn \/ p.rst \/ p.fin) /\ parse(p.shape).payload = 0

SendFake ==
  /\ stage = "delivered" /\ HandshakeAck(packet)
  /\ \E n \in {m \in Names : m <= MaxName}, fill \in Fills :
       LET hello == [i \in 1 .. get_client_hello_with(n) |-> fill[1 + (i % 2)]]
           words == WordSum(hello)
       IN \E base \in Bases :
            fake' = [lengths  |-> to_bytes([parse(packet.shape) EXCEPT !.payload = Len(hello)]),
                     hello    |-> Len(hello), total |-> base + words,
                     checksum |-> _checksum(base + words)]
  /\ stage' = "sent"
  /\ UNCHANGED <<packet, pc, A>>

Next == Kernel \/ Recv \/ SendFake

Spec == Init /\ [][Next]_vars

(***************************************************************************)
(* The reference: windivert_engine.build_filter                            *)
(***************************************************************************)
\* WinDivert takes the end of a datagram from the IP header and knows a TCP header
\* if it lies before that.
Length(s) == IF s.total_len = 0 THEN s.cap ELSE s.total_len
HasTcp(s) == s.ihl >= 20 /\ s.data_off >= 20 /\ s.ihl + s.data_off <= Length(s)

build_filter(p) ==
  /\ p.shape.version = 4 /\ p.proto = TCP /\ HasTcp(p.shape)
  /\ \/ p.src = local_ip /\ p.dst = dst_ip /\ p.dport = dst_port
     \/ p.src = dst_ip /\ p.dst = local_ip /\ p.sport = dst_port
  /\ p.syn \/ p.rst \/ p.fin \/ Length(p.shape) = p.shape.ihl + p.shape.data_off

(***************************************************************************)
(* Properties                                                              *)
(***************************************************************************)
TypeOK ==
  /\ packet \in Packet
  /\ stage \in {"bpf", "recv", "delivered", "dropped", "sent"}
  /\ pc \in 0 .. DROP
  /\ A \in Protocols \cup Hosts \cup {0}
  /\ stage = "sent" => fake.lengths \in Lengths /\ fake.hello \in Nat

\* "Every clause matters, and this engine reproduces all of them"
\* (raw_socket_engine.py:40): with the kernel filter or without it, the raw engine
\* delivers exactly the packets WinDivert's filter accepts.
FilterParity ==
  /\ stage \in {"delivered", "sent"} => build_filter(packet)
  /\ stage = "dropped" => ~ build_filter(packet)

\* send() is to "emit this (mutated) packet" (base.py:24): whatever the options and the
\* padding of the captured ACK and the length of FAKE_SNI, the fake parses as that ACK
\* with the ClientHello for payload, and the ClientHello is as long as the record,
\* handshake and extension headers of the template say.
FakeParses ==
  stage = "sent" =>
    /\ Parses(TCP, fake.lengths) /\ fake.lengths.total_len = fake.lengths.cap
    /\ parse(fake.lengths) = [parse(packet.shape) EXCEPT !.payload = fake.hello]
    /\ RecordLength + 5 = fake.hello /\ HandshakeLength + 9 = fake.hello
    /\ ExtensionsLength + 118 = fake.hello

\* "With fresh checksums" (base.py:25): the server accepts the one of the fake, whose
\* payload has an odd length (rawpacket.py:32-41).
FakeVerifies == stage = "sent" => Verifies(fake.total, fake.checksum)
===============================================================================
