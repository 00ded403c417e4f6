-------------------------- MODULE CaptureFilterProofs --------------------------
(***************************************************************************)
(* The capture filter decides as WinDivert's does for every packet, every  *)
(* address and every port: the conclusions drawn at each instruction.  And *)
(* the fake is a packet its receiver can read.                             *)
(***************************************************************************)
EXTENDS CaptureFilter, CodecProofs

\* The addresses of a packet are those of the flow.
Pair(p) == (p.src = local_ip /\ p.dst = dst_ip) \/ (p.src = dst_ip /\ p.dst = local_ip)

\* What the kernel knows of the packet when it reaches an instruction.
Known ==
  /\ pc \in 0 .. DROP
  /\ pc = 1 => A = packet.proto
  /\ pc \in {2, 3, 4, 5, 6, 7, 8, 9} => packet.proto = TCP
  /\ pc \in {3, 4} => A = packet.src
  /\ pc \in {4, 5, 6} => packet.src # local_ip
  /\ pc \in {5, 6} => packet.src = dst_ip
  /\ pc \in {6, 8} => A = packet.dst
  /\ pc \in {7, 8} => packet.src = local_ip
  /\ pc = 9 => Pair(packet)
  /\ pc = 10 => ~ (packet.proto = TCP /\ Pair(packet))

FilterInv == packet \in Packet /\ (stage = "bpf" => Known) /\ FilterParity

\* What is known of every captured frame.
LEMMA ShapeFacts ==
  ASSUME packet \in Packet
  PROVE  /\ packet.shape \in Lengths /\ packet.shape.total_len <= packet.shape.cap
         /\ packet.shape.ihl % 4 = 0 /\ packet.shape.data_off % 4 = 0
  BY ShapesAssumption DEF Packet

\* parse() finds the headers WinDivert finds, and the payload in the same place.
LEMMA ParseAgrees ==
  ASSUME packet \in Packet, packet.proto = TCP
  PROVE  /\ Parses(packet.proto, packet.shape)
              <=> packet.shape.version = 4 /\ HasTcp(packet.shape)
         /\ HasTcp(packet.shape) => packet.shape.cap >= 40 /\ parse(packet.shape).payload \in Nat
         /\ HasTcp(packet.shape) =>
              (parse(packet.shape).payload = 0
                 <=> Length(packet.shape) = packet.shape.ihl + packet.shape.data_off)
<1> DEFINE s == packet.shape
<1>1. s \in Lengths /\ s.total_len <= s.cap
  BY ShapeFacts
<1>2. s.cap \in Nat /\ s.ihl \in Nat /\ s.total_len \in Nat /\ s.data_off \in Nat
  BY <1>1 DEF Lengths
<1>3. DatagramEnd(s) = Length(s) /\ Length(s) \in Nat /\ Length(s) <= s.cap
  BY <1>1, EndIs DEF Length
<1> HIDE DEF s
<1>4. s.version = 4 /\ HasTcp(s) => Parses(TCP, s)
  BY <1>2, <1>3 DEF HasTcp, Parses
<1>5. Parses(TCP, s) => s.version = 4 /\ HasTcp(s)
  BY <1>2, <1>3 DEF HasTcp, Parses
<1>6. HasTcp(s) => s.cap >= 40
  BY <1>2, <1>3 DEF HasTcp
<1>7. HasTcp(s) => parse(s).payload \in Nat
                   /\ (parse(s).payload = 0 <=> Length(s) = s.ihl + s.data_off)
  BY <1>2, <1>3 DEF HasTcp, parse
<1> QED  BY <1>4, <1>5, <1>6, <1>7 DEF s

\* A frame too short for a load is too short for WinDivert.
LEMMA BeyondIsNoTcp ==
  ASSUME packet \in Packet, NEW o \in {9, 12, 16}, Beyond(packet, o)
  PROVE  ~ build_filter(packet)
<1>1. packet.shape.cap \in Nat /\ packet.shape.cap < 20
  BY ShapeFacts DEF Beyond, Lengths
<1> QED  BY <1>1, ParseAgrees DEF build_filter

\* The ten loads, jumps and returns, written out.
LEMMA Program ==
  /\ prog(0) = Load(9) /\ prog(1) = Jeq(0, 8, 6)
  /\ prog(2) = Load(12) /\ prog(3) = Jeq(3, 0, local_ip)
  /\ prog(4) = Jeq(0, 5, dst_ip) /\ prog(5) = Load(16)
  /\ prog(6) = Jeq(2, 3, local_ip) /\ prog(7) = Load(16)
  /\ prog(8) = Jeq(0, 1, dst_ip) /\ prog(9) = Ret(262144) /\ prog(10) = Ret(0)
  BY DEF prog, ACCEPT, DROP, TCP

\* The three fields the program loads.
LEMMA Fields ==
  ASSUME NEW p
  PROVE  Field(p, 9) = p.proto /\ Field(p, 12) = p.src /\ Field(p, 16) = p.dst
BY DEF Field

\* A packet that is no business of the program's keeps the invariant when it is dropped.
LEMMA Rejected ==
  ASSUME FilterInv, packet' = packet, stage' = "dropped", ~ build_filter(packet)
  PROVE  FilterInv'
<1>1. packet' \in Packet
  BY DEF FilterInv
<1>2. ~ build_filter(packet')
  BY Zenon
<1> QED  BY <1>1, <1>2 DEF FilterInv, FilterParity

LEMMA Continues ==
  ASSUME FilterInv, packet' = packet, stage' = "bpf", Known'
  PROVE  FilterInv'
BY DEF FilterInv, FilterParity

\* One instruction at a time.
LEMMA LoadStep ==
  ASSUME FilterInv, Kernel, NEW o \in {9, 12, 16}, prog(pc) = Load(o)
  PROVE  \/ FilterInv'
         \/ A' = Field(packet, o) /\ pc' = pc + 1 /\ stage' = "bpf" /\ packet' = packet
<1>1. Load(o).op = "load" /\ Load(o).k = o
  BY DEF Load
<1>2. /\ stage = "bpf" /\ packet' = packet
      /\ \/ Beyond(packet, o) /\ stage' = "dropped"
         \/ A' = Field(packet, o) /\ pc' = pc + 1 /\ stage' = stage
  BY <1>1, Zenon DEF Kernel
<1>3. CASE Beyond(packet, o) /\ stage' = "dropped"
  <2>1. ~ build_filter(packet)
    BY <1>3, BeyondIsNoTcp DEF FilterInv
  <2> QED  BY <1>2, <1>3, <2>1, Rejected
<1> QED  BY <1>2, <1>3

LEMMA JeqStep ==
  ASSUME Kernel, NEW jt, NEW jf, NEW k, prog(pc) = Jeq(jt, jf, k)
  PROVE  /\ pc' = pc + 1 + (IF A = k THEN jt ELSE jf)
         /\ A' = A /\ stage' = stage /\ packet' = packet
<1>1. /\ Jeq(jt, jf, k).op = "jeq" /\ Jeq(jt, jf, k).k = k
      /\ Jeq(jt, jf, k).jt = jt /\ Jeq(jt, jf, k).jf = jf
  BY DEF Jeq
<1>2. "jeq" # "load" /\ "jeq" # "ret"
  OBVIOUS
<1> QED  BY <1>1, <1>2, Zenon DEF Kernel

LEMMA RetStep ==
  ASSUME Kernel, NEW k, prog(pc) = Ret(k)
  PROVE  stage' = (IF k = 0 THEN "dropped" ELSE "recv") /\ packet' = packet
<1>1. Ret(k).op = "ret" /\ Ret(k).k = k
  BY DEF Ret
<1>2. "ret" # "load" /\ "ret" # "jeq"
  OBVIOUS
<1> QED  BY <1>1, <1>2, Zenon DEF Kernel

LEMMA KernelInv ==
  ASSUME FilterInv, Kernel
  PROVE  FilterInv'
<1>1. stage = "bpf" /\ Known
  BY Zenon DEF FilterInv, Kernel
<1>2. CASE pc = 0
  <2>1. prog(pc) = Load(9)
    BY <1>2, Program
  <2>2. CASE A' = packet.proto /\ pc' = 1 /\ stage' = "bpf" /\ packet' = packet
    <3>1. Known'
      BY <1>1, <1>2, <2>2 DEF Known, DROP
    <3> QED  BY <2>2, <3>1, Continues
  <2> QED  BY <1>2, <2>1, <2>2, LoadStep, Fields
<1>3. CASE pc = 1
  <2>1. pc' = (IF packet.proto = 6 THEN 2 ELSE 10) /\ A' = A /\ stage' = "bpf" /\ packet' = packet
    BY <1>1, <1>3, Program, JeqStep DEF Known
  <2>2. Known'
    BY <1>1, <1>3, <2>1 DEF Known, DROP, TCP
  <2> QED  BY <2>1, <2>2, Continues
<1>4. CASE pc = 2
  <2>1. prog(pc) = Load(12)
    BY <1>4, Program
  <2>2. CASE A' = packet.src /\ pc' = 3 /\ stage' = "bpf" /\ packet' = packet
    <3>1. Known'
      BY <1>1, <1>4, <2>2 DEF Known, DROP
    <3> QED  BY <2>2, <3>1, Continues
  <2> QED  BY <1>4, <2>1, <2>2, LoadStep, Fields
<1>5. CASE pc = 3
  <2>1. pc' = (IF packet.src = local_ip THEN 7 ELSE 4) /\ A' = A /\ stage' = "bpf"
              /\ packet' = packet
    BY <1>1, <1>5, Program, JeqStep DEF Known
  <2>2. Known'
    BY <1>1, <1>5, <2>1 DEF Known, DROP, TCP
  <2> QED  BY <2>1, <2>2, Continues
<1>6. CASE pc = 4
  <2>1. pc' = (IF packet.src = dst_ip THEN 5 ELSE 10) /\ A' = A /\ stage' = "bpf"
              /\ packet' = packet
    BY <1>1, <1>6, Program, JeqStep DEF Known
  <2>2. Known'
    BY <1>1, <1>6, <2>1 DEF Known, DROP, TCP, Pair
  <2> QED  BY <2>1, <2>2, Continues
<1>7. CASE pc = 5
  <2>1. prog(pc) = Load(16)
    BY <1>7, Program
  <2>2. CASE A' = packet.dst /\ pc' = 6 /\ stage' = "bpf" /\ packet' = packet
    <3>1. Known'
      BY <1>1, <1>7, <2>2 DEF Known, DROP
    <3> QED  BY <2>2, <3>1, Continues
  <2> QED  BY <1>7, <2>1, <2>2, LoadStep, Fields
<1>8. CASE pc = 6
  <2>1. pc' = (IF packet.dst = local_ip THEN 9 ELSE 10) /\ A' = A /\ stage' = "bpf"
              /\ packet' = packet
    BY <1>1, <1>8, Program, JeqStep DEF Known
  <2>2. Known'
    BY <1>1, <1>8, <2>1 DEF Known, DROP, TCP, Pair
  <2> QED  BY <2>1, <2>2, Continues
<1>9. CASE pc = 7
  <2>1. prog(pc) = Load(16)
    BY <1>9, Program
  <2>2. CASE A' = packet.dst /\ pc' = 8 /\ stage' = "bpf" /\ packet' = packet
    <3>1. Known'
      BY <1>1, <1>9, <2>2 DEF Known, DROP
    <3> QED  BY <2>2, <3>1, Continues
  <2> QED  BY <1>9, <2>1, <2>2, LoadStep, Fields
<1>10. CASE pc = 8
  <2>1. pc' = (IF packet.dst = dst_ip THEN 9 ELSE 10) /\ A' = A /\ stage' = "bpf"
              /\ packet' = packet
    BY <1>1, <1>10, Program, JeqStep DEF Known
  <2>2. Known'
    BY <1>1, <1>10, <2>1 DEF Known, DROP, TCP, Pair
  <2> QED  BY <2>1, <2>2, Continues
<1>11. CASE pc = 9
  <2>1. stage' = "recv" /\ packet' = packet
    BY <1>11, Program, RetStep
  <2> QED  BY <2>1 DEF FilterInv, FilterParity
<1>12. CASE pc = 10
  <2>1. stage' = "dropped" /\ packet' = packet
    BY <1>12, Program, RetStep
  <2>2. ~ build_filter(packet)
    BY <1>1, <1>12, Zenon DEF Known, build_filter, Pair
  <2> QED  BY <2>1, <2>2, Rejected
<1> QED  BY <1>1, <1>2, <1>3, <1>4, <1>5, <1>6, <1>7, <1>8, <1>9, <1>10, <1>11, <1>12
       DEF Known, DROP

\* One clause of recv() after the other accepts what build_filter accepts at once.
LEMMA RecvClauses ==
  ASSUME packet \in Packet
  PROVE  build_filter(packet) <=> /\ packet.shape.cap >= 20
                                  /\ InvolvesServer(packet) /\ packet.proto = TCP
                                  /\ Parses(packet.proto, packet.shape)
                                  /\ OfTheFlow(packet) /\ ~ PayloadOnly(packet)
<1>1. OfTheFlow(packet) <=> \/ /\ packet.src = local_ip /\ packet.dst = dst_ip
                               /\ packet.dport = dst_port
                            \/ /\ packet.src = dst_ip /\ packet.dst = local_ip
                               /\ packet.sport = dst_port
  <2>1. CASE packet.src = local_ip /\ packet.dst = dst_ip
    BY <2>1, DirectionsDiffer, Zenon DEF OfTheFlow
  <2>2. CASE ~ (packet.src = local_ip /\ packet.dst = dst_ip)
    BY <2>2, Zenon DEF OfTheFlow
  <2> QED  BY <2>1, <2>2
<1>2. CASE ~ (packet.shape.version = 4 /\ packet.proto = TCP /\ HasTcp(packet.shape))
  BY <1>2, ParseAgrees, Zenon DEF build_filter
<1>3. CASE packet.shape.version = 4 /\ packet.proto = TCP /\ HasTcp(packet.shape)
  <2>1. packet.shape.cap >= 20 /\ Parses(packet.proto, packet.shape)
    <3>1. packet.shape.cap \in Nat /\ packet.shape.cap >= 40
      BY <1>3, ShapeFacts, ParseAgrees DEF Lengths
    <3> QED  BY <1>3, <3>1, ParseAgrees
  <2>2. parse(packet.shape).payload > 0 <=>
          Length(packet.shape) # packet.shape.ihl + packet.shape.data_off
    BY <1>3, ParseAgrees
  <2>3. PayloadOnly(packet) <=>
          ~ (\/ packet.syn \/ packet.rst \/ packet.fin
             \/ Length(packet.shape) = packet.shape.ihl + packet.shape.data_off)
    BY <2>2, Zenon DEF PayloadOnly
  <2> QED  BY <1>1, <1>3, <2>1, <2>3, Zenon DEF build_filter, InvolvesServer
<1> QED  BY <1>2, <1>3

LEMMA RecvInv ==
  ASSUME FilterInv, Recv
  PROVE  FilterInv'
<1>1. packet \in Packet /\ packet' = packet
  BY Zenon DEF Recv, FilterInv
<1>2. build_filter(packet)' <=> build_filter(packet)
  BY <1>1, Zenon DEF build_filter
<1>3. CASE build_filter(packet)
  <2>1. stage' = "delivered"
    BY <1>1, <1>3, RecvClauses, Zenon DEF Recv
  <2> QED  BY <1>1, <1>2, <1>3, <2>1 DEF FilterInv, FilterParity
<1>4. CASE ~ build_filter(packet)
  <2>1. stage' = "dropped"
    BY <1>1, <1>4, RecvClauses, Zenon DEF Recv
  <2> QED  BY <1>1, <1>4, <2>1, Rejected
<1> QED  BY <1>3, <1>4

LEMMA SendFakeInv ==
  ASSUME FilterInv, SendFake
  PROVE  FilterInv'
<1>1. packet' = packet /\ stage = "delivered" /\ stage' = "sent"
  BY Zenon DEF SendFake
<1>2. build_filter(packet)' <=> build_filter(packet)
  BY <1>1, Zenon DEF build_filter
<1> QED  BY <1>1, <1>2 DEF FilterInv, FilterParity

LEMMA FilterInduction ==
  /\ Init => FilterInv
  /\ FilterInv /\ [Next]_vars => FilterInv'
<1>1. Init => FilterInv
  BY DEF Init, FilterInv, Known, FilterParity, DROP
<1>2. ASSUME FilterInv, [Next]_vars PROVE FilterInv'
  <2>1. CASE UNCHANGED vars
    <3>1. /\ packet' = packet /\ stage' = stage /\ pc' = pc /\ A' = A
      BY <2>1 DEF vars
    <3>2. build_filter(packet)' <=> build_filter(packet)
      BY <3>1, Zenon DEF build_filter
    <3>3. Known' <=> Known
      BY <3>1 DEF Known, Pair
    <3> QED  BY <1>2, <3>1, <3>2, <3>3 DEF FilterInv, FilterParity
  <2>2. CASE Kernel
    BY <1>2, <2>2, KernelInv
  <2>3. CASE Recv
    BY <1>2, <2>3, RecvInv
  <2>4. CASE SendFake
    BY <1>2, <2>4, SendFakeInv
  <2> QED  BY <1>2, <2>1, <2>2, <2>3, <2>4 DEF Next
<1> QED  BY <1>1, <1>2

\* The kernel program followed by recv() delivers exactly the packets WinDivert's
\* filter accepts, for all addresses, ports and packets (raw_socket_engine.py:30-47).
THEOREM Parity == Spec => []FilterParity
<1>1. FilterInv => FilterParity
  BY DEF FilterInv
<1> QED  BY <1>1, FilterInduction, PTL DEF Spec

(***************************************************************************)
(* The fake                                                                *)
(***************************************************************************)
\* The fake's payload is the ClientHello, in the headers of a packet that parses.
LEMMA FakeOf ==
  ASSUME FilterInv, SendFake
  PROVE  /\ packet' = packet /\ stage' = "sent"
         /\ fake'.hello = 517 /\ fake'.lengths \in Lengths
         /\ fake'.lengths.total_len = fake'.lengths.cap
         /\ Parses(TCP, fake'.lengths)
         /\ parse(fake'.lengths) = [parse(packet.shape) EXCEPT !.payload = 517]
<1>1. packet' = packet /\ stage' = "sent" /\ stage = "delivered"
  BY Zenon DEF SendFake
<1>2. PICK n \in {m \in Names : m <= MaxName}, fill \in Fills, base \in Bases :
        LET hello == [i \in 1 .. get_client_hello_with(n) |-> fill[1 + (i % 2)]]
            words == WordSum(hello)
        IN fake' = [lengths  |-> to_bytes([parse(packet.shape) EXCEPT !.payload = Len(hello)]),
                    hello    |-> Len(hello), total |-> base + words,
                    checksum |-> _checksum(base + words)]
  BY Zenon DEF SendFake
<1> DEFINE hello == [i \in 1 .. get_client_hello_with(n) |-> fill[1 + (i % 2)]]
           p == [parse(packet.shape) EXCEPT !.payload = Len(hello)]
<1>3. get_client_hello_with(n) = 517
  BY ShapesAssumption, HelloLength
<1>4. Len(hello) = 517
  BY <1>3
<1>5. fake'.lengths = to_bytes(p) /\ fake'.hello = Len(hello)
  BY <1>2
<1> HIDE DEF hello
<1> DEFINE i == packet.shape.ihl - 20
           o == packet.shape.data_off - 20
<1>6. i \in Nat /\ o \in Nat /\ i % 4 = 0 /\ o % 4 = 0
  <2>1. build_filter(packet) /\ packet \in Packet
    BY <1>1 DEF FilterInv, FilterParity
  <2>2. packet.shape.ihl >= 20 /\ packet.shape.data_off >= 20
    BY <2>1, Zenon DEF build_filter, HasTcp
  <2>3. /\ packet.shape.ihl \in Nat /\ packet.shape.data_off \in Nat
        /\ packet.shape.ihl % 4 = 0 /\ packet.shape.data_off % 4 = 0
    BY <2>1, ShapeFacts DEF Lengths
  <2> QED  BY <2>2, <2>3
<1>7. p = [ip_options |-> i, tcp_options |-> o, payload |-> 517]
  BY <1>4 DEF parse
<1> HIDE DEF i, o, p
<1>8. /\ to_bytes(p) \in Lengths /\ to_bytes(p).total_len = to_bytes(p).cap
      /\ Parses(TCP, to_bytes(p)) /\ parse(to_bytes(p)) = p
  BY <1>6, <1>7, RoundTrip
<1>9. p = [parse(packet.shape) EXCEPT !.payload = 517]
  BY <1>4 DEF p
<1> QED  BY <1>1, <1>4, <1>5, <1>8, <1>9

\* What the kernel's program counter and accumulator hold, and the fake's lengths.
TypeInv == FilterInv /\ TypeOK

LEMMA KernelType ==
  ASSUME TypeInv, Kernel
  PROVE  TypeOK'
<1>1. /\ packet' = packet /\ fake' = fake /\ stage' \in {"bpf", "recv", "dropped"}
      /\ A' \in {A, Field(packet, prog(pc).k)} /\ stage = "bpf"
  BY DEF Kernel
<1>2. packet.proto \in Protocols /\ packet.src \in Hosts /\ packet.dst \in Hosts
  BY DEF TypeInv, TypeOK, Packet
<1>3. Field(packet, prog(pc).k) \in Protocols \cup Hosts
  BY <1>2, Zenon DEF Field
<1>4. pc' \in 0 .. DROP
  <2>1. CASE stage' = "bpf"
    <3>1. FilterInv'
      BY KernelInv DEF TypeInv
    <3> QED  BY <2>1, <3>1 DEF FilterInv, Known
  <2>2. CASE stage' # "bpf"
    <3>1. pc' = pc
      BY <1>1, <2>2, Zenon DEF Kernel
    <3> QED  BY <3>1 DEF TypeInv, TypeOK
  <2> QED  BY <2>1, <2>2
<1> QED  BY <1>1, <1>3, <1>4 DEF TypeInv, TypeOK

\* The program never runs past its end and its accumulator holds a field of the
\* packet; the fake has a length (raw_socket_engine.py:_build_bpf).
THEOREM TypeCorrect == Spec => []TypeOK
<1>1. Init => TypeInv
  BY FilterInduction DEF Init, TypeInv, TypeOK, DROP
<1>2. ASSUME TypeInv, [Next]_vars PROVE TypeInv'
  <2>1. FilterInv'
    BY <1>2, FilterInduction DEF TypeInv
  <2>2. CASE UNCHANGED vars
    <3>1. TypeOK'
      BY <1>2, <2>2 DEF vars, TypeInv, TypeOK
    <3> QED  BY <2>1, <3>1 DEF TypeInv
  <2>3. CASE Kernel
    BY <1>2, <2>1, <2>3, KernelType DEF TypeInv
  <2>4. CASE Recv
    <3>1. /\ packet' = packet /\ pc' = pc /\ A' = A /\ fake' = fake
          /\ stage' \in {"delivered", "dropped"}
      BY <2>4 DEF Recv
    <3> QED  BY <1>2, <2>1, <3>1 DEF TypeInv, TypeOK
  <2>5. CASE SendFake
    <3>1. pc' = pc /\ A' = A
      BY <2>5, Zenon DEF SendFake
    <3>2. /\ packet' = packet /\ stage' = "sent" /\ fake'.lengths \in Lengths
          /\ fake'.hello = 517
      BY <1>2, <2>5, FakeOf DEF TypeInv
    <3> QED  BY <1>2, <2>1, <3>1, <3>2 DEF TypeInv, TypeOK
  <2> QED  BY <1>2, <2>2, <2>3, <2>4, <2>5 DEF Next
<1> QED  BY <1>1, <1>2, PTL DEF Spec, TypeInv

\* Whatever the options and the padding of the captured ACK and the length of FAKE_SNI,
\* what send() emits parses as that ACK with the ClientHello for payload
\* (rawpacket.py:238-330, packet_templates.py:21-33).
THEOREM FakeIsReadable == Spec => []FakeParses
<1> DEFINE I == FilterInv /\ FakeParses
<1>1. Init => I
  BY FilterInduction DEF Init, FakeParses
<1>2. ASSUME I, [Next]_vars PROVE I'
  <2>1. FilterInv'
    BY <1>2, FilterInduction
  <2>2. CASE UNCHANGED vars
    <3>1. packet' = packet /\ stage' = stage /\ fake' = fake
      BY <2>2 DEF vars
    <3>2. FakeParses'
      BY <1>2, <3>1, Zenon DEF FakeParses
    <3> QED  BY <2>1, <3>2
  <2>3. CASE Kernel
    <3>1. stage' # "sent"
      <4>1. stage' \in {"bpf", "recv", "dropped"}
        BY <2>3 DEF Kernel
      <4> QED  BY <4>1
    <3> QED  BY <2>1, <3>1 DEF FakeParses
  <2>4. CASE Recv
    <3>1. stage' # "sent"
      <4>1. stage' \in {"delivered", "dropped"}
        BY <2>4 DEF Recv
      <4> QED  BY <4>1
    <3> QED  BY <2>1, <3>1 DEF FakeParses
  <2>5. CASE SendFake
    <3>1. RecordLength + 5 = 517 /\ HandshakeLength + 9 = 517 /\ ExtensionsLength + 118 = 517
      BY DEF RecordLength, HandshakeLength, ExtensionsLength
    <3>2. /\ packet' = packet /\ fake'.hello = 517
          /\ fake'.lengths.total_len = fake'.lengths.cap /\ Parses(TCP, fake'.lengths)
          /\ parse(fake'.lengths) = [parse(packet.shape) EXCEPT !.payload = 517]
      BY <1>2, <2>5, FakeOf
    <3>3. parse(fake'.lengths) = [parse(packet'.shape) EXCEPT !.payload = fake'.hello]
      BY <3>2
    <3>4. FakeParses'
      BY <3>1, <3>2, <3>3 DEF FakeParses
    <3> QED  BY <2>1, <3>4
  <2> QED  BY <1>2, <2>2, <2>3, <2>4, <2>5 DEF Next
<1>3. I => FakeParses
  OBVIOUS
<1> HIDE DEF I
<1> QED  BY <1>1, <1>2, <1>3, PTL DEF Spec

(***************************************************************************)
(* Its checksum                                                            *)
(***************************************************************************)
LEMMA FillBytes ==
  /\ \A fill \in Fills : fill[1] \in Bytes /\ fill[2] \in Bytes
  /\ \A base \in Bases : base \in Nat /\ base <= 36 * 65535
<1>1. Fills \subseteq Bytes \X Bytes
  BY SumsAssumption DEF Bytes
<1>2. \A fill \in Fills : fill[1] \in Bytes /\ fill[2] \in Bytes
  BY <1>1
<1>3. \A base \in Bases : base \in Nat /\ base <= 36 * 65535
  BY SumsAssumption
<1> QED  BY <1>2, <1>3

LEMMA FilledWith ==
  ASSUME NEW fill \in Fills, NEW m \in Nat
  PROVE  /\ [i \in 1 .. m |-> fill[1 + (i % 2)]] \in Seq(Bytes)
         /\ Len([i \in 1 .. m |-> fill[1 + (i % 2)]]) = m
<1> DEFINE filled == [i \in 1 .. m |-> fill[1 + (i % 2)]]
<1>1. ASSUME NEW i \in 1 .. m PROVE fill[1 + (i % 2)] \in Bytes
  <2>1. 1 + (i % 2) = 1 \/ 1 + (i % 2) = 2
    OBVIOUS
  <2> QED  BY <2>1, FillBytes
<1>2. filled \in [1 .. m -> Bytes]
  BY <1>1, Zenon
<1> HIDE DEF filled
<1>3. filled \in Seq(Bytes) /\ Len(filled) = m
  BY <1>2, SequenceOf, Zenon
<1> QED  BY <1>3, Zenon DEF filled

\* The 517 bytes of a ClientHello are 259 words.
LEMMA HelloSum ==
  ASSUME NEW n \in Nat, n <= MaxName, NEW fill \in Fills, NEW base \in Bases,
         NEW hello, hello = [i \in 1 .. get_client_hello_with(n) |-> fill[1 + (i % 2)]]
  PROVE  base + WordSum(hello) \in Nat /\ base + WordSum(hello) <= 65535 * 65535
<1>1. get_client_hello_with(n) = 517
  BY HelloLength
<1>2. get_client_hello_with(n) \in Nat
  BY <1>1
<1>3. hello \in Seq(Bytes) /\ Len(hello) = get_client_hello_with(n)
  BY <1>2, FilledWith, Zenon
<1>4. Words(hello) = 259
  <2>1. (517 + 1) \div 2 = 259
    OBVIOUS
  <2> QED  BY <1>1, <1>3, <2>1 DEF Words
<1>5. WordSum(hello) \in Nat /\ WordSum(hello) <= 65535 * 259
  BY <1>3, <1>4, WordSumBound
<1>6. base \in Nat /\ base <= 36 * 65535
  BY FillBytes
<1> QED  BY <1>5, <1>6

LEMMA SumOf ==
  ASSUME SendFake
  PROVE  fake'.total \in Nat /\ fake'.total <= 65535 * 65535
         /\ fake'.checksum = _checksum(fake'.total)
<1>1. PICK n \in {m \in Names : m <= MaxName}, fill \in Fills, base \in Bases :
        LET hello == [i \in 1 .. get_client_hello_with(n) |-> fill[1 + (i % 2)]]
            words == WordSum(hello)
        IN fake' = [lengths  |-> to_bytes([parse(packet.shape) EXCEPT !.payload = Len(hello)]),
                    hello    |-> Len(hello), total |-> base + words,
                    checksum |-> _checksum(base + words)]
  BY Zenon DEF SendFake
<1> DEFINE hello == [i \in 1 .. get_client_hello_with(n) |-> fill[1 + (i % 2)]]
<1>2. base + WordSum(hello) \in Nat /\ base + WordSum(hello) <= 65535 * 65535
  BY ShapesAssumption, HelloSum
<1>3. fake'.total = base + WordSum(hello) /\ fake'.checksum = _checksum(base + WordSum(hello))
  BY <1>1
<1> HIDE DEF hello
<1> QED  BY <1>2, <1>3

\* Whatever the ClientHello is filled with, and whatever words the headers hold, the
\* server accepts the checksum to_bytes() computes for the fake, whose payload has an
\* odd length (rawpacket.py:32-41, 298-330).
THEOREM FakeIsAccepted == Spec => []FakeVerifies
<1>1. Init => FakeVerifies
  BY DEF Init, FakeVerifies
<1>2. ASSUME FakeVerifies, [Next]_vars PROVE FakeVerifies'
  <2>1. CASE UNCHANGED vars
    BY <1>2, <2>1, Zenon DEF vars, FakeVerifies
  <2>2. CASE Kernel
    <3>1. stage' \in {"bpf", "recv", "dropped"}
      BY <2>2 DEF Kernel
    <3> QED  BY <3>1 DEF FakeVerifies
  <2>3. CASE Recv
    <3>1. stage' \in {"delivered", "dropped"}
      BY <2>3 DEF Recv
    <3> QED  BY <3>1 DEF FakeVerifies
  <2>4. CASE SendFake
    <3>1. Verifies(fake'.total, _checksum(fake'.total))
      BY <2>4, SumOf, ChecksumVerifies
    <3> QED  BY <2>4, <3>1, SumOf DEF FakeVerifies
  <2> QED  BY <1>2, <2>1, <2>2, <2>3, <2>4 DEF Next
<1> QED  BY <1>1, <1>2, PTL DEF Spec
===============================================================================
