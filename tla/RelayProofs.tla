----------------------------- MODULE RelayProofs ------------------------------
(***************************************************************************)
(* The relay loses nothing and keeps the promise of Pipes, for any number  *)
(* of clients and file numbers, any sizes of buffers and any number of     *)
(* segments, refusals, resets and aborts.  The selector is not in the      *)
(* argument: whoever a task is woken by, what it holds in its hand stays.  *)
(***************************************************************************)
EXTENDS Relay, SequenceTheorems, TLAPS

(***************************************************************************)
(* Sockets and their other ends                                            *)
(***************************************************************************)
LEMMA Ends ==
  /\ \A s \in Sock : \E c \in Clients : s = In(c) \/ s = Out(c)
  /\ \A c \in Clients : /\ In(c) \in Sock /\ Out(c) \in Sock /\ In(c) # Out(c)
                        /\ Other(In(c)) = Out(c) /\ Other(Out(c)) = In(c)
                        /\ In(c)[1] = c /\ Out(c)[1] = c
  /\ \A c, d \in Clients : In(c) # Out(d) /\ (In(c) = In(d) => c = d) /\ (Out(c) = Out(d) => c = d)
BY DEF Sock, In, Out, Other

LEMMA Others ==
  \A s \in Sock : Other(s) \in Sock /\ Other(s) # s /\ Other(Other(s)) = s
BY DEF Sock, Other

(***************************************************************************)
(* The invariant                                                           *)
(***************************************************************************)
Data == Seq(Nat)

Shape ==
  /\ open \subseteq Sock
  /\ at \in [Sock -> Place]
  /\ fut \in [Sock -> {"none", "pending", "data", "ok", "error"}]
  /\ buf \in [Sock -> Data] /\ rx \in [Sock -> Data]
  /\ wrote \in [Sock -> Data] /\ sent \in [Sock -> Data]
  /\ taken \in [Sock -> Nat]

\* Nothing was written into the pipe that begins at s.
Silent(s) == wrote[s] = <<>> /\ sent[Other(s)] = <<>> /\ buf[s] = <<>> /\ rx[s] = <<>>

\* A client's sockets are opened once, the outer one first, and closed together; its
\* second task starts when the first one is past the gate.
Early ==
  \A c \in Clients :
    /\ at[In(c)] = "new" => In(c) \notin open /\ Silent(In(c))
    /\ at[In(c)] \in {"new", "start"} => Out(c) \notin open /\ Silent(Out(c))
    /\ at[In(c)] \in {"new", "start"} => sent[Out(c)] = <<>>
    /\ at[In(c)] \in {"new", "start", "connect", "gate"} => at[Out(c)] = "new"
    /\ at[Out(c)] \notin {"start", "connect", "gate", "failed"}
    /\ at[In(c)] = "start" => In(c) \in open
    /\ at[In(c)] \notin {"new", "start"} => (In(c) \in open <=> Out(c) \in open)

\* A task that goes for new data has nothing in its hand.
HandsFree(t) ==
  \/ at[t] \in {"new", "start", "connect", "gate", "receive"}
  \/ at[t] = "recv" /\ fut[t] # "data"
  \/ at[t] = "sending" /\ fut[t] = "ok"

Hand == \A t \in Sock : HandsFree(t) => buf[t] = <<>>

Space == \A s \in open : Len(sent[s]) <= Room + taken[s]

DataInv == Shape /\ Early /\ Hand /\ Space /\ NothingLost

(***************************************************************************)
(* Sequences                                                               *)
(***************************************************************************)
LEMMA Split ==
  ASSUME NEW s \in Data, NEW k \in 0 .. Len(s)
  PROVE  /\ SubSeq(s, 1, k) \in Data /\ SubSeq(s, k + 1, Len(s)) \in Data
         /\ SubSeq(s, 1, k) \o SubSeq(s, k + 1, Len(s)) = s
         /\ Len(SubSeq(s, 1, k)) = k
         /\ k = Len(s) => SubSeq(s, k + 1, Len(s)) = <<>>
         /\ k = 0 => SubSeq(s, 1, k) = <<>>
<1>1. Len(s) \in Nat /\ \A i \in 1 .. Len(s) : s[i] \in Nat
  BY LenProperties, ElementOfSeq DEF Data
<1>2. SubSeq(s, 1, k) \in Data /\ Len(SubSeq(s, 1, k)) = k
  <2>1. \A i \in 1 .. k : s[i] \in Nat
    BY <1>1
  <2> QED  BY <1>1, <2>1, SubSeqProperties DEF Data
<1>3. SubSeq(s, k + 1, Len(s)) \in Data
  <2>1. \A i \in k + 1 .. Len(s) : s[i] \in Nat
    BY <1>1
  <2> QED  BY <1>1, <2>1, SubSeqProperties DEF Data
<1>4. SubSeq(s, 1, k) \o SubSeq(s, k + 1, Len(s)) = SubSeq(s, 1, Len(s))
  <2>1. 1 \in 1 .. Len(s) + 1 /\ k \in 1 - 1 .. Len(s) /\ Len(s) \in k .. Len(s)
    BY <1>1
  <2> QED  BY <2>1, ConcatAdjacentSubSeq DEF Data
<1>5. SubSeq(s, 1, Len(s)) = s
  BY SubSeqFull DEF Data
<1>6. k = Len(s) => SubSeq(s, k + 1, Len(s)) = <<>>
  BY <1>1, SubSeqEmpty
<1>7. k = 0 => SubSeq(s, 1, k) = <<>>
  BY SubSeqEmpty
<1> QED  BY <1>2, <1>3, <1>4, <1>5, <1>6, <1>7

LEMMA Concat ==
  ASSUME NEW a \in Data, NEW b \in Data, NEW c \in Data
  PROVE  /\ (a \o b) \o c = a \o (b \o c)
         /\ a \o b \in Data /\ Len(a \o b) = Len(a) + Len(b)
         /\ a \o <<>> = a /\ <<>> \o a = a
<1>1. (a \o b) \o c = a \o (b \o c)
  BY ConcatAssociative DEF Data
<1>2. a \o b \in Data /\ Len(a \o b) = Len(a) + Len(b)
  BY ConcatProperties DEF Data
<1>3. a \o <<>> = a /\ <<>> \o a = a
  BY ConcatEmptySeq DEF Data
<1> QED  BY <1>1, <1>2, <1>3, Zenon

LEMMA Assoc == \A a, b, c \in Data : (a \o b) \o c = a \o (b \o c)
<1> SUFFICES ASSUME NEW a \in Data, NEW b \in Data, NEW c \in Data
             PROVE  (a \o b) \o c = a \o (b \o c)
  BY Zenon
<1> QED  BY ConcatAssociative DEF Data

LEMMA Extend ==
  ASSUME NEW a \in Data, NEW b \in Data, NEW n \in Nat
  PROVE  /\ Append(a \o b, n) = a \o Append(b, n) /\ Append(b, n) \in Data
<1>1. Append(a \o b, n) = (a \o b) \o <<n>>
  BY ConcatProperties, AppendIsConcat DEF Data
<1>2. Append(b, n) = b \o <<n>>
  BY AppendIsConcat DEF Data
<1>3. <<n>> \in Seq(Nat)
  OBVIOUS
<1>4. (a \o b) \o <<n>> = a \o (b \o <<n>>)
  BY <1>3, ConcatAssociative DEF Data
<1> QED  BY <1>1, <1>2, <1>4, AppendProperties DEF Data

LEMMA Empty == <<>> \in Data /\ Len(<<>>) = 0
BY EmptySeq DEF Data

\* What was passed on already is a piece of the whole.
LEMMA Piece ==
  ASSUME NEW a \in Data, NEW b \in Data
  PROVE  /\ SubSeq(a \o b, 1, Len(a)) = a
         /\ Len(a) <= Len(a \o b) /\ Len(a) \in Nat /\ Len(a \o b) \in Nat
<1>1. Len(a) \in Nat /\ Len(b) \in Nat /\ Len(a \o b) = Len(a) + Len(b)
  BY LenProperties, ConcatProperties DEF Data
<1>2. CASE Len(a) = 0
  <2>1. a = <<>>
    BY <1>2, EmptySeq DEF Data
  <2>2. SubSeq(a \o b, 1, 0) = <<>>
    BY SubSeqEmpty
  <2> QED  BY <1>1, <1>2, <2>1, <2>2
<1>3. CASE Len(a) # 0
  <2>1. 1 \in 1 .. Len(a) /\ Len(a) \in 1 .. Len(a)
    BY <1>1, <1>3
  <2>2. SubSeq(a \o b, 1, Len(a)) = SubSeq(a, 1, Len(a))
    BY <2>1, SubSeqOfConcat1 DEF Data
  <2> QED  BY <1>1, <2>2, SubSeqFull DEF Data
<1> QED  BY <1>2, <1>3

(***************************************************************************)
(* One piece of data on its way                                            *)
(***************************************************************************)
\* A task with empty hands takes what there is to read.
LEMMA Taking ==
  ASSUME Shape, NothingLost, NEW t \in Sock, buf[t] = <<>>, TakeReceived(t), open' = open
  PROVE  /\ buf' \in [Sock -> Data] /\ rx' \in [Sock -> Data] /\ NothingLost'
         /\ UNCHANGED <<wrote, sent, taken>>
         /\ \A s \in Sock : s # t => buf'[s] = buf[s] /\ rx'[s] = rx[s]
<1>1. /\ buf' = [buf EXCEPT ![t] = Received(t)]
      /\ rx' = [rx EXCEPT ![t] = SubSeq(@, Len(Received(t)) + 1, Len(@))]
      /\ UNCHANGED <<wrote, sent, taken>>
  BY Zenon DEF TakeReceived
<1>2. rx[t] \in Data
  BY DEF Shape
<1>3. PICK k \in 0 .. Len(rx[t]) : Received(t) = SubSeq(rx[t], 1, k)
  <2>1. MaxRecv \in Nat /\ Len(rx[t]) \in Nat
    BY <1>2, RelayAssumption, LenProperties DEF Data
  <2> DEFINE k == IF Len(rx[t]) < MaxRecv THEN Len(rx[t]) ELSE MaxRecv
  <2>2. k \in 0 .. Len(rx[t])
    BY <2>1
  <2> QED  BY <2>2 DEF Received
<1>4. /\ Received(t) \in Data /\ SubSeq(rx[t], k + 1, Len(rx[t])) \in Data
      /\ Len(Received(t)) = k /\ Received(t) \o SubSeq(rx[t], k + 1, Len(rx[t])) = rx[t]
  <2>1. /\ SubSeq(rx[t], 1, k) \in Data /\ SubSeq(rx[t], k + 1, Len(rx[t])) \in Data
        /\ Len(SubSeq(rx[t], 1, k)) = k
        /\ SubSeq(rx[t], 1, k) \o SubSeq(rx[t], k + 1, Len(rx[t])) = rx[t]
    BY <1>2, Split
  <2> QED  BY <1>3, <2>1, Zenon
<1>5. /\ rx' = [rx EXCEPT ![t] = SubSeq(rx[t], k + 1, Len(rx[t]))]
  BY <1>1, <1>4
<1>6. buf' \in [Sock -> Data] /\ rx' \in [Sock -> Data]
  BY <1>1, <1>4, <1>5 DEF Shape
<1>7. ASSUME NEW s \in open PROVE wrote'[s] = sent'[Other(s)] \o buf'[s] \o rx'[s]
  <2>1. s \in Sock /\ wrote[s] = sent[Other(s)] \o buf[s] \o rx[s] /\ sent[Other(s)] \in Data
    BY Others DEF Shape, NothingLost
  <2>2. CASE s # t
    BY <1>1, <1>5, <2>1, <2>2 DEF Shape
  <2>3. CASE s = t
    <3>1. buf'[t] = Received(t) /\ rx'[t] = SubSeq(rx[t], k + 1, Len(rx[t]))
      BY <1>1, <1>5 DEF Shape
    <3>2. wrote[t] = sent[Other(t)] \o rx[t]
      <4>1. sent[Other(t)] \o <<>> = sent[Other(t)]
        BY <2>1, <2>3, ConcatEmptySeq DEF Data
      <4> QED  BY <2>1, <2>3, <4>1
    <3>3. (sent[Other(t)] \o Received(t)) \o SubSeq(rx[t], k + 1, Len(rx[t]))
            = sent[Other(t)] \o (Received(t) \o SubSeq(rx[t], k + 1, Len(rx[t])))
      BY <1>4, <2>1, <2>3, Assoc, ZenonT(40)
    <3> QED  BY <1>1, <1>4, <2>3, <3>1, <3>2, <3>3, Zenon
  <2> QED  BY <2>2, <2>3
<1>8. NothingLost'
  BY <1>1, <1>7 DEF NothingLost
<1>9. \A s \in Sock : s # t => buf'[s] = buf[s] /\ rx'[s] = rx[s]
  BY <1>1, <1>5 DEF Shape
<1> QED  BY <1>1, <1>6, <1>8, <1>9

\* A task passes on the first k segments it has in its hand.
Passes(t, k) ==
  /\ sent' = [sent EXCEPT ![Other(t)] = sent[Other(t)] \o SubSeq(buf[t], 1, k)]
  /\ buf' = [buf EXCEPT ![t] = SubSeq(buf[t], k + 1, Len(buf[t]))]
  /\ UNCHANGED <<rx, wrote, taken>>

LEMMA Least ==
  \A l, room, s \in Nat : \A m :
    m = (IF l < room THEN l ELSE room) => m \in 0 .. l /\ s + m <= s + room
OBVIOUS

LEMMA SendSomePasses ==
  ASSUME Shape, Space, NEW t \in Sock, Other(t) \in open, SendSome(t)
  PROVE  \E k \in 0 .. Len(buf[t]) :
           /\ Passes(t, k) /\ Len(sent[Other(t)]) + k <= Room + taken[Other(t)]
           /\ Sendable(t) = k
<1>1. /\ Len(buf[t]) \in Nat /\ Len(sent[Other(t)]) \in Nat /\ taken[Other(t)] \in Nat
      /\ Len(sent[Other(t)]) <= Room + taken[Other(t)] /\ Room \in Nat
  BY Others, RelayAssumption, LenProperties DEF Shape, Data, Space
<1>2. /\ Sendable(t) \in 0 .. Len(buf[t])
      /\ Len(sent[Other(t)]) + Sendable(t) <= Room + taken[Other(t)]
  <2> DEFINE room == Room + taken[Other(t)] - Len(sent[Other(t)])
  <2>1. room \in Nat /\ Len(sent[Other(t)]) + room = Room + taken[Other(t)]
    BY <1>1
  <2>2. Sendable(t) = IF Len(buf[t]) < room THEN Len(buf[t]) ELSE room
    BY Zenon DEF Sendable, SpaceIn
  <2> HIDE DEF room
  <2>3. Sendable(t) \in 0 .. Len(buf[t])
        /\ Len(sent[Other(t)]) + Sendable(t) <= Len(sent[Other(t)]) + room
    BY <1>1, <2>1, <2>2, Least, Zenon
  <2> QED  BY <2>1, <2>3, Zenon
<1>3. Passes(t, Sendable(t))
  BY Zenon DEF SendSome, Passes
<1> QED  BY <1>2, <1>3

LEMMA Passing ==
  ASSUME Shape, Space, NothingLost, NEW t \in Sock, NEW k \in 0 .. Len(buf[t]), Passes(t, k),
         Len(sent[Other(t)]) + k <= Room + taken[Other(t)], open' = open
  PROVE  /\ buf' \in [Sock -> Data] /\ sent' \in [Sock -> Data] /\ NothingLost' /\ Space'
         /\ k = Len(buf[t]) => buf'[t] = <<>>
         /\ \A s \in Sock : s # t => buf'[s] = buf[s] /\ sent'[Other(s)] = sent[Other(s)]
<1> DEFINE first == SubSeq(buf[t], 1, k)
           rest == SubSeq(buf[t], k + 1, Len(buf[t]))
<1>1. /\ sent' = [sent EXCEPT ![Other(t)] = sent[Other(t)] \o first]
      /\ buf' = [buf EXCEPT ![t] = rest] /\ UNCHANGED <<rx, wrote, taken>>
  BY DEF Passes
<1>2. /\ first \in Data /\ rest \in Data /\ first \o rest = buf[t] /\ Len(first) = k
      /\ k = Len(buf[t]) => rest = <<>>
  BY Split DEF Shape
<1> HIDE DEF first, rest
<1>3. Other(t) \in Sock /\ sent[Other(t)] \in Data /\ rx[t] \in Data /\ buf[t] \in Data
  BY Others DEF Shape
<1>4. sent[Other(t)] \o first \in Data /\ Len(sent[Other(t)] \o first) = Len(sent[Other(t)]) + k
  BY <1>2, <1>3, Concat
<1>5. buf' \in [Sock -> Data] /\ sent' \in [Sock -> Data]
  BY <1>1, <1>2, <1>3, <1>4 DEF Shape
<1>6. /\ buf'[t] = rest /\ sent'[Other(t)] = sent[Other(t)] \o first
      /\ \A s \in Sock : s # t => buf'[s] = buf[s]
      /\ \A s \in Sock : s # Other(t) => sent'[s] = sent[s]
  BY <1>1, <1>3 DEF Shape
<1>7. \A s \in Sock : s # t => sent'[Other(s)] = sent[Other(s)]
  BY <1>6, Others
<1>8. ASSUME NEW s \in open PROVE wrote'[s] = sent'[Other(s)] \o buf'[s] \o rx'[s]
  <2>1. s \in Sock /\ wrote[s] = sent[Other(s)] \o buf[s] \o rx[s]
    BY DEF Shape, NothingLost
  <2>2. CASE s # t
    BY <1>1, <1>6, <1>7, <2>1, <2>2
  <2>3. CASE s = t
    <3>1. sent[Other(t)] \o buf[t] = (sent[Other(t)] \o first) \o rest
      <4>1. (sent[Other(t)] \o first) \o rest = sent[Other(t)] \o (first \o rest)
        BY <1>2, <1>3, Assoc, ZenonT(40)
      <4> QED  BY <1>2, <4>1, Zenon
    <3> QED  BY <1>1, <1>6, <2>1, <2>3, <3>1
  <2> QED  BY <2>2, <2>3
<1>9. NothingLost'
  BY <1>8 DEF NothingLost
<1>10. ASSUME NEW s \in open PROVE Len(sent'[s]) <= Room + taken'[s]
  <2>1. CASE s = Other(t)
    BY <1>1, <1>4, <1>6, <2>1
  <2>2. CASE s # Other(t)
    BY <1>1, <1>6, <2>2 DEF Space, Shape
  <2> QED  BY <2>1, <2>2
<1>11. Space'
  BY <1>10 DEF Space
<1> QED  BY <1>2, <1>5, <1>6, <1>7, <1>9, <1>11

(***************************************************************************)
(* Steps of Pipes                                                          *)
(***************************************************************************)
PipeStep == [P!Next]_<<wrote, sent, Sock \ open>>

LEMMA SamePipes ==
  ASSUME UNCHANGED <<wrote, sent, open>>
  PROVE  PipeStep
BY DEF PipeStep

LEMMA OpeningPipe ==
  ASSUME NEW s \in Sock, sent[s] = <<>>, open' = open \cup {s}, UNCHANGED <<wrote, sent>>
  PROVE  PipeStep
<1>1. (Sock \ open)' = (Sock \ open) \ {s}
  OBVIOUS
<1>2. P!Open(s)
  BY <1>1 DEF P!Open
<1> QED  BY <1>2 DEF PipeStep, P!Next

LEMMA BreakingPipe ==
  ASSUME NEW s \in Sock, open' = open \ {s, Other(s)}, open \subseteq Sock,
         UNCHANGED <<wrote, sent>>
  PROVE  PipeStep
<1>1. (Sock \ open)' = (Sock \ open) \cup {s, Other(s)}
  BY Others
<1>2. P!Break(s)
  BY <1>1 DEF P!Break
<1> QED  BY <1>2 DEF PipeStep, P!Next

\* What is passed on is the next piece of what was written at the other end.
LEMMA DeliveringPipe ==
  ASSUME Shape, NothingLost, NEW t \in Sock, t \in open, Other(t) \in open,
         NEW k \in 0 .. Len(buf[t]), Passes(t, k), open' = open
  PROVE  PipeStep
<1> DEFINE first == SubSeq(buf[t], 1, k)
           rest == SubSeq(buf[t], k + 1, Len(buf[t]))
           o == Other(t)
           gone == sent[Other(t)] \o first
<1>1. o \in Sock /\ Other(o) = t /\ sent[o] \in Data /\ rx[t] \in Data /\ buf[t] \in Data
  BY Others DEF Shape
<1>2. /\ first \in Data /\ rest \in Data /\ first \o rest = buf[t] /\ Len(first) = k
      /\ k = 0 => first = <<>>
  BY <1>1, Split
<1>3. sent' = [sent EXCEPT ![o] = gone] /\ wrote' = wrote
  BY DEF Passes
<1>4. wrote[t] = (sent[o] \o buf[t]) \o rx[t]
  BY DEF NothingLost
<1> HIDE DEF first, rest, o
<1>5. gone \in Data /\ Len(gone) = Len(sent[o]) + k
  BY <1>1, <1>2, Concat DEF o
<1>6. rest \o rx[t] \in Data
  BY <1>1, <1>2, Concat
<1>7. wrote[t] = gone \o (rest \o rx[t])
  <2>1. (sent[o] \o first) \o rest = sent[o] \o (first \o rest)
    <3>1. sent[o] \in Data /\ first \in Data /\ rest \in Data
      BY <1>1, <1>2
    <3> QED  BY <3>1, Assoc, Zenon
  <2>2. (gone \o rest) \o rx[t] = gone \o (rest \o rx[t])
    <3>1. gone \in Data /\ rest \in Data /\ rx[t] \in Data
      BY <1>1, <1>2, <1>5
    <3> HIDE DEF gone
    <3> QED  BY <3>1, Assoc, Zenon
  <2> QED  BY <1>2, <1>4, <2>1, <2>2, Zenon DEF o
<1>8. SubSeq(wrote[t], 1, Len(gone)) = gone /\ Len(gone) <= Len(wrote[t]) /\ Len(wrote[t]) \in Nat
  BY <1>5, <1>6, <1>7, Piece
<1> HIDE DEF gone
<1>9. CASE k = 0
  <2>1. gone = sent[o]
    BY <1>1, <1>2, <1>9, ConcatEmptySeq DEF gone, o, Data
  <2>2. sent' = sent
    BY <1>1, <1>3, <2>1 DEF Shape
  <2> QED  BY <1>3, <2>2, SamePipes
<1>10. CASE k # 0
  <2>1. Len(sent[o]) \in Nat /\ k \in Nat /\ Len(gone) \in Len(sent[o]) + 1 .. Len(wrote[t])
    <3>1. Len(sent[o]) \in Nat /\ Len(buf[t]) \in Nat
      BY <1>1, LenProperties DEF Data
    <3> QED  BY <1>5, <1>8, <1>10, <3>1
  <2>2. [s \in Sock |-> Other(s)][o] = t
    BY <1>1
  <2>3. o \notin Sock \ open /\ (Sock \ open)' = Sock \ open
    BY DEF o
  <2>4. sent' = [sent EXCEPT ![o] = SubSeq(wrote[[s \in Sock |-> Other(s)][o]], 1, Len(gone))]
    BY <1>3, <1>8, <2>2
  <2>5. P!Deliver(o)
    BY <1>3, <2>1, <2>2, <2>3, <2>4 DEF P!Deliver
  <2> QED  BY <1>1, <2>5 DEF PipeStep, P!Next
<1> QED  BY <1>9, <1>10

(***************************************************************************)
(* The actions                                                             *)
(***************************************************************************)
\* Nothing the invariant speaks of changes, except that a peer may read.
LEMMA Quiet ==
  ASSUME DataInv, UNCHANGED <<open, at, fut, buf, rx, wrote, sent>>,
         taken' \in [Sock -> Nat], \A s \in Sock : taken[s] <= taken'[s]
  PROVE  DataInv' /\ PipeStep
<1>1. Shape' /\ Early' /\ Hand' /\ NothingLost'
  BY DEF DataInv, Shape, Early, Silent, Hand, HandsFree, NothingLost
<1>2. ASSUME NEW s \in open PROVE Len(sent[s]) <= Room + taken'[s]
  <2>1. /\ s \in Sock /\ Len(sent[s]) \in Nat /\ taken[s] \in Nat /\ taken'[s] \in Nat
        /\ Room \in Nat
    BY RelayAssumption, LenProperties DEF DataInv, Shape, Data
  <2>2. Len(sent[s]) <= Room + taken[s] /\ taken[s] <= taken'[s]
    BY <2>1 DEF DataInv, Space
  <2> QED  BY <2>1, <2>2
<1>3. Space'
  BY <1>2 DEF Space
<1> QED  BY <1>1, <1>3, SamePipes DEF DataInv

LEMMA QuietSteps ==
  ASSUME DataInv,
         \/ Select
         \/ \E t \in Sock : Cancelled(t) \/ PeerReads(t) \/ PeerEnds(t)
         \/ \E c \in Clients : Answer(c) \/ Verdict(c)
  PROVE  DataInv' /\ PipeStep
<1>1. UNCHANGED <<open, at, fut, buf, rx, wrote, sent>>
  BY DEF Select, Cancelled, StillPending, PeerReads, PeerEnds, Answer, Verdict, Decide,
         loop_vars, task_vars, peer_vars, sock_vars
<1>2. taken' = taken \/ \E s \in Sock : taken' = [taken EXCEPT ![s] = @ + 1]
  BY Zenon DEF Select, Cancelled, PeerReads, PeerEnds, Answer, Verdict, peer_vars
<1>3. taken \in [Sock -> Nat]
  BY DEF DataInv, Shape
<1>4. taken' \in [Sock -> Nat] /\ \A s \in Sock : taken[s] <= taken'[s]
  BY <1>2, <1>3
<1> QED  BY <1>1, <1>4, Quiet

\* A task goes from one place to another with what it has in its hand.
LEMMA Moving ==
  ASSUME DataInv, NEW t \in Sock, UNCHANGED <<open, buf, rx, wrote, sent, taken>>,
         at' \in [Sock -> Place], \A s \in Sock : s # t => at'[s] = at[s],
         fut' \in [Sock -> {"none", "pending", "data", "ok", "error"}],
         \A s \in Sock : s # t => fut'[s] = fut[s],
         \/ at'[t] = at[t]
         \/ at[t] = "connect" /\ at'[t] \in {"gate", "failed"}
         \/ at[t] \notin {"new", "start", "connect", "gate"}
              /\ at'[t] \notin {"new", "start", "connect", "gate", "failed"},
         HandsFree(t)' => buf[t] = <<>>
  PROVE  DataInv' /\ PipeStep
<1>1. Shape' /\ Space' /\ NothingLost'
  BY DEF DataInv, Shape, Space, NothingLost
<1>2. Hand'
  BY DEF DataInv, Hand, HandsFree
<1>3. ASSUME NEW c \in Clients
      PROVE  /\ at'[In(c)] = "new" => In(c) \notin open /\ Silent(In(c))
             /\ at'[In(c)] \in {"new", "start"} => Out(c) \notin open /\ Silent(Out(c))
             /\ at'[In(c)] \in {"new", "start"} => sent[Out(c)] = <<>>
             /\ at'[In(c)] \in {"new", "start", "connect", "gate"} => at'[Out(c)] = "new"
             /\ at'[Out(c)] \notin {"start", "connect", "gate", "failed"}
             /\ at'[In(c)] = "start" => In(c) \in open
             /\ at'[In(c)] \notin {"new", "start"} => (In(c) \in open <=> Out(c) \in open)
  <2>1. In(c) \in Sock /\ Out(c) \in Sock /\ In(c) # Out(c)
    BY Ends
  <2>2. CASE t # In(c) /\ t # Out(c)
    BY <2>1, <2>2 DEF DataInv, Early
  <2>3. CASE t = In(c)
    BY <2>1, <2>3 DEF DataInv, Early
  <2>4. CASE t = Out(c)
    BY <2>1, <2>4 DEF DataInv, Early
  <2> QED  BY <2>2, <2>3, <2>4
<1>4. \A c \in Clients : /\ Silent(In(c))' <=> Silent(In(c))
                         /\ Silent(Out(c))' <=> Silent(Out(c))
  BY DEF Silent
<1>5. Early'
  BY <1>3, <1>4 DEF Early
<1> QED  BY <1>1, <1>2, <1>5, SamePipes DEF DataInv

\* What a task past the gate does to its own pipe is no business of the others.
LEMMA EarlyKept ==
  ASSUME DataInv, NEW t \in Sock, UNCHANGED <<open, wrote>>,
         at[t] \notin {"new", "start", "connect", "gate"},
         at'[t] \notin {"new", "start", "connect", "gate", "failed"},
         \A s \in Sock : s # t => /\ at'[s] = at[s] /\ buf'[s] = buf[s] /\ rx'[s] = rx[s]
                                  /\ sent'[Other(s)] = sent[Other(s)]
  PROVE  Early'
<1>1. ASSUME NEW c \in Clients
      PROVE  /\ at'[In(c)] = "new" => In(c) \notin open /\ Silent(In(c))'
             /\ at'[In(c)] \in {"new", "start"} => Out(c) \notin open /\ Silent(Out(c))'
             /\ at'[In(c)] \in {"new", "start"} => sent'[Out(c)] = <<>>
             /\ at'[In(c)] \in {"new", "start", "connect", "gate"} => at'[Out(c)] = "new"
             /\ at'[Out(c)] \notin {"start", "connect", "gate", "failed"}
             /\ at'[In(c)] = "start" => In(c) \in open
             /\ at'[In(c)] \notin {"new", "start"} => (In(c) \in open <=> Out(c) \in open)
  <2>1. /\ In(c) \in Sock /\ Out(c) \in Sock /\ In(c) # Out(c)
        /\ Other(In(c)) = Out(c) /\ Other(Out(c)) = In(c)
    BY Ends
  <2>2. t # In(c) => (Silent(In(c))' <=> Silent(In(c))) /\ sent'[Out(c)] = sent[Out(c)]
    BY <2>1 DEF Silent
  <2>3. t # Out(c) => (Silent(Out(c))' <=> Silent(Out(c)))
    BY <2>1 DEF Silent
  <2>4. CASE t # In(c) /\ t # Out(c)
    BY <2>1, <2>2, <2>3, <2>4 DEF DataInv, Early
  <2>5. CASE t = In(c)
    BY <2>1, <2>5 DEF DataInv, Early
  <2>6. CASE t = Out(c)
    BY <2>1, <2>2, <2>6 DEF DataInv, Early
  <2> QED  BY <2>4, <2>5, <2>6
<1> QED  BY <1>1 DEF Early

LEMMA BothOpen ==
  ASSUME DataInv, NEW t \in Sock, at[t] \notin {"new", "start", "connect", "gate"}
  PROVE  t \in open <=> Other(t) \in open
<1>1. PICK c \in Clients : t = In(c) \/ t = Out(c)
  BY Ends
<1>2. Other(In(c)) = Out(c) /\ Other(Out(c)) = In(c) /\ In(c) \in Sock /\ Out(c) \in Sock
  BY Ends
<1>3. at[In(c)] \notin {"new", "start"}
  BY <1>1 DEF DataInv, Early
<1> QED  BY <1>1, <1>2, <1>3 DEF DataInv, Early

LEMMA TakingStep ==
  ASSUME DataInv, NEW t \in Sock, TakeReceived(t), open' = open,
         at[t] \in {"receive", "recv"}, buf[t] = <<>>,
         at' \in [Sock -> Place], \A s \in Sock : s # t => at'[s] = at[s],
         fut' \in [Sock -> {"none", "pending", "data", "ok", "error"}],
         \A s \in Sock : s # t => fut'[s] = fut[s],
         at'[t] = "send" \/ (at'[t] = "recv" /\ fut'[t] = "data")
  PROVE  DataInv' /\ PipeStep
<1>1. Shape /\ NothingLost /\ Hand /\ Space
  BY DEF DataInv
<1>2. /\ buf' \in [Sock -> Data] /\ rx' \in [Sock -> Data] /\ NothingLost'
      /\ UNCHANGED <<wrote, sent, taken>>
      /\ \A s \in Sock : s # t => buf'[s] = buf[s] /\ rx'[s] = rx[s]
  BY <1>1, Taking
<1>3. Shape' /\ Space'
  BY <1>1, <1>2 DEF Shape, Space
<1>4. Hand'
  BY <1>1, <1>2 DEF Hand, HandsFree
<1>5. Early'
  BY <1>2, EarlyKept
<1> QED  BY <1>2, <1>3, <1>4, <1>5, SamePipes DEF DataInv

LEMMA PassingStep ==
  ASSUME DataInv, NEW t \in Sock, SendSome(t), open' = open, Other(t) \in open,
         at[t] \in {"send", "sending"},
         at' \in [Sock -> Place], \A s \in Sock : s # t => at'[s] = at[s],
         fut' \in [Sock -> {"none", "pending", "data", "ok", "error"}],
         \A s \in Sock : s # t => fut'[s] = fut[s],
         \/ at'[t] = "break"
         \/ at'[t] = "sending" /\ fut'[t] # "ok"
         \/ at'[t] \in {"receive", "sending"} /\ Sendable(t) = Len(buf[t])
  PROVE  DataInv' /\ PipeStep
<1>1. Shape /\ NothingLost /\ Hand /\ Space /\ t \in open
  BY BothOpen DEF DataInv
<1>2. PICK k \in 0 .. Len(buf[t]) :
        /\ Passes(t, k) /\ Len(sent[Other(t)]) + k <= Room + taken[Other(t)] /\ Sendable(t) = k
  BY <1>1, SendSomePasses
<1>3. /\ buf' \in [Sock -> Data] /\ sent' \in [Sock -> Data] /\ NothingLost' /\ Space'
      /\ k = Len(buf[t]) => buf'[t] = <<>>
      /\ \A s \in Sock : s # t => buf'[s] = buf[s] /\ sent'[Other(s)] = sent[Other(s)]
  BY <1>1, <1>2, Passing
<1>4. UNCHANGED <<rx, wrote, taken>>
  BY <1>2 DEF Passes
<1>5. Shape'
  BY <1>1, <1>3, <1>4 DEF Shape
<1>6. Hand'
  BY <1>1, <1>2, <1>3 DEF Hand, HandsFree
<1>7. Early'
  BY <1>3, <1>4, EarlyKept
<1>8. PipeStep
  BY <1>1, <1>2, DeliveringPipe
<1> QED  BY <1>3, <1>5, <1>6, <1>7, <1>8 DEF DataInv

LEMMA CallbackStep ==
  ASSUME DataInv, NEW t \in Sock, Callback(t)
  PROVE  DataInv' /\ PipeStep
<1>1. CASE Cancelled(t)
  BY <1>1, QuietSteps
<1>2. CASE ConnectCallback(t)
  <2>1. /\ at[t] = "connect" /\ UNCHANGED <<at, open, buf, rx, wrote, sent, taken>>
        /\ \E r \in {"ok", "error"} : fut' = [fut EXCEPT ![t] = r]
    BY <1>2 DEF ConnectCallback, HandleRuns, Done, peer_vars, sock_vars
  <2>2. /\ fut' \in [Sock -> {"none", "pending", "data", "ok", "error"}]
        /\ \A s \in Sock : s # t => fut'[s] = fut[s]
    BY <2>1 DEF DataInv, Shape
  <2>3. buf[t] = <<>>
    BY <2>1 DEF DataInv, Hand, HandsFree
  <2>4. at' \in [Sock -> Place]
    BY <2>1 DEF DataInv, Shape
  <2> QED  BY <2>1, <2>2, <2>3, <2>4, Moving DEF HandsFree
<1>3. CASE RecvCallback(t)
  <2>1. at[t] = "recv" /\ fut[t] = "pending" /\ UNCHANGED <<at, open>>
    BY <1>3 DEF RecvCallback, HandleRuns, sock_vars
  <2>2. buf[t] = <<>> /\ at' \in [Sock -> Place]
    <3>1. buf[t] = <<>>
      BY <2>1 DEF DataInv, Hand, HandsFree
    <3> QED  BY <2>1, <3>1 DEF DataInv, Shape
  <2>3. RecvOutcome(t) \in {"data", "error", "pending"}
    BY DEF RecvOutcome
  <2>4. \/ RecvOutcome(t) = "pending" /\ fut' = fut
        \/ RecvOutcome(t) # "pending" /\ fut' = [fut EXCEPT ![t] = RecvOutcome(t)]
    BY <1>3 DEF RecvCallback, Done, StillPending
  <2>5. /\ fut' \in [Sock -> {"none", "pending", "data", "ok", "error"}]
        /\ \A s \in Sock : s # t => fut'[s] = fut[s]
        /\ fut'[t] = RecvOutcome(t)
    BY <2>1, <2>3, <2>4 DEF DataInv, Shape
  <2>6. CASE RecvOutcome(t) = "data"
    <3>1. TakeReceived(t)
      BY <1>3, <2>6 DEF RecvCallback
    <3> QED  BY <2>1, <2>2, <2>5, <2>6, <3>1, TakingStep
  <2>7. CASE RecvOutcome(t) # "data"
    <3>1. UNCHANGED <<buf, rx, wrote, sent, taken>>
      BY <1>3, <2>7 DEF RecvCallback, peer_vars
    <3> QED  BY <2>1, <2>2, <2>5, <2>7, <3>1, Moving DEF HandsFree
  <2> QED  BY <2>6, <2>7
<1>4. CASE SendCallback(t)
  <2>1. at[t] = "sending" /\ fut[t] = "pending" /\ UNCHANGED <<at, open>>
    BY <1>4 DEF SendCallback, HandleRuns, sock_vars
  <2>2. SendOutcome(t) \in {"ok", "error", "pending"} /\ at' \in [Sock -> Place]
    BY <2>1 DEF SendOutcome, DataInv, Shape
  <2>3. \/ SendOutcome(t) = "pending" /\ fut' = fut
        \/ SendOutcome(t) # "pending" /\ fut' = [fut EXCEPT ![t] = SendOutcome(t)]
    BY <1>4 DEF SendCallback, Done, StillPending
  <2>4. /\ fut' \in [Sock -> {"none", "pending", "data", "ok", "error"}]
        /\ \A s \in Sock : s # t => fut'[s] = fut[s]
        /\ fut'[t] = SendOutcome(t)
    BY <2>1, <2>2, <2>3 DEF DataInv, Shape
  <2>5. CASE SendOutcome(t) = "error"
    <3>1. UNCHANGED <<buf, rx, wrote, sent, taken>>
      BY <1>4, <2>5 DEF SendCallback, peer_vars
    <3> QED  BY <2>1, <2>2, <2>4, <2>5, <3>1, Moving DEF HandsFree
  <2>6. CASE SendOutcome(t) # "error"
    <3>1. SendSome(t)
      BY <1>4, <2>6 DEF SendCallback
    <3>2. Other(t) \in open /\ (SendOutcome(t) = "ok" => Sendable(t) = Len(buf[t]))
      BY <2>6 DEF SendOutcome
    <3> QED  BY <2>1, <2>2, <2>4, <2>6, <3>1, <3>2, PassingStep
  <2> QED  BY <2>5, <2>6
<1> QED  BY <1>1, <1>2, <1>3, <1>4 DEF Callback

Futures == {"none", "pending", "data", "ok", "error"}

LEMMA Awaiting ==
  ASSUME Shape, NEW t \in Sock, NEW place \in Place, NEW broken \in Place,
         \/ at' = [at EXCEPT ![t] = broken] /\ fut' = fut
         \/ at' = [at EXCEPT ![t] = place] /\ fut' = [fut EXCEPT ![t] = "pending"]
  PROVE  /\ at' \in [Sock -> Place] /\ fut' \in [Sock -> Futures]
         /\ \A s \in Sock : s # t => at'[s] = at[s] /\ fut'[s] = fut[s]
         /\ at'[t] = broken \/ (at'[t] = place /\ fut'[t] = "pending")
BY DEF Shape, Futures

LEMMA ReceiveStep ==
  ASSUME DataInv, NEW t \in Sock, SockRecv(t)
  PROVE  DataInv' /\ PipeStep
<1>1. at[t] = "receive" /\ open' = open
  BY DEF SockRecv, sock_vars
<1>2. buf[t] = <<>>
  BY <1>1 DEF DataInv, Hand, HandsFree
<1>3. Shape /\ "recv" \in Place /\ "break" \in Place /\ "send" \in Place
  BY DEF DataInv, Place
<1>4. CASE RecvOutcome(t) = "error" /\ at' = [at EXCEPT ![t] = "break"]
           /\ UNCHANGED <<sel, cur, fut, buf, peer_vars>>
  <2>1. at' \in [Sock -> Place] /\ (\A s \in Sock : s # t => at'[s] = at[s]) /\ at'[t] = "break"
    BY <1>3, <1>4 DEF Shape
  <2>2. UNCHANGED <<fut, buf, rx, wrote, sent, taken>>
    BY <1>4 DEF peer_vars
  <2>3. fut' \in [Sock -> Futures]
    BY <1>3, <2>2 DEF Shape, Futures
  <2> QED  BY <1>1, <1>2, <2>1, <2>2, <2>3, Moving DEF Futures, HandsFree
<1>5. CASE RecvOutcome(t) = "data" /\ at' = [at EXCEPT ![t] = "send"] /\ TakeReceived(t)
           /\ UNCHANGED <<sel, cur, fut>>
  <2>1. at' \in [Sock -> Place] /\ (\A s \in Sock : s # t => at'[s] = at[s]) /\ at'[t] = "send"
    BY <1>3, <1>5 DEF Shape
  <2>2. fut' \in [Sock -> Futures] /\ fut' = fut
    BY <1>3, <1>5 DEF Shape, Futures
  <2> QED  BY <1>1, <1>2, <1>5, <2>1, <2>2, TakingStep DEF Futures
<1>6. CASE Await(t, fd[t], "recv", "read", "break") /\ UNCHANGED <<buf, peer_vars>>
  <2>1. /\ at' \in [Sock -> Place] /\ fut' \in [Sock -> Futures]
        /\ \A s \in Sock : s # t => at'[s] = at[s] /\ fut'[s] = fut[s]
        /\ at'[t] = "break" \/ (at'[t] = "recv" /\ fut'[t] = "pending")
    <3>1. \/ at' = [at EXCEPT ![t] = "break"] /\ fut' = fut
          \/ at' = [at EXCEPT ![t] = "recv"] /\ fut' = [fut EXCEPT ![t] = "pending"]
      BY <1>6, Zenon DEF Await
    <3> QED  BY <1>3, <3>1, Awaiting
  <2>2. UNCHANGED <<buf, rx, wrote, sent, taken>>
    BY <1>6 DEF peer_vars
  <2> QED  BY <1>1, <1>2, <2>1, <2>2, Moving DEF Futures, HandsFree
<1> QED  BY <1>4, <1>5, <1>6 DEF SockRecv

LEMMA SendallStep ==
  ASSUME DataInv, NEW t \in Sock, SockSendall(t)
  PROVE  DataInv' /\ PipeStep
<1>1. at[t] = "send" /\ open' = open
  BY DEF SockSendall, sock_vars
<1>2. Shape /\ "sending" \in Place /\ "break" \in Place /\ "receive" \in Place
  BY DEF DataInv, Place
<1>3. CASE SendOutcome(t) = "error" /\ at' = [at EXCEPT ![t] = "break"]
           /\ UNCHANGED <<sel, cur, fut, buf, peer_vars>>
  <2>1. at' \in [Sock -> Place] /\ (\A s \in Sock : s # t => at'[s] = at[s]) /\ at'[t] = "break"
    BY <1>2, <1>3 DEF Shape
  <2>2. UNCHANGED <<fut, buf, rx, wrote, sent, taken>>
    BY <1>3 DEF peer_vars
  <2>3. fut' \in [Sock -> Futures]
    BY <1>2, <2>2 DEF Shape, Futures
  <2> QED  BY <1>1, <2>1, <2>2, <2>3, Moving DEF Futures, HandsFree
<1>4. CASE SendOutcome(t) = "ok" /\ at' = [at EXCEPT ![t] = "receive"] /\ SendSome(t)
           /\ UNCHANGED <<sel, cur, fut>>
  <2>1. /\ at' \in [Sock -> Place] /\ (\A s \in Sock : s # t => at'[s] = at[s])
        /\ at'[t] = "receive"
    BY <1>2, <1>4 DEF Shape
  <2>2. fut' \in [Sock -> Futures] /\ fut' = fut
    BY <1>2, <1>4 DEF Shape, Futures
  <2>3. Other(t) \in open /\ Sendable(t) = Len(buf[t])
    BY <1>4 DEF SendOutcome
  <2> QED  BY <1>1, <1>4, <2>1, <2>2, <2>3, PassingStep DEF Futures
<1>5. CASE SendOutcome(t) = "pending" /\ Await(t, fd[Other(t)], "sending", "write", "break")
           /\ SendSome(t)
  <2>1. /\ at' \in [Sock -> Place] /\ fut' \in [Sock -> Futures]
        /\ \A s \in Sock : s # t => at'[s] = at[s] /\ fut'[s] = fut[s]
        /\ at'[t] = "break" \/ (at'[t] = "sending" /\ fut'[t] = "pending")
    <3>1. \/ at' = [at EXCEPT ![t] = "break"] /\ fut' = fut
          \/ at' = [at EXCEPT ![t] = "sending"] /\ fut' = [fut EXCEPT ![t] = "pending"]
      BY <1>5, Zenon DEF Await
    <3> QED  BY <1>2, <3>1, Awaiting
  <2>2. Other(t) \in open
    BY <1>5 DEF SendOutcome
  <2> QED  BY <1>1, <1>5, <2>1, <2>2, PassingStep DEF Futures
<1> QED  BY <1>3, <1>4, <1>5 DEF SockSendall

\* The verdict: both tasks go for data, or the first one gives up.
LEMMA PastGate ==
  ASSUME DataInv, NEW t \in Sock, UNCHANGED <<open, buf, rx, wrote, sent, taken>>,
         at[t] = "gate", fut' = [fut EXCEPT ![t] = "none"],
         \/ at' = [at EXCEPT ![t] = "receive", ![Other(t)] = "receive"]
         \/ at' = [at EXCEPT ![t] = "break"]
  PROVE  DataInv' /\ PipeStep
<1>1. PICK c \in Clients : t = In(c)
  BY Ends DEF DataInv, Early
<1>2. /\ In(c) \in Sock /\ Out(c) \in Sock /\ In(c) # Out(c) /\ Other(In(c)) = Out(c)
      /\ \A d \in Clients : d # c => In(d) # In(c) /\ In(d) # Out(c) /\ Out(d) # Out(c)
                                     /\ Out(d) # In(c) /\ In(d) \in Sock /\ Out(d) \in Sock
  BY Ends
<1>3. /\ at' \in [Sock -> Place] /\ fut' \in [Sock -> Futures]
      /\ \A s \in Sock : s # In(c) /\ s # Out(c) => at'[s] = at[s] /\ fut'[s] = fut[s]
      /\ at'[In(c)] \in {"receive", "break"} /\ at'[Out(c)] \in {"receive", at[Out(c)]}
  BY <1>1, <1>2 DEF DataInv, Shape, Place, Futures
<1>4. at[Out(c)] = "new" /\ buf[In(c)] = <<>> /\ buf[Out(c)] = <<>>
  BY <1>1, <1>2 DEF DataInv, Early, Hand, HandsFree
<1>5. Shape' /\ Space' /\ NothingLost'
  BY <1>3 DEF DataInv, Shape, Space, NothingLost, Futures
<1>6. Hand'
  <2>1. ASSUME NEW s \in Sock, HandsFree(s)'
        PROVE  buf[s] = <<>>
    <3>1. CASE s = In(c) \/ s = Out(c)
      BY <1>4, <3>1
    <3>2. CASE s # In(c) /\ s # Out(c)
      BY <1>3, <2>1, <3>2 DEF DataInv, Hand, HandsFree
    <3> QED  BY <3>1, <3>2
  <2> QED  BY <2>1 DEF Hand, HandsFree
<1>7. ASSUME NEW d \in Clients
      PROVE  /\ at'[In(d)] = "new" => In(d) \notin open /\ Silent(In(d))
             /\ at'[In(d)] \in {"new", "start"} => Out(d) \notin open /\ Silent(Out(d))
             /\ at'[In(d)] \in {"new", "start"} => sent[Out(d)] = <<>>
             /\ at'[In(d)] \in {"new", "start", "connect", "gate"} => at'[Out(d)] = "new"
             /\ at'[Out(d)] \notin {"start", "connect", "gate", "failed"}
             /\ at'[In(d)] = "start" => In(d) \in open
             /\ at'[In(d)] \notin {"new", "start"} => (In(d) \in open <=> Out(d) \in open)
  <2>1. CASE d = c
    BY <1>1, <1>3, <1>4, <2>1 DEF DataInv, Early
  <2>2. CASE d # c
    BY <1>2, <1>3, <2>2 DEF DataInv, Early
  <2> QED  BY <2>1, <2>2
<1>8. \A d \in Clients : /\ Silent(In(d))' <=> Silent(In(d))
                         /\ Silent(Out(d))' <=> Silent(Out(d))
  BY DEF Silent
<1>9. Early'
  BY <1>7, <1>8 DEF Early
<1> QED  BY <1>5, <1>6, <1>9, SamePipes DEF DataInv

LEMMA ResumeStep ==
  ASSUME DataInv, NEW t \in Sock, Resume(t)
  PROVE  DataInv' /\ PipeStep
<1>1. UNCHANGED <<open, buf, rx, wrote, sent, taken>> /\ fut' = [fut EXCEPT ![t] = "none"]
  BY DEF Resume, peer_vars, sock_vars
<1>2. fut' \in [Sock -> Futures] /\ fut'[t] = "none" /\ \A s \in Sock : s # t => fut'[s] = fut[s]
  BY <1>1 DEF DataInv, Shape, Futures
<1>3. /\ at \in [Sock -> Place]
      /\ {"gate", "failed", "send", "break", "receive"} \subseteq Place
  BY DEF DataInv, Shape, Place
<1>4. CASE at[t] = "connect" /\ fut[t] = "ok" /\ WaitVerdict(t)
  <2>1. at' = [at EXCEPT ![t] = "gate"]
    BY <1>4, Zenon DEF WaitVerdict
  <2>2. buf[t] = <<>>
    BY <1>4 DEF DataInv, Hand, HandsFree
  <2>3. at' \in [Sock -> Place] /\ at'[t] = "gate" /\ \A s \in Sock : s # t => at'[s] = at[s]
    BY <1>3, <2>1
  <2> QED  BY <1>1, <1>2, <1>4, <2>2, <2>3, Moving DEF Futures, HandsFree
<1>5. CASE at[t] = "connect" /\ fut[t] # "ok" /\ GoOn(t, "failed")
  <2>1. at' \in [Sock -> Place] /\ at'[t] = "failed" /\ \A s \in Sock : s # t => at'[s] = at[s]
    BY <1>3, <1>5 DEF GoOn
  <2> QED  BY <1>1, <1>2, <1>5, <2>1, Moving DEF Futures, HandsFree
<1>6. CASE at[t] = "gate" /\ ActOnVerdict(t)
  <2>1. \/ at' = [at EXCEPT ![t] = "receive", ![Other(t)] = "receive"]
        \/ at' = [at EXCEPT ![t] = "break"]
    BY <1>6, Zenon DEF ActOnVerdict
  <2> QED  BY <1>1, <1>6, <2>1, PastGate
<1>7. CASE at[t] = "recv" /\ GoOn(t, IF fut[t] = "data" THEN "send" ELSE "break")
  <2>1. /\ at' \in [Sock -> Place] /\ at'[t] \in {"send", "break"}
        /\ \A s \in Sock : s # t => at'[s] = at[s]
    BY <1>3, <1>7 DEF GoOn
  <2> QED  BY <1>1, <1>2, <1>7, <2>1, Moving DEF Futures, HandsFree
<1>8. CASE at[t] = "sending" /\ GoOn(t, IF fut[t] = "ok" THEN "receive" ELSE "break")
  <2>1. /\ at' \in [Sock -> Place] /\ at'[t] = (IF fut[t] = "ok" THEN "receive" ELSE "break")
        /\ \A s \in Sock : s # t => at'[s] = at[s]
    BY <1>3, <1>8 DEF GoOn
  <2>2. fut[t] = "ok" => buf[t] = <<>>
    BY <1>8 DEF DataInv, Hand, HandsFree
  <2> QED  BY <1>1, <1>2, <1>8, <2>1, <2>2, Moving DEF Futures, HandsFree
<1>9. CASE at[t] \notin {"connect", "gate", "recv", "sending"} /\ GoOn(t, at[t])
  <2>1. at' = at
    BY <1>3, <1>9 DEF GoOn
  <2>2. at[t] \in {"new", "start", "receive"} => buf[t] = <<>>
    BY DEF DataInv, Hand, HandsFree
  <2> QED  BY <1>1, <1>2, <1>3, <1>9, <2>1, <2>2, Moving DEF Futures, HandsFree
<1> QED  BY <1>4, <1>5, <1>6, <1>7, <1>8, <1>9, Zenon DEF Resume

\* Leaving and aborting: both sockets of a client at once.
LEMMA Closing ==
  ASSUME DataInv, NEW c \in Clients, CloseBoth(c), UNCHANGED <<buf, fut>>,
         at[In(c)] \notin {"new", "start"}, at' \in [Sock -> Place],
         \A s \in Sock : at'[s] = at[s] \/ (at[s] \in {"failed", "break"} /\ at'[s] = "done")
  PROVE  DataInv' /\ PipeStep
<1>1. /\ In(c) \in Sock /\ Out(c) \in Sock /\ Other(In(c)) = Out(c)
      /\ \A d \in Clients : d # c => /\ In(d) \notin {In(c), Out(c)} /\ In(d) \in Sock
                                     /\ Out(d) \notin {In(c), Out(c)} /\ Out(d) \in Sock
  BY Ends
<1>2. open' = open \ {In(c), Out(c)} /\ UNCHANGED <<wrote, sent>> /\ open \subseteq Sock
  BY DEF CloseBoth, DataInv, Shape
<1>3. /\ rx' \in [Sock -> Data] /\ taken' \in [Sock -> Nat]
      /\ \A s \in Sock : s \notin {In(c), Out(c)} => rx'[s] = rx[s] /\ taken'[s] = taken[s]
  BY <1>1, Empty DEF CloseBoth, Gone, DataInv, Shape
<1>4. Shape'
  BY <1>2, <1>3 DEF DataInv, Shape
<1>5. NothingLost' /\ Space'
  BY <1>2, <1>3 DEF DataInv, Shape, NothingLost, Space
<1>6. Hand'
  BY DEF DataInv, Hand, HandsFree
<1>7. Early'
  <2>1. ASSUME NEW d \in Clients, d # c
        PROVE  /\ Silent(In(d))' <=> Silent(In(d))
               /\ Silent(Out(d))' <=> Silent(Out(d))
               /\ In(d) \in open' <=> In(d) \in open
               /\ Out(d) \in open' <=> Out(d) \in open
    BY <1>1, <1>2, <1>3, <2>1 DEF Silent
  <2>2. at'[In(c)] \notin {"new", "start"} /\ In(c) \notin open' /\ Out(c) \notin open'
    BY <1>1, <1>2
  <2>3. ASSUME NEW d \in Clients
        PROVE  /\ at'[In(d)] = "new" => In(d) \notin open' /\ Silent(In(d))'
               /\ at'[In(d)] \in {"new", "start"} => Out(d) \notin open' /\ Silent(Out(d))'
               /\ at'[In(d)] \in {"new", "start"} => sent'[Out(d)] = <<>>
               /\ at'[In(d)] \in {"new", "start", "connect", "gate"} => at'[Out(d)] = "new"
               /\ at'[Out(d)] \notin {"start", "connect", "gate", "failed"}
               /\ at'[In(d)] = "start" => In(d) \in open'
               /\ at'[In(d)] \notin {"new", "start"} => (In(d) \in open' <=> Out(d) \in open')
    <3>1. /\ In(d) \in Sock /\ Out(d) \in Sock
          /\ at'[In(d)] = at[In(d)] \/ at'[In(d)] = "done"
      BY Ends
    <3>2. at'[In(d)] # "done" => at'[In(d)] = at[In(d)]
      BY <3>1
    <3>3. at[Out(d)] = "new" => at'[Out(d)] = "new"
      BY <3>1
    <3>4. at'[Out(d)] \notin {"start", "connect", "gate", "failed"}
      BY <3>1 DEF DataInv, Early
    <3>5. at'[In(d)] \in {"new", "start", "connect", "gate"} => at'[Out(d)] = "new"
      BY <3>2, <3>3 DEF DataInv, Early
    <3>6. CASE d = c
      BY <2>2, <3>4, <3>5, <3>6
    <3>7. CASE d # c
      <4>1. at[In(d)] \in {"new", "start"} <=> at'[In(d)] \in {"new", "start"}
        BY <3>1
      <4> QED  BY <1>2, <2>1, <3>2, <3>4, <3>5, <3>7, <4>1 DEF DataInv, Early
    <3> QED  BY <3>6, <3>7
  <2> QED  BY <2>3 DEF Early
<1>8. PipeStep
  BY <1>1, <1>2, BreakingPipe
<1> QED  BY <1>4, <1>5, <1>6, <1>7, <1>8 DEF DataInv

LEMMA LeaveStep ==
  ASSUME DataInv, NEW t \in Sock, Leave(t)
  PROVE  DataInv' /\ PipeStep
<1>1. PICK c \in Clients : (t = In(c) \/ t = Out(c)) /\ t[1] = c
  BY Ends
<1>2. CloseBoth(c) /\ UNCHANGED <<buf, fut>> /\ at[t] \in {"failed", "break"}
  BY <1>1, Zenon DEF Leave
<1>3. at[In(c)] \notin {"new", "start"}
  BY <1>1, <1>2 DEF DataInv, Early
<1>4. /\ at' \in [Sock -> Place]
      /\ \A s \in Sock : at'[s] = at[s] \/ (at[s] \in {"failed", "break"} /\ at'[s] = "done")
  <2>1. at' = [at EXCEPT ![t] = "done"] /\ at \in [Sock -> Place] /\ "done" \in Place
    BY DEF Leave, DataInv, Shape, Place
  <2> QED  BY <1>2, <2>1
<1> QED  BY <1>2, <1>3, <1>4, Closing

LEMMA AbortStep ==
  ASSUME DataInv, NEW c \in Clients, Abort(c)
  PROVE  DataInv' /\ PipeStep
<1>1. CloseBoth(c) /\ at[In(c)] \in {"connect", "gate"} /\ UNCHANGED <<buf, fut, at>>
  BY DEF Abort, Decide
<1>2. at' \in [Sock -> Place]
  BY <1>1 DEF DataInv, Shape
<1> QED  BY <1>1, <1>2, Closing

\* A new socket has nothing behind it.
LEMMA Opening ==
  ASSUME DataInv, NEW s \in Sock, Silent(s), sent[s] = <<>>, open' = open \cup {s},
         UNCHANGED <<buf, rx, wrote, sent, taken>>
  PROVE  NothingLost' /\ Space' /\ PipeStep
<1>1. ASSUME NEW r \in open' PROVE wrote[r] = sent[Other(r)] \o buf[r] \o rx[r]
  <2>1. CASE r = s
    <3>1. <<>> \o <<>> \o <<>> = <<>>
      BY Empty, Concat
    <3> QED  BY <2>1, <3>1 DEF Silent
  <2>2. CASE r # s
    BY <2>2 DEF DataInv, NothingLost
  <2> QED  BY <2>1, <2>2
<1>2. ASSUME NEW r \in open' PROVE Len(sent[r]) <= Room + taken[r]
  <2>1. CASE r = s
    BY <2>1, RelayAssumption, Empty DEF DataInv, Shape
  <2>2. CASE r # s
    BY <2>2 DEF DataInv, Space
  <2> QED  BY <2>1, <2>2
<1>3. NothingLost' /\ Space'
  BY <1>1, <1>2 DEF NothingLost, Space
<1> QED  BY <1>3, OpeningPipe

LEMMA AcceptStep ==
  ASSUME DataInv, NEW c \in Clients, Accept(c)
  PROVE  DataInv' /\ PipeStep
<1>1. /\ at[In(c)] = "new" /\ open' = open \cup {In(c)} /\ at' = [at EXCEPT ![In(c)] = "start"]
      /\ UNCHANGED <<fut, buf, rx, wrote, sent, taken>>
  BY DEF Accept, OpenSocket, peer_vars
<1>2. /\ In(c) \in Sock /\ Out(c) \in Sock /\ In(c) # Out(c) /\ Other(Out(c)) = In(c)
      /\ \A d \in Clients : /\ In(d) # Out(c) /\ Out(d) # In(c) /\ In(d) \in Sock
                            /\ Out(d) \in Sock /\ (d # c => In(d) # In(c))
  BY Ends
<1>3. at \in [Sock -> Place] /\ "start" \in Place
  BY DEF DataInv, Shape, Place
<1>4. /\ at' \in [Sock -> Place] /\ at'[In(c)] = "start"
      /\ \A s \in Sock : s # In(c) => at'[s] = at[s]
  BY <1>1, <1>2, <1>3
<1>5. Shape'
  BY <1>1, <1>2, <1>4 DEF DataInv, Shape
<1>6. Silent(In(c)) /\ sent[In(c)] = <<>>
  BY <1>1, <1>2 DEF DataInv, Early, Silent
<1>7. NothingLost' /\ Space' /\ PipeStep
  BY <1>1, <1>2, <1>6, Opening
<1>8. Hand'
  BY <1>1, <1>4, <1>6 DEF DataInv, Hand, HandsFree, Silent
<1>9. \A d \in Clients : /\ Silent(In(d))' <=> Silent(In(d))
                         /\ Silent(Out(d))' <=> Silent(Out(d))
  BY <1>1 DEF Silent
<1>10. ASSUME NEW d \in Clients
       PROVE  /\ at'[In(d)] = "new" => In(d) \notin open' /\ Silent(In(d))
              /\ at'[In(d)] \in {"new", "start"} => Out(d) \notin open' /\ Silent(Out(d))
              /\ at'[In(d)] \in {"new", "start"} => sent'[Out(d)] = <<>>
              /\ at'[In(d)] \in {"new", "start", "connect", "gate"} => at'[Out(d)] = "new"
              /\ at'[Out(d)] \notin {"start", "connect", "gate", "failed"}
              /\ at'[In(d)] = "start" => In(d) \in open'
              /\ at'[In(d)] \notin {"new", "start"} => (In(d) \in open' <=> Out(d) \in open')
  <2>1. Out(d) \in open' <=> Out(d) \in open
    BY <1>1, <1>2
  <2>2. CASE d = c
    BY <1>1, <1>2, <1>4, <2>1, <2>2 DEF DataInv, Early
  <2>3. CASE d # c
    <3>1. /\ In(d) \in open' <=> In(d) \in open
          /\ at'[In(d)] = at[In(d)] /\ at'[Out(d)] = at[Out(d)]
      BY <1>1, <1>2, <1>4, <2>3
    <3> QED  BY <1>1, <2>1, <3>1 DEF DataInv, Early
  <2> QED  BY <2>2, <2>3
<1>11. Early'
  BY <1>9, <1>10 DEF Early
<1> QED  BY <1>5, <1>7, <1>8, <1>11 DEF DataInv

LEMMA ConnectStep ==
  ASSUME DataInv, NEW c \in Clients, Connect(c)
  PROVE  DataInv' /\ PipeStep
<1>1. /\ at[In(c)] = "start" /\ open' = open \cup {Out(c)}
      /\ UNCHANGED <<buf, rx, wrote, sent, taken>>
  BY DEF Connect, OpenSocket
<1>2. /\ In(c) \in Sock /\ Out(c) \in Sock /\ In(c) # Out(c) /\ Other(Out(c)) = In(c)
      /\ \A d \in Clients : /\ In(d) # Out(c) /\ Out(d) # In(c) /\ In(d) \in Sock
                            /\ Out(d) \in Sock /\ (d # c => In(d) # In(c) /\ Out(d) # Out(c))
  BY Ends
<1>3. /\ at' \in [Sock -> Place] /\ fut' \in [Sock -> Futures]
      /\ \A s \in Sock : s # In(c) => at'[s] = at[s] /\ fut'[s] = fut[s]
      /\ at'[In(c)] \in {"connect", "failed"}
  <2>1. \/ at' = [at EXCEPT ![In(c)] = "failed"] /\ fut' = fut
        \/ at' = [at EXCEPT ![In(c)] = "connect"] /\ fut' = [fut EXCEPT ![In(c)] = "pending"]
    BY Zenon DEF Connect, Await
  <2>2. Shape /\ "failed" \in Place /\ "connect" \in Place
    BY DEF DataInv, Place
  <2> QED  BY <1>2, <2>1, <2>2, Awaiting
<1>4. Shape'
  BY <1>1, <1>2, <1>3 DEF DataInv, Shape, Futures
<1>5. Silent(Out(c)) /\ sent[Out(c)] = <<>> /\ In(c) \in open /\ at[Out(c)] = "new"
  BY <1>1 DEF DataInv, Early
<1>6. NothingLost' /\ Space' /\ PipeStep
  BY <1>1, <1>2, <1>5, Opening
<1>7. buf[In(c)] = <<>>
  BY <1>1, <1>2 DEF DataInv, Hand, HandsFree
<1>8. Hand'
  BY <1>1, <1>3, <1>7 DEF DataInv, Hand, HandsFree
<1>9. \A d \in Clients : /\ Silent(In(d))' <=> Silent(In(d))
                         /\ Silent(Out(d))' <=> Silent(Out(d))
  BY <1>1 DEF Silent
<1>10. ASSUME NEW d \in Clients
       PROVE  /\ at'[In(d)] = "new" => In(d) \notin open' /\ Silent(In(d))
              /\ at'[In(d)] \in {"new", "start"} => Out(d) \notin open' /\ Silent(Out(d))
              /\ at'[In(d)] \in {"new", "start"} => sent'[Out(d)] = <<>>
              /\ at'[In(d)] \in {"new", "start", "connect", "gate"} => at'[Out(d)] = "new"
              /\ at'[Out(d)] \notin {"start", "connect", "gate", "failed"}
              /\ at'[In(d)] = "start" => In(d) \in open'
              /\ at'[In(d)] \notin {"new", "start"} => (In(d) \in open' <=> Out(d) \in open')
  <2>1. (In(d) \in open' <=> In(d) \in open) /\ at'[Out(d)] = at[Out(d)]
    BY <1>1, <1>2, <1>3
  <2>2. CASE d = c
    BY <1>1, <1>2, <1>3, <1>5, <2>1, <2>2
  <2>3. CASE d # c
    <3>1. (Out(d) \in open' <=> Out(d) \in open) /\ at'[In(d)] = at[In(d)]
      BY <1>1, <1>2, <1>3, <2>3
    <3> QED  BY <1>1, <2>1, <3>1 DEF DataInv, Early
  <2> QED  BY <2>2, <2>3
<1>11. Early'
  BY <1>9, <1>10 DEF Early
<1> QED  BY <1>4, <1>6, <1>8, <1>11 DEF DataInv

LEMMA WriteStep ==
  ASSUME DataInv, NEW s \in Sock, PeerWrites(s)
  PROVE  DataInv' /\ PipeStep
<1> DEFINE n == Len(wrote[s]) + 1
<1>1. /\ s \in open /\ UNCHANGED <<open, at, fut, buf, sent, taken>>
      /\ wrote' = [wrote EXCEPT ![s] = Append(wrote[s], n)]
      /\ rx' = [rx EXCEPT ![s] = Append(rx[s], n)]
  BY DEF PeerWrites, Connected, loop_vars, task_vars, sock_vars
<1>2. /\ wrote[s] \in Data /\ rx[s] \in Data /\ sent[Other(s)] \in Data /\ buf[s] \in Data
      /\ wrote[s] = sent[Other(s)] \o buf[s] \o rx[s]
  BY <1>1, Others DEF DataInv, Shape, NothingLost
<1>3. n \in Nat
  <2>1. Len(wrote[s]) \in Nat
    BY <1>2, LenProperties DEF Data
  <2> QED  BY <2>1
<1>4. P!Write(s)
  BY <1>1 DEF P!Write
<1> HIDE DEF n
<1>5. /\ Append(wrote[s], n) = (sent[Other(s)] \o buf[s]) \o Append(rx[s], n)
      /\ Append(wrote[s], n) \in Data /\ Append(rx[s], n) \in Data
  <2>1. sent[Other(s)] \o buf[s] \in Data
    BY <1>2, Concat
  <2>2. /\ Append((sent[Other(s)] \o buf[s]) \o rx[s], n)
             = (sent[Other(s)] \o buf[s]) \o Append(rx[s], n)
        /\ Append(rx[s], n) \in Data
    BY <1>2, <1>3, <2>1, Extend
  <2>3. Append(wrote[s], n) \in Data
    BY <1>2, <1>3, Extend
  <2> QED  BY <1>2, <2>2, <2>3
<1>6. /\ wrote' \in [Sock -> Data] /\ rx' \in [Sock -> Data]
      /\ wrote'[s] = Append(wrote[s], n) /\ rx'[s] = Append(rx[s], n)
      /\ \A r \in Sock : r # s => wrote'[r] = wrote[r] /\ rx'[r] = rx[r]
  BY <1>1, <1>5 DEF DataInv, Shape
<1>7. Shape' /\ Space' /\ Hand'
  BY <1>1, <1>6 DEF DataInv, Shape, Space, Hand, HandsFree
<1>8. ASSUME NEW r \in open PROVE wrote'[r] = sent'[Other(r)] \o buf'[r] \o rx'[r]
  BY <1>1, <1>5, <1>6 DEF DataInv, Shape, NothingLost
<1>9. NothingLost'
  BY <1>1, <1>8 DEF NothingLost
<1>10. Early'
  <2>1. ASSUME NEW c \in Clients
        PROVE  /\ at[In(c)] = "new" => Silent(In(c))'
               /\ at[In(c)] \in {"new", "start"} => Silent(Out(c))'
    <3>1. In(c) \in Sock /\ Out(c) \in Sock
      BY Ends
    <3>2. at[In(c)] = "new" => s # In(c)
      BY <1>1 DEF DataInv, Early
    <3>3. at[In(c)] \in {"new", "start"} => s # Out(c)
      BY <1>1 DEF DataInv, Early
    <3>4. (s # In(c) /\ Silent(In(c)) => Silent(In(c))')
          /\ (s # Out(c) /\ Silent(Out(c)) => Silent(Out(c))')
      BY <1>1, <1>6, <3>1 DEF Silent
    <3> QED  BY <3>2, <3>3, <3>4 DEF DataInv, Early
  <2> QED  BY <1>1, <2>1 DEF DataInv, Early
<1>11. PipeStep
  BY <1>4 DEF PipeStep, P!Next
<1> QED  BY <1>7, <1>9, <1>10, <1>11 DEF DataInv

(***************************************************************************)
(* The theorems                                                            *)
(***************************************************************************)
LEMMA Initially ==
  ASSUME Init
  PROVE  DataInv /\ P!Init
<1>1. \A s \in Sock : /\ at[s] = "new" /\ buf[s] = <<>> /\ rx[s] = <<>> /\ wrote[s] = <<>>
                      /\ sent[s] = <<>>
  BY DEF Init
<1>2. Shape
  BY Empty DEF Init, Shape, Place
<1>3. Hand /\ Space /\ NothingLost /\ open = {}
  BY <1>1 DEF Init, Hand, Space, NothingLost
<1>4. \A s \in Sock : Silent(s)
  BY <1>1, Others DEF Silent
<1>5. Early
  BY <1>1, <1>3, <1>4, Ends DEF Early
<1>6. P!Init
  BY DEF Init, P!Init
<1> QED  BY <1>2, <1>3, <1>5, <1>6 DEF DataInv

LEMMA Step ==
  ASSUME DataInv, [Next]_vars
  PROVE  DataInv' /\ PipeStep
<1>1. CASE Select
  BY <1>1, QuietSteps
<1>2. ASSUME NEW t \in Sock, Resume(t) PROVE DataInv' /\ PipeStep
  BY <1>2, ResumeStep
<1>3. ASSUME NEW t \in Sock, Callback(t) PROVE DataInv' /\ PipeStep
  BY <1>3, CallbackStep
<1>4. ASSUME NEW t \in Sock, Coroutine(t) PROVE DataInv' /\ PipeStep
  BY <1>4, ReceiveStep, SendallStep, LeaveStep DEF Coroutine
<1>5. ASSUME NEW c \in Clients, Connect(c) PROVE DataInv' /\ PipeStep
  BY <1>5, ConnectStep
<1>6. ASSUME NEW c \in Clients, Accept(c) \/ Answer(c) \/ Verdict(c) \/ Abort(c)
      PROVE  DataInv' /\ PipeStep
  BY <1>6, AcceptStep, AbortStep, QuietSteps
<1>7. ASSUME NEW s \in Sock, PeerWrites(s) \/ PeerReads(s) \/ PeerEnds(s)
      PROVE  DataInv' /\ PipeStep
  BY <1>7, WriteStep, QuietSteps
<1>8. CASE UNCHANGED vars
  <2>1. UNCHANGED <<open, at, fut, buf, rx, wrote, sent, taken>>
    BY <1>8 DEF vars, loop_vars, task_vars, peer_vars, sock_vars
  <2>2. taken' \in [Sock -> Nat] /\ \A s \in Sock : taken[s] <= taken'[s]
    BY <2>1 DEF DataInv, Shape
  <2> QED  BY <2>1, <2>2, Quiet
<1> QED  BY <1>1, <1>2, <1>3, <1>4, <1>5, <1>6, <1>7, <1>8, Zenon DEF Next, Loop, Environment

\* While a socket is open, everything its peer wrote was passed on, is in the hand of
\* one task, or is still to be read: relay_main_loop() drops, repeats and reorders
\* nothing, whatever the selector reports, and whoever closes what and when.
THEOREM NoLoss == Spec => []NothingLost
<1>1. Init => DataInv
  BY Initially
<1>2. DataInv /\ [Next]_vars => DataInv'
  BY Step
<1>3. DataInv => NothingLost
  BY DEF DataInv
<1> QED  BY <1>1, <1>2, <1>3, PTL DEF Spec

\* The event loop, its two tasks for each client and the injector's closing of their
\* sockets implement the two pipes of Pipes, which deliver pieces of what was written
\* in order and break together.
THEOREM Refinement == Spec => KeepsPipes
<1>1. Init => DataInv /\ P!Init
  BY Initially
<1>2. DataInv /\ [Next]_vars => DataInv' /\ [P!Next]_<<wrote, sent, Sock \ open>>
  BY Step DEF PipeStep
<1> QED  BY <1>1, <1>2, PTL DEF Spec, KeepsPipes, P!Spec
===============================================================================
