---------------------------- MODULE RawEngineProofs ----------------------------
(***************************************************************************)
(* The engine's memories keep their promises for every window, every bound *)
(* and every number of threads, copies and packets.                        *)
(***************************************************************************)
EXTENDS RawEngine, FiniteSetTheorems, TLAPS

(***************************************************************************)
(* The inductive invariant                                                 *)
(***************************************************************************)
\* A count belongs to a fake whose send() has begun.
CountInv ==
  /\ \A f \in DOMAIN injected : sender[f] # "idle"
  /\ echo.of # NoFake => echo.n >= 1 /\ sender[echo.of] # "idle"

\* The window lists the last packets returned, and unless it lists all of them it
\* lists at least Gap.
TailInv ==
  /\ Len(seen_order) <= Len(log)
  /\ \A i \in 1 .. Len(seen_order) : seen_order[i] = log[Len(log) - Len(seen_order) + i]
  /\ Len(seen_order) < Len(log) => Len(seen_order) >= Gap

\* The entry recv() may put back counts as present.
Echoing == {f \in Fakes : f = echo.of}
Looking == {f \in Fakes : sender[f] \in {"counted", "clearing"}}
BoundInv ==
  Cardinality(DOMAIN injected \cup Echoing) <= InjectedBound + 1 + Cardinality(Looking)

WindowInv == WindowOK /\ TailInv /\ RepeatsFarApart /\ FakeNeverJudged

EngineInv == TypeOK /\ CountInv /\ WindowInv

(***************************************************************************)
(* The window                                                              *)
(***************************************************************************)
LEMMA HalfWindow ==
  /\ DUP_WINDOW \div 2 \in Nat
  /\ 1 <= DUP_WINDOW \div 2 /\ DUP_WINDOW \div 2 < DUP_WINDOW
  /\ Gap \in Nat /\ 1 < Gap /\ Gap <= DUP_WINDOW
  BY RawEngineAssumption DEF Gap

\* The list after a delivery: k of the oldest entries are gone, k being nought or half
\* a window, and the rest has the new packet at its end.
LEMMA RememberCuts ==
  ASSUME TypeOK, WindowOK, NEW p \in Packets, Remember(p)
  PROVE  \E k \in 0 .. Len(seen_order) :
           /\ Len(seen_order') = Len(seen_order) + 1 - k
           /\ seen_order' \in Seq(Packets)
           /\ Len(seen_order') <= DUP_WINDOW
           /\ \A i \in 1 .. Len(seen_order') :
                seen_order'[i] = Append(seen_order, p)[k + i]
           /\ seen' = (seen \cup {p}) \ {Append(seen_order, p)[i] : i \in 1 .. k}
           /\ k = 0 \/ Len(seen_order') = Gap
<1> DEFINE order == Append(seen_order, p)
           n == Len(seen_order)
           half == DUP_WINDOW \div 2
           Cut(k) ==
             /\ Len(seen_order') = n + 1 - k
             /\ seen_order' \in Seq(Packets)
             /\ Len(seen_order') <= DUP_WINDOW
             /\ \A i \in 1 .. Len(seen_order') : seen_order'[i] = order[k + i]
             /\ seen' = (seen \cup {p}) \ {order[i] : i \in 1 .. k}
             /\ k = 0 \/ Len(seen_order') = Gap
<1> SUFFICES \E k \in 0 .. n : Cut(k)
  OBVIOUS
<1>1. /\ n \in Nat /\ n <= DUP_WINDOW
      /\ order \in Seq(Packets) /\ Len(order) = n + 1
  BY DEF TypeOK, WindowOK
<1>2. seen_order' = Trimmed(order) /\ seen' = (seen \cup {p}) \ Forgotten(order)
  BY DEF Remember
<1>3. half \in Nat /\ 1 <= half /\ half < DUP_WINDOW /\ DUP_WINDOW \in Nat
  BY HalfWindow, RawEngineAssumption
<1>4. Gap = DUP_WINDOW + 1 - half
  BY DEF Gap
<1> HIDE DEF order, n, half
<1>5. CASE n + 1 <= DUP_WINDOW
  <2>1. seen_order' = order /\ seen' = seen \cup {p}
    BY <1>1, <1>2, <1>3, <1>5 DEF Trimmed, Forgotten
  <2>2. {order[i] : i \in 1 .. 0} = {}
    OBVIOUS
  <2>3. Cut(0)
    BY <1>1, <1>3, <1>5, <2>1, <2>2
  <2>4. 0 \in 0 .. n
    BY <1>1
  <2> HIDE DEF Cut
  <2> QED BY <2>3, <2>4
<1>6. CASE n + 1 > DUP_WINDOW
  <2>1. n = DUP_WINDOW
    BY <1>1, <1>3, <1>6
  <2>2. /\ seen_order' = SubSeq(order, half + 1, n + 1)
        /\ seen' = (seen \cup {p}) \ {order[i] : i \in 1 .. half}
    BY <1>1, <1>2, <1>3, <1>6 DEF Trimmed, Forgotten, half
  <2>3. /\ seen_order' \in Seq(Packets) /\ Len(seen_order') = n + 1 - half
        /\ \A i \in 1 .. Len(seen_order') : seen_order'[i] = order[half + i]
    BY <1>1, <1>3, <2>1, <2>2
  <2>4. half \in 0 .. n /\ Len(seen_order') <= DUP_WINDOW /\ Len(seen_order') = Gap
    BY <1>1, <1>3, <1>4, <2>1, <2>3
  <2>5. Cut(half)
    BY <2>2, <2>3, <2>4
  <2> HIDE DEF Cut
  <2> QED BY <2>4, <2>5
<1> HIDE DEF Cut
<1> QED BY <1>1, <1>3, <1>5, <1>6

LEMMA RememberWindow ==
  ASSUME TypeOK, WindowOK, NEW p \in Packets, p \notin seen, Remember(p)
  PROVE  WindowOK'
<1> DEFINE order == Append(seen_order, p)
           n == Len(seen_order)
           m == Len(seen_order')
<1>1. PICK k \in 0 .. n :
        /\ m = n + 1 - k
        /\ seen_order' \in Seq(Packets)
        /\ m <= DUP_WINDOW
        /\ \A i \in 1 .. m : seen_order'[i] = order[k + i]
        /\ seen' = (seen \cup {p}) \ {order[i] : i \in 1 .. k}
  BY RememberCuts
<1>2. /\ n \in Nat /\ seen_order \in Seq(Packets)
      /\ order \in Seq(Packets) /\ Len(order) = n + 1
      /\ order[n + 1] = p /\ \A i \in 1 .. n : order[i] = seen_order[i]
  BY DEF TypeOK
<1>3. \A i, j \in 1 .. n + 1 : order[i] = order[j] => i = j
  <2>1. \A i \in 1 .. n : order[i] # p
    BY <1>2 DEF WindowOK
  <2>2. \A i, j \in 1 .. n : order[i] = order[j] => i = j
    BY <1>2 DEF WindowOK
  <2> QED BY <1>2, <2>1, <2>2
<1>4. seen \cup {p} = {order[i] : i \in 1 .. n + 1}
  <2>1. seen = {order[i] : i \in 1 .. n}
    BY <1>2 DEF WindowOK
  <2> QED BY <1>2, <2>1
<1> HIDE DEF order, n, m
<1>5. \A i, j \in 1 .. m : seen_order'[i] = seen_order'[j] => i = j
  <2>1. \A i \in 1 .. m : k + i \in 1 .. n + 1 /\ seen_order'[i] = order[k + i]
    BY <1>1, <1>2
  <2> TAKE i, j \in 1 .. m
  <2> HAVE seen_order'[i] = seen_order'[j]
  <2>2. k + i = k + j
    BY <1>3, <2>1
  <2> QED BY <1>1, <1>2, <2>2
<1>6. seen' = {seen_order'[i] : i \in 1 .. m}
  <2>1. ASSUME NEW x \in seen' PROVE \E i \in 1 .. m : seen_order'[i] = x
    <3>1. PICK j \in 1 .. n + 1 : x = order[j]
      BY <1>1, <1>4, <2>1
    <3>2. j \notin 1 .. k
      BY <1>1, <2>1, <3>1
    <3>3. j - k \in 1 .. m /\ k + (j - k) = j
      BY <1>1, <1>2, <3>2
    <3> QED BY <1>1, <3>1, <3>3
  <2>2. ASSUME NEW i \in 1 .. m PROVE seen_order'[i] \in seen'
    <3>1. k + i \in 1 .. n + 1 /\ k + i \notin 1 .. k
      BY <1>1, <1>2
    <3>2. seen_order'[i] = order[k + i]
      BY <1>1
    <3>3. order[k + i] \in seen \cup {p}
      BY <1>4, <3>1
    <3>4. \A j \in 1 .. k : order[j] # order[k + i]
      BY <1>1, <1>2, <1>3, <3>1
    <3> QED BY <1>1, <3>2, <3>3, <3>4
  <2> QED BY <2>1, <2>2
<1> QED BY <1>1, <1>5, <1>6 DEF WindowOK, m

LEMMA RememberTail ==
  ASSUME TypeOK, WindowOK, TailInv, NEW p \in Packets, Remember(p), log' = Append(log, p)
  PROVE  TailInv'
<1> DEFINE order == Append(seen_order, p)
           n == Len(seen_order)
           m == Len(seen_order')
           L == Len(log)
<1>1. PICK k \in 0 .. n :
        /\ m = n + 1 - k
        /\ \A i \in 1 .. m : seen_order'[i] = order[k + i]
        /\ k = 0 \/ m = Gap
  BY RememberCuts
<1>2. /\ n \in Nat /\ L \in Nat /\ n <= L /\ (n < L => n >= Gap)
      /\ Len(log') = L + 1 /\ log'[L + 1] = p
      /\ \A i \in 1 .. L : log'[i] = log[i]
      /\ order[n + 1] = p /\ \A i \in 1 .. n : order[i] = seen_order[i]
      /\ \A i \in 1 .. n : seen_order[i] = log[L - n + i]
  BY DEF TypeOK, TailInv
<1> HIDE DEF order, n, m, L
<1>3. \A i \in 1 .. n + 1 : order[i] = log'[L - n + i]
  <2>1. ASSUME NEW i \in 1 .. n PROVE order[i] = log'[L - n + i]
    <3>1. L - n + i \in 1 .. L
      BY <1>2
    <3> QED BY <1>2, <3>1
  <2>2. order[n + 1] = log'[L - n + (n + 1)]
    <3>1. L - n + (n + 1) = L + 1
      BY <1>2
    <3> QED BY <1>2, <3>1
  <2> QED BY <1>2, <2>1, <2>2
<1>4. ASSUME NEW i \in 1 .. m PROVE seen_order'[i] = log'[L + 1 - m + i]
  <2>1. k + i \in 1 .. n + 1 /\ L - n + (k + i) = L + 1 - m + i
    BY <1>1, <1>2
  <2> QED BY <1>1, <1>3, <2>1
<1>5. m <= L + 1 /\ (m < L + 1 => m >= Gap)
  BY <1>1, <1>2, HalfWindow
<1>6. Gap' = Gap
  BY DEF Gap
<1>7. \A i \in 1 .. m : seen_order'[i] = log'[Len(log') - m + i]
  <2>1. Len(log') = L + 1
    BY <1>2, Zenon
  <2>2. ASSUME NEW i \in 1 .. m PROVE seen_order'[i] = log'[Len(log') - m + i]
    <3>1. Len(log') - m + i = L + 1 - m + i
      BY <1>1, <1>2, <2>1
    <3> QED BY <1>4, <3>1
  <2> QED BY <2>2
<1>8. m <= Len(log') /\ (m < Len(log') => m >= Gap')
  BY <1>2, <1>5, <1>6
<1> QED BY <1>7, <1>8, Zenon DEF TailInv, m

\* A packet delivered once more is the new one; it is not in the window, so it lies
\* before the window's packets, of which there are Gap.
LEMMA RememberApart ==
  ASSUME TypeOK, WindowOK, TailInv, RepeatsFarApart,
         NEW p \in Packets, p \notin seen, log' = Append(log, p)
  PROVE  RepeatsFarApart'
<1> DEFINE n == Len(seen_order)
           L == Len(log)
<1>1. /\ n \in Nat /\ L \in Nat /\ n <= L /\ (n < L => n >= Gap)
      /\ Len(log') = L + 1 /\ log'[L + 1] = p
      /\ \A i \in 1 .. L : log'[i] = log[i]
      /\ \A i \in 1 .. n : seen_order[i] = log[L - n + i]
      /\ \A i \in 1 .. n : seen_order[i] # p
      /\ \A i, j \in 1 .. L : i < j /\ log[i] = log[j] => j - i > Gap
  BY DEF TypeOK, TailInv, WindowOK, RepeatsFarApart
<1> HIDE DEF n, L
<1>2. ASSUME NEW i \in 1 .. L, log[i] = p PROVE L + 1 - i > Gap
  <2>1. ~ (L - n < i)
    <3> SUFFICES ASSUME L - n < i PROVE FALSE
      OBVIOUS
    <3>1. i - (L - n) \in 1 .. n /\ L - n + (i - (L - n)) = i
      BY <1>1
    <3> QED BY <1>1, <1>2, <3>1
  <2> QED BY <1>1, <2>1, HalfWindow
<1>3. ASSUME NEW i \in 1 .. L + 1, NEW j \in 1 .. L + 1, i < j, log'[i] = log'[j]
      PROVE  j - i > Gap
  <2>1. CASE j = L + 1
    <3>1. i \in 1 .. L /\ log[i] = p
      BY <1>1, <1>3, <2>1
    <3>2. L + 1 - i > Gap
      BY <1>2, <3>1
    <3> QED BY <1>1, <2>1, <3>1, <3>2, HalfWindow
  <2>2. CASE j # L + 1
    <3>1. i \in 1 .. L /\ j \in 1 .. L
      BY <1>1, <1>3, <2>2
    <3>2. log[i] = log[j]
      BY <1>1, <1>3, <3>1
    <3> QED BY <1>1, <1>3, <3>1, <3>2
  <2> QED BY <2>1, <2>2
<1>4. Gap' = Gap
  BY DEF Gap
<1> QED BY <1>1, <1>3, <1>4 DEF RepeatsFarApart

LEMMA RememberJudged ==
  ASSUME TypeOK, FakeNeverJudged, NEW p \in Controls, log' = Append(log, p)
  PROVE  FakeNeverJudged'
  BY DEF TypeOK, FakeNeverJudged, Packets

(***************************************************************************)
(* The steps                                                               *)
(***************************************************************************)
LEMMA EngineInit == Init => EngineInv /\ BoundInv
<1> SUFFICES ASSUME Init PROVE EngineInv /\ BoundInv
  OBVIOUS
<1> USE RawEngineAssumption DEF Init
<1>1. TypeOK
  BY DEF TypeOK
<1>2. CountInv
  BY DEF CountInv
<1>3. WindowInv
  BY DEF WindowInv, WindowOK, TailInv, RepeatsFarApart, FakeNeverJudged
<1>4. BoundInv
  <2>1. DOMAIN injected \cup Echoing = {} /\ Looking = {}
    BY DEF Echoing, Looking
  <2>2. Cardinality({}) = 0
    BY FS_EmptySet
  <2>3. 0 <= InjectedBound + 1 + 0
    OBVIOUS
  <2> HIDE DEF Init
  <2> QED BY <2>1, <2>2, <2>3, Zenon DEF BoundInv
<1> QED BY <1>1, <1>2, <1>3, <1>4 DEF EngineInv

LEMMA FilterStep ==
  ASSUME EngineInv, NEW p \in Packets, Filter(p)
  PROVE  WindowInv' /\ seen' \subseteq Packets /\ seen_order' \in Seq(Packets)
                    /\ log' \in Seq(Packets)
<1> USE DEF EngineInv
<1>1. CASE PayloadOnly(p) \/ p \in seen
  <2>1. seen' = seen /\ seen_order' = seen_order /\ log' = log
    BY <1>1 DEF Filter
  <2>2. Gap' = Gap
    BY DEF Gap
  <2> QED BY <2>1, <2>2 DEF WindowInv, WindowOK, TailInv, RepeatsFarApart,
                            FakeNeverJudged, TypeOK
<1>2. CASE ~ (PayloadOnly(p) \/ p \in seen)
  <2>1. Remember(p) /\ log' = Append(log, p) /\ p \notin seen
    BY <1>2 DEF Filter
  <2>2. p \in Controls
    BY <1>2 DEF PayloadOnly, Packets
  <2>3. TypeOK /\ WindowOK /\ TailInv /\ RepeatsFarApart /\ FakeNeverJudged
    BY DEF WindowInv
  <2>4. WindowOK' /\ TailInv' /\ RepeatsFarApart' /\ FakeNeverJudged'
    BY <2>1, <2>2, <2>3, RememberWindow, RememberTail, RememberApart, RememberJudged
  <2>5. seen_order' \in Seq(Packets) /\ seen' \subseteq seen \cup {p}
    BY <2>1, <2>3, RememberCuts
  <2> QED BY <2>1, <2>3, <2>4, <2>5 DEF WindowInv, TypeOK
<1> QED BY <1>1, <1>2

LEMMA WindowStep ==
  ASSUME EngineInv, [Next]_vars
  PROVE  WindowInv' /\ seen' \subseteq Packets /\ seen_order' \in Seq(Packets)
                    /\ log' \in Seq(Packets)
<1>1. CASE UNCHANGED <<seen, seen_order, log>>
  <2>1. Gap' = Gap
    BY DEF Gap
  <2> QED BY <1>1, <2>1 DEF EngineInv, WindowInv, WindowOK, TailInv, RepeatsFarApart,
                            FakeNeverJudged, TypeOK
<1>2. ASSUME NEW p \in Packets, Filter(p) PROVE WindowInv' /\ seen' \subseteq Packets
             /\ seen_order' \in Seq(Packets) /\ log' \in Seq(Packets)
  BY <1>2, FilterStep
<1>3. ASSUME ~ \E p \in Packets : Filter(p) PROVE UNCHANGED <<seen, seen_order, log>>
  BY <1>3 DEF Next, vars, Transmit, Count, CheckBound, Clear, SendTo, ReadCount, StoreCount
<1> QED BY <1>1, <1>2, <1>3

\* A count is read and stored between 1 and EchoesPerSend, since each fake is
\* counted once.
LEMMA CountStep ==
  ASSUME EngineInv, [Next]_vars
  PROVE  /\ CountInv'
         /\ DOMAIN injected' \subseteq Fakes
         /\ \A f \in DOMAIN injected' : injected'[f] \in 1 .. EchoesPerSend
         /\ echo' \in [of : Fakes \cup {NoFake}, n : 0 .. EchoesPerSend]
         /\ sender' \in [Fakes -> {"idle", "counted", "clearing", "sending", "done"}]
<1> DEFINE Goal == /\ CountInv'
                   /\ DOMAIN injected' \subseteq Fakes
                   /\ \A f \in DOMAIN injected' : injected'[f] \in 1 .. EchoesPerSend
                   /\ echo' \in [of : Fakes \cup {NoFake}, n : 0 .. EchoesPerSend]
                   /\ sender' \in [Fakes -> {"idle", "counted", "clearing", "sending", "done"}]
<1> SUFFICES Goal
  OBVIOUS
<1> USE RawEngineAssumption DEF EngineInv, TypeOK, CountInv
<1>1. CASE UNCHANGED <<injected, echo, sender>>
  BY <1>1
<1>2. ASSUME NEW f \in Fakes, Count(f) PROVE Goal
  BY <1>2 DEF Count
<1>3. ASSUME NEW f \in Fakes, CheckBound(f) PROVE Goal
  BY <1>3 DEF CheckBound
<1>4. ASSUME NEW f \in Fakes, Clear(f) PROVE Goal
  BY <1>4 DEF Clear
<1>5. ASSUME NEW f \in Fakes, SendTo(f) PROVE Goal
  BY <1>5 DEF SendTo
<1>6. ASSUME NEW p \in Packets, ReadCount(p) PROVE Goal
  BY <1>6 DEF ReadCount
<1>7. CASE StoreCount
  BY <1>7 DEF StoreCount
<1> HIDE DEF Goal, EngineInv, TypeOK, CountInv
<1>8. ASSUME NEW p \in Packets, Filter(p) \/ Transmit(p) PROVE UNCHANGED <<injected, echo, sender>>
  BY <1>8 DEF Filter, Transmit
<1>9. ASSUME UNCHANGED vars PROVE UNCHANGED <<injected, echo, sender>>
  BY <1>9 DEF vars
<1> QED BY <1>1, <1>2, <1>3, <1>4, <1>5, <1>6, <1>7, <1>8, <1>9 DEF Next, Packets

LEMMA CopiesStep ==
  ASSUME EngineInv, [Next]_vars
  PROVE  coming' \in [Packets -> Nat] /\ sent' \in 0 .. MaxSent
<1> DEFINE Goal == coming' \in [Packets -> Nat] /\ sent' \in 0 .. MaxSent
<1> SUFFICES Goal
  OBVIOUS
<1> USE RawEngineAssumption DEF EngineInv, TypeOK
<1>1. CASE UNCHANGED <<coming, sent>>
  BY <1>1
<1>2. ASSUME NEW p \in Packets, NEW k \in Nat, coming' = [coming EXCEPT ![p] = k],
             sent' = sent \/ (sent < MaxSent /\ sent' = sent + 1)
      PROVE  Goal
  BY <1>2
<1> HIDE DEF Goal
<1>3. ASSUME NEW p \in Controls, Transmit(p) PROVE Goal
  <2>1. PICK taps \in 1 .. MaxTaps : coming' = [coming EXCEPT ![p] = coming[p] + taps]
    BY <1>3 DEF Transmit
  <2>2. p \in Packets /\ coming[p] + taps \in Nat
    BY DEF Packets
  <2> QED BY <1>2, <1>3, <2>1, <2>2 DEF Transmit
<1>4. ASSUME NEW f \in Fakes, SendTo(f) PROVE Goal
  <2>1. PICK taps \in 0 .. MaxTaps : coming' = [coming EXCEPT ![f] = taps]
    BY <1>4 DEF SendTo
  <2>2. f \in Packets /\ taps \in Nat
    BY DEF Packets
  <2> QED BY <1>2, <1>4, <2>1, <2>2 DEF SendTo
<1>5. ASSUME NEW p \in Packets, ReadCount(p) \/ Filter(p) PROVE Goal
  <2>1. coming[p] - 1 \in Nat
    BY <1>5 DEF ReadCount, Filter
  <2> QED BY <1>2, <1>5, <2>1 DEF ReadCount, Filter
<1>6. ASSUME NEW f \in Fakes, Count(f) \/ CheckBound(f) \/ Clear(f)
      PROVE  UNCHANGED <<coming, sent>>
  BY <1>6 DEF Count, CheckBound, Clear
<1>7. ASSUME StoreCount \/ UNCHANGED vars PROVE UNCHANGED <<coming, sent>>
  BY <1>7 DEF StoreCount, vars
<1> HIDE DEF EngineInv, TypeOK
<1> QED BY <1>1, <1>3, <1>4, <1>5, <1>6, <1>7 DEF Next

LEMMA EngineNext == EngineInv /\ [Next]_vars => EngineInv'
<1> SUFFICES ASSUME EngineInv, [Next]_vars PROVE EngineInv'
  OBVIOUS
<1>1. TypeOK'
  BY WindowStep, CountStep, CopiesStep DEF TypeOK
<1> QED BY <1>1, WindowStep, CountStep DEF EngineInv

(***************************************************************************)
(* The bound on the counters                                               *)
(***************************************************************************)
\* Counters and threads are finitely many, and at most one entry is to come back.
LEMMA Finite ==
  ASSUME EngineInv
  PROVE  /\ IsFiniteSet(DOMAIN injected) /\ IsFiniteSet(Echoing) /\ IsFiniteSet(Looking)
         /\ IsFiniteSet(DOMAIN injected \cup Echoing)
         /\ Cardinality(DOMAIN injected) \in Nat /\ Cardinality(Looking) \in Nat
         /\ Cardinality(DOMAIN injected \cup Echoing) \in Nat
         /\ Cardinality(DOMAIN injected \cup Echoing) <= Cardinality(DOMAIN injected) + 1
         /\ Cardinality(Echoing) <= 1
<1>1. DOMAIN injected \subseteq Fakes /\ Echoing \subseteq Fakes /\ Looking \subseteq Fakes
  BY DEF EngineInv, TypeOK, Echoing, Looking
<1>2. /\ IsFiniteSet(DOMAIN injected) /\ IsFiniteSet(Echoing) /\ IsFiniteSet(Looking)
      /\ IsFiniteSet(DOMAIN injected \cup Echoing)
  BY <1>1, FS_Subset, RawEngineAssumption
<1>3. /\ Cardinality(DOMAIN injected) \in Nat /\ Cardinality(Looking) \in Nat
      /\ Cardinality(DOMAIN injected \cup Echoing) \in Nat
  BY <1>2, FS_CardinalityType
<1>4. CASE echo.of \in Fakes
  <2>1. Echoing = {echo.of}
    BY <1>4 DEF Echoing
  <2>2. Cardinality(Echoing) = 1
    BY <2>1, FS_Singleton
  <2>3. Cardinality(DOMAIN injected \cup {echo.of})
          \in {Cardinality(DOMAIN injected), Cardinality(DOMAIN injected) + 1}
    BY <1>2, FS_AddElement
  <2> QED BY <1>2, <1>3, <2>1, <2>2, <2>3
<1>5. CASE echo.of \notin Fakes
  <2>1. Echoing = {} /\ DOMAIN injected \cup Echoing = DOMAIN injected
    BY <1>5 DEF Echoing
  <2>2. Cardinality(Echoing) = 0
    BY <2>1, FS_EmptySet
  <2> QED BY <1>2, <1>3, <2>1, <2>2
<1> QED BY <1>4, <1>5

LEMMA BoundStep == EngineInv /\ BoundInv /\ [Next]_vars => BoundInv'
<1> SUFFICES ASSUME EngineInv, BoundInv, [Next]_vars PROVE BoundInv'
  OBVIOUS
<1> DEFINE Entries == DOMAIN injected \cup Echoing
<1>1. /\ IsFiniteSet(Entries) /\ IsFiniteSet(Looking) /\ InjectedBound \in Nat
      /\ Cardinality(Entries) \in Nat /\ Cardinality(Looking) \in Nat
      /\ Cardinality(Entries) <= InjectedBound + 1 + Cardinality(Looking)
  BY Finite, RawEngineAssumption DEF BoundInv
<1> HIDE DEF Entries
\* Fewer entries and no fewer threads.
<1>2. ASSUME Entries' \subseteq Entries, Looking' = Looking PROVE BoundInv'
  <2>1. Cardinality(Entries') \in Nat /\ Cardinality(Entries') <= Cardinality(Entries)
    BY <1>1, <1>2, FS_Subset, FS_CardinalityType
  <2>2. Cardinality(Entries') <= InjectedBound + 1 + Cardinality(Looking)
    BY <1>1, <2>1
  <2> QED BY <1>2, <2>2, Zenon DEF BoundInv, Entries
<1>3. CASE UNCHANGED <<injected, echo, sender>>
  BY <1>2, <1>3 DEF Entries, Echoing, Looking
<1>4. ASSUME NEW f \in Fakes, Count(f) PROVE BoundInv'
  <2>1. Entries' = Entries \cup {f}
    BY <1>4 DEF Count, Entries, Echoing
  <2>2. Looking' = Looking \cup {f} /\ f \notin Looking
    BY <1>4 DEF Count, Looking, EngineInv, TypeOK
  <2>3. Cardinality(Entries') \in {Cardinality(Entries), Cardinality(Entries) + 1}
    BY <1>1, <2>1, FS_AddElement
  <2>4. Cardinality(Looking') = Cardinality(Looking) + 1
    BY <1>1, <2>2, FS_AddElement
  <2>5. Cardinality(Entries') <= InjectedBound + 1 + Cardinality(Looking')
    BY <1>1, <2>3, <2>4
  <2> QED BY <2>5, Zenon DEF BoundInv, Entries
<1>5. ASSUME NEW f \in Fakes, CheckBound(f) PROVE BoundInv'
  <2>1. Entries' = Entries
    BY <1>5 DEF CheckBound, Entries, Echoing
  <2>2. CASE Cardinality(DOMAIN injected) > InjectedBound
    <3>1. Looking' = Looking
      BY <1>5, <2>2 DEF CheckBound, Looking, EngineInv, TypeOK
    <3> QED BY <1>2, <2>1, <3>1
  <2>3. CASE ~ (Cardinality(DOMAIN injected) > InjectedBound)
    <3>1. Looking' \subseteq Looking
      BY <1>5, <2>3 DEF CheckBound, Looking, EngineInv, TypeOK
    <3>2. Cardinality(Looking') \in Nat
      BY <1>1, <3>1, FS_Subset, FS_CardinalityType
    <3>3. Cardinality(Entries) <= InjectedBound + 1
      BY <1>1, <2>3, Finite DEF Entries
    <3>4. Cardinality(Entries') <= InjectedBound + 1 + Cardinality(Looking')
      BY <1>1, <2>1, <3>2, <3>3
    <3> QED BY <3>4, Zenon DEF BoundInv, Entries
  <2> QED BY <2>2, <2>3
<1>6. ASSUME NEW f \in Fakes, Clear(f) PROVE BoundInv'
  <2>1. Entries' = Echoing
    BY <1>6 DEF Clear, Entries, Echoing
  <2>2. Looking' \subseteq Looking
    BY <1>6 DEF Clear, Looking, EngineInv, TypeOK
  <2>3. Cardinality(Looking') \in Nat
    BY <1>1, <2>2, FS_Subset, FS_CardinalityType
  <2>4. Cardinality(Echoing) \in Nat /\ Cardinality(Echoing) <= 1
    BY Finite, FS_CardinalityType
  <2>5. Cardinality(Entries') <= InjectedBound + 1 + Cardinality(Looking')
    BY <1>1, <2>1, <2>3, <2>4
  <2> QED BY <2>5, Zenon DEF BoundInv, Entries
<1>7. ASSUME NEW f \in Fakes, SendTo(f) PROVE BoundInv'
  <2>1. Entries' = Entries /\ Looking' = Looking
    BY <1>7 DEF SendTo, Entries, Echoing, Looking, EngineInv, TypeOK
  <2> QED BY <1>2, <2>1
<1>8. ASSUME NEW p \in Packets, ReadCount(p) PROVE BoundInv'
  <2>1. Entries' \subseteq Entries /\ Looking' = Looking
    BY <1>8 DEF ReadCount, Entries, Echoing, Looking
  <2> QED BY <1>2, <2>1
<1>9. CASE StoreCount
  <2>1. Entries' \subseteq Entries
    <3>1. Echoing' = {}
      BY <1>9, RawEngineAssumption DEF StoreCount, Echoing
    <3>2. Echoing = {echo.of}
      BY <1>9 DEF StoreCount, Echoing, EngineInv, TypeOK
    <3>3. DOMAIN injected' \subseteq DOMAIN injected \cup {echo.of}
      BY <1>9 DEF StoreCount
    <3> QED BY <3>1, <3>2, <3>3 DEF Entries
  <2>2. Looking' = Looking
    BY <1>9 DEF StoreCount, Looking
  <2> QED BY <1>2, <2>1, <2>2
<1>10. ASSUME NEW p \in Packets, Filter(p) \/ Transmit(p) PROVE UNCHANGED <<injected, echo, sender>>
  BY <1>10 DEF Filter, Transmit
<1>11. ASSUME UNCHANGED vars PROVE UNCHANGED <<injected, echo, sender>>
  BY <1>11 DEF vars
<1> QED BY <1>3, <1>4, <1>5, <1>6, <1>7, <1>8, <1>9, <1>10, <1>11 DEF Next, Packets

(***************************************************************************)
(* The theorems                                                            *)
(***************************************************************************)
LEMMA EngineHolds == Spec => [](EngineInv /\ BoundInv)
<1>1. Init => EngineInv /\ BoundInv
  BY EngineInit
<1>2. EngineInv /\ BoundInv /\ [Next]_vars => (EngineInv /\ BoundInv)'
  BY EngineNext, BoundStep
<1> QED BY <1>1, <1>2, PTL DEF Spec

\* The engine's memories hold what their code expects in them.
THEOREM TypeCorrect == Spec => []TypeOK
<1>1. EngineInv => TypeOK
  BY DEF EngineInv
<1> QED BY <1>1, EngineHolds, PTL

\* No fake is ever handed to the state machine, however many devices echo it and
\* whatever is cleared (raw_socket_engine.py:264-288).
THEOREM FakeHidden == Spec => []FakeNeverJudged
<1>1. EngineInv => FakeNeverJudged
  BY DEF EngineInv, WindowInv
<1> QED BY <1>1, EngineHolds, PTL

\* The set and the list of the window agree (raw_socket_engine.py:305-314).
THEOREM WindowConsistent == Spec => []WindowOK
<1>1. EngineInv => WindowOK
  BY DEF EngineInv, WindowInv
<1> QED BY <1>1, EngineHolds, PTL

\* Between two deliveries of a packet lies more than half a window of others.
THEOREM CopiesAreDropped == Spec => []RepeatsFarApart
<1>1. EngineInv => RepeatsFarApart
  BY DEF EngineInv, WindowInv
<1> QED BY <1>1, EngineHolds, PTL

\* The dictionary of counters stays bounded although send() and recv() share it
\* without a lock.
THEOREM CountersBounded == Spec => []InjectedBounded
<1>1. ASSUME EngineInv, BoundInv PROVE InjectedBounded
  <2>1. Cardinality(DOMAIN injected) <= Cardinality(DOMAIN injected \cup Echoing)
    BY <1>1, Finite, FS_Subset
  <2> DEFINE a == Cardinality(DOMAIN injected)
             b == Cardinality(DOMAIN injected \cup Echoing)
             c == InjectedBound + 1 + Cardinality(Looking)
  <2>2. a \in Nat /\ b \in Nat /\ c \in Nat /\ a <= b /\ b <= c
    BY <1>1, <2>1, Finite, RawEngineAssumption DEF BoundInv
  <2> HIDE DEF a, b, c
  <2>3. a <= c
    BY <2>2
  <2> QED BY <2>3, Zenon DEF InjectedBounded, Looking, a, c
<1> QED BY <1>1, EngineHolds, PTL

\* A control packet that is held back was delivered within the last window.
THEOREM NothingElseIsHeldBack == Spec => HeldBackLately
<1> DEFINE Lately == \A p \in Controls :
              coming'[p] < coming[p] /\ log' = log
                => \E i \in 1 .. Len(log) : log[i] = p /\ Len(log) - i < DUP_WINDOW
<1>1. ASSUME EngineInv, [Next]_vars PROVE [Lately]_vars
  <2> SUFFICES ASSUME NEW p \in Controls, coming'[p] < coming[p], log' = log
               PROVE  \E i \in 1 .. Len(log) : log[i] = p /\ Len(log) - i < DUP_WINDOW
    OBVIOUS
  <2>1. p \in Packets /\ p \notin Fakes /\ coming \in [Packets -> Nat] /\ coming[p] \in Nat
    BY <1>1, RawEngineAssumption DEF Packets, EngineInv, TypeOK
  <2>2. coming' # coming
    BY <2>1
  <2>3. Filter(p)
    <3>1. ASSUME NEW q \in Controls, Transmit(q) PROVE FALSE
      <4>1. PICK taps \in 1 .. MaxTaps : coming' = [coming EXCEPT ![q] = coming[q] + taps]
        BY <3>1 DEF Transmit
      <4> QED BY <2>1, <4>1, RawEngineAssumption
    <3>2. ASSUME NEW f \in Fakes, SendTo(f) PROVE FALSE
      <4>1. PICK taps \in 0 .. MaxTaps : coming' = [coming EXCEPT ![f] = taps]
        BY <3>2 DEF SendTo
      <4> QED BY <2>1, <4>1
    <3>3. ASSUME NEW q \in Packets, ReadCount(q) PROVE FALSE
      <4>1. q \in Fakes
        BY <1>1, <3>3 DEF ReadCount, EngineInv, TypeOK
      <4> QED BY <2>1, <3>3, <4>1 DEF ReadCount
    <3>4. ASSUME NEW q \in Packets, Filter(q) PROVE Filter(p)
      <4>1. q = p
        BY <2>1, <3>4 DEF Filter
      <4> QED BY <3>4, <4>1
    <3>5. ASSUME NEW f \in Fakes, Count(f) \/ CheckBound(f) \/ Clear(f) PROVE FALSE
      BY <2>2, <3>5 DEF Count, CheckBound, Clear
    <3>6. ASSUME StoreCount \/ UNCHANGED vars PROVE FALSE
      BY <2>2, <3>6 DEF StoreCount, vars
    <3> QED BY <1>1, <3>1, <3>2, <3>3, <3>4, <3>5, <3>6 DEF Next
  <2>4. log \in Seq(Packets) /\ Len(log) \in Nat
    BY <1>1 DEF EngineInv, TypeOK
  <2>5. p \in seen
    <3> SUFFICES ASSUME p \notin seen PROVE FALSE
      OBVIOUS
    <3>1. log' = Append(log, p)
      BY <2>1, <2>3 DEF Filter, PayloadOnly
    <3>2. Len(log') = Len(log) + 1
      BY <2>4, <3>1
    <3> QED BY <2>4, <3>2
  <2>6. PICK k \in 1 .. Len(seen_order) : seen_order[k] = p
    BY <1>1, <2>5 DEF EngineInv, WindowInv, WindowOK
  <2> DEFINE n == Len(seen_order)
             L == Len(log)
  <2>7. n \in Nat /\ L \in Nat /\ n <= L /\ n <= DUP_WINDOW /\ DUP_WINDOW \in Nat
    BY <1>1, <2>4, RawEngineAssumption
       DEF EngineInv, TypeOK, WindowInv, WindowOK, TailInv
  <2>8. log[L - n + k] = p
    <3>1. \A i \in 1 .. n : seen_order[i] = log[L - n + i]
      BY <1>1 DEF EngineInv, WindowInv, TailInv
    <3> QED BY <2>6, <3>1
  <2> HIDE DEF n, L
  <2>9. L - n + k \in 1 .. L /\ L - (L - n + k) < DUP_WINDOW
    BY <2>6, <2>7 DEF n
  <2> QED BY <2>7, <2>8, <2>9 DEF L
<1>2. (EngineInv /\ BoundInv) /\ [Next]_vars => [Lately]_vars
  BY <1>1
<1> QED BY <1>2, EngineHolds, PTL DEF Spec, HeldBackLately
===============================================================================
