----------------------------- MODULE CodecProofs ------------------------------
(***************************************************************************)
(* The sum of a packet's words, for which two folds suffice, and what      *)
(* parse() and to_bytes() do to the lengths.                               *)
(***************************************************************************)
EXTENDS Codec, SequenceTheorems, WellFoundedInduction, TLAPS

\* A fold takes a multiple of 65535 away.
LEMMA FoldIs ==
  ASSUME NEW t \in Nat
  PROVE  \E q, f \in Nat : /\ Fold(t) = f /\ f = t - q * 65535
                          /\ q * 65536 <= t /\ t < (q + 1) * 65536
<1>1. /\ t \div 65536 \in Nat /\ t % 65536 \in Nat /\ t % 65536 < 65536
      /\ t = (t \div 65536) * 65536 + (t % 65536)
  OBVIOUS
<1>2. Fold(t) \in Nat /\ Fold(t) = t - (t \div 65536) * 65535
  BY <1>1 DEF Fold
<1>3. (t \div 65536) * 65536 <= t /\ t < (t \div 65536 + 1) * 65536
  BY <1>1
<1> QED  BY <1>1, <1>2, <1>3

\* A packet has at most 65535 bytes, hence fewer than 65536 words: the first fold leaves
\* at most one carry, the second none.
LEMMA TwoFolds ==
  ASSUME NEW t \in Nat, t <= 65535 * 65535
  PROVE  \E k, f \in Nat : Fold(Fold(t)) = f /\ f = t - k * 65535 /\ f <= 65535
<1>1. PICK q, f \in Nat : /\ Fold(t) = f /\ f = t - q * 65535
                         /\ q * 65536 <= t /\ t < (q + 1) * 65536
  BY FoldIs
<1>2. q <= 65534
  BY <1>1
<1>3. f <= 131069
  BY <1>1, <1>2
<1>4. PICK r, g \in Nat : /\ Fold(f) = g /\ g = f - r * 65535
                         /\ r * 65536 <= f /\ f < (r + 1) * 65536
  BY FoldIs
<1>5. r = 0 \/ r = 1
  BY <1>3, <1>4
<1>6. g <= 65535
  BY <1>3, <1>4, <1>5
<1>7. g = t - (q + r) * 65535 /\ q + r \in Nat /\ Fold(Fold(t)) = g
  BY <1>1, <1>4
<1> QED  BY <1>6, <1>7

\* The receiver of a packet accepts the checksum _checksum() computes, whatever the sum
\* of its words (rawpacket.py:32-41).
THEOREM ChecksumVerifies ==
  ASSUME NEW total \in Nat, total <= 65535 * 65535
  PROVE  Verifies(total, _checksum(total)) /\ _checksum(total) \in Nat
<1>1. PICK k, f \in Nat : Fold(Fold(total)) = f /\ f = total - k * 65535 /\ f <= 65535
  BY TwoFolds
<1>2. PICK c \in Nat : _checksum(total) = c /\ total + c = k * 65535 + 65535
  <2>1. _checksum(total) = 65535 - f
    BY <1>1 DEF _checksum
  <2> QED  BY <1>1, <2>1
<1>3. (k * 65535 + 65534) % 65535 = 65534
  OBVIOUS
<1>4. total + c # 0 /\ total + c - 1 = k * 65535 + 65534
  BY <1>2
<1>5. OnesComplement(total + c) = 65535
  BY <1>3, <1>4 DEF OnesComplement
<1> QED  BY <1>2, <1>5 DEF Verifies

-------------------------------------------------------------------------------
(* Sums of words *)

\* Induction over a set of numbers.
LEMMA Induction ==
  ASSUME NEW T, T \subseteq Nat, 0 \in T, \A n \in T : n + 1 \in T
  PROVE  T = Nat
<1> SUFFICES ASSUME Nat \ T # {} PROVE FALSE
  OBVIOUS
<1>1. PICK n \in Nat \ T : \A k \in Nat \ T : <<k, n>> \notin OpToRel(<, Nat)
  BY NatLessThanWellFounded, WFMin, Zenon
<1>2. \A k \in Nat \ T : ~(k < n)
  BY <1>1, Zenon DEF OpToRel
<1>3. n \in Nat /\ n \notin T /\ n # 0
  BY <1>1
<1>4. PICK m \in Nat : n = m + 1 /\ m < n
  <2>1. n - 1 \in Nat /\ n = (n - 1) + 1 /\ n - 1 < n
    BY <1>3
  <2> QED  BY <2>1
<1>5. m \in T
  BY <1>2, <1>4
<1>6. m + 1 \in T
  BY <1>5
<1> QED  BY <1>3, <1>4, <1>6

Bytes == 0 .. 255

\* What the sum of a piece is made of.
Piecewise(data, f, p) ==
  IF p[2] = 0 THEN 0 ELSE IF p[2] = 1 THEN Word(data, p[1] + 1)
  ELSE f[<<p[1], p[2] \div 2>>] + f[<<p[1] + p[2] \div 2, p[2] - p[2] \div 2>>]

Pieces(data) == Nat \X (0 .. Words(data))
Totals(data, f) == f = [p \in Pieces(data) |-> Piecewise(data, f, p)]

LEMMA Halves ==
  ASSUME NEW n \in Nat, n # 0, n # 1
  PROVE  /\ n \div 2 \in Nat /\ n \div 2 < n
         /\ n - n \div 2 \in Nat /\ n - n \div 2 < n
         /\ n \div 2 + (n - n \div 2) = n
OBVIOUS

LEMMA WordIs ==
  ASSUME NEW data \in Seq(Bytes)
  PROVE  /\ Words(data) \in Nat /\ 2 * Words(data) <= Len(data) + 1
         /\ \A i \in 1 .. Words(data) : Word(data, i) \in Nat /\ Word(data, i) <= 65535
<1>1. Len(data) \in Nat /\ \A i \in 1 .. Len(data) : data[i] \in Bytes
  BY LenProperties, ElementOfSeq
<1>2. Words(data) \in Nat /\ 2 * Words(data) <= Len(data) + 1
  BY <1>1 DEF Words
<1>3. ASSUME NEW i \in 1 .. Words(data)
      PROVE  Word(data, i) \in Nat /\ Word(data, i) <= 65535
  <2>1. 2 * i - 1 \in 1 .. Len(data) /\ 2 * i \in Nat \ {0}
    BY <1>1, <1>2
  <2> DEFINE a == data[2 * i - 1]
             b == IF 2 * i <= Len(data) THEN data[2 * i] ELSE 0
  <2>2. \A x \in Bytes \cup {0} : x \in Nat /\ x <= 255
    BY DEF Bytes
  <2>3. a \in Bytes /\ b \in Bytes \cup {0}
    BY <1>1, <2>1
  <2>4. Word(data, i) = 256 * a + b
    BY DEF Word
  <2> HIDE DEF a, b
  <2> QED  BY <2>2, <2>3, <2>4
<1> QED  BY <1>2, <1>3

\* A piece is made of two shorter ones.
LEMMA Shorter ==
  ASSUME NEW data \in Seq(Bytes), NEW p \in Pieces(data), p[2] # 0, p[2] # 1
  PROVE  LET left  == <<p[1], p[2] \div 2>>
             right == <<p[1] + p[2] \div 2, p[2] - p[2] \div 2>>
         IN /\ left \in Pieces(data) /\ right \in Pieces(data)
            /\ left[2] < p[2] /\ right[2] < p[2] /\ left[2] + right[2] = p[2]
            /\ left[1] + left[2] <= p[1] + p[2] /\ right[1] + right[2] = p[1] + p[2]
<1> DEFINE k == p[1]
           n == p[2]
           h == n \div 2
           r == n - h
<1>1. Words(data) \in Nat
  BY WordIs
<1>2. k \in Nat /\ n \in Nat /\ n <= Words(data)
  BY <1>1 DEF Pieces
<1>3. h \in Nat /\ h < n /\ r \in Nat /\ r < n /\ h + r = n
  BY <1>2, Halves
<1> HIDE DEF k, n, h, r
<1>4. <<k, h>> \in Pieces(data) /\ <<k + h, r>> \in Pieces(data)
  BY <1>1, <1>2, <1>3 DEF Pieces
<1>5. k + h <= k + n /\ (k + h) + r = k + n
  BY <1>2, <1>3
<1> QED  BY <1>3, <1>4, <1>5 DEF k, n, h, r

\* The sum of a piece can be followed down to its words.
LEMMA TotalsExist ==
  ASSUME NEW data \in Seq(Bytes)
  PROVE  \E f : Totals(data, f)
<1> DEFINE N == Words(data)
           D == Pieces(data)
           Upto(f, n) == \A p \in D : p[2] < n => f[p] = Piecewise(data, f, p)
           T == {n \in Nat : \E f : f = [p \in D |-> f[p]] /\ Upto(f, n)}
<1>1. N \in Nat /\ \A p \in D : p[2] \in Nat /\ p[2] <= N
  BY WordIs DEF Pieces
<1>2. 0 \in T
  <2> DEFINE f == [p \in D |-> 0]
  <2>1. f = [p \in D |-> f[p]] /\ Upto(f, 0)
    BY <1>1
  <2> QED  BY <2>1
<1>3. ASSUME NEW n \in T PROVE n + 1 \in T
  <2>1. PICK f : Upto(f, n)
    BY <1>3
  <2> DEFINE g == [p \in D |-> Piecewise(data, f, p)]
  <2>2. g = [p \in D |-> g[p]] /\ \A p \in D : g[p] = Piecewise(data, f, p)
    OBVIOUS
  <2>3. n \in Nat
    BY <1>3
  <2> HIDE DEF g, D
  <2>4. \A p \in D : p[2] < n => g[p] = f[p]
    BY <2>1, <2>2
  <2>5. ASSUME NEW p \in D, p[2] < n + 1 PROVE g[p] = Piecewise(data, g, p)
    <3>1. CASE p[2] = 0 \/ p[2] = 1
      BY <2>2, <3>1 DEF Piecewise
    <3>2. CASE p[2] # 0 /\ p[2] # 1
      <4> DEFINE left  == <<p[1], p[2] \div 2>>
                 right == <<p[1] + p[2] \div 2, p[2] - p[2] \div 2>>
      <4>1. left \in D /\ right \in D /\ left[2] < p[2] /\ right[2] < p[2]
        BY <3>2, Shorter DEF D
      <4>2. Piecewise(data, g, p) = g[left] + g[right] /\ Piecewise(data, f, p) = f[left] + f[right]
        BY <3>2 DEF Piecewise
      <4> HIDE DEF left, right
      <4>3. left[2] < n /\ right[2] < n
        BY <1>1, <2>3, <2>5, <4>1
      <4> QED  BY <2>2, <2>4, <4>1, <4>2, <4>3
    <3> QED  BY <3>1, <3>2
  <2>6. Upto(g, n + 1) /\ n + 1 \in Nat
    BY <2>3, <2>5
  <2> QED  BY <2>2, <2>6
<1>4. N + 1 \in T
  <2> HIDE DEF T
  <2>1. T \subseteq Nat
    BY DEF T
  <2>2. T = Nat
    BY <1>2, <1>3, <2>1, Induction
  <2> QED  BY <1>1, <2>2
<1>5. PICK f : f = [p \in D |-> f[p]] /\ Upto(f, N + 1)
  BY <1>4
<1>6. \A p \in D : f[p] = Piecewise(data, f, p)
  BY <1>1, <1>5
<1>7. f = [p \in D |-> Piecewise(data, f, p)]
  BY <1>5, <1>6
<1> QED  BY <1>7 DEF Totals

LEMMA SequenceOf ==
  ASSUME NEW S, NEW n \in Nat, NEW f \in [1 .. n -> S]
  PROVE  f \in Seq(S) /\ Len(f) = n
<1>1. f \in Seq(S)
  BY SeqDef
<1>2. Len(f) \in Nat /\ DOMAIN f = 1 .. Len(f) /\ DOMAIN f = 1 .. n
  BY <1>1, LenProperties
<1> QED  BY <1>1, <1>2

\* A packet's bytes add up to at most 65535 for every two of them.
LEMMA WordSumBound ==
  ASSUME NEW data \in Seq(Bytes)
  PROVE  WordSum(data) \in Nat /\ WordSum(data) <= 65535 * Words(data)
<1> DEFINE f == CHOOSE g : Totals(data, g)
           N == Words(data)
           D == Pieces(data)
           Small(p) == f[p] \in Nat /\ f[p] <= 65535 * p[2]
           T == {n \in Nat : \A p \in D : p[2] < n /\ p[1] + p[2] <= N => Small(p)}
<1>1. Totals(data, f)
  BY TotalsExist
<1>2. WordSum(data) = f[<<0, N>>]
  BY Zenon DEF WordSum, Totals, Piecewise, Pieces
<1> HIDE DEF f
<1>3. \A p \in D : f[p] = Piecewise(data, f, p)
  BY <1>1 DEF Totals
<1>4. N \in Nat /\ \A i \in 1 .. N : Word(data, i) \in Nat /\ Word(data, i) <= 65535
  BY WordIs
<1>5. \A p \in D : p[1] \in Nat /\ p[2] \in Nat /\ p[2] <= N
  BY <1>4 DEF Pieces
<1> HIDE DEF N
<1>6. 0 \in T
  BY <1>5
<1>7. ASSUME NEW n \in T PROVE n + 1 \in T
  <2>1. n \in Nat /\ n + 1 \in Nat
    BY <1>7
  <2>2. ASSUME NEW p \in D, p[2] < n + 1, p[1] + p[2] <= N PROVE Small(p)
    <3> HIDE DEF D
    <3>0. f[p] = Piecewise(data, f, p)
      BY <1>3, <2>2
    <3>1. CASE p[2] = 0
      <4>1. f[p] = 0
        BY <3>0, <3>1 DEF Piecewise
      <4> QED  BY <3>1, <4>1
    <3>2. CASE p[2] = 1
      <4>1. f[p] = Word(data, p[1] + 1)
        BY <3>0, <3>2 DEF Piecewise
      <4>2. p[1] + 1 \in 1 .. N
        BY <1>4, <1>5, <2>2, <3>2
      <4> QED  BY <1>4, <3>2, <4>1, <4>2
    <3>3. CASE p[2] # 0 /\ p[2] # 1
      <4> DEFINE left  == <<p[1], p[2] \div 2>>
                 right == <<p[1] + p[2] \div 2, p[2] - p[2] \div 2>>
      <4>1. /\ left \in D /\ right \in D /\ left[2] < p[2] /\ right[2] < p[2]
            /\ left[2] + right[2] = p[2]
            /\ left[1] + left[2] <= p[1] + p[2] /\ right[1] + right[2] = p[1] + p[2]
        BY <2>2, <3>3, Shorter DEF D
      <4>2. f[p] = f[left] + f[right]
        BY <3>0, <3>3 DEF Piecewise
      <4> HIDE DEF left, right
      <4>3. /\ left[2] < n /\ right[2] < n /\ left[1] + left[2] <= N /\ right[1] + right[2] <= N
            /\ left[2] \in Nat /\ right[2] \in Nat
        <5>1. /\ left[1] \in Nat /\ left[2] \in Nat /\ right[1] \in Nat /\ right[2] \in Nat
              /\ p[1] \in Nat /\ p[2] \in Nat
          BY <1>5, <2>2, <4>1
        <5>2. left[2] < n /\ right[2] < n
          BY <2>1, <2>2, <4>1, <5>1
        <5>3. left[1] + left[2] <= N /\ right[1] + right[2] <= N
          <6>1. N \in Nat
            BY <1>4
          <6> QED  BY <2>2, <4>1, <5>1, <6>1, SMTT(30)
        <5> QED  BY <5>1, <5>2, <5>3
      <4>4. Small(left) /\ Small(right)
        BY <1>7, <4>1, <4>3
      <4> QED  BY <4>1, <4>2, <4>3, <4>4, SMTT(30)
    <3> QED  BY <3>1, <3>2, <3>3
  <2> QED  BY <2>1, <2>2
<1>8. N + 1 \in T
  <2> HIDE DEF T
  <2>1. T \subseteq Nat
    BY DEF T
  <2>2. T = Nat
    BY <1>6, <1>7, <2>1, Induction
  <2> QED  BY <1>4, <2>2
<1>9. <<0, N>> \in D /\ <<0, N>>[1] = 0 /\ <<0, N>>[2] = N
  BY <1>4 DEF Pieces, N
<1>10. Small(<<0, N>>)
  BY <1>4, <1>8, <1>9
<1> QED  BY <1>2, <1>9, <1>10 DEF N

-------------------------------------------------------------------------------
(* Lengths *)

\* Where every frame that was captured whole ends.
LEMMA EndIs ==
  ASSUME NEW s \in Lengths, s.total_len <= s.cap
  PROVE  /\ DatagramEnd(s) = IF s.total_len = 0 THEN s.cap ELSE s.total_len
         /\ DatagramEnd(s) \in Nat /\ DatagramEnd(s) <= s.cap
  BY DEF Lengths, DatagramEnd

\* A packet with a new payload is built and read again without loss, if its header
\* lengths are counted in words.
LEMMA RoundTrip ==
  ASSUME NEW i \in Nat, NEW o \in Nat, NEW n \in Nat, i % 4 = 0, o % 4 = 0,
         NEW p, p = [ip_options |-> i, tcp_options |-> o, payload |-> n]
  PROVE  /\ to_bytes(p) \in Lengths /\ to_bytes(p).total_len = to_bytes(p).cap
         /\ Parses(TCP, to_bytes(p)) /\ parse(to_bytes(p)) = p
<1>1. 4 * ((20 + i) \div 4) = 20 + i /\ 4 * ((20 + o) \div 4) = 20 + o
  OBVIOUS
<1> DEFINE s == [version |-> 4, cap |-> 40 + i + o + n, ihl |-> 20 + i,
                 total_len |-> 40 + i + o + n, data_off |-> 20 + o]
<1>2. to_bytes(p) = s
  BY <1>1 DEF to_bytes
<1>3. s \in Lengths /\ DatagramEnd(s) = 40 + i + o + n
  BY DEF Lengths, DatagramEnd
<1>4. Parses(TCP, s)
  BY <1>3 DEF Parses
<1>5. parse(s) = p
  BY <1>3 DEF parse
<1> HIDE DEF s
<1>6. s.total_len = s.cap
  BY DEF s
<1> QED  BY <1>2, <1>3, <1>4, <1>5, <1>6

\* The ClientHello has one length, for every name that fits.
LEMMA HelloLength ==
  ASSUME NEW n \in Nat, n <= MaxName
  PROVE  get_client_hello_with(n) = 517
  BY DEF get_client_hello_with, MaxName
===============================================================================
