------------------------------ MODULE RawEngine ------------------------------
(***************************************************************************)
(* What RawSocketEngine hides from the state machine.  A WinDivert capture *)
(* shows a packet once and an injected packet never; an AF_PACKET socket   *)
(* shows each of them once per network device it passes.  recv() absorbs   *)
(* the surplus with two memories: `injected' counts the echoes of injected *)
(* packets, a window remembers the packets already delivered.  recv() runs *)
(* in the injector thread while send() runs in the executor threads, with  *)
(* no lock between them.                                                   *)
(*                                                                         *)
(* A packet stands for its direction and signature (_sig): all copies and  *)
(* all retransmissions of a packet are the same value.                     *)
(***************************************************************************)
EXTENDS Naturals, Sequences, FiniteSets

CONSTANTS
  Controls,        \* SYN, ACK, FIN and RST of the flow, both directions
  Fakes,           \* injected ClientHellos, one per connection
  DUP_WINDOW,      \* _DUP_WINDOW, 512
  EchoesPerSend,   \* 4
  InjectedBound,   \* 1024
  MaxTaps,         \* bound: devices a packet passes on its way
  MaxSent,         \* bound: transmissions of control packets
  NoFake           \* the injector thread is not between get and store

ASSUME RawEngineAssumption ==
  /\ DUP_WINDOW \in Nat /\ DUP_WINDOW >= 2
  /\ EchoesPerSend \in Nat \ {0} /\ InjectedBound \in Nat
  /\ MaxTaps \in Nat /\ MaxSent \in Nat
  /\ Controls \cap Fakes = {} /\ NoFake \notin Fakes
  /\ IsFiniteSet(Fakes)

Packets == Controls \cup Fakes

VARIABLES
  injected,    \* _injected: counts, for some fakes
  seen,        \* _seen
  seen_order,  \* _seen_order
  echo,        \* recv() between get and store: the fake and the count read
  sender,      \* where send() of a fake stands
  coming,      \* copies the capture has yet to return
  sent,        \* transmissions of control packets so far
  log          \* history: what recv() returned to the injector

vars == <<injected, seen, seen_order, echo, sender, coming, sent, log>>

Init ==
  /\ injected = [f \in {} |-> 0]
  /\ seen = {} /\ seen_order = <<>>
  /\ echo = [of |-> NoFake, n |-> 0]
  /\ sender = [f \in Fakes |-> "idle"]
  /\ coming = [p \in Packets |-> 0]
  /\ sent = 0
  /\ log = <<>>

(***************************************************************************)
(* The network stack                                                       *)
(***************************************************************************)
\* The kernel sends or receives a control packet, for the first time or again.
Transmit(p) ==
  /\ sent < MaxSent
  /\ sent' = sent + 1
  /\ \E taps \in 1 .. MaxTaps : coming' = [coming EXCEPT ![p] = @ + taps]
  /\ UNCHANGED <<injected, seen, seen_order, echo, sender, log>>

(***************************************************************************)
(* send(), in an executor thread                                           *)
(***************************************************************************)
Count(f) ==
  /\ sender[f] = "idle"
  /\ sender' = [sender EXCEPT ![f] = "counted"]
  /\ injected' = [g \in DOMAIN injected \cup {f} |->
                    (IF g \in DOMAIN injected THEN injected[g] ELSE 0)
                      + (IF g = f THEN EchoesPerSend ELSE 0)]
  /\ UNCHANGED <<seen, seen_order, echo, coming, sent, log>>

\* (A plausible bug: the bound is never enforced.)
NoCheck(f) ==
  /\ sender[f] = "counted"
  /\ sender' = [sender EXCEPT ![f] = "sending"]
  /\ UNCHANGED <<injected, seen, seen_order, echo, coming, sent, log>>

CheckBound(f) ==
  /\ sender[f] = "counted"
  /\ sender' = [sender EXCEPT ![f] = IF Cardinality(DOMAIN injected) > InjectedBound
                                     THEN "clearing" ELSE "sending"]
  /\ UNCHANGED <<injected, seen, seen_order, echo, coming, sent, log>>

Clear(f) ==
  /\ sender[f] = "clearing"
  /\ sender' = [sender EXCEPT ![f] = "sending"]
  /\ injected' = [g \in {} |-> 0]
  /\ UNCHANGED <<seen, seen_order, echo, coming, sent, log>>

\* A sendto() that raises leaves the count and sends nothing.
SendTo(f) ==
  /\ sender[f] = "sending"
  /\ sender' = [sender EXCEPT ![f] = "done"]
  /\ \E taps \in 0 .. MaxTaps : coming' = [coming EXCEPT ![f] = taps]
  /\ UNCHANGED <<injected, seen, seen_order, echo, sent, log>>

(***************************************************************************)
(* recv(), in the injector thread                                          *)
(***************************************************************************)
\* The count of the packet is read ...
ReadCount(p) ==
  /\ echo.of = NoFake /\ coming[p] > 0
  /\ p \in DOMAIN injected
  /\ coming' = [coming EXCEPT ![p] = @ - 1]
  /\ echo' = [of |-> p, n |-> injected[p]]
  /\ UNCHANGED <<injected, seen, seen_order, sender, sent, log>>

\* ... and stored one lower, whatever send() did in between.
\* (A plausible bug: a count that is used up stays in the dictionary.)
KeepCount ==
  /\ echo.of # NoFake
  /\ injected' = [g \in DOMAIN injected \cup {echo.of} |->
                    IF g = echo.of THEN echo.n - 1 ELSE injected[g]]
  /\ echo' = [of |-> NoFake, n |-> 0]
  /\ UNCHANGED <<seen, seen_order, sender, coming, sent, log>>

StoreCount ==
  /\ echo.of # NoFake
  /\ injected' = IF echo.n <= 1
                 THEN [g \in DOMAIN injected \ {echo.of} |-> injected[g]]
                 ELSE [g \in DOMAIN injected \cup {echo.of} |->
                         IF g = echo.of THEN echo.n - 1 ELSE injected[g]]
  /\ echo' = [of |-> NoFake, n |-> 0]
  /\ UNCHANGED <<seen, seen_order, sender, coming, sent, log>>

\* Only a fake carries a payload without SYN, RST or FIN.
\* (A plausible bug: the clause is left out, the echo counter being thought enough.)
NoPayloadOnly(p) == FALSE

PayloadOnly(p) == p \in Fakes

\* _remember: past the bound the oldest half goes, from the list and from the set.
\* (Plausible bugs: the list is cut one short; the set is never cut, or emptied.)
TrimmedShort(order) ==
  IF Len(order) > DUP_WINDOW
  THEN SubSeq(order, DUP_WINDOW \div 2, Len(order)) ELSE order
ForgottenNever(order) == {}
ForgottenAll(order) ==
  IF Len(order) > DUP_WINDOW THEN {order[i] : i \in 1 .. Len(order)} ELSE {}

Trimmed(order) ==
  IF Len(order) > DUP_WINDOW
  THEN SubSeq(order, DUP_WINDOW \div 2 + 1, Len(order)) ELSE order

Forgotten(order) ==
  IF Len(order) > DUP_WINDOW
  THEN {order[i] : i \in 1 .. DUP_WINDOW \div 2} ELSE {}

Remember(p) ==
  LET order == Append(seen_order, p)
  IN  /\ seen_order' = Trimmed(order)
      /\ seen' = (seen \cup {p}) \ Forgotten(order)

Filter(p) ==
  /\ echo.of = NoFake /\ coming[p] > 0
  /\ p \notin DOMAIN injected
  /\ coming' = [coming EXCEPT ![p] = @ - 1]
  /\ IF PayloadOnly(p) \/ p \in seen
     THEN UNCHANGED <<seen, seen_order, log>>
     ELSE /\ Remember(p)
          /\ log' = Append(log, p)
  /\ UNCHANGED <<injected, echo, sender, sent>>

Next ==
  \/ \E p \in Controls : Transmit(p)
  \/ \E f \in Fakes : Count(f) \/ CheckBound(f) \/ Clear(f) \/ SendTo(f)
  \/ \E p \in Packets : ReadCount(p) \/ Filter(p)
  \/ StoreCount

Spec == Init /\ [][Next]_vars

(***************************************************************************)
(* Properties                                                              *)
(***************************************************************************)
TypeOK ==
  /\ DOMAIN injected \subseteq Fakes
  /\ \A f \in DOMAIN injected : injected[f] \in 1 .. EchoesPerSend
  /\ seen \subseteq Packets
  /\ seen_order \in Seq(Packets)
  /\ echo \in [of : Fakes \cup {NoFake}, n : 0 .. EchoesPerSend]
  /\ sender \in [Fakes -> {"idle", "counted", "clearing", "sending", "done"}]
  /\ coming \in [Packets -> Nat]
  /\ sent \in 0 .. MaxSent
  /\ log \in Seq(Packets)

\* "Every echo must be absorbed" (raw_socket_engine.py:56): however many devices
\* echo a fake, and whatever the bound on the counters wipes, the state machine, for
\* which it would be an unexpected packet, never sees it.
FakeNeverJudged == \A i \in 1 .. Len(log) : log[i] \in Controls

\* The set and the list of the window never drift apart (raw_socket_engine.py:305-314):
\* a key only in the set would be suppressed for ever, one only in the list would be
\* delivered twice at once.
WindowOK ==
  /\ Len(seen_order) <= DUP_WINDOW
  /\ seen = {seen_order[i] : i \in 1 .. Len(seen_order)}
  /\ \A i, j \in 1 .. Len(seen_order) : seen_order[i] = seen_order[j] => i = j

\* "The window only has to span the microseconds between two taps"
\* (raw_socket_engine.py:310): a copy is delivered again only when more than half a
\* window of other packets went to the state machine in between.
Gap == DUP_WINDOW + 1 - DUP_WINDOW \div 2

RepeatsFarApart ==
  \A i, j \in 1 .. Len(log) : i < j /\ log[i] = log[j] => j - i > Gap

\* A control packet is held back only as the copy of one delivered lately; no first
\* packet is lost, and no retransmission for longer than a window lasts.
HeldBackLately ==
  [][\A p \in Controls :
       coming'[p] < coming[p] /\ log' = log
         => \E i \in 1 .. Len(log) : log[i] = p /\ Len(log) - i < DUP_WINDOW]_vars

\* The counters stay within their bound, but for the threads between their increment
\* and their look at the bound, and for one entry that recv() puts back after a clear
\* (raw_socket_engine.py:277, 335-337).
InjectedBounded ==
  Cardinality(DOMAIN injected)
    <= InjectedBound + 1 + Cardinality({f \in Fakes : sender[f] \in {"counted", "clearing"}})
===============================================================================
