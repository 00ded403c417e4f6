------------------------------- MODULE RelayGate -------------------------------
(***************************************************************************)
(* What the desync promises of a client, whatever threads and packets      *)
(* bring it about: the gate for the client's own bytes opens only after    *)
(* the one attempt to send the fake ClientHello, and a refused client      *)
(* stays refused.  (An attempt that had begun when the client was refused  *)
(* may still end.)                                                         *)
(***************************************************************************)
EXTENDS Naturals

CONSTANT Conns

VARIABLES
  phase,      \* of each client: new, gated, open (relayed) or refused
  attempts    \* how often the fake was sent for it

vars == <<phase, attempts>>

Init ==
  /\ phase = [c \in Conns |-> "new"]
  /\ attempts = [c \in Conns |-> 0]

Move(c, from, to) == phase[c] = from /\ phase' = [phase EXCEPT ![c] = to]

Accept(c) == Move(c, "new", "gated") /\ UNCHANGED attempts

Attempt(c) ==
  /\ phase[c] \in {"gated", "refused"} /\ attempts[c] = 0
  /\ attempts' = [attempts EXCEPT ![c] = 1]
  /\ UNCHANGED phase

Open(c) == attempts[c] = 1 /\ Move(c, "gated", "open") /\ UNCHANGED attempts

Refuse(c) == Move(c, "gated", "refused") /\ UNCHANGED attempts

Next == \E c \in Conns : Accept(c) \/ Attempt(c) \/ Open(c) \/ Refuse(c)

Spec == Init /\ [][Next]_vars
===============================================================================
