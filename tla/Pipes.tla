-------------------------------- MODULE Pipes ---------------------------------
(***************************************************************************)
(* What the relay promises of each client: two pipes, one per direction,   *)
(* that deliver what was written into them in order, without a gap and     *)
(* without a repetition, until both break at once.  What is still in a     *)
(* pipe when it breaks is lost.                                            *)
(***************************************************************************)
EXTENDS Naturals, Sequences

CONSTANTS
  Ends,    \* the ends of the pipes
  Peer     \* the end at the other side of each

VARIABLES
  written,     \* what the peer at each end has written
  delivered,   \* what was passed on to the peer at each end
  broken       \* the ends that pass on nothing any more

Init ==
  /\ written = [s \in Ends |-> <<>>]
  /\ delivered = [s \in Ends |-> <<>>]
  /\ broken \subseteq Ends

Write(s) ==
  /\ written' = [written EXCEPT ![s] = Append(@, Len(@) + 1)]
  /\ UNCHANGED <<delivered, broken>>

\* A further piece of what was written at the other end.
Deliver(s) ==
  /\ s \notin broken
  /\ \E n \in Len(delivered[s]) + 1 .. Len(written[Peer[s]]) :
       delivered' = [delivered EXCEPT ![s] = SubSeq(written[Peer[s]], 1, n)]
  /\ UNCHANGED <<written, broken>>

Open(s) == broken' = broken \ {s} /\ delivered[s] = <<>> /\ UNCHANGED <<written, delivered>>

Break(s) == broken' = broken \cup {s, Peer[s]} /\ UNCHANGED <<written, delivered>>

Next == \E s \in Ends : Write(s) \/ Deliver(s) \/ Open(s) \/ Break(s)

Spec == Init /\ [][Next]_<<written, delivered, broken>>
===============================================================================
