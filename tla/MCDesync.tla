------------------------------- MODULE MCDesync -------------------------------
(* TLC instances of Desync. *)
EXTENDS Desync

CONSTANTS c1, c2

\* Eight sequence numbers.  Both ends start at the last one, so that every number
\* the state machine expects wraps around; or at the first, so that the fake lies
\* beyond the wrap.
WrapISNs == {SeqMod - 1}
ZeroISNs == {0}
===============================================================================
