------------------------------- MODULE MCRelay --------------------------------
(* TLC instances of Relay. *)
EXTENDS Relay

ThreeNumbers == 1 .. 3
===============================================================================
