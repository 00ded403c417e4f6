----------------------------- MODULE MCRawEngine -----------------------------
(* Control packets and fakes are interchangeable among themselves.           *)
EXTENDS RawEngine, TLC

Interchangeable == Permutations(Controls) \cup Permutations(Fakes)
===============================================================================
