------------------------------- MODULE MCUpdater -------------------------------
(* Two updaters, or two pages, are interchangeable.                          *)
EXTENDS Updater, TLC

Interchangeable == Permutations(Updaters) \cup Permutations(Pages)
================================================================================
