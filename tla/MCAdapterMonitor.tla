--------------------------- MODULE MCAdapterMonitor ---------------------------
(* The adapter monitor on a small machine: two addresses, a few threads.    *)
EXTENDS AdapterMonitor

MCThreads == 1 .. 5
===============================================================================
