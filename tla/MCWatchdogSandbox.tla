------------------------- MODULE MCWatchdogSandbox -------------------------
(***************************************************************************)
(* One thread, and two threads that run a test each at the same time.      *)
(***************************************************************************)
EXTENDS WatchdogSandbox, TLC

CONSTANTS t1, t2

Symmetry == Permutations(Thread)
=============================================================================
