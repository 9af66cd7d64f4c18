--------------------------- MODULE MCTimerSandbox ---------------------------
(***************************************************************************)
(* Two threads that run a test each, at the same time.                     *)
(***************************************************************************)
EXTENDS TimerSandbox, TLC

CONSTANTS t1, t2

Symmetry == Permutations(Thread)
=============================================================================
