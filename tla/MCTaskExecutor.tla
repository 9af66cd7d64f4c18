--------------------------- MODULE MCTaskExecutor ---------------------------
(***************************************************************************)
(* TaskExecutor on inputs of up to five items and up to three tasks.  The  *)
(* tasks yield no output, one or two for an item, so a lost, repeated or   *)
(* misplaced batch always shows in out.                                    *)
(***************************************************************************)
EXTENDS TaskExecutor

\* Item i yields i % 3 outputs, each tagged with the item it comes from.
MCOutput == [i \in 1..MaxIn |-> [j \in 1..(i % 3) |-> i]]

MCLoopOut[k \in 0..MaxIn] ==
  IF k = 0 THEN << >> ELSE MCLoopOut[k - 1] \o MCOutput[k]

MCResult == 1..MaxIn
=============================================================================
