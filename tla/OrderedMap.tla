----------------------------- MODULE OrderedMap -----------------------------
(***************************************************************************)
(* What TaskExecutor<Task>::execute promises its callers: `out` is the     *)
(* result of a plain loop over `in`.  It may be filled in chunks of any    *)
(* size and at any time, but only with the outputs of the next consecutive *)
(* items, and it is complete when execute returns.                         *)
(***************************************************************************)
EXTENDS Integers, Sequences

CONSTANTS MaxIn,    \* a bound on the number of items
          LoopOut   \* LoopOut[k]: `out` after a loop over the first k items

VARIABLES total,    \* the number of items that are to be processed
          appended, \* the number of items whose outputs are in out
          out,
          returned

absVars == << total, appended, out, returned >>

Init ==
  /\ total \in 0..MaxIn
  /\ appended = 0
  /\ out = << >>
  /\ returned = FALSE

AppendChunk ==
  /\ ~returned
  /\ \E k \in (appended + 1)..total :
       /\ appended' = k
       /\ out' = LoopOut[k]
  /\ UNCHANGED << total, returned >>

Return ==
  /\ ~returned
  /\ appended = total
  /\ returned' = TRUE
  /\ UNCHANGED << total, appended, out >>

Next == AppendChunk \/ Return

Spec == Init /\ [][Next]_absVars

FairSpec == Spec /\ WF_absVars(Next)
=============================================================================
