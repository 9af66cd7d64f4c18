----------------------------- MODULE MCMutantRun -----------------------------
(***************************************************************************)
(* Two functions with mutants (f with three, two of them with the same     *)
(* identifier, g with one) and one without; f is reached by two tests, g   *)
(* by one of them.                                                         *)
(***************************************************************************)
EXTENDS MutantRun, TLC

CONSTANTS f, g, h, p1, p2, p3, p4, t1, t2

MCFn == {f, g, h}
MCTest == {t1, t2}
MCPoints == << p1, p3, p2, p4 >>
MCFnOf == (p1 :> f) @@ (p2 :> f) @@ (p3 :> g) @@ (p4 :> f)
MCId == (p1 :> "i1") @@ (p2 :> "i1") @@ (p3 :> "i3") @@ (p4 :> "i4")
\* None (which means IDE), and a list with two that write the same database.
MCReporters == {<< >>, << "Elements", "SQLite", "SQLite" >>}
MCReach == (f :> << t1, t2 >>) @@ (g :> << t2 >>) @@ (h :> << t1 >>)
=============================================================================
