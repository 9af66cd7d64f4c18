------------------------------ MODULE MCDriver ------------------------------
(***************************************************************************)
(* Two modules with declarations in both, four defined functions (one of   *)
(* them without debug information, one on an excluded path), instructions  *)
(* with every kind of location, one of them with two mutations by one      *)
(* mutator, a unit that cannot be parsed, and two tests that reach         *)
(* functions in different orders.                                          *)
(***************************************************************************)
EXTENDS Driver

MCModules == << "A", "B" >>
MCFunctionList == [A |-> << "d1", "f", "g" >>, B |-> << "h", "d2", "t", "n" >>]
MCDeclaration == {"d1", "d2"}
MCInstructions ==
  [d1 |-> << >>, d2 |-> << >>, t |-> << >>, f |-> << "f1", "f2", "f3" >>,
   g |-> << "g1" >>, h |-> << "h1", "h2" >>, n |-> << "n1" >>]

At(path, line, column, unit) ==
  [path |-> path, line |-> line, column |-> column, unit |-> unit]
Nowhere == At("", 0, 0, "")
MCLocation ==
  [d1 |-> Nowhere, d2 |-> Nowhere, n |-> Nowhere, f |-> At("src", 1, 0, "a"),
   g |-> At("lib", 1, 0, "a"), h |-> At("src", 9, 0, "b"), t |-> At("test", 1, 0, "b"),
   f1 |-> At("src", 2, 1, "a"), f2 |-> Nowhere, f3 |-> At("inl", 4, 0, "a"),
   g1 |-> At("lib", 2, 1, "a"), h1 |-> At("src", 10, 1, "b"),
   h2 |-> At("inl", 11, 1, "b"), n1 |-> At("src", 20, 1, "b")]

MCMutators == << "add", "scalar" >>
MCLowLevel == [add |-> << "add" >>, scalar |-> << "int 0", "int 1" >>]
MCCanMutate ==
  {<< "add", "f1", "add" >>, << "scalar", "f1", "int 0" >>, << "scalar", "f1", "int 1" >>,
   << "add", "f2", "add" >>, << "add", "f3", "add" >>, << "add", "g1", "add" >>,
   << "scalar", "h1", "int 1" >>, << "add", "h2", "add" >>, << "add", "n1", "add" >>}
MCRegular == {"src", "inl", "test"}
MCBuckets == {<< "src", "add" >>, << "src", "scalar" >>, << "lib", "add" >>}
MCInAST == {<< "add", "f1" >>, << "scalar", "f1" >>, << "scalar", "h1" >>}
MCUnparsed == {"b"}
MCJunk == {<< "add", "f1" >>}

MCTestLists == {<< >>, << "t1", "t2" >>}
MCTestBody == [t1 |-> "t", t2 |-> "f"]

Hit(f, distance) == [fn |-> f, distance |-> distance]
Pass(reached) == [status |-> "Passed", reached |-> reached]
MCOutcome ==
  [t1 |-> {Pass(<< Hit("t", 0), Hit("f", 1), Hit("g", 1), Hit("n", 2) >>),
           Pass(<< Hit("t", 0), Hit("h", 1), Hit("f", 2) >>),
           [status |-> "Failed", reached |-> << Hit("t", 0), Hit("g", 1) >>]},
   t2 |-> {Pass(<< >>),
           Pass(<< Hit("f", 0) >>),
           Pass(<< Hit("f", 0), Hit("g", 1), Hit("h", 2) >>),
           [status |-> "Timedout", reached |-> << Hit("f", 0), Hit("h", 1) >>]}]

MCFilterOptions ==
  {[include |-> {}, exclude |-> {}],
   [include |-> {}, exclude |-> {{"lib"}, {"inl", "test"}}],
   [include |-> {{"src"}}, exclude |-> {{"src", "lib"}}]}
=============================================================================
