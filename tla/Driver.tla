------------------------------- MODULE Driver -------------------------------
(***************************************************************************)
(* From bitcode to mutation points: Driver::Run up to runMutations (module *)
(* MutantRun goes on from there).  The functions of all modules are        *)
(* recorded, each module is instrumented and compiled or taken from the    *)
(* cache on disk, the tests run once, and the functions they reach are     *)
(* merged, filtered and searched for mutation points, which are filtered   *)
(* in turn.                                                                *)
(*                                                                         *)
(* Each step goes through a TaskExecutor, which is as good as a loop over  *)
(* the items in order (module TaskExecutor), so a step is one action, or   *)
(* one action per item.  Only the instrumented compilation keeps its       *)
(* interleavings: its workers share the cache directory with another Mull  *)
(* that may be writing the same files, and may be killed at it.            *)
(*                                                                         *)
(* No module defines mull_enterFunction or mull_leaveFunction itself.      *)
(***************************************************************************)
EXTENDS Integers, Sequences, Functions

CONSTANTS
  Modules,       \* program.bitcode(): module identifiers in order
  FunctionList,  \* Module::getFunctionList() of each module, a sequence
  Declaration,   \* the functions without a body
  Instructions,  \* the instructions of each function, a sequence
  Location,      \* SourceLocation of each function and instruction
  Mutators,      \* the mutators in order
  LowLevel,      \* the lowLevelMutators of each mutator, a sequence
  CanMutate,     \* set of << mutator, instruction, low level mutator >>
  Regular,       \* the paths of regular files
  Buckets,       \* << path, mutator >> for which the AST search has a bucket
  InAST,         \* << mutator, instruction >> that ASTStorage::mutationExists confirms
  Unparsed,      \* the units that clang could not parse at all
  Junk,          \* << mutator, instruction >> that the junk detector rejects
  TestLists,     \* what the test finder may find
  TestBody,      \* Test::getTestBody()
  Outcome,       \* what the run of each test may be: a status and the
                 \* functions it reaches with their distances, a sequence
  FilterOptions  \* pairs of include and exclude filters, sets of sets of paths

Module == Range(Modules)
Fn == UNION {Range(FunctionList[m]) : m \in Module}
Instruction == UNION {Range(Instructions[f]) : f \in Fn}
Test == UNION {Range(ts) : ts \in TestLists}
Null == "null"   \* no function: the phony root, and an object that is no object

\* What the bitcode, the test finder and a test's call tree (module DynamicCallTree)
\* are: a function and an instruction are in one place, a test reaches functions that
\* have a body, each is listed once and the test's own body comes first.
ASSUME DriverAssumption ==
  /\ Modules \in Seq(Module) /\ IsInjective(Modules)
  /\ \A m \in Module : FunctionList[m] \in Seq(Fn) /\ IsInjective(FunctionList[m])
  /\ \A m, n \in Module :
       m # n => Range(FunctionList[m]) \cap Range(FunctionList[n]) = {}
  /\ Null \notin Fn
  /\ \A f \in Fn : Instructions[f] \in Seq(Instruction) /\ IsInjective(Instructions[f])
  /\ \A f, g \in Fn :
       f # g => Range(Instructions[f]) \cap Range(Instructions[g]) = {}
  /\ Mutators \in Seq(Range(Mutators)) /\ IsInjective(Mutators)
  /\ \A m \in Range(Mutators) :
       LowLevel[m] \in Seq(Range(LowLevel[m])) /\ IsInjective(LowLevel[m])
  /\ \A k \in CanMutate : \E m \in Range(Mutators) :
       k \in {m} \X Instruction \X Range(LowLevel[m])
  /\ \A ts \in TestLists : ts \in Seq(Test) /\ IsInjective(ts)
  /\ \A t \in Test : \A o \in Outcome[t] :
       /\ o.reached \in Seq([fn : Fn \ Declaration, distance : Nat])
       /\ \A i, j \in DOMAIN o.reached :
            o.reached[i].fn = o.reached[j].fn => i = j
       /\ o.reached # << >> => o.reached[1].fn = TestBody[t]

\* The elements of s that are in S, in their order.
Keep(s, S) ==
  LET kept[i \in 0 .. Len(s)] ==
        IF i = 0 THEN << >>
        ELSE IF s[i] \in S THEN Append(kept[i - 1], s[i]) ELSE kept[i - 1]
  IN kept[Len(s)]

VARIABLES
  filePath,        \* [include, exclude]: the filters of the FilePathFilter
  info,            \* compilationDatabaseInfoAvailable
  ast,             \* EnableAST
  useOnDiskCache,  \* ObjectCache::useOnDiskCache
  phase,           \* the step of Driver::Run
  functions,       \* Instrumentation::functions; its first entry is the phony root
  offset,          \* Instrumentation::functionOffsetMapping
  at,              \* next item of a sequential step
  mutatorAt,       \* next mutator of SearchMutationPointsTask
  instructionAt,   \* next instruction of Mutator::getMutations
  worker,          \* where the worker that has each module is
  file,            \* each module's instrumented object in the cache
  other,           \* what the other Mull does with that file
  objects,         \* instrumentedObjectFiles: the functions in order of their index
  tests,           \* the tests found
  ran,             \* what the tests did (history)
  reachable,       \* reachableFunctions
  under,           \* functionsUnderTest
  points,          \* mutationPoints
  why              \* what stopped Mull

config == << filePath, info, ast, useOnDiskCache >>
search == << mutatorAt, instructionAt >>
compilation == << worker, file, other, objects >>
pipeline == << tests, ran, reachable, under, points >>
vars == << config, phase, functions, offset, at, search, compilation, pipeline, why >>

Init ==
  /\ filePath \in FilterOptions
  /\ info \in BOOLEAN
  /\ ast \in BOOLEAN
  /\ useOnDiskCache \in BOOLEAN
  /\ phase = "record"
  /\ functions = << Null >>
  /\ offset = [m \in Module |-> 0]
  /\ at = 1
  /\ mutatorAt = 1
  /\ instructionAt = 1
  /\ worker = [m \in Module |-> "get"]
  \* "theirs" at the start: an earlier Mull was stopped while it wrote.
  /\ file \in [Module -> {"absent", "whole", "theirs"}]
  /\ other = [m \in Module |-> IF file[m] = "theirs" THEN "died" ELSE "idle"]
  /\ objects = [m \in Module |-> << >>]
  /\ tests = << >>
  /\ ran = << >>
  /\ reachable = << >>
  /\ under = << >>
  /\ points = << >>
  /\ why = Null

Stop(reason) == phase' = "stopped" /\ why' = reason

-----------------------------------------------------------------------------
(***************************************************************************)
(* compileInstrumentedBitcodeFiles.                                        *)
(***************************************************************************)

Definitions(m) == Keep(FunctionList[m], Fn \ Declaration)

\* Instrumentation::recordFunctions for the next module.
RecordFunctions ==
  /\ phase = "record"
  /\ at <= Len(Modules)
  /\ offset' = [offset EXCEPT ![Modules[at]] = Len(functions)]
  /\ functions' = functions \o Definitions(Modules[at])
  /\ at' = at + 1
  /\ UNCHANGED << config, search, phase, compilation, pipeline, why >>

StartCompilation ==
  /\ phase = "record"
  /\ at > Len(Modules)
  /\ phase' = "compile"
  /\ at' = 1
  /\ UNCHANGED << config, search, functions, offset, compilation, pipeline, why >>

\* Mutant: declarations use up indices too.
InsertCallbacksEverywhere(m) == FunctionList[m]

\* Instrumentation::insertCallbacks on the clone: the callbacks of the k-th
\* definition (from 0) pass k plus the value of the module's offset symbol.
InsertCallbacks(m) == Definitions(m)

\* Mutant: a file that cannot be parsed is waited for.
GetObjectRetries(m) ==
  /\ phase = "compile"
  /\ worker[m] = "get"
  /\ LET present == useOnDiskCache /\ file[m] # "absent"
     IN \/ /\ ~present
           /\ worker' = [worker EXCEPT ![m] = "put"]
           /\ objects' = [objects EXCEPT ![m] = InsertCallbacks(m)]
        \/ /\ present
           /\ file[m] # "whole"
           /\ UNCHANGED << worker, objects >>
        \/ /\ present
           /\ file[m] = "whole"
           /\ worker' = [worker EXCEPT ![m] = "done"]
           /\ objects' = [objects EXCEPT ![m] = InsertCallbacks(m)]
  /\ UNCHANGED << config, search, phase, functions, offset, at, file, other, pipeline,
                  why >>

\* InstrumentedCompilationTask: getInstrumentedObject, and compileBitcode if there
\* is none.  A file that somebody has not finished may fail to parse, or be taken
\* for an object file.  An object from the cache has the callbacks of whichever run
\* wrote it; the file's name is a digest of the bitcode, so they are the same.
GetObject(m) ==
  /\ phase = "compile"
  /\ worker[m] = "get"
  /\ LET present == useOnDiskCache /\ file[m] # "absent"
     IN \/ /\ ~present \/ file[m] # "whole"
           /\ worker' = [worker EXCEPT ![m] = "put"]
           /\ objects' = [objects EXCEPT ![m] = InsertCallbacks(m)]
        \/ /\ present
           /\ worker' = [worker EXCEPT ![m] = "done"]
           /\ objects' = [objects EXCEPT ![m] =
                            IF file[m] = "whole" THEN InsertCallbacks(m) ELSE << Null >>]
  /\ UNCHANGED << config, search, phase, functions, offset, at, file, other, pipeline,
                  why >>

\* putInstrumentedObject without the cache.
PutNothing(m) ==
  /\ phase = "compile"
  /\ worker[m] = "put"
  /\ ~useOnDiskCache
  /\ worker' = [worker EXCEPT ![m] = "done"]
  /\ UNCHANGED << config, search, phase, functions, offset, at, file, other, objects,
                  pipeline, why >>

\* putObjectOnDisk opens the file, which truncates it.
OpenFile(m) ==
  /\ phase = "compile"
  /\ worker[m] = "put"
  /\ useOnDiskCache
  /\ worker' = [worker EXCEPT ![m] = "write"]
  /\ file' = [file EXCEPT ![m] = "mine"]
  /\ UNCHANGED << config, search, phase, functions, offset, at, other, objects, pipeline,
                  why >>

\* Mutant: the object is never written.
CloseFileEmpty(m) ==
  /\ phase = "compile"
  /\ worker[m] = "write"
  /\ worker' = [worker EXCEPT ![m] = "done"]
  /\ UNCHANGED << config, search, phase, functions, offset, at, file, other, objects,
                  pipeline, why >>

\* ... writes and closes it.  Both writers write the same bytes, so the file is
\* whole when the one that truncated it last is done.
CloseFile(m) ==
  /\ phase = "compile"
  /\ worker[m] = "write"
  /\ worker' = [worker EXCEPT ![m] = "done"]
  /\ file' = [file EXCEPT ![m] = IF @ = "mine" THEN "whole" ELSE @]
  /\ UNCHANGED << config, search, phase, functions, offset, at, other, objects, pipeline,
                  why >>

\* The error of open is ignored, but the stream's destructor ends the process when
\* a write has failed.
WriteFails(m) ==
  /\ phase = "compile"
  /\ worker[m] \in {"put", "write"}
  /\ useOnDiskCache
  /\ Stop("write")
  /\ UNCHANGED << config, search, functions, offset, at, compilation, pipeline >>

CompiledAll ==
  /\ phase = "compile"
  /\ \A m \in Module : worker[m] = "done"
  /\ phase' = "find"
  /\ UNCHANGED << config, search, functions, offset, at, compilation, pipeline, why >>

\* The other Mull has missed the file and writes it, once; it may be killed.  What it
\* does after this Mull has its objects does not matter any more.
OtherStep(m, from, to, content) ==
  /\ phase = "compile"
  /\ useOnDiskCache
  /\ other[m] = from
  /\ other' = [other EXCEPT ![m] = to]
  /\ file' = [file EXCEPT ![m] = content]
  /\ UNCHANGED << config, search, phase, functions, offset, at, worker, objects, pipeline,
                  why >>

OtherOpens(m) == OtherStep(m, "idle", "writing", "theirs")
OtherCloses(m) ==
  OtherStep(m, "writing", "done", IF file[m] = "theirs" THEN "whole" ELSE file[m])
OtherDies(m) == OtherStep(m, "writing", "died", file[m])

-----------------------------------------------------------------------------
(***************************************************************************)
(* findTests and findMutationPoints.                                       *)
(***************************************************************************)

\* Without tests there are no points, and the filters run over an empty vector.
FindTests ==
  /\ phase = "find"
  /\ tests' \in TestLists
  /\ phase' = IF tests' = << >> THEN "mutations" ELSE "load"
  /\ UNCHANGED << config, search, functions, offset, at, compilation, ran, reachable, under,
                  points, why >>

\* loadInstrumentedProgram: the loader cannot make anything of half a file.
LoadInstrumentedProgram ==
  /\ phase = "load"
  /\ IF \E m \in Module : objects[m] = << Null >> THEN Stop("object")
     ELSE phase' = "test" /\ UNCHANGED why
  /\ UNCHANGED << config, search, functions, offset, at, compilation, pipeline >>

\* The function that Mull sees when the callbacks of f's module report f: the
\* argument of mull_enterFunction is an index into Instrumentation::functions.
Recorded(f) ==
  LET m == CHOOSE m \in Module : f \in Range(objects[m])
      k == CHOOSE k \in DOMAIN objects[m] : objects[m][k] = f
      index == (k - 1) + offset[m]
  IN IF index < Len(functions) THEN functions[index + 1] ELSE Null

\* OriginalTestExecutionTask: a passed test contributes what it has reached, except
\* its own body, which comes first (module DynamicCallTree).
RunTest ==
  /\ phase = "test"
  /\ at <= Len(tests)
  /\ \E o \in Outcome[tests[at]] :
       /\ ran' = Append(ran, o)
       /\ reachable' =
            IF o.status # "Passed" \/ o.reached = << >> THEN reachable
            ELSE reachable \o [i \in 1 .. Len(o.reached) - 1 |->
                                 [fn |-> Recorded(o.reached[i + 1].fn),
                                  test |-> tests[at],
                                  distance |-> o.reached[i + 1].distance]]
  /\ at' = at + 1
  /\ UNCHANGED << config, search, phase, functions, offset, compilation, tests, under,
                  points, why >>

\* Mutant: the second test of a function replaces the first.
AddReachableReplaces(list, r) ==
  IF \E i \in DOMAIN list : list[i].fn = r.fn
  THEN [i \in DOMAIN list |->
          IF list[i].fn = r.fn
          THEN [list[i] EXCEPT !.tests = << << r.test, r.distance >> >>]
          ELSE list[i]]
  ELSE Append(list, [fn |-> r.fn, tests |-> << << r.test, r.distance >> >>,
                     selected |-> << >>])

\* Mutant: functions found later come first.
AddReachableInFront(list, r) ==
  IF \E i \in DOMAIN list : list[i].fn = r.fn
  THEN [i \in DOMAIN list |->
          IF list[i].fn = r.fn
          THEN [list[i] EXCEPT !.tests = Append(@, << r.test, r.distance >>)]
          ELSE list[i]]
  ELSE << [fn |-> r.fn, tests |-> << << r.test, r.distance >> >>,
           selected |-> << >>] >> \o list

\* One turn of the loops of mergeReachableFunctions: one FunctionUnderTest for each
\* function, in the order of their first occurrence, with all tests.
AddReachable(list, r) ==
  IF \E i \in DOMAIN list : list[i].fn = r.fn
  THEN [i \in DOMAIN list |->
          IF list[i].fn = r.fn
          THEN [list[i] EXCEPT !.tests = Append(@, << r.test, r.distance >>)]
          ELSE list[i]]
  ELSE Append(list, [fn |-> r.fn, tests |-> << << r.test, r.distance >> >>,
                     selected |-> << >>])

TestedAll ==
  /\ phase = "test"
  /\ at > Len(tests)
  /\ phase' = "merge"
  /\ at' = 1
  /\ UNCHANGED << config, search, functions, offset, compilation, pipeline, why >>

MergeReachableFunctions ==
  /\ phase = "merge"
  /\ at <= Len(reachable)
  /\ under' = AddReachable(under, reachable[at])
  /\ at' = at + 1
  /\ UNCHANGED << config, search, phase, functions, offset, compilation, tests, ran,
                  reachable, points, why >>

MergedAll ==
  /\ phase = "merge"
  /\ at > Len(reachable)
  /\ phase' = "functions"
  /\ at' = 1
  /\ UNCHANGED << config, search, functions, offset, compilation, pipeline, why >>

-----------------------------------------------------------------------------
(***************************************************************************)
(* The filters, as driver-cxx sets them up.                                *)
(***************************************************************************)

\* Mutant: the path filter comes first.
functionFiltersSwapped == << "FilePathFilter", "NoDebugInfoFilter" >>

functionFilters == << "NoDebugInfoFilter", "FilePathFilter" >>

mutationFilters ==
  << "NoDebugInfoFilter", "FilePathFilter" >>
    \o (IF ast /\ info THEN << "ASTMutationFilter" >> ELSE << >>)
    \o (IF info THEN << "JunkMutationFilter" >> ELSE << >>)

\* SourceLocation::isNull.
IsNull(x) == Location[x].line = 0 /\ Location[x].column = 0

\* FilePathFilter::shouldSkip on a path: include filters outrank exclude filters.
PathSkipped(path) ==
  IF filePath.include = {} THEN \E r \in filePath.exclude : path \in r
  ELSE ~ \E r \in filePath.include : path \in r

\* NoDebugInfoFilter and FilePathFilter; the latter asserts a location.
LocationSkipped(filter, x) ==
  IF filter = "NoDebugInfoFilter" THEN IsNull(x) ELSE PathSkipped(Location[x].path)

\* A point's identity, and its unique identifier (MutationPoint::getUniqueIdentifier).
Key(p) == << p.mutator, p.instruction, p.change >>
Identifier(p) == << p.mutator, p.instruction >>

PointSkipped(filter, p) ==
  CASE filter = "ASTMutationFilter" -> Identifier(p) \notin InAST
    [] filter = "JunkMutationFilter" -> IsNull(p.instruction) \/ Identifier(p) \in Junk
    [] OTHER -> LocationSkipped(filter, p.instruction)

\* The assertion of FilePathFilter.
LocationAsserts(filter, x) == filter = "FilePathFilter" /\ IsNull(x)

\* ASTMutationFilter asserts a line, a column and a regular file, mutationExists a
\* bucket for the file and the mutator.
Unanswerable(p) ==
  LET location == Location[p.instruction]
  IN \/ location.line = 0 \/ location.column = 0
     \/ location.path \notin Regular
     \/ << location.path, p.mutator >> \notin Buckets

\* isJunkMutation uses the AST of the unit without a look at whether there is one, and
\* the location in it, for which clang asserts that lines and columns start from 1.
Unlocatable(p) ==
  LET location == Location[p.instruction]
  IN location.unit \in Unparsed \/ location.line = 0 \/ location.column = 0

\* What ends Mull in a filter over points.
PointAsserts(filter, p) ==
  \/ LocationAsserts(filter, p.instruction)
  \/ filter = "ASTMutationFilter" /\ Unanswerable(p)
  \/ filter = "JunkMutationFilter" /\ ~IsNull(p.instruction) /\ Unlocatable(p)

\* filterFunctions: the next filter over the functions that are left.
FilterFunctions ==
  /\ phase = "functions"
  /\ at <= Len(functionFilters)
  /\ LET filter == functionFilters[at] IN
     IF \E i \in DOMAIN under : LocationAsserts(filter, under[i].fn)
     THEN Stop(filter) /\ UNCHANGED << under, at >>
     ELSE /\ under' = Keep(under, {u \in Range(under) : ~LocationSkipped(filter, u.fn)})
          /\ at' = at + 1
          /\ UNCHANGED << phase, why >>
  /\ UNCHANGED << config, search, functions, offset, compilation, tests, ran, reachable,
                  points >>

\* selectInstructions, with the one instruction filter there is.
SelectInstructions ==
  /\ phase = "functions"
  /\ at > Len(functionFilters)
  /\ under' = [i \in DOMAIN under |->
                 [under[i] EXCEPT !.selected = @ \o
                    Keep(Instructions[under[i].fn], {x \in Instruction : ~IsNull(x)})]]
  /\ phase' = "search"
  /\ at' = 1
  /\ UNCHANGED << config, search, functions, offset, compilation, tests, ran, reachable,
                  points, why >>

\* One turn of the outer loop of Mutator::getMutations, with the tests that
\* SearchMutationPointsTask adds: a point for every low level mutator that can mutate
\* the instruction.  The scalar value mutator has two for each of five operands.
Mutations(mutator, x, u) ==
  LET able == Keep(LowLevel[mutator],
                   {c \in Range(LowLevel[mutator]) : << mutator, x, c >> \in CanMutate})
  IN [i \in DOMAIN able |->
        [mutator |-> mutator, instruction |-> x, change |-> able[i], fn |-> u.fn,
         tests |-> u.tests]]

\* SearchMutationPointsTask: the next mutator over the next function, one
\* instruction at a time.
SearchMutationPoints ==
  /\ phase = "search"
  /\ at <= Len(under)
  /\ mutatorAt <= Len(Mutators)
  /\ instructionAt <= Len(under[at].selected)
  /\ points' = points \o Mutations(Mutators[mutatorAt],
                                   under[at].selected[instructionAt], under[at])
  /\ instructionAt' = instructionAt + 1
  /\ UNCHANGED << config, phase, functions, offset, at, mutatorAt, compilation, tests, ran,
                  reachable, under, why >>

\* The mutator has seen all instructions of the function.
SearchedMutator ==
  /\ phase = "search"
  /\ at <= Len(under)
  /\ mutatorAt <= Len(Mutators)
  /\ instructionAt > Len(under[at].selected)
  /\ mutatorAt' = mutatorAt + 1
  /\ instructionAt' = 1
  /\ UNCHANGED << config, phase, functions, offset, at, compilation, pipeline, why >>

SearchedFunction ==
  /\ phase = "search"
  /\ at <= Len(under)
  /\ mutatorAt > Len(Mutators)
  /\ at' = at + 1
  /\ mutatorAt' = 1
  /\ UNCHANGED << config, phase, functions, offset, instructionAt, compilation, pipeline,
                  why >>

\* The end of findMutationPoints.
FoundAll ==
  /\ phase = "search"
  /\ at > Len(under)
  /\ phase' = "mutations"
  /\ at' = 1
  /\ UNCHANGED << config, search, functions, offset, compilation, pipeline, why >>

\* filterMutations: the next filter over the points that are left.
FilterMutations ==
  /\ phase = "mutations"
  /\ at <= Len(mutationFilters)
  /\ LET filter == mutationFilters[at] IN
     IF \E i \in DOMAIN points : PointAsserts(filter, points[i])
     THEN Stop(filter) /\ UNCHANGED << points, at >>
     ELSE /\ points' = Keep(points, {p \in Range(points) : ~PointSkipped(filter, p)})
          /\ at' = at + 1
          /\ UNCHANGED << phase, why >>
  /\ UNCHANGED << config, search, functions, offset, compilation, tests, ran, reachable,
                  under >>

\* The points go to runMutations.
FilteredAll ==
  /\ phase = "mutations"
  /\ at > Len(mutationFilters)
  /\ phase' = "run"
  /\ UNCHANGED << config, search, functions, offset, at, compilation, pipeline, why >>

Ended ==
  /\ phase \in {"run", "stopped"}
  /\ UNCHANGED vars

Compilation ==
  \/ RecordFunctions
  \/ StartCompilation
  \/ \E m \in Module : GetObject(m)
  \/ \E m \in Module : PutNothing(m)
  \/ \E m \in Module : OpenFile(m)
  \/ \E m \in Module : CloseFile(m)
  \/ \E m \in Module : WriteFails(m)
  \/ CompiledAll

OtherMull ==
  \/ \E m \in Module : OtherOpens(m)
  \/ \E m \in Module : OtherCloses(m)
  \/ \E m \in Module : OtherDies(m)

Search ==
  \/ FindTests
  \/ LoadInstrumentedProgram
  \/ RunTest
  \/ TestedAll
  \/ MergeReachableFunctions
  \/ MergedAll
  \/ FilterFunctions
  \/ SelectInstructions
  \/ SearchMutationPoints
  \/ SearchedMutator
  \/ SearchedFunction
  \/ FoundAll
  \/ FilterMutations
  \/ FilteredAll

Next == Compilation \/ OtherMull \/ Search \/ Ended

Spec == Init /\ [][Next]_vars

\* Mull's own threads keep running; nothing is assumed of the other Mull.  A
\* sandboxed test ends (TimerSandbox, RunReturns).
FairSpec == Spec /\ WF_vars(Compilation \/ Search)

-----------------------------------------------------------------------------
(***************************************************************************)
(* Properties.                                                             *)
(***************************************************************************)

\* Once the instrumented program is loaded, the index that the callbacks of a
\* function pass names that function among all recorded ones, whichever modules
\* come before it and whether its object was compiled or found in the cache.
CallbacksNameTheCallee ==
  phase \in {"test", "merge", "functions", "search"} =>
    \A m \in Module : \A f \in Range(objects[m]) : Recorded(f) = f

\* When a module is compiled and nobody is still writing its file or was killed
\* while doing so, the cache has the whole object: two writers do no harm.
CacheIsWhole ==
  \A m \in Module :
    (useOnDiskCache /\ worker[m] = "done" /\ other[m] \in {"idle", "done"})
      => file[m] = "whole"

\* Mull stops before the end only over a file that it could not write, an object
\* that another Mull did not finish, or, with compilation database information, over a
\* point with a line or a column, on an allowed path: one that the AST search cannot be
\* asked about, or, once the AST search has confirmed every point, one whose unit could
\* not be parsed, or that has not both.  No filter ends it over something without a
\* location.
StopsAreExplained ==
  \/ why \in {Null, "write"}
  \/ why = "object" /\ \E m \in Module : other[m] # "idle"
  \/ /\ info
     /\ \E i \in DOMAIN points :
          /\ ~IsNull(points[i].instruction)
          /\ ~PathSkipped(Location[points[i].instruction].path)
          /\ \/ why = "ASTMutationFilter" /\ ast /\ Unanswerable(points[i])
             \/ /\ why = "JunkMutationFilter" /\ Unlocatable(points[i])
                /\ ast => \A j \in DOMAIN points : ~Unanswerable(points[j])

\* A test that passed and reached f below its body, and how far below.
Reaches(o, f) ==
  o.status = "Passed" /\ \E j \in DOMAIN o.reached \ {1} : o.reached[j].fn = f
DistanceOf(o, f) ==
  o.reached[CHOOSE j \in DOMAIN o.reached : o.reached[j].fn = f].distance

\* The passed tests that reached f below their body, in order, with the distances.
ReachedBy(f) ==
  LET reaching == Keep([i \in DOMAIN ran |-> i], {i \in DOMAIN ran : Reaches(ran[i], f)})
  IN [k \in DOMAIN reaching |-> << tests[reaching[k]], DistanceOf(ran[reaching[k]], f) >>]

\* What the options say about a path: it is included, or nothing is and it is not
\* excluded.
Allowed(path) ==
  \/ path \in UNION filePath.include
  \/ filePath.include = {} /\ path \notin UNION filePath.exclude

\* Whether the mutations by the mutator of the instruction x of f should be tried.
Wanted(mutator, x, f) ==
  /\ ReachedBy(f) # << >>
  /\ \A y \in {f, x} : ~IsNull(y) /\ Allowed(Location[y].path)
  /\ info => << mutator, x >> \notin Junk
  /\ (info /\ ast) => << mutator, x >> \in InAST

\* What goes to runMutations is exactly what was asked for: a point for every low
\* level mutation of a located instruction, on an allowed path, in a function that a
\* passed test reached, once, with all of those tests.  Points of several low level
\* mutations of one instruction have one identifier between them.
PointsAreExact ==
  phase = "run" =>
    /\ {Key(points[i]) : i \in DOMAIN points} =
         {k \in CanMutate : \E f \in Fn : /\ k[2] \in Range(Instructions[f])
                                          /\ Wanted(k[1], k[2], f)}
    /\ \A i, j \in DOMAIN points : Key(points[i]) = Key(points[j]) => i = j
    /\ \A i \in DOMAIN points :
         /\ points[i].instruction \in Range(Instructions[points[i].fn])
         /\ points[i].tests = ReachedBy(points[i].fn)

\* The position at which a test first reached f.
FirstReached(f) ==
  CHOOSE i \in DOMAIN reachable :
    reachable[i].fn = f /\ \A j \in 1 .. i - 1 : reachable[j].fn # f

\* The order of mutants does not depend on addresses in memory: it follows the order
\* in which the tests reached their functions ("some of our tests depend on it").
MutantsKeepOrder ==
  phase = "run" =>
    \A i, j \in DOMAIN points :
      i < j => FirstReached(points[i].fn) <= FirstReached(points[j].fn)

\* Mull gets to running the mutants, or stops, whatever the cache directory holds
\* and whatever another Mull does with it.
SearchEnds == <>(phase \in {"run", "stopped"})

=============================================================================
