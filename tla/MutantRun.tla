------------------------------ MODULE MutantRun ------------------------------
(***************************************************************************)
(* From mutation points to verdicts: Driver::runMutations prepares the     *)
(* program (a clone per mutation point, a copy of each original, a         *)
(* trampoline in its place), mutates the clones, compiles, and has a       *)
(* MutantExecutionTask run every mutant against its tests by pointing the  *)
(* function's trampoline at the clone; the reporters then tell which       *)
(* mutants were killed, on the terminal, as JSON or in a database.  With   *)
(* the dry run enabled nothing is prepared or run.                         *)
(*                                                                         *)
(* A body is the set of the points whose mutation it contains, {} for the  *)
(* code as written.  Each execution task has a JIT and trampolines of its  *)
(* own and runs tests in forked children, so workers share nothing of what *)
(* is modelled here: one task with the whole vector stands for all (module *)
(* TaskExecutor is about how the vector is split and put together).        *)
(***************************************************************************)
EXTENDS Integers, Sequences, FiniteSets, Functions

CONSTANTS
  Fn,          \* functions of the program
  Test,        \* the tests of the program
  Points,      \* the filtered mutation points, a sequence
  FnOf,        \* MutationPoint::originalFunction of each point
  Id,          \* MutationPoint::uniqueIdentifier: the mutator and the instruction
  Reach,       \* the passed tests that reach each function, a sequence
  BadStatus,   \* what a sandboxed test may end with other than Passed
  Reporters,   \* the lists of reporters a user may ask for
  MaxRefused   \* bound: how many rows of a table SQLite refuses

Point == Range(Points)
Status == {"Passed"} \union BadStatus

ASSUME MutantRunAssumption ==
  /\ Points \in Seq(Point)
  /\ \A i, j \in DOMAIN Points : Points[i] = Points[j] => i = j
  /\ FnOf \in [Point -> Fn]
  /\ DOMAIN Id = Point
  /\ \A p, q \in Point : Id[p] = Id[q] => FnOf[p] = FnOf[q]
  /\ Fn \cap Point = {}   \* a trampoline tells an original from a clone
  /\ Reach \in [Fn -> Seq(Test)]
  /\ \A f \in Fn : \A i, j \in DOMAIN Reach[f] : Reach[f][i] = Reach[f][j] => i = j
  /\ BadStatus \cap {"Passed", "FailFast", "DryRun", "Invalid"} = {}
  /\ Reporters \subseteq Seq({"IDE", "SQLite", "Elements"})
  /\ MaxRefused \in Nat

Null == "null"           \* no address, nothing compiled
NoCode == {"no code"}    \* a function that does not exist or has no body
Forward == {"forward"}   \* the body that calls through the trampoline

\* The database: no file, one with empty tables, and the one an earlier run has left.
\* rows has what execution_result says of the i-th result, distances the places of
\* the results that are in mutation_result.
NoFile == [tables |-> FALSE, tests |-> {}, rows |-> << >>, distances |-> {}, points |-> {}]
NoRows == [NoFile EXCEPT !.tables = TRUE]
EarlierReport == [NoRows EXCEPT !.tests = {"earlier"}]

VARIABLES
  failFast,    \* Configuration::failFastEnabled
  dryRun,      \* Configuration::dryRunEnabled
  behaviour,   \* how each test ends when it runs against each clone (program)
  phase,       \* the step of Driver::runMutations
  todo,        \* functions (bitcode map entries) left in this step
  at,          \* next point of the sequential steps
  pointsOf,    \* Bitcode::mutationPoints
  body,        \* what the function's own symbol is bound to
  original,    \* the copy named <function>_original
  clone,       \* the clone of each point
  object,      \* the compiled program: a snapshot of body, original and clone
  trampoline,  \* where each trampoline points: Null, a function's original, a point
  saved,       \* originalAddress
  testAt,      \* next reachable test of the point
  failed,      \* atLeastOneTestFailed
  running,     \* whether the sandbox runs the test at testAt
  results,     \* the task's storage
  reporters,   \* the reporters still to run
  printed,     \* the lists of mutants IDEReporter has printed
  elements,    \* the reports written for Elements: the status of each mutant
  database,    \* the database file of SQLiteReporter
  pending,     \* its content as the open transaction sees it
  refused      \* history: SQLite has refused a row whose insertion nobody checks

config == << failFast, dryRun, behaviour >>
program == << pointsOf, body, original, clone >>
task == << trampoline, saved, testAt, failed, running >>
reports == << reporters, printed, elements, database, pending, refused >>
vars == << config, phase, todo, at, program, object, task, results, reports >>

Mutated == {FnOf[p] : p \in Point}
Current == Points[at]
TestsOf(p) == Reach[FnOf[p]]

\* The point whose clone has the name that p's clone should have.  LLVM gives another
\* name to a function whose own is taken, so the first that asks for it has it.
Named(p) == CHOOSE q \in Point :
              \E i \in DOMAIN Points :
                /\ Points[i] = q /\ Id[q] = Id[p]
                /\ \A j \in DOMAIN Points : Id[Points[j]] = Id[p] => i <= j

Init ==
  /\ failFast \in BOOLEAN
  /\ dryRun \in BOOLEAN
  /\ behaviour \in [Point -> [Test -> Status]]
  /\ phase = "run"
  /\ todo = {}
  /\ at = 1
  /\ pointsOf = [f \in Fn |-> << >>]
  /\ body = [f \in Fn |-> {}]
  /\ original = [f \in Fn |-> NoCode]
  /\ clone = [p \in Point |-> NoCode]
  /\ object = Null
  /\ trampoline = [f \in Fn |-> Null]
  /\ saved = Null
  /\ testAt = 1
  /\ failed = FALSE
  /\ running = FALSE
  /\ results = << >>
  /\ reporters = << >>
  /\ printed = {} /\ elements = {}
  /\ database \in {NoFile, EarlierReport}
  /\ pending = NoFile
  /\ refused = FALSE

-----------------------------------------------------------------------------
(***************************************************************************)
(* Driver::runMutations, and the preparation in normalRunMutations.        *)
(***************************************************************************)

\* runMutations: no points, dry run, or the real thing.
RunMutations ==
  /\ phase = "run"
  /\ phase' = IF Points = << >> THEN "report"
              ELSE IF dryRun THEN "dry" ELSE "prepare"
  /\ UNCHANGED << config, todo, at, program, object, task, results, reports >>

\* DryRunMutantExecutionTask: every pair gets the status DryRun.
DryRunPoint ==
  /\ phase = "dry"
  /\ results' = results \o [i \in DOMAIN TestsOf(Current) |->
                  [point |-> Current, test |-> TestsOf(Current)[i], status |-> "DryRun"]]
  /\ at' = at + 1
  /\ phase' = IF at = Len(Points) THEN "report" ELSE phase
  /\ UNCHANGED << config, todo, program, object, task, reports >>

\* "Prepare mutations": Bitcode::addMutation for each point in order.
AddMutation ==
  /\ phase = "prepare"
  /\ pointsOf' = [pointsOf EXCEPT ![FnOf[Current]] = Append(@, Current)]
  /\ IF at = Len(Points)
     THEN at' = 1 /\ phase' = "clone" /\ todo' = Mutated
     ELSE at' = at + 1 /\ UNCHANGED << phase, todo >>
  /\ UNCHANGED << config, body, original, clone, object, task, results, reports >>

\* The steps below work on the entries of the bitcodes' maps in any order; the
\* executor of the next step starts when this one has handled all of them.
Entry(f, this, next) ==
  /\ phase = this
  /\ f \in todo
  /\ IF todo = {f} THEN phase' = next /\ todo' = Mutated
     ELSE UNCHANGED phase /\ todo' = todo \ {f}
  /\ UNCHANGED << config, at, pointsOf, object, task, results, reports >>

\* CloneMutatedFunctionsTask: a clone of the function for each of its points (for
\* their names see Named).
CloneFunctions(f) ==
  /\ Entry(f, "clone", "delete")
  /\ clone' = [p \in Point |-> IF p \in Range(pointsOf[f]) THEN body[f] ELSE clone[p]]
  /\ UNCHANGED << body, original >>

\* DeleteOriginalFunctionsTask: a copy is kept and the body deleted.
DeleteFunction(f) ==
  /\ Entry(f, "delete", "insert")
  /\ original' = [original EXCEPT ![f] = body[f]]
  /\ body' = [body EXCEPT ![f] = NoCode]
  /\ UNCHANGED clone

\* InsertMutationTrampolinesTask: the empty function gets the indirect call.
InsertTrampoline(f) ==
  /\ Entry(f, "insert", "apply")
  /\ body' = [body EXCEPT ![f] = Forward]
  /\ UNCHANGED << original, clone >>

\* ApplyMutationTask, one task: MutationPoint::applyMutation on the point's clone.
ApplyMutation ==
  /\ phase = "apply"
  /\ clone' = [clone EXCEPT ![Current] = @ \union {Current}]
  /\ IF at = Len(Points) THEN at' = 1 /\ phase' = "compile"
     ELSE at' = at + 1 /\ UNCHANGED phase
  /\ UNCHANGED << config, todo, pointsOf, body, original, object, task, results,
                  reports >>

\* OriginalCompilationTask (an object file from the cache has the same content:
\* its name is a digest of the bitcode and its points).
Compile ==
  /\ phase = "compile"
  /\ object' = [body |-> body, original |-> original, clone |-> clone]
  /\ phase' = "load"
  /\ UNCHANGED << config, todo, at, program, task, results, reports >>

-----------------------------------------------------------------------------
(***************************************************************************)
(* MutantExecutionTask::operator().                                        *)
(***************************************************************************)

\* loadMutatedProgram allocates the trampolines and fixupOriginalFunctions
\* points each at the copy of its original.
LoadMutatedProgram ==
  /\ phase = "load"
  /\ trampoline' = [f \in Fn |-> IF f \in Mutated THEN f ELSE Null]
  /\ phase' = "point"
  /\ UNCHANGED << config, todo, at, program, object, saved, testAt, failed,
                  running, results, reports >>

\* Mutant: atLeastOneTestFailed survives from one point to the next.
SetTrampolineKeepsFailed ==
  /\ phase = "point"
  /\ at <= Len(Points)
  /\ saved' = trampoline[FnOf[Current]]
  /\ trampoline' = [trampoline EXCEPT ![FnOf[Current]] = Named(Current)]
  /\ testAt' = 1
  /\ phase' = "test"
  /\ UNCHANGED << config, todo, at, program, object, failed, running, results,
                  reports >>

\* The loop takes the next point and redirects its function to the clone that the
\* JIT finds by name.
SetTrampoline ==
  /\ phase = "point"
  /\ at <= Len(Points)
  /\ saved' = trampoline[FnOf[Current]]
  /\ trampoline' = [trampoline EXCEPT ![FnOf[Current]] = Named(Current)]
  /\ failed' = FALSE
  /\ testAt' = 1
  /\ phase' = "test"
  /\ UNCHANGED << config, todo, at, program, object, running, results, reports >>

\* Whether the test at testAt is not run at all.
Skipped == failFast /\ failed

Result(status) ==
  [point |-> Current, test |-> TestsOf(Current)[testAt], status |-> status]

\* A test that is not run because an earlier one failed.
SkipTest ==
  /\ phase = "test"
  /\ ~running
  /\ testAt <= Len(TestsOf(Current))
  /\ Skipped
  /\ results' = Append(results, Result("FailFast"))
  /\ testAt' = testAt + 1
  /\ UNCHANGED << config, phase, todo, at, program, object, trampoline, saved,
                  failed, running, reports >>

\* sandbox.run forks; the child sees the trampolines as they are now.
StartTest ==
  /\ phase = "test"
  /\ ~running
  /\ testAt <= Len(TestsOf(Current))
  /\ ~Skipped
  /\ running' = TRUE
  /\ UNCHANGED << config, phase, todo, at, program, object, trampoline, saved,
                  testAt, failed, results, reports >>

\* sandbox.run returns, and the result is stored.
FinishTest ==
  /\ running
  /\ LET status == behaviour[trampoline[FnOf[Current]]][TestsOf(Current)[testAt]] IN
     /\ results' = Append(results, Result(status))
     /\ failed' = (failed \/ status # "Passed")
  /\ testAt' = testAt + 1
  /\ running' = FALSE
  /\ UNCHANGED << config, phase, todo, at, program, object, trampoline, saved,
                  reports >>

\* Mutant: the trampoline is left where it is.
RestoreTrampolineNot ==
  /\ phase = "test"
  /\ ~running
  /\ testAt > Len(TestsOf(Current))
  /\ at' = at + 1
  /\ phase' = IF at = Len(Points) THEN "report" ELSE "point"
  /\ UNCHANGED << config, todo, program, object, trampoline, saved, testAt,
                  failed, running, results, reports >>

\* Mutant: the loop does not advance.
RestoreTrampolineStays ==
  /\ phase = "test"
  /\ ~running
  /\ testAt > Len(TestsOf(Current))
  /\ trampoline' = [trampoline EXCEPT ![FnOf[Current]] = saved]
  /\ phase' = IF at = Len(Points) THEN "report" ELSE "test"
  /\ UNCHANGED << config, todo, at, program, object, saved, testAt, failed,
                  running, results, reports >>

\* After the last test of the point its function goes back to the original.
RestoreTrampoline ==
  /\ phase = "test"
  /\ ~running
  /\ testAt > Len(TestsOf(Current))
  /\ trampoline' = [trampoline EXCEPT ![FnOf[Current]] = saved]
  /\ at' = at + 1
  /\ phase' = IF at = Len(Points) THEN "report" ELSE "point"
  /\ UNCHANGED << config, todo, program, object, saved, testAt, failed, running,
                  results, reports >>

-----------------------------------------------------------------------------
(***************************************************************************)
(* The reporters.                                                          *)
(***************************************************************************)

\* ReportersCLIOptions: those asked for, in that order, or IDE.
CreateReporters ==
  /\ phase = "report"
  /\ \E list \in Reporters : reporters' = IF list = << >> THEN << "IDE" >> ELSE list
  /\ phase' = "reporting"
  /\ UNCHANGED << config, todo, at, program, object, task, results, printed,
                  elements, database, pending, refused >>

Reporting(name) ==
  /\ phase = "reporting"
  /\ Head(reporters) = name
  /\ UNCHANGED << config, todo, at, program, object, task, results, refused >>

NextReporter ==
  /\ reporters' = Tail(reporters)
  /\ phase' = IF Len(reporters) = 1 THEN "done" ELSE "reporting"

\* mutantSurvived of both reporters.
MutantSurvived(status) == status = "Passed"

\* Points without results count as survived.
KilledMutants == {r.point : r \in {s \in Range(results) : ~MutantSurvived(s.status)}}

\* The mutation points that are in S, in their order.
PointsIn(S) == SelectSeq(Points, LAMBDA p : p \in S)

\* IDEReporter prints in the order of the points; without points it prints none.
\* The killed ones are shown on demand only.
ReportIDE ==
  /\ Reporting("IDE")
  /\ \E showKilled \in BOOLEAN :
       printed' = printed \union
         {[killed |-> IF showKilled THEN PointsIn(KilledMutants) ELSE << >>,
           survived |-> PointsIn(Point \ KilledMutants)]}
  /\ NextReporter
  /\ UNCHANGED << elements, database, pending >>

\* MutationTestingElementsReporter writes nothing if there are no points.
ReportElements ==
  /\ Reporting("Elements")
  /\ elements' = IF Points = << >> THEN elements
                 ELSE elements \union
                      {[p \in Point |-> IF p \in KilledMutants THEN "Killed" ELSE "Survived"]}
  /\ NextReporter
  /\ UNCHANGED << printed, database, pending >>

\* sqlite_exec and sqlite_step end the program on an error, which takes the
\* transaction back.
SQLiteError ==
  /\ phase' = "exit"
  /\ pending' = NoFile
  /\ UNCHANGED << reporters, printed, elements, database >>

\* The tables are created outside the transaction, and must not be there yet.
OpenDatabase ==
  /\ Reporting("SQLite")
  /\ IF database.tables THEN SQLiteError
     ELSE /\ database' = NoRows
          /\ pending' = NoRows
          /\ phase' = "tests"
          /\ UNCHANGED << reporters, printed, elements >>

\* Mutant: without BEGIN TRANSACTION every insertion is final.
InsertForGood(content) == pending' = content /\ database' = content

Insert(content) == pending' = content /\ UNCHANGED database

InsertStep(this, next) ==
  /\ phase = this
  /\ phase' = next
  /\ UNCHANGED << config, todo, at, program, object, task, results, reporters,
                  printed, elements >>

\* What SQLite may leave of the rows S: nobody looks at what sqlite3_step returns.
Accepted(S) == {A \in SUBSET S : Cardinality(S \ A) <= MaxRefused}
Refusing(S, A) == refused' = (refused \/ A # S)

\* A row of execution_result and one of test for each test; the identifier of a
\* test, its name, is unique.  The names of two tests may be equal.
InsertTests ==
  /\ InsertStep("tests", "results")
  /\ Insert([pending EXCEPT !.tests = Test])
  /\ UNCHANGED refused
TestNameTaken ==
  /\ phase = "tests"
  /\ Cardinality(Test) > 1
  /\ SQLiteError
  /\ UNCHANGED << config, todo, at, program, object, task, results, refused >>

\* A row of execution_result for each result, by the identifier of its point.
RowOf(i) == [results[i] EXCEPT !.point = Id[@]]
InsertResults ==
  /\ InsertStep("results", "distances")
  /\ \E A \in Accepted(DOMAIN results) :
       /\ Insert([pending EXCEPT !.rows = [i \in A |-> RowOf(i)]])
       /\ Refusing(DOMAIN results, A)

\* And one of mutation_result; the loop inserts the two by turns, in one transaction.
InsertDistances ==
  /\ InsertStep("distances", "points")
  /\ \E A \in Accepted(DOMAIN results) :
       /\ Insert([pending EXCEPT !.distances = A])
       /\ Refusing(DOMAIN results, A)

\* A row of mutation_point for each identifier: it is unique, and a second point
\* that has it is ignored.
Ids == {Id[p] : p \in Point}
InsertPoints ==
  /\ InsertStep("points", "commit")
  /\ \E A \in Accepted(Ids) :
       /\ Insert([pending EXCEPT !.points = A])
       /\ Refusing(Ids, A)

EndTransaction ==
  /\ phase = "commit"
  /\ database' = pending
  /\ pending' = NoFile
  /\ NextReporter
  /\ UNCHANGED << config, todo, at, program, object, task, results, printed, elements,
                  refused >>

\* Mull is killed while it reports; SQLite then drops the transaction.
Killed ==
  /\ phase \in {"reporting", "tests", "results", "distances", "points", "commit"}
  /\ phase' = "exit"
  /\ pending' = NoFile
  /\ UNCHANGED << config, todo, at, program, object, task, results, reporters,
                  printed, elements, database, refused >>

Done ==
  /\ phase \in {"done", "exit"}
  /\ UNCHANGED vars

Next ==
  \/ RunMutations
  \/ DryRunPoint
  \/ AddMutation
  \/ \E f \in Fn : CloneFunctions(f)
  \/ \E f \in Fn : DeleteFunction(f)
  \/ \E f \in Fn : InsertTrampoline(f)
  \/ ApplyMutation
  \/ Compile
  \/ LoadMutatedProgram
  \/ SetTrampoline
  \/ SkipTest
  \/ StartTest
  \/ FinishTest
  \/ RestoreTrampoline
  \/ CreateReporters
  \/ ReportIDE
  \/ ReportElements
  \/ OpenDatabase
  \/ InsertTests
  \/ TestNameTaken
  \/ InsertResults
  \/ InsertDistances
  \/ InsertPoints
  \/ EndTransaction
  \/ Killed
  \/ Done

Spec == Init /\ [][Next]_vars

\* The driver's threads keep running, and a sandboxed test ends: its timer sees
\* to that (TimerSandbox, RunReturns).
FairSpec == Spec /\ WF_vars(Next)

-----------------------------------------------------------------------------
(***************************************************************************)
(* Properties.                                                             *)
(***************************************************************************)

\* The code that runs when f is called in the program as it is loaded.
Executed(f) ==
  IF object.body[f] # Forward THEN object.body[f]
  ELSE IF trampoline[f] \in Point THEN object.clone[trampoline[f]]
  ELSE IF trampoline[f] \in Fn THEN object.original[trampoline[f]]
  ELSE NoCode

\* While a test runs against a mutant, the mutated function has one mutation and
\* every other function runs as it was written: neither the preparation nor an
\* earlier mutant leaves anything behind.  The mutation is that of the first point
\* with the identifier of the point: its own, unless an earlier point of the same
\* mutator and instruction (another constant operand) has taken the name.
OnlyThisMutant ==
  running => \A f \in Fn :
               Executed(f) = IF f = FnOf[Current] THEN {Named(Current)} ELSE {}

\* Points of one identifier that the test reaches.
PointsOf(id, t) == {p \in Point : Id[p] = id /\ t \in Range(TestsOf(p))}

\* At every moment, a crash or an error included, the database has either no result
\* or the report of one run: every test, and nothing that is not a result of it.
\* Unless SQLite has refused an insertion that the reporter does not check, the
\* report is whole: every identifier, and exactly one result in both tables for every
\* mutant and every test that reaches it, skipped ones included.
DatabaseIsWhole ==
  database \notin {NoFile, NoRows, EarlierReport} =>
    /\ database.tests = Test
    /\ \A i \in DOMAIN database.rows : i \in DOMAIN results /\ database.rows[i] = RowOf(i)
    /\ ~refused =>
         /\ database.points = Ids
         /\ database.distances = DOMAIN database.rows
         /\ \A id \in Ids : \A t \in Test :
              Cardinality({i \in DOMAIN database.rows :
                             database.rows[i].point = id /\ database.rows[i].test = t}) =
                Cardinality(PointsOf(id, t))

\* One of the tests tells the mutant that is run for p apart from the original.
Detected(p) == \E t \in Range(TestsOf(p)) : behaviour[Named(p)][t] # "Passed"

\* A mutant is reported killed exactly when one of its tests detects it, whether or
\* not tests are skipped by fail fast and in whatever way the test ended, and all
\* reporters agree on it (the database unless SQLite has refused one of its rows;
\* even then it names no mutant killed that is not).
KilledIffDetected ==
  ~dryRun =>
    /\ \A list \in printed :
         /\ list.survived = PointsIn({p \in Point : ~Detected(p)})
         /\ list.killed \in {<< >>, PointsIn({p \in Point : Detected(p)})}
    /\ \A status \in elements : \A p \in Point :
         status[p] = IF Detected(p) THEN "Killed" ELSE "Survived"
    /\ database \notin {NoFile, NoRows, EarlierReport} =>
         /\ \A r \in Range(database.rows) :
              r.status # "Passed" => \E p \in Point : Detected(p) /\ r.point = Id[p]
         /\ ~refused => \A p \in Point : Detected(p) =>
              \E r \in Range(database.rows) : r.status # "Passed" /\ r.point = Id[p]

\* Every run comes to its report, or to the error that ends it.
RunEnds == <>(phase \in {"done", "exit"})
=============================================================================
