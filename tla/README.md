# Mull in TLA+

Mull is a mutation testing tool for C and C++. It loads the LLVM bitcode of a
program, runs the program's tests once with instrumented code to learn which
functions each test reaches, makes a mutant for every mutation point it finds in
those functions, runs each mutant against the tests that reach it, and reports the
mutants that no test detected. Everything that runs tests happens in forked
children, and every loop over many items is spread over threads. This directory
holds TLA+ specifications of the parts of Mull whose correctness depends on
interleavings, process life times, the order of steps, and tables and rewritings that
must fit together, with TLC configurations and TLAPS proofs.

Paths below are relative to `src/`.

## The system

| Component | State it keeps | Operations | Model |
|---|---|---|---|
| `TaskExecutor` (include/mull/Parallelization/TaskExecutor.h, lib/Parallelization) | batches, worker threads, storages, progress counters, reporter thread | `execute` (early return, sequential, parallel), `taskBatches`, `progress_counter::increment`, `progress_reporter` | `TaskExecutor`, `OrderedMap` |
| `ForkTimerSandbox` (lib/Sandbox/ProcessSandbox.cpp) | pipes, shared memory, child process, alarm | `run`: open pipes, fork, redirect, arm, run, flush, reap, capture, decode | `TimerSandbox` |
| `ForkWatchdogSandbox` (same file) | watchdog, timer and worker processes, shared memory, pipes | `run` | `WatchdogSandbox` |
| `NullProcessSandbox` | none | calls the function | not modelled |
| `Diagnostics` | a mutex, stdout's stdio buffer, strict mode | `warning`, `error`, `progress` | inside `TimerSandbox` |
| Instrumentation and `DynamicCallTree` (lib/Instrumentation) | the call mapping, the callback stack, the call tree | enter and leave callbacks, `createCallTree`, `extractTestSubtrees`, `createReachableFunctions` | `DynamicCallTree` |
| `OriginalTestExecutionTask` | reachable functions of each test | run a test, collect, drop the test body, store | `DynamicCallTree` |
| `Driver::runMutations`, mutant preparation, `MutantExecutionTask`, `Trampolines` | function bodies, clones, originals, trampolines, results | clone, delete, insert trampolines, mutate, compile, load, run with fail fast, dry run | `MutantRun` |
| `IDEReporter`, `MutationTestingElementsReporter` | the killed mutants | `reportResults` | `MutantRun` |
| `SQLiteReporter` | a database file, a transaction | create tables, insert tests, results and points, commit | `MutantRun` |
| `Driver::Run`, `Instrumentation`'s function list, filters, `MutationsFinder`, `ReachableFunction` | recorded functions and offsets, lists of functions and points | record, compile, run tests, merge, filter, search | `Driver` |
| `ObjectCache` | files in the cache directory | get, put | `Driver` (instrumented objects) |
| `MutatorsFactory` and the mutators (lib/Mutators) | maps from names to mutators and groups | expand groups, create, find points, apply | `MutatorTables`, `LogicalMutators` |
| `ASTStorage`, AST search (lib/JunkDetection/CXX/ASTStorage.cpp, lib/AST) | clang ASTs by path under a mutex, recorded expressions | `findAST`, `ASTFinder`, `ASTVisitor`, `ASTMutationStorage` | `MutationFilters` |
| Junk detection, `CompilationDatabase` | flags of files | `isJunk`, `compilationFlagsForFile` | `MutationFilters` |
| Command line driver (tools/driver-cxx) | | selects mutators, filters and reporters and calls everything above | `MutationFilters`, `MutantRun` |
| `JITEngine`, resolvers | symbol tables | addObjectFiles, getSymbol | not modelled |
| Compiler, mangler, test finders, bitcode loading, time reporter, metrics, configuration | | LLVM and I/O | not modelled |

How they interact. The driver runs one step after another, each through a
`TaskExecutor`, so within a step items are processed concurrently and between steps
everything has been joined. Tasks that run tests call `ProcessSandbox::run`, so
several threads of Mull fork at the same time: they share Mull's descriptors, its
child processes, its stdio buffers and the diagnostics mutex, which is where the two
sandbox modules find their hard cases. The instrumented program calls back into
`DynamicCallTree` through a mapping that the child shares with Mull. Trampolines
connect the preparation of the mutants, which is done once, with their execution,
which repoints one of them at a time.

What is hard to test here, each item with its line and the properties that would
catch it, is listed under `hazards` in PROJECT.json: batch arithmetic at its
boundaries, workers finishing in any order, a reporter that sums counters while they
move, fork among threads, an alarm that races the end of a test, pipes that are full
or held open by strangers, system calls that fail half way, `wait` calls that take
someone else's child, recursion and exceptions in the program under test, state
of one mutant that could leak into the next, branches and PHI nodes that a mutator must
change together, three tables that must name the same operators, ASTs made on demand
by several workers, and a database that is only half written.

## Modules

**TaskExecutor** is `TaskExecutor<Task>::execute`. Variables: `inSize`, `taskCount`
(the arguments), `pc` (the calling thread), `spawned`, `end` (the iterator of the
spawn loop), per worker `first`, `last`, `pos`, `wpc`, `storage`, `counter`; `rpc`,
`summed`, `current`, `previousValue` of the reporter; `merged`, `out`. A worker step is one
item or one increment, a reporter step reads one counter: the code reads them one by
one while workers increment. What task `i` makes of item `k` is the constant
`Output[k]`, a sequence of any length. `OrderedMap` is the abstract specification:
`out` only ever grows by the outputs of the next consecutive items of `in`, and is
complete when `execute` returns. `TaskExecutor` implements it (`ImplementsLoop`,
`ImplementsFairLoop`) with the number of appended items as refinement mapping.

**TimerSandbox** is `ForkTimerSandbox::run` together with `Pipe` and the part of
`Diagnostics` the threads share. Every system call that the code checks may fail. A pipe
is a sequence of bytes with a capacity and a set of processes that have its write end
open; a read takes some of them, up to `ReadSize`, and `output.append(buffer)` appends
what is before the first NUL of the read (`CString`); `fork` adds the child to every pipe
that Mull holds open at that moment, whichever run it belongs to, and copies the stdio
buffer and the state of the mutex. A byte is text, of which only the origin matters
(`"mull"` or `"test"`), or `"nul"`. The test is arbitrary: it prints, returns, exits,
crashes or hangs. `fate`, `written` and `binary` (the test has printed a NUL) are history
variables, and `Own(q)` counts the text of the test in a pipe or a buffer.

**WatchdogSandbox** is `ForkWatchdogSandbox::run`: the processes of each run are
`"none"`, `"running"`, `"exited"` (a zombie) or `"reaped"`, and all watchdogs are
children of one Mull, so `wait(nullptr)` may take any of them. `SIGKILL` is sent in
one step and delivered in a later one. Another thread may be in
`Diagnostics::progress` while Mull forks: the watchdog then has the mutex locked for ever
(`locked`), and if one of its own forks fails, `Diagnostics::error` blocks it
(`ForkChildBlocks`). Of the pipes only the holders of the write ends remain; their content
is TimerSandbox's subject. A worker that cannot redirect its output is, to the watchdog, a
test that exits or hangs.

**DynamicCallTree** composes the callbacks that the instrumented program makes
(`EnterFunction`, `LeaveFunction`), the program itself (`Call`, `Leave`, `Unwind` for
exceptions and longjmp, in every order), and what the task does once the test has
passed: `fillInCallTree` (its recursion is the stack `pending`),
`extractTestSubtrees`, `createReachableFunctions` and the storing without the test
body. `frames` and `calls` record what the program really did; the properties compare
the code's data with them. Functions are indices from 1 and 0 is the phony root, as in
the code. `Places` are all the places where a function can stand in the tree, and
`CallsAway(d)` are the functions at the end of a walk of `d` calls from the test body.

**MutantRun** is `Driver::runMutations`. The body of a function is abstracted to the set
of the mutations it contains, which is what the properties tell apart, and functions and
points are different things (`Fn \cap Point = {}`), as originals and clones have different
addresses. `Id[p]` is the point's unique identifier, made of mutator and instruction: the
points of two constant operands of one instruction share it. It is also the name of the
clone, and LLVM renames a function whose name is taken, so the clone that the trampoline
is set to is that of the first point with the identifier (`Named`). Each preparation task
is an action per entry of the bitcode map; the driver's next step starts when the last
entry is done. `object` is the compiled program, a snapshot, so a mutation applied after
compilation would not count. Execution tasks have a JIT and trampolines of their own and
run tests in children, so one task with all points stands for several. `behaviour` is how
each test ends against each mutant, chosen freely. The reporters asked for then run one
after the other. `database` is what the file of `SQLiteReporter` has and `pending` what
its open transaction would make of it: the tables are created outside the transaction, so
a database that is there already ends Mull with an error, as do two tests with one name;
Mull may also be killed at any moment of the report, and SQLite then drops the
transaction. The insertions of results, of their distances and of points
(SQLiteReporter.cpp:168, 180, 241) are not checked: SQLite may refuse any of these rows,
`refused` remembers it, and the transaction goes on and is committed.

**Driver** is `Driver::Run` up to `runMutations`. A step of the driver is one action, or
one per item, because `TaskExecutor` is shown to be as good as a loop; only the
instrumented compilation keeps its interleavings, since its workers share the cache
directory with another Mull. Merging takes one reached function a step and the search one
instruction for one mutator; each of the mutator's low level mutations that fits gives a
point (`LowLevel`; the scalar value mutator has ten, two for each of five operands).
`Keep` is the loop that copies what passes a test. `functions` and `offset` are what
`Instrumentation` records, `objects[m]` is the list of functions whose callbacks pass 0,
1, 2, ... plus the module's offset, and `Recorded(f)` is the function Mull believes was
entered. A file of the cache is absent, whole, or truncated by this Mull (`"mine"`) or the
other one (`"theirs"`); both write the same bytes, so it becomes whole when the one that
truncated it last is done. A regular expression is the set of paths it matches, and
whether a mutator applies to an instruction, whether clang confirms it or calls it junk,
are constants, and so are what makes those filters stop Mull instead of answering: files
that are not regular ones (`Regular`), files and mutators for which the AST search has
recorded nothing (`Buckets`), units clang cannot parse (`Unparsed`). `Stop` stands for a
failed assertion or a fatal error: the build has assertions enabled. `PointsAreExact` also
states what `MutantRun` assumes of its input: no point twice (points of one identifier are
different points if they are different low level mutations), and no test twice in a
point's list. Driver assumes that no module defines `mull_enterFunction` or
`mull_leaveFunction`; for such a module (`Program::addBitcode` deletes the bodies,
`Bitcode::clone` brings them back) the indices of recorded functions and of callbacks
drift apart.

**MutatorTables** has the mutators as data: the opcodes each takes and what it makes of
them, the operator it says it replaces and by which, the groups of `MutatorsFactory` and
their expansion (`GroupMutators`), and the operators that `ASTVisitor` and the visitors of
junk detection pair with each mutator. It is the vocabulary of `MutationFilters`.

**MutationFilters** is `main` of driver-cxx from the choice of mutators to the Elements
reporter, with worker threads: the optional AST search (`ASTFinder`, `ASTVisitor`,
`ASTMutationStorage`), the search for points, the mutation filters one after another,
`ASTStorage::findAST` with its mutex, junk detection, and the source information that the
reporter asks for. A translation unit is the sequence of its declarations and expressions
in the order a visitor meets them, each extending to a position `last`; an expression
carries its operator, type and file, the line and column of its operator or member and of
its beginning, and whether either is in a macro. What clang compiles an operator to
(`Opcodes`) is external. The debug information may have another name for a header than
clang (`program.renamed`); `findFileEntry` then falls back to the unit's own file, and the
point is looked for where that file has its line and column (`Place`, with `twin` for what
is there). The AST search records a call at its beginning and an operator at the operator
(`SavedAt`), nothing for an expression that begins in a macro, and junk detection looks at
the operator or the member. Files that are not there end the program where the code says
so (`InvalidUnit`, `InvalidSourceFile`). Keys of `ASTMutationStorage` are computed in an
int that wraps around (`Wrap`, with `IntMax` for its largest value). A failed assertion or
a dereferenced null AST is a value of `abort` that ends the run. `CompilationDatabase`
works on commands as sequences of words, which `filterFlags` and the removal of the file
name thin out, and on paths as directory, name and whether they contain dots. In a command
`"file"` is the file's name as its entry has it, which is the only one the code removes,
and `"relative"` any other; a word may have escapes, which are undone for the compilation
database and not for the bitcode, and may belong to the word before, in quotes that hold a
blank, which `flagsFromString` does not see. `WellFormed` says what the model takes for
granted of clang and of debug information: finitely many units, expressions nested in one
another, no floating point operands of `%`, shifts and bitwise operators, absolute paths,
headers that are not units. `Alone` are the points that share their file with no other
unit and their line and column with no other expression, in places for which the hash does
not overflow; where it is a condition of a property, two expressions share a key of
`ASTMutationStorage` otherwise.

**LogicalMutators** is the branch rewriting of `LogicalAndToOr` and `LogicalOrToAnd` on
control flow graphs: blocks in order, one PHI node and one terminator each. A behaviour
picks a program, a mutator and values for the operands, finds a point, applies the
mutation to the clone and executes it block by block. The graphs are those clang makes of
conditions at -O0; that lowering is the model's input and not Mull's. `Verified` is what
LLVM's verifier accepts, `MergesOneCondition` and `Lowered` are what clang's code
generation gives: a chain that is branched on has one branch per operand
(`BranchesOnOperands`), a condition whose value is needed merges each operand with what is
on its right (`MergesOperands`). `MCLogicalMutators` produces such graphs, and TLC
evaluates the assumption on all of them. `Meaning` is what a condition means in C++.

Definitions keep the names of the code; the exact lines are in `map` of PROJECT.json.
Operators whose comment begins with `Mutant:` are deliberately wrong versions of the
definition after them. They are used by no specification; `mutants` in PROJECT.json
pairs each with the property that must fail when it takes the definition's place.

## Runs

| Run | Shows |
|---|---|
| `task_executor` | For up to five items and three tasks: iterators stay in the input, no item belongs to two workers, `out` is what one loop would give, and the executor implements `OrderedMap` with its fairness, so `execute` returns. |
| `timer_sandbox` | Two runs at the same time, a thread that prints progress, any system call failing, strict mode: `Passed` only for a test that came to a good end in this run's child, every other verdict names what ended the child, no text of a child that ended by itself and printed no NUL is lost, and once a pipe is read no new process gets its write end. |
| `timer_sandbox_live` | Without strict mode: `run` returns whatever the tests do. |
| `watchdog_sandbox` | Two runs at the same time, any fork failing: no false pass, no process left behind, a valid result unless a fork inside the watchdog failed, and `run` returns unless another thread has reaped its watchdog or some watchdog is blocked on its locked copy of the diagnostics mutex. |
| `call_tree` | Every program of four functions and four calls: pops are defined, parents have no cycle, the assertion of `fillInCallTree` holds, entries name real callers as long as nothing was unwound, the tree has each called function once, stored functions are as far from the test body as they say, and the collection ends. |
| `mutant_run` | Four mutants of two functions, two of them with one identifier, two tests, all outcomes, with and without fail fast and dry run, lists of reporters with each of the three, with and without a database of an earlier run, rows that SQLite refuses: a test sees exactly one mutation, that of the clone with its mutant's name, all reporters call a mutant killed exactly when one of its tests detects it, the database has no result or those of one run, all of them unless a row was refused, and the run ends. |
| `driver` | Two modules with declarations, two tests with several outcomes, three settings of the path filters, with and without AST and junk filters, any content of the cache and another Mull writing to it: callbacks name the function that runs them, the cache is whole when nobody is writing or was killed, every early stop has a known reason (half an object file in the cache, a point the AST search cannot be asked about, a point whose unit was not parsed or that has no line or no column), the points are exactly the wanted ones, one for each low level mutation, with exactly the passed tests that reach them, in the order in which tests reach functions, and the search ends. |
| `logical_mutators` | Every condition of two and three operands in three contexts, every point of both mutators, every assignment: each jump to a merging block has exactly one value there, in a chain the mutant combines two neighbours with the other operator and leaves the rest, where the operands are merged it is the condition with that operator replaced, and a condition of two operands is a point of the mutator that its operator is announced by, and of no other, unless the operand that is compared is negated. |
| `mutation_filters` | Every operator with every type, 34 layouts (headers, also under another name or missing, system headers, macros, calls on objects, main, nested functions, files of one name, paths with dots, relative file names, a file that cannot be parsed, lines and columns beyond the hash, escaped and joined words), fourteen command lines, two workers: after junk detection exactly the mutators of the written operator are left, the instruction put in is the one the announced operator is compiled to, no worker uses a replaced AST, every AST is made with the flags of its own file, the white list of the AST search agrees with junk detection on what it can see outside of main, and each point is reported with its own source expression. The exceptions of each are in the list below. |

Three runs end in a violation, each of a statement that an assertion, a test or the
documentation makes (quoted under `findings`):

| Run | What the code does |
|---|---|
| `timer_sandbox_progress` | `fork` while another thread is between `fprintf` and `fflush` of `Diagnostics::progress` copies Mull's text into the child, whose flush writes it into the captured output. |
| `watchdog_sandbox_two` | `wait(nullptr)` after the wait for the own watchdog takes another thread's watchdog; that thread's `waitpid` then fails for ever and its loop spins. |
| `mutation_filters_lookup` | `ASTMutationStorage::mutationExists` asserts that something was recorded for the file and the mutator. Nothing is for a header, for a unit compiled by a relative name, or for a mutator without any expression in the file; with the default mutators that includes the boundary mutators of a file that has comparisons, because `ASTVisitor` records each expression for one mutator only. |

More cases are written into the properties as exceptions, because the code has
nothing against them:

- a test that exits with 239 counts as timed out (`VerdictNamesTheFate`); a child that
  inherits the locked diagnostics mutex and has to print blocks before its timer is
  armed, and `run` with it (`RunReturns` of `TimerSandbox`); of a read with a NUL in it the
  rest is dropped (`OutputIsWhole`);
- a fork that fails in the watchdog leaves the status `Invalid`, which the callers assert
  never happens (`ResultIsValid`); a worker that the kill has not reached yet may
  overwrite `Timedout` with its own status (`NoFalsePass` is stated so that it holds); a
  watchdog with a locked mutex whose fork fails never exits, and keeps the write ends it
  inherited (`RunReturnsUnlessRobbed`);
- the second point of two with one identifier runs the clone of the first and is reported
  with its results (`OnlyThisMutant`, `KilledIffDetected` through `Named`);
- rows that SQLite refuses without anyone looking are missing from a database that is
  committed (`DatabaseIsWhole`, `KilledIffDetected`);
- unwinding runs no leave callback, so dead frames stay on the callback stack and become
  parents (`ParentIsACallerUntilUnwound`); only the first caller of a function is kept, so
  a function near the test may be missed (`StoredWereReached` is one direction only);
- a truncated file of the cache that looks like an object file is loaded; a point
  whose location has a line and no column, whose file is not a regular one, or whose file
  and mutator the AST search has not recorded fails the assertions of `ASTMutationFilter`
  and `mutationExists`; a unit without an AST is used by junk detection all the same (all
  `StopsAreExplained`);
- the mutant of a multiplication of unsigned numbers is a signed division, that of `<<` of
  signed numbers a logical shift, and `==` and `!=` of floating point numbers are not
  exchanged for NaN (`Deviates`); `x--` of floating point numbers has no point;
- `cxx_rshift_to_lshift` describes itself as "Replaces << with >>" and gives `>>` as its
  replacement (lib/Mutators/CXX/BitwiseMutators.cpp:45, docs/generated/Mutators.rst:72),
  while it replaces `>>` by `<<`; the table has what the code announces, and `Deviates`
  names `>>`, so that the property holds only because the mutant is *not* the announced
  one;
- the patterns tell `&&` from `||` by the targets of one branch, which a negation swaps:
  `a && !b` under an `if` and `!a && b` in a loop are points of `LogicalOrToAnd`, whose
  description says "Replaces || with &&" (lib/Mutators/CXX/LogicalOrToAnd.cpp:22,
  docs/generated/Mutators.rst:36), and not of `LogicalAndToOr`; `PointIsOfItsOperator` is
  about conditions without that negation;
- negated operands of a longer chain change which operands are combined
  (`ChainMutantIsLocal`); in `a && b && c` the second point gives `a && (b || c)`; pattern
  1 leaves an entry for a jump that no longer exists in the PHI node of the old target;
- `-c` in a compile command drops the next word, whatever it is; the file stays among the
  flags if it is named otherwise than in its entry (which for the bitcode is the absolute
  path) and not after `-c`; words are cut at blanks in quotes; escapes are undone in
  arrays, which no shell has read, and not in the bitcode's flags (`FlagsAreTheFiles` is
  about commands without these, `Plain`);
- a point in a header that clang has under another name is compared with what is at its
  line and column in the unit's own file (`SurvivorsMatchSource`, `MutantIsTheReplacement`
  and `SourceInfoIsOwn` leave these points out);
- declarations nested in main end the skipping of main; the white list removes points that
  are not junk if their expression begins in a macro, or is a call on an object, which is
  recorded where the object is (`WhitelistAgrees`);
- an expression of a header at the line and column of one in the file shares its key, and so
  do different places once the hash overflows, with a 32 bit int from line + column = 46341
  on, though the comment on `lineColumnHash` calls it unique (`Alone` in `SourceInfoIsOwn`
  and `WhitelistAgrees`);
- without compilation information there is no junk detection, nothing is recorded,
  and the Elements reporter fails an assertion of `getMutation`.

### Bounds

- *TaskExecutor*: `MaxIn = 5`, `MaxTasks = 3` contain every shape of a division: empty
  input, one item, fewer items than tasks, even batches, remainders 1 and 2, no task,
  one task. The proofs remove the bounds.
- *Sandboxes*: two runs at a time show everything one run can do to another. A pipe
  holds two bytes, a read takes one or two, and the two tests print two bytes between
  them, so that a NUL can be alone, first or last in a read; with Mull's copied progress
  text, which is one more, a pipe can be full. In `timer_sandbox_live` tests print nothing
  (`MaxWrites = 0`), which leaves Mull's text as the only output; that a child blocked
  on a full pipe ends with its alarm is seen in `timer_sandbox` as a state with fate
  `"alarm"`. A pipe that could not be opened without strict mode is a stream that is
  not captured; the runs have that for both streams at once (`Capture`).
- *DynamicCallTree*: four functions and four calls allow direct and mutual recursion,
  a function that is a root in one call and a child in another, a chain longer than
  `MaxDistance = 2`, and calls after unwinding; the test body has index 2, so that
  functions with smaller and with larger indices come before it in the mapping.
- *MutantRun*: one function with three mutants, of which two have one identifier (the
  trampoline is set and restored three times), one with one mutant, one without; the tests
  of the first are those of the second and one more; the points of the first are not
  adjacent in the list. One status other than `Passed`: no code distinguishes them.
- *MutantRun*'s reporters: no reporter asked for, which means the IDE reporter, and a list
  with the Elements reporter and two that write the same database. SQLite refuses at most
  one row of a table (`MaxRefused`), from any place.
- *LogicalMutators*: three operands are the least for which several second branches
  match and for which grouping matters. The three contexts are those in which clang
  lowers a condition differently.
- *MutationFilters*: every operator and type alone, because the tables treat expressions
  one by one; the layouts bring together at most three expressions, which is what keys,
  flags and nesting can confuse. Two workers are enough for two to want one AST. `IntMax` is
  511, since TLC itself has 32 bit integers: one layout has two places with one hash.
- *Driver*: two modules, so that one has an offset behind the other and both have
  declarations among their definitions; functions without location, on an excluded
  path, and instructions of each kind of location, one with two low level mutations of one
  mutator; a unit that cannot be parsed, a file that is not there and one without records
  of the AST search; a function that is the body of one
  test and reached by another. The cache has one key per module and modules do not
  interact through it. The other Mull writes each file once.

### Fairness

Threads and processes that can run eventually do (weak fairness of each thread's and
each process's steps), an armed timer goes off and a signal is delivered. Nothing is
assumed of the tests: the actions of the program under test have no fairness, so
"`run` returns" includes tests that hang. `MutantRun` assumes that a sandboxed test
ends, which is what the sandbox modules show. In `TaskExecutor` a task's step is
fair: tasks run their tests through the sandbox. In `DynamicCallTree` only the task
that collects is fair, the program may stop anywhere. In `Driver`
Mull's own steps are fair and the other Mull's are not.

## Proofs

`TaskExecutor_proofs` holds for every `MaxIn` and `MaxTasks`, every output of the
tasks and every interleaving:

- `TypeCorrect`, `BatchesExclusive`, `MergeComplete`, `OutputCorrect`: the type
  invariant and `ExclusiveItems`, `MergeIsComplete`, `OutputInOrder` are invariants;
- `LoopImplemented`: `Spec => OrderedMap!Spec`, every step is an appended chunk, a
  return or a stutter.

None of these is inductive by itself. `IInv` adds where the calling thread is relative
to its workers (`PhaseInv`), the closed form of the spawn loop's iterator (`CutInv`:
after `k` batches it stands at `k * (n div m) + min(k, n mod m)`), consecutive
batches and counters that agree with the iterators (`BatchInv`), and what the storages
hold in terms of the loop (`StorageInv`, `OutInv`). `CutInv` is the heart: the code
computes the size of batch `k` as a rounded-up quotient of `n - k`, and the lemmas
`CeilingOfShifted` and `CutStep` show that this is the quotient of `n`, plus one
for the first `n mod m` batches, so the iterator reaches exactly `in.end()`.
Assumptions: the bounds are naturals, and `LoopOut` is the loop's result as the
equation over `Output` says (`TaskExecutor.tla`).

`TimerSandbox_proofs` and `WatchdogSandbox_proofs` hold for any number of threads and
runs, whatever call fails. `VerdictNamesTheFateHolds`, `OutputIsWholeHolds` and
`NoNewWriterWhileReadingHolds`: the invariant follows one run from both sides, where the
thread can be when its child is at a given place (`OrderInv`), what the wait status and
the shared memory say about what has happened (`FateInv`), that nothing a result is made
from changes once it is made (`ResultInv`), who has Mull's own write end (`WriterInv`),
and that of each stream whose test has printed no NUL the text of the test in the result,
the pipe and the child's buffer are together what it printed (`OutputInv`). That sum is
where the order matters: pending output is flushed before the child is gone, and the pipe
is empty before Mull goes on. However a read is cut, it takes from the pipe what it
appends (`OwnConcat`, `SplitAt`), because a pipe into which only such a test writes has no
NUL (`NulFree`), and then `CString` is the identity (`CStringIs`). `NoFalsePassHolds`,
`NoProcessLeftHolds` and `ResultIsValidHolds`: every wait in the watchdog is tied to its
two children (`ChildInv`), the thread's wait to the watchdog (`ParentInv`), and the shared
status to how the test really ended (`WorkerInv`, `SharedInv`); it is needed that a status
is written before its writer can be reaped. That `wait(nullptr)` takes other threads'
watchdogs breaks none of the three; what it breaks is that `run` returns, and a stuck
watchdog breaks the same and no more (`ForkChildBlocksKeeps`). The assumptions are the
ranges of the constants.

`DynamicCallTree_proofs` holds for every number of functions, every program, with and
without unwinding, every depth and number of calls.

- `ParentsAcyclic`, `PopDefined`, `AssertionHolds`. Acyclicity is stated without paths: a
  nonempty set of functions that contains the parent of each of its members contains a
  root. A new entry whose parent has an entry keeps this, and so does making a function a
  root. The invariant adds that the program's stack is no longer than the callbacks' stack,
  that everything on the latter has an entry (`StackIsRecorded`), and that during the
  construction of the tree a parent is either still in the mapping or already has a node
  (`ParentsAreKnown`); the assertion follows from it.
- `CallersAreRecorded` and `EveryCallIsInTheTree`. `TreeInv` says that the called functions
  are those that wait in the mapping and those in the tree (`CalledInv`), that nothing
  hangs in two places (`HangsOnce`) or on the wrong level (`EdgesInv`), and that the active
  calls of `fillInCallTree` are a chain of parents (`ChainInv`). `NoParentCycle` enters
  again: no function occurs twice in that chain, so none is attached twice.
- `StoredAreReached`, an action property. `SearchInv` says what the two searches still
  have to visit: queued nodes are distinct, none of them is collected, and each
  is a child of something visited before. The tree has each function once, so nothing is
  collected twice; a collected function at level `d` extends a walk of `d - 1` calls
  (`DistanceInv`).

`MutantRun_proofs` holds for any functions, points, tests, outcomes and lists of
reporters. `OnlyThisMutantHolds` follows the preparation loop by loop (`PrepareInv`: what
the entries already handled look like, and that the others are untouched), the compiled
program (`ObjectInv`: each clone has its own mutation, each original none) and the
trampolines (`TrampolineInv`: all lead to their originals, but that of the point under
test, which leads to the clone with its name, and for which the code remembers the right
address to put back; `NamedFacts`: that clone is one of a point of the same function).
`KilledIffDetectedHolds` and `DatabaseIsWholeHolds` add that there is one result for each
handled pair, in order (`RowsInv`), that it is what the test did, or `FailFast` for a
mutant that is detected (`StatusInv`), and how far the transaction and the other reports
have come (`DatabaseInv`, `ListsInv`). A content of the database is a report with some
rows of each table (`IsReport`), and with all of them as long as none was refused
(`Taken`); the count of rows of an identifier is that of its points (`RowsPerIdentifier`).
Assumptions: no point and no test of a point comes twice, which `PointsAreExactHolds`
shows of Driver's output, originals are not clones, and points of one identifier are in
one function.

`Driver_proofs` holds for any number of modules, mutators, tests and functions.

- `CacheCorrect`: of each file, while it is truncated, the writer that truncated it last is
  still at work or was killed (`FileInv`).
- `CallbacksNameTheCalleeHolds`: a module's definitions stand in `functions` from its offset
  on, and modules recorded later do not move them (`Placed`, `Recording`); an object has
  the module's definitions in order, or is half a file and stops Mull (`ObjectInv`).
- `StopsAreExplainedHolds`, `PointsAreExactHolds`, `MutantsKeepOrderHolds`: `PipelineInv`
  has one conjunct for each step of `Driver::Run`, which gives its output as a function of
  what the tests did (`ran`) and of how far the step has come. Merging keeps functions in
  the order of their first hit and collects the hits of each (`UnderIs`); the filters keep
  a subsequence; the search has, for the functions before the current one and the mutators
  before the current one and the instructions before the current one, exactly their
  points, one for each low level mutation (`SearchIs`, `ComesFrom`, `OrderIs`). For the
  stops it is needed which filters have been passed when one of them stops Mull
  (`MutationFiltersAre`), and that the AST filter leaves only points it could answer for
  (`Answered`).

These are facts about loops over sequences, so they need induction over data. No prover
here instantiates an induction theorem with a predicate, but a property given as a *set*
of numbers needs no such instance: `SetInduction` states that a set of naturals with 0 and
with the successor of each of its members has all of them (from `LeastNatural`), and each
lemma about `Keep` (`KeepIsRecursive`, `KeepPicks`, `KeepConcat`, `KeepInjective`, ...)
names the set for which it is used. The assumptions
(`DriverAssumption`) are that no module, function, instruction, mutator or test is listed
twice or belongs to two owners, and what the call tree promises of a test: that
the list of what it reached has no function twice is part of `StoredAreReached`.

`LogicalMutators_proofs` is about conditions of any number of operands, both mutators, all
points and every truth of the operands:

- `EveryJumpHasOneValueHolds` needs no shape of the function, only `Verified` and
  `MergesOneCondition`. The rewritten branch drops one edge and adds one
  (`Redirected`, `Exchanged`), and the PHI nodes of the old and the new target change by
  the entries for exactly these. Without `MergesOneCondition` it is false: if two branches
  into a merging block had both targets in common, the new jump would be one the block
  already has a value for, and `AcceptJump` would add a second.
- `ChainMutantIsLocalHolds`: in a chain the branch of operand `i` decides the chain or
  leads to `i + 1`; patterns 1 and 2 send the undecided side past the operand it is paired
  with and the deciding side to the next operand (`ChainApplied`). `ChainInv` says of a
  run that stands at an operand what the operands so far have left open, so the result
  is the chain with the two neighbours combined by the other operator.
- `MergedMutantIsExactHolds`: pattern 3 makes the clone the lowering of the condition
  with its first operator replaced (`MergeMutant`), and `MergeInv` follows the values
  through the PHI nodes. `Meaning` is recursive; `MeaningIs` replaces it by the operand at
  which evaluation stops (`ShortCircuit`), which is what a run finds out.
- `PointIsOfItsOperatorHolds`: from the same facts about which branches match.

`LogicalMutatorsAssumption` also asks that operands are different atoms, and that no block
is named like a constant.

`MutationFilters_proofs` is about any number of workers, any program and any command line:

- `UnitsStayHolds`. A worker parses only while it has the mutex and only a path that the
  table does not have (`ParseInv`), and what it visits is what the table has (`VisitInv`);
  two workers of one path cannot both be parsing, and a parse under one path replaces
  nothing.
- `SurvivorsMatchSourceHolds`, `MutantIsTheReplacementHolds`. `PipelineInv` ties the
  filters still to come to the points that are left (`StagesInv`), and says that the
  workers lose no item: it is in a queue, or it was kept exactly if the filter accepts it
  (`QueuesInv`). So the survivors are what all filters accept, whatever the schedule. A
  point in a file that both have under one name is looked for at its own place
  (`OwnPlace`, `PlacesAre`). What is left are facts about the tables, for every operator
  and type: the visitors of `isJunk` accept a mutator's operator and no other
  (`VisitorsFit`), and what the mutators put in place of an opcode is what the announced
  operator compiles to (`AddReplaces`, `ShiftReplaces`, ... , one lemma for each group of
  mutators).
- `WhitelistAgreesHolds`. `StorageInv` has the tables that the AST search leaves, and
  `BinaryMutationsFit` that `BINARY_MUTATIONS` and the visitors of junk detection pair the
  same mutators with an operator; `SkippedAfterMain` turns the visitor's flag into the
  last declaration before an expression. A point that nothing else is saved at the place
  of is found there exactly if it is `Visible`.
- `SourceInfoIsOwnHolds`. `SourceInv` says where an entry of the storage comes from: the
  AST search or a point's own visit; and that a surviving point has one. It rests on
  `PlacesHaveTheirOwnKey`: the hash of line and column is Cantor's pairing function and so
  injective on all naturals for which the product is not larger than `IntMax`, where
  wrapping around does nothing (`HashOfFits`), by comparing triangular numbers
  (`Triangle`, `TriangleGrows`). For a call nested in others the innermost visitor match
  is the call itself (`CallIsSmallest`), by the nesting in `WellFormed`.
- `FlagsAreTheFilesHolds`. `FlagsInv`: an AST has the flags that the database has for its
  path. The lookup by file name alone never finds anything (`NoBareEntry`), since entries
  have a directory (`CommandsAssumption`), and under the condition of the property
  `filterFlags` drops nothing but `-c` and the file (`FileFiltered`); of plain commands
  nothing is joined (`NothingJoined`) and nothing is escaped but for a shell
  (`NothingEscaped`), so the flags from the bitcode and those from the database are the
  words of the command (`FlagsFromBitcode`, `FlagsFromDatabase`). Words that are kept are
  a set of positions (`FilterFlags`), so no induction over words is needed.

All invariants of the passing runs are theorems. Only model-checked is everything with
fairness (`RunReturns`, `RunReturnsUnlessRobbed`, `CollectionEnds`, `RunEnds`, `SearchEnds`,
`ImplementsFairLoop`), since the prover has no rule for it.

## Not modelled

Generation and cloning of LLVM IR as such, clang's AST and its traversal order, finding
of tests, loading of bitcode, object files and dynamic libraries, the JIT with its
resolvers, the text of reports and of the progress bar, option parsing, metrics and
configuration: LLVM's, clang's or the file system's data, without control of Mull's own
that a model could check. Running times and timeouts in milliseconds are abstracted to
timers that may go off at any moment. The mutation score is floating point. Of source
locations: expressions that only end in a macro, exclusion patterns that match one of two
names of a header and not the other, and member calls at whose beginning in a renamed
header's twin there is another void call. SQLite may also roll back a whole transaction by
itself; the model has single rows refused.
`TaskExecutor<SingleTaskTag>` calls one function in the calling thread.

## Plan

Done: the executor, both sandboxes, the call tree, the driver with the cache, mutant
preparation and execution, the reporters, the mutators and their tables, AST search, junk
detection and the filters, and the proofs of all their invariants. Left, in this order:

1. `ObjectCache`'s other files: mutated objects, whose names are digests of their
   points, and what a truncated one does to `MutantRun`.
2. `Program::addBitcode`, so that the assumption about modules that define the callbacks
   becomes a run.
3. Symbol resolution of `JITEngine` and the resolvers.
