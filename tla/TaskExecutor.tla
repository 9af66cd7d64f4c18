---------------------------- MODULE TaskExecutor ----------------------------
(***************************************************************************)
(* TaskExecutor<Task>::execute with the threads it starts: the workers,    *)
(* each running one task over its own batch of `in`, and the progress      *)
(* reporter.  The main thread cuts `in` into batches, starts the threads,  *)
(* joins them and moves the workers' storages into `out`.                  *)
(***************************************************************************)
EXTENDS Integers, Sequences, Functions

CONSTANTS MaxIn,     \* bound: in.size() <= MaxIn
          MaxTasks,  \* bound: tasks.size() <= MaxTasks
          Result,    \* the values a task pushes into its storage
          Output,    \* Output[i]: what a task pushes for the i-th item
          LoopOut    \* LoopOut[k]: what a loop over items 1..k would push

ASSUME BoundsAssumption == MaxIn \in Nat /\ MaxTasks \in Nat

ASSUME OutputAssumption == Output \in [1..MaxIn -> Seq(Result)]

ASSUME LoopOutAssumption ==
  /\ LoopOut \in [0..MaxIn -> Seq(Result)]
  /\ LoopOut[0] = << >>
  /\ \A k \in 1..MaxIn : LoopOut[k] = LoopOut[k - 1] \o Output[k]

Worker == 1..MaxTasks

VARIABLES
  inSize, taskCount,  \* in.size(), tasks.size()
  pc,                 \* where the thread that called execute is
  spawned,            \* workers started by the spawn loop
  end,                \* its iterator: items already handed out
  first, last,        \* worker w owns the items first[w]+1 .. last[w]
  pos,                \* items of `in` before worker w's iterator
  wpc,                \* where worker w is
  storage, counter,   \* storages[w], counters[w]
  rpc,                \* where the reporter thread is
  summed,            \* counters the reporter has read in this round
  current,            \* their sum
  previousValue,      \* the progress last printed
  merged,             \* storages already moved into out
  out

mainVars == << inSize, taskCount, pc, spawned, end, first, last >>
workVars == << pos, wpc, storage, counter >>
reportVars == << rpc, summed, current, previousValue >>
vars == << mainVars, workVars, reportVars, merged, out >>

-----------------------------------------------------------------------------

Sequential == taskCount = 1 \/ inSize = 1

Workers == IF inSize <= taskCount THEN inSize ELSE taskCount

\* Mutant: every batch gets an extra item.
TaskBatchCeil(k) == inSize \div Workers + 1

\* taskBatches(in.size(), workers)[k], with k counted from 0 as in the code.
TaskBatch(k) ==
  (inSize - k) \div Workers + (IF (inSize - k) % Workers # 0 THEN 1 ELSE 0)

Counters == IF Sequential THEN 1 ELSE Workers

Init ==
  /\ inSize \in 0..MaxIn
  /\ taskCount \in 0..MaxTasks
  /\ pc = "execute"
  /\ spawned = 0
  /\ end = 0
  /\ first = [w \in Worker |-> 0]
  /\ last = [w \in Worker |-> 0]
  /\ pos = [w \in Worker |-> 0]
  /\ wpc = [w \in Worker |-> "idle"]
  /\ storage = [w \in Worker |-> << >>]
  /\ counter = [w \in Worker |-> 0]
  /\ rpc = "idle"
  /\ summed = 0
  /\ current = 0
  /\ previousValue = 0
  /\ merged = 0
  /\ out = << >>

-----------------------------------------------------------------------------
(* The thread that calls execute.                                          *)

NothingToDo == taskCount = 0 \/ inSize = 0

EarlyReturn ==
  /\ pc = "execute"
  /\ NothingToDo
  /\ pc' = "done"
  /\ UNCHANGED << inSize, taskCount, spawned, end, first, last,
                  workVars, reportVars, merged, out >>

\* Mutant: std::advance is forgotten, every batch begins at in.begin().
StartTaskNoAdvance(n) ==
  LET w == spawned + 1 IN
  /\ first' = [first EXCEPT ![w] = end]
  /\ pos' = [pos EXCEPT ![w] = end]
  /\ last' = [last EXCEPT ![w] = end + n]
  /\ wpc' = [wpc EXCEPT ![w] = "item"]
  /\ UNCHANGED end
  /\ spawned' = w

\* Starts task number spawned+1 on the next n items.
StartTask(n) ==
  LET w == spawned + 1 IN
  /\ first' = [first EXCEPT ![w] = end]
  /\ pos' = [pos EXCEPT ![w] = end]
  /\ last' = [last EXCEPT ![w] = end + n]
  /\ wpc' = [wpc EXCEPT ![w] = "item"]
  /\ end' = end + n
  /\ spawned' = w

StartReporter == rpc' = "read"

\* executeSequentially up to the call of the task: the only "worker" is the
\* calling thread itself, and it pushes into out.
ExecuteSequentially ==
  /\ pc = "execute"
  /\ ~NothingToDo
  /\ Sequential
  /\ StartTask(inSize)
  /\ StartReporter
  /\ pc' = "join"
  /\ UNCHANGED << inSize, taskCount, storage, counter,
                  summed, current, previousValue, merged, out >>

ExecuteInParallel ==
  /\ pc = "execute"
  /\ ~NothingToDo
  /\ ~Sequential
  /\ pc' = "spawn"
  /\ UNCHANGED << inSize, taskCount, spawned, end, first, last,
                  workVars, reportVars, merged, out >>

SpawnWorker ==
  /\ pc = "spawn"
  /\ spawned < Workers
  /\ StartTask(TaskBatch(spawned))
  /\ UNCHANGED << inSize, taskCount, pc, storage, counter,
                  reportVars, merged, out >>

SpawnReporter ==
  /\ pc = "spawn"
  /\ spawned = Workers
  /\ StartReporter
  /\ pc' = "join"
  /\ UNCHANGED << inSize, taskCount, spawned, end, first, last,
                  workVars, summed, current, previousValue, merged, out >>

\* Mutant: only the reporter is joined.
ReporterJoined == rpc = "exit"

\* All the joins of a run: a joined thread stays finished, so waiting for
\* the threads one after the other is waiting for all of them.
AllJoined == (\A w \in 1..spawned : wpc[w] = "exit") /\ rpc = "exit"

Join ==
  /\ pc = "join"
  /\ AllJoined
  /\ pc' = IF Sequential THEN "done" ELSE "merge"
  /\ UNCHANGED << inSize, taskCount, spawned, end, first, last,
                  workVars, reportVars, merged, out >>

\* Mutant: the storages are moved from the last to the first.
MergeStorageBackwards ==
  /\ pc = "merge"
  /\ merged < Workers
  /\ out' = out \o storage[Workers - merged]
  /\ merged' = merged + 1
  /\ UNCHANGED << mainVars, workVars, reportVars >>

MergeStorage ==
  /\ pc = "merge"
  /\ merged < Workers
  /\ out' = out \o storage[merged + 1]
  /\ merged' = merged + 1
  /\ UNCHANGED << mainVars, workVars, reportVars >>

Return ==
  /\ pc = "merge"
  /\ merged = Workers
  /\ pc' = "done"
  /\ UNCHANGED << inSize, taskCount, spawned, end, first, last,
                  workVars, reportVars, merged, out >>

Main ==
  \/ EarlyReturn \/ ExecuteSequentially \/ ExecuteInParallel
  \/ SpawnWorker \/ SpawnReporter \/ Join \/ MergeStorage \/ Return

-----------------------------------------------------------------------------
(* A task: the loop `for (it = begin; it != end; ++it, counter.increment())`*)
(* that every class under Parallelization/Tasks runs.                      *)

\* Mutant: the workers are given out instead of storages.back().
ProcessItemShared(w) ==
  /\ wpc[w] = "item"
  /\ pos[w] < last[w]
  /\ out' = out \o Output[pos[w] + 1]
  /\ wpc' = [wpc EXCEPT ![w] = "count"]
  /\ UNCHANGED << mainVars, pos, storage, counter, reportVars, merged >>

ProcessItem(w) ==
  /\ wpc[w] = "item"
  /\ pos[w] < last[w]
  /\ IF Sequential
     THEN out' = out \o Output[pos[w] + 1] /\ UNCHANGED storage
     ELSE /\ storage' = [storage EXCEPT ![w] = @ \o Output[pos[w] + 1]]
          /\ UNCHANGED out
  /\ wpc' = [wpc EXCEPT ![w] = "count"]
  /\ UNCHANGED << mainVars, pos, counter, reportVars, merged >>

Increment(w) ==
  /\ wpc[w] = "count"
  /\ counter' = [counter EXCEPT ![w] = @ + 1]
  /\ pos' = [pos EXCEPT ![w] = @ + 1]
  /\ wpc' = [wpc EXCEPT ![w] = "item"]
  /\ UNCHANGED << mainVars, storage, reportVars, merged, out >>

FinishTask(w) ==
  /\ wpc[w] = "item"
  /\ pos[w] = last[w]
  /\ wpc' = [wpc EXCEPT ![w] = "exit"]
  /\ UNCHANGED << mainVars, pos, storage, counter, reportVars, merged, out >>

Task(w) == ProcessItem(w) \/ Increment(w) \/ FinishTask(w)

-----------------------------------------------------------------------------
(* progress_reporter::operator(): the counters are read one at a time while*)
(* the workers go on incrementing them.                                    *)

ReadCounter ==
  /\ rpc = "read"
  /\ summed < Counters
  /\ current' = current + counter[summed + 1]
  /\ summed' = summed + 1
  /\ UNCHANGED << mainVars, workVars, rpc, previousValue, merged, out >>

\* The round ends: with nothing counted the loop continues without printing,
\* with everything counted it breaks.
ReportRound ==
  /\ rpc = "read"
  /\ summed = Counters
  /\ previousValue' = IF current = 0 THEN previousValue ELSE current
  /\ rpc' = IF current # 0 /\ current = inSize THEN "exit" ELSE "read"
  /\ summed' = 0
  /\ current' = 0
  /\ UNCHANGED << mainVars, workVars, merged, out >>

Reporter == ReadCounter \/ ReportRound

-----------------------------------------------------------------------------

Done == pc = "done" /\ UNCHANGED vars

Next == Main \/ (\E w \in Worker : Task(w)) \/ Reporter \/ Done

Spec == Init /\ [][Next]_vars

\* The operating system runs every thread that can run, and tasks return.
Fairness ==
  /\ WF_vars(Main)
  /\ \A w \in Worker : WF_vars(Task(w))
  /\ WF_vars(Reporter)

FairSpec == Spec /\ Fairness

-----------------------------------------------------------------------------
(* Properties.                                                             *)

MainTypeOK ==
  /\ inSize \in 0..MaxIn
  /\ taskCount \in 0..MaxTasks
  /\ pc \in {"execute", "spawn", "join", "merge", "done"}
  /\ spawned \in 0..MaxTasks
  /\ end \in 0..MaxIn
  /\ merged \in 0..MaxTasks

WorkTypeOK ==
  /\ first \in [Worker -> 0..MaxIn]
  /\ last \in [Worker -> 0..MaxIn]
  /\ pos \in [Worker -> 0..MaxIn]
  /\ wpc \in [Worker -> {"idle", "item", "count", "exit"}]
  /\ counter \in [Worker -> 0..MaxIn]

ReportTypeOK ==
  /\ rpc \in {"idle", "read", "exit"}
  /\ summed \in 0..MaxTasks
  /\ current \in Nat
  /\ previousValue \in Nat

DataTypeOK ==
  /\ storage \in [Worker -> Seq(Result)]
  /\ out \in Seq(Result)

\* The variables hold what their declarations in the code can hold; iterators
\* and counters never leave the input.
TypeOK == MainTypeOK /\ WorkTypeOK /\ ReportTypeOK /\ DataTypeOK

\* No two workers ever own the same item.  Tasks change their items in place
\* (a Bitcode, a module) without a lock, so this is what makes them safe.
ExclusiveItems ==
  \A v, w \in 1..spawned : v # w => last[v] <= first[w] \/ last[w] <= first[v]

\* When execute returns, out is what one loop over in would have produced,
\* whatever the schedule and the number of tasks (with no task: nothing).
OutputInOrder ==
  pc = "done" => out = IF taskCount = 0 THEN << >> ELSE LoopOut[inSize]

\* taskBatches' `assert(s == n)`, and the storages are complete when they
\* are moved: the join really came first.
MergeIsComplete ==
  pc = "merge" => /\ end = inSize
                  /\ \A w \in 1..Workers : pos[w] = last[w] /\ wpc[w] = "exit"

\* What out holds, seen as a prefix of the loop over in.
Appended ==
  IF NothingToDo THEN 0
  ELSE IF Sequential THEN pos[1] + (IF wpc[1] = "count" THEN 1 ELSE 0)
  ELSE IF merged = 0 THEN 0 ELSE last[merged]

Loop == INSTANCE OrderedMap
          WITH total <- IF taskCount = 0 THEN 0 ELSE inSize,
               appended <- Appended,
               returned <- (pc = "done")

\* Every step of the executor is a step of the plain loop: out grows only by
\* the outputs of the next items of in, in order, and is left alone once
\* execute has returned.
ImplementsLoop == Loop!Spec

\* ... and the loop comes to its end: the counters add up to the total, so the
\* reporter leaves its loop, every join is over, and execute returns.
ImplementsFairLoop == Loop!FairSpec
=============================================================================
