-------------------------- MODULE WatchdogSandbox --------------------------
(***************************************************************************)
(* ForkWatchdogSandbox::run: per run a watchdog process that forks a timer *)
(* and a worker, waits for the first of them to end, kills the other and   *)
(* leaves the verdict in shared memory.  Several threads of Mull call run  *)
(* at once; they share one set of child processes.  The contents of the    *)
(* pipes are left out (TimerSandbox models the class Pipe); what remains of*)
(* them is who holds a write end, since capture reads to the end of file.  *)
(***************************************************************************)
EXTENDS Integers

CONSTANTS Thread,   \* threads of Mull that call run, each of them once
          ExitCode, \* what a test may pass to exit()
          Fault     \* forks that may fail: "watchdog" "timer" "worker"

ASSUME WatchdogAssumption ==
  ExitCode \subseteq 0..255 /\ Fault \subseteq {"watchdog", "timer", "worker"}

MullExitCode == 0
TestStatus == {"Passed", "Failed"}
Mull == << "mull", "mull" >>
Watchdog(t) == << "watchdog", t >>
VARIABLES
  alive,        \* Mull has not left through Diagnostics::error
  printing,     \* a Mull thread is inside Diagnostics::progress, with the mutex
  locked,       \* the watchdog's copy of the diagnostics mutex is held
  pc,           \* where thread t is inside run
  proc,         \* per run: its processes, "none" "running" "exited" "reaped"
  wd,           \* where the watchdog is in its code
  firstReaped,  \* the process waitpid(WAIT_ANY) has returned
  killed,       \* SIGKILL has been sent to the process but not delivered
  wk,           \* where the worker is: "run" or "stored"
  workerEnd,    \* the worker's wait status: "exit" with a code, or "signal"
  ran,          \* how function() itself ended (history)
  sharedStatus, \* sharedResult->status
  writers,      \* processes that hold a write end of run t's pipes
  result        \* the status run returns

diagnostics == << printing, locked >>

vars == << alive, diagnostics, pc, proc, wd, firstReaped, killed, wk, workerEnd, ran,
           sharedStatus, writers, result >>

Role == {"watchdog", "timer", "worker"}
NoEnd == [how |-> "none", code |-> 0]

Init ==
  /\ alive = TRUE /\ printing = FALSE
  /\ locked = [t \in Thread |-> FALSE]
  /\ pc = [t \in Thread |-> "open"]
  /\ proc = [t \in Thread |-> [r \in Role |-> "none"]]
  /\ wd = [t \in Thread |-> "forkTimer"]
  /\ firstReaped = [t \in Thread |-> "none"]
  /\ killed = [t \in Thread |-> {}]
  /\ wk = [t \in Thread |-> "run"]
  /\ workerEnd = [t \in Thread |-> NoEnd]
  /\ ran = [t \in Thread |-> "no"]
  /\ sharedStatus = [t \in Thread |-> "Invalid"]
  /\ writers = [t \in Thread |-> {}]
  /\ result = [t \in Thread |-> "none"]

-----------------------------------------------------------------------------

\* fork() duplicates the write ends that `parent` holds.
Inherit(parent, child) ==
  [u \in Thread |-> IF parent \in writers[u] THEN writers[u] \cup {child} ELSE writers[u]]

\* A process ends: its descriptors are closed and its parent may reap it.
\* (A child whose parent is gone is reaped by init.)
Ends(t, r) ==
  /\ proc' = [proc EXCEPT ![t][r] =
       IF r # "watchdog" /\ proc[t]["watchdog"] \in {"exited", "reaped"}
       THEN "reaped" ELSE "exited"]
  /\ writers' = [u \in Thread |-> writers[u] \ {<< r, t >>}]

Running(t, r) == alive /\ proc[t][r] = "running"

-----------------------------------------------------------------------------
(* Diagnostics::progress, by any thread of Mull.                           *)

runVars == << alive, locked, pc, proc, wd, firstReaped, killed, wk, workerEnd, ran,
              sharedStatus, writers, result >>

ProgressBegin ==
  /\ alive /\ ~printing
  /\ printing' = TRUE
  /\ UNCHANGED runVars

ProgressEnd ==
  /\ alive /\ printing
  /\ printing' = FALSE
  /\ UNCHANGED runVars

-----------------------------------------------------------------------------
(* run() in a thread of Mull.                                              *)

OpenPipes(t) ==
  /\ alive
  /\ pc[t] = "open"
  /\ writers' = [writers EXCEPT ![t] = {Mull}]
  /\ pc' = [pc EXCEPT ![t] = "fork"]
  /\ UNCHANGED << alive, diagnostics, proc, wd, firstReaped, killed, wk, workerEnd, ran,
                  sharedStatus, result >>

\* The watchdog gets a copy of the mutex as it is, and no thread that unlocks it.
ForkWatchdog(t) ==
  /\ alive
  /\ pc[t] = "fork"
  /\ pc' = [pc EXCEPT ![t] = "wait"]
  /\ proc' = [proc EXCEPT ![t]["watchdog"] = "running"]
  /\ writers' = Inherit(Mull, Watchdog(t))
  /\ locked' = [locked EXCEPT ![t] = printing]
  /\ UNCHANGED << alive, printing, wd, firstReaped, killed, wk, workerEnd, ran,
                  sharedStatus, result >>

\* Diagnostics::error waits for the mutex.
ForkWatchdogFails(t) ==
  /\ alive /\ ~printing
  /\ "watchdog" \in Fault
  /\ pc[t] = "fork"
  /\ alive' = FALSE
  /\ UNCHANGED << diagnostics, pc, proc, wd, firstReaped, killed, wk, workerEnd, ran, sharedStatus,
                  writers, result >>

\* waitpid(watchdogPID, nullptr, 0) returns the watchdog.
WaitOwn(t) ==
  /\ alive
  /\ pc[t] = "wait"
  /\ proc[t]["watchdog"] = "exited"
  /\ proc' = [proc EXCEPT ![t]["watchdog"] = "reaped"]
  /\ pc' = [pc EXCEPT ![t] = "waitAny"]
  /\ UNCHANGED << alive, diagnostics, wd, firstReaped, killed, wk, workerEnd, ran, sharedStatus,
                  writers, result >>

\* ... or -1 (ECHILD), again and again: someone else has reaped it.
SpinOnWait(t) ==
  /\ alive
  /\ pc[t] = "wait"
  /\ proc[t]["watchdog"] = "reaped"
  /\ UNCHANGED vars

\* wait(nullptr): any child of Mull that has ended, whichever thread forked it;
\* an error, and no wait, when there is no child.
WaitAny(t) ==
  /\ alive
  /\ pc[t] = "waitAny"
  /\ \/ \E u \in Thread :
          /\ proc[u]["watchdog"] = "exited"
          /\ proc' = [proc EXCEPT ![u]["watchdog"] = "reaped"]
     \/ /\ \A u \in Thread : proc[u]["watchdog"] \in {"none", "reaped"}
        /\ UNCHANGED proc
  /\ pc' = [pc EXCEPT ![t] = "copy"]
  /\ UNCHANGED << alive, diagnostics, wd, firstReaped, killed, wk, workerEnd, ran, sharedStatus,
                  writers, result >>

\* ExecutionResult result = *sharedResult, then the write ends are closed.
CopyResult(t) ==
  /\ alive
  /\ pc[t] = "copy"
  /\ result' = [result EXCEPT ![t] = sharedStatus[t]]
  /\ writers' = [writers EXCEPT ![t] = @ \ {Mull}]
  /\ pc' = [pc EXCEPT ![t] = "read"]
  /\ UNCHANGED << alive, diagnostics, proc, wd, firstReaped, killed, wk, workerEnd, ran,
                  sharedStatus >>

\* Both captures have met the end of file.
Captured(t) ==
  /\ alive
  /\ pc[t] = "read"
  /\ writers[t] = {}
  /\ pc' = [pc EXCEPT ![t] = "done"]
  /\ UNCHANGED << alive, diagnostics, proc, wd, firstReaped, killed, wk, workerEnd, ran,
                  sharedStatus, writers, result >>

Parent(t) ==
  \/ OpenPipes(t) \/ ForkWatchdog(t) \/ ForkWatchdogFails(t) \/ WaitOwn(t)
  \/ SpinOnWait(t) \/ WaitAny(t) \/ CopyResult(t) \/ Captured(t)

-----------------------------------------------------------------------------
(* The watchdog.                                                           *)

AtWatchdog(t, from) == Running(t, "watchdog") /\ wd[t] = from

ForkChild(t, r, from, to) ==
  /\ AtWatchdog(t, from)
  /\ proc' = [proc EXCEPT ![t][r] = "running"]
  /\ writers' = Inherit(Watchdog(t), << r, t >>)
  /\ wd' = [wd EXCEPT ![t] = to]
  /\ UNCHANGED << alive, diagnostics, pc, firstReaped, killed, wk, workerEnd, ran, sharedStatus,
                  result >>

\* Diagnostics::error in the watchdog ends the watchdog, not Mull ...
ForkChildFails(t, r, from) ==
  /\ AtWatchdog(t, from)
  /\ r \in Fault /\ ~locked[t]
  /\ Ends(t, "watchdog")
  /\ UNCHANGED << alive, diagnostics, pc, wd, firstReaped, killed, wk, workerEnd, ran,
                  sharedStatus, result >>

\* ... unless the mutex was held when Mull forked: nobody unlocks the copy.
ForkChildBlocks(t, r, from) ==
  /\ AtWatchdog(t, from)
  /\ r \in Fault /\ locked[t]
  /\ wd' = [wd EXCEPT ![t] = "stuck"]
  /\ UNCHANGED << alive, diagnostics, pc, proc, firstReaped, killed, wk, workerEnd, ran,
                  sharedStatus, writers, result >>

\* Mutant: the other child is not killed.
WaitFirstNoKill(t) ==
  /\ AtWatchdog(t, "waitFirst")
  /\ \E r \in {"timer", "worker"} :
       /\ proc[t][r] = "exited"
       /\ proc' = [proc EXCEPT ![t][r] = "reaped"]
       /\ firstReaped' = [firstReaped EXCEPT ![t] = r]
  /\ wd' = [wd EXCEPT ![t] = "verdict"]
  /\ UNCHANGED << alive, diagnostics, pc, killed, wk, workerEnd, ran, sharedStatus, writers, result >>

\* waitpid(WAIT_ANY, &status, 0), and the kill of the other process.
WaitFirst(t) ==
  /\ AtWatchdog(t, "waitFirst")
  /\ \E r \in {"timer", "worker"} :
       /\ proc[t][r] = "exited"
       /\ proc' = [proc EXCEPT ![t][r] = "reaped"]
       /\ firstReaped' = [firstReaped EXCEPT ![t] = r]
       /\ killed' = [killed EXCEPT ![t] = {"timer", "worker"} \ {r}]
  /\ wd' = [wd EXCEPT ![t] = "verdict"]
  /\ UNCHANGED << alive, diagnostics, pc, wk, workerEnd, ran, sharedStatus, writers, result >>

\* Mutant: the worker's exit code is not looked at.
VerdictNoExitCode(t) ==
  IF firstReaped[t] = "timer" THEN "Timedout"
  ELSE IF workerEnd[t].how = "signal" THEN "Crashed"
  ELSE IF sharedStatus[t] = "Invalid" THEN "Passed"
  ELSE sharedStatus[t]

\* Mutant: a status that was never stored stays Invalid.
VerdictNoDefault(t) ==
  IF firstReaped[t] = "timer" THEN "Timedout"
  ELSE IF workerEnd[t].how = "signal" THEN "Crashed"
  ELSE IF workerEnd[t].code # MullExitCode THEN "AbnormalExit"
  ELSE sharedStatus[t]

\* What the watchdog leaves in the shared memory.
Verdict(t) ==
  IF firstReaped[t] = "timer" THEN "Timedout"
  ELSE IF workerEnd[t].how = "signal" THEN "Crashed"
  ELSE IF workerEnd[t].code # MullExitCode THEN "AbnormalExit"
  ELSE IF sharedStatus[t] = "Invalid" THEN "Passed"
  ELSE sharedStatus[t]

StoreVerdict(t) ==
  /\ AtWatchdog(t, "verdict")
  /\ sharedStatus' = [sharedStatus EXCEPT ![t] = Verdict(t)]
  /\ wd' = [wd EXCEPT ![t] = "waitSecond"]
  /\ UNCHANGED << alive, diagnostics, pc, proc, firstReaped, killed, wk, workerEnd, ran, writers,
                  result >>

\* Mutant: the watchdog does not wait for the child it has killed.
WaitSecondSkipped(t) ==
  /\ AtWatchdog(t, "waitSecond")
  /\ wd' = [wd EXCEPT ![t] = "exit"]
  /\ UNCHANGED << alive, diagnostics, pc, proc, firstReaped, killed, wk, workerEnd, ran,
                  sharedStatus, writers, result >>

\* wait(nullptr) for the other child ...
WaitSecond(t) ==
  /\ AtWatchdog(t, "waitSecond")
  /\ \E r \in {"timer", "worker"} :
       proc[t][r] = "exited" /\ proc' = [proc EXCEPT ![t][r] = "reaped"]
  /\ wd' = [wd EXCEPT ![t] = "exit"]
  /\ UNCHANGED << alive, diagnostics, pc, firstReaped, killed, wk, workerEnd, ran, sharedStatus,
                  writers, result >>

\* ... and exit(0).
WatchdogExits(t) ==
  /\ AtWatchdog(t, "exit")
  /\ Ends(t, "watchdog")
  /\ UNCHANGED << alive, diagnostics, pc, wd, firstReaped, killed, wk, workerEnd, ran,
                  sharedStatus, result >>

WatchdogStep(t) ==
  \/ ForkChild(t, "timer", "forkTimer", "forkWorker")
  \/ ForkChildFails(t, "timer", "forkTimer") \/ ForkChildBlocks(t, "timer", "forkTimer")
  \/ ForkChild(t, "worker", "forkWorker", "waitFirst")
  \/ ForkChildFails(t, "worker", "forkWorker") \/ ForkChildBlocks(t, "worker", "forkWorker")
  \/ WaitFirst(t) \/ StoreVerdict(t) \/ WaitSecond(t) \/ WatchdogExits(t)

-----------------------------------------------------------------------------
(* The timer and the worker.                                               *)

\* The sleep is over.
TimerExpires(t) ==
  /\ Running(t, "timer")
  /\ Ends(t, "timer")
  /\ UNCHANGED << alive, diagnostics, pc, wd, firstReaped, killed, wk, workerEnd, ran,
                  sharedStatus, result >>

\* SIGKILL reaches its process, some time after kill() has returned.
KillDelivered(t, r) ==
  /\ Running(t, r)
  /\ r \in killed[t]
  /\ Ends(t, r)
  /\ workerEnd' = IF r = "worker"
                  THEN [workerEnd EXCEPT ![t] = [how |-> "signal", code |-> 0]]
                  ELSE workerEnd
  /\ UNCHANGED << alive, diagnostics, pc, wd, firstReaped, killed, wk, ran, sharedStatus, result >>

AtWorker(t, at) == Running(t, "worker") /\ wk[t] = at

\* sharedResult->status = function()
TestReturns(t, status) ==
  /\ AtWorker(t, "run")
  /\ ran' = [ran EXCEPT ![t] = status]
  /\ sharedStatus' = [sharedStatus EXCEPT ![t] = status]
  /\ wk' = [wk EXCEPT ![t] = "stored"]
  /\ UNCHANGED << alive, diagnostics, pc, proc, wd, firstReaped, killed, workerEnd, writers, result >>

WorkerEnds(t, how, c) ==
  /\ workerEnd' = [workerEnd EXCEPT ![t] = [how |-> how, code |-> c]]
  /\ Ends(t, "worker")
  /\ UNCHANGED << alive, diagnostics, pc, wd, firstReaped, killed, wk, sharedStatus, result >>

\* The flushes and _exit(MullExitCode) after function() has returned.
WorkerExits(t) ==
  /\ AtWorker(t, "stored")
  /\ WorkerEnds(t, "exit", MullExitCode)
  /\ UNCHANGED ran

TestExits(t, c) ==
  /\ AtWorker(t, "run")
  /\ ran' = [ran EXCEPT ![t] = IF c = 0 THEN "exit" ELSE "badExit"]
  /\ WorkerEnds(t, "exit", c)

TestCrashes(t) ==
  /\ AtWorker(t, "run")
  /\ ran' = [ran EXCEPT ![t] = "crash"]
  /\ WorkerEnds(t, "signal", 0)

Test(t) ==
  \/ \E status \in TestStatus : TestReturns(t, status)
  \/ \E c \in ExitCode : TestExits(t, c)
  \/ TestCrashes(t)

-----------------------------------------------------------------------------

Terminated ==
  /\ ~alive \/ \A t \in Thread : pc[t] = "done"
  /\ UNCHANGED vars

Next ==
  \/ ProgressBegin \/ ProgressEnd
  \/ \E t \in Thread :
       \/ Parent(t) \/ WatchdogStep(t) \/ TimerExpires(t)
       \/ WorkerExits(t) \/ Test(t)
       \/ \E r \in {"timer", "worker"} : KillDelivered(t, r)
  \/ Terminated

Spec == Init /\ [][Next]_vars

\* Every process and thread that can run does, timers expire and signals are
\* delivered; nothing is assumed of the test.
Fairness ==
  /\ WF_vars(ProgressEnd)
  /\ \A t \in Thread :
       /\ WF_vars(Parent(t)) /\ WF_vars(WatchdogStep(t)) /\ WF_vars(TimerExpires(t))
       /\ WF_vars(WorkerExits(t))
       /\ \A r \in {"timer", "worker"} : WF_vars(KillDelivered(t, r))

FairSpec == Spec /\ Fairness

-----------------------------------------------------------------------------
(* Properties.                                                             *)

Status == {"Invalid", "Passed", "Failed", "Timedout", "Crashed", "AbnormalExit"}

\* run answers Passed only for a test that returned Passed or left through
\* exit(0), whichever of the timer, the worker and the other runs came first.
NoFalsePass ==
  \A t \in Thread : pc[t] = "done" /\ result[t] = "Passed" => ran[t] \in {"Passed", "exit"}

\* A run leaves no process behind: when the watchdog has come to the end of its
\* code, its timer and its worker have been reaped before it.
NoProcessLeft ==
  \A t \in Thread :
    proc[t]["watchdog"] \in {"exited", "reaped"} /\ wd[t] = "exit" =>
      proc[t]["timer"] = "reaped" /\ proc[t]["worker"] = "reaped"

\* Diagnostics::error has ended the watchdog at one of its forks.
ForkFailed(t) ==
  /\ proc[t]["watchdog"] \in {"exited", "reaped"}
  /\ wd[t] \in {"forkTimer", "forkWorker"}

\* The assertion on the result of every sandboxed run, "Expect to see valid
\* TestResult" (OriginalTestExecutionTask, MutantExecutionTask), holds but for
\* one case: a fork that failed inside the watchdog.
ResultIsValid == \A t \in Thread : result[t] = "Invalid" => ForkFailed(t)

\* Another thread has reaped t's watchdog, and t waits for it.
Robbed(t) == pc[t] = "wait" /\ proc[t]["watchdog"] = "reaped"

\* A run that has forked its watchdog returns, whatever the tests do, whichever
\* fork fails and whoever else holds its pipes.  The exceptions: it is robbed, or
\* some watchdog, its own or another's, blocks on the mutex it was forked with (all
\* threads wait for every child, and a stuck watchdog keeps the pipes it inherited).
RunReturnsUnlessRobbed ==
  \A t \in Thread :
    pc[t] = "wait" ~>
      (pc[t] = "done" \/ ~alive \/ Robbed(t) \/ \E u \in Thread : wd[u] = "stuck")

\* docs/archive/Config.md on the timeout: Mull terminates the test after it.  So
\* a run that has forked its watchdog returns, whatever the test does.
RunReturns == \A t \in Thread : pc[t] = "wait" ~> (pc[t] = "done" \/ ~alive)

=============================================================================
