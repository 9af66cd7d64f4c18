----------------------- MODULE WatchdogSandbox_proofs -----------------------
(***************************************************************************)
(* Proofs about WatchdogSandbox for any number of threads that run tests   *)
(* at once, every exit code and every set of forks that fail.              *)
(***************************************************************************)
EXTENDS WatchdogSandbox, TLAPS

-----------------------------------------------------------------------------
(* The inductive invariant.                                                *)

ProcState == {"none", "running", "exited", "reaped"}

\* What each variable may hold.  (Who holds the pipes decides when a run returns,
\* not with what: writers has no part in these proofs.)
TypeOK ==
  /\ pc \in [Thread -> {"open", "fork", "wait", "waitAny", "copy", "read", "done"}]
  /\ proc \in [Thread -> [Role -> ProcState]]
  /\ wd \in [Thread -> {"forkTimer", "forkWorker", "waitFirst", "verdict",
                        "waitSecond", "exit", "stuck"}]
  /\ firstReaped \in [Thread -> {"none", "timer", "worker"}]
  /\ killed \in [Thread -> SUBSET {"timer", "worker"}]
  /\ wk \in [Thread -> {"run", "stored"}]
  /\ workerEnd \in [Thread -> [how : {"none", "exit", "signal"}, code : 0..255]]
  /\ ran \in [Thread -> TestStatus \cup {"no", "exit", "badExit", "crash"}]
  /\ sharedStatus \in [Thread -> Status]
  /\ result \in [Thread -> Status \cup {"none"}]

\* Mull's thread against its watchdog: the thread passes its own wait only when
\* the watchdog is reaped, and a watchdog ends at a failed fork or at its end.
ParentInv(t) ==
  /\ pc[t] \in {"open", "fork"} <=> proc[t]["watchdog"] = "none"
  /\ pc[t] \in {"waitAny", "copy", "read", "done"} => proc[t]["watchdog"] = "reaped"
  /\ proc[t]["watchdog"] = "none" => wd[t] = "forkTimer"
  /\ proc[t]["watchdog"] \in {"exited", "reaped"} =>
       wd[t] \in {"forkTimer", "forkWorker", "exit"}

\* The watchdog against its two children.
ChildInv(t) ==
  /\ wd[t] = "forkTimer" => proc[t]["timer"] = "none"
  /\ wd[t] \in {"forkTimer", "forkWorker"} => proc[t]["worker"] = "none"
  /\ wd[t] \in {"verdict", "waitSecond"} =>
       firstReaped[t] \in {"timer", "worker"} /\ proc[t][firstReaped[t]] = "reaped"
  /\ wd[t] = "exit" => proc[t]["timer"] = "reaped" /\ proc[t]["worker"] = "reaped"

\* The worker against the test it runs: how the test has ended is known from the
\* position of the worker and its wait status.
WorkerInv(t) ==
  /\ proc[t]["worker"] = "none" => wk[t] = "run"
  /\ proc[t]["worker"] \in {"none", "running"} /\ wk[t] = "run" => ran[t] = "no"
  /\ proc[t]["worker"] \in {"exited", "reaped"} => workerEnd[t].how # "none"
  /\ workerEnd[t].how = "exit" /\ workerEnd[t].code = 0 /\ wk[t] = "run" =>
       ran[t] = "exit"

\* The shared memory: the worker's status and the watchdog's verdict are never
\* Invalid, and whoever wrote Passed last had the test's word for it.
SharedInv(t) ==
  /\ wk[t] = "stored" \/ wd[t] \in {"waitSecond", "exit"} =>
       sharedStatus[t] # "Invalid"
  /\ sharedStatus[t] = "Passed" => ran[t] \in {"Passed", "exit"}

\* What the thread has copied from it.
ResultInv(t) ==
  /\ result[t] = "Passed" => ran[t] \in {"Passed", "exit"}
  /\ result[t] = "Invalid" => ForkFailed(t)

RunInv(t) == ParentInv(t) /\ ChildInv(t) /\ WorkerInv(t) /\ SharedInv(t) /\ ResultInv(t)

IInv == TypeOK /\ \A t \in Thread : RunInv(t)

-----------------------------------------------------------------------------
(* Each step preserves the invariant.                                      *)

\* Verdict never answers Invalid, and answers Passed only on the test's word.
LEMMA VerdictSound ==
  ASSUME IInv, NEW t \in Thread, wd[t] = "verdict"
  PROVE  /\ Verdict(t) \in Status \ {"Invalid"}
         /\ Verdict(t) = "Passed" => ran[t] \in {"Passed", "exit"}
<1>1. RunInv(t) /\ sharedStatus[t] \in Status /\ firstReaped[t] \in {"timer", "worker"}
  BY DEF IInv, TypeOK, RunInv, ChildInv
<1>2. workerEnd[t].how \in {"none", "exit", "signal"} /\ workerEnd[t].code \in 0..255
  BY DEF IInv, TypeOK
<1>3. Verdict(t) \in Status \ {"Invalid"}
  BY <1>1 DEF Verdict, Status
<1>4. ASSUME Verdict(t) = "Passed" PROVE ran[t] \in {"Passed", "exit"}
  <2>1. firstReaped[t] = "worker" /\ workerEnd[t].how # "signal" /\ workerEnd[t].code = 0
    BY <1>1, <1>4 DEF Verdict, MullExitCode
  <2>2. workerEnd[t].how = "exit"
    BY <1>1, <1>2, <2>1 DEF RunInv, ChildInv, WorkerInv
  <2>3. CASE sharedStatus[t] = "Invalid"
    <3>1. wk[t] = "run"
      BY <1>1, <2>3 DEF IInv, TypeOK, RunInv, SharedInv
    <3> QED BY <1>1, <2>1, <2>2, <3>1 DEF RunInv, WorkerInv
  <2>4. CASE sharedStatus[t] # "Invalid"
    BY <1>1, <1>4, <2>1, <2>2, <2>4 DEF Verdict, MullExitCode, RunInv, SharedInv
  <2> QED BY <2>3, <2>4
<1> QED BY <1>3, <1>4

\* The initial state satisfies the invariant.
LEMMA InitIInv == Init => IInv
<1> SUFFICES ASSUME Init PROVE IInv
  OBVIOUS
<1>1. TypeOK
  BY DEF Init, TypeOK, Role, ProcState, NoEnd, Status
<1>2. ASSUME NEW t \in Thread PROVE RunInv(t)
  <2>1. ParentInv(t) /\ ChildInv(t)
    BY DEF Init, ParentInv, ChildInv, Role
  <2>2. WorkerInv(t) /\ SharedInv(t) /\ ResultInv(t)
    BY DEF Init, WorkerInv, SharedInv, ResultInv, Role, NoEnd
  <2> QED BY <2>1, <2>2 DEF RunInv
<1> QED BY <1>1, <1>2 DEF IInv

\* Opening the pipes moves the thread only.
LEMMA OpenPipesKeeps ==
  ASSUME IInv, NEW t \in Thread, OpenPipes(t)
  PROVE  IInv'
<1>1. TypeOK'
  BY DEF IInv, TypeOK, OpenPipes
<1>2. ASSUME NEW u \in Thread PROVE RunInv(u)'
  <2>1. RunInv(u) /\ TypeOK
    BY DEF IInv
  <2>2. ChildInv(u)' /\ WorkerInv(u)' /\ SharedInv(u)' /\ ResultInv(u)'
    BY <2>1 DEF TypeOK, RunInv, ChildInv, WorkerInv, SharedInv, ResultInv,
          ForkFailed, OpenPipes
  <2>3. ParentInv(u)'
    BY <2>1 DEF TypeOK, RunInv, ParentInv, OpenPipes
  <2> QED BY <2>2, <2>3 DEF RunInv
<1> QED BY <1>1, <1>2 DEF IInv

\* The watchdog starts, at its first fork.
LEMMA ForkWatchdogKeeps ==
  ASSUME IInv, NEW t \in Thread, ForkWatchdog(t)
  PROVE  IInv'
<1>1. TypeOK'
  BY DEF IInv, TypeOK, ForkWatchdog, Role, ProcState
<1>2. ASSUME NEW u \in Thread PROVE RunInv(u)'
  <2>1. RunInv(u) /\ TypeOK
    BY DEF IInv
  <2>2. ChildInv(u)' /\ WorkerInv(u)' /\ SharedInv(u)'
    BY <2>1 DEF TypeOK, RunInv, ChildInv, WorkerInv, SharedInv, ForkWatchdog, Role
  <2>3. ParentInv(u)'
    BY <2>1 DEF TypeOK, RunInv, ParentInv, ForkWatchdog, Role
  <2>4. ResultInv(u)'
    BY <2>1 DEF TypeOK, RunInv, ParentInv, ResultInv, ForkFailed, ForkWatchdog,
          Role
  <2> QED BY <2>2, <2>3, <2>4 DEF RunInv
<1> QED BY <1>1, <1>2 DEF IInv

\* The thread leaves its own wait with the watchdog reaped.
LEMMA WaitOwnKeeps ==
  ASSUME IInv, NEW t \in Thread, WaitOwn(t)
  PROVE  IInv'
<1>1. TypeOK'
  BY DEF IInv, TypeOK, WaitOwn, Role, ProcState
<1>2. ASSUME NEW u \in Thread PROVE RunInv(u)'
  <2>1. RunInv(u) /\ TypeOK
    BY DEF IInv
  <2>2. ChildInv(u)' /\ WorkerInv(u)' /\ SharedInv(u)'
    BY <2>1 DEF TypeOK, RunInv, ChildInv, WorkerInv, SharedInv, WaitOwn, Role
  <2>3. ParentInv(u)'
    BY <2>1 DEF TypeOK, RunInv, ParentInv, WaitOwn, Role
  <2>4. ResultInv(u)'
    BY <2>1 DEF TypeOK, RunInv, ResultInv, ForkFailed, WaitOwn, Role
  <2> QED BY <2>2, <2>3, <2>4 DEF RunInv
<1> QED BY <1>1, <1>2 DEF IInv

\* wait(nullptr) may reap the watchdog of another thread: that thread is then
\* robbed, but no clause about the order of its own steps is broken.
LEMMA WaitAnyKeeps ==
  ASSUME IInv, NEW t \in Thread, WaitAny(t)
  PROVE  IInv'
<1>1. CASE UNCHANGED proc
  <2>1. TypeOK'
    BY <1>1 DEF IInv, TypeOK, WaitAny
  <2>2. ASSUME NEW u \in Thread PROVE RunInv(u)'
    <3>1. RunInv(u) /\ TypeOK
      BY DEF IInv
    <3>2. ParentInv(u)'
      BY <1>1, <3>1 DEF TypeOK, RunInv, ParentInv, WaitAny
    <3>3. ChildInv(u)' /\ WorkerInv(u)' /\ SharedInv(u)' /\ ResultInv(u)'
      BY <1>1, <3>1 DEF RunInv, ChildInv, WorkerInv, SharedInv, ResultInv, ForkFailed,
            WaitAny
    <3> QED BY <3>2, <3>3 DEF RunInv
  <2> QED BY <2>1, <2>2 DEF IInv
<1>2. ASSUME NEW v \in Thread, proc[v]["watchdog"] = "exited",
             proc' = [proc EXCEPT ![v]["watchdog"] = "reaped"]
      PROVE  IInv'
  <2>1. TypeOK'
    BY <1>2 DEF IInv, TypeOK, WaitAny, Role, ProcState
  <2>2. ASSUME NEW u \in Thread PROVE RunInv(u)'
    <3>1. RunInv(u) /\ TypeOK
      BY DEF IInv
    <3>2. ParentInv(u)'
      BY <1>2, <3>1 DEF TypeOK, RunInv, ParentInv, WaitAny, Role
    <3>3. ChildInv(u)' /\ WorkerInv(u)' /\ SharedInv(u)'
      BY <1>2, <3>1 DEF TypeOK, RunInv, ChildInv, WorkerInv, SharedInv, WaitAny, Role
    <3>4. ResultInv(u)'
      BY <1>2, <3>1 DEF TypeOK, RunInv, ResultInv, ForkFailed, WaitAny, Role
    <3> QED BY <3>2, <3>3, <3>4 DEF RunInv
  <2> QED BY <2>1, <2>2 DEF IInv
<1> QED BY <1>1, <1>2 DEF WaitAny

\* The result is copied when the watchdog is reaped: at its end it has stored a
\* verdict, otherwise one of its forks has failed.
LEMMA CopyResultKeeps ==
  ASSUME IInv, NEW t \in Thread, CopyResult(t)
  PROVE  IInv'
<1>1. TypeOK'
  BY DEF IInv, TypeOK, CopyResult
<1>2. ASSUME NEW u \in Thread PROVE RunInv(u)'
  <2>1. RunInv(u) /\ TypeOK
    BY DEF IInv
  <2>2. ChildInv(u)' /\ WorkerInv(u)' /\ SharedInv(u)'
    BY <2>1 DEF TypeOK, RunInv, ChildInv, WorkerInv, SharedInv, CopyResult
  <2>3. ParentInv(u)'
    BY <2>1 DEF TypeOK, RunInv, ParentInv, CopyResult
  <2>4. ResultInv(u)'
    BY <2>1 DEF TypeOK, RunInv, ParentInv, SharedInv, ResultInv, ForkFailed,
          CopyResult
  <2> QED BY <2>2, <2>3, <2>4 DEF RunInv
<1> QED BY <1>1, <1>2 DEF IInv

\* The captures move the thread only.
LEMMA CapturedKeeps ==
  ASSUME IInv, NEW t \in Thread, Captured(t)
  PROVE  IInv'
<1>1. TypeOK'
  BY DEF IInv, TypeOK, Captured
<1>2. ASSUME NEW u \in Thread PROVE RunInv(u)'
  <2>1. RunInv(u) /\ TypeOK
    BY DEF IInv
  <2>2. ChildInv(u)' /\ WorkerInv(u)' /\ SharedInv(u)' /\ ResultInv(u)'
    BY <2>1 DEF TypeOK, RunInv, ChildInv, WorkerInv, SharedInv, ResultInv,
          ForkFailed, Captured
  <2>3. ParentInv(u)'
    BY <2>1 DEF TypeOK, RunInv, ParentInv, Captured
  <2> QED BY <2>2, <2>3 DEF RunInv
<1> QED BY <1>1, <1>2 DEF IInv

\* The timer starts.
LEMMA ForkTimerKeeps ==
  ASSUME IInv, NEW t \in Thread, ForkChild(t, "timer", "forkTimer", "forkWorker")
  PROVE  IInv'
<1>1. TypeOK'
  BY DEF IInv, TypeOK, ForkChild, AtWatchdog, Running, Role, ProcState
<1>2. ASSUME NEW u \in Thread PROVE RunInv(u)'
  <2>1. RunInv(u) /\ TypeOK
    BY DEF IInv
  <2>2. WorkerInv(u)' /\ SharedInv(u)'
    BY <2>1 DEF TypeOK, RunInv, WorkerInv, SharedInv, ForkChild, AtWatchdog,
          Running, Role
  <2>3. ParentInv(u)'
    BY <2>1 DEF TypeOK, RunInv, ParentInv, ForkChild, AtWatchdog, Running, Role
  <2>4. ChildInv(u)'
    BY <2>1 DEF TypeOK, RunInv, ChildInv, ForkChild, AtWatchdog, Running, Role
  <2>5. ResultInv(u)'
    BY <2>1 DEF TypeOK, RunInv, ResultInv, ForkFailed, ForkChild, AtWatchdog,
          Running, Role
  <2> QED BY <2>2, <2>3, <2>4, <2>5 DEF RunInv
<1> QED BY <1>1, <1>2 DEF IInv

\* The worker starts, with the test not run yet.
LEMMA ForkWorkerKeeps ==
  ASSUME IInv, NEW t \in Thread, ForkChild(t, "worker", "forkWorker", "waitFirst")
  PROVE  IInv'
<1>1. TypeOK'
  BY DEF IInv, TypeOK, ForkChild, AtWatchdog, Running, Role, ProcState
<1>2. ASSUME NEW u \in Thread PROVE RunInv(u)'
  <2>1. RunInv(u) /\ TypeOK
    BY DEF IInv
  <2>2. SharedInv(u)'
    BY <2>1 DEF TypeOK, RunInv, SharedInv, ForkChild, AtWatchdog, Running, Role
  <2>3. ParentInv(u)'
    BY <2>1 DEF TypeOK, RunInv, ParentInv, ForkChild, AtWatchdog, Running, Role
  <2>4. ChildInv(u)'
    BY <2>1 DEF TypeOK, RunInv, ChildInv, ForkChild, AtWatchdog, Running, Role
  <2>5. WorkerInv(u)'
    BY <2>1 DEF TypeOK, RunInv, ChildInv, WorkerInv, ForkChild, AtWatchdog,
          Running, Role
  <2>6. ResultInv(u)'
    BY <2>1 DEF TypeOK, RunInv, ResultInv, ForkFailed, ForkChild, AtWatchdog,
          Running, Role
  <2> QED BY <2>2, <2>3, <2>4, <2>5, <2>6 DEF RunInv
<1> QED BY <1>1, <1>2 DEF IInv

\* A failed fork ends the watchdog where it is.
LEMMA ForkChildFailsKeeps ==
  ASSUME IInv, NEW t \in Thread, NEW r,
         NEW from \in {"forkTimer", "forkWorker"}, ForkChildFails(t, r, from)
  PROVE  IInv'
<1>1. TypeOK'
  BY DEF IInv, TypeOK, ForkChildFails, Ends, AtWatchdog, Running, Role, ProcState
<1>2. ASSUME NEW u \in Thread PROVE RunInv(u)'
  <2>1. RunInv(u) /\ TypeOK
    BY DEF IInv
  <2>2. ChildInv(u)' /\ WorkerInv(u)' /\ SharedInv(u)'
    BY <2>1 DEF TypeOK, RunInv, ChildInv, WorkerInv, SharedInv, ForkChildFails,
          Ends, AtWatchdog, Running, Role
  <2>3. ParentInv(u)'
    BY <2>1 DEF TypeOK, RunInv, ParentInv, ForkChildFails, Ends, AtWatchdog,
          Running, Role
  <2>4. ResultInv(u)'
    BY <2>1 DEF TypeOK, RunInv, ResultInv, ForkFailed, ForkChildFails, Ends,
          AtWatchdog, Running, Role
  <2> QED BY <2>2, <2>3, <2>4 DEF RunInv
<1> QED BY <1>1, <1>2 DEF IInv

\* A watchdog that blocks at a failed fork is a process that goes on for ever.
LEMMA ForkChildBlocksKeeps ==
  ASSUME IInv, NEW t \in Thread, NEW r,
         NEW from \in {"forkTimer", "forkWorker"}, ForkChildBlocks(t, r, from)
  PROVE  IInv'
<1>1. TypeOK'
  BY DEF IInv, TypeOK, ForkChildBlocks
<1>2. ASSUME NEW u \in Thread PROVE RunInv(u)'
  <2>1. RunInv(u) /\ TypeOK
    BY DEF IInv
  <2>2. ChildInv(u)' /\ WorkerInv(u)' /\ SharedInv(u)'
    BY <2>1 DEF TypeOK, RunInv, ChildInv, WorkerInv, SharedInv, ForkChildBlocks
  <2>3. ParentInv(u)' /\ ResultInv(u)'
    BY <2>1 DEF TypeOK, RunInv, ParentInv, ResultInv, ForkFailed, ForkChildBlocks,
          AtWatchdog, Running
  <2> QED BY <2>2, <2>3 DEF RunInv
<1> QED BY <1>1, <1>2 DEF IInv

\* The first child to end is reaped and remembered.
LEMMA WaitFirstKeeps ==
  ASSUME IInv, NEW t \in Thread, WaitFirst(t)
  PROVE  IInv'
<1>1. TypeOK'
  BY DEF IInv, TypeOK, WaitFirst, AtWatchdog, Running, Role, ProcState
<1>2. ASSUME NEW u \in Thread PROVE RunInv(u)'
  <2>1. RunInv(u) /\ TypeOK
    BY DEF IInv
  <2>2. SharedInv(u)'
    BY <2>1 DEF TypeOK, RunInv, SharedInv, WaitFirst, AtWatchdog, Running, Role
  <2>3. ParentInv(u)'
    BY <2>1 DEF TypeOK, RunInv, ParentInv, WaitFirst, AtWatchdog, Running, Role
  <2>4. ChildInv(u)'
    BY <2>1 DEF TypeOK, RunInv, ChildInv, WaitFirst, AtWatchdog, Running, Role
  <2>5. WorkerInv(u)'
    BY <2>1 DEF TypeOK, RunInv, WorkerInv, WaitFirst, AtWatchdog, Running, Role
  <2>6. ResultInv(u)'
    BY <2>1 DEF TypeOK, RunInv, ResultInv, ForkFailed, WaitFirst, AtWatchdog,
          Running, Role
  <2> QED BY <2>2, <2>3, <2>4, <2>5, <2>6 DEF RunInv
<1> QED BY <1>1, <1>2 DEF IInv

\* The verdict is stored.
LEMMA StoreVerdictKeeps ==
  ASSUME IInv, NEW t \in Thread, StoreVerdict(t)
  PROVE  IInv'
<1>1. /\ Verdict(t) \in Status \ {"Invalid"}
      /\ Verdict(t) = "Passed" => ran[t] \in {"Passed", "exit"}
  BY VerdictSound DEF StoreVerdict, AtWatchdog
<1> HIDE DEF Verdict
<1>2. TypeOK'
  BY <1>1 DEF IInv, TypeOK, StoreVerdict
<1>3. ASSUME NEW u \in Thread PROVE RunInv(u)'
  <2>1. RunInv(u) /\ TypeOK
    BY DEF IInv
  <2>2. ParentInv(u)' /\ ChildInv(u)' /\ WorkerInv(u)'
    BY <2>1 DEF TypeOK, RunInv, ParentInv, ChildInv, WorkerInv, StoreVerdict,
          AtWatchdog, Running
  <2>3. SharedInv(u)'
    BY <1>1, <2>1 DEF TypeOK, RunInv, SharedInv, StoreVerdict
  <2>4. ResultInv(u)'
    BY <2>1 DEF TypeOK, RunInv, ResultInv, ForkFailed, StoreVerdict, AtWatchdog, Running
  <2> QED BY <2>2, <2>3, <2>4 DEF RunInv
<1> QED BY <1>2, <1>3 DEF IInv

\* The child that wait returns next is the one not reaped yet.
LEMMA WaitSecondKeeps ==
  ASSUME IInv, NEW t \in Thread, WaitSecond(t)
  PROVE  IInv'
<1>1. TypeOK'
  BY DEF IInv, TypeOK, WaitSecond, AtWatchdog, Running, Role, ProcState
<1>2. ASSUME NEW u \in Thread PROVE RunInv(u)'
  <2>1. RunInv(u) /\ TypeOK
    BY DEF IInv
  <2>2. ParentInv(u)'
    BY <2>1 DEF TypeOK, RunInv, ParentInv, WaitSecond, AtWatchdog, Running, Role
  <2>3. ChildInv(u)'
    BY <2>1 DEF TypeOK, RunInv, ChildInv, WaitSecond, AtWatchdog, Running, Role
  <2>4. WorkerInv(u)'
    BY <2>1 DEF TypeOK, RunInv, WorkerInv, WaitSecond, AtWatchdog, Running, Role
  <2>5. SharedInv(u)'
    BY <2>1 DEF TypeOK, RunInv, SharedInv, WaitSecond, AtWatchdog, Running, Role
  <2>6. ResultInv(u)'
    BY <2>1 DEF TypeOK, RunInv, ResultInv, ForkFailed, WaitSecond, AtWatchdog,
          Running, Role
  <2> QED BY <2>2, <2>3, <2>4, <2>5, <2>6 DEF RunInv
<1> QED BY <1>1, <1>2 DEF IInv

\* The watchdog comes to the end of its code.
LEMMA WatchdogExitsKeeps ==
  ASSUME IInv, NEW t \in Thread, WatchdogExits(t)
  PROVE  IInv'
<1>1. TypeOK'
  BY DEF IInv, TypeOK, WatchdogExits, Ends, AtWatchdog, Running, Role, ProcState
<1>2. ASSUME NEW u \in Thread PROVE RunInv(u)'
  <2>1. RunInv(u) /\ TypeOK
    BY DEF IInv
  <2>2. ChildInv(u)' /\ WorkerInv(u)' /\ SharedInv(u)'
    BY <2>1 DEF TypeOK, RunInv, ChildInv, WorkerInv, SharedInv, WatchdogExits,
          Ends, AtWatchdog, Running, Role
  <2>3. ParentInv(u)'
    BY <2>1 DEF TypeOK, RunInv, ParentInv, WatchdogExits, Ends, AtWatchdog,
          Running, Role
  <2>4. ResultInv(u)'
    BY <2>1 DEF TypeOK, RunInv, ResultInv, ForkFailed, WatchdogExits, Ends,
          AtWatchdog, Running, Role
  <2> QED BY <2>2, <2>3, <2>4 DEF RunInv
<1> QED BY <1>1, <1>2 DEF IInv

\* The timer ends by itself.
LEMMA TimerExpiresKeeps ==
  ASSUME IInv, NEW t \in Thread, TimerExpires(t)
  PROVE  IInv'
<1>1. TypeOK'
  BY DEF IInv, TypeOK, TimerExpires, Ends, Running, Role, ProcState
<1>2. ASSUME NEW u \in Thread PROVE RunInv(u)'
  <2>1. RunInv(u) /\ TypeOK
    BY DEF IInv
  <2>2. ParentInv(u)' /\ WorkerInv(u)' /\ SharedInv(u)' /\ ResultInv(u)'
    BY <2>1 DEF TypeOK, RunInv, ParentInv, WorkerInv, SharedInv, ResultInv,
          ForkFailed, TimerExpires, Ends, Running, Role
  <2>3. ChildInv(u)'
    BY <2>1 DEF TypeOK, RunInv, ChildInv, TimerExpires, Ends, Running, Role
  <2> QED BY <2>2, <2>3 DEF RunInv
<1> QED BY <1>1, <1>2 DEF IInv

\* A killed child ends; a killed worker leaves a signal as its wait status.
LEMMA KillDeliveredKeeps ==
  ASSUME IInv, NEW t \in Thread, NEW r \in {"timer", "worker"}, KillDelivered(t, r)
  PROVE  IInv'
<1>1. TypeOK'
  BY DEF IInv, TypeOK, KillDelivered, Ends, Running, Role, ProcState
<1>2. ASSUME NEW u \in Thread PROVE RunInv(u)'
  <2>1. RunInv(u) /\ TypeOK
    BY DEF IInv
  <2>2. ParentInv(u)' /\ SharedInv(u)' /\ ResultInv(u)'
    BY <2>1 DEF TypeOK, RunInv, ParentInv, SharedInv, ResultInv, ForkFailed,
          KillDelivered, Ends, Running, Role
  <2>3. ChildInv(u)'
    BY <2>1 DEF TypeOK, RunInv, ChildInv, KillDelivered, Ends, Running, Role
  <2>4. WorkerInv(u)'
    BY <2>1 DEF TypeOK, RunInv, WorkerInv, KillDelivered, Ends, Running, Role
  <2> QED BY <2>2, <2>3, <2>4 DEF RunInv
<1> QED BY <1>1, <1>2 DEF IInv

\* The test returns, perhaps after the watchdog has stored its verdict.
LEMMA TestReturnsKeeps ==
  ASSUME IInv, NEW t \in Thread, NEW status \in TestStatus, TestReturns(t, status)
  PROVE  IInv'
<1>1. TypeOK'
  BY DEF IInv, TypeOK, TestReturns, AtWorker, Running, TestStatus, Status
<1>2. ASSUME NEW u \in Thread PROVE RunInv(u)'
  <2>1. RunInv(u) /\ TypeOK
    BY DEF IInv
  <2>2. ParentInv(u)' /\ ChildInv(u)'
    BY <2>1 DEF TypeOK, RunInv, ParentInv, ChildInv, TestReturns, AtWorker,
          Running, TestStatus
  <2>3. WorkerInv(u)'
    BY <2>1 DEF TypeOK, RunInv, WorkerInv, TestReturns, AtWorker, Running,
          TestStatus
  <2>4. SharedInv(u)'
    BY <2>1 DEF TypeOK, RunInv, WorkerInv, SharedInv, TestReturns, AtWorker,
          Running, TestStatus
  <2>5. ResultInv(u)'
    BY <2>1 DEF TypeOK, RunInv, WorkerInv, ResultInv, ForkFailed, TestReturns,
          AtWorker, Running, TestStatus
  <2> QED BY <2>2, <2>3, <2>4, <2>5 DEF RunInv
<1> QED BY <1>1, <1>2 DEF IInv

\* The worker leaves after the test has returned.
LEMMA WorkerExitsKeeps ==
  ASSUME IInv, NEW t \in Thread, WorkerExits(t)
  PROVE  IInv'
<1>1. TypeOK'
  BY DEF IInv, TypeOK, WorkerExits, WorkerEnds, Ends, AtWorker, Running, Role,
        ProcState, MullExitCode
<1>2. ASSUME NEW u \in Thread PROVE RunInv(u)'
  <2>1. RunInv(u) /\ TypeOK
    BY DEF IInv
  <2>2. ParentInv(u)' /\ SharedInv(u)' /\ ResultInv(u)'
    BY <2>1 DEF TypeOK, RunInv, ParentInv, SharedInv, ResultInv, ForkFailed,
          WorkerExits, WorkerEnds, Ends, AtWorker, Running, Role
  <2>3. ChildInv(u)'
    BY <2>1 DEF TypeOK, RunInv, ChildInv, WorkerExits, WorkerEnds, Ends, AtWorker,
          Running, Role
  <2>4. WorkerInv(u)'
    BY <2>1 DEF TypeOK, RunInv, WorkerInv, WorkerExits, WorkerEnds, Ends,
          AtWorker, Running, Role
  <2> QED BY <2>2, <2>3, <2>4 DEF RunInv
<1> QED BY <1>1, <1>2 DEF IInv

\* The test leaves through exit().
LEMMA TestExitsKeeps ==
  ASSUME IInv, NEW t \in Thread, NEW c \in ExitCode, TestExits(t, c)
  PROVE  IInv'
<1>1. TypeOK'
  BY WatchdogAssumption DEF IInv, TypeOK, TestExits, WorkerEnds, Ends, AtWorker,
        Running, Role, ProcState
<1>2. ASSUME NEW u \in Thread PROVE RunInv(u)'
  <2>1. RunInv(u) /\ TypeOK
    BY DEF IInv
  <2>2. ParentInv(u)'
    BY <2>1 DEF TypeOK, RunInv, ParentInv, TestExits, WorkerEnds, Ends, AtWorker,
          Running, Role
  <2>3. ChildInv(u)'
    BY <2>1 DEF TypeOK, RunInv, ChildInv, TestExits, WorkerEnds, Ends, AtWorker,
          Running, Role
  <2>4. WorkerInv(u)'
    BY <2>1, WatchdogAssumption DEF TypeOK, RunInv, WorkerInv, TestExits,
          WorkerEnds, Ends, AtWorker, Running, Role
  <2>5. SharedInv(u)'
    BY <2>1 DEF TypeOK, RunInv, WorkerInv, SharedInv, TestExits, WorkerEnds, Ends,
          AtWorker, Running, Role
  <2>6. ResultInv(u)'
    BY <2>1 DEF TypeOK, RunInv, WorkerInv, ResultInv, ForkFailed, TestExits,
          WorkerEnds, Ends, AtWorker, Running, Role
  <2> QED BY <2>2, <2>3, <2>4, <2>5, <2>6 DEF RunInv
<1> QED BY <1>1, <1>2 DEF IInv

\* The test crashes.
LEMMA TestCrashesKeeps ==
  ASSUME IInv, NEW t \in Thread, TestCrashes(t)
  PROVE  IInv'
<1>1. TypeOK'
  BY DEF IInv, TypeOK, TestCrashes, WorkerEnds, Ends, AtWorker, Running, Role,
        ProcState
<1>2. ASSUME NEW u \in Thread PROVE RunInv(u)'
  <2>1. RunInv(u) /\ TypeOK
    BY DEF IInv
  <2>2. ParentInv(u)'
    BY <2>1 DEF TypeOK, RunInv, ParentInv, TestCrashes, WorkerEnds, Ends,
          AtWorker, Running, Role
  <2>3. ChildInv(u)'
    BY <2>1 DEF TypeOK, RunInv, ChildInv, TestCrashes, WorkerEnds, Ends, AtWorker,
          Running, Role
  <2>4. WorkerInv(u)'
    BY <2>1 DEF TypeOK, RunInv, WorkerInv, TestCrashes, WorkerEnds, Ends,
          AtWorker, Running, Role
  <2>5. SharedInv(u)'
    BY <2>1 DEF TypeOK, RunInv, WorkerInv, SharedInv, TestCrashes, WorkerEnds,
          Ends, AtWorker, Running, Role
  <2>6. ResultInv(u)'
    BY <2>1 DEF TypeOK, RunInv, WorkerInv, ResultInv, ForkFailed, TestCrashes,
          WorkerEnds, Ends, AtWorker, Running, Role
  <2> QED BY <2>2, <2>3, <2>4, <2>5, <2>6 DEF RunInv
<1> QED BY <1>1, <1>2 DEF IInv

\* One step per action of Next.
LEMMA NextIInv == IInv /\ [Next]_vars => IInv'
<1> SUFFICES ASSUME IInv, [Next]_vars PROVE IInv'
  OBVIOUS
<1>1. ASSUME UNCHANGED vars PROVE IInv'
  BY <1>1 DEF vars, IInv, TypeOK, RunInv, ParentInv, ChildInv, WorkerInv, SharedInv,
        ResultInv, ForkFailed
<1>2. ASSUME NEW t \in Thread, ForkWatchdogFails(t) PROVE IInv'
  BY <1>2 DEF ForkWatchdogFails, IInv, TypeOK, RunInv, ParentInv, ChildInv, WorkerInv,
        SharedInv, ResultInv, ForkFailed
<1>3. ASSUME NEW t \in Thread, Parent(t) PROVE IInv'
  BY <1>1, <1>2, <1>3, OpenPipesKeeps, ForkWatchdogKeeps, WaitOwnKeeps, WaitAnyKeeps,
     CopyResultKeeps, CapturedKeeps DEF Parent, SpinOnWait
<1>4. ASSUME NEW t \in Thread, WatchdogStep(t) PROVE IInv'
  <2>1. ASSUME NEW r, NEW from \in {"forkTimer", "forkWorker"}, ForkChildFails(t, r, from)
        PROVE  IInv'
    BY <2>1, ForkChildFailsKeeps
  <2>2. ASSUME NEW r, NEW from \in {"forkTimer", "forkWorker"}, ForkChildBlocks(t, r, from)
        PROVE  IInv'
    BY <2>2, ForkChildBlocksKeeps
  <2> QED
    BY <1>4, <2>1, <2>2, ForkTimerKeeps, ForkWorkerKeeps, WaitFirstKeeps, StoreVerdictKeeps,
       WaitSecondKeeps, WatchdogExitsKeeps DEF WatchdogStep
<1>5. ASSUME NEW t \in Thread, Test(t) PROVE IInv'
  BY <1>5, TestReturnsKeeps, TestExitsKeeps, TestCrashesKeeps DEF Test
<1>6. ASSUME NEW t \in Thread, NEW r \in {"timer", "worker"}, KillDelivered(t, r)
      PROVE  IInv'
  BY <1>6, KillDeliveredKeeps
<1>7. CASE ProgressBegin \/ ProgressEnd
  BY <1>7 DEF ProgressBegin, ProgressEnd, runVars, IInv, TypeOK, RunInv, ParentInv, ChildInv,
        WorkerInv, SharedInv, ResultInv, ForkFailed
<1> QED
  BY <1>1, <1>3, <1>4, <1>5, <1>6, <1>7, TimerExpiresKeeps, WorkerExitsKeeps
     DEF Next, Terminated

-----------------------------------------------------------------------------
(* The theorems.                                                           *)

\* The invariant holds in every state.
LEMMA Invariance == Spec => []IInv
  BY InitIInv, NextIInv, PTL DEF Spec

\* ForkWatchdogSandbox::run answers Passed only for a test that returned Passed
\* or left through exit(0), for any number of threads, every order of timer,
\* worker and kill, and every fork that fails.
THEOREM NoFalsePassHolds == Spec => []NoFalsePass
<1>1. IInv => NoFalsePass
  BY DEF IInv, RunInv, ResultInv, NoFalsePass
<1> QED BY Invariance, <1>1, PTL

\* A watchdog that comes to the end of its code has reaped its timer and its
\* worker, though a timer may expire, or a test end, while it is being killed.
THEOREM NoProcessLeftHolds == Spec => []NoProcessLeft
<1>1. IInv => NoProcessLeft
  BY DEF IInv, RunInv, ChildInv, NoProcessLeft
<1> QED BY Invariance, <1>1, PTL

\* run answers Invalid, which the tasks assert it never does, only when a fork
\* has failed in the watchdog.
THEOREM ResultIsValidHolds == Spec => []ResultIsValid
<1>1. IInv => ResultIsValid
  BY DEF IInv, RunInv, ResultInv, ResultIsValid
<1> QED BY Invariance, <1>1, PTL

=============================================================================
