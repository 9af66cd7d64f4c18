---------------------------- MODULE TimerSandbox ----------------------------
(***************************************************************************)
(* ForkTimerSandbox::run, called by several Mull threads at once: the      *)
(* pipes, the forked children that run a test, the alarm that bounds them, *)
(* and the decoding of a child's end into an ExecutionStatus.  The test    *)
(* (`function`) is arbitrary code: it may return, exit, crash, print or    *)
(* hang.  A thread calls run once; its child carries the thread's name.    *)
(***************************************************************************)
EXTENDS Integers, Sequences, FiniteSets, FiniteSetsExt

CONSTANTS Thread,     \* threads of Mull that call run
          Capacity,   \* bytes a pipe holds before a write blocks
          ReadSize,   \* bytes Pipe::capture asks for in a read
          MaxWrites,  \* bound: bytes the tests print, together
          MaxPrints,  \* bound: progress lines Mull prints meanwhile
          ExitCode,   \* what a test may pass to exit()
          Capture,    \* values shouldCaptureOutput may have
          Fault,      \* system calls that may fail: "pipe" "fork" "dup2" "timer"
          Strict      \* values Diagnostics::strictModeEnabled may have

ASSUME SandboxAssumption ==
  /\ Capacity \in Nat \ {0} /\ ReadSize \in Nat \ {0} /\ MaxWrites \in Nat /\ MaxPrints \in Nat
  /\ ExitCode \subseteq 0..255 /\ Capture \subseteq BOOLEAN
  /\ Fault \subseteq {"pipe", "fork", "dup2", "timer"}
  /\ Strict \subseteq BOOLEAN

Stream == {"out", "err"}
Mull == "mull"                        \* the process of Mull itself
MullExitCode == 0
MullTimeoutCode == 239
TestStatus == {"Passed", "Failed"}        \* what TestRunner::runTest returns
NoEnd == [how |-> "running", code |-> 0]  \* a wait status not yet there

VARIABLES
  strictMode,    \* Diagnostics::strictModeEnabled
  alive,         \* Mull has not left through Diagnostics::error or ::warning
  printing,      \* a Mull thread is inside Diagnostics::progress: it holds the
                 \* mutex and its text is still in stdout's stdio buffer
  prints,        \* progress lines printed so far
  pc,            \* where thread t is inside run
  shouldCapture, \* Pipe::shouldCapture in Mull, per thread and stream
  writers,       \* processes with the pipe's write end open
  pipe,          \* bytes in the pipe
  cpc,           \* where thread t's child is
  redirected,    \* the child's stream really goes to the pipe
  locked,        \* the child's copy of the diagnostics mutex is held
  pending,       \* bytes in the child's stdio buffers
  written,       \* how many bytes the test has printed (history)
  binary,        \* the test has printed a NUL (history)
  sharedStatus,  \* the status in the memory shared by Mull and the child
  code,          \* the code the child is about to exit with
  wstatus,       \* its wait status
  fate,          \* what made the child end (history)
  captured,      \* stdoutOutput and stderrOutput as read so far
  result         \* the status run returns

mullVars == << strictMode, alive, printing, prints >>
pipeVars == << writers, pipe >>
parentVars == << pc, shouldCapture, captured, result >>
childVars == << cpc, redirected, locked, pending, written, binary, sharedStatus, code,
                wstatus, fate >>
vars == << mullVars, pipeVars, parentVars, childVars >>

PerStream(x) == [t \in Thread |-> [s \in Stream |-> x]]

Init ==
  /\ strictMode \in Strict
  /\ alive = TRUE /\ printing = FALSE /\ prints = 0
  /\ pc = [t \in Thread |-> "openOut"]
  /\ \E c \in Capture : shouldCapture = PerStream(c)
  /\ writers = PerStream({})
  /\ pipe = PerStream(<< >>)
  /\ cpc = [t \in Thread |-> "none"]
  /\ redirected = PerStream(FALSE)
  /\ locked = [t \in Thread |-> FALSE]
  /\ pending = PerStream(<< >>)
  /\ written = PerStream(0) /\ binary = PerStream(FALSE)
  /\ sharedStatus = [t \in Thread |-> "Invalid"]
  /\ code = [t \in Thread |-> 0]
  /\ wstatus = [t \in Thread |-> NoEnd]
  /\ fate = [t \in Thread |-> "none"]
  /\ captured = PerStream(<< >>)
  /\ result = [t \in Thread |-> "none"]

-----------------------------------------------------------------------------
(* Diagnostics, as the threads of Mull use it.                             *)

\* progress(): lock, fprintf(stdout) ...
ProgressBegin ==
  /\ alive /\ ~printing /\ prints < MaxPrints
  /\ printing' = TRUE
  /\ prints' = prints + 1
  /\ UNCHANGED << strictMode, alive, pipeVars, parentVars, childVars >>

\* ... fflush(stdout), unlock.
ProgressEnd ==
  /\ alive /\ printing
  /\ printing' = FALSE
  /\ UNCHANGED << strictMode, alive, prints, pipeVars, parentVars, childVars >>

\* warning() in Mull: waits for the mutex; fatal in strict mode.
Warning == ~printing /\ alive' = ~strictMode

\* error() in Mull: waits for the mutex and exits.
Error == ~printing /\ alive' = FALSE

-----------------------------------------------------------------------------
(* run() in Mull.                                                          *)

Goto(t, from, to) == pc[t] = from /\ pc' = [pc EXCEPT ![t] = to]

\* Pipe::Pipe
OpenPipe(t, s, from, to) ==
  /\ alive
  /\ Goto(t, from, to)
  /\ \/ /\ shouldCapture[t][s]
        /\ writers' = [writers EXCEPT ![t][s] = {Mull}]
        /\ UNCHANGED << alive, shouldCapture >>
     \/ /\ shouldCapture[t][s] /\ "pipe" \in Fault
        /\ shouldCapture' = [shouldCapture EXCEPT ![t][s] = FALSE]
        /\ Warning
        /\ UNCHANGED writers
     \/ /\ ~shouldCapture[t][s]
        /\ UNCHANGED << alive, shouldCapture, writers >>
  /\ UNCHANGED << strictMode, printing, prints, pipe, captured, result, childVars >>

\* fork(): the child gets a copy of everything Mull has open, of the stdio
\* buffer and of the state of the mutex, and only its own thread runs on.
Fork(t) ==
  /\ alive
  /\ Goto(t, "fork", "wait")
  /\ cpc' = [cpc EXCEPT ![t] = "redirectOut"]
  /\ writers' = [u \in Thread |-> [s \in Stream |->
                   IF Mull \in writers[u][s] THEN writers[u][s] \cup {t}
                                             ELSE writers[u][s]]]
  /\ pending' = [pending EXCEPT ![t]["out"] = IF printing THEN << "mull" >> ELSE << >>]
  /\ locked' = [locked EXCEPT ![t] = printing]
  /\ UNCHANGED << mullVars, pipe, shouldCapture, captured, result, redirected,
                  written, binary, sharedStatus, code, wstatus, fate >>

ForkFails(t) ==
  /\ alive
  /\ "fork" \in Fault
  /\ pc[t] = "fork"
  /\ Error
  /\ UNCHANGED << strictMode, printing, prints, pipeVars, parentVars, childVars >>

\* waitpid(workerPID, ...)
Reap(t) ==
  /\ alive
  /\ cpc[t] = "exited"
  /\ Goto(t, "wait", "closeOut")
  /\ cpc' = [cpc EXCEPT ![t] = "reaped"]
  /\ UNCHANGED << mullVars, pipeVars, shouldCapture, captured, result, redirected,
                  locked, pending, written, binary, sharedStatus, code, wstatus, fate >>

\* Mutant: Mull keeps its own write end open.
BeginCaptureNoClose(t, s, from, to) ==
  /\ alive
  /\ Goto(t, from, to)
  /\ UNCHANGED << mullVars, pipeVars, shouldCapture, captured, result, childVars >>

\* Pipe::capture: close the write end, read to the end of file.
BeginCapture(t, s, from, to) ==
  /\ alive
  /\ Goto(t, from, to)
  /\ writers' = IF shouldCapture[t][s] THEN [writers EXCEPT ![t][s] = @ \ {Mull}]
                                       ELSE writers
  /\ UNCHANGED << mullVars, pipe, shouldCapture, captured, result, childVars >>

\* What output.append(buffer) appends: the bytes before the first NUL.
CString(buffer) ==
  LET nuls == {i \in DOMAIN buffer : buffer[i] = "nul"} IN
  IF nuls = {} THEN buffer ELSE SubSeq(buffer, 1, Min(nuls) - 1)

\* A read gets count bytes.
ReadChunk(t, s, at) ==
  /\ alive
  /\ pc[t] = at
  /\ shouldCapture[t][s]
  /\ \E count \in 1 .. ReadSize :
       LET bytes == pipe[t][s] IN
       /\ count <= Len(bytes)
       /\ captured' = [captured EXCEPT ![t][s] = @ \o CString(SubSeq(bytes, 1, count))]
       /\ pipe' = [pipe EXCEPT ![t][s] = SubSeq(bytes, count + 1, Len(bytes))]
  /\ UNCHANGED << mullVars, writers, pc, shouldCapture, result, childVars >>

EndOfFile(t, s) == pipe[t][s] = << >> /\ writers[t][s] = {}

EndCapture(t, s, from, to) ==
  /\ alive
  /\ shouldCapture[t][s] => EndOfFile(t, s)
  /\ Goto(t, from, to)
  /\ UNCHANGED << mullVars, pipeVars, shouldCapture, captured, result, childVars >>

Exited(t) == wstatus[t].how = "exited"

\* What run makes of the wait status and of the shared memory.
Decode(t) ==
  IF wstatus[t].how = "signaled" THEN "Crashed"
  ELSE IF Exited(t) /\ wstatus[t].code = MullTimeoutCode THEN "Timedout"
  ELSE IF Exited(t) /\ wstatus[t].code # MullExitCode THEN "AbnormalExit"
  ELSE IF sharedStatus[t] = "Invalid" THEN "Passed"
  ELSE sharedStatus[t]

ReturnResult(t) ==
  /\ alive
  /\ Goto(t, "decode", "done")
  /\ result' = [result EXCEPT ![t] = Decode(t)]
  /\ UNCHANGED << mullVars, pipeVars, shouldCapture, captured, childVars >>

Parent(t) ==
  \/ OpenPipe(t, "out", "openOut", "openErr")
  \/ OpenPipe(t, "err", "openErr", "fork")
  \/ Fork(t) \/ ForkFails(t)
  \/ Reap(t)
  \/ BeginCapture(t, "out", "closeOut", "readOut")
  \/ ReadChunk(t, "out", "readOut")
  \/ EndCapture(t, "out", "readOut", "closeErr")
  \/ BeginCapture(t, "err", "closeErr", "readErr")
  \/ ReadChunk(t, "err", "readErr")
  \/ EndCapture(t, "err", "readErr", "decode")
  \/ ReturnResult(t)

-----------------------------------------------------------------------------
(* The child.                                                              *)

\* The child is gone: its descriptors are closed, what it had not flushed is
\* lost, and Mull can reap it.
End(t, how, c, why) ==
  /\ cpc' = [cpc EXCEPT ![t] = "exited"]
  /\ wstatus' = [wstatus EXCEPT ![t] = [how |-> how, code |-> c]]
  /\ fate' = [fate EXCEPT ![t] = why]
  /\ writers' = [u \in Thread |-> [s \in Stream |-> writers[u][s] \ {t}]]
  /\ pending' = [pending EXCEPT ![t] = [s \in Stream |-> << >>]]

\* exit(c): the stdio buffers are flushed before the process ends.
StartExit(t, c, why) ==
  /\ cpc' = [cpc EXCEPT ![t] = "flush"]
  /\ code' = [code EXCEPT ![t] = c]
  /\ fate' = [fate EXCEPT ![t] = why]

\* Mutant: a child that cannot be set up leaves with MullExitCode.
ChildDiagnosticExitsZero(t, fatal, next) ==
  IF locked[t]
  THEN /\ cpc' = [cpc EXCEPT ![t] = "stuck"]
       /\ UNCHANGED << code, fate >>
  ELSE IF fatal THEN StartExit(t, MullExitCode, "setup")
  ELSE /\ cpc' = [cpc EXCEPT ![t] = next]
       /\ UNCHANGED << code, fate >>

\* A diagnostic issued by the child: it blocks for ever on a mutex that was
\* held when Mull forked, and otherwise exits when it is fatal.
ChildDiagnostic(t, fatal, next) ==
  IF locked[t]
  THEN /\ cpc' = [cpc EXCEPT ![t] = "stuck"]
       /\ UNCHANGED << code, fate >>
  ELSE IF fatal THEN StartExit(t, 1, "setup")
  ELSE /\ cpc' = [cpc EXCEPT ![t] = next]
       /\ UNCHANGED << code, fate >>

\* Pipe::redirect
Redirect(t, s, from, to) ==
  /\ alive
  /\ cpc[t] = from
  /\ \/ /\ shouldCapture[t][s]
        /\ redirected' = [redirected EXCEPT ![t][s] = TRUE]
        /\ cpc' = [cpc EXCEPT ![t] = to]
        /\ UNCHANGED << writers, code, fate >>
     \/ /\ shouldCapture[t][s] /\ "dup2" \in Fault
        /\ ChildDiagnostic(t, strictMode, to)
        /\ writers' = IF locked[t] \/ strictMode
                      THEN writers ELSE [writers EXCEPT ![t][s] = @ \ {t}]
        /\ UNCHANGED redirected
     \/ /\ ~shouldCapture[t][s]
        /\ cpc' = [cpc EXCEPT ![t] = to]
        /\ UNCHANGED << redirected, writers, code, fate >>
  /\ UNCHANGED << mullVars, parentVars, pipe, locked, pending, written, binary, sharedStatus,
                  wstatus >>

\* handle_timeout
ArmTimer(t) ==
  /\ alive
  /\ cpc[t] = "arm"
  /\ \/ /\ cpc' = [cpc EXCEPT ![t] = "run"]
        /\ UNCHANGED << code, fate >>
     \/ /\ "timer" \in Fault
        /\ ChildDiagnostic(t, TRUE, "run")
  /\ UNCHANGED << mullVars, parentVars, pipeVars, redirected, locked, pending,
                  written, binary, sharedStatus, wstatus >>

Printed ==
  MapThenSumSet(LAMBDA t : written[t]["out"] + written[t]["err"], Thread)

\* function() prints a byte.
TestPrints(t, s, byte) ==
  /\ alive
  /\ cpc[t] = "run"
  /\ Printed < MaxWrites
  /\ written' = [written EXCEPT ![t][s] = @ + 1]
  /\ binary' = [binary EXCEPT ![t][s] = @ \/ byte = "nul"]
  /\ pending' = [pending EXCEPT ![t][s] = Append(@, byte)]
  /\ UNCHANGED << mullVars, parentVars, pipeVars, cpc, redirected, locked,
                  sharedStatus, code, wstatus, fate >>

\* function() returns and its status is stored in the shared memory.
TestReturns(t, status) ==
  /\ alive
  /\ cpc[t] = "run"
  /\ sharedStatus' = [sharedStatus EXCEPT ![t] = status]
  /\ StartExit(t, MullExitCode, "returned")
  /\ UNCHANGED << mullVars, parentVars, pipeVars, redirected, locked, pending,
                  written, binary, wstatus >>

\* function() calls exit(c).
TestExits(t, c) ==
  /\ alive
  /\ cpc[t] = "run"
  /\ StartExit(t, c, "exit")
  /\ UNCHANGED << mullVars, parentVars, pipeVars, redirected, locked, pending,
                  written, binary, sharedStatus, wstatus >>

\* function() dies of a signal.
TestCrashes(t) ==
  /\ alive
  /\ cpc[t] = "run"
  /\ End(t, "signaled", 0, "crash")
  /\ UNCHANGED << mullVars, parentVars, pipe, redirected, locked, written, binary,
                  sharedStatus, code >>

\* stdio hands a byte to the descriptor: a write blocks on a full pipe.
FlushChunk(t, s) ==
  /\ alive
  /\ cpc[t] \in {"run", "flush"}
  /\ pending[t][s] # << >>
  /\ redirected[t][s] => Len(pipe[t][s]) < Capacity
  /\ pipe' = IF redirected[t][s]
             THEN [pipe EXCEPT ![t][s] = Append(@, Head(pending[t][s]))] ELSE pipe
  /\ pending' = [pending EXCEPT ![t][s] = Tail(@)]
  /\ UNCHANGED << mullVars, parentVars, writers, cpc, redirected, locked, written, binary,
                  sharedStatus, code, wstatus, fate >>

\* Mutant: _exit without fflush.
NotFlushed(t) == TRUE

Flushed(t) == \A s \in Stream : pending[t][s] = << >>

\* fflush(stderr); fflush(stdout); _exit(MullExitCode), or the end of exit(c).
ChildExits(t) ==
  /\ alive
  /\ cpc[t] = "flush"
  /\ Flushed(t)
  /\ End(t, "exited", code[t], fate[t])
  /\ UNCHANGED << mullVars, parentVars, pipe, redirected, locked, written, binary,
                  sharedStatus, code >>

\* SIGALRM: handle_alarm_signal calls _exit, wherever the child is.
Alarm(t) ==
  /\ alive
  /\ cpc[t] \in {"run", "flush"}
  /\ fate[t] # "setup"
  /\ End(t, "exited", MullTimeoutCode, "alarm")
  /\ UNCHANGED << mullVars, parentVars, pipe, redirected, locked, written, binary,
                  sharedStatus, code >>

\* Steps of the child that do not depend on the test.
ChildSetup(t) ==
  \/ Redirect(t, "out", "redirectOut", "redirectErr")
  \/ Redirect(t, "err", "redirectErr", "arm")
  \/ ArmTimer(t)

ChildFinish(t) == (\E s \in Stream : FlushChunk(t, s)) \/ ChildExits(t)

Test(t) ==
  \/ \E s \in Stream, byte \in {"test", "nul"} : TestPrints(t, s, byte)
  \/ \E status \in TestStatus : TestReturns(t, status)
  \/ \E c \in ExitCode : TestExits(t, c)
  \/ TestCrashes(t)

-----------------------------------------------------------------------------

Terminated ==
  /\ ~alive \/ \A t \in Thread : pc[t] = "done"
  /\ UNCHANGED vars

\* A child that blocks on the inherited mutex has no timer: it, and everyone
\* who waits for it, stays where it is.
Deadlocked ==
  /\ \E t \in Thread : cpc[t] = "stuck"
  /\ UNCHANGED vars

Next ==
  \/ ProgressBegin \/ ProgressEnd
  \/ \E t \in Thread :
       Parent(t) \/ ChildSetup(t) \/ Test(t) \/ ChildFinish(t) \/ Alarm(t)
  \/ Terminated \/ Deadlocked

Spec == Init /\ [][Next]_vars

\* Threads and processes that can run do, and timers go off.  Nothing is
\* assumed of the test.
Fairness ==
  /\ WF_vars(ProgressEnd)
  /\ \A t \in Thread :
       /\ WF_vars(Parent(t))
       /\ WF_vars(ChildSetup(t))
       /\ WF_vars(Alarm(t))
       /\ WF_vars(ChildExits(t))
       /\ WF_vars(cpc[t] = "flush" /\ \E s \in Stream : FlushChunk(t, s))

FairSpec == Spec /\ Fairness

-----------------------------------------------------------------------------
(* Properties.                                                             *)

\* A verdict names what ended this run's own child.  Passed, by which a mutant
\* survives a test: function() returned Passed or left through exit(0) before its
\* time was over; Failed: it returned so; Crashed: a signal; AbnormalExit: an exit
\* code (the test's, or of a child that could not be set up); Timedout: the alarm
\* (or an exit with its code).
VerdictNamesTheFate ==
  \A t \in Thread :
    /\ result[t] = "Passed" =>
         \/ fate[t] = "returned" /\ sharedStatus[t] = "Passed"
         \/ fate[t] = "exit" /\ code[t] = 0
    /\ result[t] = "Failed" => fate[t] = "returned" /\ sharedStatus[t] = "Failed"
    /\ result[t] = "Crashed" <=> pc[t] = "done" /\ fate[t] = "crash"
    /\ result[t] = "AbnormalExit" =>
         fate[t] \in {"exit", "setup"} /\ code[t] \notin {MullExitCode, MullTimeoutCode}
    /\ result[t] = "Timedout" =>
         fate[t] = "alarm" \/ (fate[t] = "exit" /\ code[t] = MullTimeoutCode)

\* The number of bytes of text in q that the test has printed.
Own(q) == Cardinality({i \in DOMAIN q : q[i] = "test"})

\* run never loses text of a child that ended by itself: all that the test printed
\* to a redirected stream is in the result, though Mull starts reading only when the
\* child is dead, and whatever the reads are cut into.  A test that prints a NUL is
\* the exception: the rest of the read that the NUL is in is dropped.
OutputIsWhole ==
  \A t \in Thread, s \in Stream :
    pc[t] = "done" /\ redirected[t][s] /\ fate[t] \in {"returned", "exit"} /\ ~binary[t][s]
      => Own(captured[t][s]) = written[t][s]

\* Once a thread reads a pipe, the processes that can keep it from the end of
\* file only become fewer: no child that is forked later holds the write end.
NoNewWriterWhileReading ==
  [][\A t \in Thread, s \in Stream :
       pc[t] = (IF s = "out" THEN "readOut" ELSE "readErr")
         => writers'[t][s] \subseteq writers[t][s]]_vars

\* A run that has forked its child returns: whatever the tests do, each child
\* ends at the latest with its alarm, and so do the foreign children that hold
\* the write end of this run's pipes.  The exceptions are Mull's own exit, and a
\* child that was forked while another thread held the diagnostics mutex and
\* that blocks on its copy before its timer is armed.
RunReturns ==
  \A t \in Thread :
    pc[t] = "wait" ~> (pc[t] = "done" \/ ~alive \/ \E u \in Thread : cpc[u] = "stuck")

\* tests/ProcessSandboxTest.cpp, captureOutputFromChildProcess: stdoutOutput is
\* what the function printed, and nothing else.
CapturedIsWhatTheTestPrinted ==
  \A t \in Thread :
    pc[t] = "done" => Own(captured[t]["out"]) = Len(captured[t]["out"])
=============================================================================
