SPECIFICATION FairSpec
CONSTANTS
  t1 = t1
  t2 = t2
  Thread = {t1, t2}
  ExitCode = {0, 1}
  Fault = {"watchdog", "timer", "worker"}
INVARIANTS
  NoFalsePass
  NoProcessLeft
  ResultIsValid
PROPERTY RunReturnsUnlessRobbed
