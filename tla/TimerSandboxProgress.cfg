SPECIFICATION Spec
CONSTANTS
  t1 = t1
  t2 = t2
  Thread = {t1}
  Capacity = 1
  ReadSize = 2
  MaxWrites = 1
  MaxPrints = 1
  ExitCode = {0, 1}
  Capture = {TRUE}
  Fault = {}
  Strict = {FALSE}
INVARIANT CapturedIsWhatTheTestPrinted
