SPECIFICATION FairSpec
CONSTANTS
  t1 = t1
  t2 = t2
  Thread = {t1, t2}
  Capacity = 1
  ReadSize = 2
  MaxWrites = 0
  MaxPrints = 1
  ExitCode = {1}
  Capture = {TRUE}
  Fault = {"dup2"}
  Strict = {FALSE}
PROPERTY RunReturns
