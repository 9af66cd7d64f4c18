SPECIFICATION Spec
CONSTANTS
  t1 = t1
  t2 = t2
  Thread = {t1, t2}
  Capacity = 2
  ReadSize = 2
  MaxWrites = 2
  MaxPrints = 1
  ExitCode = {0, 239}
  Capture = {TRUE, FALSE}
  Fault = {"pipe", "fork", "dup2", "timer"}
  Strict = {TRUE}
SYMMETRY Symmetry
INVARIANTS
  VerdictNamesTheFate
  OutputIsWhole
PROPERTY
  NoNewWriterWhileReading
