SPECIFICATION FairSpec
CONSTANTS
  f = f
  g = g
  h = h
  p1 = p1
  p2 = p2
  p3 = p3
  p4 = p4
  t1 = t1
  t2 = t2
  Fn <- MCFn
  Test <- MCTest
  Points <- MCPoints
  FnOf <- MCFnOf
  Id <- MCId
  Reach <- MCReach
  BadStatus = {"Failed"}
  Reporters <- MCReporters
  MaxRefused = 1
INVARIANTS OnlyThisMutant DatabaseIsWhole KilledIffDetected
PROPERTY RunEnds
