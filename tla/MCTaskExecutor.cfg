SPECIFICATION FairSpec
CONSTANTS
  MaxIn = 5
  MaxTasks = 3
  Result <- MCResult
  Output <- MCOutput
  LoopOut <- MCLoopOut
INVARIANTS
  TypeOK
  ExclusiveItems
  OutputInOrder
  MergeIsComplete
PROPERTIES
  ImplementsFairLoop
