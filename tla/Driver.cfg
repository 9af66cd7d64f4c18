SPECIFICATION FairSpec
CONSTANTS
  Modules <- MCModules
  FunctionList <- MCFunctionList
  Declaration <- MCDeclaration
  Instructions <- MCInstructions
  Location <- MCLocation
  Mutators <- MCMutators
  LowLevel <- MCLowLevel
  CanMutate <- MCCanMutate
  Regular <- MCRegular
  Buckets <- MCBuckets
  Unparsed <- MCUnparsed
  InAST <- MCInAST
  Junk <- MCJunk
  TestLists <- MCTestLists
  TestBody <- MCTestBody
  Outcome <- MCOutcome
  FilterOptions <- MCFilterOptions
INVARIANTS
  CallbacksNameTheCallee
  CacheIsWhole
  
  PointsAreExact
  MutantsKeepOrder
PROPERTY SearchEnds
