SPECIFICATION FairSpec
CONSTANTS
  N = 4
  TestBody = 2
  MaxDistance = 2
  Unwinding = TRUE
  MaxDepth = 4
  MaxCalls = 4
INVARIANTS
  PopIsDefined
  NoParentCycle
  RootHasNode
  ParentIsACallerUntilUnwound
  TreeHasEveryCall
PROPERTIES
  StoredWereReached
  CollectionEnds
