SPECIFICATION Spec
CONSTANTS
  MaxOperands = 3
  Program <- MCProgram
  Atom <- MCAtom
INVARIANTS
  EveryJumpHasOneValue
  ChainMutantIsLocal
  PointIsOfItsOperator
  MergedMutantIsExact
