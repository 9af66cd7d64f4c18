SPECIFICATION Spec
CONSTANTS
  Workers = 2
  IntMax = 511
  Program <- MCProgram
  Options <- MCOptions
INVARIANT LookupsAreAnswered
