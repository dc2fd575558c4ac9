SPECIFICATION FairSpec
CONSTANTS
  k1 = k1
  k2 = k2
  Clients = {k1, k2}
  Cases <- MCCases
  Project <- MCProject
  Pairs <- MCPairs
  MaxRequests = 2
INVARIANTS
  TypeOK
  CyclesNeedARace
  DuplicatesNeedARace
  RefusalsAreReal
PROPERTY EveryRequestAnswers
CHECK_DEADLOCK FALSE
