SPECIFICATION Spec
CONSTANTS
  k1 = k1
  k2 = k2
  Clients = {k1, k2}
  Cases <- MCCases
  Project <- MCProject
  Pairs <- MCPairs
  MaxRequests = 1
SYMMETRY ClientSymmetry
INVARIANT Acyclic
CHECK_DEADLOCK FALSE
