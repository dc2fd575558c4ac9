SPECIFICATION Spec
CONSTANTS
  w1 = w1
  w2 = w2
  None = None
  Planners = {w1, w2}
  Cases = {"a", "b", "x"}
  Plans = {"plan"}
  Builds = {"b1"}
  PlanOf <- MCPlanOf
  Specs = {"spec"}
  ProjectOf <- MCProjectOf
  FirstSpec = "spec"
  Platforms = {"linux"}
  Requests <- MCRequests
  MaxVersion = 2
  MaxAttempts = 2
  MaxCrashes = 1
SYMMETRY PlannerSymmetry
INVARIANTS
  TypeOK
  SelectedOnce
  RemovalIsComplete
  RequirementIsWhole
  RerunIsQueued
PROPERTY CoveredStaysCovered
CHECK_DEADLOCK FALSE
