SPECIFICATION Spec
CONSTANTS
  r1 = r1
  r2 = r2
  None = None
  Recorders = {r1, r2}
  Cases <- MCCases
  Builds = {"b1", "b2"}
  Registered = {"b1"}
  Fields = {"commit_id", "branch"}
  Values = {"v1", "v2"}
  Requests <- BuildRequests
  DependsOn <- MCDependsOn
  Members <- MCMembers
  MaxAttempts = 1
  MaxCrashes = 0
PROPERTY FirstSupplierWins
CHECK_DEADLOCK FALSE
