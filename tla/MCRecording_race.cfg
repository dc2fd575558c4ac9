SPECIFICATION FairSpec
CONSTANTS
  r1 = r1
  r2 = r2
  None = None
  Recorders = {r1, r2}
  Cases <- MCCases
  Builds = {"b1", "b2"}
  Registered = {"b1"}
  Fields = {"commit_id", "branch"}
  Values = {"v1", "v2"}
  Requests <- RaceRequests
  DependsOn <- MCDependsOn
  Members <- MCMembers
  MaxAttempts = 2
  MaxCrashes = 1
INVARIANTS
  TypeOK
  OneResultPerAnswer
  BlockedHasCause
  CascadeSkipsRecorded
  CascadeIsComplete
PROPERTIES
  OnlyStaleReadsOverwrite
  ImplementsLedger
  EveryRequestSettles
CHECK_DEADLOCK FALSE
