SPECIFICATION FairSpec
CONSTANTS
  Logins = {"u1", "u2", "u3"}
  FirstUsers = {"u1", "u2"}
  Clients = {"c1", "c2", "c3"}
  Scenarios <- MCScenarios
  Verdicts = {"confirmed", "refuted"}
  AuthRequired = TRUE
  LastN = 1
  MaxAttempts = 2
  MaxCrashes = 1
  None = None
INVARIANTS
  TypeOK
  VerdictsAreInOrder
  EvidenceIsWhole
PROPERTY ClaimsGetAudited
CHECK_DEADLOCK FALSE
