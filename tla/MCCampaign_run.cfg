SPECIFICATION FairSpec
CONSTANTS
  Cases = {"a", "b", "x"}
  Agents = {"a1", "a2"}
  FirstPlans <- MCPlans
  FirstDeps <- MCDeps
  Edits <- MCEdits
  Build = "b1"
  Other = "b0"
  MaxFailures = 1
  MaxTroubles = 1
  None = None
INVARIANTS
  TypeOK
  RunsAreGrounded
PROPERTY CampaignSettles
