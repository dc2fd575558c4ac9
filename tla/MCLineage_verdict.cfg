SPECIFICATION Spec
CONSTANTS
  p1 = p1
  p2 = p2
  n1 = n1
  n2 = n2
  n3 = n3
  n4 = n4
  c1 = c1
  c2 = c2
  None = None
  Cases = {c1}
  Plans = {p1}
  Names <- Three
  Branches = {"main", "dev"}
  Default = "main"
  Commits = {"k1", "k2"}
  Metas <- BranchMetas
  Reports <- VerdictReports
  Linkable = {}
  Flaggable = {c1}
  Window = 0
  MinFlips = 2
  MaxBuilds = 3
  Start = 0
  MaxNow = 2
  MaxLag = 1
  MaxAvoided = 1
SYMMETRY ThreeSymmetry
INVARIANTS
  TypeOK
  VerdictsAreDecided
PROPERTIES
  BranchesAreIsolated
  LaterBuildsDoNotRejudge
CHECK_DEADLOCK FALSE
