SPECIFICATION Spec
CONSTANTS
  p1 = p1
  p2 = p2
  n1 = n1
  n2 = n2
  n3 = n3
  n4 = n4
  c1 = c1
  c2 = c2
  None = None
  Cases = {c1, c2}
  Plans = {p1}
  Names <- Four
  Branches = {"main"}
  Default = "main"
  Commits = {"k1"}
  Metas <- HistoryMetas
  Reports <- HistoryReports
  Linkable <- OneLink
  Flaggable = {}
  Window = 1
  MinFlips = 2
  MaxBuilds = 4
  Start = 1
  MaxNow = 1
  MaxLag = 1
  MaxAvoided = 0
SYMMETRY NameSymmetry
INVARIANTS
  RateCountsSkipped
PROPERTY FixPathPersists
CHECK_DEADLOCK FALSE
