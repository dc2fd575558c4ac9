SPECIFICATION Spec
CONSTANTS
  w1 = w1
  w2 = w2
  None = None
  Authors = {w1, w2}
  Prefixes = {"P", "Q"}
  Home = "P"
  Names = {"A", "B"}
  Root = "A"
  Stock = 1
  Fields <- MCFields
  Values = {"v1", "v2"}
  Requests <- MCRequests
  MaxAttempts = 2
  MaxCrashes = 1
SYMMETRY AuthorSymmetry
INVARIANTS
  TypeOK
  NumbersAreDense
  PathSplitsNeedARace
  CasesAreFiled
  ListsAreFiledInOrder
  VersionsForkOnlyInARace
  EditsSurvive
PROPERTIES
  ImplementsCatalog
CHECK_DEADLOCK FALSE
