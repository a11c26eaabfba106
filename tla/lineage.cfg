CONSTANTS
  NCases = 2
  Gens = {1}
  SpecGen = 1
  Images = {i1,i2}
  Variants = {v1, v2}
  ReplayStatuses = {"PASS", "INCONCLUSIVE"}
  GateStatuses = {"PASS", "FAIL"}
  Policies = {p1,p2}
  Scope = "core-54"
  MatStarts = 1
  CapStarts = 2
  ProbStarts = 1
  ArmStarts = 1
  PairStarts = 1
  Edits = 1
  MaxStarts <- MCMaxStarts
  MaxActive = 2
  None = None
SPECIFICATION Spec
INVARIANTS  PassIsReviewed
CHECK_DEADLOCK FALSE
SYMMETRY Symmetry
