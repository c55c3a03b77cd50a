SPECIFICATION Spec
CONSTANTS
  None = None
  N = 3
  Slots = 2
  Isotopes = {"cs", "co"}
  Charts = {1, 2}
  Strengths = {1}
  ChartTotal = 2
  StrengthTotal = 1
  Stations = 1
  Likelihoods = {1, 9}
  EssNum = 1
  EssDen = 2
  RegionSets <- MCRegionSets
  MaxDirectives = 2
INVARIANTS
  StateValid
  RatioIsTheKernel
CHECK_DEADLOCK FALSE
