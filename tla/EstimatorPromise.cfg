SPECIFICATION PromiseSpec
CONSTANTS
  None = None
  Support = 1
  Reject <- MCReject
  MinBlocks = 1
  MinStations = 1
  MinHeights = 1
  MinPrograms = 2
  Log <- MCLog
  Policy <- MCPolicy
  Deviances = {0, 1}
  Mode = "exact_rj"
  Names = {1}
  Ratios <- MCRatios
  Moves = {"accepted"}
  Rank <- MCRank
INVARIANTS
  VerdictsJustified
  EvidenceIsTheFuture
  JumpsFollowVerdicts
CHECK_DEADLOCK FALSE
