SPECIFICATION Spec
CONSTANTS
  None = None
  Support = 2
  Reject <- MCReject
  MinBlocks = 1
  MinStations = 1
  MinHeights = 1
  MinPrograms = 1
  Log <- MCLog
  Policy <- MCPolicy
  Deviances = {0, 1}
  Mode = "exact_rj"
  Names = {1, 2}
  Ratios <- MCRatios
  Moves = {"accepted", "rejected"}
  Rank <- MCRank
  MaxFaults = 1
INVARIANTS
  TypeOK
  EveryClaimHasAReceipt
  RestartsMeetTheirFiles
CHECK_DEADLOCK FALSE
