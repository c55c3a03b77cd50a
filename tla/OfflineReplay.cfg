SPECIFICATION Spec
CONSTANTS
  None = None
  Support = 2
  Reject <- MCReject
  MinBlocks = 2
  MinStations = 2
  MinHeights = 2
  MinPrograms = 1
  Log <- MCLog
  Policy <- MCPolicy
  Mode = "exact_rj"
  Names = {1, 2}
  Ratios <- MCRatios
  Deviances = {0, 2}
INVARIANTS
  TypeOK
  VerdictsJustified
  EvidenceIsTheFuture
  CheckpointHistory
  OwnChecksNeverFire
CHECK_DEADLOCK FALSE
