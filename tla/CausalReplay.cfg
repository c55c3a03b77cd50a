SPECIFICATION Spec
CONSTANTS
  None = None
  Support = 1
  Reject <- MCReject
  MinFuture = 2
  Inputs <- MCInputs
  Policy <- MCPolicy
  Deviances = {0, 2}
  Names = {"a", "b"}
  Ratios <- MCRatios
  Outcomes <- MCOutcomes
INVARIANTS
  TypeOK
  LedgerTellsAll
  EvidenceIsTheFuture
  LineageIsAChain
  ChecksNeverFire
  PrefixIsCausal
CHECK_DEADLOCK FALSE
