SPECIFICATION Spec
CONSTANTS
  Policies <- MCPolicies
  Deviances = {0, 2}
  MaxRecords = 2
  MaxStations = 5
  None = None
INVARIANTS
  TypeOK
  FiresByPolicy
  NeverSilentTooLong
  CutoffsEndStations
CHECK_DEADLOCK FALSE
