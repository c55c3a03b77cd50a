SPECIFICATION Spec
CONSTANTS
  None = None
  Torn = Torn
  Missing = Missing
  Infinity = 1000
  Runs = {"pf_strict", "mle_spectral"}
  Results <- MCResults
  Order <- MCOrder
  Truths <- MCTruths
  MaxAttempts = 2
INVARIANTS
  PublishedIsValidated
  MatchesAreCheapest
CHECK_DEADLOCK FALSE
