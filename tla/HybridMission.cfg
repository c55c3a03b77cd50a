SPECIFICATION FairSpec
CONSTANTS
  Nothing = Nothing
  Programs = {1, 2}
  Costs <- MCCosts
  Budget <- MCBudget
  MaxFaults = 2
  TornWrites = TRUE
INVARIANTS
  TypeOK
  LedgerOrder
  Consistent
  StateReplaysLedger
  OnlyProposedActionsHappen
  EstimatorsFollowLedger
  BudgetDecidesTheEnd
  OwnChecksNeverFire
  RefusedOnlyInWindow
PROPERTIES
  NothingTakenBack
  KeepsPromise
  Completes
  CompletesUnlessStranded
