SPECIFICATION Spec
CONSTANTS
  Nothing = Nothing
  Programs = {1, 2}
  Costs <- MCCosts
  Budget <- MCBudget
  MaxFaults = 1
  TornWrites = FALSE
INVARIANT
  UpdaterNeverRefuses
