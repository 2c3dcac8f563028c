SPECIFICATION Spec
CONSTANTS
  NumHarts = 4
  JobBudget = 26
  Limit = 5
  MaxStores = 2
  MaxResumes = 7
  Events <- Signals
CHECK_DEADLOCK FALSE
INVARIANT MutualExclusion

