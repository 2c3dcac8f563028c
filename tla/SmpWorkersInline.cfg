SPECIFICATION Spec
CONSTANTS
  NumHarts = 4
  JobBudget = 128
  Limit = 5
  MaxStores = 2
  MaxResumes = 4
  Events <- NoHalts
CHECK_DEADLOCK FALSE
INVARIANTS JobsInline WithinBudget

