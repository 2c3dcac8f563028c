SPECIFICATION FairSpec
CONSTANTS
  NumHarts = 3
  JobBudget = 26
  Limit = 5
  MaxStores = 2
  MaxResumes = 3
  Events <- Halts
CHECK_DEADLOCK FALSE
INVARIANTS TypeOK LockHolder NoJobInvented
PROPERTIES StoreEnds LockFreed
