CONSTANTS
  NumHarts = 1
  CodeAddr = {4, 12}
  DataAddr = {16}
  EntryAddr = 12
  PollAddr = 12
  StoreAddr = 4
  Traps = {"ebreak", "illegal"}
  Commands <- OneCoreCommands
  Events = {"ctrlc", "close"}
  MaxOwed = 2
SPECIFICATION Spec
CHECK_DEADLOCK FALSE
INVARIANTS TypeOK AnsweredOnce NoRunPastWatchHit
PROPERTY SwbreakTruth
