CONSTANTS
  NumHarts = 2
  CodeAddr = {4, 8}
  DataAddr = {16}
  EntryAddr = 4
  PollAddr = 8
  StoreAddr = 4
  Traps = {}
  Commands <- SignalCommands
  Events = {"ctrlc", "sigint"}
  MaxOwed = 2
SPECIFICATION FairSpec
CHECK_DEADLOCK FALSE
INVARIANT AnsweredOnce
PROPERTY InterruptAnswered
