CONSTANTS
  NumHarts = 2
  CodeAddr = {4, 8}
  DataAddr = {16}
  EntryAddr = 4
  PollAddr = 8
  StoreAddr = 4
  Traps = {}
  Commands <- TwoHartCommands
  Events = {"ctrlc"}
  MaxOwed = 2
SPECIFICATION Spec
CHECK_DEADLOCK FALSE
INVARIANT RunsAsAsked
PROPERTY StepHappens
