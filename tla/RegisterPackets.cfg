SPECIFICATION Spec
CONSTANTS
  Digits = 2
  RegBytes = 2
  NumRegs = 3
  StopPcs = FALSE
  MaxSteps = 2
CHECK_DEADLOCK FALSE
INVARIANTS TypeOK CopyTrue
