SPECIFICATION FairSpec
CONSTANTS
  BufSize = 4
  MaxFailures = 50
  Payloads <- MCPayloads
  Noise <- MCNoise
  Reframing = TRUE
  MaxPackets = 4
  MaxBadRequests = 1
  MaxBadReplies = 1
  Interrupts = {TRUE, FALSE}
  Closes = TRUE
CHECK_DEADLOCK FALSE
INVARIANTS TypeOK NoFailureWithoutFault AckModesAgree RunsUndisturbed
PROPERTIES ImplementsPacketChannel RepliesInStep RequestAnswered
