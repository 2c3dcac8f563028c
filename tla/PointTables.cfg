CONSTANTS
  Addr <- MCAddr
  WatchAddr <- MCWatchAddr
  PacketLen <- MCPacketLen
  MaxBreakpoints = 1
  MaxWatchpoints = 2
  Frugal = TRUE
SPECIFICATION Spec
INVARIANTS TypeOK NoDuplicateSlots
PROPERTY ImplementsArmedPoints
