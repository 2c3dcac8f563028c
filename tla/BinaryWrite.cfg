SPECIFICATION Spec
CONSTANTS
  BufSize = 3
  AddrSpace = 6
  Packets = 2
  Ram <- MCRam
  Requests <- MCRequests
INVARIANTS TypeOK NoOverflow AllOrNothing WrittenAsSent
\* The debugger sends no more packets.
CHECK_DEADLOCK FALSE
