SPECIFICATION FairSpec
CONSTANTS
  AddrSpace = 8
  Ram <- MCRam
  Byte <- MCByte
  Requests <- MCRequests
INVARIANTS TypeOK FirstMatch
PROPERTY SearchEnds
