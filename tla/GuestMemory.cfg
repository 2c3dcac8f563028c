SPECIFICATION Spec
CONSTANTS
  NumHarts = 2
  MaxHarts = 8
  AddrSpace = 256
  RamBase = 128
  RamSize = 72
  SyncBase = 132
  Ipi = 16
  Items = {1}
  Program <- MCProgram
  Loads <- MCLoads
  Reads <- MCReads
  Stores <- MCStores
  Writes <- MCWrites
INVARIANTS TypeOK InBounds
PROPERTY ImplementsFlatMemory
