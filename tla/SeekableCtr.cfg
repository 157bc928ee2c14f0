\* Blocks of three bytes, four block indices.
CONSTANTS
  BLOCK_SIZE = 3
  Blocks = 4
  Counts <- MCCounts
  Offsets <- MCOffsets
SPECIFICATION FairSpec
INVARIANTS
  TypeOK
  CallContract
PROPERTIES
  CallEnds
