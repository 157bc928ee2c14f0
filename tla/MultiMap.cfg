\* Three map indices, 3 of 5 bytes per step, four refills and a partial one.
\* The bound on the bytes drawn ends the behaviour.
CHECK_DEADLOCK FALSE
CONSTANTS
  IndexValues = 3
  MaxKeyLen = 3
  Bytes <- MCBytes
  MapCounts <- MCMapCounts
  MasterKey <- MCKey
  Nonce <- MCNonce
  WARMUP = 2
  WORD_BYTES = 5
  OUTPUT_BYTES_PER_STEP = 3
  MaxBytes = 13
SPECIFICATION Spec
INVARIANTS
  TypeOK
  EnginesApart
PROPERTIES
  ReadsTheTape
