CONSTANTS
  alice = alice
  carol = carol
  bob = bob
  ben = ben
  A = A
  B = B
  C = C
  Degenerate = Degenerate
  Stray = Stray
  Malformed = Malformed
  None = None
  Identities <- MCIdentities
  Infos <- MCInfos
  Casts <- MCCasts
  MaxResponds = 2
SPECIFICATION Spec
INVARIANTS
  FailureReturnsNoKey
