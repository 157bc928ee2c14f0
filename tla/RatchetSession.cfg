\* Three indices and one link more; both ends over two contexts, two data and
\* both ports.
CONSTANTS
  c1 = c1
  c2 = c2
  a1 = a1
  a2 = a2
  p1 = p1
  p2 = p2
  Broken = Broken
  Idle = Idle
  Contexts <- MCContexts
  Aads <- MCAads
  Payloads <- MCPayloads
  IndexLimit = 3
  Wraps = {FALSE, TRUE}
  MaxLinks = 4
SPECIFICATION FairSpec
INVARIANTS
  TypeOK
  KeysUnique
  DeliversOnlyItsOwn
  PastKeysBurned
  GenuineOpens
PROPERTIES
  OpenEnds
  ImplementsDelivery
