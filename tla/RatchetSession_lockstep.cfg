CONSTANTS
  c1 = c1
  c2 = c2
  a1 = a1
  a2 = a2
  p1 = p1
  p2 = p2
  Broken = Broken
  Idle = Idle
  Contexts <- OneContext
  Aads <- OneAad
  Payloads <- MCPayloads
  IndexLimit = 3
  Wraps = {FALSE}
  MaxLinks = 4
SPECIFICATION Spec
INVARIANTS
  InLockstep
