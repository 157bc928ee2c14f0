CONSTANTS
  s1 = s1
  s2 = s2
  k1 = k1
  k2 = k2
  a1 = a1
  a2 = a2
  n1 = n1
  n2 = n2
  d1 = d1
  d2 = d2
  Broken = Broken
  None = None
  Streams <- MCStreams
  Keys <- OneKey
  Aads <- OneAad
  Salts <- MCSalts
  Data <- MCData
  FreshSalts = FALSE
  MaxChunks = 1
SPECIFICATION Spec
INVARIANTS
  KeystreamOnce
