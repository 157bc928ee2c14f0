CONSTANTS
  P = 2039
  G = 2
  Width = 2048
  Draws <- MCDraws
  Supplied <- MCSupplied
  Statics <- MCStatics
  Mallory <- MCMallory
  Infos = {i1, i2}
  None = None
  Raised = Raised
SPECIFICATION Spec
CHECK_DEADLOCK FALSE
INVARIANTS
  TypeOK
  KeyMeansAgreement
  OnlyTheirs
  PortsAgree
  ScriptsPass
