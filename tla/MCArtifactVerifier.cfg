CONSTANTS
  A1 = A1
  A2 = A2
  NoSig = NoSig
  Empty = Empty
  Partial = Partial
  Artifacts <- MCArtifacts
  Schemes <- MCSchemes
  OkSchemes <- MCOkSchemes
SPECIFICATION Spec
INVARIANTS
  FaultFreeVerdict
PROPERTIES
  ImplementsAbstract
