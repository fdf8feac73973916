CONSTANTS
  a = a
  b = b
  Absent = Absent
  Ids <- MCIds
  Ports <- MCPorts
  Codes <- MCCodes
  MaxGen = 2
  MaxStoreChanges = 2
SYMMETRY MCSymmetry
SPECIFICATION Spec
INVARIANTS
  TypeOK
  NoOrphanWorker
  StopSendNeverBlocks
  SingleSupervision
