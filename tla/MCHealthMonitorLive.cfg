CONSTANTS
  a = a
  b = b
  Absent = Absent
  Ids <- MCIdsOne
  Ports <- MCPorts
  Codes <- MCCodes
  MaxGen = 2
  MaxStoreChanges = 2
SPECIFICATION Spec
PROPERTIES
  StoppedWorkerExits
  ShutdownStopsAllWorkers
