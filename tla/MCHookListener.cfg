CONSTANTS
  E = E
  F = F
  x = x
  v1 = v1
  v2 = v2
  u = u
  Global = Global
  None = None
  HookTypes <- MCHookTypes
  Events <- MCEvents
  PodIds <- MCPodIds
  Paths <- MCPaths
  Versions <- MCVersions
  Signed <- MCSigned
  MaxIntentChanges = 1
  MaxFailures = 1
SPECIFICATION Spec
INVARIANTS
  HookTypeDirsNotNested
  OnlySignedHooks
PROPERTIES
  HooksInstalled
