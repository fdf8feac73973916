CONSTANTS
  MaxLabelChanges = 2
SPECIFICATION Spec
INVARIANTS
  ClosedOnlyAfterQuit
