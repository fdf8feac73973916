CONSTANTS
  MaxLabelChanges = 2
SPECIFICATION Spec
PROPERTIES
  QuitEndsWatch
