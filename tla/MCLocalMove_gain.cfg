CONSTANTS
  V = {1, 2, 3, 4, 5}
  MaxWeight = 1
SPECIFICATION Spec
CHECK_DEADLOCK FALSE
PROPERTY MoveImprovesModularity
