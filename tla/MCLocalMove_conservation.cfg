CONSTANTS
  V = {1, 2, 3}
  MaxWeight = 1
SPECIFICATION Spec
CHECK_DEADLOCK FALSE
INVARIANT DegreeConservation
