CONSTANTS
  V = {1, 2, 3, 4}
  MaxWeight = 2
SPECIFICATION Spec
\* The phase returns and the program stops there.
CHECK_DEADLOCK FALSE
INVARIANTS TypeOK StatsMatchPartition
PROPERTIES Termination ImplementsGreedySearch
