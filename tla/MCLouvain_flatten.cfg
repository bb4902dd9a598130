CONSTANTS
  V = {1, 2, 3, 4}
  StoreGraphs <- MCStoreGraphs
  MinGrowths <- MCMinGrowths
SPECIFICATION Spec
\* best_partition returns and the program stops there.
CHECK_DEADLOCK FALSE
INVARIANT FlattenIsComposition
