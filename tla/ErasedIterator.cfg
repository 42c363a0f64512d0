SPECIFICATION NodeMergeSpec
CONSTANTS
  w = w
  x = x
  y = y
  z = z
  g1 = g1
  g2 = g2
  g3 = g3
  g4 = g4
  g5 = g5
  g6 = g6
  NoCluster = NoCluster
  Nodes <- MCNodes
  Inputs <- MCInputs
  Circuits <- MCCircuits
  limit_in = 3
  Passes <- MainPasses
INVARIANT IteratorIsValid
CHECK_DEADLOCK FALSE
