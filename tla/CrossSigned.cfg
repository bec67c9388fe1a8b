CONSTANTS
  leaf = leaf
  a = a
  b = b
  c = c
  r1 = r1
  r2 = r2
  Pkis <- MCPkis
  MaxDepth = 2
  MaxBudget = 12
SPECIFICATION Spec
CHECK_DEADLOCK FALSE
INVARIANTS NoPathIsAbandoned
