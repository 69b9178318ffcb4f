SPECIFICATION Spec
CONSTANTS
  f = f
  g = g
  h1 = h1
  h2 = h2
  None = None
  Id = {1, 2, 3, 4}
  Identity = {f, g}
  Hash = {h1, h2}
  Asks <- MCAsks
  MaxSeeds = 2
  MaxResults = 5
  MaxWork = 6
INVARIANTS
  TypeOK
  CallersAreExact
  RefusedOnlyOverBudget
  DiffIsExact
\* A query ends.
CHECK_DEADLOCK FALSE
