SPECIFICATION Spec
CONSTANTS
  Batches <- MCBatches
  Cases <- MCCases
  Program <- MCProgram
  GoModules <- MCGoModules
  Capitalized = {"F", "G"}
  StemOrder <- MCStemOrder
INVARIANTS
  TypeOK
  ScopedCallsAreExact
  GoCallsAreExact
  EdgesStayInside
  OwnersAreInnermost
\* A pass ends.
CHECK_DEADLOCK FALSE
