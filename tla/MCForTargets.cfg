SPECIFICATION Spec
CONSTANTS
  Batches <- MCForTargets
  Cases <- MCCases
  Program <- MCProgram
  GoModules <- MCGoModules
  Capitalized = {"F", "G"}
  StemOrder <- MCStemOrder
INVARIANT
  NoUnknownTargets
\* A pass ends.
CHECK_DEADLOCK FALSE
