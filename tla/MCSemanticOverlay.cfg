SPECIFICATION Spec
CONSTANTS
  f = f
  g = g
  m = m
  c1 = c1
  c2 = c2
  v1 = v1
  v2 = v2
  None = None
  Input = {f, g, m}
  Source = {f, g}
  Content = {c1, c2}
  Fingerprint = {v1, v2}
  Validator = v1
  Trees <- MCTrees
  Artifacts <- MCArtifacts
  MaxGen = 3
  MaxEdits = 2
INVARIANTS
  TypeOK
  CallsMeanWhatTheyDid
  NoFallback
  AnswersMatchTheTree
  OverlayOfIndexedBytes
PROPERTIES
  ImportsAreUsable
