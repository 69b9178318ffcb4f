SPECIFICATION Spec
CONSTANTS
  p1 = p1
  p2 = p2
  r1 = r1
  i = i
  j = j
  a = a
  b = b
  c0 = c0
  c1 = c1
  all = all
  less = less
  None = None
  Runner = {p1, p2}
  Reader = {r1}
  Identity = {i, j}
  Input = {a, b}
  Content = {c0, c1}
  Option = {all, less}
  Covers <- MCCovers
  ScopeOf <- MCScopeOf
  ReaderScope = "wide"
  VersionOf <- MCVersionOf
  OptionsOf <- MCOptionsOf
  MaxRefreshes = 2
  MaxEdits = 3
SYMMETRY Symmetry
CHECK_DEADLOCK FALSE
INVARIANTS
  TypeOK
  PagesOfOnePublication
  EvidenceMatched
  ProducerRunsForAReason
PROPERTIES
  ImplementsContract
