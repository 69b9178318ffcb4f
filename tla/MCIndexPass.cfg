SPECIFICATION Spec
CONSTANTS
  p1 = p1
  p2 = p2
  r1 = r1
  r2 = r2
  a = a
  b = b
  c1 = c1
  c2 = c2
  l1 = l1
  l2 = l2
  None = None
  Proc = {p1, p2}
  Root = {r1, r2}
  Path = {a, b}
  Content = {c1, c2}
  Layout = {l1, l2}
  Policy <- MCPolicy
  OptionsOf <- MCOptionsOf
  RootOf <- MCRootOf
  Trees <- MCTrees
  OldBases <- MCOldBases
  MaxGen = 2
  MaxEdits = 1
INVARIANTS
  TypeOK
  PolicyRespected
  EdgesCurrent
  NewestSnapshotCurrent
  FreshIsTrue
PROPERTIES
  ImplementsContract
