SPECIFICATION Spec
CONSTANTS
  p1 = p1
  p2 = p2
  p3 = p3
  r1 = r1
  r2 = r2
  s1 = s1
  l1 = l1
  l2 = l2
  None = None
  Process = {p1, p2}
  Root = {r1, r2}
  SocketPath = {s1}
  LockPath = {l1, l2}
  VersionOf <- OneVersion
  RootOf <- OneRoot
  Commands <- OnlyServices
  SocketOf <- SameSocket
  LockOf <- OwnLock
  MaxStarts = 2
CHECK_DEADLOCK FALSE
INVARIANTS
  OnlyDeadSocketsAreReplaced
