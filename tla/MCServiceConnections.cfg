SPECIFICATION Spec
CONSTANTS
  a = a
  b = b
  None = None
  Client = {a, b}
  Reader = {a}
  Mortal = {b}
  Capacity = 1
  MaxFrameBytes = 2
  Spellings <- MCSpellings
  ScriptsOf <- MCScriptsOf
CHECK_DEADLOCK FALSE
INVARIANTS
  TypeOK
  AnswersInOrder
  NothingIsLost
  FramesAreLines
PROPERTIES
  ReadersAreServed
  ProxiesEnd
