SPECIFICATION Spec
CONSTANTS
  one = one
  two = two
  other = other
  callers = callers
  callees = callees
  None = None
  Query = {one, two, other}
  Relation = {callers, callees}
  Row <- MCRow
  Line <- MCLine
  Bytes <- MCBytes
  Limit <- MCLimit
  Content <- MCContent
  PageBytes = 3
  ReplyBytes = 4
  MaxOffset = 2
  MaxGeneration = 2
INVARIANTS
  TypeOK
  PagesAreTheResult
  EveryPageAdvances
\* The index may be final, and every cursor used up or refused.
CHECK_DEADLOCK FALSE
