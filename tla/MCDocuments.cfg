SPECIFICATION Spec
CONSTANTS
  h1 = h1
  h2 = h2
  s1 = s1
  p1 = p1
  p2 = p2
  u1 = u1
  Ids = {1, 2}
  Paths = {p1, p2}
  Uids = {u1}
  NoDoc = NoDoc
  None = None
  Instances <- MCInstances
CHECK_DEADLOCK FALSE
INVARIANT DocsInv
PROPERTY DueIsMarked
