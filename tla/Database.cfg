CONSTANTS
  c1 = c1  c2 = c2  k1 = k1  k2 = k2
  None = None
  Client = {c1, c2}
  Key = {k1, k2}
  MaxOpen = 2
  MaxStmt = 2
SPECIFICATION Spec
INVARIANTS TypeOK ConnectionsKept LocksOnlyWhileEnding
PROPERTIES AllOrNothing WaitersServed EndingEnds
