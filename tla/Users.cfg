CONSTANTS
  u1 = u1  u2 = u2  g1 = g1  w1 = w1  w2 = w2
  None = None
  User = {u1, u2}
  Group = {g1}
  Worker = {w1, w2}
  MaxRows = 1
SPECIFICATION Spec
CONSTRAINT Made
SYMMETRY Symmetry
INVARIANTS TypeOK AgreedIsKept DroppedIsGone CopiesBounded LinksAreMutual
