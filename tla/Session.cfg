CONSTANTS
  s1 = s1  s2 = s2  b1 = b1  r1 = r1  r2 = r2
  None = None
  ID = {s1, s2}
  Browser = {b1}
  Request = {r1, r2}
  MaxLife = 1
  MaxObj = 2
SPECIFICATION Spec
SYMMETRY Alike
INVARIANTS TypeOK UsedSessionIntact
