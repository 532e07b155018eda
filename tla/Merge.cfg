CONSTANTS
  s = s  f = f  a = a  b = b  j = j  e = e
  q = q  k = k  l = l  x = x  y = y
  Fork = Fork  Knot = Knot
  d0 = d0  d1 = d1
  i1 = i1  i2 = i2
  None = None
  Node <- MCNode
  Process = {Fork, Knot}
  ProcessInst = {i1}
  Data <- MCData
  NoData = d0
  InType <- MCInType
  OutType <- MCOutType
  Name <- MCName
  Request <- MCMerge
  MaxRegs = 1
  MaxInsts = 12
SPECIFICATION Spec
INVARIANT TokenMapsAgree
CHECK_DEADLOCK FALSE
