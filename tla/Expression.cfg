CONSTANTS
  t1 = t1  t2 = t2  n1 = n1
  None = None
  Thread = {t1, t2}
  Name = {n1}
  Tree <- MCTree
  Height <- MCHeight
  Formula <- MCFormula
  Bindings <- MCBindings
  Number <- MCNumber
  Items <- MCItems
SPECIFICATION Spec
INVARIANTS TypeOK CalcIsValue CalcLoopsOnlyByStrays
PROPERTIES RegEnds
CHECK_DEADLOCK FALSE
