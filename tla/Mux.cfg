CONSTANTS
  None = None
  Pattern <- MCPattern
  Param <- MCParam
  Path <- MCPath
  Host <- MCHost
  Bare <- MCBare
  Method = {"GET", "POST", "CONNECT"}
  MaxEntries = 3
SPECIFICATION Spec
INVARIANTS TypeOK AnswerFits FewRedirects PatternsInOrder
