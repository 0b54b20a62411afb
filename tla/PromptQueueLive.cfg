SPECIFICATION FairSpec
CONSTANTS
  NoSource = NoSource
  p1 = p1
  p2 = p2
  e1 = e1
  r1 = r1
  s1 = s1
  a1 = a1
  n1 = n1
  Does <- MCDoesOf
  Says <- MCSays
  PiText <- MCPiText
  Ops = {p1, e1, s1, a1, n1}
  Pools <- LivePools
  Foreign <- MCForeign
  MaxFaults = 0
CHECK_DEADLOCK FALSE
PROPERTIES EveryOperationEnds StopGetsThrough
