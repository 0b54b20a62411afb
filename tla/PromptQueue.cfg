SPECIFICATION Spec
CONSTANTS
  NoSource = NoSource
  p1 = p1
  p2 = p2
  e1 = e1
  r1 = r1
  s1 = s1
  a1 = a1
  n1 = n1
  Does <- MCDoesOf
  Says <- MCSays
  PiText <- MCPiText
  Ops = {p1, p2, e1, r1, s1, a1, n1}
  Pools <- MCPools
  Foreign <- MCForeign
  MaxFaults = 1
CHECK_DEADLOCK FALSE
INVARIANTS NothingLostOrDoubled ShownIsWhatPiHas QueueInOrder
PROPERTIES StopSwallowsNothing ChangesHitWhatWasSeen
