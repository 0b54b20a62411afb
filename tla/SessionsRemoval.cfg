SPECIFICATION ResourcesSpec
CONSTANTS
  Session = {"a", "b", "c"}
  Project <- MCProject
  Conversation = {1, 2, 3, 4, 5}
  First <- MCFirst
  Ops = {"aRemove", "bPrompt", "cNew"}
  Kind <- MCKind
  On <- MCOn
  Aim <- MCAim
  Pools <- RemovalPools
  None = None
  Fresh = Fresh
  Retained = Retained
  NoRevision = NoRevision
  MaxFaults = 0
PROPERTIES RemovalWaitsForOthers
