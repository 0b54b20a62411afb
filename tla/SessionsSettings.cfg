SPECIFICATION Spec
CONSTANTS
  Session = {"a", "b", "c"}
  Project <- MCProject
  Conversation = {1, 2, 3, 4, 5}
  First <- MCFirst
  Ops = {"aApply", "bPrompt"}
  Kind <- MCKind
  On <- MCOn
  Aim <- MCAim
  Pools <- TurnPools
  None = None
  Fresh = Fresh
  Retained = Retained
  MaxFaults = 0
PROPERTIES TurnsSurviveSettings
