SPECIFICATION ResourcesSpec
CONSTANTS
  Session = {"a", "b", "c"}
  Project <- MCProject
  Conversation = {1, 2, 3, 4, 5, 6, 7, 8, 9, 10}
  First <- MCFirst
  Ops = {"aNew", "aFork", "aTo1", "aRestart", "aEdit", "aApply", "aPrompt", "aPlan", "bTo1", "bDelete1", "bPrompt", "bPlan", "bNavigate",
         "aCheck", "aUpdate", "bUpdate", "cCheck", "cUpdate", "cRemove", "bStart", "cStart", "push", "work", "expire"}
  Kind <- MCKind
  On <- MCOn
  Aim <- MCAim
  Pools <- MCPools
  None = None
  Fresh = Fresh
  Retained = Retained
  NoRevision = NoRevision
  MaxFaults = 1
INVARIANTS OneReplacementAtATime NobodyElsesPlan PlanFollows BoundaryIsObeyed OneWriterPerConversation NothingLoadsWhatIsDeleted FlagIsReleased
PROPERTIES UpdatedMeansLoaded
