SPECIFICATION FairSpec
CONSTANTS
  Titles = {"a", "b"}
  MaxCopies = 4
  MaxRevision = 3
  MaxCrashes = 1
  MaxFaults = 1
  Ops = {"newA", "newA2", "up1", "up2", "edit", "spoil", "rename", "drop", "delete", "list", "list2", "get"}
  Pools <- MCPools
  None = None
  Kind <- MCKind
  Aim <- MCAim
  To <- MCTo
CHECK_DEADLOCK FALSE
INVARIANTS NothingThePersonWroteIsLost FilesMatchPlannings
PROPERTIES KeepsItsPromise EveryCallEnds
