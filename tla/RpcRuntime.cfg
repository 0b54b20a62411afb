CONSTANTS
  p1 = p1
  p2 = p2
  none = none
  Prompt = {p1, p2}
  Pools <- MCPools
  None = none
SPECIFICATION Spec
INVARIANTS
  MirrorAtRest
  IdleAtRest
PROPERTIES
  AnnouncedIsTheNew
