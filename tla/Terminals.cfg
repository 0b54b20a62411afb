SPECIFICATION Spec
CONSTANTS
  s1 = s1 o1 = o1 o2 = o2 o3 = o3 o4 = o4
  Socket = {s1}
  Id = {"t1", "t2"}
  Open = {o1, o2, o3, o4}
  SocketOf <- MCSocketOf
  IdOf <- MCIdOf
  None = None
INVARIANTS
  HeldUnlessOverlapped
  PrivateWhileRunning
PROPERTIES
  OpensEnd
CHECK_DEADLOCK FALSE
CONSTRAINT InOrder
