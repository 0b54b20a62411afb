SPECIFICATION FairSpec
CONSTANTS
  Clients = {"c1", "c2"}
  Roots = {"boot", "r", "q"}
  Mains = {"m0", "m1", "m2", "q1", "q2"}
  Sides = {"s0"}
  Restored = {"m0", "q1"}
  Boot = "m0"
  Nobody = "nobody"
  Ops = {"c1boot", "c2boot", "c1toQ", "c1opensR", "c2opensR", "c1says", "c2leaves", "c2atQ", "c1opensQ", "c2closesQ", "c1closesBoot", "c1sideOnBoot", "c2closesS0"}
  RootOf <- PoolRootOf
  Kind <- MCKind
  By <- MCBy
  Aim <- MCAim
  Pools <- MCPools
INVARIANTS OneMainPerDirectory DefaultIsOpen PersistedIsOpen
PROPERTIES LatestAskWins NoTurnKilled MovedBeforeTheStop HeldIsSettled
