SPECIFICATION Spec
CONSTANTS
  Clients = {"c1", "c2"}
  Roots = {"boot", "r"}
  Mains = {"m0", "m1", "m2"}
  Sides = {"s1"}
  Restored = {"m0", "m1"}
  Boot = "m0"
  Nobody = "nobody"
  Ops = {"c1boot", "c2boot", "c1toR", "c2closesR", "c1opensR"}
  RootOf <- PoolRootOf
  Kind <- MCKind
  By <- MCBy
  Aim <- MCAim
  Pools <- AllAtOnce
INVARIANTS NobodyWaitsForNothing
