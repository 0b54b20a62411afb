---------------------------- MODULE MCWorkspaces ----------------------------
(* A server on directory "boot", with projects "r" and "q": small requests of two clients. *)
EXTENDS Workspaces, TLC

MCRootOf == "m0" :> "boot" @@ "m1" :> "r" @@ "m2" :> "r" @@ "q1" :> "q" @@ "q2" :> "q" @@ "s1" :> "r" @@ "s0" :> "boot"
\* RootOf on the pool of the run.
PoolRootOf == [o \in Mains \cup Sides |-> MCRootOf[o]]

Ask3(k, c, a) == [kind |-> k, by |-> c, aim |-> a]
Requests ==
  "c1boot" :> Ask3("connect", "c1", "boot") @@ "c2boot" :> Ask3("connect", "c2", "boot")
  @@ "c1atR" :> Ask3("connect", "c1", "r") @@ "c2atR" :> Ask3("connect", "c2", "r")
  @@ "c1toR" :> Ask3("switch", "c1", "r") @@ "c2toR" :> Ask3("switch", "c2", "r")
  @@ "c1toBoot" :> Ask3("switch", "c1", "boot") @@ "c1toQ" :> Ask3("switch", "c1", "q")
  @@ "c2toS" :> Ask3("switch", "c2", "s1")
  @@ "c2atQ" :> Ask3("connect", "c2", "q") @@ "c1opensQ" :> Ask3("open", "c1", "q")
  @@ "c2closesQ" :> Ask3("close", "c2", "q")
  @@ "c1opensR" :> Ask3("open", "c1", "r") @@ "c2opensR" :> Ask3("open", "c2", "r")
  @@ "c1closesR" :> Ask3("close", "c1", "r") @@ "c2closesR" :> Ask3("close", "c2", "r")
  @@ "c2closesBoot" :> Ask3("close", "c2", "boot") @@ "c1closesBoot" :> Ask3("close", "c1", "boot")
  @@ "c1sideOnR" :> Ask3("openSide", "c1", "r") @@ "c1closesS" :> Ask3("closeSide", "c1", "s1")
  @@ "c1sideOnBoot" :> Ask3("openSide", "c1", "boot") @@ "c1closesS0" :> Ask3("closeSide", "c1", "s0")
  @@ "c2toS0" :> Ask3("switch", "c2", "s0") @@ "c2closesS0" :> Ask3("closeSide", "c2", "s0")
  @@ "c1says" :> Ask3("say", "c1", "r") @@ "c1says2" :> Ask3("say", "c1", "r")
  @@ "c2says" :> Ask3("say", "c2", "r")
  @@ "c1leaves" :> Ask3("leave", "c1", "r") @@ "c2leaves" :> Ask3("leave", "c2", "r")
MCKind == [op \in Ops |-> Requests[op].kind]
MCBy == [op \in Ops |-> Requests[op].by]
MCAim == [op \in Ops |-> Requests[op].aim]
OpenPool == {"c1boot", "c2boot", "c1toQ", "c1opensR", "c2opensR", "c1says", "c2leaves"}
ClosePool == {"c1boot", "c2atQ", "c1opensQ", "c2closesQ", "c1closesBoot"}
SidePool == {"c1boot", "c2atQ", "c2closesQ", "c1closesBoot", "c1sideOnBoot", "c2closesS0", "c1says"}
MCPools == {OpenPool, ClosePool, SidePool}
AllAtOnce == {Ops}
=============================================================================
