---------------------------- MODULE MCSessions ----------------------------
(***************************************************************************)
(* Sessions a and b of project p, and c of project q, start on             *)
(* conversations 1, 2 and 3.                                               *)
(***************************************************************************)
EXTENDS Sessions, TLC

Req(kind, s, c) == [kind |-> kind, on |-> s, aim |-> c]
Requests ==
  "aTo1" :> Req("switch", "a", 1) @@ "bTo1" :> Req("switch", "b", 1)
  @@ "aNew" :> Req("new", "a", 0) @@ "aFork" :> Req("fork", "a", 0) @@ "bDelete1" :> Req("delete", "b", 1)
  @@ "cNew" :> Req("new", "c", 0) @@ "aRestart" :> Req("restart", "a", 0)
  @@ "aApply" :> Req("apply", "a", 0)
  @@ "aPrompt" :> Req("prompt", "a", 0) @@ "bPrompt" :> Req("prompt", "b", 0)
  @@ "aPlan" :> Req("plan", "a", 0) @@ "bPlan" :> Req("plan", "b", 0)
  @@ "aEdit" :> Req("edit", "a", 0) @@ "bNavigate" :> Req("navigate", "b", 0)
  @@ "aCheck" :> Req("check", "a", 0) @@ "cCheck" :> Req("check", "c", 0)
  @@ "aUpdate" :> Req("update", "a", 0) @@ "bUpdate" :> Req("update", "b", 0)
  @@ "cUpdate" :> Req("update", "c", 0)
  @@ "aRemove" :> Req("remove", "a", 0) @@ "cRemove" :> Req("remove", "c", 0)
  @@ "bStart" :> Req("start", "b", 0) @@ "cStart" :> Req("start", "c", 0)
  @@ "push" :> Req("push", "a", 0) @@ "work" :> Req("work", "a", 0) @@ "expire" :> Req("expire", "a", 0)
MCKind == [o \in Ops |-> Requests[o].kind]
MCOn == [o \in Ops |-> Requests[o].on]
MCAim == [o \in Ops |-> Requests[o].aim]
MCFirst == "a" :> 1 @@ "b" :> 2 @@ "c" :> 3
MCProject == "a" :> "p" @@ "b" :> "p" @@ "c" :> "q"
SessionPools ==
  {{"aPrompt", "aPlan", "aFork", "aNew", "aTo1"},
   {"aPrompt", "aPlan", "aFork", "aRestart", "aEdit"},
   {"aPrompt", "aPlan", "aNew", "bTo1", "bPrompt"},
   {"aFork", "aTo1", "bDelete1", "aPrompt", "aPlan", "bNavigate"},
   {"aPrompt", "aNew", "aTo1", "bTo1"},
   {"aApply", "bPrompt", "bPlan"}}
TurnPools == {{"aApply", "bPrompt"}}
============================================================================
