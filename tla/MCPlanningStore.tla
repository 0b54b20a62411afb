--------------------------- MODULE MCPlanningStore ---------------------------
(* One folder; plannings titled "a" and "b", files of the same names. *)
EXTENDS PlanningStore, TLC

Does(k, a) == [kind |-> k, aim |-> a]
AllCalls ==
  "newA" :> Does("create", "a") @@ "newA2" :> Does("create", "a")
  @@ "list" :> Does("list", "a") @@ "list2" :> Does("list", "a")
  @@ "get" :> Does("get", <<"a", 1>>)
  @@ "up1" :> Does("revise", <<"a", 1>>) @@ "up2" :> Does("revise", <<"a", 1>>)
AllMoves ==
  "edit" :> Does("edit", <<"a", 1>>) @@ "spoil" :> Does("spoil", <<"a", 1>>)
  @@ "drop" :> Does("drop", <<"b", 1>>) @@ "rename" :> Does("rename", <<"a", 1>>)
  @@ "delete" :> Does("delete", <<"a", 1>>)
Updating == {"newA", "up1", "up2", "edit", "spoil", "list"}
Folder   == {"newA", "rename", "drop", "delete", "list", "list2", "get"}
\* Two plannings of one title, whose file names the person may free.
Twice    == {"newA", "newA2", "spoil", "rename", "delete", "list"}
MCPools == {Updating, Folder, Twice}
MCKind == [op \in Ops |-> (AllCalls @@ AllMoves)[op].kind]
MCAim  == [op \in Ops |-> (AllCalls @@ AllMoves)[op].aim]
MCTo   == [op \in Ops |-> <<IF "b" \in Titles THEN "b" ELSE "a", 2>>]
==============================================================================
