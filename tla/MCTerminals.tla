---------------------------- MODULE MCTerminals ----------------------------
(* A connection with a tab that is opened three times and a second tab.    *)
(* Nothing of one connection is ever looked at for another one.            *)
EXTENDS Terminals, TLC

CONSTANTS s1, o1, o2, o3, o4

MCSocketOf == [o \in Open |-> s1]
MCIdOf == (o4 :> "t2") @@ [o \in Open \ {o4} |-> "t1"]

\* The three opens of one tab are alike: only behaviours that use them in this order.
InOrder == (pc[o2] # "new" => pc[o1] # "new") /\ (pc[o3] # "new" => pc[o2] # "new")
=============================================================================
