------------------------------ MODULE Commands ------------------------------
(***************************************************************************)
(* What a caller may count on when it sends a command to the agent's       *)
(* process: one outcome, for good; after the process is given up on, no    *)
(* command is taken any more; and a bounded command always ends.           *)
(*                                                                         *)
(* PiRpcProcess is shown to implement this specification.                  *)
(***************************************************************************)

CONSTANTS Command,  \* the commands a run may send
          Bounded   \* those of them that end whatever the process and the people do

VARIABLES outcome,  \* what the caller of each command was told
          open      \* whether the process is still in use

vars == <<outcome, open>>

TypeOK == /\ outcome \in [Command -> {"none", "pending", "answered", "rejected"}]
          /\ open \in BOOLEAN

Init == /\ outcome = [c \in Command |-> "none"]
        /\ open = TRUE

(* A command is taken, or refused at once when the process is given up on. *)
Issue(c) == /\ outcome[c] = "none"
            /\ outcome' = [outcome EXCEPT ![c] = IF open THEN "pending" ELSE "rejected"]
            /\ UNCHANGED open

(* Its caller is told how it ended.                                        *)
Settle(c) == /\ outcome[c] = "pending"
             /\ \E how \in {"answered", "rejected"} : outcome' = [outcome EXCEPT ![c] = how]
             /\ UNCHANGED open

(* The process is given up on, and some of those waiting are told so in    *)
(* the same step.                                                          *)
Close == /\ open
         /\ open' = FALSE
         /\ \E told \in SUBSET {c \in Command : outcome[c] = "pending"} :
              outcome' = [c \in Command |-> IF c \in told THEN "rejected" ELSE outcome[c]]

Next == \/ \E c \in Command : Issue(c) \/ Settle(c)
        \/ Close

Fairness == \A c \in Bounded : WF_vars(Settle(c))

Spec == Init /\ [][Next]_vars /\ Fairness
=============================================================================
