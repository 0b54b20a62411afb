--------------------------- MODULE MCPiRpcProcess ---------------------------
(* An instance of PiRpcProcess: a prompt of an extension that asks         *)
(* questions, and two other commands of one type.                          *)
EXTENDS PiRpcProcess, TLC

CONSTANTS p1, g1, g2, d1, d2, none

MCTypeOf == [c \in Command |-> IF c = p1 THEN "prompt" ELSE "get_state"]
MCOwnerOf == [d \in Dialog |-> p1]
=============================================================================
