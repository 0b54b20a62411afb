---------------------------- MODULE MCRpcRuntime ----------------------------
(* An instance of RpcRuntime: two prompts, and two of the other things     *)
(* that may happen at a time.                                              *)
EXTENDS RpcRuntime, TLC

CONSTANTS p1, p2, none

MCPools == {{"new", "retry"}, {"new", "custom"}, {"new", "compact"}, {"new", "abort"},
            {"abort", "retry"}, {"custom", "compact"}, {"fault", "retry"}, {"fault", "new"}}
=============================================================================
