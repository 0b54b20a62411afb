-------------------------- MODULE MCSandboxGrants --------------------------
(***************************************************************************)
(* Two browsers, two requests on one directory (read, then write, one of   *)
(* them with a host), two sessions.                                        *)
(***************************************************************************)
EXTENDS SandboxGrants, TLC
CONSTANTS r1, r2, c1, c2, h1, d1

MCGrantOf ==
  (r1 :> [hosts |-> {h1}, dirs |-> (d1 :> "write")])
  @@ (r2 :> [hosts |-> {}, dirs |-> (d1 :> "read")])
============================================================================
