---------------------------- MODULE MCResources ----------------------------
(* The sessions of MCSessions, and a repository they all load from. *)
EXTENDS Resources, MCSessions

ResourcePools ==
  {{"aCheck", "aUpdate", "bUpdate"},
   {"aCheck", "aUpdate", "cUpdate", "push"},
   {"aCheck", "aUpdate", "cStart"},
   {"aCheck", "aUpdate", "bPrompt", "work"},
   {"aCheck", "aUpdate", "cCheck", "expire"},
   {"cRemove", "bPrompt", "aNew"},
   {"cRemove", "aCheck", "bStart"}}
MCPools == SessionPools \cup ResourcePools
RemovalPools == {{"aRemove", "bPrompt", "cNew"}}
============================================================================
