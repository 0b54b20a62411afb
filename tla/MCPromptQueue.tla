--------------------------- MODULE MCPromptQueue ---------------------------
(***************************************************************************)
(* Prompts p1 and p2 say the same thing; e edits; x is an extension's      *)
(* message.  A text beginning as a command is expanded by pi.              *)
(***************************************************************************)
EXTENDS PromptQueue, TLC
CONSTANTS p1, p2, e1, r1, s1, a1, n1

MCDoes(o) == CASE o \in {p1, p2} -> "prompt" [] o = e1 -> "edit" [] o = r1 -> "remove"
               [] o = s1 -> "sendNow" [] o = a1 -> "abort" [] o = n1 -> "newSession"
MCDoesOf == [o \in Ops |-> MCDoes(o)]
MCSays   == [o \in Ops \cap {p1, p2, e1} |-> IF o = e1 THEN "fix" ELSE "go"]
MCPiText == [t \in {"go", "Go on", "fix", "ext"} |-> IF t = "go" THEN "Go on" ELSE t]
MCForeign == {[text |-> "ext", kind |-> "followUp"]}
Pool(messages, extension) == [ops |-> messages, foreign |-> extension]
MCPools == {Pool({p1, p2, e1, r1, s1, a1}, {}), Pool({p1, e1, s1, a1}, MCForeign),
            Pool({p1, p2, r1, s1}, MCForeign)}
LivePools == {Pool({p1, e1, s1, a1, n1}, {})}
============================================================================
