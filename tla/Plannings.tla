------------------------------ MODULE Plannings ------------------------------
(***************************************************************************)
(* What a planning store promises to whoever calls it, whatever happens to *)
(* its process (openspec/specs/mcp-planning-app/spec.md): a planning is a  *)
(* list of revisions that only grows, an update is made on the revision it *)
(* names and on all that was in it, and what a call was told stays true.   *)
(***************************************************************************)
EXTENDS Naturals, Sequences

CONSTANTS Ids, Docs, Calls,
          Has(_),   \* what a document holds
          Untold    \* no answer yet, or a refusal

VARIABLES
  revisions,  \* the revisions of each planning, none for an id not in use
  told        \* per call, the planning and the revision it was told it made

vars == <<revisions, told>>

Init ==
  /\ revisions = [i \in Ids |-> <<>>]
  /\ told = [c \in Calls |-> Untold]

Adds(i, d) == revisions' = [revisions EXCEPT ![i] = Append(@, d)]
\* A call is told once, what it made and of what.
Tells(c, i, d) ==
  /\ told[c] = Untold
  /\ told' = [told EXCEPT ![c] = [id |-> i, base |-> Len(revisions[i]), doc |-> d]]

Create(c, i, d) == revisions[i] = <<>> /\ Adds(i, d) /\ Tells(c, i, d)
\* A file the person put in the folder becomes a planning.
Adopt(i, d) == revisions[i] = <<>> /\ Adds(i, d) /\ UNCHANGED told
\* An update is made on the current revision, the one it names, and keeps what it holds.
Update(c, i, d) ==
  /\ revisions[i] # <<>> /\ Has(revisions[i][Len(revisions[i])]) \subseteq Has(d)
  /\ Adds(i, d) /\ Tells(c, i, d)

\* The document a step adds to a planning, if it adds one.
Added(i) ==
  IF Len(revisions'[i]) > Len(revisions[i]) THEN {revisions'[i][Len(revisions'[i])]} ELSE {}

Next ==
  \E i \in Ids : \E d \in Added(i) \cap Docs :
    Adopt(i, d) \/ \E c \in Calls : Create(c, i, d) \/ Update(c, i, d)

Spec == Init /\ [][Next]_vars
==============================================================================
