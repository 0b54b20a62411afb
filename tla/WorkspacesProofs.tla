-------------------------- MODULE WorkspacesProofs --------------------------
(***************************************************************************)
(* For every pool of workspaces, set of clients and set of requests: the   *)
(* state is typed, a directory is one project, and there is always an open *)
(* default project.  The last two rest on each other: a close promotes     *)
(* another default only because what it removes is one project of at       *)
(* least two, and removing a side session touches neither because what a   *)
(* request to start one has made is a side session (SidePlaces).           *)
(***************************************************************************)
EXTENDS Workspaces, FiniteSetTheorems, SequenceTheorems, TLAPS

\* A request for a side session is at one of these lines, and what it starts is one.
SidePlaces ==
  \A op \in Ops : Kind[op] = "openSide" =>
    /\ at[op] \in {"absent", "new", "held", "creating", "started", "adopting", "dropped", "done"}
    /\ at[op] = "started" => req[op].target \in Sides
\* What is being flushed has something to flush.
FlushingHasHeld == \A b \in flushing : held[b] # <<>>

Core ==
  /\ ProjectsOK /\ AgentsOK /\ BuildsOK /\ BrowsersOK /\ RequestsOK
  /\ OneMainPerDirectory /\ DefaultIsOpen /\ SidePlaces
Inv == Core /\ WaitingOK /\ FlushingHasHeld

-----------------------------------------------------------------------------

LEMMA NoReqIsTyped == NoReq \in Locals
  BY DEF NoReq, Locals

LEMMA TicketedIsTyped == ASSUME BrowsersOK, NEW c \in Clients PROVE Ticketed(c) \in Locals
  <1>1. asks[c] + 1 \in Nat BY DEF BrowsersOK
  <1> QED BY <1>1, NoReqIsTyped DEF Ticketed, Locals, NoReq

\* Awaiting the start of a workspace keeps the builds and the requests typed.
LEMMA EnsureTyped ==
  ASSUME BuildsOK, RequestsOK, NEW op \in Ops, NEW t \in Objs \cup {Nobody}, NEW r \in Locals,
         NEW place \in Places, EnsureStarted(op, t, r, place)
  PROVE  /\ BuildsOK' /\ RequestsOK'
         /\ at'[op] \in {"started", place} /\ req'[op].target = t
         /\ \A p \in Ops \ {op} : at'[p] = at[p] /\ req'[p] = req[p]
  <1>1. WaitsOn(t) \in Objs \cup {Nobody}
    BY DEF WaitsOn, Starting
  <1>2. BuildsOK'
    BY DEF EnsureStarted, EnsuredBuild, BuildsOK, BuildStages
  <1>3. at' \in [Ops -> Places]
    BY DEF EnsureStarted, RequestsOK, Places
  <1> DEFINE r2 == [r EXCEPT !.target = t, !.waits = WaitsOn(t), !.outcome = IF t \in running THEN "ok" ELSE "?"]
  <1>4. r2 \in Locals /\ r2.target = t
    BY <1>1 DEF Locals
  <1>5. req' = [req EXCEPT ![op] = r2]
    BY DEF EnsureStarted
  <1>6. req' \in [Ops -> Locals] /\ req'[op] = r2
    <2> HIDE DEF r2
    <2> QED BY <1>4, <1>5 DEF RequestsOK
  <1>7. \A p \in Ops \ {op} : at'[p] = at[p] /\ req'[p] = req[p]
    BY <1>5 DEF EnsureStarted, RequestsOK
  <1>8. at'[op] \in {"started", place}
    BY DEF EnsureStarted, RequestsOK
  <1> QED BY <1>2, <1>3, <1>4, <1>6, <1>7, <1>8 DEF RequestsOK

\* What happens to the other requests does not matter to SidePlaces.
LEMMA SidePlacesKept ==
  ASSUME SidePlaces, NEW op \in Ops,
         \A p \in Ops \ {op} : at'[p] = at[p] /\ req'[p] = req[p],
         Kind[op] = "openSide" => /\ at'[op] \in {"absent", "new", "held", "creating", "started", "adopting", "dropped", "done"}
                                  /\ at'[op] = "started" => req'[op].target \in Sides
  PROVE  SidePlaces'
  BY DEF SidePlaces

-----------------------------------------------------------------------------
(* What each kind of request keeps, arriving or flushed.                   *)

LEMMA RegisteredIsAnObject ==
  ASSUME ProjectsOK PROVE /\ \A id : Get(id) \subseteq Objs /\ Default \subseteq Objs
                          /\ \A root : SessionsOf(root) \subseteq Objs
  BY DEF ProjectsOK, Get, Default, SessionsOf

\* An unchanged registry keeps both facts about it.
LEMMA ProjectsKept ==
  ASSUME ProjectsOK, OneMainPerDirectory, DefaultIsOpen, UNCHANGED projects
  PROVE  ProjectsOK' /\ OneMainPerDirectory' /\ DefaultIsOpen'
  BY DEF projects, ProjectsOK, OneMainPerDirectory, DefaultIsOpen, Projects

LEMMA RefuseKeeps ==
  ASSUME Core, NEW op \in Ops, Refuse(op) PROVE Core'
  <1> USE DEF Core
  <1>1. ProjectsOK' /\ OneMainPerDirectory' /\ DefaultIsOpen'
    BY ProjectsKept DEF Refuse
  <1>2. AgentsOK' /\ BuildsOK' /\ BrowsersOK'
    BY DEF Refuse, agents, browsers, AgentsOK, BuildsOK, BrowsersOK
  <1>3. RequestsOK' /\ at'[op] = "done" /\ \A p \in Ops \ {op} : at'[p] = at[p] /\ req'[p] = req[p]
    BY DEF Refuse, RequestsOK, Places
  <1>4. SidePlaces'
    BY <1>3, SidePlacesKept
  <1> QED BY <1>1, <1>2, <1>3, <1>4

LEMMA SwitchKeeps ==
  ASSUME Core, OpAssumption, NEW op \in Ops, Kind[op] = "switch", Switch(op) PROVE Core'
  <1> USE DEF Core
  <1>1. CASE Refuse(op)
    BY <1>1, RefuseKeeps
  <1>2. ASSUME NEW t \in Get(Aim[op]), Ask(By[op]), want' = [want EXCEPT ![By[op]] = t],
               EnsureStarted(op, t, Ticketed(By[op]), "resources"),
               UNCHANGED <<projects, agents, conn, bound>>
        PROVE Core'
    <2>1. t \in Objs /\ By[op] \in Clients
      BY RegisteredIsAnObject DEF OpAssumption
    <2>2. BuildsOK' /\ RequestsOK' /\ \A p \in Ops \ {op} : at'[p] = at[p] /\ req'[p] = req[p]
      BY <1>2, <2>1, TicketedIsTyped, EnsureTyped DEF Places
    <2>3. ProjectsOK' /\ OneMainPerDirectory' /\ DefaultIsOpen'
      BY <1>2, ProjectsKept
    <2>4. AgentsOK' /\ BrowsersOK'
      BY <1>2, <2>1 DEF agents, AgentsOK, BrowsersOK, Ask
    <2>5. SidePlaces'
      BY <2>2, SidePlacesKept
    <2> QED BY <2>2, <2>3, <2>4, <2>5
  <1> QED BY <1>1, <1>2 DEF Switch

LEMMA OpenKeeps ==
  ASSUME Core, OpAssumption, NEW op \in Ops, Kind[op] = "open", Open(op) PROVE Core'
  <1> USE DEF Core
  <1>1. By[op] \in Clients
    BY DEF OpAssumption
  <1>2. ProjectsOK' /\ OneMainPerDirectory' /\ DefaultIsOpen'
    BY ProjectsKept DEF Open
  <1>3. AgentsOK' /\ BuildsOK' /\ BrowsersOK'
    BY <1>1 DEF Open, agents, AgentsOK, BuildsOK, BrowsersOK, Ask
  <1>4. RequestsOK' /\ \A p \in Ops \ {op} : at'[p] = at[p] /\ req'[p] = req[p]
    BY <1>1, TicketedIsTyped DEF Open, RequestsOK, Places
  <1>5. SidePlaces'
    BY <1>4, SidePlacesKept
  <1> QED BY <1>2, <1>3, <1>4, <1>5

LEMMA LeaveKeeps ==
  ASSUME Core, OpAssumption, NEW op \in Ops, Leave(op) PROVE Core'
  <1> USE DEF Core
  <1>1. ProjectsOK' /\ OneMainPerDirectory' /\ DefaultIsOpen'
    BY ProjectsKept DEF Leave
  <1>2. AgentsOK' /\ BuildsOK' /\ BrowsersOK'
    BY DEF Leave, agents, AgentsOK, BuildsOK, BrowsersOK
  <1>3. RequestsOK' /\ at'[op] = "done" /\ \A p \in Ops \ {op} : at'[p] = at[p] /\ req'[p] = req[p]
    BY DEF Leave, RequestsOK, Places
  <1>4. SidePlaces'
    BY <1>3, SidePlacesKept
  <1> QED BY <1>1, <1>2, <1>3, <1>4

LEMMA SayKeeps ==
  ASSUME Core, NEW op \in Ops, Kind[op] = "say", bound[By[op]] \in Objs, Say(op) PROVE Core'
  <1> USE DEF Core
  <1>1. ProjectsOK' /\ OneMainPerDirectory' /\ DefaultIsOpen'
    BY ProjectsKept DEF Say
  <1>2. AgentsOK' /\ BuildsOK' /\ BrowsersOK'
    BY DEF Say, browsers, AgentsOK, BuildsOK, BrowsersOK
  <1>3. RequestsOK' /\ \A p \in Ops \ {op} : at'[p] = at[p] /\ req'[p] = req[p]
    BY DEF Say, RequestsOK, Places
  <1>4. SidePlaces'
    BY DEF Say, SidePlaces, RequestsOK
  <1> QED BY <1>1, <1>2, <1>3, <1>4

\* Closing a project, the first part: two projects are open, one goes, a default remains.
LEMMA OneOfTwoRemains ==
  ASSUME PoolAssumption, ProjectsOK, OneMainPerDirectory, DefaultIsOpen,
         NEW root, ~(Cardinality(Projects) < 2)
  PROVE  /\ ~(Projects \subseteq SessionsOf(root))
         /\ \A d \in Promoted(SessionsOf(root)) :
              d \in Roots /\ \E o \in Projects \ SessionsOf(root) : RootOf[o] = d
  <1> DEFINE gone == SessionsOf(root)
  <1>1. IsFiniteSet(Projects)
    BY FS_Subset DEF PoolAssumption, ProjectsOK, Projects, Objs
  <1>2. ASSUME Projects \subseteq gone PROVE FALSE
    <2>1. PICK x \in Projects : RootOf[x] = default
      BY DEF DefaultIsOpen
    <2>2. Projects \subseteq {x}
      BY <1>2, <2>1 DEF SessionsOf, OneMainPerDirectory
    <2>3. IsFiniteSet({x}) /\ Cardinality({x}) = 1
      BY FS_Singleton
    <2>4. Cardinality(Projects) <= 1 /\ Cardinality(Projects) \in Nat
      BY <1>1, <2>2, <2>3, FS_Subset, FS_CardinalityType
    <2> QED BY <2>4
  <1>3. ASSUME NEW d \in Promoted(gone) PROVE d \in Roots /\ \E o \in Projects \ gone : RootOf[o] = d
    <2>1. CASE \E o \in gone \cap Mains : RootOf[o] = default
      <3>1. PICK o \in Projects \ gone : d = RootOf[o]
        BY <1>2, <1>3, <2>1 DEF Promoted
      <3>2. o \in Objs
        BY DEF Projects, ProjectsOK
      <3> QED BY <3>1, <3>2 DEF PoolAssumption, Objs
    <2>2. CASE ~ \E o \in gone \cap Mains : RootOf[o] = default
      <3>1. d = default
        BY <1>3, <2>2 DEF Promoted
      <3>2. PICK x \in Projects : RootOf[x] = default
        BY DEF DefaultIsOpen
      <3>3. x \notin gone
        BY <2>2, <3>2 DEF Projects
      <3> QED BY <3>1, <3>2, <3>3 DEF ProjectsOK
    <2> QED BY <2>1, <2>2
  <1> QED BY <1>2, <1>3

LEMMA StoppedTyped ==
  ASSUME AgentsOK, NEW gone \in SUBSET Objs, Stopped(gone) PROVE AgentsOK'
  BY DEF AgentsOK, Stopped

LEMMA CloseKeeps ==
  ASSUME Core, PoolAssumption, OpAssumption, NEW op \in Ops, Kind[op] = "close", Close(op) PROVE Core'
  <1> USE DEF Core
  <1> DEFINE root == Aim[op]
             gone == SessionsOf(root)
             fallback == {o \in registry \ gone : Id(o) = default'}
  <1>1. CASE CloseRefused(root) /\ Refuse(op)
    BY <1>1, RefuseKeeps
  <1>2. CASE ~CloseRefused(root)
    <2>1. /\ registry' = registry \ gone /\ persisted' = persisted \ {root}
          /\ default' \in Promoted(gone) /\ UNCHANGED <<used, browsers, want>>
      BY <1>2 DEF Close, Refuse
    <2>2. \/ at' = [at EXCEPT ![op] = "done"] /\ Stopped(gone) /\ UNCHANGED <<build, req>>
          \/ \E t \in fallback : EnsureStarted(op, t, [NoReq EXCEPT !.closing = gone], "started") /\ UNCHANGED agents
      BY <1>2 DEF Close
    <2>3. gone \subseteq Objs /\ fallback \subseteq Objs
      BY RegisteredIsAnObject DEF ProjectsOK
    <2>4. default' \in Roots /\ \E o \in Projects \ gone : RootOf[o] = default'
      BY <1>2, <2>1, OneOfTwoRemains DEF CloseRefused
    <2>5. ProjectsOK' /\ OneMainPerDirectory' /\ DefaultIsOpen'
      BY <2>1, <2>4 DEF ProjectsOK, OneMainPerDirectory, DefaultIsOpen, Projects
    <2>6. [NoReq EXCEPT !.closing = gone] \in Locals
      BY <2>3 DEF NoReq, Locals
    <2>7. AgentsOK' /\ BuildsOK' /\ RequestsOK' /\ \A p \in Ops \ {op} : at'[p] = at[p] /\ req'[p] = req[p]
      <3>1. CASE at' = [at EXCEPT ![op] = "done"] /\ Stopped(gone) /\ UNCHANGED <<build, req>>
        BY <2>3, <3>1, StoppedTyped DEF BuildsOK, RequestsOK, Places
      <3>2. ASSUME NEW t \in fallback, EnsureStarted(op, t, [NoReq EXCEPT !.closing = gone], "started"), UNCHANGED agents
            PROVE  AgentsOK' /\ BuildsOK' /\ RequestsOK' /\ \A p \in Ops \ {op} : at'[p] = at[p] /\ req'[p] = req[p]
        <4>1. AgentsOK'
          BY <3>2 DEF agents, AgentsOK
        <4>2. t \in Objs \cup {Nobody} /\ "started" \in Places
          BY <2>3 DEF Places
        <4> HIDE DEF fallback, gone
        <4> QED BY <2>6, <3>2, <4>1, <4>2, EnsureTyped
      <3> QED BY <2>2, <3>1, <3>2
    <2>8. BrowsersOK' /\ SidePlaces'
      BY <2>1, <2>7, SidePlacesKept DEF browsers, BrowsersOK
    <2> QED BY <2>5, <2>7, <2>8
  <1> QED BY <1>1, <1>2 DEF Close

LEMMA OpenSideKeeps ==
  ASSUME Core, OpAssumption, NEW op \in Ops, OpenSide(op) PROVE Core'
  <1> USE DEF Core
  <1> DEFINE c == By[op]
  <1>1. CASE Refuse(op)
    BY <1>1, RefuseKeeps
  <1>2. CASE Get(Aim[op]) \cap Mains # {} /\ ~Refuse(op)
    <2>1. c \in Clients /\ Ticketed(c) \in Locals /\ bound[c] \in Objs \cup {Nobody}
      BY TicketedIsTyped DEF OpAssumption, BrowsersOK
    <2>2. [Ticketed(c) EXCEPT !.asked = bound[c]] \in Locals
      BY <2>1 DEF Locals
    <2>3. /\ Ask(c) /\ want' = [want EXCEPT ![c] = Nobody]
          /\ req' = [req EXCEPT ![op] = [Ticketed(c) EXCEPT !.asked = bound[c]]]
          /\ at' = [at EXCEPT ![op] = "creating"]
          /\ UNCHANGED <<projects, agents, build, conn, bound>>
      BY <1>2 DEF OpenSide
    <2>4. ProjectsOK' /\ OneMainPerDirectory' /\ DefaultIsOpen'
      BY <2>3, ProjectsKept
    <2>5. AgentsOK' /\ BuildsOK' /\ BrowsersOK'
      BY <2>1, <2>3 DEF agents, AgentsOK, BuildsOK, BrowsersOK, Ask
    <2>6. RequestsOK' /\ at'[op] = "creating" /\ \A p \in Ops \ {op} : at'[p] = at[p] /\ req'[p] = req[p]
      <3> HIDE DEF c
      <3> QED BY <2>2, <2>3 DEF RequestsOK, Places
    <2> QED BY <2>4, <2>5, <2>6, SidePlacesKept
  <1> QED BY <1>1, <1>2 DEF OpenSide

\* Removing side sessions leaves the projects alone.
LEMMA SidesGone ==
  ASSUME PoolAssumption, ProjectsOK, OneMainPerDirectory, DefaultIsOpen,
         NEW gone \in SUBSET Sides, registry' = registry \ gone, UNCHANGED <<default, used, persisted>>
  PROVE  ProjectsOK' /\ OneMainPerDirectory' /\ DefaultIsOpen'
  <1>1. Projects' = Projects
    BY DEF Projects, PoolAssumption
  <1> QED BY <1>1 DEF ProjectsOK, OneMainPerDirectory, DefaultIsOpen

LEMMA CloseSideKeeps ==
  ASSUME Core, PoolAssumption, OpAssumption, NEW op \in Ops, Kind[op] = "closeSide", CloseSide(op) PROVE Core'
  <1> USE DEF Core
  <1>1. CASE Refuse(op)
    BY <1>1, RefuseKeeps
  <1>2. ASSUME NEW s \in Sides, registry' = registry \ {s}, UNCHANGED <<default, used, persisted, browsers, want>>,
               \/ at' = [at EXCEPT ![op] = "done"] /\ Stopped({s}) /\ UNCHANGED <<req, build>>
               \/ \E t \in HomeOf(s) :
                    /\ EnsureStarted(op, t, [NoReq EXCEPT !.closing = {s}, !.watching = Watching(s)], "started")
                    /\ UNCHANGED agents
        PROVE  Core'
    <2>1. ProjectsOK' /\ OneMainPerDirectory' /\ DefaultIsOpen'
      <3>1. registry' = registry \ {s} /\ default' = default /\ used' = used /\ persisted' = persisted
        BY <1>2
      <3>2. {s} \in SUBSET Sides
        OBVIOUS
      <3>3. ProjectsOK /\ OneMainPerDirectory /\ DefaultIsOpen
        OBVIOUS
      <3> DEFINE gone == {s}
      <3> HIDE DEF gone, Core
      <3>4. gone \in SUBSET Sides /\ registry' = registry \ gone
        BY <3>1, <3>2 DEF gone
      <3> QED BY PoolAssumption, <3>1, <3>3, <3>4, SidesGone
    <2>2. BrowsersOK'
      BY <1>2 DEF browsers, BrowsersOK
    <2>3. s \in Objs /\ HomeOf(s) \subseteq Objs /\ Watching(s) \subseteq Clients /\ "started" \in Places
      BY RegisteredIsAnObject DEF Objs, HomeOf, Watching, Places
    <2> DEFINE r == [NoReq EXCEPT !.closing = {s}, !.watching = Watching(s)]
    <2>4. r \in Locals
      BY <2>3 DEF NoReq, Locals
    <2>5. AgentsOK' /\ BuildsOK' /\ RequestsOK' /\ \A p \in Ops \ {op} : at'[p] = at[p] /\ req'[p] = req[p]
      <3>1. CASE at' = [at EXCEPT ![op] = "done"] /\ Stopped({s}) /\ UNCHANGED <<req, build>>
        BY <2>3, <3>1, StoppedTyped DEF BuildsOK, RequestsOK, Places
      <3>2. ASSUME NEW t \in HomeOf(s), EnsureStarted(op, t, r, "started"), UNCHANGED agents
            PROVE  AgentsOK' /\ BuildsOK' /\ RequestsOK' /\ \A p \in Ops \ {op} : at'[p] = at[p] /\ req'[p] = req[p]
        <4>1. AgentsOK'
          BY <3>2 DEF agents, AgentsOK
        <4> HIDE DEF r
        <4> QED BY <2>3, <2>4, <3>2, <4>1, EnsureTyped
      <3> QED BY <1>2, <3>1, <3>2
    <2> QED BY <2>1, <2>2, <2>5, SidePlacesKept
  <1> QED BY <1>1, <1>2 DEF CloseSide

\* Whatever it asks, a request handled keeps the core of the invariant.
LEMMA HandleKeeps ==
  ASSUME Core, PoolAssumption, OpAssumption, NEW op \in Ops,
         Kind[op] = "say" => bound[By[op]] \in Objs, Handle(op)
  PROVE  Core'
  BY SwitchKeeps, OpenKeeps, LeaveKeeps, CloseKeeps, OpenSideKeeps, CloseSideKeeps, SayKeeps DEF Handle

-----------------------------------------------------------------------------
(* The steps that are no request's arrival.                                *)

LEMMA WaitingKept ==
  ASSUME WaitingOK, FlushingHasHeld, UNCHANGED waiting PROVE WaitingOK' /\ FlushingHasHeld'
  BY DEF waiting, WaitingOK, FlushingHasHeld

LEMMA ConnectsKeeps ==
  ASSUME Inv, OpAssumption, NEW op \in Ops, Connects(op) PROVE Inv'
  <1> USE DEF Inv, Core
  <1> DEFINE c == By[op]
  <1>1. PICK t \in IF Get(Aim[op]) # {} THEN Get(Aim[op]) ELSE Default :
          /\ bound' = [bound EXCEPT ![c] = t] /\ want' = [want EXCEPT ![c] = t]
          /\ EnsureStarted(op, t, NoReq, "started")
    BY DEF Connects, Connect
  <1>2. t \in Objs /\ c \in Clients /\ "started" \in Places
    BY RegisteredIsAnObject DEF OpAssumption, Places
  <1>3. BuildsOK' /\ RequestsOK' /\ \A p \in Ops \ {op} : at'[p] = at[p] /\ req'[p] = req[p]
    BY <1>1, <1>2, NoReqIsTyped, EnsureTyped
  <1>4. ProjectsOK' /\ OneMainPerDirectory' /\ DefaultIsOpen'
    BY ProjectsKept DEF Connects, Connect
  <1>5. AgentsOK' /\ BrowsersOK'
    BY <1>1, <1>2 DEF Connects, Connect, agents, AgentsOK, BrowsersOK
  <1>6. WaitingOK' /\ FlushingHasHeld'
    BY WaitingKept DEF Connects
  <1>7. SidePlaces'
    BY <1>3, SidePlacesKept DEF Connects
  <1> QED BY <1>3, <1>4, <1>5, <1>6, <1>7

LEMMA ArrivesKeeps ==
  ASSUME Inv, PoolAssumption, OpAssumption, NEW op \in Ops, Arrives(op) PROVE Inv'
  <1>1. Kind[op] = "say" => bound[By[op]] \in Objs
    BY DEF Arrives, Waits, NeedsAgent, Inv, Core, AgentsOK
  <1>2. Core'
    BY <1>1, HandleKeeps DEF Arrives, Inv
  <1>3. WaitingOK' /\ FlushingHasHeld'
    BY DEF Arrives, Inv, waiting, WaitingOK, FlushingHasHeld
  <1> QED BY <1>2, <1>3 DEF Inv

LEMMA HoldsKeeps ==
  ASSUME Inv, OpAssumption, NEW op \in Ops, Holds(op) PROVE Inv'
  <1> USE DEF Inv, Core
  <1>1. ProjectsOK' /\ OneMainPerDirectory' /\ DefaultIsOpen'
    BY ProjectsKept DEF Holds
  <1>2. AgentsOK' /\ BuildsOK' /\ BrowsersOK'
    BY DEF Holds, agents, browsers, AgentsOK, BuildsOK, BrowsersOK
  <1>3. RequestsOK' /\ at'[op] = "held" /\ \A p \in Ops \ {op} : at'[p] = at[p] /\ req'[p] = req[p]
    BY DEF Holds, RequestsOK, Places
  <1>4. SidePlaces'
    BY <1>3, SidePlacesKept
  <1>5. held' \in [Objs -> Seq(Ops)] /\ flushing' = {}
    <2>1. held' = [held EXCEPT ![bound[By[op]]] = Append(held[bound[By[op]]], op)] /\ flushing' = {}
      BY DEF Holds, Quiet
    <2>2. \A o \in Objs : Append(held[o], op) \in Seq(Ops)
      BY DEF WaitingOK
    <2> QED BY <2>1, <2>2 DEF WaitingOK
  <1> QED BY <1>1, <1>2, <1>3, <1>4, <1>5 DEF WaitingOK, FlushingHasHeld

LEMMA FlushKeeps ==
  ASSUME Inv, PoolAssumption, OpAssumption, NEW b \in Objs, Flush(b) PROVE Inv'
  <1> DEFINE op == Head(held[b])
  <1>1. held[b] \in Seq(Ops) /\ held[b] # <<>> /\ op \in Ops
    BY DEF Flush, Inv, WaitingOK, FlushingHasHeld
  <1>2. ASSUME bound[By[op]] = b, Handle(op) PROVE Core'
    BY <1>1, <1>2, HandleKeeps DEF Inv
  <1>3. ASSUME at' = [at EXCEPT ![op] = "dropped"],
               UNCHANGED <<projects, agents, build, browsers, req, want>>
        PROVE  Core'
    <2> USE DEF Inv, Core
    <2>1. ProjectsOK' /\ OneMainPerDirectory' /\ DefaultIsOpen'
      BY <1>3, ProjectsKept
    <2>2. AgentsOK' /\ BuildsOK' /\ BrowsersOK'
      BY <1>3 DEF agents, browsers, AgentsOK, BuildsOK, BrowsersOK
    <2>3. RequestsOK' /\ at'[op] = "dropped" /\ \A p \in Ops \ {op} : at'[p] = at[p] /\ req'[p] = req[p]
      BY <1>1, <1>3 DEF RequestsOK, Places
    <2>4. SidePlaces'
      BY <1>1, <2>3, SidePlacesKept
    <2> QED BY <2>1, <2>2, <2>3, <2>4
  <1>4. Core'
    BY <1>2, <1>3 DEF Flush
  <1>5. Tail(held[b]) \in Seq(Ops) /\ (Len(held[b]) # 1 => Tail(held[b]) # <<>>)
    <2>1. Tail(held[b]) \in Seq(Ops) /\ Len(Tail(held[b])) = Len(held[b]) - 1 /\ Len(held[b]) \in Nat
      BY <1>1, HeadTailProperties
    <2>2. Len(held[b]) # 0
      BY <1>1, EmptySeq
    <2>3. Len(held[b]) # 1 => Len(Tail(held[b])) # 0
      BY <2>1, <2>2
    <2> QED BY <2>1, <2>3, EmptySeq
  <1>6. held' = [held EXCEPT ![b] = Tail(held[b])]
        /\ flushing' = (IF Len(held[b]) = 1 THEN flushing \ {b} ELSE flushing)
    BY DEF Flush
  <1>7. WaitingOK'
    BY <1>5, <1>6 DEF Inv, WaitingOK
  <1>8. FlushingHasHeld'
    BY <1>5, <1>6 DEF Inv, WaitingOK, FlushingHasHeld
  <1> QED BY <1>4, <1>7, <1>8 DEF Inv

LEMMA BuildsKeeps ==
  ASSUME Inv, PoolAssumption, NEW b \in Objs, Builds(b) PROVE Inv'
  <1> USE DEF Inv, Core
  <1>1. CASE ResourcesRebuilt(b) \/ RebuildFails(b) \/ RuntimeAttached(b)
    <2>1. ProjectsOK' /\ OneMainPerDirectory' /\ DefaultIsOpen'
      BY <1>1, ProjectsKept DEF ResourcesRebuilt, RebuildFails, RuntimeAttached
    <2>2. AgentsOK' /\ BuildsOK' /\ BrowsersOK'
      BY <1>1
        DEF ResourcesRebuilt, RebuildFails, RuntimeAttached, agents, browsers, AgentsOK, BuildsOK, BuildStages,
            BrowsersOK
    <2>3. RequestsOK' /\ SidePlaces'
      BY <1>1 DEF ResourcesRebuilt, RebuildFails, RuntimeAttached, RequestsOK, SidePlaces
    <2>4. WaitingOK' /\ FlushingHasHeld'
      BY <1>1, WaitingKept DEF ResourcesRebuilt, RebuildFails, RuntimeAttached
    <2> QED BY <2>1, <2>2, <2>3, <2>4
  <1>2. ASSUME NEW outcome \in {"ok", "failed"}, req' = Told(b, outcome)
        PROVE  req' \in [Ops -> Locals] /\ \A op \in Ops : req'[op].target = req[op].target
    <2>1. \A op \in Ops : req[op] \in Locals
      BY DEF RequestsOK
    <2>2. \A op \in Ops : LET r == [req[op] EXCEPT !.outcome = outcome] IN r \in Locals /\ r.target = req[op].target
      BY <1>2, <2>1 DEF Locals
    <2> HIDE DEF Inv, Core
    <2> QED BY <1>2, <2>1, <2>2 DEF Told
  <1>3. CASE BuildFinishes(b)
    <2>1. ProjectsOK' /\ OneMainPerDirectory' /\ DefaultIsOpen'
      BY <1>3, ProjectsKept DEF BuildFinishes
    <2>2. AgentsOK' /\ BuildsOK' /\ BrowsersOK'
      BY <1>3 DEF BuildFinishes, agents, browsers, AgentsOK, BuildsOK, BuildStages, BrowsersOK
    <2>3. RequestsOK' /\ SidePlaces'
      BY <1>2, <1>3 DEF BuildFinishes, RequestsOK, SidePlaces
    <2>4. WaitingOK' /\ FlushingHasHeld'
      BY <1>3 DEF BuildFinishes, Quiet, WaitingOK, FlushingHasHeld
    <2> QED BY <2>1, <2>2, <2>3, <2>4
  <1>4. CASE BuildFails(b)
    <2>1. ProjectsOK' /\ OneMainPerDirectory' /\ DefaultIsOpen'
      BY <1>4, ProjectsKept DEF BuildFails
    <2>2. AgentsOK' /\ BuildsOK' /\ BrowsersOK'
      BY <1>4 DEF BuildFails, Abandoned, agents, AgentsOK, BuildsOK, BuildStages, BrowsersOK
    <2>3. at' \in [Ops -> Places] /\ \A op \in Ops : at'[op] \in {at[op], "dropped"}
      BY <1>4 DEF BuildFails, Dropped, RequestsOK, Places
    <2>4. RequestsOK' /\ SidePlaces'
      BY <1>2, <1>4, <2>3 DEF BuildFails, RequestsOK, SidePlaces
    <2>5. WaitingOK' /\ FlushingHasHeld'
      BY <1>4 DEF BuildFails, Quiet, WaitingOK, FlushingHasHeld
    <2> QED BY <2>1, <2>2, <2>4, <2>5
  <1> QED BY <1>1, <1>3, <1>4 DEF Builds

\* Steps that only move a client, or end a request at its line.
LEMMA ContinuesKeeps ==
  ASSUME Inv, PoolAssumption, OpAssumption, NEW op \in Ops, Continues(op) PROVE Inv'
  <1> USE DEF Inv, Core
  <1>1. req[op] \in Locals /\ req[op].target \in Objs \cup {Nobody} /\ req[op].closing \subseteq Objs
    BY DEF RequestsOK, Locals
  <1>2. CASE BoundEarly(op)
    <2>1. ProjectsOK' /\ OneMainPerDirectory' /\ DefaultIsOpen'
      BY <1>2, ProjectsKept DEF BoundEarly
    <2>2. AgentsOK' /\ BuildsOK' /\ WaitingOK' /\ FlushingHasHeld'
      BY <1>2, WaitingKept DEF BoundEarly, agents, AgentsOK, BuildsOK
    <2>3. BrowsersOK'
      BY <1>1, <1>2 DEF BoundEarly, BrowsersOK, Bind
    <2>4. req' \in [Ops -> Locals] /\ \A p \in Ops \ {op} : req'[p] = req[p]
      <3> DEFINE r == [req[op] EXCEPT !.early = TRUE]
      <3>1. r \in Locals
        BY <1>1 DEF Locals
      <3>2. req' = [req EXCEPT ![op] = r] \/ req' = req
        BY <1>2 DEF BoundEarly
      <3> HIDE DEF r
      <3> QED BY <3>1, <3>2 DEF RequestsOK
    <2>5. RequestsOK' /\ \A p \in Ops \ {op} : at'[p] = at[p]
      BY <1>2, <2>4 DEF BoundEarly, RequestsOK, Places
    <2>6. Kind[op] # "openSide"
      BY <1>2 DEF BoundEarly, SidePlaces
    <2>7. SidePlaces'
      BY <2>4, <2>5, <2>6, SidePlacesKept
    <2> QED BY <2>1, <2>2, <2>3, <2>5, <2>7
  <1>3. ASSUME at' = [at EXCEPT ![op] = "done"], req' = req
        PROVE  RequestsOK' /\ SidePlaces'
    BY <1>3 DEF RequestsOK, Places, SidePlaces
  <1>4. CASE Started(op)
    <2>1. ProjectsOK' /\ OneMainPerDirectory' /\ DefaultIsOpen'
      BY <1>4, ProjectsKept DEF Started
    <2>2. AgentsOK' /\ BuildsOK' /\ WaitingOK' /\ FlushingHasHeld'
      BY <1>4, WaitingKept DEF Started, agents, AgentsOK, BuildsOK
    <2>3. BrowsersOK'
      BY <1>1, <1>4 DEF Started, BrowsersOK, Bind
    <2> QED BY <1>3, <1>4, <2>1, <2>2, <2>3 DEF Started
  <1>5. CASE Closed(op)
    <2>1. ProjectsOK' /\ OneMainPerDirectory' /\ DefaultIsOpen'
      BY <1>5, ProjectsKept DEF Closed
    <2>2. AgentsOK' /\ BuildsOK' /\ WaitingOK' /\ FlushingHasHeld'
      BY <1>1, <1>5, StoppedTyped, WaitingKept DEF Closed, agents, AgentsOK, BuildsOK
    <2>3. BrowsersOK'
      BY <1>1, <1>5 DEF Closed, BrowsersOK, Moved
    <2> QED BY <1>3, <1>5, <2>1, <2>2, <2>3 DEF Closed
  <1>6. CASE SideClosed(op)
    <2>1. ProjectsOK' /\ OneMainPerDirectory' /\ DefaultIsOpen'
      BY <1>6, ProjectsKept DEF SideClosed
    <2>2. AgentsOK' /\ BuildsOK' /\ WaitingOK' /\ FlushingHasHeld'
      BY <1>1, <1>6, StoppedTyped, WaitingKept DEF SideClosed, agents, AgentsOK, BuildsOK
    <2>3. BrowsersOK'
      BY <1>1, <1>6 DEF SideClosed, BrowsersOK
    <2> QED BY <1>3, <1>6, <2>1, <2>2, <2>3 DEF SideClosed
  <1>7. CASE SideStarted(op)
    <2>1. req[op].target \in Sides /\ {req[op].target} \in SUBSET Sides /\ {req[op].target} \in SUBSET Objs
      BY <1>7 DEF SideStarted, SidePlaces, Objs
    <2>2. ProjectsOK' /\ OneMainPerDirectory' /\ DefaultIsOpen'
      <3>1. CASE registry' = registry
        BY <1>7, <3>1, ProjectsKept DEF SideStarted, projects
      <3>2. CASE registry' = registry \ {req[op].target}
        BY <1>7, <2>1, <3>2, SidesGone DEF SideStarted
      <3> QED BY <1>7, <3>1, <3>2 DEF SideStarted
    <2>3. AgentsOK'
      BY <1>7, <2>1, StoppedTyped DEF SideStarted, agents, AgentsOK
    <2>4. BuildsOK' /\ BrowsersOK' /\ WaitingOK' /\ FlushingHasHeld'
      BY <1>7, WaitingKept DEF SideStarted, browsers, BrowsersOK, BuildsOK
    <2>5. RequestsOK' /\ SidePlaces'
      BY <1>7 DEF SideStarted, RequestsOK, Places, SidePlaces
    <2> QED BY <2>2, <2>3, <2>4, <2>5
  <1> QED BY <1>2, <1>4, <1>5, <1>6, <1>7 DEF Continues

\* A project added to a registry that has none of its directory.
LEMMA ProjectAdded ==
  ASSUME PoolAssumption, ProjectsOK, OneMainPerDirectory, DefaultIsOpen,
         NEW root, Get(root) = {}, NEW o \in Fresh(Mains, root),
         registry' = Added(o), used' = used \cup {o}, UNCHANGED <<default, persisted>>
  PROVE  ProjectsOK' /\ OneMainPerDirectory' /\ DefaultIsOpen'
  <1>1. o \in Mains /\ RootOf[o] = root /\ o \in Objs
    BY DEF Fresh, Objs
  <1>2. Projects' = Projects \cup {o}
    BY <1>1 DEF Added, Projects
  <1>3. \A a \in Projects : RootOf[a] # root
    BY DEF Get, Id, Projects, PoolAssumption
  <1>4. ProjectsOK'
    BY <1>1 DEF ProjectsOK, Added
  <1>5. OneMainPerDirectory'
    BY <1>1, <1>2, <1>3 DEF OneMainPerDirectory
  <1>6. DefaultIsOpen'
    BY <1>2 DEF DefaultIsOpen
  <1> QED BY <1>4, <1>5, <1>6

\* A side session added is no project.
LEMMA SideAdded ==
  ASSUME PoolAssumption, ProjectsOK, OneMainPerDirectory, DefaultIsOpen,
         NEW s \in Sides, registry' = Added(s), used' = used \cup {s}, UNCHANGED <<default, persisted>>
  PROVE  ProjectsOK' /\ OneMainPerDirectory' /\ DefaultIsOpen'
  <1>1. Projects' = Projects
    BY DEF Added, Projects, PoolAssumption
  <1> QED BY <1>1 DEF ProjectsOK, OneMainPerDirectory, DefaultIsOpen, Added, Objs

\* What an await of the start of `t` leaves to show, for a request that is no side session's.
LEMMA AwaitKeeps ==
  ASSUME Inv, NEW op \in Ops, Kind[op] # "openSide", NEW t \in Objs \cup {Nobody},
         EnsureStarted(op, t, req[op], "resources")
  PROVE  BuildsOK' /\ RequestsOK' /\ SidePlaces'
  <1>1. req[op] \in Locals /\ "resources" \in Places
    BY DEF Inv, Core, RequestsOK, Places
  <1>2. BuildsOK' /\ RequestsOK' /\ \A p \in Ops \ {op} : at'[p] = at[p] /\ req'[p] = req[p]
    BY <1>1, EnsureTyped DEF Inv, Core
  <1> QED BY <1>2, SidePlacesKept DEF Inv, Core

\* What a request asks for last is a workspace.
LEMMA WantsTyped ==
  ASSUME BrowsersOK, OpAssumption, NEW op \in Ops, NEW t \in Objs \cup {Nobody},
         UNCHANGED browsers, want' = Wants(op, t)
  PROVE  BrowsersOK'
  BY DEF BrowsersOK, browsers, Wants, OpAssumption

\* Only a request to start a side session is anywhere but at these lines.
LEMMA NotOfASide ==
  ASSUME SidePlaces, NEW op \in Ops, at[op] \in {"looking", "duplicate"} PROVE Kind[op] # "openSide"
  BY DEF SidePlaces

LEMMA OpeningKeeps ==
  ASSUME Inv, PoolAssumption, OpAssumption, NEW op \in Ops,
         PathRefused(op) \/ AlreadyOpen(op) \/ Persist(op) \/ CreateFails(op)
  PROVE  Inv'
  <1> USE DEF Inv, Core
  <1>1. CASE PathRefused(op)
    BY <1>1, RefuseKeeps, WaitingKept DEF PathRefused
  <1>2. CASE AlreadyOpen(op)
    <2>1. PICK t \in Get(Aim[op]) : EnsureStarted(op, t, req[op], "resources") /\ want' = Wants(op, t)
      BY <1>2 DEF AlreadyOpen
    <2>2. t \in Objs
      BY RegisteredIsAnObject
    <2>3. BuildsOK' /\ RequestsOK' /\ SidePlaces'
      BY <1>2, <2>1, <2>2, AwaitKeeps, NotOfASide DEF AlreadyOpen
    <2>4. ProjectsOK' /\ OneMainPerDirectory' /\ DefaultIsOpen'
      BY <1>2, ProjectsKept DEF AlreadyOpen
    <2>5. AgentsOK' /\ WaitingOK' /\ FlushingHasHeld'
      BY <1>2, WaitingKept DEF AlreadyOpen, agents, AgentsOK
    <2>6. BrowsersOK'
      BY <1>2, <2>1, <2>2, WantsTyped DEF AlreadyOpen
    <2> QED BY <2>3, <2>4, <2>5, <2>6
  <1>3. CASE Persist(op) \/ CreateFails(op)
    <2>1. persisted' \subseteq Roots \cup Sides /\ UNCHANGED <<registry, default, used>>
      BY <1>3 DEF Persist, CreateFails, ProjectsOK, OpAssumption
    <2>2. ProjectsOK' /\ OneMainPerDirectory' /\ DefaultIsOpen'
      BY <2>1 DEF ProjectsOK, OneMainPerDirectory, DefaultIsOpen, Projects
    <2>3. AgentsOK' /\ BuildsOK' /\ BrowsersOK' /\ WaitingOK' /\ FlushingHasHeld'
      BY <1>3, WaitingKept DEF Persist, CreateFails, agents, browsers, AgentsOK, BuildsOK, BrowsersOK
    <2>4. RequestsOK' /\ at'[op] \in {"creating", "done"} /\ \A p \in Ops \ {op} : at'[p] = at[p] /\ req'[p] = req[p]
      BY <1>3 DEF Persist, CreateFails, RequestsOK, Places
    <2>5. SidePlaces'
      BY <2>4, SidePlacesKept
    <2> QED BY <2>2, <2>3, <2>4, <2>5
  <1> QED BY <1>1, <1>2, <1>3

LEMMA CreatedKeeps ==
  ASSUME Inv, PoolAssumption, OpAssumption, NEW op \in Ops,
         CreatedFirst(op) \/ CreatedSecond(op) \/ DuplicateStopped(op)
  PROVE  Inv'
  <1> USE DEF Inv, Core
  <1>1. CASE CreatedFirst(op)
    <2>1. PICK o \in Fresh(Mains, Aim[op]) :
            /\ registry' = Added(o) /\ used' = used \cup {o}
            /\ EnsureStarted(op, o, req[op], "resources") /\ want' = Wants(op, o)
      BY <1>1 DEF CreatedFirst
    <2>2. o \in Objs /\ Kind[op] # "openSide"
      BY <1>1 DEF Fresh, Objs, CreatedFirst
    <2>3. BuildsOK' /\ RequestsOK' /\ SidePlaces'
      BY <2>1, <2>2, AwaitKeeps
    <2>4. ProjectsOK' /\ OneMainPerDirectory' /\ DefaultIsOpen'
      BY <1>1, <2>1, ProjectAdded DEF CreatedFirst
    <2>5. AgentsOK' /\ WaitingOK' /\ FlushingHasHeld'
      BY <1>1, WaitingKept DEF CreatedFirst, agents, AgentsOK
    <2>6. BrowsersOK'
      BY <1>1, <2>1, <2>2, WantsTyped DEF CreatedFirst
    <2> QED BY <2>3, <2>4, <2>5, <2>6
  <1>2. CASE CreatedSecond(op)
    <2>1. PICK o \in Fresh(Mains, Aim[op]), t \in Get(Aim[op]) :
            /\ used' = used \cup {o} /\ stopped' = stopped \cup {o}
            /\ req' = [req EXCEPT ![op].target = t] /\ want' = Wants(op, t)
      BY <1>2 DEF CreatedSecond
    <2>2. o \in Objs /\ t \in Objs /\ Kind[op] # "openSide"
      BY <1>2, RegisteredIsAnObject DEF Fresh, Objs, CreatedSecond
    <2>3. UNCHANGED <<registry, default, persisted>> /\ at' = [at EXCEPT ![op] = "duplicate"]
      BY <1>2 DEF CreatedSecond
    <2>4. ProjectsOK' /\ OneMainPerDirectory' /\ DefaultIsOpen'
      BY <2>1, <2>2, <2>3 DEF ProjectsOK, OneMainPerDirectory, DefaultIsOpen, Projects
    <2>5. AgentsOK' /\ BuildsOK' /\ WaitingOK' /\ FlushingHasHeld'
      BY <1>2, <2>1, <2>2, WaitingKept DEF CreatedSecond, AgentsOK, BuildsOK
    <2>6. BrowsersOK'
      BY <1>2, <2>1, <2>2, WantsTyped DEF CreatedSecond
    <2>7. RequestsOK' /\ \A p \in Ops \ {op} : at'[p] = at[p] /\ req'[p] = req[p]
      <3> DEFINE r == [req[op] EXCEPT !.target = t]
      <3>1. r \in Locals
        BY <2>2 DEF RequestsOK, Locals
      <3>2. req' = [req EXCEPT ![op] = r]
        BY <2>1
      <3> HIDE DEF r
      <3> QED BY <2>3, <3>1, <3>2 DEF RequestsOK, Places
    <2> QED BY <2>2, <2>4, <2>5, <2>6, <2>7, SidePlacesKept
  <1>3. CASE DuplicateStopped(op)
    <2>1. req[op].target \in Objs \cup {Nobody} /\ Kind[op] # "openSide"
      BY <1>3, NotOfASide DEF DuplicateStopped, RequestsOK, Locals
    <2>2. BuildsOK' /\ RequestsOK' /\ SidePlaces'
      BY <1>3, <2>1, AwaitKeeps DEF DuplicateStopped
    <2>3. ProjectsOK' /\ OneMainPerDirectory' /\ DefaultIsOpen'
      BY <1>3, ProjectsKept DEF DuplicateStopped
    <2>4. AgentsOK' /\ BrowsersOK' /\ WaitingOK' /\ FlushingHasHeld'
      BY <1>3, WaitingKept DEF DuplicateStopped, agents, browsers, AgentsOK, BrowsersOK
    <2> QED BY <2>2, <2>3, <2>4
  <1> QED BY <1>1, <1>2, <1>3

LEMMA SideKeeps ==
  ASSUME Inv, PoolAssumption, OpAssumption, NEW op \in Ops,
         SideCreated(op) \/ SideNotCreated(op) \/ SideReady(op)
  PROVE  Inv'
  <1> USE DEF Inv, Core
  <1>1. CASE SideCreated(op)
    <2>1. PICK s \in Fresh(Sides, Aim[op]) :
            /\ registry' = Added(s) /\ used' = used \cup {s}
            /\ EnsureStarted(op, s, req[op], "started") /\ want' = Wants(op, s)
      BY <1>1 DEF SideCreated
    <2>2. s \in Sides /\ s \in Objs /\ req[op] \in Locals /\ "started" \in Places
      BY DEF Fresh, Objs, RequestsOK, Places
    <2>3. /\ BuildsOK' /\ RequestsOK' /\ at'[op] = "started" /\ req'[op].target = s
          /\ \A p \in Ops \ {op} : at'[p] = at[p] /\ req'[p] = req[p]
      BY <2>1, <2>2, EnsureTyped
    <2>4. SidePlaces'
      BY <2>2, <2>3, SidePlacesKept
    <2>5. ProjectsOK' /\ OneMainPerDirectory' /\ DefaultIsOpen'
      BY <1>1, <2>1, <2>2, SideAdded DEF SideCreated
    <2>6. AgentsOK' /\ WaitingOK' /\ FlushingHasHeld'
      BY <1>1, WaitingKept DEF SideCreated, agents, AgentsOK
    <2>7. BrowsersOK'
      BY <1>1, <2>1, <2>2, WantsTyped DEF SideCreated
    <2> QED BY <2>3, <2>4, <2>5, <2>6, <2>7
  <1>2. CASE SideNotCreated(op)
    BY <1>2, RefuseKeeps, WaitingKept DEF SideNotCreated
  <1>3. CASE SideReady(op)
    <2>1. ProjectsOK' /\ OneMainPerDirectory' /\ DefaultIsOpen'
      BY <1>3, ProjectsKept DEF SideReady
    <2>2. AgentsOK' /\ BuildsOK' /\ WaitingOK' /\ FlushingHasHeld'
      BY <1>3, WaitingKept DEF SideReady, agents, AgentsOK, BuildsOK
    <2>3. req[op].target \in Objs \cup {Nobody}
      BY DEF RequestsOK, Locals
    <2>4. BrowsersOK'
      BY <1>3, <2>3 DEF SideReady, BrowsersOK, Bind
    <2>5. RequestsOK' /\ SidePlaces'
      BY <1>3 DEF SideReady, RequestsOK, Places, SidePlaces
    <2> QED BY <2>1, <2>2, <2>4, <2>5
  <1> QED BY <1>1, <1>2, <1>3

\* A turn ends, or the sweep retires a project or closes a side session.
LEMMA SweepKeeps ==
  ASSUME Inv, PoolAssumption, NEW o \in Objs, TurnEnds(o) \/ Retire(o) \/ SweepSide(o) PROVE Inv'
  <1> USE DEF Inv, Core
  <1>1. CASE TurnEnds(o) \/ Retire(o)
    <2>1. ProjectsOK' /\ OneMainPerDirectory' /\ DefaultIsOpen'
      BY <1>1, ProjectsKept DEF TurnEnds, Retire
    <2>2. AgentsOK' /\ BuildsOK' /\ BrowsersOK' /\ WaitingOK' /\ FlushingHasHeld'
      BY <1>1, WaitingKept DEF TurnEnds, Retire, browsers, AgentsOK, BuildsOK, BrowsersOK
    <2>3. RequestsOK' /\ SidePlaces'
      BY <1>1 DEF TurnEnds, Retire, RequestsOK, SidePlaces
    <2> QED BY <2>1, <2>2, <2>3
  <1>2. CASE SweepSide(o)
    <2>1. {o} \in SUBSET Sides /\ {o} \in SUBSET Objs
      BY <1>2 DEF SweepSide
    <2>2. ProjectsOK' /\ OneMainPerDirectory' /\ DefaultIsOpen'
      BY <1>2, <2>1, SidesGone DEF SweepSide
    <2>3. AgentsOK'
      BY <1>2, <2>1, StoppedTyped DEF SweepSide
    <2>4. BuildsOK' /\ BrowsersOK' /\ WaitingOK' /\ FlushingHasHeld' /\ RequestsOK' /\ SidePlaces'
      BY <1>2, WaitingKept DEF SweepSide, browsers, BuildsOK, BrowsersOK, RequestsOK, SidePlaces
    <2> QED BY <2>2, <2>3, <2>4
  <1> QED BY <1>1, <1>2

-----------------------------------------------------------------------------
(* The invariant, and what it says                                         *)

LEMMA InvHolds == ASSUME PoolAssumption, Init PROVE Inv
  <1>1. Projects = Restored /\ Restored \subseteq Objs
    BY DEF Init, Projects, PoolAssumption, Objs
  <1>2. ProjectsOK
    <2>1. RootOf[Boot] \in Roots /\ \A o \in Restored : RootOf[o] \in Roots
      BY <1>1 DEF PoolAssumption
    <2> QED BY <1>1, <2>1 DEF Init, ProjectsOK
  <1>3. OneMainPerDirectory /\ DefaultIsOpen
    BY <1>1 DEF Init, OneMainPerDirectory, DefaultIsOpen, PoolAssumption
  <1>4. AgentsOK /\ BuildsOK
    BY <1>1 DEF Init, AgentsOK, BuildsOK, BuildStages, PoolAssumption
  <1>5. BrowsersOK
    BY DEF Init, BrowsersOK
  <1>6. RequestsOK /\ SidePlaces
    BY NoReqIsTyped DEF Init, RequestsOK, SidePlaces, Places
  <1>7. WaitingOK /\ FlushingHasHeld
    BY DEF Init, WaitingOK, FlushingHasHeld
  <1> QED BY <1>2, <1>3, <1>4, <1>5, <1>6, <1>7 DEF Inv, Core

LEMMA InvIsKept == ASSUME PoolAssumption, OpAssumption, Inv, [Next]_vars PROVE Inv'
  <1>1. CASE UNCHANGED vars
    <2>1. ProjectsOK' /\ OneMainPerDirectory' /\ DefaultIsOpen' /\ WaitingOK' /\ FlushingHasHeld'
      BY <1>1, ProjectsKept, WaitingKept DEF vars, Inv, Core
    <2>2. AgentsOK' /\ BuildsOK' /\ BrowsersOK' /\ RequestsOK' /\ SidePlaces'
      BY <1>1 DEF vars, agents, browsers, Inv, Core, AgentsOK, BuildsOK, BrowsersOK, RequestsOK, SidePlaces
    <2> QED BY <2>1, <2>2 DEF Inv, Core
  <1>2. ASSUME NEW op \in Ops, Connects(op) \/ Arrives(op) \/ Holds(op) \/ Continues(op)
        PROVE  Inv'
    BY <1>2, ConnectsKeeps, ArrivesKeeps, HoldsKeeps, ContinuesKeeps
  <1>3. ASSUME NEW op \in Ops, Awaits(op) PROVE Inv'
    BY <1>3, OpeningKeeps, CreatedKeeps, SideKeeps DEF Awaits
  <1>4. ASSUME NEW o \in Objs, Builds(o) \/ Flush(o) \/ TurnEnds(o) \/ Retire(o) \/ SweepSide(o)
        PROVE  Inv'
    BY <1>4, BuildsKeeps, FlushKeeps, SweepKeeps
  <1> QED BY <1>1, <1>2, <1>3, <1>4 DEF Next, Terminating

LEMMA Invariance == Spec => []Inv
  <1>1. Init => Inv
    BY PoolAssumption, InvHolds
  <1>2. Inv /\ [Next]_vars => Inv'
    BY PoolAssumption, OpAssumption, InvIsKept
  <1> QED BY <1>1, <1>2, PTL DEF Spec

\* The state of the server is always of its type, however the requests interleave.
THEOREM WorkspacesTypeCorrect == Spec => []TypeOK
  <1>1. Inv => TypeOK
    BY DEF Inv, Core, TypeOK
  <1> QED BY <1>1, Invariance, PTL

\* A directory is one project, whatever number of clients opens it at once: the second to be
\* created finds the first and is stopped (WorkspaceRegistry.add).
THEOREM OneProjectPerDirectory == Spec => []OneMainPerDirectory
  <1>1. Inv => OneMainPerDirectory
    BY DEF Inv, Core
  <1> QED BY <1>1, Invariance, PTL

\* There is always an open project to show a new browser: the last one cannot be closed, and
\* closing the default makes another one of the open projects the default (WorkspaceRegistry.remove).
THEOREM ADefaultIsAlwaysOpen == Spec => []DefaultIsOpen
  <1>1. Inv => DefaultIsOpen
    BY DEF Inv, Core
  <1> QED BY <1>1, Invariance, PTL

-----------------------------------------------------------------------------
(* What the next start restores: config.openProjects against the open projects. *)

\* The directories of the open projects.
Opened == {RootOf[o] : o \in Projects}
\* Request `op` has put the directory among the persisted ones, and is creating its project.
Creates(op, root) == Kind[op] = "open" /\ Aim[op] = root /\ at[op] = "creating"
\* A directory is persisted if it is open, or is being opened and still closed.
Agreed(root) ==
  IF \E op \in Ops : Creates(op, root) THEN root \in persisted \ Opened
  ELSE root \in persisted <=> root \in Opened
Agrees ==
  /\ \A root \in Roots \cup Sides : OpenedTwice(root) \/ Agreed(root)
  /\ \A op \in Ops : at[op] = "looking" => Kind[op] = "open"
\* Only what needs an agent is held: an open is handled when it arrives.
OnlyAgentsWait == \A b \in Objs : \A i \in 1..Len(held[b]) : Kind[held[b][i]] \in NeedsAgent
Restorable == Agrees /\ OnlyAgentsWait

\* No request becomes new again, and no open starts or stops creating its project.
NoneCreates ==
  \A p \in Ops : /\ Sent(p) => Sent(p)'
                 /\ Kind[p] = "open" => (at'[p] = "creating" <=> at[p] = "creating")
                 /\ Kind[p] # "open" /\ at'[p] = "looking" => at[p] = "looking"

\* Such a step, if it leaves the projects and what is persisted alone, leaves them agreeing.
LEMMA AgreesKept ==
  ASSUME Agrees, NoneCreates, persisted' = persisted, Opened' = Opened PROVE Agrees'
  <1>1. \A root : OpenedTwice(root) => OpenedTwice(root)'
    BY DEF OpenedTwice, NoneCreates
  <1>2. \A root : (\E op \in Ops : Creates(op, root)') <=> (\E op \in Ops : Creates(op, root))
    BY DEF Creates, NoneCreates
  <1> QED BY <1>1, <1>2 DEF Agrees, Agreed, NoneCreates

\* One request goes to another line, and creates no project before or after.
LEMMA OneMoves ==
  ASSUME RequestsOK, NEW op \in Ops, NEW x, x \notin {"absent", "new"}, at' = [at EXCEPT ![op] = x],
         IF Kind[op] = "open" THEN at[op] # "creating" /\ x # "creating" ELSE x # "looking"
  PROVE  NoneCreates
  BY DEF NoneCreates, RequestsOK, Sent

\* Nor does one that awaits a start.
LEMMA AwaitMoves ==
  ASSUME RequestsOK, NEW op \in Ops, NEW t, NEW r, NEW place \in {"resources", "started"},
         EnsureStarted(op, t, r, place), Kind[op] = "open" => at[op] # "creating"
  PROVE  NoneCreates
  BY DEF NoneCreates, Sent, RequestsOK, EnsureStarted

\* Side sessions are no projects.
LEMMA SidesAreNoProjects ==
  ASSUME PoolAssumption, NEW gone \in SUBSET Sides,
         registry' = registry \ gone \/ registry' = registry \cup gone
  PROVE  Opened' = Opened
  <1>1. Projects' = Projects
    BY DEF Projects, PoolAssumption
  <1> QED BY <1>1 DEF Opened
LEMMA SameProjects == ASSUME registry' = registry PROVE Opened' = Opened
  BY DEF Opened, Projects

\* The registry answers for a directory exactly when its project is open.
LEMMA OpenIsFound ==
  ASSUME PoolAssumption, ProjectsOK, NEW root \in Roots
  PROVE  /\ root \in Opened <=> Get(root) \cap Mains # {}
         /\ root \in Opened <=> Get(root) # {}
  BY DEF Opened, Projects, Get, Id, PoolAssumption, ProjectsOK, Objs
\* A side session's name is no project's directory.
LEMMA OnlyDirectoriesOpen == ASSUME PoolAssumption, ProjectsOK PROVE Opened \subseteq Roots
  <1>1. \A o \in Projects : o \in Objs
    BY DEF Projects, ProjectsOK
  <1> QED BY <1>1 DEF Opened, PoolAssumption

\* A close takes a directory from both; what is being opened is not open, and is not closed.
LEMMA CloseAgrees ==
  ASSUME PoolAssumption, OpAssumption, Inv, Agrees, NEW op \in Ops, Kind[op] = "close", Close(op)
  PROVE  Agrees'
  <1> USE DEF Inv, Core
  <1>1. CASE Refuse(op)
    <2>1. NoneCreates
      BY <1>1, OneMoves DEF Refuse
    <2>2. persisted' = persisted /\ Opened' = Opened
      BY <1>1, SameProjects DEF Refuse, projects
    <2> QED BY <2>1, <2>2, AgreesKept
  <1>2. CASE ~Refuse(op)
    <2> DEFINE root == Aim[op]
    <2>1. /\ ~CloseRefused(root) /\ registry' = registry \ SessionsOf(root)
          /\ persisted' = persisted \ {root}
          /\ \/ at' = [at EXCEPT ![op] = "done"]
             \/ \E t : EnsureStarted(op, t, [NoReq EXCEPT !.closing = SessionsOf(root)], "started")
      BY <1>2 DEF Close
    <2>2. NoneCreates
      BY <2>1, OneMoves, AwaitMoves
    <2>3. Opened' = Opened \ {root}
      BY <2>1 DEF Opened, Projects, SessionsOf
    <2>4. root \in Opened
      BY <2>1 DEF CloseRefused, Opened, Projects, Get, Id, PoolAssumption
    <2>5. ASSUME NEW d \in Roots \cup Sides, ~OpenedTwice(d)' PROVE Agreed(d)'
      <3>1. ~OpenedTwice(d) /\ Agreed(d)
        BY <2>2, <2>5 DEF OpenedTwice, NoneCreates, Agrees
      <3>2. (\E p \in Ops : Creates(p, d)') <=> (\E p \in Ops : Creates(p, d))
        BY <2>2 DEF Creates, NoneCreates
      <3>3. CASE d = root
        BY <2>1, <2>3, <2>4, <3>1, <3>2, <3>3 DEF Agreed
      <3>4. CASE d # root
        BY <2>1, <2>3, <3>1, <3>2, <3>4 DEF Agreed
      <3> QED BY <3>3, <3>4
    <2> QED BY <2>2, <2>5 DEF Agrees, NoneCreates
  <1> QED BY <1>1, <1>2

\* A request handled leaves them agreeing.
LEMMA HandleAgrees ==
  ASSUME PoolAssumption, OpAssumption, Inv, Agrees, NEW op \in Ops, Handle(op),
         Kind[op] = "open" => at[op] = "new"
  PROVE  Agrees'
  <1> USE DEF Inv, Core
  <1>1. CASE Kind[op] = "close" /\ Close(op)
    BY <1>1, CloseAgrees
  <1>2. CASE Refuse(op) /\ Kind[op] # "open"
    <2>1. NoneCreates
      BY <1>2, OneMoves DEF Refuse
    <2>2. persisted' = persisted /\ Opened' = Opened
      BY <1>2, SameProjects DEF Refuse, projects
    <2> QED BY <2>1, <2>2, AgreesKept
  <1>3. CASE Kind[op] = "switch" /\ Switch(op)
    <2>1. SUFFICES ASSUME NEW t, EnsureStarted(op, t, Ticketed(By[op]), "resources"), UNCHANGED projects
          PROVE Agrees'
      BY <1>2, <1>3 DEF Switch
    <2>2. NoneCreates
      BY <1>3, <2>1, AwaitMoves
    <2> QED BY <2>1, <2>2, SameProjects, AgreesKept DEF projects
  <1>4. CASE Kind[op] = "open" /\ Open(op)
    BY <1>4, OneMoves, SameProjects, AgreesKept DEF Open, projects
  <1>5. CASE Kind[op] = "leave" /\ Leave(op)
    BY <1>5, OneMoves, SameProjects, AgreesKept DEF Leave, projects
  <1>6. CASE Kind[op] = "openSide" /\ OpenSide(op)
    <2>1. SUFFICES ASSUME at' = [at EXCEPT ![op] = "creating"], UNCHANGED projects PROVE Agrees'
      BY <1>2, <1>6 DEF OpenSide
    <2> QED BY <1>6, <2>1, OneMoves, SameProjects, AgreesKept DEF projects
  <1>7. CASE Kind[op] = "closeSide" /\ CloseSide(op)
    <2>1. SUFFICES ASSUME NEW s \in Sides, registry' = registry \ {s}, persisted' = persisted,
                          \/ at' = [at EXCEPT ![op] = "done"]
                          \/ \E t : EnsureStarted(op, t, [NoReq EXCEPT !.closing = {s}, !.watching = Watching(s)], "started")
          PROVE Agrees'
      BY <1>2, <1>7 DEF CloseSide
    <2>2. NoneCreates
      BY <1>7, <2>1, OneMoves, AwaitMoves
    <2>3. {s} \in SUBSET Sides
      OBVIOUS
    <2>4. Opened' = Opened
      BY <2>1, <2>3, SidesAreNoProjects
    <2> QED BY <2>1, <2>2, <2>4, AgreesKept
  <1>8. CASE Kind[op] = "say" /\ Say(op)
    BY <1>8, OneMoves, SameProjects, AgreesKept DEF Say, projects
  <1> QED BY <1>1, <1>3, <1>4, <1>5, <1>6, <1>7, <1>8 DEF Handle

\* What waits at a start is what needs an agent.
LEMMA HoldsRestorable == ASSUME Inv, Restorable, NEW op \in Ops, Holds(op) PROVE Restorable'
  <1> USE DEF Inv, Core, Restorable
  <1>1. NoneCreates /\ persisted' = persisted /\ Opened' = Opened
    BY OneMoves, SameProjects DEF Holds, projects
  <1>2. Agrees'
    BY <1>1, AgreesKept
  <1>3. OnlyAgentsWait'
    <2>1. held' = [held EXCEPT ![bound[By[op]]] = Append(held[bound[By[op]]], op)] /\ Kind[op] \in NeedsAgent
      BY DEF Holds, Waits
    <2>2. ASSUME NEW b \in Objs, NEW i \in 1..Len(held'[b]) PROVE Kind[held'[b][i]] \in NeedsAgent
      <3>1. held[b] \in Seq(Ops) /\ Len(held[b]) \in Nat
        BY DEF WaitingOK
      <3>2. CASE bound[By[op]] = b
        <4>1. held'[b] = Append(held[b], op)
          BY <2>1, <3>2 DEF WaitingOK
        <4>2. (i \in 1..Len(held[b]) /\ held'[b][i] = held[b][i]) \/ held'[b][i] = op
          BY <3>1, <4>1, <2>2
        <4> QED BY <2>1, <4>2 DEF OnlyAgentsWait
      <3>3. CASE bound[By[op]] # b
        <4>1. held'[b] = held[b]
          BY <2>1, <3>3 DEF WaitingOK
        <4> QED BY <4>1, <2>2 DEF OnlyAgentsWait
      <3> QED BY <3>2, <3>3
    <2> QED BY <2>2 DEF OnlyAgentsWait
  <1> QED BY <1>2, <1>3

\* What is flushed is no open.
LEMMA FlushRestorable ==
  ASSUME PoolAssumption, OpAssumption, Inv, Restorable, NEW b \in Objs, Flush(b) PROVE Restorable'
  <1> USE DEF Inv, Restorable
  <1> DEFINE op == Head(held[b])
  <1>1. held[b] \in Seq(Ops) /\ held[b] # <<>> /\ op \in Ops /\ op = held[b][1] /\ 1 \in 1..Len(held[b])
    BY DEF Flush, WaitingOK, FlushingHasHeld
  <1>2. Kind[op] # "open"
    BY <1>1 DEF OnlyAgentsWait, NeedsAgent
  <1>3. ASSUME at' = [at EXCEPT ![op] = "dropped"], UNCHANGED projects PROVE Agrees'
    <2> HIDE DEF op
    <2> QED BY <1>1, <1>2, <1>3, OneMoves, SameProjects, AgreesKept DEF projects, Core
  <1>4. Agrees'
    <2>1. CASE Handle(op)
      <3> HIDE DEF op
      <3> QED BY <1>1, <1>2, <2>1, HandleAgrees
    <2> QED BY <1>3, <2>1 DEF Flush
  <1>5. OnlyAgentsWait'
    <2>1. Tail(held[b]) \in Seq(Ops) /\ Len(Tail(held[b])) = Len(held[b]) - 1 /\ Len(held[b]) \in Nat
          /\ \A i \in 1..Len(Tail(held[b])) : Tail(held[b])[i] = held[b][i + 1] /\ i + 1 \in 1..Len(held[b])
      BY <1>1
    <2>2. held' = [held EXCEPT ![b] = Tail(held[b])]
      BY DEF Flush
    <2>3. \A o \in Objs : o # b => held'[o] = held[o]
      BY <2>2 DEF WaitingOK
    <2>4. held'[b] = Tail(held[b])
      BY <2>2 DEF WaitingOK
    <2> SUFFICES ASSUME NEW o \in Objs, NEW i \in 1..Len(held'[o]) PROVE Kind[held'[o][i]] \in NeedsAgent
      BY DEF OnlyAgentsWait
    <2>5. CASE o = b
      <3>1. held'[b][i] = held[b][i + 1] /\ i + 1 \in 1..Len(held[b])
        BY <2>1, <2>4, <2>5
      <3> QED BY <2>5, <3>1 DEF OnlyAgentsWait
    <2> QED BY <2>3, <2>5 DEF OnlyAgentsWait
  <1> QED BY <1>4, <1>5

\* A start, whatever it comes to: requests dropped with it are no opens.
LEMMA BuildsRestorable ==
  ASSUME Inv, Restorable, NEW b \in Objs, Builds(b) PROVE Restorable'
  <1> USE DEF Inv, Restorable
  <1>1. persisted' = persisted /\ Opened' = Opened
    BY SameProjects DEF Builds, ResourcesRebuilt, RebuildFails, RuntimeAttached, BuildFinishes, BuildFails, projects
  <1>2. CASE BuildFails(b)
    <2>1. \A p \in Ops : at'[p] = at[p] \/ (at'[p] = "dropped" /\ Kind[p] \in NeedsAgent)
      BY <1>2, SMTT(40) DEF BuildFails, Dropped, OnlyAgentsWait, WaitingOK
    <2>2. NoneCreates
      BY <2>1 DEF NoneCreates, Sent, NeedsAgent
    <2>3. OnlyAgentsWait'
      BY <1>2 DEF BuildFails, OnlyAgentsWait, WaitingOK
    <2> QED BY <1>1, <2>2, <2>3, AgreesKept
  <1>3. CASE at' = at /\ held' = held
    <2>1. NoneCreates
      BY <1>3 DEF NoneCreates, Sent
    <2> QED BY <1>1, <1>3, <2>1, AgreesKept DEF OnlyAgentsWait
  <1> QED BY <1>2, <1>3 DEF Builds, ResourcesRebuilt, RebuildFails, RuntimeAttached, BuildFinishes, waiting

\* The continuations: only side sessions leave the registry.
LEMMA ContinuesRestorable ==
  ASSUME PoolAssumption, Inv, Restorable, NEW op \in Ops, Continues(op) PROVE Restorable'
  <1> USE DEF Inv, Core, Restorable
  <1>1. OnlyAgentsWait'
    BY DEF Continues, BoundEarly, Started, Closed, SideStarted, SideClosed, waiting, OnlyAgentsWait
  <1>2. NoneCreates
    <2>1. PICK x \in {"started", "done", "adopting"} : at' = [at EXCEPT ![op] = x]
      BY DEF Continues, BoundEarly, Started, Closed, SideStarted, SideClosed
    <2>2. at[op] # "creating"
      BY DEF Continues, BoundEarly, Started, Closed, SideStarted, SideClosed
    <2> QED BY <2>1, <2>2, OneMoves
  <1>3. persisted' = persisted
    BY DEF Continues, BoundEarly, Started, Closed, SideStarted, SideClosed, projects
  <1>4. Opened' = Opened
    <2>1. CASE registry' = registry
      BY <2>1, SameProjects
    <2>2. CASE SideStarted(op) /\ registry' = registry \ {req[op].target}
      <3>1. {req[op].target} \in SUBSET Sides
        BY <2>2 DEF SideStarted, SidePlaces
      <3> QED BY <2>2, <3>1, SidesAreNoProjects
    <2> QED BY <2>1, <2>2 DEF Continues, BoundEarly, Started, Closed, SideStarted, SideClosed, projects
  <1> QED BY <1>1, <1>2, <1>3, <1>4, AgreesKept

\* Opening: persisted, then created, or taken back; and no other request opens the directory.
LEMMA OpeningRestorable ==
  ASSUME PoolAssumption, OpAssumption, Inv, Restorable, NEW op \in Ops,
         Persist(op) \/ CreatedFirst(op) \/ CreatedSecond(op) \/ CreateFails(op)
  PROVE  Restorable'
  <1> USE DEF Inv, Core, Restorable
  <1> DEFINE root == Aim[op]
  <1>1. Kind[op] = "open" /\ at[op] \in {"looking", "creating"} /\ root \in Roots \cup Sides
    <2>1. Kind[op] = "open"
      BY DEF Persist, CreatedFirst, CreatedSecond, CreateFails, Agrees
    <2> QED BY <2>1 DEF Persist, CreatedFirst, CreatedSecond, CreateFails, OpAssumption
  <1>2. OnlyAgentsWait'
    BY DEF Persist, CreatedFirst, CreatedSecond, CreateFails, waiting, OnlyAgentsWait
  <1>3. PICK x \in {"creating", "resources", "started", "duplicate", "done"} : at' = [at EXCEPT ![op] = x]
    BY DEF Persist, CreatedFirst, CreatedSecond, CreateFails, EnsureStarted
  <1>4. at'[op] = x /\ \A p \in Ops \ {op} : at'[p] = at[p]
    BY <1>3 DEF RequestsOK
  <1>5. \A d : OpenedTwice(d) => OpenedTwice(d)'
    BY <1>4 DEF OpenedTwice, Sent
  <1>6. ASSUME NEW d \in Roots \cup Sides, ~OpenedTwice(d)', d # root PROVE Agreed(d)'
    <2>1. Agreed(d)
      BY <1>5, <1>6 DEF Agrees
    <2>2. (\E p \in Ops : Creates(p, d)') <=> (\E p \in Ops : Creates(p, d))
      BY <1>4, <1>6 DEF Creates
    <2>3. d \in persisted' <=> d \in persisted
      BY <1>6 DEF Persist, CreatedFirst, CreatedSecond, CreateFails
    <2>4. d \in Opened' <=> d \in Opened
      BY <1>6, SameProjects DEF Persist, CreatedFirst, CreatedSecond, CreateFails, Opened, Projects, Added, Fresh
    <2> QED BY <2>1, <2>2, <2>3, <2>4 DEF Agreed
  <1>7. ASSUME ~OpenedTwice(root)' PROVE Agreed(root)'
    <2>1. Agreed(root)
      BY <1>1, <1>5, <1>7 DEF Agrees
    <2>2. \A p \in Ops \ {op} : ~Creates(p, root) /\ ~Creates(p, root)'
      BY <1>1, <1>4, <1>7 DEF OpenedTwice, Sent, Creates
    <2>3. root \in Opened => Get(root) # {}
      BY OnlyDirectoriesOpen, OpenIsFound
    <2>4. CASE Persist(op)
      <3>1. root \notin Opened /\ Creates(op, root)'
        BY <1>1, <1>4, <2>3, <2>4 DEF Persist, Creates, RequestsOK
      <3> QED BY <2>4, <3>1, SameProjects DEF Persist, Agreed
    <2>5. CASE at[op] = "creating"
      <3>1. root \in persisted /\ root \notin Opened
        BY <1>1, <2>1, <2>5 DEF Agreed, Creates
      <3>2. CASE CreatedFirst(op)
        <4>1. ~Creates(op, root)'
          BY <1>4, <3>2 DEF CreatedFirst, EnsureStarted, Creates, RequestsOK
        <4>2. root \in Opened' /\ root \in persisted'
          BY <3>1, <3>2 DEF CreatedFirst, Added, Fresh, Opened, Projects
        <4> QED BY <2>2, <4>1, <4>2 DEF Agreed
      <3>3. CASE CreatedSecond(op)
        <4>1. root \in Roots
          BY <3>3 DEF CreatedSecond, Fresh, PoolAssumption, Objs
        <4> QED BY <3>1, <3>3, <4>1, OpenIsFound DEF CreatedSecond
      <3>4. CASE CreateFails(op)
        <4>1. ~Creates(op, root)' /\ root \notin persisted'
          BY <3>4 DEF CreateFails, Creates, RequestsOK
        <4>2. root \notin Opened'
          BY <3>1, <3>4, SameProjects DEF CreateFails
        <4> QED BY <2>2, <4>1, <4>2 DEF Agreed
      <3> QED BY <2>4, <3>2, <3>3, <3>4
    <2> QED BY <2>4, <2>5 DEF CreatedFirst, CreatedSecond, CreateFails
  <1>8. Agrees'
    BY <1>1, <1>4, <1>6, <1>7 DEF Agrees
  <1> QED BY <1>2, <1>8

\* The other awaits end an open that creates nothing, or are a side session's.
LEMMA OtherAwaitsRestorable ==
  ASSUME PoolAssumption, Inv, Restorable, NEW op \in Ops,
         \/ PathRefused(op) \/ AlreadyOpen(op) \/ DuplicateStopped(op)
         \/ SideCreated(op) \/ SideNotCreated(op) \/ SideReady(op)
  PROVE  Restorable'
  <1> USE DEF Inv, Core, Restorable
  <1>1. OnlyAgentsWait' /\ persisted' = persisted
    BY DEF PathRefused, AlreadyOpen, DuplicateStopped, SideCreated, SideNotCreated, SideReady, Refuse,
           waiting, projects, OnlyAgentsWait
  <1>2. PICK x \in {"done", "resources", "started"} : at' = [at EXCEPT ![op] = x]
    BY DEF PathRefused, AlreadyOpen, DuplicateStopped, SideCreated, SideNotCreated, SideReady, Refuse, EnsureStarted
  <1>3. Kind[op] = "open" => at[op] # "creating"
    BY DEF PathRefused, AlreadyOpen, DuplicateStopped, SideCreated, SideNotCreated, SideReady
  <1>4. NoneCreates
    BY <1>2, <1>3, OneMoves
  <1>5. Opened' = Opened
    <2>1. CASE registry' = registry
      BY <2>1, SameProjects
    <2>2. CASE SideCreated(op)
      <3>1. PICK s \in Sides : registry' = registry \cup {s}
        BY <2>2 DEF SideCreated, Added, Fresh
      <3>2. {s} \in SUBSET Sides
        OBVIOUS
      <3> QED BY <3>1, <3>2, SidesAreNoProjects
    <2> QED BY <2>1, <2>2 DEF PathRefused, AlreadyOpen, DuplicateStopped, SideNotCreated, SideReady, Refuse, projects
  <1> QED BY <1>1, <1>4, <1>5, AgreesKept

\* A turn ends, or the sweep: of projects it only takes the runtime.
LEMMA SweepRestorable ==
  ASSUME PoolAssumption, Inv, Restorable, NEW o \in Objs, TurnEnds(o) \/ Retire(o) \/ SweepSide(o)
  PROVE  Restorable'
  <1> USE DEF Restorable
  <1>1. OnlyAgentsWait' /\ persisted' = persisted /\ at' = at
    BY DEF TurnEnds, Retire, SweepSide, waiting, projects, OnlyAgentsWait
  <1>2. NoneCreates
    BY <1>1 DEF NoneCreates, Sent
  <1>3. Opened' = Opened
    <2>1. CASE registry' = registry
      BY <2>1, SameProjects
    <2>2. CASE o \in Sides /\ registry' = registry \ {o}
      <3>1. {o} \in SUBSET Sides
        BY <2>2
      <3> QED BY <2>2, <3>1, SidesAreNoProjects
    <2> QED BY <2>1, <2>2 DEF TurnEnds, Retire, SweepSide, projects
  <1> QED BY <1>1, <1>2, <1>3, AgreesKept

\* At startup what is open is what was restored.
LEMMA RestorableInit == ASSUME PoolAssumption, Init PROVE Restorable
  <1>1. Projects = Restored
    BY DEF Init, Projects, PoolAssumption
  <1>2. persisted = Opened
    BY <1>1 DEF Init, Opened
  <1>3. \A op \in Ops : at[op] \in {"absent", "new"}
    BY DEF Init
  <1>4. Agrees
    BY <1>2, <1>3 DEF Agrees, Agreed, Creates
  <1>5. OnlyAgentsWait
    BY DEF Init, OnlyAgentsWait
  <1> QED BY <1>4, <1>5 DEF Restorable

\* and every step keeps it so.
LEMMA RestorableNext ==
  ASSUME PoolAssumption, OpAssumption, Inv, Restorable, [Next]_vars PROVE Restorable'
  <1>1. CASE UNCHANGED vars
    <2>1. NoneCreates /\ persisted' = persisted /\ Opened' = Opened
      BY <1>1, SameProjects DEF vars, projects, NoneCreates, Sent
    <2> QED BY <1>1, <2>1, AgreesKept DEF vars, waiting, Restorable, OnlyAgentsWait
  <1>2. ASSUME NEW op \in Ops, Connects(op) PROVE Restorable'
    <2>1. PICK t : EnsureStarted(op, t, NoReq, "started")
      BY <1>2 DEF Connects, Connect
    <2>2. NoneCreates
      BY <1>2, <2>1, AwaitMoves DEF Connects, Inv, Core
    <2> QED BY <1>2, <2>2, SameProjects, AgreesKept
              DEF Connects, Connect, projects, waiting, Restorable, OnlyAgentsWait
  <1>3. ASSUME NEW op \in Ops, Arrives(op) PROVE Restorable'
    <2>1. Agrees'
      BY <1>3, HandleAgrees DEF Arrives, Restorable
    <2> QED BY <1>3, <2>1 DEF Arrives, waiting, Restorable, OnlyAgentsWait
  <1>4. ASSUME NEW op \in Ops, Holds(op) \/ Continues(op) \/ Awaits(op) PROVE Restorable'
    BY <1>4, HoldsRestorable, ContinuesRestorable, OpeningRestorable, OtherAwaitsRestorable DEF Awaits
  <1>5. ASSUME NEW o \in Objs, Builds(o) \/ Flush(o) \/ TurnEnds(o) \/ Retire(o) \/ SweepSide(o)
        PROVE  Restorable'
    BY <1>5, BuildsRestorable, FlushRestorable, SweepRestorable
  <1> QED BY <1>1, <1>2, <1>3, <1>4, <1>5 DEF Next, Terminating

\* Once no open is under way the projects the next start restores are the open ones, whatever
\* was opened and closed and in whatever order: handleOpenProject persists a directory before it
\* creates its project, and takes it back if that fails; handleCloseProject removes both at once.
\* Excepted are the directories two requests open, where the one that fails may come last.
THEOREM WhatIsOpenIsRestored == Spec => []PersistedIsOpen
  <1>1. Init => Inv /\ Restorable
    BY PoolAssumption, InvHolds, RestorableInit
  <1>2. Inv /\ Restorable /\ [Next]_vars => Inv' /\ Restorable'
    BY PoolAssumption, OpAssumption, InvIsKept, RestorableNext
  <1>3. Inv /\ Restorable => PersistedIsOpen
    <2> SUFFICES ASSUME Inv, Restorable, Settled, NEW root \in (persisted \ Opened) \cup (Opened \ persisted)
                 PROVE  OpenedTwice(root)
      BY DEF PersistedIsOpen, Opened
    <2>1. root \in Roots \cup Sides
      BY OnlyDirectoriesOpen, PoolAssumption DEF Inv, Core, ProjectsOK
    <2>2. \A op \in Ops : ~Creates(op, root)
      BY DEF Settled, Creates, Ended
    <2> QED BY <2>1, <2>2 DEF Restorable, Agrees, Agreed
  <1> QED BY <1>1, <1>2, <1>3, PTL DEF Spec

=============================================================================
