----------------------------- MODULE Workspaces -----------------------------
(***************************************************************************)
(* The server's open projects and the browsers bound to them               *)
(* (server/src/index.ts, workspaceRegistry.ts, workspace.ts): which        *)
(* workspace each browser is on, which workspaces are open, running,       *)
(* starting or stopped, and the operations that change it: connect,        *)
(* switch, open, close, a side session opened and closed, a message to the *)
(* agent, and the sweep of idle projects.                                  *)
(*                                                                         *)
(* A workspace is an object of a pool: opening a directory again makes a   *)
(* new one.  Each request is handled once.  The server is one event loop:  *)
(* a promise's continuations run before the next event, so a step that is  *)
(* an event of its own waits until nothing is due (Quiet).                 *)
(*                                                                         *)
(* Left out: the workspace lock, resource updates, a client that talks     *)
(* before it is registered, and the time a runtime takes to be disposed.   *)
(***************************************************************************)
EXTENDS Naturals, Sequences, FiniteSets

CONSTANTS
  Clients,    \* browsers
  Roots,      \* project directories
  Mains,      \* the pool of project workspaces
  Sides,      \* the pool of side sessions
  RootOf,     \* each workspace's directory
  Boot,       \* the workspace the server came up on, its agent running
  Restored,   \* the workspaces open at startup, Boot among them
  Ops,        \* requests
  Kind,       \* what each asks
  By,         \* the client that sends it
  Aim,        \* the directory, or the side session, it names
  Pools,      \* the sets of requests a behaviour may have
  Nobody      \* no workspace

Objs == Mains \cup Sides
Kinds == {"connect", "switch", "open", "close", "openSide", "closeSide", "say", "leave"}

ASSUME PoolAssumption ==
  /\ Mains \cap Sides = {} /\ Nobody \notin Objs /\ IsFiniteSet(Objs)
  /\ RootOf \in [Objs -> Roots] /\ Roots \cap Sides = {}
  /\ Boot \in Restored /\ Restored \subseteq Mains
  /\ \A a, b \in Restored : RootOf[a] = RootOf[b] => a = b
ASSUME OpAssumption ==
  /\ Kind \in [Ops -> Kinds] /\ By \in [Ops -> Clients] /\ Aim \in [Ops -> Roots \cup Sides]
  /\ Pools \subseteq SUBSET Ops

VARIABLES
  registry,   \* workspaces.byId
  default,    \* workspaces.defaultRoot
  used,       \* the objects created so far
  running,    \* those with a runtime (started)
  retired, stopped, working,
  build,      \* per workspace, how far its start is (starting, resourcesReady)
  held,       \* startQueues
  flushing,   \* workspaces whose held messages are being handled
  persisted,  \* config.openProjects
  conn,       \* connected clients
  bound,      \* clients: the workspace each is bound to
  asks,       \* bindingAsks
  at, req,    \* per request, the line it waits at and its local variables
  want        \* history: what each client asked for last

projects == <<registry, default, used, persisted>>
agents == <<running, retired, stopped, working>>
waiting == <<held, flushing>>
browsers == <<conn, bound, asks>>
vars == <<projects, agents, build, waiting, browsers, at, req, want>>

BuildStages == {"no", "rebuilding", "building", "attached", "failing"}
Places == {"absent", "new", "held", "looking", "creating", "duplicate", "resources", "started",
           "adopting", "handled", "dropped", "done"}
Ended == {"absent", "handled", "dropped", "done"}
NoReq == [ticket |-> 0, target |-> Nobody, waits |-> Nobody, outcome |-> "?", early |-> FALSE,
          asked |-> Nobody, watching |-> {}, closing |-> {}]

Id(o) == IF o \in Sides THEN o ELSE RootOf[o]
Get(id) == {o \in registry : Id(o) = id}
Projects == registry \cap Mains
SessionsOf(root) == {o \in registry : RootOf[o] = root}
Default == Get(default)
Fresh(pool, root) == {o \in pool \ used : RootOf[o] = root}

Init ==
  /\ registry = Restored /\ used = Restored /\ default = RootOf[Boot]
  /\ running = {Boot} /\ retired = {} /\ stopped = {} /\ working = {}
  /\ build = [o \in Objs |-> "no"] /\ held = [o \in Objs |-> <<>>] /\ flushing = {}
  /\ persisted = {RootOf[o] : o \in Restored}
  /\ conn = {} /\ bound = [c \in Clients |-> Nobody] /\ asks = [c \in Clients |-> 0]
  /\ \E pool \in Pools : at = [op \in Ops |-> IF op \in pool THEN "new" ELSE "absent"]
  /\ req = [op \in Ops |-> NoReq]
  /\ want = [c \in Clients |-> Nobody]

-----------------------------------------------------------------------------
(* The event loop                                                          *)

\* The continuation of `op` runs before the next event.
Due(op) ==
  \/ at[op] = "resources" /\ build[req[op].waits] # "rebuilding"
  \/ at[op] = "started" /\ req[op].outcome # "?"
Quiet == flushing = {} /\ \A op \in Ops : ~Due(op)

-----------------------------------------------------------------------------
(* Starting a workspace                                                    *)

\* `starting` is keyed by the workspace's id: a directory has one start at a time.
Starting(t) == {b \in Objs : build[b] # "no" /\ Id(b) = Id(t)}
WaitsOn(t) == IF t \in running THEN Nobody
              ELSE IF Starting(t) = {} THEN t ELSE CHOOSE b \in Starting(t) : TRUE
EnsuredBuild(t) ==
  IF t \in running \/ Starting(t) # {} THEN build
  ELSE [build EXCEPT ![t] = IF t \in retired THEN "rebuilding" ELSE "building"]
\* Request `op`, whose locals are `r`, awaits the start of `t` at `place`.
EnsureStarted(op, t, r, place) ==
  /\ build' = EnsuredBuild(t)
  /\ req' = [req EXCEPT ![op] = [r EXCEPT !.target = t, !.waits = WaitsOn(t),
                                          !.outcome = IF t \in running THEN "ok" ELSE "?"]]
  /\ at' = [at EXCEPT ![op] = IF t \in running THEN "started" ELSE place]

Told(b, outcome) ==
  [op \in Ops |-> IF at[op] = "started" /\ req[op].waits = b /\ req[op].outcome = "?"
                  THEN [req[op] EXCEPT !.outcome = outcome] ELSE req[op]]

ResourcesRebuilt(b) ==
  /\ Quiet /\ build[b] = "rebuilding"
  /\ build' = [build EXCEPT ![b] = "building"] /\ retired' = retired \ {b}
  /\ UNCHANGED <<projects, running, stopped, working, waiting, browsers, at, req, want>>
RebuildFails(b) ==
  /\ Quiet /\ build[b] = "rebuilding"
  /\ build' = [build EXCEPT ![b] = "failing"]
  /\ UNCHANGED <<projects, agents, waiting, browsers, at, req, want>>
\* The runtime is attached, and the workspace counts as started before its start is over.
RuntimeAttached(b) ==
  /\ Quiet /\ build[b] = "building"
  /\ build' = [build EXCEPT ![b] = "attached"] /\ running' = running \cup {b}
  /\ UNCHANGED <<projects, retired, stopped, working, waiting, browsers, at, req, want>>
\* The start is over: announceAgentStarted, then whoever waited for it.
BuildFinishes(b) ==
  /\ Quiet /\ build[b] = "attached" /\ b \in running
  /\ build' = [build EXCEPT ![b] = "no"]
  /\ flushing' = IF held[b] = <<>> THEN flushing ELSE flushing \cup {b}
  /\ req' = Told(b, "ok")
  /\ UNCHANGED <<projects, agents, held, browsers, at, want>>
\* Some step of the start fails: abandonStart, then whoever waited for it.
Abandoned(b) ==
  IF Boot \in running /\ Boot # b
  THEN [c \in Clients |-> IF bound[c] = b THEN Boot ELSE bound[c]] ELSE bound
Dropped(b) ==
  [op \in Ops |-> IF \E i \in DOMAIN held[b] : held[b][i] = op THEN "dropped" ELSE at[op]]
BuildFails_KeepsHeld(b) ==
  /\ Quiet /\ build[b] \in {"building", "attached", "failing"}
  /\ build' = [build EXCEPT ![b] = "no"] /\ bound' = Abandoned(b) /\ req' = Told(b, "failed")
  /\ UNCHANGED <<projects, agents, waiting, conn, asks, at, want>>
BuildFails(b) ==
  /\ Quiet /\ build[b] \in {"building", "attached", "failing"}
  /\ build' = [build EXCEPT ![b] = "no"]
  /\ held' = [held EXCEPT ![b] = <<>>] /\ at' = Dropped(b)
  /\ bound' = Abandoned(b)
  /\ req' = Told(b, "failed")
  /\ UNCHANGED <<projects, agents, flushing, conn, asks, want>>

-----------------------------------------------------------------------------
(* Binding a client                                                        *)

Bind(c, t) == IF c \in conn THEN [bound EXCEPT ![c] = t] ELSE bound
StillWanted_Always(op) == TRUE
StillWanted(op) == asks[By[op]] = req[op].ticket
Ask(c) == asks' = [asks EXCEPT ![c] = @ + 1]
\* The locals of a request that has just taken a ticket.
Ticketed(c) == [NoReq EXCEPT !.ticket = asks[c] + 1]
Wants(op, t) == IF StillWanted(op) THEN [want EXCEPT ![By[op]] = t] ELSE want

\* The connection is registered first, then its workspace started, then greeted: no ticket.
Connect(op) ==
  LET c == By[op] IN
  /\ c \notin conn /\ bound[c] = Nobody
  /\ \E t \in IF Get(Aim[op]) # {} THEN Get(Aim[op]) ELSE Default :
       /\ bound' = [bound EXCEPT ![c] = t] /\ want' = [want EXCEPT ![c] = t]
       /\ EnsureStarted(op, t, NoReq, "started")
  /\ conn' = conn \cup {c}
  /\ UNCHANGED <<projects, agents, asks>>

Refuse(op) ==
  /\ at' = [at EXCEPT ![op] = "done"]
  /\ UNCHANGED <<projects, agents, build, browsers, req, want>>

Switch(op) ==
  LET c == By[op] IN
  \/ /\ Get(Aim[op]) = {} /\ Refuse(op)
  \/ \E t \in Get(Aim[op]) :
       /\ Ask(c) /\ want' = [want EXCEPT ![c] = t]
       /\ EnsureStarted(op, t, Ticketed(c), "resources")
       /\ UNCHANGED <<projects, agents, conn, bound>>

\* A project's files can be served: a client still asking for it is bound early.
BoundEarly(op) ==
  /\ flushing = {} /\ at[op] = "resources" /\ Due(op)
  /\ at' = [at EXCEPT ![op] = "started"]
  /\ IF StillWanted(op) /\ req[op].target \notin running
     THEN req' = [req EXCEPT ![op].early = TRUE] /\ bound' = Bind(By[op], req[op].target)
     ELSE UNCHANGED <<req, bound>>
  /\ UNCHANGED <<projects, agents, build, waiting, conn, asks, want>>

\* A switch, an open or a connection, when the start it waited for is over.
BindsWhenStarted(op) == req[op].outcome = "ok" /\ ~req[op].early
                          /\ (Kind[op] = "connect" \/ StillWanted(op))
Started(op) ==
  /\ flushing = {} /\ at[op] = "started" /\ Due(op) /\ Kind[op] \in {"switch", "open", "connect"}
  /\ at' = [at EXCEPT ![op] = "done"]
  /\ bound' = IF BindsWhenStarted(op) THEN Bind(By[op], req[op].target) ELSE bound
  /\ UNCHANGED <<projects, agents, build, waiting, conn, asks, req, want>>

\* The client's connection closes: what it asked for goes on.
Leave(op) ==
  /\ conn' = conn \ {By[op]} /\ bound' = [bound EXCEPT ![By[op]] = Nobody]
  /\ at' = [at EXCEPT ![op] = "done"]
  /\ UNCHANGED <<projects, agents, build, asks, req, want>>

-----------------------------------------------------------------------------
(* Opening a project                                                       *)

Open(op) ==
  LET c == By[op] IN
  /\ Ask(c) /\ want' = [want EXCEPT ![c] = Nobody]
  /\ req' = [req EXCEPT ![op] = Ticketed(c)] /\ at' = [at EXCEPT ![op] = "looking"]
  /\ UNCHANGED <<projects, agents, build, conn, bound>>

\* The path is resolved: no directory; one already open; one to open, persisted first.
PathRefused(op) == Quiet /\ at[op] = "looking" /\ Refuse(op) /\ UNCHANGED waiting
AlreadyOpen(op) ==
  /\ Quiet /\ at[op] = "looking"
  /\ \E t \in Get(Aim[op]) : EnsureStarted(op, t, req[op], "resources") /\ want' = Wants(op, t)
  /\ UNCHANGED <<projects, agents, waiting, browsers>>
Persist(op) ==
  /\ Quiet /\ at[op] = "looking" /\ Get(Aim[op]) = {}
  /\ persisted' = persisted \cup {Aim[op]} /\ at' = [at EXCEPT ![op] = "creating"]
  /\ UNCHANGED <<registry, default, used, agents, build, waiting, browsers, req, want>>
\* registry.add
Added(o) == registry \cup {o}
CreatedFirst(op) ==
  /\ Quiet /\ at[op] = "creating" /\ Kind[op] = "open" /\ Get(Aim[op]) = {}
  /\ \E o \in Fresh(Mains, Aim[op]) :
       /\ registry' = Added(o) /\ used' = used \cup {o}
       /\ EnsureStarted(op, o, req[op], "resources") /\ want' = Wants(op, o)
  /\ UNCHANGED <<default, persisted, agents, waiting, browsers>>
CreatedSecond_Replaces(op) ==
  /\ Quiet /\ at[op] = "creating" /\ Kind[op] = "open" /\ Get(Aim[op]) # {}
  /\ \E o \in Fresh(Mains, Aim[op]) :
       /\ registry' = Added(o) /\ used' = used \cup {o}
       /\ EnsureStarted(op, o, req[op], "resources") /\ want' = Wants(op, o)
  /\ UNCHANGED <<default, persisted, agents, waiting, browsers>>
\* Another open of the directory won: this one's workspace is stopped.
CreatedSecond(op) ==
  /\ Quiet /\ at[op] = "creating" /\ Kind[op] = "open"
  /\ \E o \in Fresh(Mains, Aim[op]), t \in Get(Aim[op]) :
       /\ used' = used \cup {o} /\ stopped' = stopped \cup {o}
       /\ req' = [req EXCEPT ![op].target = t] /\ want' = Wants(op, t)
  /\ at' = [at EXCEPT ![op] = "duplicate"]
  /\ UNCHANGED <<registry, default, persisted, running, retired, working, build, waiting, browsers>>
DuplicateStopped(op) ==
  /\ Quiet /\ at[op] = "duplicate"
  /\ EnsureStarted(op, req[op].target, req[op], "resources")
  /\ UNCHANGED <<projects, agents, waiting, browsers, want>>
CreateFails_StaysPersisted(op) ==
  /\ Quiet /\ at[op] = "creating" /\ Kind[op] = "open" /\ at' = [at EXCEPT ![op] = "done"]
  /\ UNCHANGED <<projects, agents, build, waiting, browsers, req, want>>
CreateFails(op) ==
  /\ Quiet /\ at[op] = "creating" /\ Kind[op] = "open"
  /\ persisted' = persisted \ {Aim[op]} /\ at' = [at EXCEPT ![op] = "done"]
  /\ UNCHANGED <<registry, default, used, agents, build, waiting, browsers, req, want>>

-----------------------------------------------------------------------------
(* Closing a project                                                       *)

Promoted_Never(gone) == {default}
Promoted(gone) ==
  IF \E o \in gone \cap Mains : RootOf[o] = default
  THEN IF Projects \subseteq gone THEN {Nobody} ELSE {RootOf[o] : o \in Projects \ gone}
  ELSE {default}
\* Mutant: only the project's own session counts.
CloseRefused_OwnTurn(root) ==
  \/ Get(root) \cap Mains = {} \/ Cardinality(Projects) < 2
  \/ Get(root) \cap working # {}
CloseRefused(root) ==
  \/ Get(root) \cap Mains = {} \/ Cardinality(Projects) < 2
  \/ SessionsOf(root) \cap working # {}
\* stop: the runtimes go, and whatever turn they were running.
Stopped(gone) ==
  /\ stopped' = stopped \cup gone /\ running' = running \ gone /\ working' = working \ gone
  /\ UNCHANGED retired
\* The sessions leave the registry at once, and are stopped when the project that takes
\* their clients has started.
Close(op) ==
  LET root == Aim[op] gone == SessionsOf(root) IN
  \/ /\ CloseRefused(root) /\ Refuse(op)
  \/ /\ ~CloseRefused(root)
     /\ registry' = registry \ gone /\ persisted' = persisted \ {root}
     /\ default' \in Promoted(gone)
     /\ LET fallback == {o \in registry \ gone : Id(o) = default'} IN
          IF fallback = {}
          THEN /\ at' = [at EXCEPT ![op] = "done"] /\ Stopped(gone) /\ UNCHANGED <<build, req>>
          ELSE /\ \E t \in fallback : EnsureStarted(op, t, [NoReq EXCEPT !.closing = gone], "started")
               /\ UNCHANGED agents
     /\ UNCHANGED <<used, browsers, want>>
Moved_Nobody(op) == bound
Moved(op) == [c \in Clients |-> IF bound[c] \in req[op].closing THEN req[op].target ELSE bound[c]]
Closed(op) ==
  /\ flushing = {} /\ at[op] = "started" /\ Due(op) /\ Kind[op] = "close"
  /\ at' = [at EXCEPT ![op] = "done"]
  /\ IF req[op].outcome = "ok" THEN bound' = Moved(op) /\ Stopped(req[op].closing)
     ELSE UNCHANGED <<bound, agents>>
  /\ UNCHANGED <<projects, build, waiting, conn, asks, req, want>>

-----------------------------------------------------------------------------
(* Side sessions                                                           *)

\* The client is bound to it only if it is still where it was when it asked.
OpenSide(op) ==
  LET c == By[op] IN
  \/ /\ Get(Aim[op]) \cap Mains = {} /\ Refuse(op)
  \/ /\ Get(Aim[op]) \cap Mains # {}
     /\ Ask(c) /\ want' = [want EXCEPT ![c] = Nobody]
     /\ req' = [req EXCEPT ![op] = [Ticketed(c) EXCEPT !.asked = bound[c]]]
     /\ at' = [at EXCEPT ![op] = "creating"]
     /\ UNCHANGED <<projects, agents, build, conn, bound>>
SideCreated(op) ==
  /\ Quiet /\ at[op] = "creating" /\ Kind[op] = "openSide"
  /\ \E s \in Fresh(Sides, Aim[op]) :
       /\ registry' = Added(s) /\ used' = used \cup {s}
       /\ EnsureStarted(op, s, req[op], "started") /\ want' = Wants(op, s)
  /\ UNCHANGED <<default, persisted, agents, waiting, browsers>>
SideNotCreated(op) == Quiet /\ at[op] = "creating" /\ Kind[op] = "openSide" /\ Refuse(op) /\ UNCHANGED waiting
\* Its agent runs, and takes the project's model; or its start failed, and it goes.
SideStarted(op) ==
  /\ flushing = {} /\ at[op] = "started" /\ Due(op) /\ Kind[op] = "openSide"
  /\ IF req[op].outcome = "ok"
     THEN at' = [at EXCEPT ![op] = "adopting"] /\ UNCHANGED <<registry, agents>>
     ELSE /\ at' = [at EXCEPT ![op] = "done"] /\ registry' = registry \ {req[op].target}
          /\ Stopped({req[op].target})
  /\ UNCHANGED <<default, used, persisted, build, waiting, browsers, req, want>>
SideTaken(op) == StillWanted(op) /\ bound[By[op]] = req[op].asked
SideReady(op) ==
  /\ Quiet /\ at[op] = "adopting" /\ at' = [at EXCEPT ![op] = "done"]
  /\ bound' = IF SideTaken(op) THEN Bind(By[op], req[op].target) ELSE bound
  /\ UNCHANGED <<projects, agents, build, waiting, conn, asks, req, want>>

\* closeSideSession, up to its wait: who watches it, and where they go, are settled here.
Watching(s) == {c \in Clients : bound[c] = s}
HomeOf(s) ==
  IF Get(RootOf[s]) # {} THEN Get(RootOf[s]) ELSE Default
CloseSide(op) ==
  \/ /\ (Get(Aim[op]) = {} \/ Get(Aim[op]) \cap working # {}) /\ Refuse(op)
  \/ \E s \in Get(Aim[op]) \cap Sides :
       /\ s \notin working /\ registry' = registry \ {s}
       /\ IF Watching(s) = {}
          THEN at' = [at EXCEPT ![op] = "done"] /\ Stopped({s}) /\ UNCHANGED <<req, build>>
          ELSE /\ \E t \in HomeOf(s) :
                    EnsureStarted(op, t, [NoReq EXCEPT !.closing = {s}, !.watching = Watching(s)], "started")
               /\ UNCHANGED agents
       /\ UNCHANGED <<default, used, persisted, browsers, want>>
\* Every client that was watching it is bound to the project, wherever it is by now.
SideClosed(op) ==
  /\ flushing = {} /\ at[op] = "started" /\ Due(op) /\ Kind[op] = "closeSide"
  /\ at' = [at EXCEPT ![op] = "done"]
  /\ IF req[op].outcome = "ok"
     THEN /\ bound' = [c \in Clients |-> IF c \in req[op].watching \cap conn THEN req[op].target ELSE bound[c]]
          /\ Stopped(req[op].closing)
     ELSE UNCHANGED <<bound, agents>>
  /\ UNCHANGED <<projects, build, waiting, conn, asks, req, want>>

-----------------------------------------------------------------------------
(* Messages                                                                *)

\* Not in SERVED_WHILE_STARTING: these wait for the agent of the client's workspace.
NeedsAgent == {"close", "openSide", "closeSide", "say"}
Say(op) ==
  /\ working' = working \cup {bound[By[op]]} /\ at' = [at EXCEPT ![op] = "handled"]
  /\ UNCHANGED <<projects, running, retired, stopped, build, browsers, req, want>>
Handle(op) ==
  \/ Kind[op] = "switch" /\ Switch(op)
  \/ Kind[op] = "open" /\ Open(op)
  \/ Kind[op] = "leave" /\ Leave(op)
  \/ Kind[op] = "close" /\ Close(op)
  \/ Kind[op] = "openSide" /\ OpenSide(op)
  \/ Kind[op] = "closeSide" /\ CloseSide(op)
  \/ Kind[op] = "say" /\ Say(op)
Connects(op) == Quiet /\ at[op] = "new" /\ Kind[op] = "connect" /\ Connect(op) /\ UNCHANGED waiting
Waits(op) == Kind[op] \in NeedsAgent /\ bound[By[op]] \notin running
\* A request arrives and is handled, or held while the client's workspace starts.
Arrives(op) ==
  /\ Quiet /\ at[op] = "new" /\ Kind[op] # "connect" /\ By[op] \in conn
  /\ ~Waits(op) /\ Handle(op)
  /\ UNCHANGED waiting
Holds(op) ==
  /\ Quiet /\ at[op] = "new" /\ Kind[op] # "connect" /\ By[op] \in conn
  /\ Waits(op) /\ held' = [held EXCEPT ![bound[By[op]]] = Append(@, op)]
  /\ at' = [at EXCEPT ![op] = "held"]
  /\ UNCHANGED <<projects, agents, build, flushing, browsers, req, want>>
\* announceAgentStarted: what was held is handled in order, if its client is still here.
Flush(b) ==
  /\ b \in flushing
  /\ held' = [held EXCEPT ![b] = Tail(@)]
  /\ flushing' = IF Len(held[b]) = 1 THEN flushing \ {b} ELSE flushing
  /\ LET op == Head(held[b]) IN
       IF bound[By[op]] = b THEN Handle(op)
       ELSE /\ at' = [at EXCEPT ![op] = "dropped"]
            /\ UNCHANGED <<projects, agents, build, browsers, req, want>>
TurnEnds(o) ==
  /\ Quiet /\ o \in working /\ working' = working \ {o}
  /\ UNCHANGED <<projects, running, retired, stopped, build, waiting, browsers, at, req, want>>

-----------------------------------------------------------------------------
(* The sweep                                                               *)

\* The clock of a side session being opened has just been set.
BeingOpened(o) ==
  \E op \in Ops : Kind[op] = "openSide" /\ at[op] \in {"started", "adopting"} /\ req[op].target = o
Unused(o) == o \in registry \cap running /\ Id(o) # default /\ ~BeingOpened(o)
Idle(o) == Unused(o) /\ Watching(o) = {} /\ o \notin working
\* A project idle for its delay is retired; a side session is closed.
Retire(o) ==
  /\ Quiet /\ Idle(o) /\ o \in Mains
  /\ retired' = retired \cup {o} /\ running' = running \ {o}
  /\ UNCHANGED <<projects, stopped, working, build, waiting, browsers, at, req, want>>
SweepSide(o) ==
  /\ Quiet /\ Idle(o) /\ o \in Sides
  /\ registry' = registry \ {o} /\ Stopped({o})
  /\ UNCHANGED <<default, used, persisted, build, waiting, browsers, at, req, want>>

-----------------------------------------------------------------------------

Continues(op) == BoundEarly(op) \/ Started(op) \/ Closed(op) \/ SideStarted(op) \/ SideClosed(op)
Awaits(op) ==
  \/ PathRefused(op) \/ AlreadyOpen(op) \/ Persist(op)
  \/ CreatedFirst(op) \/ CreatedSecond(op) \/ CreateFails(op) \/ DuplicateStopped(op)
  \/ SideCreated(op) \/ SideNotCreated(op) \/ SideReady(op)
Builds(b) == ResourcesRebuilt(b) \/ RebuildFails(b) \/ RuntimeAttached(b) \/ BuildFinishes(b) \/ BuildFails(b)
\* Every request has been answered, no start is under way and no turn runs.
Terminating ==
  /\ Quiet /\ working = {} /\ \A o \in Objs : build[o] = "no"
  /\ \A op \in Ops : at[op] \in Ended \cup {"new", "held"}
  /\ UNCHANGED vars
Next ==
  \/ \E op \in Ops : Connects(op) \/ Arrives(op) \/ Holds(op) \/ Continues(op) \/ Awaits(op)
  \/ \E o \in Objs : Builds(o) \/ Flush(o) \/ TurnEnds(o) \/ Retire(o) \/ SweepSide(o)
  \/ Terminating

\* The event loop runs what is due; the filesystem, the model runtime and turns answer.
Fairness ==
  /\ WF_vars(\E op \in Ops : Continues(op) \/ Awaits(op))
  /\ WF_vars(\E o \in Objs : Builds(o)) /\ WF_vars(\E o \in Objs : Flush(o))
Spec == Init /\ [][Next]_vars
FairSpec == Spec /\ Fairness

-----------------------------------------------------------------------------
(* Properties                                                              *)

\* The shape of the state, part by part.
ProjectsOK ==
  /\ registry \subseteq used /\ used \subseteq Objs /\ default \in Roots
  /\ persisted \subseteq Roots \cup Sides
AgentsOK == running \subseteq Objs /\ retired \subseteq Objs /\ stopped \subseteq Objs /\ working \subseteq Objs
BuildsOK == build \in [Objs -> BuildStages]
WaitingOK == held \in [Objs -> Seq(Ops)] /\ flushing \subseteq Objs
BrowsersOK ==
  /\ conn \subseteq Clients /\ bound \in [Clients -> Objs \cup {Nobody}] /\ asks \in [Clients -> Nat]
  /\ want \in [Clients -> Objs \cup {Nobody}]
Locals == [ticket : Nat, target : Objs \cup {Nobody}, waits : Objs \cup {Nobody},
           outcome : {"?", "ok", "failed"}, early : BOOLEAN, asked : Objs \cup {Nobody},
           watching : SUBSET Clients, closing : SUBSET Objs]
RequestsOK == at \in [Ops -> Places] /\ req \in [Ops -> Locals]
TypeOK == ProjectsOK /\ AgentsOK /\ BuildsOK /\ WaitingOK /\ BrowsersOK /\ RequestsOK

\* A directory is one project, however many opens of it race: two would share a session
\* store while believing they did not.
OneMainPerDirectory == \A a, b \in Projects : RootOf[a] = RootOf[b] => a = b

\* There is always a project to show: the default names an open one, whatever was closed.
DefaultIsOpen == \E o \in Projects : RootOf[o] = default

\* Only a client's latest ask moves it, unless the project it is on closes or fails to start.
TakenAway(c) ==
  \/ bound[c] \notin registry'
  \/ build[bound[c]] # "no" /\ build'[bound[c]] = "no"
LatestAskWins ==
  [][\A c \in Clients :
       bound[c] # Nobody /\ bound'[c] \notin {bound[c], Nobody, want'[c]} => TakenAway(c)]_vars

\* A client in front of a project without an agent has one on the way.
NobodyWaitsForNothing ==
  \A c \in Clients : bound[c] # Nobody /\ bound[c] \notin running => build[bound[c]] # "no"

\* No operation ends a turn it could see: nothing is closed or swept while it works, and a turn
\* is only cut off in a session that was closed before the turn began and is stopped once another
\* project has started (handleCloseProject awaits that start without looking again, line 4153).
\* Excepted is a side session whose own start fails after its agent could be talked to (4222).
StartFailed(o) == \E op \in Ops : Kind[op] = "openSide" /\ req[op].target = o /\ req[op].outcome = "failed"
NoTurnKilled ==
  [][/\ \A o \in (registry \ registry') \cap working : StartFailed(o)
     /\ \A o \in working \ working' : o \in running' \/ o \notin registry \/ StartFailed(o)]_vars

\* Stopping a project leaves no client on it.
MovedBeforeTheStop ==
  [][\A o \in stopped' \ stopped, c \in Clients : bound'[c] # o]_vars

\* The projects the next start restores are the open ones, once no open or close is under way:
\* of a directory that two opens raced for, the one that failed may have the last word.
Settled == \A op \in Ops : Kind[op] \in {"open", "close"} => at[op] \in Ended \cup {"new", "held", "resources", "started"}
Sent(op) == at[op] \notin {"absent", "new"}
OpenedTwice(root) ==
  \E o, p \in Ops : o # p /\ \A op \in {o, p} : Kind[op] = "open" /\ Aim[op] = root /\ Sent(op)
PersistedIsOpen ==
  LET open == {RootOf[o] : o \in Projects} IN
  Settled => \A root \in (persisted \ open) \cup (open \ persisted) : OpenedTwice(root)

\* A message held for an agent is handled or dropped: no queue waits for ever, but that of a
\* session that was closed, or of one reopened while the closed one's start was under way, which
\* it takes for its own (NobodyWaitsForNothing).
NeverStarts(o) ==
  \/ o \in used \ registry
  \/ \E op \in Ops : req[op].target = o /\ req[op].waits \notin {Nobody, o}
HeldIsSettled == []<>(\A o \in Objs : held[o] = <<>> \/ NeverStarts(o))

=============================================================================
