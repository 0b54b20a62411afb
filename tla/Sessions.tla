------------------------------ MODULE Sessions ------------------------------
(***************************************************************************)
(* The sessions of a project (server/src/index.ts): which conversation     *)
(* each shows, the operations that replace it, the work plan kept beside   *)
(* every conversation, and the settings each session's tools are built     *)
(* from.  The runtime is the embedded one (server/src/embeddedRuntime.ts). *)
(*                                                                         *)
(* The handlers are asynchronous functions on one event loop.  A call of   *)
(* the runtime that replaces a session has two waiting points: the         *)
(* extensions, which may veto it ("asking"), and their start in the new    *)
(* session, installed by then ("binding").  Its outcome goes back to the   *)
(* handler that made it, named by `then'.                                  *)
(***************************************************************************)
EXTENDS Naturals, Sequences, FiniteSets, SequencesExt

CONSTANTS Session,       \* projects' main sessions and their side sessions
          Project,       \* the project of each
          Conversation,  \* session files
          First,         \* the conversation each session starts on
          Ops,           \* requests of browsers, and calls of the work plan tool
          Kind, On, Aim, \* what each is, its session, the conversation it names
          Pools,         \* the sets of operations a behaviour may have
          None,          \* no conversation, no session, no operation
          Fresh,         \* a conversation that does not exist yet
          Retained,      \* the tools of the factory the runtime has
          MaxFaults      \* bound: vetoes and failures of replacements, but for a roll back's

ASSUME SessionsAssumption ==
  /\ First \in [Session -> Conversation]
  /\ \A r, s \in Session : r # s => First[r] # First[s]
  /\ DOMAIN Project = Session
  /\ On \in [Ops -> Session]
  /\ Pools \subseteq SUBSET Ops
  /\ MaxFaults \in Nat
  /\ Conversation \subseteq Nat
  /\ None \notin Session /\ None \notin Ops /\ None \notin Conversation
  /\ Fresh \notin Conversation /\ Retained \notin Ops \cup {None}

VARIABLES
  live,       \* agent.snapshot().sessionFile
  turn,       \* sessions whose agent runs a turn
  replacing,  \* sessions with replacingSession set
  saved,      \* conversations with a file
  used,       \* conversations that have been given a name
  lineage,    \* per conversation: itself and those it was forked from (history)
  plan,       \* the work plan on disk, as the set of changes made to it
  shown,      \* workPlan and workPlanSessionFile
  marker,     \* workPlanInheritanceSource
  sync,       \* workPlanSync, as the chain of its pending steps
  config,     \* the settings in memory, named by the operation that made them
  disk,       \* the settings in the configuration file
  boundary,   \* the settings each session's resources were rebuilt with
  built,      \* the settings each session's agent got its tools from
  at,         \* per operation: where it is
  mem,        \* per operation: its local variables
  faults      \* the vetoes and failures so far

conversations == <<live, turn, saved, used, lineage>>
plans == <<plan, shown, marker, sync>>
settings == <<config, disk, boundary, built>>
vars == <<conversations, replacing, plans, settings, at, mem, faults>>

Settings == Ops \cup {None}
Ended == {"done", "refused"}
Places == Ended \cup
  {"new", "looking", "preparing", "unlinking", "unplanning", "reading", "writing", "navigating",
   "checking", "resources", "restoring", "next", "sibling", "stat",
   "asking", "binding", "installed", "vetoed", "threw", "inventory", "syncing",
   "job"}  \* in a handler of Resources
Callers == {"replace", "recover", "restart", "apply", "retry", "sibling", "back", "reload"}
Blank == [on |-> None, to |-> Fresh, then |-> "replace", tools |-> Retained, left |-> {},
          back |-> None, before |-> None, edits |-> {}, cut |-> FALSE]

Sync == [file : Conversation, kind : {"session", "tool"}, from : Conversation \cup {None},
         stage : {"queued", "copying", "persisting", "loading", "landing"},
         edits : SUBSET Ops, waits : SUBSET Ops]

TypeOK ==
  /\ live \in [Session -> Conversation] /\ turn \subseteq Session /\ replacing \subseteq Session
  /\ saved \subseteq used /\ used \subseteq Conversation
  /\ lineage \in [Conversation -> SUBSET Conversation]
  /\ plan \in [Conversation -> SUBSET Ops]
  /\ shown \in [Session -> [file : Conversation, plan : SUBSET Ops]]
  /\ marker \in [Session -> Conversation \cup {None}]
  /\ sync \in [Session -> Seq(Sync)]
  /\ config \in Settings /\ disk \in Settings
  /\ boundary \in [Session -> Settings] /\ built \in [Session -> Settings]
  /\ at \in [Ops -> Places]
  /\ mem \in [Ops -> [on : Session \cup {None}, to : Conversation \cup {Fresh}, then : Callers,
                      tools : Settings \cup {Retained}, left : SUBSET Session,
                      back : Conversation \cup {None}, before : Settings, edits : SUBSET Ops,
                      cut : BOOLEAN]]
  /\ faults \subseteq Ops \X Callers \X {"vetoed", "threw", "bound", "unrestored"}
  /\ \A s \in Session : live[s] \in used

Init ==
  /\ live = First /\ turn = {} /\ replacing = {}
  /\ used = Range(First) /\ saved = Range(First)
  /\ lineage = [c \in Conversation |-> {c}]
  /\ plan = [c \in Conversation |-> {}]
  /\ shown = [s \in Session |-> [file |-> First[s], plan |-> {}]]
  /\ marker = [s \in Session |-> None]
  /\ sync = [s \in Session |-> <<>>]
  /\ config = None /\ disk = None
  /\ boundary = [s \in Session |-> None] /\ built = [s \in Session |-> None]
  /\ \E pool \in Pools : at = [o \in Ops |-> IF o \in pool THEN "new" ELSE "refused"]
  /\ mem = [o \in Ops |-> Blank]
  /\ faults = {}

Goes(o, place) == at' = [at EXCEPT ![o] = place]
Siblings(s) == {r \in Session \ {s} : Project[r] = Project[s]}

-----------------------------------------------------------------------------
(* A replacement, as the runtime makes it                                  *)

\* The operation asks the runtime of `s' to replace its session by one on `to', for the
\* tools named, or for those its factory has.
Calls(o, s, to, then, tools) ==
  /\ Goes(o, "asking")
  /\ mem' = [mem EXCEPT ![o].on = s, ![o].to = to, ![o].then = then, ![o].tools = tools]

\* What a fork shows is a copy of its source, saved at once; a new session has no file.
Forked(o) == mem[o].then = "replace" /\ Kind[o] = "fork"

\* The names of the files there have been: none is given twice.
Taken(c) == used \cup {c}
NextFile == {c \in Conversation \ used : \A d \in Conversation \ used : c <= d}

\* The new session is in place: what the old one ran is over, and its tools are cut off.
Install(o) ==
  LET s == mem[o].on IN
  /\ at[o] = "asking"
  /\ \E c \in IF mem[o].to = Fresh THEN NextFile ELSE {mem[o].to} :
       /\ live' = [live EXCEPT ![s] = c]
       /\ used' = Taken(c)
       /\ saved' = IF Forked(o) THEN saved \cup {c} ELSE saved
       /\ lineage' = IF Forked(o) THEN [lineage EXCEPT ![c] = @ \cup lineage[live[s]]] ELSE lineage
  /\ turn' = turn \ {s}
  /\ built' = IF mem[o].tools = Retained THEN built ELSE [built EXCEPT ![s] = mem[o].tools]
  /\ Goes(o, "binding")
  /\ mem' = [p \in Ops |-> IF at[p] \in {"reading", "writing"} /\ On[p] = s
                           THEN [mem[p] EXCEPT !.cut = TRUE] ELSE mem[p]]
  /\ UNCHANGED <<replacing, plans, config, disk, boundary, faults>>

\* Extensions have bound: session_replaced is emitted, and the plan of the new session queued.
Bind(o) ==
  LET s == mem[o].on IN
  /\ at[o] = "binding"
  /\ sync' = [sync EXCEPT ![s] = Append(@, [file |-> live[s], kind |-> "session", from |-> None,
                                            stage |-> "queued", edits |-> {}, waits |-> {}])]
  /\ Goes(o, "installed")
  /\ UNCHANGED <<conversations, replacing, plan, shown, marker, settings, mem, faults>>

\* An extension vetoes the replacement, or it fails, before or after the session is in place.
Fault(o) ==
  /\ Cardinality(faults) < MaxFaults
  /\ \E what \in IF at[o] = "asking" THEN {"vetoed", "threw"}
                 ELSE IF at[o] = "binding" THEN {"bound"} ELSE {} :
       /\ faults' = faults \cup {<<o, mem[o].then, what>>}
       /\ Goes(o, IF what = "vetoed" THEN "vetoed" ELSE "threw")
  /\ UNCHANGED <<conversations, replacing, plans, settings, mem>>

X_Releases(o, place) ==
  /\ replacing' = replacing \ {On[o]} /\ UNCHANGED marker
  /\ Goes(o, place)

\* The operation lets go of its session.
Releases(o, place) ==
  /\ replacing' = replacing \ {On[o]}
  /\ marker' = IF Kind[o] = "fork" THEN [marker EXCEPT ![On[o]] = None] ELSE marker
  /\ Goes(o, place)

\* The operation waits for what workPlanSync is now.
AwaitsSync(o) ==
  LET s == mem[o].on IN
  /\ IF sync[s] = <<>> THEN UNCHANGED sync
     ELSE sync' = [sync EXCEPT ![s][Len(sync[s])].waits = @ \cup {o}]
  /\ Goes(o, "syncing")
Synced(o) ==
  at[o] = "syncing" /\ \A i \in DOMAIN sync[mem[o].on] : o \notin sync[mem[o].on][i].waits

-----------------------------------------------------------------------------
(* New, fork, switch, delete, restart                                      *)

X_ReplaceSession(o, to) ==
  LET s == On[o] IN
  /\ replacing' = replacing \cup {s}
  /\ marker' = IF Kind[o] = "fork" THEN [marker EXCEPT ![s] = live[s]] ELSE marker
  /\ Calls(o, s, to, "replace", Retained)
  /\ UNCHANGED <<conversations, plan, shown, sync, settings, faults>>

\* replaceSession: one replacement at a time.  A fork leaves word of its source.
ReplaceSession(o, to) ==
  LET s == On[o] IN
  /\ s \notin replacing
  /\ replacing' = replacing \cup {s}
  /\ marker' = IF Kind[o] = "fork" THEN [marker EXCEPT ![s] = live[s]] ELSE marker
  /\ Calls(o, s, to, "replace", Retained)
  /\ UNCHANGED <<conversations, plan, shown, sync, settings, faults>>

Refuses(o) ==
  /\ Goes(o, "refused")
  /\ UNCHANGED <<conversations, replacing, plans, settings, mem, faults>>

X_Elsewhere(s, c) == FALSE

\* liveElsewhere: another session of the project is on the conversation.
Elsewhere(s, c) == \E r \in Siblings(s) : live[r] = c

Arrives(o, kind) == at[o] = "new" /\ Kind[o] = kind

NewSession(o) == Arrives(o, "new") /\ ReplaceSession(o, Fresh)
\* A fork starts before a message, so its source has one.
Fork(o) == Arrives(o, "fork") /\ live[On[o]] \in saved /\ ReplaceSession(o, Fresh)

\* Is the path one of the project's sessions? The listing of their files is awaited.
SwitchArrives(o) ==
  /\ Arrives(o, "switch") /\ Goes(o, "looking")
  /\ UNCHANGED <<conversations, replacing, plans, settings, mem, faults>>
SwitchFound(o) ==
  /\ at[o] = "looking" /\ Kind[o] = "switch"
  /\ Aim[o] \in saved /\ ~Elsewhere(On[o], Aim[o])
  /\ ReplaceSession(o, Aim[o])
DeleteArrives(o) ==
  /\ Arrives(o, "delete")
  /\ live[On[o]] # Aim[o] /\ ~Elsewhere(On[o], Aim[o])
  /\ Goes(o, "looking")
  /\ UNCHANGED <<conversations, replacing, plans, settings, mem, faults>>
DeleteFound(o) ==
  /\ at[o] = "looking" /\ Kind[o] = "delete" /\ Aim[o] \in saved
  /\ Goes(o, "unlinking")
  /\ UNCHANGED <<conversations, replacing, plans, settings, mem, faults>>
Unlinked(o) ==
  /\ at[o] = "unlinking"
  /\ saved' = saved \ {Aim[o]}
  /\ Goes(o, "unplanning")
  /\ UNCHANGED <<live, turn, used, lineage, replacing, plans, settings, mem, faults>>
PlanDeleted(o) ==
  /\ at[o] = "unplanning"
  /\ plan' = [plan EXCEPT ![Aim[o]] = {}]
  /\ Goes(o, "done")
  /\ UNCHANGED <<conversations, replacing, shown, marker, sync, settings, mem, faults>>

\* The replacement went through, was vetoed, or failed: then a new session is asked for.
Replaced(o) ==
  /\ mem[o].then = "replace"
  /\ \/ /\ at[o] = "installed" /\ AwaitsSync(o)
        /\ UNCHANGED <<replacing, marker, mem>>
     \/ /\ at[o] = "vetoed" /\ Releases(o, "done")
        /\ UNCHANGED <<sync, mem>>
     \/ /\ at[o] = "threw"
        /\ marker' = IF Kind[o] = "fork" THEN [marker EXCEPT ![On[o]] = None] ELSE marker
        /\ Calls(o, On[o], Fresh, "recover", Retained)
        /\ UNCHANGED <<sync, replacing>>
  /\ UNCHANGED <<conversations, plan, shown, settings, faults>>
Recovered(o) ==
  /\ mem[o].then = "recover" /\ at[o] \in {"installed", "vetoed", "threw"}
  /\ Releases(o, "done")
  /\ UNCHANGED <<conversations, plan, shown, sync, settings, mem, faults>>

\* handleRestartSession: the tools are built again from the resources there are.
Restart(o) ==
  LET s == On[o] IN
  /\ Arrives(o, "restart")
  /\ s \notin replacing /\ s \notin turn
  /\ replacing' = replacing \cup {s}
  /\ Calls(o, s, Fresh, "restart", boundary[s])
  /\ UNCHANGED <<conversations, plans, settings, faults>>
Restarted(o) ==
  /\ mem[o].then = "restart"
  /\ \/ /\ at[o] = "installed" /\ Goes(o, "inventory")
        /\ UNCHANGED <<replacing, marker>>
     \/ at[o] \in {"vetoed", "threw"} /\ Releases(o, "refused")
  /\ UNCHANGED <<conversations, plan, shown, sync, settings, mem, faults>>
InventoryRead(o) ==
  /\ at[o] = "inventory" /\ AwaitsSync(o)
  /\ UNCHANGED <<conversations, replacing, plan, shown, marker, settings, mem, faults>>
X_Settles(o) ==
  /\ Synced(o) /\ mem[o].then \notin {"back", "reload"}
  /\ Goes(o, "done")
  /\ UNCHANGED <<conversations, replacing, plans, settings, mem, faults>>

\* What workPlanSync was has run: the operation is over.
Settles(o) ==
  /\ Synced(o) /\ mem[o].then \notin {"back", "reload"}
  /\ Releases(o, "done")
  /\ UNCHANGED <<conversations, plan, shown, sync, settings, mem, faults>>

-----------------------------------------------------------------------------
(* Moving in the tree, prompts, and the turn                               *)

\* navigateTree and editPrompt: no turn, no replacement, then the flag.
Navigate(o) ==
  LET s == On[o] IN
  /\ at[o] = "new" /\ Kind[o] \in {"navigate", "edit"}
  /\ live[s] \in saved /\ s \notin turn /\ s \notin replacing
  /\ replacing' = replacing \cup {s}
  /\ Goes(o, "navigating")
  /\ UNCHANGED <<conversations, plans, settings, mem, faults>>
\* The leaf has moved, or an extension keeps it; an edit then sends its prompt.
Navigated(o) ==
  /\ at[o] = "navigating"
  /\ \E place \in IF Kind[o] = "edit" THEN {"preparing", "refused"} ELSE {"done"} : Releases(o, place)
  /\ UNCHANGED <<conversations, plan, shown, sync, settings, mem, faults>>

\* A prompt passes the flag, then its queue, its model and its mentions are awaited.
Prompt(o) ==
  /\ Arrives(o, "prompt") /\ On[o] \notin replacing
  /\ Goes(o, "preparing")
  /\ UNCHANGED <<conversations, replacing, plans, settings, mem, faults>>
\* It is sent to the session there is by then, once the extensions that were binding when the
\* runtime was asked have bound: maybe those of an earlier session, whose replacement went on
\* without them after a while (embeddedRuntime.ts:454, 596), and then while new ones bind.
PromptSent(o) ==
  /\ at[o] = "preparing"
  /\ turn' = turn \cup {On[o]}
  /\ saved' = saved \cup {live[On[o]]}
  /\ Goes(o, "done")
  /\ UNCHANGED <<live, used, lineage, replacing, plans, settings, mem, faults>>
Changing(o) == at[o] \in {"reading", "writing"} /\ ~mem[o].cut
TurnEnds(s) ==
  /\ s \in turn /\ \A o \in Ops : On[o] = s => ~Changing(o)
  /\ turn' = turn \ {s}
  /\ UNCHANGED <<live, saved, used, lineage, replacing, plans, settings, at, mem, faults>>

-----------------------------------------------------------------------------
(* The work plan                                                           *)

\* The turn calls the tool, one call at a time: the plan is read, changed and written.
PlanTool(o) ==
  /\ Arrives(o, "plan") /\ On[o] \in turn
  /\ \A p \in Ops : On[p] = On[o] => ~Changing(p)
  /\ mem' = [mem EXCEPT ![o].to = live[On[o]]]
  /\ Goes(o, "reading")
  /\ UNCHANGED <<conversations, replacing, plans, settings, faults>>
PlanRead(o) ==
  /\ at[o] = "reading"
  /\ mem' = [mem EXCEPT ![o].edits = plan[mem[o].to] \cup {o}]
  /\ Goes(o, "writing")
  /\ UNCHANGED <<conversations, replacing, plans, settings, faults>>
X_PlanWritten(o) ==
  /\ at[o] = "writing"
  /\ plan' = [plan EXCEPT ![mem[o].to] = mem[o].edits]
  /\ Goes(o, "done")
  /\ UNCHANGED <<conversations, replacing, shown, marker, sync, settings, mem, faults>>

\* The result of a call that was not cut off brings the plan in again.
PlanWritten(o) ==
  /\ at[o] = "writing"
  /\ plan' = [plan EXCEPT ![mem[o].to] = mem[o].edits]
  /\ sync' = IF mem[o].cut THEN sync
             ELSE [sync EXCEPT ![On[o]] =
                     Append(@, [file |-> mem[o].to, kind |-> "tool", from |-> None,
                                stage |-> "queued", edits |-> {}, waits |-> {}])]
  /\ Goes(o, "done")
  /\ UNCHANGED <<conversations, replacing, shown, marker, settings, mem, faults>>

\* workPlanSync: each step starts when the one before it has ended.
Step(s, stage) == sync[s] # <<>> /\ sync[s][1].stage = stage
Source(s) ==
  IF sync[s][1].kind = "session" /\ marker[s] # sync[s][1].file THEN marker[s] ELSE None
SyncBegins(s) ==
  /\ Step(s, "queued")
  /\ sync' = [sync EXCEPT ![s][1].from = Source(s),
                          ![s][1].stage = IF Source(s) = None THEN "loading" ELSE "copying"]
  /\ UNCHANGED <<conversations, replacing, plan, shown, marker, settings, at, mem, faults>>
CopyRead(s) ==
  /\ Step(s, "copying")
  /\ sync' = [sync EXCEPT ![s][1].edits = plan[sync[s][1].from], ![s][1].stage = "persisting"]
  /\ UNCHANGED <<conversations, replacing, plan, shown, marker, settings, at, mem, faults>>
CopyWritten(s) ==
  /\ Step(s, "persisting")
  /\ plan' = [plan EXCEPT ![sync[s][1].file] = sync[s][1].edits]
  /\ sync' = [sync EXCEPT ![s][1].stage = "loading"]
  /\ UNCHANGED <<conversations, replacing, shown, marker, settings, at, mem, faults>>
PlanLoaded(s) ==
  /\ Step(s, "loading")
  /\ sync' = [sync EXCEPT ![s][1].edits = plan[sync[s][1].file], ![s][1].stage = "landing"]
  /\ UNCHANGED <<conversations, replacing, plan, shown, marker, settings, at, mem, faults>>
\* The plan is shown, if its conversation still is the one the session is on.
SyncLands(s) ==
  LET step == sync[s][1] IN
  /\ Step(s, "landing")
  /\ shown' = IF live[s] = step.file THEN [shown EXCEPT ![s] = [file |-> step.file, plan |-> step.edits]]
              ELSE shown
  /\ sync' = [sync EXCEPT ![s] = Tail(@)]
  /\ UNCHANGED <<conversations, replacing, plan, marker, settings, at, mem, faults>>

-----------------------------------------------------------------------------
(* Settings: handleUpdateConfig and rebuildSibling                         *)

\* The session is not being replaced, and no sibling is at work.
MayApply(s) == s \notin replacing /\ Siblings(s) \cap (replacing \cup turn) = {}
\* The folders are checked.
Apply(o) ==
  /\ Arrives(o, "apply") /\ MayApply(On[o])
  /\ Goes(o, "checking")
  /\ UNCHANGED <<conversations, replacing, plans, settings, mem, faults>>
\* The settings are saved, then adopted, and the resources of the session are being rebuilt.
Adopted(o) ==
  /\ at[o] = "checking"
  /\ mem' = [mem EXCEPT ![o].before = config, ![o].left = Siblings(On[o])]
  /\ config' = o /\ disk' = o
  /\ replacing' = replacing \cup {On[o]}
  /\ Goes(o, "resources")
  /\ UNCHANGED <<conversations, plans, boundary, built, faults>>
ResourcesRebuilt(o) ==
  /\ at[o] = "resources"
  /\ boundary' = [boundary EXCEPT ![On[o]] = o]
  /\ Calls(o, On[o], Fresh, "apply", o)
  /\ UNCHANGED <<conversations, replacing, plans, config, disk, built, faults>>
\* Whatever fails after the settings were saved asks for the session once more.
Retries(o) == Calls(o, On[o], Fresh, "retry", boundary[On[o]])
ResourcesFail(o) ==
  /\ at[o] \in {"resources", "sibling"}
  /\ Cardinality(faults) < MaxFaults
  /\ faults' = faults \cup {<<o, mem[o].then, "threw">>}
  /\ Retries(o)
  /\ UNCHANGED <<conversations, replacing, plans, settings>>
X_RollsBack(o) == Goes(o, "restoring") /\ UNCHANGED config

\* The session has its tools; a veto, or a sandbox that cannot start, rolls all of it back.
RollsBack(o) == Goes(o, "restoring") /\ config' = mem[o].before
Applied(o) ==
  /\ mem[o].then = "apply"
  /\ \/ at[o] = "installed" /\ Goes(o, "next") /\ UNCHANGED <<config, mem>>
     \/ at[o] = "vetoed" /\ RollsBack(o) /\ UNCHANGED mem
     \/ /\ at[o] = "threw" /\ <<o, "apply", "threw">> \in faults
        /\ RollsBack(o) /\ UNCHANGED mem
     \/ at[o] = "threw" /\ Retries(o) /\ UNCHANGED config
  /\ UNCHANGED <<conversations, replacing, plans, disk, boundary, built, faults>>
Restored(o) ==
  /\ at[o] = "restoring"
  /\ boundary' = [boundary EXCEPT ![On[o]] = mem[o].before]
  /\ disk' = mem[o].before
  /\ Releases(o, "refused")
  /\ UNCHANGED <<conversations, plan, shown, sync, config, built, mem, faults>>
\* The roll back fails: the resources are not rebuilt, or what was saved stays saved.  What it
\* rolls back has failed already: its own failure may be one more.
RestoreFails(o) ==
  /\ at[o] = "restoring"
  /\ Cardinality(faults) <= MaxFaults
  /\ faults' = faults \cup {<<o, mem[o].then, "unrestored">>}
  /\ \E kept \in {boundary[On[o]], mem[o].before} :
       /\ boundary' = [boundary EXCEPT ![On[o]] = kept]
       /\ Calls(o, On[o], Fresh, "retry", kept)
  /\ UNCHANGED <<conversations, replacing, plans, config, disk, built>>
Retried(o) ==
  /\ mem[o].then = "retry" /\ at[o] \in {"installed", "vetoed", "threw"}
  /\ Releases(o, "refused")
  /\ UNCHANGED <<conversations, plan, shown, sync, settings, mem, faults>>

\* The siblings, one after the other: their resources first.
NextSibling(o) ==
  /\ at[o] = "next"
  /\ IF mem[o].left = {} THEN Goes(o, "inventory") /\ UNCHANGED mem
     ELSE \E r \in mem[o].left :
            /\ mem' = [mem EXCEPT ![o].on = r, ![o].tools = config]
            /\ Goes(o, "sibling")
  /\ UNCHANGED <<conversations, replacing, plans, settings, faults>>
\* Its tools next, in a new session; what it showed is remembered.
SiblingResources(o) ==
  LET r == mem[o].on IN
  /\ at[o] = "sibling"
  /\ boundary' = [boundary EXCEPT ![r] = mem[o].tools]
  /\ replacing' = replacing \cup {r}
  /\ Goes(o, "asking")
  /\ mem' = [mem EXCEPT ![o].to = Fresh, ![o].then = "sibling", ![o].back = live[r]]
  /\ UNCHANGED <<conversations, plans, config, disk, built, faults>>
SiblingDone(o) ==
  /\ replacing' = replacing \ {mem[o].on}
  /\ mem' = [mem EXCEPT ![o].on = On[o], ![o].left = @ \ {mem[o].on}, ![o].then = "apply"]
  /\ Goes(o, "next")
\* Back on its conversation, if that one has a file.
SiblingRebuilt(o) ==
  /\ mem[o].then = "sibling"
  /\ \/ /\ at[o] = "installed" /\ mem[o].back \in saved
        /\ Calls(o, mem[o].on, mem[o].back, "back", Retained)
        /\ UNCHANGED replacing
     \/ /\ at[o] = "installed" => mem[o].back \notin saved
        /\ at[o] \in {"installed", "vetoed", "threw"} /\ SiblingDone(o)
  /\ UNCHANGED <<conversations, plans, settings, faults>>
SwitchedBack(o) ==
  /\ mem[o].then = "back"
  /\ \/ /\ at[o] \in {"installed", "vetoed"} /\ AwaitsSync(o)
        /\ UNCHANGED <<replacing, mem>>
     \/ (at[o] = "threw" \/ Synced(o)) /\ SiblingDone(o) /\ UNCHANGED sync
  /\ UNCHANGED <<conversations, plan, shown, marker, settings, faults>>

-----------------------------------------------------------------------------

\* A request its guards turn away, when it comes or after what was looked up.
Turned(o) ==
  LET s == On[o] IN
  CASE at[o] = "checking" -> TRUE
    [] at[o] = "looking" /\ Kind[o] = "delete" -> Aim[o] \notin saved
    [] at[o] = "looking" /\ Kind[o] = "switch" ->
         Aim[o] \notin saved \/ Elsewhere(s, Aim[o]) \/ s \in replacing
    [] Arrives(o, "delete") -> live[s] = Aim[o] \/ Elsewhere(s, Aim[o])
    [] Arrives(o, "fork") -> live[s] \notin saved \/ s \in replacing
    [] Arrives(o, "restart") -> s \in turn \cup replacing
    [] Arrives(o, "navigate") \/ Arrives(o, "edit") -> live[s] \notin saved \/ s \in turn \cup replacing
    [] Arrives(o, "apply") -> ~MayApply(s)
    [] Arrives(o, "new") \/ Arrives(o, "prompt") -> s \in replacing
    [] OTHER -> FALSE
TurnedAway(o) ==
  /\ Turned(o) /\ Goes(o, "refused")
  /\ UNCHANGED <<conversations, replacing, plans, settings, mem, faults>>

Requested(o) ==
  \/ NewSession(o) \/ Fork(o) \/ SwitchArrives(o) \/ DeleteArrives(o) \/ Restart(o)
  \/ Navigate(o) \/ Prompt(o) \/ Apply(o) \/ PlanTool(o)
Continues(o) ==
  \/ SwitchFound(o) \/ DeleteFound(o) \/ Unlinked(o) \/ PlanDeleted(o) \/ TurnedAway(o)
  \/ Install(o) \/ Bind(o) \/ Replaced(o) \/ Recovered(o)
  \/ Restarted(o) \/ InventoryRead(o) \/ Settles(o)
  \/ Navigated(o) \/ PromptSent(o) \/ PlanRead(o) \/ PlanWritten(o)
  \/ Adopted(o) \/ ResourcesRebuilt(o) \/ Applied(o) \/ Restored(o) \/ Retried(o)
  \/ NextSibling(o) \/ SiblingResources(o) \/ SiblingRebuilt(o) \/ SwitchedBack(o)
Syncs(s) == SyncBegins(s) \/ CopyRead(s) \/ CopyWritten(s) \/ PlanLoaded(s) \/ SyncLands(s)

\* Every operation has ended, or is a call of the tool no turn will make.
Over(o) == at[o] \in Ended \/ Arrives(o, "plan")
Terminating ==
  /\ turn = {} /\ \A o \in Ops : Over(o) /\ \A s \in Session : sync[s] = <<>>
  /\ UNCHANGED vars

Next ==
  \/ \E o \in Ops : Requested(o) \/ Continues(o) \/ Fault(o) \/ ResourcesFail(o) \/ RestoreFails(o)
  \/ \E s \in Session : Syncs(s) \/ TurnEnds(s)
  \/ Terminating

Spec == Init /\ [][Next]_vars

-----------------------------------------------------------------------------
(* Properties                                                              *)

\* Operations that have hold of a session: from its flag to its release.
Calling == {"asking", "binding", "installed", "vetoed", "threw", "syncing"}
Holds(o, s) ==
  \/ s = On[o] /\ at[o] \in Calling \cup {"navigating", "resources", "restoring", "next", "sibling", "inventory"}
  \/ s = mem[o].on /\ at[o] \in Calling

\* A session is never replaced, or moved in its tree, by two operations at once.
OneReplacementAtATime ==
  \A s \in Session : Cardinality({o \in Ops : Holds(o, s)}) <= 1

\* A switch that found its conversation free, and went to it.
Went(o, c) == Kind[o] = "switch" /\ Aim[o] = c /\ at[o] \in Calling \cup {"done"}
\* A change of settings in the project of the session has rebuilt a sibling, to be put back on
\* what it showed.
Resettled(o, s) == mem[o].back # None /\ Project[On[o]] = Project[s]

\* Two sessions of a project come to write to one conversation only by a switch that found it
\* free (index.ts:5019) and a second such switch, or the return of a session that had left it to
\* be rebuilt (3657): by no fork, deletion, recovery or restart.
Shared(s, c) ==
  \E o \in Ops : Went(o, c) /\ \E p \in Ops \ {o} : Went(p, c) \/ Resettled(p, s)
OneWriterPerConversation ==
  \A r \in Session : \A s \in Siblings(r) : live[r] = live[s] => Shared(s, live[s])

\* What the browsers of a session are shown as its plan.
Visible(s) == IF shown[s].file = live[s] THEN shown[s].plan ELSE {}
\* No session shows, and no file keeps, a change made in a conversation that is neither
\* its own nor one it was forked from, when at most one replacement fails.  When two do, the steps
\* their recoveries left in the chain may take the marker of a fork that follows, and put an
\* older conversation's plan over the fork's (index.ts:2299-2310, 3524-3526).
MadeOn(o) == mem[o].to
NobodyElsesPlan ==
  /\ \A s \in Session : \A o \in Visible(s) : MadeOn(o) \in lineage[live[s]]
  /\ \A c \in Conversation : \A o \in plan[c] : MadeOn(o) \in lineage[c]

\* At rest a session shows the plan of its conversation, but for changes a replacement cut
\* off, unless it was left on a session that failed to start and that nothing announced.
AtRest(s) ==
  /\ sync[s] = <<>> /\ s \notin turn
  /\ \A o \in Ops : ~Holds(o, s) /\ (On[o] = s => at[o] \notin {"reading", "writing", "unplanning"})
Unannounced(f) ==
  /\ f[3] = "bound"
  /\ f[2] \in {"replace", "apply"} => \E g \in faults : g[1] = f[1] /\ g[2] \in {"recover", "retry"}
PlanFollows ==
  \A s \in Session : AtRest(s) =>
    \/ /\ shown[s].file = live[s]
       /\ \A o \in plan[live[s]] \ shown[s].plan : mem[o].cut \/ On[o] # s
    \/ \E f \in faults : Unannounced(f)

\* When nothing is under way, the boundary shown is the one the agent's tools obey, unless a
\* rebuild was vetoed or failed, and the settings in memory are those on disk, unless a roll back
\* failed half way (index.ts:3927-3931).
Unbuilt == {"sibling", "retry"}
BoundaryIsObeyed ==
  (\A o \in Ops : Kind[o] \in {"apply", "remove"} =>
     at[o] \in Ended \cup {"new", "job"} \/ mem[o].then = "reload") =>
    /\ config = disk \/ \E f \in faults : f[3] = "unrestored"
    /\ \A s \in Session : boundary[s] # built[s] => \E f \in faults : f[2] \in Unbuilt

\* A turn is never thrown away because settings were applied in another session: index.ts:3783
\* "rebuilding one mid-turn would throw its output away: wait for them, and say which."
TurnsSurviveSettings ==
  [][\A s \in turn \ turn' : live'[s] # live[s] =>
       \A o \in Ops : at[o] # at'[o] => On[o] = s]_vars

=============================================================================
