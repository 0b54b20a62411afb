----------------------------- MODULE Resources -----------------------------
(***************************************************************************)
(* Agent resources: a Git repository of skills that sessions load, checked *)
(* and updated from Settings, and removed with the clone pi-outpost made   *)
(* (resourceRepositories.ts, and its handlers in server/src/index.ts).     *)
(* Updating and removing rebuild sessions of every project, so they compose*)
(* with Sessions: a handler here makes the same call of a runtime (then =  *)
(* "reload"), and a removal goes through the settings of its session.      *)
(*                                                                         *)
(* One repository, on one branch; a revision is a number, its descendants  *)
(* are greater.  Pushes, the person's own work in the clone and the end of *)
(* a token's time are operations of a pool too.                            *)
(***************************************************************************)
EXTENDS Sessions

CONSTANT NoRevision    \* nothing loaded from the repository

ASSUME ResourcesAssumption == NoRevision \notin Nat

VARIABLES
  started,      \* sessions with an agent
  starting,     \* sessions whose agent is being built
  loaded,       \* per session: the revision its agent loaded
  upstream,     \* the remote's revision
  fetched,      \* the revision of @{upstream} in the clone
  head,         \* the revision checked out
  clean,        \* the person has not worked in the clone
  present,      \* the clone exists
  registered,   \* the settings name the repository
  known,        \* projects whose inventory has the repository
  members,      \* resourceWorkspaceRoots: the projects it concerns
  lock,         \* repositoryLocks: the operations in the queue, its holder first
  issued,       \* the assessments with a token (history)
  tokens,       \* those whose token is neither used nor expired
  job           \* per operation: the local variables of its handler

agents == <<started, starting, loaded>>
clone == <<upstream, fetched, head, clean, present>>
knowledge == <<known, members>>
checks == <<issued, tokens>>
rest == <<agents, clone, registered, knowledge, lock, checks, job>>
allvars == <<vars, rest>>
\* What only the steps of Sessions change, but for `at' and `replacing'.
others == <<conversations, plans, settings, mem, faults, registered>>

\* `why' tells the checks of the clone apart: asked for, before a merge, after a reload.
Idle == [stage |-> "none", why |-> "check", token |-> None, seen |-> None, left |-> {},
         target |-> None, reserved |-> {}, blocked |-> FALSE, failed |-> FALSE,
         refreshed |-> FALSE, read |-> NoRevision]

\* What an assessment found, for the project it was asked from.
Assessment == [number : Nat, project : Range(Project), local : Nat, up : Nat]
Job == [stage : {"none", "queued", "looking", "fetching", "reading", "assessed", "merging", "next",
                 "reloading", "listing", "config", "others", "rebuilding", "deleting", "inventory",
                 "building", "attaching", "over", "updated"},
        why : {"check", "guard", "reload", "last"}, token : Assessment \cup {None},
        seen : Assessment \cup {None}, left : SUBSET Session, target : Session \cup {None},
        reserved : SUBSET Session, blocked : BOOLEAN, failed : BOOLEAN, refreshed : BOOLEAN,
        read : Nat \cup {NoRevision}]

ResourcesTypeOK ==
  /\ TypeOK
  /\ started \subseteq Session /\ starting \subseteq Session
  /\ loaded \in [Session -> Nat \cup {NoRevision}]
  /\ upstream \in Nat /\ fetched \in Nat /\ head \in Nat
  /\ clean \in BOOLEAN /\ present \in BOOLEAN /\ registered \in BOOLEAN
  /\ known \subseteq members /\ members \subseteq Range(Project)
  /\ lock \in Seq(Ops)
  /\ issued \subseteq Assessment /\ tokens \subseteq issued
  /\ job \in [Ops -> Job]

InitResources ==
  /\ Init
  /\ started = {s \in Session : ~\E o \in Ops : Arrives(o, "start") /\ On[o] = s}
  /\ starting = {} /\ upstream = 1 /\ fetched = 0 /\ head = 0 /\ clean = TRUE /\ present = TRUE
  /\ loaded = [s \in Session |-> IF s \in started THEN 0 ELSE NoRevision]
  /\ registered = TRUE /\ known = Range(Project) /\ members = Range(Project)
  /\ lock = <<>> /\ issued = {} /\ tokens = {}
  /\ job = [o \in Ops |-> Idle]

-----------------------------------------------------------------------------
(* Who loads the repository, and who is in the way                         *)

\* What an agent built now loads from it.
Reads == IF registered /\ present THEN head ELSE NoRevision

\* affectedResourceWorkspaces: every session of the projects it concerns.
Affected == {s \in Session : Project[s] \in members}

\* busyResourceConsumer: starting, replacing its session, or running a turn.
Busy(targets, reserved) ==
  (targets \ reserved) \cap (starting \cup replacing \cup (started \cap turn)) # {}

\* refreshResourceInventory: the repository is its project's if the settings name it or the
\* session loads it; then which projects it concerns.
Inventories(s) ==
  /\ known' = IF registered \/ loaded[s] # NoRevision THEN known \cup {Project[s]} ELSE known \ {Project[s]}
  /\ members' = IF known' = {} THEN {} ELSE IF registered THEN Range(Project) ELSE known'

In(o, stage) == at[o] = "job" /\ job[o].stage = stage
Does(o, change) == job' = [job EXCEPT ![o] = change]
Staged(o, stage) == Does(o, [job[o] EXCEPT !.stage = stage])
\* The handler is over: it lets go of what it had reserved.
Ends(o, stage) ==
  /\ Goes(o, "done") /\ Staged(o, stage)
  /\ replacing' = replacing \ job[o].reserved

\* withLock: one operation at a time works on the clone, in the order they came; its holder
\* lets it go.
Queue(o) == lock' = Append(lock, o)
Locked(o) == lock # <<>> /\ Head(lock) = o
Unlock == lock' = Tail(lock)

-----------------------------------------------------------------------------
(* Checking the clone: assess                                              *)

CheckArrives(o) ==
  /\ Arrives(o, "check") /\ Project[On[o]] \in known
  /\ Goes(o, "job") /\ Staged(o, "queued") /\ Queue(o)
  /\ UNCHANGED <<others, replacing, agents, clone, knowledge, checks>>

\* Is the clone where it was, and untouched?
Looks(o) ==
  /\ Locked(o) /\ (In(o, "looking") \/ (In(o, "queued") /\ job[o].why # "guard"))
  /\ Does(o, [job[o] EXCEPT !.seen = None,
                            !.stage = IF present /\ clean THEN "fetching" ELSE "assessed"])
  /\ UNCHANGED <<vars, agents, clone, registered, knowledge, lock, checks>>
\* The remote may not answer.
Fetches(o) ==
  /\ In(o, "fetching")
  /\ \/ fetched' = upstream /\ Staged(o, "reading")
     \/ fetched' = fetched /\ Staged(o, "assessed")
  /\ UNCHANGED <<vars, agents, upstream, head, clean, present, registered, knowledge, lock, checks>>
\* A clone behind its upstream gets a token. A commit of the person's shows here, files of
\* theirs do not any more.
ReadsRevisions(o) ==
  LET assessment == [number |-> Cardinality(issued) + 1, project |-> Project[On[o]],
                     local |-> head, up |-> fetched] IN
  /\ In(o, "reading")
  /\ \/ /\ head < fetched
        /\ issued' = issued \cup {assessment} /\ tokens' = tokens \cup {assessment}
        /\ Does(o, [job[o] EXCEPT !.stage = "assessed", !.seen = assessment])
     \/ /\ head = fetched \/ ~clean
        /\ Staged(o, "assessed") /\ UNCHANGED checks
  /\ UNCHANGED <<vars, agents, clone, registered, knowledge, lock>>
Checked(o) ==
  /\ In(o, "assessed") /\ job[o].why = "check"
  /\ Unlock /\ Ends(o, "over")
  /\ UNCHANGED <<others, agents, clone, knowledge, checks>>

-----------------------------------------------------------------------------
(* Updating it: handleUpdateAgentResourceRepository                        *)

\* A browser confirms an assessment it was shown. Every session concerned is reserved,
\* unless one is busy.
UpdateArrives(o) ==
  LET busy == Busy(Affected, {}) IN
  /\ Arrives(o, "update") /\ Project[On[o]] \in known
  /\ \E token \in issued :
       Does(o, [Idle EXCEPT !.stage = "queued", !.why = "guard", !.token = token, !.blocked = busy,
                            !.reserved = IF busy THEN {} ELSE Affected])
  /\ replacing' = IF busy THEN replacing ELSE replacing \cup Affected
  /\ Goes(o, "job") /\ Queue(o)
  /\ UNCHANGED <<others, agents, clone, knowledge, checks>>
NotUpdated(o) ==
  /\ Unlock /\ Ends(o, "over")
  /\ UNCHANGED <<others, agents, clone, knowledge, issued>>
\* The token serves once, in its project.
TakesToken(o) ==
  /\ In(o, "queued") /\ job[o].why = "guard" /\ Locked(o)
  /\ tokens' = tokens \ {job[o].token}
  /\ IF job[o].token \in tokens /\ job[o].token.project = Project[On[o]]
     THEN Staged(o, "looking") /\ UNCHANGED <<vars, agents, clone, registered, knowledge, lock, issued>>
     ELSE NotUpdated(o)
\* What was found is what was confirmed.
SameRevisions(o) ==
  /\ job[o].seen # None
  /\ <<job[o].seen.local, job[o].seen.up>> = <<job[o].token.local, job[o].token.up>>
\* Nobody not yet reserved is busy either: all are reserved now.
Guards(o) ==
  /\ In(o, "assessed") /\ job[o].why = "guard"
  /\ IF SameRevisions(o) /\ ~job[o].blocked /\ ~Busy(Affected, job[o].reserved)
     THEN /\ Does(o, [job[o] EXCEPT !.stage = "merging", !.left = Affected, !.reserved = @ \cup Affected])
          /\ replacing' = replacing \cup Affected
          /\ UNCHANGED <<others, at, agents, clone, knowledge, lock, issued>>
     ELSE NotUpdated(o)
  /\ UNCHANGED tokens
\* git merge --ff-only: what the person did meanwhile may be in its way.
Merges(o) ==
  /\ In(o, "merging")
  /\ \/ /\ present /\ head' = job[o].token.up
        /\ Unlock /\ Staged(o, "next")
        /\ UNCHANGED <<vars, agents, upstream, fetched, clean, present, registered, knowledge, issued>>
     \/ ~(present /\ clean) /\ NotUpdated(o)
  /\ UNCHANGED tokens

\* The sessions concerned are rebuilt one after the other; a cold one has nothing to rebuild.
Reload(o, stage) ==
  \E t \in job[o].left :
    /\ Does(o, [job[o] EXCEPT !.left = @ \ {t}, !.target = t,
                              !.stage = IF t \in started THEN stage ELSE @])
    /\ IF t \in started THEN Calls(o, t, Fresh, "reload", Retained) ELSE UNCHANGED <<at, mem>>
    /\ UNCHANGED <<conversations, replacing, plans, settings, faults, agents, clone, registered,
                   knowledge, lock, checks>>
Reloads(o) == In(o, "next") /\ Reload(o, "reloading")
\* Rebuilt, its inventory is read again, and the clone checked; a veto is a failed reload.
Back(o, stage) ==
  /\ job[o].stage = stage /\ mem[o].then = "reload" /\ at[o] \in {"installed", "vetoed", "threw"}
  /\ Goes(o, "job")
Reloaded(o) ==
  /\ Back(o, "reloading")
  /\ IF at[o] = "installed"
     THEN /\ Queue(o)
          /\ Does(o, [job[o] EXCEPT !.stage = "queued", !.why = "reload",
                                    !.refreshed = @ \/ job[o].target = On[o]])
     ELSE UNCHANGED lock /\ Does(o, [job[o] EXCEPT !.stage = "next", !.failed = TRUE])
  /\ UNCHANGED <<others, replacing, agents, clone, knowledge, checks>>
\* The plan of the rebuilt session comes in next.
Reassessed(o) ==
  /\ In(o, "assessed") /\ job[o].why = "reload"
  /\ Unlock /\ Inventories(job[o].target)
  /\ AwaitsSync(o) /\ Staged(o, "next")
  /\ UNCHANGED <<conversations, replacing, plan, shown, marker, settings, mem, faults, agents,
                 clone, registered, checks>>
ReloadSynced(o) ==
  /\ job[o].stage = "next" /\ mem[o].then = "reload" /\ Synced(o) /\ Goes(o, "job")
  /\ UNCHANGED <<conversations, replacing, plans, settings, mem, faults, rest>>
\* The requester's own inventory, if nothing refreshed it; then the answer.
RefreshesLast(o) ==
  /\ In(o, "next") /\ job[o].left = {} /\ ~job[o].refreshed
  /\ Does(o, [job[o] EXCEPT !.stage = "queued", !.why = "last"]) /\ Queue(o)
  /\ UNCHANGED <<vars, agents, clone, registered, knowledge, checks>>
Answers(o) ==
  /\ \/ In(o, "next") /\ job[o].left = {} /\ job[o].refreshed /\ UNCHANGED <<lock, knowledge>>
     \/ In(o, "assessed") /\ job[o].why = "last" /\ Unlock /\ Inventories(On[o])
  /\ Ends(o, "updated")
  /\ UNCHANGED <<others, agents, clone, checks>>

-----------------------------------------------------------------------------
(* Removing it: handleRemoveAgentResourceRepository                        *)

\* The other sessions concerned are reserved.
RemoveArrives(o) ==
  LET more == Affected \ {On[o]} IN
  /\ Arrives(o, "remove") /\ Project[On[o]] \in known /\ ~Busy(more \cup {On[o]}, {})
  /\ replacing' = replacing \cup more
  /\ Goes(o, "job") /\ Does(o, [Idle EXCEPT !.stage = "listing", !.reserved = more, !.left = more])
  /\ UNCHANGED <<others, agents, clone, knowledge, lock, checks>>
\* The settings without it are applied in the session asked from: handleUpdateConfig.
Unregisters(o) ==
  /\ In(o, "listing")
  /\ IF MayApply(On[o]) /\ Siblings(On[o]) \cap starting = {}
     THEN Goes(o, "checking") /\ Staged(o, "config") /\ UNCHANGED replacing
     ELSE Ends(o, "over")
  /\ UNCHANGED <<others, agents, clone, knowledge, lock, checks>>
\* Refused, or failed: the repository is left alone.
Unregistered(o) ==
  /\ job[o].stage = "config" /\ at[o] \in Ended
  /\ IF at[o] = "done" THEN Goes(o, "job") /\ Staged(o, "others") /\ UNCHANGED replacing
     ELSE Ends(o, "over")
  /\ UNCHANGED <<others, agents, clone, knowledge, lock, checks>>
\* The others are rebuilt; one that is not still loads from the clone.
RebuildsOther(o) == In(o, "others") /\ Reload(o, "rebuilding")
X_OtherRebuilt(o) ==
  /\ Back(o, "rebuilding") /\ Staged(o, "others")
  /\ IF at[o] = "installed" THEN Inventories(job[o].target) ELSE UNCHANGED knowledge
  /\ UNCHANGED <<others, replacing, agents, clone, lock, checks>>
OtherRebuilt(o) ==
  /\ Back(o, "rebuilding")
  /\ Does(o, [job[o] EXCEPT !.stage = "others", !.failed = @ \/ at[o] # "installed"])
  /\ IF at[o] = "installed" THEN Inventories(job[o].target) ELSE UNCHANGED knowledge
  /\ UNCHANGED <<others, replacing, agents, clone, lock, checks>>
AllRebuilt(o) ==
  /\ In(o, "others") /\ job[o].left = {}
  /\ IF job[o].failed THEN Staged(o, "inventory") /\ UNCHANGED lock
     ELSE Staged(o, "deleting") /\ Queue(o)
  /\ UNCHANGED <<vars, agents, clone, registered, knowledge, checks>>
\* deleteManagedClone: the files go, or some stay.
Deletes(o) ==
  /\ In(o, "deleting") /\ Locked(o)
  /\ present' \in {FALSE, present}
  /\ Unlock /\ Staged(o, "inventory")
  /\ UNCHANGED <<vars, agents, upstream, fetched, head, clean, registered, knowledge, checks>>
Removed(o) ==
  /\ In(o, "inventory") /\ Kind[o] = "remove"
  /\ Inventories(On[o]) /\ Ends(o, "over")
  /\ UNCHANGED <<others, agents, clone, lock, checks>>

-----------------------------------------------------------------------------
(* A cold session starts: ensureStarted                                    *)

X_Starts(o) ==
  /\ Arrives(o, "start")
  /\ starting' = starting \cup {On[o]}
  /\ Goes(o, "job") /\ Staged(o, "building")
  /\ UNCHANGED <<others, replacing, started, loaded, clone, knowledge, lock, checks>>

\* Not while it is reserved.
Starts(o) ==
  /\ Arrives(o, "start") /\ On[o] \notin replacing
  /\ starting' = starting \cup {On[o]}
  /\ Goes(o, "job") /\ Staged(o, "building")
  /\ UNCHANGED <<others, replacing, started, loaded, clone, knowledge, lock, checks>>
\* What its agent is to load is read first.
ReadsFiles(o) ==
  /\ In(o, "building") /\ Does(o, [job[o] EXCEPT !.stage = "attaching", !.read = Reads])
  /\ UNCHANGED <<vars, agents, clone, registered, knowledge, lock, checks>>
\* The agent is there, on a conversation of its own.
Attached(o) ==
  LET s == On[o] IN
  /\ In(o, "attaching") /\ Staged(o, "inventory")
  /\ started' = started \cup {s}
  /\ loaded' = [loaded EXCEPT ![s] = job[o].read]
  /\ \E c \in NextFile :
       /\ live' = [live EXCEPT ![s] = c] /\ used' = Taken(c)
       /\ shown' = [shown EXCEPT ![s] = [file |-> c, plan |-> plan[c]]]
  /\ UNCHANGED <<turn, saved, lineage, replacing, plan, marker, sync, settings, at, mem, faults,
                 starting, clone, registered, knowledge, lock, checks>>
\* Its inventory is read, unless that takes long; or the start has failed (abandonStart).
StartEnds(o) ==
  /\ Kind[o] = "start" /\ (In(o, "inventory") \/ In(o, "building"))
  /\ IF In(o, "inventory") THEN Inventories(On[o]) \/ UNCHANGED knowledge
     ELSE UNCHANGED knowledge
  /\ starting' = starting \ {On[o]} /\ Ends(o, "over")
  /\ UNCHANGED <<others, started, loaded, clone, lock, checks>>

-----------------------------------------------------------------------------
(* Around them                                                             *)

\* Somebody pushes, or works in the clone; a token's ten minutes end.
Pushes(o) ==
  /\ Arrives(o, "push") /\ upstream' = upstream + 1 /\ Goes(o, "done")
  /\ UNCHANGED <<others, replacing, agents, fetched, head, clean, present, knowledge, lock, checks, job>>
WorksInClone(o) ==
  /\ Arrives(o, "work") /\ clean' = FALSE /\ Goes(o, "done")
  /\ UNCHANGED <<others, replacing, agents, upstream, fetched, head, present, knowledge, lock, checks, job>>
Expires(o) ==
  /\ Arrives(o, "expire") /\ \E token \in tokens : tokens' = tokens \ {token}
  /\ Goes(o, "done")
  /\ UNCHANGED <<others, replacing, agents, clone, knowledge, lock, issued, job>>
\* Any replacement, or extensions that have bound, have an inventory read in the background.
Refreshes(s) ==
  /\ s \in started /\ Inventories(s) /\ knowledge' # knowledge
  /\ UNCHANGED <<vars, agents, clone, registered, lock, checks, job>>

\* The operations that are not over.
Open == {o \in Ops : at[o] \notin Ended \/ job[o].stage = "config"}

\* A step of Sessions, as these see it: an installed session loads what there is, and a
\* removal's settings name the repository no more, or again.
Removing(from, to) == \E o \in Ops : Kind[o] = "remove" /\ at[o] = from /\ at'[o] = to
Installing(s) == \E o \in Ops : mem[o].on = s /\ at[o] = "asking" /\ at'[o] = "binding"
SessionStep ==
  /\ \/ \E o \in Open : \/ Requested(o) /\ On[o] \in started \ starting
                       \/ Continues(o) \/ Fault(o) \/ ResourcesFail(o) \/ RestoreFails(o)
     \/ \E s \in Session : Syncs(s) \/ TurnEnds(s)
  /\ loaded' = [s \in Session |-> IF Installing(s) THEN Reads ELSE loaded[s]]
  /\ registered' = (\/ registered /\ ~Removing("checking", "resources")
                    \/ \E from \in {"vetoed", "threw"} : Removing(from, "restoring"))
  /\ UNCHANGED <<started, starting, clone, knowledge, lock, checks, job>>

\* Requests that find the repository unknown, somebody busy, or their session reserved.
TurnedAwayHere(o) ==
  /\ \/ Arrives(o, "start") /\ On[o] \in replacing
     \/ /\ at[o] = "new" /\ On[o] \in started \ starting
        /\ \/ Kind[o] \in {"check", "update", "remove"} /\ Project[On[o]] \notin known
           \/ Kind[o] = "remove" /\ Busy(Affected \cup {On[o]}, {})
  /\ Goes(o, "refused")
  /\ UNCHANGED <<conversations, replacing, plans, settings, mem, faults, rest>>

ResourceRequested(o) ==
  \/ On[o] \in started \ starting /\ (CheckArrives(o) \/ UpdateArrives(o) \/ RemoveArrives(o))
  \/ Starts(o) \/ TurnedAwayHere(o)
ResourceContinues(o) ==
  \/ Looks(o) \/ Fetches(o) \/ ReadsRevisions(o) \/ Checked(o)
  \/ TakesToken(o) \/ Guards(o) \/ Merges(o) \/ Reloads(o) \/ Reloaded(o) \/ Reassessed(o)
  \/ ReloadSynced(o) \/ RefreshesLast(o) \/ Answers(o)
  \/ Unregisters(o) \/ Unregistered(o) \/ RebuildsOther(o) \/ OtherRebuilt(o) \/ AllRebuilt(o)
  \/ Deletes(o) \/ Removed(o) \/ ReadsFiles(o) \/ Attached(o) \/ StartEnds(o)

\* Nothing is left to do. What never comes is a request on a session that never started, an
\* update of what was never assessed, or a call of the work plan tool.
NeverComes(o) ==
  /\ at[o] = "new"
  /\ \/ On[o] \notin started
     \/ Kind[o] = "update" /\ issued = {}
     \/ Kind[o] = "expire" /\ tokens = {}
ResourcesTerminating ==
  /\ turn = {} /\ \A s \in Session : sync[s] = <<>>
  /\ \A o \in Ops : NeverComes(o) \/ (Over(o) /\ job[o].stage # "config")
  /\ UNCHANGED allvars

ResourcesNext ==
  \/ SessionStep \/ ResourcesTerminating
  \/ \E o \in Open : ResourceRequested(o) \/ ResourceContinues(o)
  \/ \E o \in Open : Pushes(o) \/ WorksInClone(o) \/ Expires(o)
  \/ \E s \in Session : Refreshes(s)
ResourcesSpec == InitResources /\ [][ResourcesNext]_allvars

-----------------------------------------------------------------------------
(* Properties                                                              *)

\* No session is left reserved once the operations are over, however they ended; that each
\* comes to an end is the absence of deadlocks, as every step of one takes it further.
FlagIsReleased == (\A o \in Open : at[o] = "new") => replacing = {}

\* An update that is answered as done, and not as a failed reload, leaves no running session
\* on an earlier revision.
UpdatedMeansLoaded ==
  [][\A o \in Ops : job[o].stage # "updated" /\ job'[o].stage = "updated" /\ ~job[o].failed =>
       \A s \in started : loaded[s] \in {NoRevision, head}]_allvars

\* No running session has loaded anything from a clone that was deleted.
NothingLoadsWhatIsDeleted == present \/ \A s \in started : loaded[s] = NoRevision

\* index.ts:6389, of what makes a change to a repository wait: "Workspaces already reserved by
\* the caller are its own and do not count."
RemovalWaitsForOthers ==
  [][\A o \in Ops : In(o, "listing") /\ job'[o].stage = "over" =>
       \/ On[o] \in replacing
       \/ Siblings(On[o]) \cap (starting \cup turn \cup (replacing \ job[o].reserved)) # {}]_allvars

=============================================================================
