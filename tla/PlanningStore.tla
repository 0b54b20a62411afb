---------------------------- MODULE PlanningStore ----------------------------
(***************************************************************************)
(* The plannings of a folder (mcp/src/store.ts): list, create, get and     *)
(* revise over the file system, in one server process that may die at any  *)
(* await, while the person edits, renames, adds and removes the files.     *)
(*                                                                         *)
(* One action is the code between two awaits; reads that nothing can       *)
(* change (a revision's own file, a directory only the holder of the lock  *)
(* makes) are one action with the await before.  A file is written apart   *)
(* and renamed in place: the action is the renaming.  A document is the    *)
(* set of changes it holds, each named by the operation that made it.      *)
(***************************************************************************)
EXTENDS Naturals, Sequences, FiniteSets

CONSTANTS
  Titles,       \* titles of plannings: a slug and a file stem each
  MaxCopies,    \* bound: ids and file names of one title
  MaxRevision,  \* bound: revisions of one planning
  MaxCrashes,   \* bound: deaths of the server process
  MaxFaults,    \* bound: writes that fail
  Ops,          \* calls of the server's tools, and moves of the person
  Pools,        \* bound: the calls and moves that meet; a behaviour has those of one pool
  Kind,         \* what each is
  Aim,          \* the title, the planning or the file it is about
  To,           \* where a renamed file goes
  None          \* no file, no meta

Ids   == Titles \X (1..MaxCopies)
Names == Titles \X (1..MaxCopies)
Calls  == {op \in Ops : Kind[op] \in {"list", "create", "get", "revise"}}
Person == Ops \ Calls

ASSUME PlanningStoreAssumption ==
  /\ MaxCopies \in Nat \ {0} /\ MaxRevision \in Nat \ {0} /\ MaxCrashes \in Nat /\ MaxFaults \in Nat
  /\ Pools \subseteq SUBSET Ops
  /\ \A op \in Ops :
       /\ Kind[op] \in {"list", "create", "get", "revise", "edit", "spoil", "drop", "rename", "delete"}
       /\ Kind[op] = "create" => Aim[op] \in Titles
       /\ Kind[op] \in {"get", "revise", "edit", "spoil", "drop", "rename", "delete"} => Aim[op] \in Names
       /\ Kind[op] = "rename" => To[op] \in Names
  /\ None \notin Ops

VARIABLES
  folder,      \* the files the person sees
  dirs,        \* the directories under .history
  history,     \* their N.json, written once
  meta,        \* their meta.json
  copies,      \* their edited-before-N-stamp.txt
  folderLock, planningLock,   \* locks: who holds each, then who waits
  at, loc,     \* per operation, the await it is at and its locals
  rec,         \* the locals of the reconcile under way: the folder's lock admits one
  answer,      \* what each call was answered
  crashes, faults,
  since        \* history: "listing", "listed": by a listing begun after the folder last moved

disk  == <<folder, dirs, history, meta, copies>>
locks == <<folderLock, planningLock>>
vars  == <<disk, locks, at, loc, rec, answer, crashes, faults, since>>

Changes  == {op \in Ops : Kind[op] \in {"create", "revise", "edit", "spoil", "drop"}}
Contents == [title : Titles, has : SUBSET Changes, valid : BOOLEAN]
Docs     == {d \in Contents : d.valid}
Metas    == [revision : 1..MaxRevision, file : Names]
ASSUME NoneAssumption == None \notin Ids /\ None \notin Metas /\ None \notin Contents
Reconciling == {"metas", "files", "entries", "refile", "adopting", "adopted"}
Writing  == {"keeping", "recording", "placing", "claiming", "refile", "adopting", "adopted"}
Places   == {"new", "folder", "planning", "metas", "files", "entries", "meta", "file", "done"} \cup Writing

NoLocals == [id |-> None, base |-> 0, meta |-> None, read |-> None, doc |-> None, again |-> FALSE]
NoRec    == [todo |-> {}, metas |-> {}, orphans |-> {}, entries |-> {}, id |-> None, meta |-> None, doc |-> None]
NoAnswer == [outcome |-> "none", id |-> None, base |-> 0, revision |-> 0, doc |-> None, edited |-> FALSE]

Init ==
  /\ folder = [n \in Names |-> None]
  /\ dirs = {}
  /\ history = [i \in Ids |-> [r \in 1..MaxRevision |-> None]]
  /\ meta = [i \in Ids |-> None]
  /\ copies = [i \in Ids |-> {}]
  /\ folderLock = <<>> /\ planningLock = [i \in Ids |-> <<>>]
  /\ \E pool \in Pools : at = [op \in Ops |-> IF op \in pool THEN "new" ELSE "done"]
  /\ loc = [op \in Ops |-> NoLocals]
  /\ rec = NoRec
  /\ answer = [op \in Ops |-> NoAnswer]
  /\ crashes = 0 /\ faults = 0 /\ since = "moved"

Goto(op, place) == at' = [at EXCEPT ![op] = place]
Set(op, locals) == loc' = [loc EXCEPT ![op] = locals]
\* locked: each work after the one before it, however that one ended.
Joins(lock, op)   == Append(lock, op)
Without(lock, op) == IF lock # <<>> /\ Head(lock) = op THEN Tail(lock) ELSE lock
\* Mutant: a call that ends leaves only the folder's lock.
Leaves_Folder(op) == folderLock' = Without(folderLock, op) /\ UNCHANGED planningLock
Leaves(op) ==
  /\ folderLock' = Without(folderLock, op)
  /\ planningLock' = [i \in Ids |-> Without(planningLock[i], op)]
\* The call is over: its locks are released, its locals forgotten.
Ends(op, what) ==
  /\ Goto(op, "done") /\ Set(op, NoLocals) /\ Leaves(op)
  /\ answer' = [answer EXCEPT ![op] = what]
Refused == [NoAnswer EXCEPT !.outcome = "refused"]
Told(l) == [NoAnswer EXCEPT !.outcome = "ok", !.id = l.id, !.base = l.base, !.revision = l.meta.revision, !.doc = l.doc]

\* The first number of a title that is not taken.
FirstFree(title, taken) == CHOOSE x \in {title} \X (1..MaxCopies) :
  x \notin taken /\ \A n \in 1..(x[2] - 1) : <<title, n>> \in taken
IsFree(title, taken) == ~({title} \X (1..MaxCopies) \subseteq taken)
NewId(title)   == FirstFree(title, dirs)
Taken == {n \in Names : folder[n] # None}

-----------------------------------------------------------------------------
(* A call arrives                                                          *)

\* An update names the revision it was prepared against: one its caller has read.
Called(op) ==
  /\ at[op] = "new" /\ op \in Calls
  /\ \/ /\ Kind[op] \in {"create", "list"}
        /\ folderLock' = Joins(folderLock, op) /\ Goto(op, "folder")
        /\ UNCHANGED <<loc, planningLock>>
     \/ /\ Kind[op] = "get" /\ Goto(op, "meta") /\ Set(op, [NoLocals EXCEPT !.id = Aim[op]])
        /\ UNCHANGED locks
     \/ /\ Kind[op] = "revise" /\ meta[Aim[op]] # None
        /\ \E b \in 1..meta[Aim[op]].revision : Set(op, [NoLocals EXCEPT !.id = Aim[op], !.base = b])
        /\ planningLock' = [planningLock EXCEPT ![Aim[op]] = Joins(@, op)] /\ Goto(op, "planning")
        /\ UNCHANGED folderLock
  /\ UNCHANGED <<disk, rec, answer, crashes, faults, since>>
Locked(op) ==
  /\ at[op] = "planning" /\ Head(planningLock[Aim[op]]) = op
  /\ Goto(op, "meta") /\ UNCHANGED <<disk, locks, loc, rec, answer, crashes, faults, since>>

-----------------------------------------------------------------------------
(* Reconciling the history with the folder                                 *)

Reconciles(op) == at[op] = "folder" /\ Head(folderLock) = op /\ Kind[op] # "create"
\* allMetas: the directory is listed, then each meta read.
ReconcileStarts(op) ==
  /\ Reconciles(op)
  /\ rec' = [NoRec EXCEPT !.todo = dirs]
  /\ Goto(op, IF dirs = {} THEN "files" ELSE "metas")
  /\ since' = IF Kind[op] = "list" /\ since = "moved" THEN "listing" ELSE since
  /\ UNCHANGED <<disk, locks, loc, answer, crashes, faults>>
ReconcileReadsMeta(op) ==
  /\ at[op] = "metas"
  /\ \E i \in rec.todo :
       LET metas == rec.metas \cup (IF meta[i] = None THEN {} ELSE {[id |-> i, meta |-> meta[i]]})
           over == rec.todo = {i}
       IN  /\ rec' = [rec EXCEPT !.metas = metas,
                                 !.todo = IF over THEN {m.id : m \in metas} ELSE @ \ {i}]
           /\ Goto(op, IF over THEN "files" ELSE "metas")
  /\ UNCHANGED <<disk, locks, loc, answer, crashes, faults, since>>
\* A planning whose file is gone is an orphan, with its current revision.
ReconcileLooks(op) ==
  /\ at[op] = "files"
  /\ \E m \in {x \in rec.metas : x.id \in rec.todo} :
       rec' = [rec EXCEPT !.todo = @ \ {m.id},
                          !.orphans = IF folder[m.meta.file] = None /\ history[m.id][m.meta.revision] # None
                                      THEN @ \cup {m} ELSE @]
  /\ UNCHANGED <<disk, locks, at, loc, answer, crashes, faults, since>>
\* Reconcile's locals are now `r`: on to the next entry, or to what reconcile was for.
NextEntry(op, r) ==
  IF r.entries # {} THEN rec' = r /\ Goto(op, "entries") /\ UNCHANGED <<locks, loc, answer, since>>
  ELSE /\ rec' = NoRec
       /\ \/ Kind[op] = "list" /\ Ends(op, [NoAnswer EXCEPT !.outcome = "ok"]) /\ since' = IF since = "listing" THEN "listed" ELSE since
          \/ /\ Kind[op] # "list" /\ Goto(op, "meta") /\ folderLock' = Without(folderLock, op)
             /\ UNCHANGED <<planningLock, loc, answer, since>>
Unclaimed == {n \in Taken : \A m \in rec.metas : m.meta.file # n}
ReconcileLists(op) ==
  /\ at[op] = "files" /\ rec.todo = {}
  /\ NextEntry(op, [rec EXCEPT !.entries = Unclaimed])
  /\ UNCHANGED <<disk, crashes, faults>>
\* An unclaimed file is a planning renamed, or a new one, or nothing to us.
Renamed(text) == {m \in rec.orphans : history[m.id][m.meta.revision] = text}
ReconcileReads(op) ==
  /\ at[op] = "entries"
  /\ \E n \in rec.entries :
       LET text == folder[n]
           left == rec.entries \ {n}
           judged == text # None /\ text.valid
       IN  \/ ~judged /\ NextEntry(op, [rec EXCEPT !.entries = left])
           \/ /\ judged
              /\ \E m \in Renamed(text) :
                   rec' = [rec EXCEPT !.entries = left, !.orphans = @ \ {m},
                                      !.id = m.id, !.meta = [m.meta EXCEPT !.file = n]]
              /\ Goto(op, "refile") /\ UNCHANGED <<locks, loc, answer, since>>
           \/ /\ judged /\ Renamed(text) = {} /\ IsFree(text.title, dirs)
              /\ rec' = [rec EXCEPT !.entries = left, !.id = NewId(text.title), !.doc = text,
                                    !.meta = [revision |-> 1, file |-> n]]
              /\ Goto(op, "adopting") /\ UNCHANGED <<locks, loc, answer, since>>
  /\ UNCHANGED <<disk, crashes, faults>>
\* meta.json is written as it was read, but for the file's name.
Refiled(op) ==
  /\ at[op] = "refile"
  /\ meta' = [meta EXCEPT ![rec.id] = rec.meta] /\ NextEntry(op, rec)
  /\ UNCHANGED <<folder, dirs, history, copies, crashes, faults>>
Adopts(op) ==
  /\ at[op] = "adopting"
  /\ dirs' = dirs \cup {rec.id} /\ history' = [history EXCEPT ![rec.id][1] = rec.doc]
  /\ Goto(op, "adopted")
  /\ UNCHANGED <<folder, meta, copies, locks, loc, rec, answer, crashes, faults, since>>
Adopted(op) ==
  /\ at[op] = "adopted"
  /\ meta' = [meta EXCEPT ![rec.id] = rec.meta] /\ NextEntry(op, rec)
  /\ UNCHANGED <<folder, dirs, history, copies, crashes, faults>>

-----------------------------------------------------------------------------
(* Reading a planning                                                      *)

\* locate: the meta, then its file; once more after a reconcile if the file is not there.
ReadsMeta(op) ==
  /\ at[op] = "meta"
  /\ IF meta[loc[op].id] = None THEN Ends(op, Refused)
     ELSE /\ Set(op, [loc[op] EXCEPT !.meta = meta[loc[op].id]]) /\ Goto(op, "file")
          /\ UNCHANGED <<locks, answer>>
  /\ UNCHANGED <<disk, rec, crashes, faults, since>>
FileOf(op) == folder[loc[op].meta.file]
FileMissing(op) ==
  /\ at[op] = "file" /\ FileOf(op) = None
  /\ IF loc[op].again THEN Ends(op, Refused)
     ELSE /\ Set(op, [loc[op] EXCEPT !.again = TRUE]) /\ Goto(op, "folder")
          /\ folderLock' = Joins(folderLock, op) /\ UNCHANGED <<planningLock, answer>>
  /\ UNCHANGED <<disk, rec, crashes, faults, since>>
\* The current revision is the file, or the history's if the file is not a planning any more.
Recorded(op) == history[loc[op].id][loc[op].meta.revision]
Gets(op) ==
  /\ at[op] = "file" /\ Kind[op] = "get" /\ FileOf(op) # None
  /\ IF Recorded(op) = None THEN Ends(op, Refused)
     ELSE Ends(op, [NoAnswer EXCEPT !.outcome = "ok", !.id = loc[op].id, !.revision = loc[op].meta.revision,
                                    !.doc = IF FileOf(op).valid THEN FileOf(op) ELSE Recorded(op),
                                    !.edited = FileOf(op) # Recorded(op)])
  /\ UNCHANGED <<disk, rec, crashes, faults, since>>

-----------------------------------------------------------------------------
(* Creating and updating a planning                                        *)

\* Mutant: a creation does not wait for the folder's lock.
CreateNamed_Unlocked(op) ==
  /\ at[op] = "folder" /\ Kind[op] = "create"
  /\ IsFree(Aim[op], dirs) /\ IsFree(Aim[op], Taken)
  /\ Set(op, [NoLocals EXCEPT !.id = NewId(Aim[op]), !.doc = [title |-> Aim[op], has |-> {op}, valid |-> TRUE],
                              !.meta = [revision |-> 1, file |-> FirstFree(Aim[op], Taken)]])
  /\ Goto(op, "recording")
  /\ UNCHANGED <<disk, locks, rec, answer, crashes, faults, since>>
CreateNamed(op) ==
  /\ at[op] = "folder" /\ Kind[op] = "create" /\ Head(folderLock) = op
  /\ IsFree(Aim[op], dirs) /\ IsFree(Aim[op], Taken)
  /\ Set(op, [NoLocals EXCEPT !.id = NewId(Aim[op]), !.doc = [title |-> Aim[op], has |-> {op}, valid |-> TRUE],
                              !.meta = [revision |-> 1, file |-> FirstFree(Aim[op], Taken)]])
  /\ Goto(op, "recording")
  /\ UNCHANGED <<disk, locks, rec, answer, crashes, faults, since>>
\* What the update makes of what was read; the judge may refuse it.
Changed(op, current) == [current EXCEPT !.has = @ \cup {op}]
ReviseRefused(op) ==
  /\ at[op] = "file" /\ Kind[op] = "revise" /\ FileOf(op) # None
  /\ Ends(op, Refused)
  /\ UNCHANGED <<disk, rec, crashes, faults, since>>
\* Mutant: an update is made on whatever revision is current.
Revises_Unchecked(op) ==
  LET l == loc[op] IN
  /\ at[op] = "file" /\ Kind[op] = "revise" /\ FileOf(op) # None
  /\ l.meta.revision < MaxRevision
  /\ FileOf(op).valid \/ Recorded(op) # None
  /\ Set(op, [l EXCEPT !.read = FileOf(op), !.meta = [l.meta EXCEPT !.revision = @ + 1],
                       !.doc = Changed(op, IF FileOf(op).valid THEN FileOf(op) ELSE Recorded(op))])
  /\ Goto(op, IF FileOf(op).valid THEN "recording" ELSE "keeping")
  /\ UNCHANGED <<disk, locks, rec, answer, crashes, faults, since>>
Revises(op) ==
  LET l == loc[op] IN
  /\ at[op] = "file" /\ Kind[op] = "revise" /\ FileOf(op) # None
  /\ l.base = l.meta.revision /\ l.meta.revision < MaxRevision
  /\ FileOf(op).valid \/ Recorded(op) # None
  /\ Set(op, [l EXCEPT !.read = FileOf(op), !.meta = [l.meta EXCEPT !.revision = @ + 1],
                       !.doc = Changed(op, IF FileOf(op).valid THEN FileOf(op) ELSE Recorded(op))])
  /\ Goto(op, IF FileOf(op).valid THEN "recording" ELSE "keeping")
  /\ UNCHANGED <<disk, locks, rec, answer, crashes, faults, since>>
\* The person's text is kept before anything replaces it.
\* Mutant: what the person broke is not kept.
Keeps_Nothing(op) ==
  /\ at[op] = "keeping" /\ Goto(op, "recording")
  /\ UNCHANGED <<disk, locks, loc, rec, answer, crashes, faults, since>>
Keeps(op) ==
  /\ at[op] = "keeping"
  /\ copies' = [copies EXCEPT ![loc[op].id] = @ \cup {loc[op].read}]
  /\ Goto(op, "recording")
  /\ UNCHANGED <<folder, dirs, history, meta, locks, loc, rec, answer, crashes, faults, since>>
\* flag "wx": a revision's file is never written twice.
Records(op) ==
  LET l == loc[op] IN
  /\ at[op] = "recording"
  /\ IF history[l.id][l.meta.revision] # None
     THEN Ends(op, [NoAnswer EXCEPT !.outcome = "taken", !.id = l.id, !.revision = l.meta.revision]) /\ UNCHANGED <<dirs, history>>
     ELSE /\ dirs' = dirs \cup {l.id} /\ history' = [history EXCEPT ![l.id][l.meta.revision] = l.doc]
          /\ Goto(op, "placing") /\ UNCHANGED <<locks, loc, answer>>
  /\ UNCHANGED <<folder, meta, copies, rec, crashes, faults, since>>
PlacesFile(op) ==
  /\ at[op] = "placing"
  /\ folder' = [folder EXCEPT ![loc[op].meta.file] = loc[op].doc] /\ Goto(op, "claiming") /\ since' = "moved"
  /\ UNCHANGED <<dirs, history, meta, copies, locks, loc, rec, answer, crashes, faults>>
Claims(op) ==
  /\ at[op] = "claiming"
  /\ meta' = [meta EXCEPT ![loc[op].id] = loc[op].meta] /\ Ends(op, Told(loc[op]))
  /\ UNCHANGED <<folder, dirs, history, copies, rec, crashes, faults, since>>

-----------------------------------------------------------------------------
(* Failures, and the person                                                *)

\* A write fails: the call does, and what it had written stays.
Fails(op) ==
  /\ at[op] \in Writing /\ faults < MaxFaults /\ faults' = faults + 1
  /\ Ends(op, [NoAnswer EXCEPT !.outcome = "failed"])
  /\ rec' = IF at[op] \in {"refile", "adopting", "adopted"} THEN NoRec ELSE rec
  /\ UNCHANGED <<disk, crashes, since>>
\* The process dies: the calls in flight are never answered, and the disk is all that stays.
InFlight == {op \in Calls : at[op] \notin {"new", "done"}}
Crash ==
  /\ crashes < MaxCrashes /\ InFlight # {} /\ crashes' = crashes + 1 /\ since' = "moved"
  /\ at' = [op \in Ops |-> IF op \in InFlight THEN "done" ELSE at[op]]
  /\ loc' = [op \in Ops |-> IF op \in InFlight THEN NoLocals ELSE loc[op]]
  /\ folderLock' = <<>> /\ planningLock' = [i \in Ids |-> <<>>] /\ rec' = NoRec
  /\ UNCHANGED <<disk, answer, faults>>

\* What the person does to the file `Aim[op]`; a change adds to what the file holds.
Edited(op, stays) == [folder[Aim[op]] EXCEPT !.has = @ \cup {op}, !.valid = stays]
Moves(op) ==
  LET n == Aim[op] IN
  \/ Kind[op] = "edit" /\ folder[n] # None /\ folder[n].valid /\ folder' = [folder EXCEPT ![n] = Edited(op, TRUE)]
  \/ Kind[op] = "spoil" /\ folder[n] # None /\ folder' = [folder EXCEPT ![n] = Edited(op, FALSE)]
  \/ Kind[op] = "drop" /\ folder[n] = None /\ folder' = [folder EXCEPT ![n] = [title |-> n[1], has |-> {op}, valid |-> TRUE]]
  \/ Kind[op] = "rename" /\ folder[n] # None /\ folder[To[op]] = None /\ folder' = [folder EXCEPT ![n] = None, ![To[op]] = folder[n]]
  \/ Kind[op] = "delete" /\ folder[n] # None /\ folder' = [folder EXCEPT ![n] = None]
\* A call has read the file, or seen it missing, and will write it.
AboutToBeReplaced(n) == \E op \in Calls : loc[op].doc # None /\ loc[op].meta.file = n
BeingLookedFor == \E op \in Calls : at[op] \in Reconciling
\* History: the move comes between what a call read and what it will do of it.
Unseen(op) == AboutToBeReplaced(Aim[op]) \/ (Kind[op] = "rename" /\ BeingLookedFor)
\* History: the changes a file held which the person deletes, or puts where a call will write.
GivenUp(op) ==
  IF Kind[op] = "delete" \/ (Kind[op] = "rename" /\ AboutToBeReplaced(To[op]))
  THEN folder[Aim[op]].has \cap Person ELSE {}
PersonMoves(op) ==
  /\ at[op] = "new" /\ op \in Person /\ Moves(op) /\ Goto(op, "done") /\ since' = "moved"
  /\ answer' = [o \in Ops |->
       IF o = op THEN [NoAnswer EXCEPT !.outcome = IF Unseen(op) THEN "unseen" ELSE "seen"]
       ELSE IF o \in GivenUp(op) THEN [NoAnswer EXCEPT !.outcome = "unseen"] ELSE answer[o]]
  /\ UNCHANGED <<dirs, history, meta, copies, locks, loc, rec, crashes, faults>>

Reconcile(op) ==
  \/ ReconcileStarts(op) \/ ReconcileReadsMeta(op) \/ ReconcileLooks(op) \/ ReconcileLists(op)
  \/ ReconcileReads(op) \/ Refiled(op) \/ Adopts(op) \/ Adopted(op)
Server(op) ==
  \/ Locked(op) \/ Reconcile(op) \/ ReadsMeta(op) \/ FileMissing(op) \/ Gets(op) \/ CreateNamed(op)
  \/ ReviseRefused(op) \/ Revises(op) \/ Keeps(op) \/ Records(op) \/ PlacesFile(op) \/ Claims(op)
Next == Crash \/ \E op \in Ops : Called(op) \/ Server(op) \/ Fails(op) \/ PersonMoves(op)

\* The file system answers every request the server makes of it.
Spec == Init /\ [][Next]_vars
FairSpec == Spec /\ \A op \in Ops : WF_vars(Server(op))

-----------------------------------------------------------------------------
(* Properties                                                              *)

\* Types, and the locks (locked, line 169): only the head of the folder's lock reconciles, only
\* the head of a planning's lock updates it.
TypeOK ==
  /\ folder \in [Names -> Contents \cup {None}] /\ dirs \subseteq Ids
  /\ history \in [Ids -> [1..MaxRevision -> Contents \cup {None}]]
  /\ meta \in [Ids -> Metas \cup {None}]
  /\ copies \in [Ids -> SUBSET Contents]
  /\ folderLock \in Seq(Calls) /\ planningLock \in [Ids -> Seq(Calls)]
  /\ at \in [Ops -> Places]
  /\ \A op \in InFlight : at[op] \in Reconciling => folderLock # <<>> /\ Head(folderLock) = op
  /\ \A op \in InFlight : Kind[op] = "revise" /\ at[op] # "planning" => Head(planningLock[loc[op].id]) = op

\* The store keeps what a planning store promises (Plannings), crashes and failed writes
\* included: revisions only grow, an update is made on the revision it names and on all of it,
\* and what was answered stays.  A planning's revisions are those its meta.json counts.
Revisions == [i \in Ids |-> IF meta[i] = None THEN <<>> ELSE [r \in 1..meta[i].revision |-> history[i][r]]]
Tellings == [op \in Calls |-> IF answer[op].outcome = "ok" /\ Kind[op] \in {"create", "revise"}
                              THEN [id |-> answer[op].id, base |-> answer[op].base, doc |-> answer[op].doc]
                              ELSE None]
HasOf(d) == d.has
Abstract == INSTANCE Plannings WITH Has <- HasOf, Untold <- None,
                                    revisions <- Revisions, told <- Tellings
KeepsItsPromise == Abstract!Spec

\* "so nothing the person wrote is lost" (line 20): it is in the folder, in a revision or in a
\* copy beside them, unless it was written, or its file put there, while a call was about to
\* replace that file, or its file was deleted.
Somewhere(op) ==
  \/ \E n \in Taken : op \in folder[n].has
  \/ \E i \in Ids : \/ \E text \in copies[i] : op \in text.has
                    \/ \E r \in 1..MaxRevision : history[i][r] # None /\ op \in history[i][r].has
NothingThePersonWroteIsLost ==
  \A op \in Person : Kind[op] \in {"edit", "spoil", "drop"} /\ answer[op].outcome = "seen" => Somewhere(op)

\* After a listing nothing disturbed (reconcile, line 317; it reads files and metas one by one,
\* while calls write them): every timeline in the folder is a planning; two plannings have one
\* file, which an update of either would replace ("one readable file per planning", line 2), only
\* if the person had renamed or deleted a file of that name, which a creation then takes to be
\* free though a meta.json still names it (create, line 420); and a planning whose file was renamed, unchanged, is still itself, if no call was looking for
\* plannings at the moment of the renaming.
Listed == since = "listed" /\ InFlight = {}
Missing(i) == meta[i] # None /\ folder[meta[i].file] = None
FreedByThePerson(n) ==
  \E op \in Person : Kind[op] \in {"rename", "delete"} /\ Aim[op] = n /\ answer[op].outcome # "none"
RenamedInPeace == \A op \in Person : Kind[op] = "rename" => answer[op].outcome # "unseen"
FilesMatchPlannings ==
  Listed =>
    /\ \A n \in Taken : folder[n].valid => \E i \in Ids : meta[i] # None /\ meta[i].file = n
    /\ \A i, j \in Ids : meta[i] # None /\ meta[j] # None /\ meta[i].file = meta[j].file =>
                            i = j \/ FreedByThePerson(meta[i].file)
    /\ RenamedInPeace =>
         \A i \in Ids, n \in Taken : Missing(i) => folder[n] # history[i][meta[i].revision]

\* Every call ends, whatever fails: an update holding its planning's lock waits for the folder's,
\* and a holder that fails or that dies releases both.
EveryCallEnds == []<>(InFlight = {})
==============================================================================
