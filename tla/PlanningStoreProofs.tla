------------------------- MODULE PlanningStoreProofs -------------------------
(***************************************************************************)
(* Theorems about the plannings of a folder: types and who holds which     *)
(* lock, that nothing the person wrote is lost, and that the store keeps   *)
(* the promise of Plannings.                                               *)
(***************************************************************************)
EXTENDS PlanningStore, NaturalsInduction, WellFoundedInduction, TLAPS

-----------------------------------------------------------------------------
(* Type correctness                                                        *)

Locals == [id : Ids \cup {None}, base : Nat, meta : Metas \cup {None}, read : Contents \cup {None},
           doc : Contents \cup {None}, again : BOOLEAN]
Entries == [id : Ids, meta : Metas]
Recs == [todo : SUBSET Ids, metas : SUBSET Entries, orphans : SUBSET Entries, entries : SUBSET Names,
         id : Ids \cup {None}, meta : Metas \cup {None}, doc : Contents \cup {None}]
Answers == [outcome : {"none", "ok", "refused", "failed", "taken", "seen", "unseen"}, id : Ids \cup {None},
            base : Nat, revision : Nat, doc : Contents \cup {None}, edited : BOOLEAN]

\* The disk, and the variables of the model.
Stored ==
  /\ folder \in [Names -> Contents \cup {None}] /\ dirs \subseteq Ids
  /\ history \in [Ids -> [1..MaxRevision -> Docs \cup {None}]]   \* what is recorded was judged
  /\ meta \in [Ids -> Metas \cup {None}]
  /\ copies \in [Ids -> SUBSET Contents]
Counted ==
  /\ at \in [Ops -> Places] /\ loc \in [Ops -> Locals] /\ rec \in Recs /\ answer \in [Ops -> Answers]
  /\ crashes \in Nat /\ faults \in Nat /\ since \in {"moved", "listing", "listed"}

\* What a call's locals hold at each of its awaits.
Still == {"new", "done"}
Written == {"recording", "placing", "claiming"}
Prepared(op, l) ==
  /\ l.id \in Ids /\ l.meta \in Metas /\ l.doc \in Docs
  /\ Kind[op] = "create" => l.meta.revision = 1 /\ l.base = 0
  /\ Kind[op] = "revise" => l.id = Aim[op] /\ l.meta.revision = l.base + 1
PlacedAt(op, a, l) ==
  /\ a \in Still => l = NoLocals
  /\ a \notin Still => op \in Calls
  /\ a \notin {"keeping"} \cup Written => l.doc = None
  /\ a \in {"folder"} \cup Reconciling /\ Kind[op] \in {"get", "revise"} => l.id = Aim[op]
  /\ a \in Reconciling => Kind[op] # "create"
  /\ a \in {"planning", "keeping"} => Kind[op] = "revise"
  /\ a \in {"meta", "file"} => Kind[op] \in {"get", "revise"}
  /\ a \in {"planning", "meta", "file"} => l.id = Aim[op]
  /\ a = "file" => l.meta \in Metas
  /\ a \in {"keeping"} \cup Written => Kind[op] \in {"create", "revise"} /\ Prepared(op, l)
  /\ a = "keeping" => l.read \in Contents /\ ~l.read.valid
Placed == \A op \in Ops : PlacedAt(op, at[op], loc[op])

\* The locals of the reconcile under way.
Reconciled ==
  \A op \in Ops :
    /\ at[op] \in {"refile", "adopting", "adopted"} => rec.id \in Ids /\ rec.meta \in Metas
    /\ at[op] \in {"adopting", "adopted"} => rec.doc \in Docs /\ rec.meta.revision = 1

Typed == Stored /\ Counted /\ Placed

\* Documents are contents, revisions are counted.
LEMMA Kinds ==
  /\ Docs \subseteq Contents /\ MaxRevision \in Nat /\ 1 \in 1..MaxRevision
  /\ None \notin Ids /\ None \notin Metas /\ None \notin Contents /\ None \notin Docs /\ Names = Ids
  /\ NoLocals \in Locals /\ NoRec \in Recs /\ NoAnswer \in Answers /\ Refused \in Answers
<1>1. Docs \subseteq Contents /\ Names = Ids
  BY DEF Docs, Names, Ids
<1>2. MaxRevision \in Nat /\ 1 \in 1..MaxRevision
  BY PlanningStoreAssumption DEF PlanningStoreAssumption
<1>3. None \notin Ids /\ None \notin Metas /\ None \notin Contents
  BY NoneAssumption DEF NoneAssumption
<1>4. NoLocals \in Locals /\ NoRec \in Recs /\ NoAnswer \in Answers
  BY DEF NoLocals, NoRec, NoAnswer, Locals, Recs, Answers
<1>5. [NoAnswer EXCEPT !.outcome = "refused"] \in Answers
  BY <1>4 DEF Answers
<1>6. None \notin Docs
  BY <1>1, <1>3
<1> QED BY <1>1, <1>2, <1>3, <1>4, <1>5, <1>6 DEF Refused

\* A call is where its step has left it, with the locals it has then; the others stay.
LEMMA OneMoves ==
  ASSUME Typed, NEW op \in Ops, NEW a \in Places, NEW l \in Locals, PlacedAt(op, a, l),
         at' = [at EXCEPT ![op] = a], loc' = [loc EXCEPT ![op] = l]
  PROVE  at' \in [Ops -> Places] /\ loc' \in [Ops -> Locals] /\ Placed'
BY DEF Typed, Counted, Placed
\* A call goes on with its locals as they are.
LEMMA OneGoes ==
  ASSUME Typed, NEW op \in Ops, NEW a \in Places, PlacedAt(op, a, loc[op]),
         at' = [at EXCEPT ![op] = a], loc' = loc
  PROVE  at' \in [Ops -> Places] /\ loc' \in [Ops -> Locals] /\ Placed'
BY DEF Typed, Counted, Placed
\* A call ends: its locals are forgotten, its answer is one.
LEMMA OneEnds ==
  ASSUME Typed, NEW op \in Ops, NEW what \in Answers, Ends(op, what)
  PROVE  /\ at' \in [Ops -> Places] /\ loc' \in [Ops -> Locals] /\ Placed'
         /\ answer' \in [Ops -> Answers]
<1>1. NoLocals \in Locals /\ "done" \in Places /\ PlacedAt(op, "done", NoLocals)
  BY Kinds DEF PlacedAt, Places, NoLocals, Still, Written, Reconciling
<1>2. at' = [at EXCEPT ![op] = "done"] /\ loc' = [loc EXCEPT ![op] = NoLocals]
  BY DEF Ends, Goto, Set
<1>3. answer' \in [Ops -> Answers]
  BY DEF Ends, Typed, Counted
<1> QED BY <1>1, <1>2, <1>3, OneMoves

\* A set of natural numbers that is not empty has a least element.
LEMMA Least ==
  ASSUME NEW T \in SUBSET Nat, T # {}
  PROVE  \E n \in T : \A k \in T : n <= k
<1> DEFINE R == OpToRel(<, Nat)
<1>1. PICK n \in T : \A k \in T : <<k, n>> \notin R
  <2>1. IsWellFoundedOn(R, Nat)
    BY NatLessThanWellFounded
  <2> HIDE DEF R
  <2> QED BY <2>1, WFMin
<1>2. \A k \in T : ~(k < n)
  BY <1>1 DEF OpToRel
<1> HIDE DEF R
<1> QED BY <1>2

\* A title with a free number is given one that is free.
LEMMA FirstFreeTyped ==
  ASSUME NEW title \in Titles, NEW taken, IsFree(title, taken)
  PROVE  FirstFree(title, taken) \in Ids /\ FirstFree(title, taken) \notin taken
<1> DEFINE T == {n \in 1..MaxCopies : <<title, n>> \notin taken}
           P(x) == x \notin taken /\ \A n \in 1..(x[2] - 1) : <<title, n>> \in taken
<1>0. MaxCopies \in Nat
  BY PlanningStoreAssumption DEF PlanningStoreAssumption
<1>1. T # {}
  BY DEF IsFree
<1>2. PICK n \in T : \A k \in T : n <= k
  <2>1. T \in SUBSET Nat
    BY <1>0
  <2> HIDE DEF T
  <2> QED BY <1>1, <2>1, Least
<1>3. <<title, n>> \in {title} \X (1..MaxCopies) /\ P(<<title, n>>)
  <2>1. \A k \in 1..(n - 1) : k \in 1..MaxCopies /\ k \notin T
    BY <1>0, <1>2
  <2> QED BY <1>2, <2>1
<1>4. FirstFree(title, taken) = CHOOSE x \in {title} \X (1..MaxCopies) : P(x)
  BY DEF FirstFree
<1> HIDE DEF P
<1>5. FirstFree(title, taken) \in {title} \X (1..MaxCopies) /\ P(FirstFree(title, taken))
  BY <1>3, <1>4
<1> QED BY <1>5 DEF P, Ids

\* A call is of one of the four tools, about a title or a planning.
LEMMA Calling ==
  ASSUME NEW op \in Calls
  PROVE  /\ op \in Ops /\ Kind[op] \in {"list", "create", "get", "revise"}
         /\ Kind[op] = "create" => Aim[op] \in Titles
         /\ Kind[op] \in {"get", "revise"} => Aim[op] \in Ids
BY PlanningStoreAssumption, Kinds DEF Calls, PlanningStoreAssumption

\* A call that arrives waits for the lock it needs, or reads its planning's meta at once.
LEMMA CalledTyped == ASSUME Typed, NEW op \in Ops, Called(op) PROVE Typed'
<1>1. op \in Calls /\ at[op] = "new" /\ loc[op] = NoLocals /\ UNCHANGED <<disk, rec, answer, crashes, faults, since>>
  BY DEF Called, Typed, Placed, PlacedAt, Still
<1>2. Stored'
  BY <1>1 DEF disk, Typed, Stored
<1>3. at' \in [Ops -> Places] /\ loc' \in [Ops -> Locals] /\ Placed'
  <2>1. CASE Kind[op] \in {"create", "list"} /\ Goto(op, "folder") /\ UNCHANGED loc
    <3>1. PlacedAt(op, "folder", loc[op]) /\ "folder" \in Places
      BY <1>1, <2>1 DEF PlacedAt, Places, NoLocals, Still, Written, Reconciling
    <3> QED BY <2>1, <3>1, OneGoes DEF Goto
  <2>2. CASE Kind[op] = "get" /\ Goto(op, "meta") /\ Set(op, [NoLocals EXCEPT !.id = Aim[op]])
    <3> DEFINE l == [NoLocals EXCEPT !.id = Aim[op]]
    <3>1. l \in Locals /\ l.id = Aim[op] /\ l.doc = None
      BY <1>1, <2>2, Calling, Kinds DEF Locals, NoLocals
    <3>2. PlacedAt(op, "meta", l) /\ "meta" \in Places
      BY <1>1, <2>2, <3>1 DEF PlacedAt, Places, Still, Written, Reconciling
    <3> QED BY <2>2, <3>1, <3>2, OneMoves DEF Goto, Set
  <2>3. ASSUME NEW b \in Nat, Kind[op] = "revise", Goto(op, "planning"), Set(op, [NoLocals EXCEPT !.id = Aim[op], !.base = b])
        PROVE  at' \in [Ops -> Places] /\ loc' \in [Ops -> Locals] /\ Placed'
    <3> DEFINE l == [NoLocals EXCEPT !.id = Aim[op], !.base = b]
    <3>1. l \in Locals /\ l.id = Aim[op] /\ l.doc = None
      BY <1>1, <2>3, Calling, Kinds DEF Locals, NoLocals
    <3>2. PlacedAt(op, "planning", l) /\ "planning" \in Places
      BY <1>1, <2>3, <3>1 DEF PlacedAt, Places, Still, Written, Reconciling
    <3> QED BY <2>3, <3>1, <3>2, OneMoves DEF Goto, Set
  <2>4. ASSUME Kind[op] = "revise", meta[Aim[op]] # None PROVE 1..meta[Aim[op]].revision \subseteq Nat
    BY <1>1, <2>4, Calling DEF Typed, Stored, Metas
  <2> QED BY <2>1, <2>2, <2>3, <2>4 DEF Called
<1> QED BY <1>1, <1>2, <1>3 DEF Typed, Counted

\* An update has its planning's lock.
LEMMA LockedTyped == ASSUME Typed, NEW op \in Ops, Locked(op) PROVE Typed'
<1>1. PlacedAt(op, "meta", loc[op]) /\ "meta" \in Places
  BY DEF Locked, Typed, Placed, PlacedAt, Places, Still, Written, Reconciling
<1>2. at' \in [Ops -> Places] /\ loc' \in [Ops -> Locals] /\ Placed'
  BY <1>1, OneGoes DEF Locked, Goto
<1> QED BY <1>2 DEF Locked, disk, Typed, Stored, Counted

\* A reconcile lists the directories.
LEMMA ReconcileStartsTyped == ASSUME Typed, NEW op \in Ops, ReconcileStarts(op) PROVE Typed'
<1>1. \A a \in {"files", "metas"} : PlacedAt(op, a, loc[op]) /\ a \in Places
  BY DEF ReconcileStarts, Reconciles, Typed, Placed, PlacedAt, Places, Still, Written, Reconciling
<1>2. at' \in [Ops -> Places] /\ loc' \in [Ops -> Locals] /\ Placed'
  BY <1>1, OneGoes DEF ReconcileStarts, Goto
<1>3. rec' \in Recs
  <2>1. dirs \subseteq Ids
    BY DEF Typed, Stored
  <2>2. [NoRec EXCEPT !.todo = dirs] \in Recs
    BY <2>1, Kinds DEF Recs
  <2> QED BY <2>2 DEF ReconcileStarts
<1>4. since' \in {"moved", "listing", "listed"}
  BY DEF ReconcileStarts, Typed, Counted
<1> QED BY <1>2, <1>3, <1>4 DEF ReconcileStarts, disk, Typed, Stored, Counted

\* It reads one meta.json, and after the last goes on to the files.
LEMMA ReconcileReadsMetaTyped == ASSUME Typed, NEW op \in Ops, ReconcileReadsMeta(op) PROVE Typed'
<1>1. \A a \in {"files", "metas"} : PlacedAt(op, a, loc[op]) /\ a \in Places
  BY DEF ReconcileReadsMeta, Typed, Placed, PlacedAt, Places, Still, Written, Reconciling
<1>2. PICK i \in rec.todo :
        LET metas == rec.metas \cup (IF meta[i] = None THEN {} ELSE {[id |-> i, meta |-> meta[i]]})
            over == rec.todo = {i}
        IN  /\ rec' = [rec EXCEPT !.metas = metas, !.todo = IF over THEN {m.id : m \in metas} ELSE rec.todo \ {i}]
            /\ Goto(op, IF over THEN "files" ELSE "metas")
  BY DEF ReconcileReadsMeta, Typed, Counted, Recs
<1>3. at' \in [Ops -> Places] /\ loc' \in [Ops -> Locals] /\ Placed'
  BY <1>1, <1>2, OneGoes DEF ReconcileReadsMeta, Goto
<1>4. rec' \in Recs
  <2> DEFINE metas == rec.metas \cup (IF meta[i] = None THEN {} ELSE {[id |-> i, meta |-> meta[i]]})
             todo == IF rec.todo = {i} THEN {m.id : m \in metas} ELSE rec.todo \ {i}
  <2>1. metas \subseteq Entries
    BY DEF Typed, Counted, Stored, Recs, Entries
  <2>2. todo \subseteq Ids
    <3>1. rec.todo \subseteq Ids
      BY DEF Typed, Counted, Recs
    <3>2. {m.id : m \in metas} \subseteq Ids
      BY <2>1 DEF Entries
    <3> QED BY <3>1, <3>2
  <2>3. rec' = [rec EXCEPT !.metas = metas, !.todo = todo]
    BY <1>2
  <2> HIDE DEF metas, todo
  <2> QED BY <2>1, <2>2, <2>3 DEF Typed, Counted, Recs
<1> QED BY <1>3, <1>4 DEF ReconcileReadsMeta, disk, Typed, Stored, Counted

\* It looks whether a planning's file is there.
LEMMA ReconcileLooksTyped == ASSUME Typed, NEW op \in Ops, ReconcileLooks(op) PROVE Typed'
<1>1. rec' \in Recs
  <2>1. PICK m \in rec.metas :
          rec' = [rec EXCEPT !.todo = rec.todo \ {m.id},
                             !.orphans = IF folder[m.meta.file] = None /\ history[m.id][m.meta.revision] # None
                                         THEN rec.orphans \cup {m} ELSE rec.orphans]
    BY DEF ReconcileLooks, Typed, Counted, Recs
  <2> DEFINE orphans == IF folder[m.meta.file] = None /\ history[m.id][m.meta.revision] # None
                        THEN rec.orphans \cup {m} ELSE rec.orphans
  <2>2. orphans \subseteq Entries /\ rec.todo \ {m.id} \subseteq Ids
    BY DEF Typed, Counted, Recs
  <2>3. rec' = [rec EXCEPT !.todo = rec.todo \ {m.id}, !.orphans = orphans]
    BY <2>1
  <2> HIDE DEF orphans
  <2> QED BY <2>2, <2>3 DEF Typed, Counted, Recs
<1> QED BY <1>1 DEF ReconcileLooks, disk, Typed, Stored, Counted, Placed

\* On to the next entry of the folder, or back to what the reconcile was for.
LEMMA NextEntryTyped ==
  ASSUME Typed, NEW op \in Ops, at[op] \in Reconciling, NEW r \in Recs, NextEntry(op, r)
  PROVE  crashes' \in Nat /\ faults' \in Nat => Counted' /\ Placed'
<1>1. op \in Calls /\ Kind[op] \in {"list", "get", "revise"} /\ loc[op].doc = None
  BY Calling DEF Typed, Placed, PlacedAt, Reconciling, Still, Written
<1>2. rec' \in Recs /\ since' \in {"moved", "listing", "listed"}
  BY Kinds DEF NextEntry, Typed, Counted
<1>3. /\ at' \in [Ops -> Places] /\ loc' \in [Ops -> Locals] /\ Placed'
      /\ answer' \in [Ops -> Answers]
  <2>1. CASE Goto(op, "entries") /\ UNCHANGED <<loc, answer>>
    <3>1. PlacedAt(op, "entries", loc[op]) /\ "entries" \in Places
      BY <1>1 DEF Typed, Placed, PlacedAt, Places, Writing, Still, Written, Reconciling
    <3> QED BY <2>1, <3>1, OneGoes DEF Goto, Typed, Counted
  <2>2. CASE Ends(op, [NoAnswer EXCEPT !.outcome = "ok"])
    <3>1. [NoAnswer EXCEPT !.outcome = "ok"] \in Answers
      BY Kinds DEF Answers
    <3> QED BY <2>2, <3>1, OneEnds
  <2>3. CASE Kind[op] # "list" /\ Goto(op, "meta") /\ UNCHANGED <<loc, answer>>
    <3>1. PlacedAt(op, "meta", loc[op]) /\ "meta" \in Places
      BY <1>1, <2>3 DEF Typed, Placed, PlacedAt, Places, Writing, Still, Written, Reconciling
    <3> QED BY <2>3, <3>1, OneGoes DEF Goto, Typed, Counted
  <2> QED BY <2>1, <2>2, <2>3 DEF NextEntry
<1> QED BY <1>2, <1>3 DEF Counted

\* It lists the files no planning claims.
LEMMA ReconcileListsTyped == ASSUME Typed, NEW op \in Ops, ReconcileLists(op) PROVE Typed'
<1>1. [rec EXCEPT !.entries = Unclaimed] \in Recs
  BY DEF Unclaimed, Taken, Typed, Counted, Recs
<1>2. Counted' /\ Placed'
  BY <1>1, NextEntryTyped DEF ReconcileLists, Reconciling, Typed, Counted
<1> QED BY <1>2 DEF ReconcileLists, disk, Typed, Stored

\* A file is taken in: as the planning it was, or as a new one.
LEMMA ReconcileReadsTyped ==
  ASSUME Typed, NEW op \in Ops, ReconcileReads(op)
  PROVE  /\ Typed'
         /\ at'[op] \in {"refile", "adopting"} => rec'.id \in Ids /\ rec'.meta \in Metas
         /\ at'[op] = "refile" => \E m \in rec.orphans : rec'.id = m.id
         /\ at'[op] = "adopting" => rec'.id \notin dirs /\ rec'.meta.revision = 1 /\ rec'.doc \in Docs
         /\ at'[op] \in {"refile", "adopting", "entries", "meta", "done"}
         /\ rec'.metas \in {rec.metas, {}} /\ rec'.orphans \subseteq rec.orphans
<1>1. at[op] = "entries" /\ rec \in Recs /\ UNCHANGED <<disk, crashes, faults>>
  BY DEF ReconcileReads, Typed, Counted
<1>2. PICK n \in rec.entries :
       LET text == folder[n]
           left == rec.entries \ {n}
           judged == text # None /\ text.valid
       IN  \/ ~judged /\ NextEntry(op, [rec EXCEPT !.entries = left])
           \/ /\ judged
              /\ \E m \in Renamed(text) :
                   rec' = [rec EXCEPT !.entries = left, !.orphans = rec.orphans \ {m},
                                      !.id = m.id, !.meta = [m.meta EXCEPT !.file = n]]
              /\ Goto(op, "refile") /\ UNCHANGED <<locks, loc, answer, since>>
           \/ /\ judged /\ Renamed(text) = {} /\ IsFree(text.title, dirs)
              /\ rec' = [rec EXCEPT !.entries = left, !.id = NewId(text.title), !.doc = text,
                                    !.meta = [revision |-> 1, file |-> n]]
              /\ Goto(op, "adopting") /\ UNCHANGED <<locks, loc, answer, since>>
  BY DEF ReconcileReads
<1> DEFINE left == rec.entries \ {n}
<1>3. n \in Names /\ left \subseteq Names
  BY <1>1 DEF Recs
<1>4. CASE NextEntry(op, [rec EXCEPT !.entries = left])
  <2>1. [rec EXCEPT !.entries = left] \in Recs
    BY <1>1, <1>3 DEF Recs
  <2>2. Counted' /\ Placed'
    BY <1>1, <1>4, <2>1, NextEntryTyped DEF Reconciling, Typed, Counted
  <2>3. at'[op] \in {"entries", "meta", "done"}
    BY <1>4 DEF NextEntry, Goto, Ends, Typed, Counted
  <2>4. rec' \in {[rec EXCEPT !.entries = left], NoRec}
    BY <1>4 DEF NextEntry
  <2> QED BY <1>1, <2>2, <2>3, <2>4 DEF disk, Typed, Stored, NoRec, Recs
<1>5. ASSUME NEW m \in Renamed(folder[n]), Goto(op, "refile"), UNCHANGED <<locks, loc, answer, since>>,
             rec' = [rec EXCEPT !.entries = left, !.orphans = rec.orphans \ {m},
                                !.id = m.id, !.meta = [m.meta EXCEPT !.file = n]]
      PROVE  /\ Typed' /\ at'[op] = "refile" /\ rec'.id \in Ids /\ rec'.meta \in Metas
             /\ rec'.id = m.id /\ m \in rec.orphans
             /\ rec'.metas = rec.metas /\ rec'.orphans \subseteq rec.orphans
  <2>1. m \in rec.orphans /\ m.id \in Ids /\ [m.meta EXCEPT !.file = n] \in Metas
    BY <1>1, <1>3 DEF Renamed, Recs, Entries, Metas
  <2>2. PlacedAt(op, "refile", loc[op]) /\ "refile" \in Places
    BY <1>1 DEF Typed, Placed, PlacedAt, Places, Writing, Still, Written, Reconciling
  <2>3. at' \in [Ops -> Places] /\ loc' \in [Ops -> Locals] /\ Placed' /\ at'[op] = "refile"
    BY <1>5, <2>2, OneGoes DEF Goto, Typed, Counted
  <2> DEFINE file == [m.meta EXCEPT !.file = n]
  <2> HIDE DEF left, file
  <2>4. rec' \in Recs /\ rec'.id = m.id /\ rec'.meta = file /\ rec'.metas = rec.metas
          /\ rec'.orphans \subseteq rec.orphans
    <3>1. file \in Metas
      BY <2>1 DEF file
    <3>2. rec' = [rec EXCEPT !.entries = left, !.orphans = rec.orphans \ {m}, !.id = m.id, !.meta = file]
      BY <1>5 DEF file
    <3> QED BY <1>1, <1>3, <2>1, <3>1, <3>2 DEF Recs
  <2> QED BY <1>1, <1>5, <2>1, <2>3, <2>4 DEF file, disk, Typed, Stored, Counted
<1>6. ASSUME folder[n] # None, folder[n].valid, IsFree(folder[n].title, dirs),
             Goto(op, "adopting"), UNCHANGED <<locks, loc, answer, since>>,
             rec' = [rec EXCEPT !.entries = left, !.id = NewId(folder[n].title), !.doc = folder[n],
                                !.meta = [revision |-> 1, file |-> n]]
      PROVE  /\ Typed' /\ at'[op] = "adopting" /\ rec'.id \in Ids /\ rec'.meta \in Metas
             /\ rec'.id \notin dirs /\ rec'.meta.revision = 1 /\ rec'.doc \in Docs
             /\ rec'.metas = rec.metas /\ rec'.orphans \subseteq rec.orphans
  <2>1. folder[n] \in Docs /\ folder[n] \in Contents /\ folder[n].title \in Titles
    BY <1>3, <1>6 DEF Typed, Stored, Docs, Contents
  <2>2. NewId(folder[n].title) \in Ids /\ NewId(folder[n].title) \notin dirs
    BY <1>6, <2>1, FirstFreeTyped DEF NewId
  <2>3. PlacedAt(op, "adopting", loc[op]) /\ "adopting" \in Places
    BY <1>1 DEF Typed, Placed, PlacedAt, Places, Writing, Still, Written, Reconciling
  <2>4. at' \in [Ops -> Places] /\ loc' \in [Ops -> Locals] /\ Placed' /\ at'[op] = "adopting"
    BY <1>6, <2>3, OneGoes DEF Goto, Typed, Counted
  <2> DEFINE first == [revision |-> 1, file |-> n]
             id == NewId(folder[n].title)
  <2>5. first \in Metas /\ first.revision = 1
    BY <1>3, Kinds DEF Metas
  <2>6. rec' = [rec EXCEPT !.entries = left, !.id = id, !.doc = folder[n], !.meta = first]
    BY <1>6
  <2> HIDE DEF left, first, id
  <2>7. /\ rec' \in Recs /\ rec'.id = id /\ rec'.meta = first /\ rec'.doc = folder[n]
        /\ rec'.metas = rec.metas /\ rec'.orphans = rec.orphans
    BY <1>1, <1>3, <2>1, <2>2, <2>5, <2>6 DEF Recs, id
  <2> QED BY <1>1, <1>6, <2>1, <2>2, <2>4, <2>5, <2>7 DEF id, disk, Typed, Stored, Counted
<1> QED BY <1>2, <1>4, <1>5, <1>6

\* The meta of a renamed file is written back.
LEMMA RefiledTyped == ASSUME Typed, Reconciled, NEW op \in Ops, Refiled(op) PROVE Typed'
<1>1. rec \in Recs /\ rec.id \in Ids /\ rec.meta \in Metas
  BY DEF Refiled, Typed, Counted, Reconciled
<1>2. Counted' /\ Placed'
  BY <1>1, NextEntryTyped DEF Refiled, Reconciling, Typed, Counted
<1> QED BY <1>1, <1>2 DEF Refiled, Typed, Stored

\* A new planning's first revision is written.
LEMMA AdoptsTyped == ASSUME Typed, Reconciled, NEW op \in Ops, Adopts(op) PROVE Typed'
<1>1. rec.id \in Ids /\ rec.doc \in Docs
  BY DEF Adopts, Reconciled
<1>2. PlacedAt(op, "adopted", loc[op]) /\ "adopted" \in Places
  BY DEF Adopts, Typed, Placed, PlacedAt, Places, Writing, Still, Written, Reconciling
<1>3. at' \in [Ops -> Places] /\ loc' \in [Ops -> Locals] /\ Placed'
  BY <1>2, OneGoes DEF Adopts, Goto
<1>4. history' \in [Ids -> [1..MaxRevision -> Docs \cup {None}]] /\ dirs' \subseteq Ids
  BY <1>1, Kinds DEF Adopts, Typed, Stored
<1> QED BY <1>3, <1>4 DEF Adopts, Typed, Stored, Counted

\* Then its meta.
LEMMA AdoptedTyped == ASSUME Typed, Reconciled, NEW op \in Ops, Adopted(op) PROVE Typed'
<1>1. rec \in Recs /\ rec.id \in Ids /\ rec.meta \in Metas
  BY DEF Adopted, Typed, Counted, Reconciled
<1>2. Counted' /\ Placed'
  BY <1>1, NextEntryTyped DEF Adopted, Reconciling, Typed, Counted
<1> QED BY <1>1, <1>2 DEF Adopted, Typed, Stored

\* Where a call that reads its planning is, and what it has of it.
LEMMA Reading ==
  ASSUME Typed, NEW op \in Ops, at[op] \in {"planning", "meta", "file"}
  PROVE  /\ op \in Calls /\ loc[op] \in Locals /\ loc[op].id = Aim[op] /\ loc[op].id \in Ids /\ loc[op].doc = None
         /\ at[op] # "planning" => Kind[op] \in {"get", "revise"}
         /\ at[op] = "file" => loc[op].meta \in Metas
<1>1. op \in Calls /\ loc[op] \in Locals /\ loc[op].id = Aim[op] /\ loc[op].doc = None
        /\ Kind[op] \in {"get", "revise"}
  BY DEF Typed, Counted, Placed, PlacedAt, Still, Written
<1>2. at[op] = "file" => loc[op].meta \in Metas
  BY DEF Typed, Placed, PlacedAt
<1> QED BY <1>1, <1>2, Calling

\* A planning's meta is read, or there is none.
LEMMA ReadsMetaTyped == ASSUME Typed, NEW op \in Ops, ReadsMeta(op) PROVE Typed'
<1>1. at[op] = "meta" /\ UNCHANGED <<disk, rec, crashes, faults, since>>
  BY DEF ReadsMeta
<1>2. CASE Ends(op, Refused)
  BY <1>1, <1>2, OneEnds, Kinds DEF disk, Typed, Stored, Counted
<1>3. CASE meta[loc[op].id] # None /\ Set(op, [loc[op] EXCEPT !.meta = meta[loc[op].id]]) /\ Goto(op, "file")
             /\ UNCHANGED answer
  <2> DEFINE l == [loc[op] EXCEPT !.meta = meta[loc[op].id]]
  <2>1. loc[op] \in Locals /\ meta[loc[op].id] \in Metas
    BY <1>1, <1>3, Reading DEF Typed, Stored
  <2>2. l \in Locals /\ l.id = loc[op].id /\ l.doc = loc[op].doc /\ l.meta \in Metas
    BY <2>1 DEF Locals
  <2>3. PlacedAt(op, "file", l) /\ "file" \in Places
    BY <1>1, <2>2, Reading DEF PlacedAt, Places, Writing, Still, Written, Reconciling
  <2>4. at' \in [Ops -> Places] /\ loc' \in [Ops -> Locals] /\ Placed'
    BY <1>3, <2>2, <2>3, OneMoves DEF Goto, Set
  <2> QED BY <1>1, <1>3, <2>4 DEF disk, Typed, Stored, Counted
<1> QED BY <1>2, <1>3 DEF ReadsMeta

\* The file is not there: a reconcile first, once.
LEMMA FileMissingTyped == ASSUME Typed, NEW op \in Ops, FileMissing(op) PROVE Typed'
<1>1. at[op] = "file" /\ UNCHANGED <<disk, rec, crashes, faults, since>>
  BY DEF FileMissing
<1>2. CASE Ends(op, Refused)
  BY <1>1, <1>2, OneEnds, Kinds DEF disk, Typed, Stored, Counted
<1>3. CASE Set(op, [loc[op] EXCEPT !.again = TRUE]) /\ Goto(op, "folder") /\ UNCHANGED answer
  <2> DEFINE l == [loc[op] EXCEPT !.again = TRUE]
  <2>1. l \in Locals /\ l.id = loc[op].id /\ l.doc = loc[op].doc
    BY <1>1, Reading DEF Locals
  <2>2. PlacedAt(op, "folder", l) /\ "folder" \in Places
    BY <1>1, <2>1, Reading DEF PlacedAt, Places, Writing, Still, Written, Reconciling
  <2>3. at' \in [Ops -> Places] /\ loc' \in [Ops -> Locals] /\ Placed'
    BY <1>3, <2>1, <2>2, OneMoves DEF Goto, Set
  <2> QED BY <1>1, <1>3, <2>3 DEF disk, Typed, Stored, Counted
<1> QED BY <1>2, <1>3 DEF FileMissing

\* What a call that has a meta reads with it.
LEMMA FileRead ==
  ASSUME Typed, NEW op \in Ops, at[op] = "file"
  PROVE  /\ loc[op].meta.file \in Names /\ loc[op].meta.revision \in 1..MaxRevision
         /\ FileOf(op) \in Contents \cup {None} /\ Recorded(op) \in Docs \cup {None}
<1>1. loc[op].id \in Ids /\ loc[op].meta \in Metas
  BY Reading
<1>2. loc[op].meta.file \in Names /\ loc[op].meta.revision \in 1..MaxRevision
  BY <1>1 DEF Metas
<1>3. folder \in [Names -> Contents \cup {None}] /\ history \in [Ids -> [1..MaxRevision -> Docs \cup {None}]]
  BY DEF Typed, Stored
<1>4. FileOf(op) \in Contents \cup {None}
  BY <1>2, <1>3 DEF FileOf
<1>5. Recorded(op) \in Docs \cup {None}
  BY <1>1, <1>2, <1>3 DEF Recorded
<1> QED BY <1>2, <1>4, <1>5

\* A planning is answered, or refused when its revision is gone.
LEMMA GetsTyped == ASSUME Typed, NEW op \in Ops, Gets(op) PROVE Typed'
<1>1. at[op] = "file" /\ UNCHANGED <<disk, rec, crashes, faults, since>>
  BY DEF Gets
<1>2. PICK what \in Answers : Ends(op, what)
  <2>1. CASE Ends(op, Refused)
    BY <2>1, Kinds
  <2> DEFINE doc == IF FileOf(op).valid THEN FileOf(op) ELSE Recorded(op)
             edited == FileOf(op) # Recorded(op)
  <2>2. CASE Ends(op, [NoAnswer EXCEPT !.outcome = "ok", !.id = loc[op].id, !.revision = loc[op].meta.revision,
                                       !.doc = doc, !.edited = edited])
    <3>1. doc \in Contents \cup {None} /\ edited \in BOOLEAN /\ loc[op].id \in Ids /\ loc[op].meta.revision \in Nat
      BY <1>1, FileRead, Reading, Kinds
    <3> HIDE DEF doc, edited
    <3>2. [NoAnswer EXCEPT !.outcome = "ok", !.id = loc[op].id, !.revision = loc[op].meta.revision,
                           !.doc = doc, !.edited = edited] \in Answers
      BY <3>1, Kinds DEF Answers
    <3> QED BY <2>2, <3>2
  <2> QED BY <2>1, <2>2 DEF Gets
<1> QED BY <1>1, <1>2, OneEnds DEF disk, Typed, Stored, Counted

\* A new planning has an id and a file name nothing has.
LEMMA CreateNamedTyped ==
  ASSUME Typed, NEW op \in Ops, CreateNamed(op)
  PROVE  Typed' /\ loc'[op].id \notin dirs
<1>1. op \in Calls /\ Kind[op] = "create" /\ Aim[op] \in Titles
  BY Calling DEF CreateNamed, Typed, Placed, PlacedAt, Still
<1> DEFINE id == NewId(Aim[op])
           doc == [title |-> Aim[op], has |-> {op}, valid |-> TRUE]
           first == [revision |-> 1, file |-> FirstFree(Aim[op], Taken)]
           l == [NoLocals EXCEPT !.id = id, !.doc = doc, !.meta = first]
<1>2. id \in Ids /\ id \notin dirs /\ FirstFree(Aim[op], Taken) \in Names
  BY <1>1, FirstFreeTyped, Kinds DEF CreateNamed, NewId
<1>3. doc \in Docs /\ doc \in Contents
  BY <1>1 DEF Docs, Contents, Changes, Calls
<1>4. first \in Metas /\ first.revision = 1
  BY <1>2, Kinds DEF Metas
<1>5. loc' = [loc EXCEPT ![op] = l] /\ at' = [at EXCEPT ![op] = "recording"]
  BY DEF CreateNamed, Set, Goto
<1> HIDE DEF id, doc, first
<1>6. l \in Locals /\ l.id = id /\ l.doc = doc /\ l.meta = first /\ l.base = 0
  BY <1>2, <1>3, <1>4, Kinds DEF Locals, NoLocals
<1>7. PlacedAt(op, "recording", l) /\ "recording" \in Places
  BY <1>1, <1>2, <1>3, <1>4, <1>6 DEF PlacedAt, Prepared, Places, Writing, Still, Written, Reconciling
<1> HIDE DEF l
<1>8. at' \in [Ops -> Places] /\ loc' \in [Ops -> Locals] /\ Placed'
  BY <1>5, <1>6, <1>7, OneMoves
<1>9. loc'[op] = l
  BY <1>5 DEF Typed, Counted
<1> QED BY <1>2, <1>6, <1>8, <1>9 DEF CreateNamed, disk, Typed, Stored, Counted

\* An update is refused.
LEMMA ReviseRefusedTyped == ASSUME Typed, NEW op \in Ops, ReviseRefused(op) PROVE Typed'
BY OneEnds, Kinds DEF ReviseRefused, disk, Typed, Stored, Counted

\* The document an update makes: what is current, and the update.
LEMMA RevisesTyped ==
  ASSUME Typed, NEW op \in Ops, Revises(op)
  PROVE  /\ Typed'
         /\ LET current == IF FileOf(op).valid THEN FileOf(op) ELSE Recorded(op) IN
            /\ current \in Contents /\ FileOf(op) \in Contents
            /\ loc'[op].doc = [current EXCEPT !.has = current.has \cup {op}] /\ loc'[op].read = FileOf(op)
            /\ loc'[op].id = loc[op].id /\ loc'[op].base = loc[op].base /\ loc[op].base = loc[op].meta.revision
            /\ loc'[op].meta.file = loc[op].meta.file /\ loc'[op].meta.revision = loc[op].meta.revision + 1
            /\ ~FileOf(op).valid => at'[op] = "keeping"
            /\ at'[op] \in {"keeping", "recording"}
<1> DEFINE current == IF FileOf(op).valid THEN FileOf(op) ELSE Recorded(op)
           doc == Changed(op, current)
           next == [loc[op].meta EXCEPT !.revision = loc[op].meta.revision + 1]
           l == [loc[op] EXCEPT !.read = FileOf(op), !.meta = next, !.doc = doc]
           a == IF FileOf(op).valid THEN "recording" ELSE "keeping"
<1>1. /\ at[op] = "file" /\ Kind[op] = "revise" /\ FileOf(op) # None
      /\ loc[op].base = loc[op].meta.revision /\ loc[op].meta.revision < MaxRevision
      /\ FileOf(op).valid \/ Recorded(op) # None
      /\ loc' = [loc EXCEPT ![op] = l] /\ at' = [at EXCEPT ![op] = a]
      /\ UNCHANGED <<disk, locks, rec, answer, crashes, faults, since>>
  BY DEF Revises, Set, Goto
<1>2. /\ loc[op] \in Locals /\ loc[op].id \in Ids /\ loc[op].id = Aim[op] /\ op \in Calls
      /\ loc[op].meta \in Metas
  BY <1>1, Reading
<1>3. FileOf(op) \in Contents /\ current \in Contents
  BY <1>1, FileRead, Kinds
<1>10. current.valid /\ current \in Docs
  BY <1>1, <1>3, FileRead DEF Docs
<1>4. next \in Metas /\ next.revision = loc[op].meta.revision + 1 /\ next.file = loc[op].meta.file
  BY <1>1, <1>2, Kinds DEF Metas
<1> HIDE DEF current, next
<1>5. doc \in Docs /\ doc \in Contents /\ doc.valid = current.valid
        /\ doc = [current EXCEPT !.has = current.has \cup {op}]
  BY <1>1, <1>2, <1>3, <1>10 DEF Changed, Contents, Changes, Docs
<1> HIDE DEF doc
<1>6. l \in Locals /\ l.read = FileOf(op) /\ l.meta = next /\ l.doc = doc /\ l.id = loc[op].id
        /\ l.base = loc[op].base
  BY <1>2, <1>3, <1>4, <1>5 DEF Locals
<1>7. PlacedAt(op, a, l) /\ a \in Places
  BY <1>1, <1>2, <1>3, <1>4, <1>5, <1>6 DEF PlacedAt, Prepared, Places, Writing, Still, Written, Reconciling
<1> HIDE DEF l, a
<1>8. at' \in [Ops -> Places] /\ loc' \in [Ops -> Locals] /\ Placed' /\ loc'[op] = l /\ at'[op] = a
  <2>1. loc \in [Ops -> Locals] /\ at \in [Ops -> Places]
    BY DEF Typed, Counted
  <2> QED BY <1>1, <1>6, <1>7, <2>1, OneMoves
<1>9. Typed'
  BY <1>1, <1>8 DEF disk, Typed, Stored, Counted
<1> QED BY <1>1, <1>3, <1>4, <1>5, <1>6, <1>8, <1>9 DEF a, current

\* Where a call that writes is, and what it writes.
LEMMA Writes ==
  ASSUME Typed, NEW op \in Ops, at[op] \in {"keeping"} \cup Written
  PROVE  /\ op \in Calls /\ Kind[op] \in {"create", "revise"} /\ loc[op] \in Locals /\ Prepared(op, loc[op])
         /\ loc[op].id \in Ids /\ loc[op].meta \in Metas /\ loc[op].doc \in Docs /\ loc[op].doc \in Contents
         /\ loc[op].meta.revision \in 1..MaxRevision /\ loc[op].meta.file \in Names
         /\ at[op] = "keeping" => loc[op].read \in Contents /\ ~loc[op].read.valid
<1>1. op \in Calls /\ Kind[op] \in {"create", "revise"} /\ loc[op] \in Locals /\ Prepared(op, loc[op])
  BY DEF Typed, Counted, Placed, PlacedAt, Still, Written
<1>2. loc[op].id \in Ids /\ loc[op].meta \in Metas /\ loc[op].doc \in Docs /\ loc[op].doc \in Contents
  BY <1>1, Kinds DEF Prepared
<1>3. loc[op].meta.revision \in 1..MaxRevision /\ loc[op].meta.file \in Names
  BY <1>2 DEF Metas
<1>4. at[op] = "keeping" => loc[op].read \in Contents /\ ~loc[op].read.valid
  BY DEF Typed, Placed, PlacedAt
<1> QED BY <1>1, <1>2, <1>3, <1>4

\* A call that writes goes on to its next file.
LEMMA WritesNext ==
  ASSUME Typed, NEW op \in Ops, at[op] \in {"keeping"} \cup Written, NEW a \in Written,
         at' = [at EXCEPT ![op] = a], loc' = loc
  PROVE  at' \in [Ops -> Places] /\ loc' \in [Ops -> Locals] /\ Placed'
<1>1. PlacedAt(op, a, loc[op]) /\ a \in Places
  BY Writes DEF PlacedAt, Places, Writing, Still, Written, Reconciling
<1> QED BY <1>1, OneGoes

\* The person's text is kept in a copy.
LEMMA KeepsTyped == ASSUME Typed, NEW op \in Ops, Keeps(op) PROVE Typed'
<1>1. copies' \in [Ids -> SUBSET Contents]
  BY Writes DEF Keeps, Typed, Stored
<1>2. at' \in [Ops -> Places] /\ loc' \in [Ops -> Locals] /\ Placed'
  BY WritesNext DEF Keeps, Goto, Written
<1> QED BY <1>1, <1>2 DEF Keeps, Typed, Stored, Counted

\* A revision's file is written, once.
LEMMA RecordsTyped == ASSUME Typed, NEW op \in Ops, Records(op) PROVE Typed'
<1>1. at[op] = "recording" /\ UNCHANGED <<folder, meta, copies, rec, crashes, faults, since>>
  BY DEF Records
<1> DEFINE what == [NoAnswer EXCEPT !.outcome = "taken", !.id = loc[op].id, !.revision = loc[op].meta.revision]
<1>2. CASE Ends(op, what) /\ UNCHANGED <<dirs, history>>
  <2>0. loc[op].id \in Ids /\ loc[op].meta.revision \in Nat
    BY <1>1, Writes DEF Written
  <2>1. what \in Answers
    BY <2>0, Kinds DEF Answers
  <2> QED BY <1>1, <1>2, <2>1, OneEnds DEF Typed, Stored, Counted
<1>3. CASE /\ dirs' = dirs \cup {loc[op].id}
           /\ history' = [history EXCEPT ![loc[op].id][loc[op].meta.revision] = loc[op].doc]
           /\ Goto(op, "placing") /\ UNCHANGED <<loc, answer>>
  <2>1. dirs' \subseteq Ids /\ history' \in [Ids -> [1..MaxRevision -> Docs \cup {None}]]
    BY <1>1, <1>3, Writes DEF Typed, Stored, Written
  <2>2. at' \in [Ops -> Places] /\ loc' \in [Ops -> Locals] /\ Placed'
    BY <1>1, <1>3, WritesNext DEF Goto, Written
  <2> QED BY <1>1, <1>3, <2>1, <2>2 DEF Typed, Stored, Counted
<1> QED BY <1>2, <1>3 DEF Records

\* The readable file is replaced.
LEMMA PlacesFileTyped == ASSUME Typed, NEW op \in Ops, PlacesFile(op) PROVE Typed'
<1>1. folder' \in [Names -> Contents \cup {None}]
  BY Writes DEF PlacesFile, Written, Typed, Stored
<1>2. at' \in [Ops -> Places] /\ loc' \in [Ops -> Locals] /\ Placed'
  BY WritesNext DEF PlacesFile, Goto, Written
<1> QED BY <1>1, <1>2 DEF PlacesFile, Typed, Stored, Counted

\* The meta is written, and the call answered.
LEMMA ClaimsTyped == ASSUME Typed, NEW op \in Ops, Claims(op) PROVE Typed'
<1>1. meta' \in [Ids -> Metas \cup {None}]
  BY Writes DEF Claims, Written, Typed, Stored
<1>2. Told(loc[op]) \in Answers
  <2>1. /\ loc[op].id \in Ids /\ loc[op].base \in Nat /\ loc[op].meta.revision \in Nat
        /\ loc[op].doc \in Contents
    BY Writes DEF Claims, Written, Locals
  <2> QED BY <2>1, Kinds DEF Told, Answers
<1> QED BY <1>1, <1>2, OneEnds DEF Claims, Typed, Stored, Counted

\* A write fails and its call with it.
LEMMA FailsTyped == ASSUME Typed, NEW op \in Ops, Fails(op) PROVE Typed'
<1>1. [NoAnswer EXCEPT !.outcome = "failed"] \in Answers
  BY Kinds DEF Answers
<1>2. rec' \in Recs /\ faults' \in Nat
  BY Kinds DEF Fails, Typed, Counted
<1> QED BY <1>1, <1>2, OneEnds DEF Fails, disk, Typed, Stored, Counted

\* The process dies.
LEMMA CrashTyped == ASSUME Typed, Crash PROVE Typed'
<1>1. NoLocals \in Locals /\ "done" \in Places /\ \A op \in Ops : PlacedAt(op, "done", NoLocals)
  BY Kinds DEF PlacedAt, Places, NoLocals, Still, Written, Reconciling
<1>2. at' \in [Ops -> Places] /\ loc' \in [Ops -> Locals]
  BY <1>1 DEF Crash, Typed, Counted
<1>3. Placed'
  <2> SUFFICES ASSUME NEW op \in Ops PROVE PlacedAt(op, at'[op], loc'[op])
    BY DEF Placed
  <2> QED BY <1>1 DEF Crash, Typed, Placed
<1> QED BY <1>2, <1>3, Kinds DEF Crash, disk, Typed, Stored, Counted

\* What the person does to a file, and to the history variable of what was written.
LEMMA PersonMovesTyped == ASSUME Typed, NEW op \in Ops, PersonMoves(op) PROVE Typed'
<1>1. op \in Person /\ at[op] = "new" /\ loc[op] = NoLocals
        /\ UNCHANGED <<dirs, history, meta, copies, locks, loc, rec, crashes, faults>>
  BY DEF PersonMoves, Typed, Placed, PlacedAt, Still
<1>2. folder' \in [Names -> Contents \cup {None}]
  <2>1. folder \in [Names -> Contents \cup {None}]
    BY DEF Typed, Stored
  <2>2. /\ Kind[op] \in {"edit", "spoil", "drop", "rename", "delete"} => Aim[op] \in Names
        /\ Kind[op] = "rename" => To[op] \in Names
    BY PlanningStoreAssumption DEF PlanningStoreAssumption
  <2>3. CASE \E stays \in BOOLEAN : Kind[op] \in {"edit", "spoil"} /\ folder[Aim[op]] # None
                                    /\ folder' = [folder EXCEPT ![Aim[op]] = Edited(op, stays)]
    <3>1. folder[Aim[op]] \in Contents /\ op \in Changes
      BY <2>1, <2>2, <2>3 DEF Changes
    <3>2. \A stays \in BOOLEAN : Edited(op, stays) \in Contents
      BY <3>1 DEF Edited, Contents
    <3> QED BY <2>1, <2>3, <3>2
  <2>4. CASE Kind[op] = "drop" /\ folder' = [folder EXCEPT ![Aim[op]] = [title |-> Aim[op][1], has |-> {op}, valid |-> TRUE]]
    <3>1. Aim[op][1] \in Titles /\ op \in Changes
      BY <2>2, <2>4 DEF Names, Changes
    <3>2. [title |-> Aim[op][1], has |-> {op}, valid |-> TRUE] \in Contents
      BY <3>1 DEF Contents
    <3> QED BY <2>1, <2>4, <3>2
  <2>5. CASE Kind[op] = "rename" /\ folder' = [folder EXCEPT ![Aim[op]] = None, ![To[op]] = folder[Aim[op]]]
    BY <2>1, <2>2, <2>5
  <2>6. CASE Kind[op] = "delete" /\ folder' = [folder EXCEPT ![Aim[op]] = None]
    BY <2>1, <2>2, <2>6
  <2> QED BY <2>3, <2>4, <2>5, <2>6 DEF PersonMoves, Moves
<1>3. answer' \in [Ops -> Answers]
  <2>1. \A b \in {"seen", "unseen"} : [NoAnswer EXCEPT !.outcome = b] \in Answers
    BY Kinds DEF Answers
  <2> QED BY <2>1 DEF PersonMoves, Typed, Counted
<1>4. at' \in [Ops -> Places] /\ loc' \in [Ops -> Locals] /\ Placed'
  <2>1. PlacedAt(op, "done", loc[op]) /\ "done" \in Places
    BY <1>1 DEF PlacedAt, Places, NoLocals, Still, Written, Reconciling
  <2> QED BY <1>1, <2>1, OneGoes DEF PersonMoves, Goto
<1> QED BY <1>1, <1>2, <1>3, <1>4 DEF PersonMoves, Typed, Stored, Counted

\* The types hold of an empty folder.
LEMMA InitTyped == Init => Typed
<1> SUFFICES ASSUME Init PROVE Typed
  OBVIOUS
<1>1. Stored
  BY DEF Init, Stored
<1>2. at \in [Ops -> Places] /\ \A op \in Ops : at[op] \in Still
  BY DEF Init, Places, Still
<1>3. loc \in [Ops -> Locals] /\ Placed
  <2>1. \A op \in Ops : \A a \in Still : PlacedAt(op, a, NoLocals)
    BY DEF PlacedAt, NoLocals, Still, Written, Reconciling
  <2> QED BY <1>2, <2>1, Kinds DEF Init, Placed
<1> QED BY <1>1, <1>2, <1>3, Kinds DEF Init, Typed, Counted

\* The types are kept by every step.
LEMMA NextTyped == Typed /\ Reconciled /\ [Next]_vars => Typed'
<1> SUFFICES ASSUME Typed, Reconciled, [Next]_vars PROVE Typed'
  OBVIOUS
<1>1. CASE UNCHANGED vars
  BY <1>1 DEF vars, disk, locks, Typed, Stored, Counted, Placed
<1>2. CASE Crash
  BY <1>2, CrashTyped
<1>3. ASSUME NEW op \in Ops, Called(op) \/ Server(op) \/ Fails(op) \/ PersonMoves(op) PROVE Typed'
  BY <1>3, CalledTyped, LockedTyped, ReconcileStartsTyped, ReconcileReadsMetaTyped, ReconcileLooksTyped,
     ReconcileListsTyped, ReconcileReadsTyped, RefiledTyped, AdoptsTyped, AdoptedTyped, ReadsMetaTyped,
     FileMissingTyped, GetsTyped, CreateNamedTyped, ReviseRefusedTyped, RevisesTyped, KeepsTyped, RecordsTyped,
     PlacesFileTyped, ClaimsTyped, FailsTyped, PersonMovesTyped
  DEF Server, Reconcile
<1> QED BY <1>1, <1>2, <1>3 DEF Next

-----------------------------------------------------------------------------
(* Who holds a lock                                                        *)

\* A call holds the folder's lock while it reconciles and while it creates, an update its
\* planning's until it ends; it waits for each at one place.
HoldsAt(op, a) == a \in Reconciling \/ (Kind[op] = "create" /\ a \in Written)
InFolder == {op \in Calls : at[op] = "folder" \/ HoldsAt(op, at[op])}
FolderHolders == {op \in Calls : HoldsAt(op, at[op])}
Updates(i) == {op \in Calls : Kind[op] = "revise" /\ Aim[op] = i}
InPlanning(i) == {op \in Updates(i) : at[op] \notin Still}
PlanningHolders(i) == {op \in Updates(i) : at[op] \notin Still \cup {"planning"}}

\* A lock's queue: those in W, each once; who holds it is at the head.
Orderly(q, W, H) ==
  /\ q \in Seq(Calls)
  /\ \A k \in 1..Len(q) : q[k] \in W
  /\ \A j, k \in 1..Len(q) : q[j] = q[k] => j = k
  /\ \A w \in W : \E k \in 1..Len(q) : q[k] = w
  /\ \A h \in H : h \in W /\ q[1] = h
FolderOrdered == Orderly(folderLock, InFolder, FolderHolders)
PlanningsOrdered ==
  /\ planningLock = [i \in Ids |-> planningLock[i]]
  /\ \A i \in Ids : Orderly(planningLock[i], InPlanning(i), PlanningHolders(i))
Locks == FolderOrdered /\ PlanningsOrdered

\* locked (line 169): who comes waits at the end.
LEMMA QueueJoined ==
  ASSUME NEW q, NEW W, NEW H, Orderly(q, W, H), NEW op \in Calls, op \notin W
  PROVE  Orderly(Joins(q, op), W \cup {op}, H)
<1> DEFINE n == Len(q)
           p == Append(q, op)
<1>1. /\ q \in Seq(Calls) /\ n \in Nat /\ p \in Seq(Calls) /\ Len(p) = n + 1 /\ p[n + 1] = op
      /\ \A k \in 1..n : p[k] = q[k]
  BY DEF Orderly
<1> HIDE DEF p, n
<1>2. \A k \in 1..n : q[k] \in W
  BY DEF Orderly, n
<1>3. \A k \in 1..Len(p) : p[k] \in W \cup {op}
  BY <1>1, <1>2
<1>4. \A j, k \in 1..Len(p) : p[j] = p[k] => j = k
  <2>1. \A j, k \in 1..n : q[j] = q[k] => j = k
    BY DEF Orderly, n
  <2> QED BY <1>1, <1>2, <2>1
<1>5. \A w \in W \cup {op} : \E k \in 1..Len(p) : p[k] = w
  <2>1. \A w \in W : \E k \in 1..n : q[k] = w
    BY DEF Orderly, n
  <2> QED BY <1>1, <2>1
<1>6. \A h \in H : h \in W /\ p[1] = h
  <2> SUFFICES ASSUME NEW h \in H PROVE h \in W /\ p[1] = h
    OBVIOUS
  <2>1. h \in W /\ q[1] = h
    BY DEF Orderly
  <2>2. \E k \in 1..n : q[k] = h
    BY <2>1 DEF Orderly, n
  <2> QED BY <1>1, <2>1, <2>2
<1> QED BY <1>1, <1>3, <1>4, <1>5, <1>6 DEF Orderly, Joins, p

\* Who is at the head leaves, and the next one may go.
LEMMA QueueLeft ==
  ASSUME NEW q, NEW W, NEW H, Orderly(q, W, H), NEW op \in H
  PROVE  /\ Orderly(Without(q, op), W \ {op}, {}) /\ H = {op}
<1> DEFINE n == Len(q)
           p == Tail(q)
<1>1. q \in Seq(Calls) /\ n \in Nat /\ q[1] = op /\ op \in W /\ H = {op}
  BY DEF Orderly
<1>2. n # 0
  BY <1>1 DEF Orderly
<1>3. /\ q # <<>> /\ Head(q) = op /\ p \in Seq(Calls) /\ Len(p) = n - 1
      /\ \A k \in 1..(n - 1) : p[k] = q[k + 1]
  BY <1>1, <1>2
<1> HIDE DEF p, n
<1>4. \A j, k \in 1..n : q[j] = q[k] => j = k
  BY DEF Orderly, n
<1>5. \A k \in 1..Len(p) : p[k] \in W \ {op}
  <2>1. \A k \in 1..n : q[k] \in W
    BY DEF Orderly, n
  <2> QED BY <1>1, <1>2, <1>3, <1>4, <2>1
<1>6. \A j, k \in 1..Len(p) : p[j] = p[k] => j = k
  BY <1>1, <1>2, <1>3, <1>4
<1>7. \A w \in W \ {op} : \E k \in 1..Len(p) : p[k] = w
  <2> SUFFICES ASSUME NEW w \in W \ {op} PROVE \E k \in 1..Len(p) : p[k] = w
    OBVIOUS
  <2>1. PICK k \in 1..n : q[k] = w
    BY DEF Orderly, n
  <2>2. k # 1 /\ k - 1 \in 1..(n - 1)
    BY <1>1, <2>1
  <2>3. p[k - 1] = q[k]
    BY <1>1, <1>3, <2>1, <2>2
  <2> QED BY <1>1, <1>3, <2>1, <2>2, <2>3
<1>8. Without(q, op) = p
  BY <1>3 DEF Without, p
<1> QED BY <1>1, <1>3, <1>5, <1>6, <1>7, <1>8 DEF Orderly

\* Who is not in a queue leaves it as it is.
LEMMA QueueNotLeft ==
  ASSUME NEW q, NEW W, NEW H, Orderly(q, W, H), NEW op, op \notin W
  PROVE  Without(q, op) = q
<1>1. q # <<>> => Head(q) \in W
  <2> SUFFICES ASSUME q # <<>> PROVE Head(q) \in W
    OBVIOUS
  <2>1. q \in Seq(Calls)
    BY DEF Orderly
  <2>2. Head(q) = q[1] /\ 1 \in 1..Len(q)
    BY <2>1
  <2> QED BY <2>2 DEF Orderly
<1> QED BY <1>1 DEF Without

\* Who waits at the head may go on, and holds the lock then.
LEMMA QueueTaken ==
  ASSUME NEW q, NEW W, NEW H, Orderly(q, W, H), NEW op \in W, Head(q) = op
  PROVE  Orderly(q, W, H \cup {op})
<1>1. q \in Seq(Calls) /\ q # <<>>
  BY DEF Orderly
<1>2. q[1] = op
  BY <1>1
<1> QED BY <1>2 DEF Orderly

\* Whoever holds a lock is at the head of its queue, and alone.
LEMMA QueueHead ==
  ASSUME NEW q, NEW W, NEW H, Orderly(q, W, H), NEW op \in H
  PROVE  q # <<>> /\ Head(q) = op /\ \A h \in H : h = op
<1>1. q \in Seq(Calls) /\ q[1] = op /\ op \in W
  BY DEF Orderly
<1>2. q # <<>>
  BY <1>1 DEF Orderly
<1> QED BY <1>1, <1>2 DEF Orderly

\* The folder's lock, when a call goes from where it is to `a`.
LEMMA FolderKept ==
  ASSUME Typed, FolderOrdered, NEW op \in Ops, NEW a, at' = [at EXCEPT ![op] = a], folderLock' = folderLock,
         op \in Calls => ((a = "folder") <=> (at[op] = "folder")) /\ (HoldsAt(op, a) <=> HoldsAt(op, at[op]))
  PROVE  FolderOrdered'
<1>1. InFolder' = InFolder /\ FolderHolders' = FolderHolders
  BY Calling DEF InFolder, FolderHolders, Typed, Counted
<1> QED BY <1>1 DEF FolderOrdered
\* A call joins the queue for the folder.
LEMMA FolderJoined ==
  ASSUME Typed, FolderOrdered, NEW op \in Calls, at' = [at EXCEPT ![op] = "folder"],
         folderLock' = Joins(folderLock, op), at[op] # "folder", ~HoldsAt(op, at[op])
  PROVE  FolderOrdered'
<1>1. ~HoldsAt(op, "folder")
  BY DEF HoldsAt, Reconciling, Written
<1>2. InFolder' = InFolder \cup {op} /\ FolderHolders' = FolderHolders /\ op \notin InFolder
  BY <1>1, Calling DEF InFolder, FolderHolders, Typed, Counted
<1> QED BY <1>2, QueueJoined DEF FolderOrdered
\* The call at its head takes the folder.
LEMMA FolderTaken ==
  ASSUME Typed, FolderOrdered, NEW op \in Calls, NEW a, at' = [at EXCEPT ![op] = a], folderLock' = folderLock,
         at[op] = "folder", Head(folderLock) = op, HoldsAt(op, a)
  PROVE  FolderOrdered'
<1>1. InFolder' = InFolder /\ FolderHolders' = FolderHolders \cup {op} /\ op \in InFolder
  BY Calling DEF InFolder, FolderHolders, Typed, Counted
<1> QED BY <1>1, QueueTaken DEF FolderOrdered
\* A call that ends leaves the folder, whether it held it or was not in it.
LEMMA FolderLeft ==
  ASSUME Typed, FolderOrdered, NEW op \in Calls, NEW a, at' = [at EXCEPT ![op] = a],
         folderLock' = Without(folderLock, op), at[op] # "folder", a # "folder", ~HoldsAt(op, a)
  PROVE  FolderOrdered'
<1>1. InFolder' = InFolder \ {op} /\ FolderHolders' = FolderHolders \ {op}
  BY Calling DEF InFolder, FolderHolders, Typed, Counted
<1>2. CASE op \in FolderHolders
  <2>1. Orderly(Without(folderLock, op), InFolder \ {op}, {}) /\ FolderHolders = {op}
    BY <1>2, QueueLeft DEF FolderOrdered
  <2>2. FolderHolders \ {op} = {}
    BY <2>1
  <2> QED BY <1>1, <2>1, <2>2 DEF FolderOrdered
<1>3. CASE op \notin FolderHolders
  <2>1. op \notin InFolder
    BY <1>3 DEF InFolder, FolderHolders
  <2>2. Without(folderLock, op) = folderLock
    BY <2>1, QueueNotLeft DEF FolderOrdered
  <2>3. InFolder \ {op} = InFolder /\ FolderHolders \ {op} = FolderHolders
    BY <1>3, <2>1
  <2> QED BY <1>1, <2>2, <2>3 DEF FolderOrdered
<1> QED BY <1>2, <1>3

\* The locks of the plannings, likewise.
LEMMA PlanningsKept ==
  ASSUME Typed, PlanningsOrdered, NEW op \in Ops, NEW a, at' = [at EXCEPT ![op] = a], planningLock' = planningLock,
         op \in Calls /\ Kind[op] = "revise" => /\ (a \in Still) <=> (at[op] \in Still)
                                                /\ (a = "planning") <=> (at[op] = "planning")
  PROVE  PlanningsOrdered'
<1>1. \A i \in Ids : InPlanning(i)' = InPlanning(i) /\ PlanningHolders(i)' = PlanningHolders(i)
  BY Calling DEF InPlanning, PlanningHolders, Updates, Typed, Counted
<1> QED BY <1>1 DEF PlanningsOrdered
\* An update joins its planning's queue.
LEMMA PlanningJoined ==
  ASSUME Typed, PlanningsOrdered, NEW op \in Calls, Kind[op] = "revise", at' = [at EXCEPT ![op] = "planning"],
         planningLock' = [planningLock EXCEPT ![Aim[op]] = Joins(planningLock[Aim[op]], op)], at[op] \in Still
  PROVE  PlanningsOrdered'
<1>0. Aim[op] \in Ids
  BY Calling
<1>1. \A i \in Ids : i # Aim[op] => InPlanning(i)' = InPlanning(i) /\ PlanningHolders(i)' = PlanningHolders(i)
  BY Calling DEF InPlanning, PlanningHolders, Updates, Typed, Counted
<1>2. /\ InPlanning(Aim[op])' = InPlanning(Aim[op]) \cup {op} /\ op \notin InPlanning(Aim[op])
      /\ PlanningHolders(Aim[op])' = PlanningHolders(Aim[op])
  BY Calling DEF InPlanning, PlanningHolders, Updates, Still, Typed, Counted
<1>3. Orderly(Joins(planningLock[Aim[op]], op), InPlanning(Aim[op]) \cup {op}, PlanningHolders(Aim[op]))
  BY <1>0, <1>2, QueueJoined DEF PlanningsOrdered
<1>4. /\ planningLock' = [i \in Ids |-> planningLock'[i]] /\ planningLock'[Aim[op]] = Joins(planningLock[Aim[op]], op)
      /\ \A i \in Ids : i # Aim[op] => planningLock'[i] = planningLock[i]
  BY <1>0 DEF PlanningsOrdered
<1> QED BY <1>1, <1>2, <1>3, <1>4 DEF PlanningsOrdered
\* The update at its head takes the planning.
LEMMA PlanningTaken ==
  ASSUME Typed, PlanningsOrdered, NEW op \in Calls, Kind[op] = "revise", at' = [at EXCEPT ![op] = "meta"],
         planningLock' = planningLock, at[op] = "planning", Head(planningLock[Aim[op]]) = op
  PROVE  PlanningsOrdered'
<1>0. Aim[op] \in Ids
  BY Calling
<1>1. \A i \in Ids : i # Aim[op] => InPlanning(i)' = InPlanning(i) /\ PlanningHolders(i)' = PlanningHolders(i)
  BY Calling DEF InPlanning, PlanningHolders, Updates, Typed, Counted
<1>2. /\ InPlanning(Aim[op])' = InPlanning(Aim[op]) /\ op \in InPlanning(Aim[op])
      /\ PlanningHolders(Aim[op])' = PlanningHolders(Aim[op]) \cup {op}
  BY Calling DEF InPlanning, PlanningHolders, Updates, Still, Typed, Counted
<1>3. Orderly(planningLock[Aim[op]], InPlanning(Aim[op]), PlanningHolders(Aim[op]) \cup {op})
  BY <1>0, <1>2, QueueTaken DEF PlanningsOrdered
<1> QED BY <1>1, <1>2, <1>3 DEF PlanningsOrdered
\* A call that ends leaves its planning's queue.
LEMMA PlanningLeft ==
  ASSUME Typed, PlanningsOrdered, NEW op \in Calls, at' = [at EXCEPT ![op] = "done"],
         planningLock' = [i \in Ids |-> Without(planningLock[i], op)], at[op] \notin Still \cup {"planning"}
  PROVE  PlanningsOrdered'
<1> SUFFICES ASSUME NEW i \in Ids PROVE Orderly(planningLock'[i], InPlanning(i)', PlanningHolders(i)')
  BY DEF PlanningsOrdered
<1>1. /\ InPlanning(i)' = InPlanning(i) \ {op} /\ PlanningHolders(i)' = PlanningHolders(i) \ {op}
      /\ op \in InPlanning(i) => op \in PlanningHolders(i)
  BY Calling DEF InPlanning, PlanningHolders, Updates, Still, Typed, Counted
<1>2. Orderly(planningLock[i], InPlanning(i), PlanningHolders(i)) /\ planningLock'[i] = Without(planningLock[i], op)
  BY DEF PlanningsOrdered
<1>3. CASE op \in PlanningHolders(i)
  <2>1. Orderly(planningLock'[i], InPlanning(i) \ {op}, {}) /\ PlanningHolders(i) = {op}
    BY <1>2, <1>3, QueueLeft
  <2>2. PlanningHolders(i) \ {op} = {}
    BY <2>1
  <2> QED BY <1>1, <2>1, <2>2
<1>4. CASE op \notin PlanningHolders(i)
  <2>1. op \notin InPlanning(i)
    BY <1>1, <1>4
  <2>2. planningLock'[i] = planningLock[i]
    BY <1>2, <2>1, QueueNotLeft
  <2>3. InPlanning(i) \ {op} = InPlanning(i) /\ PlanningHolders(i) \ {op} = PlanningHolders(i)
    BY <1>4, <2>1
  <2> QED BY <1>1, <1>2, <2>2, <2>3
<1> QED BY <1>3, <1>4

\* A call that ends lets go of both locks: it was not waiting for either.
LEMMA EndsOrdered ==
  ASSUME Typed, Locks, NEW op \in Calls, NEW what, Ends(op, what), at[op] \notin Still \cup {"planning", "folder"}
  PROVE  Locks'
<1>1. ~HoldsAt(op, "done")
  BY DEF HoldsAt, Reconciling, Written
<1>2. at' = [at EXCEPT ![op] = "done"] /\ Leaves(op)
  BY DEF Ends, Goto
<1>3. FolderOrdered'
  BY <1>1, <1>2, FolderLeft DEF Leaves, Locks
<1>4. PlanningsOrdered'
  BY <1>2, PlanningLeft DEF Leaves, Locks
<1> QED BY <1>3, <1>4 DEF Locks

\* A step within what a call does under the locks it has.
LEMMA Within ==
  ASSUME Typed, Locks, NEW op \in Ops, NEW a, at' = [at EXCEPT ![op] = a], UNCHANGED locks,
         {a, at[op]} \subseteq Reconciling \/ {a, at[op]} \subseteq Written \/ {a, at[op]} \subseteq {"meta", "file"}
           \/ (at[op] \in {"file", "keeping"} /\ a \in {"keeping", "recording"} /\ Kind[op] # "create")
  PROVE  Locks'
<1>1. FolderOrdered'
  <2>1. (a = "folder") <=> (at[op] = "folder")
    BY DEF Reconciling, Written
  <2>2. HoldsAt(op, a) <=> HoldsAt(op, at[op])
    BY DEF HoldsAt, Reconciling, Written
  <2> QED BY <2>1, <2>2, FolderKept DEF locks, Locks
<1>2. PlanningsOrdered'
  <2>1. /\ (a \in Still) <=> (at[op] \in Still)
        /\ (a = "planning") <=> (at[op] = "planning")
    BY DEF Reconciling, Written, Still
  <2> QED BY <2>1, PlanningsKept DEF locks, Locks
<1> QED BY <1>1, <1>2 DEF Locks

\* Every step of the store leaves the locks in order.
LEMMA CalledOrdered == ASSUME Typed, Locks, NEW op \in Ops, Called(op) PROVE Locks'
<1>1. op \in Calls /\ at[op] = "new" /\ at[op] \in Still /\ ~HoldsAt(op, "new")
  BY DEF Called, HoldsAt, Reconciling, Written, Still
<1>2. CASE /\ Kind[op] \in {"create", "list"} /\ folderLock' = Joins(folderLock, op) /\ Goto(op, "folder")
           /\ UNCHANGED planningLock
  <2>1. FolderOrdered'
    BY <1>1, <1>2, FolderJoined DEF Goto, Locks
  <2>2. PlanningsOrdered'
    BY <1>1, <1>2, PlanningsKept DEF Goto, Locks
  <2> QED BY <2>1, <2>2 DEF Locks
<1>3. CASE Kind[op] = "get" /\ Goto(op, "meta") /\ UNCHANGED locks
  <2>1. ~HoldsAt(op, "meta")
    BY DEF HoldsAt, Reconciling, Written
  <2>2. FolderOrdered'
    BY <1>1, <1>3, <2>1, FolderKept DEF Goto, Locks, locks
  <2>3. PlanningsOrdered'
    BY <1>1, <1>3, PlanningsKept DEF Goto, Locks, locks
  <2> QED BY <2>2, <2>3 DEF Locks
<1>4. CASE /\ Kind[op] = "revise" /\ Goto(op, "planning") /\ UNCHANGED folderLock
           /\ planningLock' = [planningLock EXCEPT ![Aim[op]] = Joins(planningLock[Aim[op]], op)]
  <2>1. ~HoldsAt(op, "planning")
    BY DEF HoldsAt, Reconciling, Written
  <2>2. FolderOrdered'
    BY <1>1, <1>4, <2>1, FolderKept DEF Goto, Locks
  <2>3. PlanningsOrdered'
    BY <1>1, <1>4, PlanningJoined DEF Goto, Locks
  <2> QED BY <2>2, <2>3 DEF Locks
<1> QED BY <1>2, <1>3, <1>4 DEF Called

\* The update that takes its planning's lock leaves the folder's as it is.
LEMMA LockedOrdered == ASSUME Typed, Locks, NEW op \in Ops, Locked(op) PROVE Locks'
<1>1. op \in Calls /\ Kind[op] = "revise"
  BY DEF Locked, Typed, Placed, PlacedAt, Still
<1>2. ~HoldsAt(op, "meta") /\ ~HoldsAt(op, "planning")
  BY DEF HoldsAt, Reconciling, Written
<1>3. FolderOrdered'
  BY <1>2, FolderKept DEF Locked, Goto, Locks, locks
<1>4. PlanningsOrdered'
  BY <1>1, PlanningTaken DEF Locked, Goto, Locks, locks
<1> QED BY <1>3, <1>4 DEF Locks

\* The folder's lock is taken by whoever reconciles or creates.
LEMMA FolderEntered ==
  ASSUME Typed, Locks, NEW op \in Ops, at[op] = "folder", Head(folderLock) = op, NEW a, HoldsAt(op, a),
         Goto(op, a), UNCHANGED locks
  PROVE  Locks'
<1>1. op \in Calls
  BY DEF Typed, Placed, PlacedAt, Still
<1>2. FolderOrdered'
  BY <1>1, FolderTaken DEF Goto, Locks, locks
<1>3. (a \in Still <=> at[op] \in Still) /\ (a = "planning" <=> at[op] = "planning")
  BY DEF HoldsAt, Reconciling, Written, Still
<1>4. PlanningsOrdered'
  BY <1>3, PlanningsKept DEF Goto, Locks, locks
<1> QED BY <1>2, <1>4 DEF Locks

\* A reconcile that is over releases the folder, and only then.
LEMMA NextEntryOrdered ==
  ASSUME Typed, Locks, NEW op \in Ops, at[op] \in Reconciling, NEW r, NextEntry(op, r)
  PROVE  Locks'
<1>1. op \in Calls /\ at[op] \notin Still \cup {"planning", "folder"} /\ "entries" \in Reconciling
        /\ Kind[op] # "create"
  BY DEF Typed, Placed, PlacedAt, Still, Reconciling
<1>2. CASE Goto(op, "entries") /\ UNCHANGED locks
  <2>1. {"entries", at[op]} \subseteq Reconciling
    BY <1>1
  <2> QED BY <1>2, <2>1, Within DEF Goto
<1>3. ASSUME NEW what, Ends(op, what) PROVE Locks'
  BY <1>1, <1>3, EndsOrdered
<1>4. CASE Goto(op, "meta") /\ folderLock' = Without(folderLock, op) /\ UNCHANGED planningLock
  <2>1. ~HoldsAt(op, "meta")
    BY DEF HoldsAt, Reconciling, Written
  <2>2. FolderOrdered'
    BY <1>1, <1>4, <2>1, FolderLeft DEF Goto, Locks
  <2>3. PlanningsOrdered'
    <3>1. "meta" \notin Still
      BY DEF Still
    <3> QED BY <1>1, <1>4, <3>1, PlanningsKept DEF Goto, Locks
  <2> QED BY <2>2, <2>3 DEF Locks
<1> QED BY <1>2, <1>3, <1>4 DEF NextEntry

\* A reconcile keeps the folder for itself.
LEMMA ReconcileOrdered == ASSUME Typed, Locks, NEW op \in Ops, Reconcile(op) PROVE Locks'
<1> USE DEF Reconciling
<1>1. CASE ReconcileStarts(op)
  <2>1. \A a \in {"files", "metas"} : HoldsAt(op, a)
    BY DEF HoldsAt
  <2>2. PICK a \in {"files", "metas"} : Goto(op, a)
    BY <1>1 DEF ReconcileStarts
  <2> QED BY <1>1, <2>1, <2>2, FolderEntered DEF ReconcileStarts, Reconciles
<1>2. CASE ReconcileReadsMeta(op)
  <2>1. PICK a \in {"files", "metas"} : Goto(op, a)
    BY <1>2 DEF ReconcileReadsMeta
  <2>2. {a, at[op]} \subseteq Reconciling /\ UNCHANGED locks
    BY <1>2 DEF ReconcileReadsMeta
  <2> QED BY <2>1, <2>2, Within DEF Goto
<1>3. CASE ReconcileLooks(op)
  <2>1. at' = [at EXCEPT ![op] = at[op]] /\ UNCHANGED locks /\ {at[op], at[op]} \subseteq Reconciling
    BY <1>3 DEF ReconcileLooks, Typed, Counted
  <2> QED BY <2>1, Within
<1>4. CASE ReconcileLists(op) \/ Refiled(op) \/ Adopted(op)
  <2>1. PICK r : NextEntry(op, r)
    BY <1>4 DEF ReconcileLists, Refiled, Adopted
  <2>2. at[op] \in Reconciling
    BY <1>4 DEF ReconcileLists, Refiled, Adopted
  <2> QED BY <2>1, <2>2, NextEntryOrdered
<1>5. CASE ReconcileReads(op)
  <2>1. at[op] \in Reconciling
    BY <1>5 DEF ReconcileReads
  <2>2. CASE \E r : NextEntry(op, r)
    BY <2>1, <2>2, NextEntryOrdered
  <2>3. CASE \E a \in {"refile", "adopting"} : Goto(op, a) /\ UNCHANGED locks
    <3>1. PICK a \in {"refile", "adopting"} : Goto(op, a) /\ UNCHANGED locks
      BY <2>3
    <3>2. {a, at[op]} \subseteq Reconciling
      BY <2>1
    <3> QED BY <3>1, <3>2, Within DEF Goto
  <2> QED BY <1>5, <2>2, <2>3 DEF ReconcileReads, locks
<1>6. CASE Adopts(op)
  <2>1. {"adopted", at[op]} \subseteq Reconciling
    BY <1>6 DEF Adopts
  <2> QED BY <1>6, <2>1, Within DEF Adopts, Goto
<1> QED BY <1>1, <1>2, <1>3, <1>4, <1>5, <1>6 DEF Reconcile

\* The other steps of a call keep the locks in order.
LEMMA CallOrdered ==
  ASSUME Typed, Locks, NEW op \in Ops,
         ReadsMeta(op) \/ FileMissing(op) \/ Gets(op) \/ CreateNamed(op) \/ ReviseRefused(op) \/ Revises(op)
           \/ Keeps(op) \/ Records(op) \/ PlacesFile(op) \/ Claims(op) \/ Fails(op)
  PROVE  Locks'
<1>0. at[op] \notin Still => op \in Calls
  BY DEF Typed, Placed, PlacedAt
<1>1. ASSUME NEW what, Ends(op, what), at[op] \notin Still \cup {"planning", "folder"} PROVE Locks'
  BY <1>0, <1>1, EndsOrdered
<1>2. CASE ReadsMeta(op)
  <2>1. CASE Ends(op, Refused)
    BY <1>1, <1>2, <2>1 DEF ReadsMeta, Still
  <2>2. CASE Goto(op, "file") /\ UNCHANGED locks
    BY <1>2, <2>2, Within DEF ReadsMeta, Goto
  <2> QED BY <1>2, <2>1, <2>2 DEF ReadsMeta
<1>3. CASE FileMissing(op)
  <2>1. CASE Ends(op, Refused)
    BY <1>1, <1>3, <2>1 DEF FileMissing, Still
  <2>2. CASE Goto(op, "folder") /\ folderLock' = Joins(folderLock, op) /\ UNCHANGED planningLock
    <3>1. op \in Calls /\ at[op] = "file" /\ ~HoldsAt(op, at[op])
      BY <1>0, <1>3 DEF FileMissing, HoldsAt, Reconciling, Written, Still
    <3>2. FolderOrdered'
      BY <2>2, <3>1, FolderJoined DEF Goto, Locks
    <3>3. PlanningsOrdered'
      BY <2>2, <3>1, PlanningsKept DEF Goto, Locks, Still
    <3> QED BY <3>2, <3>3 DEF Locks
  <2> QED BY <1>3, <2>1, <2>2 DEF FileMissing
<1>4. CASE Gets(op) \/ ReviseRefused(op) \/ Claims(op)
  <2>1. at[op] \notin Still \cup {"planning", "folder"}
    BY <1>4 DEF Gets, ReviseRefused, Claims, Still
  <2>2. \E what : Ends(op, what)
    BY <1>4 DEF Gets, ReviseRefused, Claims
  <2> QED BY <1>1, <2>1, <2>2
<1>5. CASE CreateNamed(op)
  <2>1. HoldsAt(op, "recording")
    BY <1>5 DEF CreateNamed, HoldsAt, Written
  <2> QED BY <1>5, <2>1, FolderEntered DEF CreateNamed
<1>6. CASE Revises(op)
  <2>1. PICK a \in {"keeping", "recording"} : Goto(op, a)
    BY <1>6 DEF Revises
  <2> QED BY <1>6, <2>1, Within DEF Revises, Goto
<1>7. CASE Keeps(op)
  <2>1. Kind[op] = "revise"
    BY <1>7 DEF Keeps, Typed, Placed, PlacedAt
  <2> QED BY <1>7, <2>1, Within DEF Keeps, Goto
<1>8. CASE Records(op)
  <2>1. CASE Goto(op, "placing") /\ UNCHANGED locks
    <3>1. {"placing", at[op]} \subseteq Written
      BY <1>8 DEF Records, Written
    <3> QED BY <2>1, <3>1, Within DEF Goto
  <2>2. CASE \E what : Ends(op, what)
    BY <1>1, <1>8, <2>2 DEF Records, Still
  <2> QED BY <1>8, <2>1, <2>2 DEF Records
<1>9. CASE PlacesFile(op)
  <2>1. {"claiming", at[op]} \subseteq Written
    BY <1>9 DEF PlacesFile, Written
  <2> QED BY <1>9, <2>1, Within DEF PlacesFile, Goto
<1>10. CASE Fails(op)
  BY <1>1, <1>10 DEF Fails, Writing, Still
<1> QED BY <1>2, <1>3, <1>4, <1>5, <1>6, <1>7, <1>8, <1>9, <1>10

\* After the process died nobody waits and nobody holds.
LEMMA CrashOrdered == ASSUME Typed, Locks, Crash PROVE Locks'
<1>1. \A op \in Calls : at'[op] \in Still
  BY Calling DEF Crash, InFlight, Still
<1>2. InFolder' = {} /\ FolderHolders' = {}
  BY <1>1 DEF InFolder, FolderHolders, HoldsAt, Reconciling, Written, Still
<1>3. \A i : InPlanning(i)' = {} /\ PlanningHolders(i)' = {}
  BY <1>1 DEF InPlanning, PlanningHolders, Updates
<1>4. Orderly(<<>>, {}, {})
  BY DEF Orderly
<1> QED BY <1>2, <1>3, <1>4 DEF Crash, Locks, FolderOrdered, PlanningsOrdered

\* The person takes no lock.
LEMMA PersonOrdered == ASSUME Typed, Locks, NEW op \in Ops, PersonMoves(op) PROVE Locks'
<1>1. op \notin Calls /\ at' = [at EXCEPT ![op] = "done"] /\ UNCHANGED <<folderLock, planningLock>>
  BY DEF PersonMoves, Person, Goto, locks
<1> QED BY <1>1, FolderKept, PlanningsKept DEF Locks

\* The locks are free at first.
LEMMA InitOrdered == Init => Locks
<1> SUFFICES ASSUME Init PROVE Locks
  OBVIOUS
<1>1. \A op \in Ops : at[op] \in Still
  BY DEF Init, Still
<1>2. InFolder = {} /\ FolderHolders = {}
  BY <1>1, Calling DEF InFolder, FolderHolders, HoldsAt, Reconciling, Written, Still
<1>3. \A i : InPlanning(i) = {} /\ PlanningHolders(i) = {}
  BY <1>1, Calling DEF InPlanning, PlanningHolders, Updates
<1>4. Orderly(<<>>, {}, {})
  BY DEF Orderly
<1> QED BY <1>2, <1>3, <1>4 DEF Init, Locks, FolderOrdered, PlanningsOrdered

\* The locks are kept in order by every step.
LEMMA NextOrdered == Typed /\ Locks /\ [Next]_vars => Locks'
<1> SUFFICES ASSUME Typed, Locks, [Next]_vars PROVE Locks'
  OBVIOUS
<1>1. CASE UNCHANGED vars
  BY <1>1
    DEF vars, locks, Locks, FolderOrdered, PlanningsOrdered, InFolder, FolderHolders, InPlanning,
        PlanningHolders
<1>2. CASE Crash
  BY <1>2, CrashOrdered
<1>3. ASSUME NEW op \in Ops, Called(op) \/ Server(op) \/ Fails(op) \/ PersonMoves(op) PROVE Locks'
  BY <1>3, CalledOrdered, LockedOrdered, ReconcileOrdered, CallOrdered, PersonOrdered DEF Server
<1> QED BY <1>1, <1>2, <1>3 DEF Next

\* One reconcile at a time, and no creation meanwhile.
LEMMA OneInFolder ==
  ASSUME Locks, NEW o \in Calls, NEW p \in Calls, HoldsAt(o, at[o]), HoldsAt(p, at[p])
  PROVE  o = p
<1>1. o \in FolderHolders /\ p \in FolderHolders
  BY DEF FolderHolders
<1> QED BY <1>1, QueueHead DEF Locks, FolderOrdered
\* One update of a planning at a time.
LEMMA OneUpdates ==
  ASSUME Locks, NEW o \in Calls, NEW p \in Calls, Kind[o] = "revise", Kind[p] = "revise", Aim[o] = Aim[p],
         at[o] \notin Still \cup {"planning"}, at[p] \notin Still \cup {"planning"}
  PROVE  o = p
<1>1. o \in PlanningHolders(Aim[o]) /\ p \in PlanningHolders(Aim[o]) /\ Aim[o] \in Ids
  BY Calling DEF PlanningHolders, Updates
<1>2. Orderly(planningLock[Aim[o]], InPlanning(Aim[o]), PlanningHolders(Aim[o]))
  BY <1>1 DEF Locks, PlanningsOrdered
<1> QED BY <1>1, <1>2, QueueHead

-----------------------------------------------------------------------------
(* What is on the disk, at each await of a call                            *)

Known ==
  /\ \A i \in Ids : meta[i] # None => i \in dirs
  /\ \A i \in Ids : \A r \in 1..MaxRevision : history[i][r] # None => i \in dirs
  /\ \A m \in rec.metas \cup rec.orphans : meta[m.id] # None
\* A directory is made by who holds the folder's lock, its meta written last; an update is of a
\* planning that has one.  A revision's file is there, as written, before the others are replaced.
OnDisk(o) ==
  /\ at[o] = "refile" => meta[rec.id] # None
  /\ at[o] = "adopting" => rec.id \notin dirs
  /\ at[o] = "adopted" => rec.id \in dirs /\ meta[rec.id] = None /\ history[rec.id][1] = rec.doc
  /\ at[o] = "recording" /\ Kind[o] = "create" => loc[o].id \notin dirs
  /\ at[o] \in {"placing", "claiming"} => /\ loc[o].id \in dirs
                                          /\ history[loc[o].id][loc[o].meta.revision] = loc[o].doc
  /\ at[o] \in {"placing", "claiming"} /\ Kind[o] = "create" => meta[loc[o].id] = None
  /\ at[o] \in {"file", "keeping"} \cup Written /\ Kind[o] = "revise" => meta[loc[o].id] # None
Disk == Known /\ \A o \in Ops : OnDisk(o)

Inv == Typed /\ Locks /\ Reconciled /\ Disk
Step(op) == Called(op) \/ Server(op) \/ Fails(op) \/ PersonMoves(op)

\* What is on the disk stays: directories, metas once written, revisions as they are.
Grows ==
  /\ dirs \subseteq dirs'
  /\ \A i \in Ids : meta[i] # None => meta'[i] # None
  /\ \A i \in Ids : \A r \in 1..MaxRevision : history[i][r] # None => history'[i][r] = history[i][r]

\* A step moves one operation.
LEMMA OthersStay ==
  ASSUME Typed, NEW op \in Ops, Step(op), NEW o \in Ops, o # op
  PROVE  at'[o] = at[o] /\ loc'[o] = loc[o]
<1>1. at \in [Ops -> Places] /\ loc \in [Ops -> Locals]
  BY DEF Typed, Counted
<1>2. ASSUME NEW what, Ends(op, what) PROVE at'[o] = at[o] /\ loc'[o] = loc[o]
  BY <1>1, <1>2 DEF Ends, Goto, Set
<1>3. ASSUME NEW r, NextEntry(op, r) PROVE at'[o] = at[o] /\ loc'[o] = loc[o]
  BY <1>1, <1>2, <1>3 DEF NextEntry, Goto
<1>4. CASE Reconcile(op)
  BY <1>1, <1>3, <1>4 DEF Reconcile, ReconcileStarts, ReconcileReadsMeta, ReconcileLooks, ReconcileLists,
     ReconcileReads, Refiled, Adopts, Adopted, Goto
<1>5. CASE Called(op) \/ Locked(op) \/ ReadsMeta(op) \/ FileMissing(op) \/ Gets(op)
  BY <1>1, <1>2, <1>5 DEF Called, Locked, ReadsMeta, FileMissing, Gets, Goto, Set
<1>6. CASE CreateNamed(op) \/ ReviseRefused(op) \/ Revises(op) \/ Keeps(op) \/ Records(op) \/ PlacesFile(op)
             \/ Claims(op)
  BY <1>1, <1>2, <1>6 DEF CreateNamed, ReviseRefused, Revises, Keeps, Records, PlacesFile, Claims, Goto, Set
<1>7. CASE Fails(op) \/ PersonMoves(op)
  BY <1>1, <1>2, <1>7 DEF Fails, PersonMoves, Goto, Set
<1> QED BY <1>4, <1>5, <1>6, <1>7 DEF Step, Server

\* While one call is in the folder, no other is.
LEMMA AloneInFolder ==
  ASSUME Typed, Locks, NEW op \in Ops, HoldsAt(op, at[op]) \/ (at[op] = "folder" /\ Head(folderLock) = op),
         NEW o \in Ops, o # op
  PROVE  ~HoldsAt(o, at[o])
<1> SUFFICES ASSUME HoldsAt(o, at[o]) PROVE FALSE
  OBVIOUS
<1>1. at[o] \notin Still
  BY DEF HoldsAt, Reconciling, Written, Still
<1>2. o \in Calls /\ o \in FolderHolders
  BY <1>1 DEF Typed, Placed, PlacedAt, FolderHolders
<1>3. Head(folderLock) = o /\ \A h \in FolderHolders : h = o
  BY <1>2, QueueHead DEF Locks, FolderOrdered
<1>4. op \notin FolderHolders
  BY <1>3
<1>5. HoldsAt(op, at[op]) => op \in Calls
  BY DEF HoldsAt, Reconciling, Written, Still, Typed, Placed, PlacedAt
<1> QED BY <1>3, <1>4, <1>5 DEF FolderHolders

\* Outside the folder's lock a call makes no directory, and no planning of what was none.
LEMMA Outside ==
  ASSUME Inv, NEW op \in Ops, Step(op), ~HoldsAt(op, at[op]), ~(at[op] = "folder" /\ Head(folderLock) = op)
  PROVE  dirs' = dirs /\ rec' = rec /\ \A i \in Ids : meta[i] = None => meta'[i] = None
<1>1. at[op] \notin Reconciling
  BY DEF HoldsAt
<1>2. CASE Called(op) \/ Locked(op) \/ ReadsMeta(op) \/ FileMissing(op) \/ Gets(op) \/ ReviseRefused(op)
             \/ Revises(op)
            \/ Keeps(op) \/ PlacesFile(op) \/ PersonMoves(op)
  BY <1>2
    DEF Called, Locked, ReadsMeta, FileMissing, Gets, ReviseRefused, Revises, Keeps, PlacesFile, PersonMoves,
        disk
<1>3. CASE Reconcile(op) \/ CreateNamed(op)
  BY <1>1, <1>3
    DEF Reconcile, ReconcileStarts, Reconciles, ReconcileReadsMeta, ReconcileLooks, ReconcileLists,
        ReconcileReads, Refiled, Adopts, Adopted, CreateNamed, Reconciling
<1>4. CASE Records(op)
  <2>1. op \in Calls /\ Kind[op] = "revise" /\ loc[op].id \in Ids
    BY <1>4, Writes DEF Records, HoldsAt, Written, Inv
  <2>2. loc[op].id \in dirs
    BY <1>4, <2>1 DEF Records, Inv, Disk, OnDisk, Known, Written
  <2> QED BY <1>4, <2>2 DEF Records
<1>5. CASE Claims(op)
  <2>1. op \in Calls /\ Kind[op] = "revise" /\ loc[op].id \in Ids
    BY <1>5, Writes DEF Claims, HoldsAt, Written, Inv
  <2>2. meta[loc[op].id] # None
    BY <1>5, <2>1 DEF Claims, Inv, Disk, OnDisk, Written
  <2> QED BY <1>5, <2>1, <2>2 DEF Claims, Inv, Typed, Stored
<1>6. CASE Fails(op)
  BY <1>1, <1>6 DEF Fails, Reconciling, disk
<1> QED BY <1>2, <1>3, <1>4, <1>5, <1>6 DEF Step, Server

\* No step takes back a directory, a meta or a revision.
LEMMA StepGrows == ASSUME Inv, NEW op \in Ops, Step(op) PROVE Grows
<1>1. CASE UNCHANGED <<dirs, history, meta>>
  BY <1>1 DEF Grows
<1>2. CASE Refiled(op) \/ Adopted(op)
  <2>1. rec.id \in Ids /\ rec.meta \in Metas
    BY <1>2 DEF Refiled, Adopted, Inv, Reconciled
  <2> QED BY <1>2, <2>1, Kinds DEF Refiled, Adopted, Grows, Inv, Typed, Stored
<1>3. CASE Adopts(op)
  <2>1. rec.id \in Ids /\ rec.id \notin dirs
    BY <1>3 DEF Adopts, Inv, Reconciled, Disk, OnDisk
  <2>2. \A r \in 1..MaxRevision : history[rec.id][r] = None
    BY <2>1 DEF Inv, Disk, Known
  <2> QED BY <1>3, <2>1, <2>2 DEF Adopts, Grows, Inv, Typed, Stored
<1>4. CASE Records(op)
  <2>1. loc[op].id \in Ids /\ loc[op].meta.revision \in 1..MaxRevision
    BY <1>4, Writes DEF Records, Written, Inv
  <2>2. UNCHANGED meta /\ dirs \subseteq dirs'
    BY <1>4 DEF Records
  <2>3. CASE history' = history
    BY <2>2, <2>3 DEF Grows
  <2>4. CASE /\ history[loc[op].id][loc[op].meta.revision] = None
             /\ history' = [history EXCEPT ![loc[op].id][loc[op].meta.revision] = loc[op].doc]
    <3>1. history \in [Ids -> [1..MaxRevision -> Docs \cup {None}]]
      BY DEF Inv, Typed, Stored
    <3>2. \A i \in Ids : \A r \in 1..MaxRevision :
            history'[i][r] = IF i = loc[op].id /\ r = loc[op].meta.revision THEN loc[op].doc ELSE history[i][r]
      BY <2>1, <2>4, <3>1
    <3> QED BY <2>2, <2>4, <3>2 DEF Grows
  <2> QED BY <1>4, <2>3, <2>4 DEF Records
<1>5. CASE Claims(op)
  <2>1. loc[op].id \in Ids /\ loc[op].meta \in Metas
    BY <1>5, Writes DEF Claims, Written, Inv
  <2> QED BY <1>5, <2>1, Kinds DEF Claims, Grows, Inv, Typed, Stored
<1>6. CASE Called(op) \/ Locked(op) \/ ReadsMeta(op) \/ FileMissing(op) \/ Gets(op) \/ ReviseRefused(op)
             \/ Revises(op)
            \/ Keeps(op) \/ PlacesFile(op) \/ PersonMoves(op) \/ Fails(op) \/ CreateNamed(op)
  BY <1>1, <1>6
    DEF Called, Locked, ReadsMeta, FileMissing, Gets, ReviseRefused, Revises, Keeps, PlacesFile, PersonMoves,
        Fails, CreateNamed, disk
<1>7. CASE ReconcileStarts(op) \/ ReconcileReadsMeta(op) \/ ReconcileLooks(op) \/ ReconcileLists(op)
             \/ ReconcileReads(op)
  BY <1>1, <1>7 DEF ReconcileStarts, ReconcileReadsMeta, ReconcileLooks, ReconcileLists, ReconcileReads, disk
<1> QED BY <1>2, <1>3, <1>4, <1>5, <1>6, <1>7 DEF Step, Server, Reconcile

\* A step of one call leaves the others' places as they are.
LEMMA OthersOnDisk ==
  ASSUME Inv, NEW op \in Ops, Step(op), NEW o \in Ops, o # op
  PROVE  OnDisk(o)' /\ (at'[o] \in {"refile", "adopting", "adopted"} => rec' = rec)
<1>1. at'[o] = at[o] /\ loc'[o] = loc[o] /\ OnDisk(o) /\ Grows
  BY OthersStay, StepGrows DEF Inv, Disk
<1>2. at[o] \in {"file", "keeping"} \cup Written => loc[o].id \in Ids
  BY Writes, Reading DEF Inv
<1>3. at[o] \in {"placing", "claiming"} => /\ loc[o].meta.revision \in 1..MaxRevision /\ loc[o].doc # None
  BY Writes, Kinds DEF Inv, Written
<1>4. CASE ~HoldsAt(o, at[o])
  BY <1>1, <1>2, <1>3, <1>4 DEF OnDisk, Grows, HoldsAt, Reconciling, Written
<1>5. CASE HoldsAt(o, at[o])
  <2>1. ~HoldsAt(op, at[op]) /\ ~(at[op] = "folder" /\ Head(folderLock) = op)
    BY <1>5, AloneInFolder DEF Inv
  <2>2. dirs' = dirs /\ rec' = rec /\ \A i \in Ids : meta[i] = None => meta'[i] = None
    BY <2>1, Outside
  <2>3. at[o] \in {"refile", "adopting", "adopted"} => rec.id \in Ids
    BY DEF Inv, Reconciled
  <2>4. at[o] = "adopted" => rec.doc # None
    BY Kinds DEF Inv, Reconciled
  <2> QED BY <1>1, <1>2, <1>3, <2>2, <2>3, <2>4, Kinds DEF OnDisk, Grows, Written
<1> QED BY <1>4, <1>5

\* What a step leaves on the disk for the call that made it.
OwnDisk(op) ==
  /\ Known' /\ OnDisk(op)'
  /\ at'[op] \in {"refile", "adopting", "adopted"} => rec'.id \in Ids /\ rec'.meta \in Metas
  /\ at'[op] \in {"adopting", "adopted"} => rec'.doc \in Docs /\ rec'.meta.revision = 1

\* A step that changes nothing the disk's invariant speaks of.
LEMMA QuietDisk ==
  ASSUME Inv, NEW op \in Ops, UNCHANGED <<dirs, history, meta>>, rec'.metas \subseteq rec.metas, rec'.orphans \subseteq rec.orphans \cup rec.metas,
         at'[op] \in {"new", "folder", "planning", "metas", "files", "entries", "meta", "done"}
           \/ (at'[op] = "file" /\ Kind[op] # "revise")
  PROVE  OwnDisk(op)
<1>1. Known'
  BY DEF Inv, Disk, Known
<1>2. OnDisk(op)'
  BY DEF OnDisk, Written
<1> QED BY <1>1, <1>2 DEF OwnDisk

\* What is on the disk, after a step that writes neither revision nor meta.
LEMMA CallsOnDisk ==
  ASSUME Inv, NEW op \in Ops,
         Called(op) \/ Locked(op) \/ ReadsMeta(op) \/ FileMissing(op) \/ Gets(op) \/ CreateNamed(op) \/ ReviseRefused(op)
           \/ Revises(op) \/ Keeps(op)
  PROVE  OwnDisk(op)
<1>1. at \in [Ops -> Places] /\ loc \in [Ops -> Locals]
  BY DEF Inv, Typed, Counted
<1>2. UNCHANGED <<dirs, history, meta, rec>>
  BY DEF Called, Locked, ReadsMeta, FileMissing, Gets, CreateNamed, ReviseRefused, Revises, Keeps, disk
<1>3. Known'
  BY <1>2 DEF Inv, Disk, Known
<1>4. CASE at'[op] \in {"folder", "planning", "meta", "done"}
  BY <1>2, <1>4, QuietDisk
<1>5. CASE Called(op) \/ Locked(op) \/ FileMissing(op) \/ Gets(op) \/ ReviseRefused(op)
  <2>1. at'[op] \in {"folder", "planning", "meta", "done"}
    BY <1>1, <1>5 DEF Called, Locked, FileMissing, Gets, ReviseRefused, Ends, Goto
  <2> QED BY <1>4, <2>1
<1>6. CASE ReadsMeta(op)
  <2>1. CASE Ends(op, Refused)
    BY <1>1, <1>4, <2>1 DEF Ends, Goto
  <2>2. CASE meta[loc[op].id] # None /\ Set(op, [loc[op] EXCEPT !.meta = meta[loc[op].id]]) /\ Goto(op, "file")
    <3>1. at'[op] = "file" /\ loc'[op].id = loc[op].id
      BY <1>1, <2>2 DEF Set, Goto, Locals
    <3>2. OnDisk(op)'
      BY <1>2, <2>2, <3>1 DEF OnDisk, Written
    <3> QED BY <1>3, <3>1, <3>2 DEF OwnDisk
  <2> QED BY <1>6, <2>1, <2>2 DEF ReadsMeta
<1>7. CASE CreateNamed(op)
  <2>1. at'[op] = "recording" /\ Kind[op] = "create" /\ loc'[op].id \notin dirs
    BY <1>1, <1>7, CreateNamedTyped DEF CreateNamed, Goto, Inv
  <2>2. OnDisk(op)'
    BY <1>2, <2>1 DEF OnDisk
  <2> QED BY <1>3, <2>1, <2>2 DEF OwnDisk
<1>8. CASE Revises(op)
  <2>1. at'[op] \in {"keeping", "recording"} /\ loc'[op].id = loc[op].id
    BY <1>8, RevisesTyped DEF Inv
  <2>2. Kind[op] = "revise" /\ at[op] = "file" /\ meta[loc[op].id] # None
    BY <1>8 DEF Revises, Inv, Disk, OnDisk
  <2>3. OnDisk(op)'
    BY <1>2, <2>1, <2>2 DEF OnDisk
  <2> QED BY <1>3, <2>1, <2>3 DEF OwnDisk
<1>9. CASE Keeps(op)
  <2>1. at'[op] = "recording" /\ loc' = loc /\ at[op] = "keeping"
    BY <1>1, <1>9 DEF Keeps, Goto
  <2>2. Kind[op] = "revise"
    BY <2>1 DEF Inv, Typed, Placed, PlacedAt
  <2>3. meta[loc[op].id] # None
    BY <2>1, <2>2 DEF Inv, Disk, OnDisk
  <2>4. OnDisk(op)'
    BY <1>2, <2>1, <2>2, <2>3 DEF OnDisk
  <2> QED BY <1>3, <2>1, <2>4 DEF OwnDisk
<1> QED BY <1>5, <1>6, <1>7, <1>8, <1>9

\* And after one that writes a file, or fails to.
LEMMA WritesOnDisk ==
  ASSUME Inv, NEW op \in Ops, Records(op) \/ PlacesFile(op) \/ Claims(op) \/ Fails(op)
  PROVE  OwnDisk(op)
<1>1. at \in [Ops -> Places] /\ loc \in [Ops -> Locals]
  BY DEF Inv, Typed, Counted
<1>2. CASE Fails(op)
  <2>1. at'[op] = "done" /\ rec' \in {rec, NoRec}
    BY <1>1, <1>2 DEF Fails, Ends, Goto
  <2>2. rec'.metas \subseteq rec.metas /\ rec'.orphans \subseteq rec.orphans
    BY <2>1 DEF NoRec
  <2> QED BY <1>2, <2>1, <2>2, QuietDisk DEF Fails, disk
<1>3. CASE PlacesFile(op)
  <2>1. at'[op] = "claiming" /\ at[op] = "placing" /\ UNCHANGED <<dirs, history, meta, rec, loc>>
    BY <1>1, <1>3 DEF PlacesFile, Goto
  <2>2. Known' /\ OnDisk(op)
    BY <2>1 DEF Inv, Disk, Known
  <2>3. OnDisk(op)'
    BY <2>1, <2>2 DEF OnDisk, Written
  <2> QED BY <2>1, <2>2, <2>3 DEF OwnDisk
<1>4. CASE Records(op)
  <2> DEFINE i == loc[op].id
             r == loc[op].meta.revision
  <2>1. at[op] = "recording" /\ UNCHANGED <<meta, rec>> /\ i \in Ids /\ r \in 1..MaxRevision
    BY <1>4, Writes DEF Records, Written, Inv
  <2>2. CASE at'[op] = "done" /\ UNCHANGED <<dirs, history>>
    BY <2>1, <2>2, QuietDisk
  <2>3. CASE /\ dirs' = dirs \cup {i} /\ history' = [history EXCEPT ![i][r] = loc[op].doc]
             /\ Goto(op, "placing") /\ UNCHANGED loc
    <3>1. at'[op] = "placing" /\ loc'[op] = loc[op] /\ i \in dirs'
      BY <1>1, <2>3 DEF Goto
    <3>2. history \in [Ids -> [1..MaxRevision -> Docs \cup {None}]]
      BY DEF Inv, Typed, Stored
    <3>3. \A j \in Ids : \A q \in 1..MaxRevision :
            history'[j][q] = IF j = i /\ q = r THEN loc[op].doc ELSE history[j][q]
      BY <2>1, <2>3, <3>2
    <3>4. Known'
      BY <2>1, <2>3, <3>1, <3>3 DEF Inv, Disk, Known
    <3>5. Kind[op] = "create" => meta[i] = None
      BY <2>1 DEF Inv, Disk, Known, OnDisk
    <3>6. Kind[op] = "revise" => meta[i] # None
      BY <2>1 DEF Inv, Disk, OnDisk, Written
    <3>7. OnDisk(op)'
      BY <2>1, <3>1, <3>3, <3>5, <3>6 DEF OnDisk, Written
    <3> QED BY <3>1, <3>4, <3>7 DEF OwnDisk
  <2> QED BY <1>1, <1>4, <2>2, <2>3 DEF Records, Ends, Goto
<1>5. CASE Claims(op)
  <2>1. at'[op] = "done" /\ at[op] = "claiming" /\ UNCHANGED <<dirs, history, rec>>
    BY <1>1, <1>5 DEF Claims, Ends, Goto
  <2>2. loc[op].id \in Ids /\ loc[op].meta \in Metas /\ loc[op].id \in dirs
    BY <2>1, Writes DEF Inv, Written, Disk, OnDisk
  <2>3. \A i \in Ids : meta'[i] = IF i = loc[op].id THEN loc[op].meta ELSE meta[i]
    BY <1>5, <2>2 DEF Claims, Inv, Typed, Stored
  <2>4. \A m \in rec.metas \cup rec.orphans : m.id \in Ids
    BY DEF Inv, Typed, Counted, Recs, Entries
  <2>5. Known'
    BY <2>1, <2>2, <2>3, <2>4, Kinds DEF Inv, Disk, Known
  <2>6. OnDisk(op)'
    BY <2>1 DEF OnDisk, Written
  <2> QED BY <2>1, <2>5, <2>6 DEF OwnDisk
<1> QED BY <1>2, <1>3, <1>4, <1>5

\* A reconcile goes on with what it knew.
LEMMA NextEntryOnDisk ==
  ASSUME Inv, NEW op \in Ops, NEW r, NextEntry(op, r), r.metas = rec.metas, r.orphans \subseteq rec.orphans
  PROVE  /\ at'[op] \in {"entries", "meta", "done"}
         /\ rec'.metas \subseteq rec.metas /\ rec'.orphans \subseteq rec.orphans
<1>1. at \in [Ops -> Places]
  BY DEF Inv, Typed, Counted
<1>2. at'[op] \in {"entries", "meta", "done"}
  BY <1>1 DEF NextEntry, Goto, Ends
<1>3. rec' \in {r, NoRec}
  BY DEF NextEntry
<1> QED BY <1>2, <1>3 DEF NoRec

\* What is on the disk, after a step of a reconcile.
LEMMA ReconcileOnDisk == ASSUME Inv, NEW op \in Ops, Reconcile(op) PROVE OwnDisk(op)
<1>1. at \in [Ops -> Places] /\ rec \in Recs
  BY DEF Inv, Typed, Counted
<1>2. CASE ReconcileStarts(op)
  <2>1. rec'.metas = {} /\ rec'.orphans = {} /\ at'[op] \in {"files", "metas"}
    BY <1>1, <1>2 DEF ReconcileStarts, NoRec, Goto
  <2> QED BY <1>2, <2>1, QuietDisk DEF ReconcileStarts, disk
<1>3. CASE ReconcileReadsMeta(op)
  <2>1. UNCHANGED <<dirs, history, meta>> /\ at'[op] \in {"files", "metas"}
    BY <1>1, <1>3 DEF ReconcileReadsMeta, disk, Goto
  <2>2. PICK i \in rec.todo :
          rec'.metas = rec.metas \cup (IF meta[i] = None THEN {} ELSE {[id |-> i, meta |-> meta[i]]})
          /\ rec'.orphans = rec.orphans
    BY <1>1, <1>3 DEF ReconcileReadsMeta, Recs
  <2>3. Known'
    BY <2>1, <2>2 DEF Inv, Disk, Known
  <2>4. OnDisk(op)'
    BY <2>1 DEF OnDisk, Written
  <2> QED BY <2>1, <2>3, <2>4 DEF OwnDisk
<1>4. CASE ReconcileLooks(op)
  <2>1. UNCHANGED <<dirs, history, meta>> /\ at'[op] = "files"
    BY <1>4 DEF ReconcileLooks, disk
  <2>2. rec'.metas = rec.metas /\ rec'.orphans \subseteq rec.orphans \cup rec.metas
    BY <1>1, <1>4 DEF ReconcileLooks, Recs
  <2> QED BY <2>1, <2>2, QuietDisk
<1>5. CASE ReconcileLists(op)
  <2> DEFINE r == [rec EXCEPT !.entries = Unclaimed]
  <2>1. r.metas = rec.metas /\ r.orphans = rec.orphans /\ NextEntry(op, r)
    BY <1>1, <1>5 DEF ReconcileLists, Recs
  <2> HIDE DEF r
  <2>2. /\ at'[op] \in {"entries", "meta", "done"}
        /\ rec'.metas \subseteq rec.metas /\ rec'.orphans \subseteq rec.orphans
    BY <2>1, NextEntryOnDisk
  <2> QED BY <1>5, <2>2, QuietDisk DEF ReconcileLists, disk
<1>6. CASE ReconcileReads(op)
  <2>1. /\ at'[op] \in {"refile", "adopting"} => rec'.id \in Ids /\ rec'.meta \in Metas
        /\ at'[op] = "refile" => \E m \in rec.orphans : rec'.id = m.id
        /\ at'[op] = "adopting" => rec'.id \notin dirs /\ rec'.meta.revision = 1 /\ rec'.doc \in Docs
        /\ at'[op] \in {"refile", "adopting", "entries", "meta", "done"}
        /\ rec'.metas \in {rec.metas, {}} /\ rec'.orphans \subseteq rec.orphans
    BY <1>6, ReconcileReadsTyped DEF Inv
  <2>2. UNCHANGED <<dirs, history, meta>>
    BY <1>6 DEF ReconcileReads, disk
  <2>3. Known'
    BY <2>1, <2>2 DEF Inv, Disk, Known
  <2>4. at'[op] = "refile" => meta'[rec'.id] # None
    BY <2>1, <2>2 DEF Inv, Disk, Known
  <2>5. OnDisk(op)'
    BY <2>1, <2>2, <2>4 DEF OnDisk, Written
  <2> QED BY <2>1, <2>3, <2>5 DEF OwnDisk
<1>7. CASE Refiled(op) \/ Adopted(op)
  <2>1. rec.id \in Ids /\ rec.meta \in Metas /\ rec.id \in dirs
    BY <1>7 DEF Refiled, Adopted, Inv, Reconciled, Disk, OnDisk, Known
  <2>2. \A i \in Ids : meta'[i] = IF i = rec.id THEN rec.meta ELSE meta[i]
    BY <1>7, <2>1 DEF Refiled, Adopted, Inv, Typed, Stored
  <2>3. /\ at'[op] \in {"entries", "meta", "done"}
        /\ rec'.metas \subseteq rec.metas /\ rec'.orphans \subseteq rec.orphans
    BY <1>7, NextEntryOnDisk DEF Refiled, Adopted
  <2>4. UNCHANGED <<dirs, history>> /\ \A m \in rec.metas \cup rec.orphans : m.id \in Ids
    BY <1>1, <1>7 DEF Refiled, Adopted, Recs, Entries
  <2>5. Known'
    BY <2>1, <2>2, <2>3, <2>4, Kinds DEF Inv, Disk, Known
  <2>6. OnDisk(op)'
    BY <2>3 DEF OnDisk, Written
  <2> QED BY <2>3, <2>5, <2>6 DEF OwnDisk
<1>8. CASE Adopts(op)
  <2>1. /\ at[op] = "adopting" /\ at'[op] = "adopted" /\ UNCHANGED <<meta, rec>> /\ dirs' = dirs \cup {rec.id}
        /\ history' = [history EXCEPT ![rec.id][1] = rec.doc]
    BY <1>1, <1>8 DEF Adopts, Goto
  <2>2. /\ rec.id \in Ids /\ rec.meta \in Metas /\ rec.id \notin dirs /\ rec.doc \in Docs /\ rec.meta.revision = 1
        /\ meta[rec.id] = None
    BY <2>1 DEF Inv, Reconciled, Disk, OnDisk, Known
  <2>3. history \in [Ids -> [1..MaxRevision -> Docs \cup {None}]]
    BY DEF Inv, Typed, Stored
  <2>4. \A j \in Ids : \A q \in 1..MaxRevision :
          history'[j][q] = IF j = rec.id /\ q = 1 THEN rec.doc ELSE history[j][q]
    BY <2>1, <2>2, <2>3, Kinds
  <2>5. Known'
    BY <2>1, <2>2, <2>4 DEF Inv, Disk, Known
  <2>6. OnDisk(op)'
    BY <2>1, <2>2, <2>4, Kinds DEF OnDisk, Written
  <2> QED BY <2>1, <2>2, <2>5, <2>6 DEF OwnDisk
<1> QED BY <1>2, <1>3, <1>4, <1>5, <1>6, <1>7, <1>8 DEF Reconcile

\* The invariant is kept by a step of an operation,
LEMMA InvStep == ASSUME Inv, NEW op \in Ops, Step(op) PROVE Inv'
<1>1. Typed' /\ Locks'
  <2>1. [Next]_vars
    BY DEF Step, Next
  <2> QED BY <2>1, NextTyped, NextOrdered DEF Inv
<1>2. OwnDisk(op)
  <2>1. CASE PersonMoves(op)
    <3>1. at'[op] = "done" /\ UNCHANGED <<dirs, history, meta, rec>>
      BY <2>1 DEF PersonMoves, Goto, Inv, Typed, Counted
    <3> QED BY <3>1, QuietDisk
  <2> QED BY <2>1, CallsOnDisk, WritesOnDisk, ReconcileOnDisk DEF Step, Server
<1>3. \A o \in Ops : OnDisk(o)'
  BY <1>2, OthersOnDisk DEF OwnDisk
<1>4. Reconciled'
  <2> SUFFICES ASSUME NEW o \in Ops
               PROVE  /\ at'[o] \in {"refile", "adopting", "adopted"} => rec'.id \in Ids /\ rec'.meta \in Metas
                      /\ at'[o] \in {"adopting", "adopted"} => rec'.doc \in Docs /\ rec'.meta.revision = 1
    BY DEF Reconciled
  <2>1. CASE o = op
    BY <1>2, <2>1 DEF OwnDisk
  <2>2. CASE o # op
    BY <2>2, OthersOnDisk, OthersStay DEF Inv, Reconciled
  <2> QED BY <2>1, <2>2
<1> QED BY <1>1, <1>2, <1>3, <1>4 DEF Inv, Disk, OwnDisk

\* by the death of the process,
LEMMA InvCrash == ASSUME Inv, Crash PROVE Inv'
<1>1. Typed' /\ Locks'
  BY CrashTyped, CrashOrdered DEF Inv
<1>2. \A op \in Ops : at'[op] \in Still
  <2>1. \A op \in Ops : at[op] \notin Still => op \in Calls
    BY DEF Inv, Typed, Placed, PlacedAt
  <2> QED BY <2>1 DEF Crash, InFlight, Still
<1>3. Reconciled' /\ \A op \in Ops : OnDisk(op)'
  BY <1>2 DEF Reconciled, OnDisk, Still, Written
<1>4. Known'
  BY DEF Crash, disk, NoRec, Inv, Disk, Known
<1> QED BY <1>1, <1>3, <1>4 DEF Inv, Disk

\* and holds at first.
LEMMA InitInv == Init => Inv
<1> SUFFICES ASSUME Init PROVE Inv
  OBVIOUS
<1>1. \A op \in Ops : at[op] \in Still
  BY DEF Init, Still
<1>2. Reconciled /\ \A op \in Ops : OnDisk(op)
  BY <1>1 DEF Reconciled, OnDisk, Still, Written
<1>3. Known
  BY DEF Init, Known, NoRec
<1> QED BY <1>2, <1>3, InitTyped, InitOrdered DEF Inv, Disk

\* It is inductive,
LEMMA NextInv == Inv /\ [Next]_vars => Inv'
<1> SUFFICES ASSUME Inv, [Next]_vars PROVE Inv'
  OBVIOUS
<1>1. CASE UNCHANGED vars
  BY <1>1, NextTyped, NextOrdered DEF vars, disk, locks, Inv, Reconciled, Disk, Known, OnDisk
<1>2. CASE Crash
  BY <1>2, InvCrash
<1>3. CASE \E op \in Ops : Step(op)
  BY <1>3, InvStep
<1> QED BY <1>1, <1>2, <1>3 DEF Next, Step

\* and so holds always.
LEMMA Invariant == Spec => []Inv
<1> QED BY InitInv, NextInv, PTL DEF Spec

\* Types, and who is at the head of which lock: only one call reconciles or creates, and only
\* one updates a planning, whatever fails and however often the process dies.
THEOREM StoreTypeCorrect == Spec => []TypeOK
<1>1. Inv => TypeOK
  <2> SUFFICES ASSUME Inv PROVE TypeOK
    OBVIOUS
  <2>1. Docs \subseteq Contents
    BY Kinds
  <2>2. history \in [Ids -> [1..MaxRevision -> Contents \cup {None}]]
    BY <2>1 DEF Inv, Typed, Stored
  <2>3. folderLock \in Seq(Calls) /\ planningLock \in [Ids -> Seq(Calls)]
    BY DEF Inv, Locks, FolderOrdered, PlanningsOrdered, Orderly
  <2>4. ASSUME NEW op \in InFlight, at[op] \in Reconciling PROVE folderLock # <<>> /\ Head(folderLock) = op
    <3>1. op \in FolderHolders
      BY <2>4 DEF InFlight, FolderHolders, HoldsAt
    <3> QED BY <3>1, QueueHead DEF Inv, Locks, FolderOrdered
  <2>5. ASSUME NEW op \in InFlight, Kind[op] = "revise", at[op] # "planning" PROVE Head(planningLock[loc[op].id]) = op
    <3>1. op \in Calls /\ op \in Ops /\ at[op] \notin Still
      BY Calling DEF InFlight, Still
    <3>2. at[op] \in Places /\ at[op] \notin Still \cup {"planning"} /\ PlacedAt(op, at[op], loc[op])
      BY <2>5, <3>1 DEF Inv, Typed, Counted, Placed
    <3>3. loc[op].id = Aim[op]
      BY <2>5, <3>2 DEF PlacedAt, Prepared, Places, Writing, Reconciling, Still, Written
    <3>4. op \in PlanningHolders(Aim[op]) /\ Aim[op] \in Ids
      BY <2>5, <3>1, <3>2, Calling DEF PlanningHolders, Updates
    <3>5. Orderly(planningLock[Aim[op]], InPlanning(Aim[op]), PlanningHolders(Aim[op]))
      BY <3>4 DEF Inv, Locks, PlanningsOrdered
    <3> QED BY <3>3, <3>4, <3>5, QueueHead
  <2> QED BY <2>2, <2>3, <2>4, <2>5 DEF Inv, Typed, Stored, Counted, TypeOK
<1> QED BY <1>1, Invariant, PTL

-----------------------------------------------------------------------------
(* Nothing the person wrote is lost                                        *)

\* In a revision, or in a copy kept beside the revisions: neither is ever written again.
Durable(p) ==
  \E i \in Ids : \/ \E text \in copies[i] : p \in text.has
                 \/ \E r \in 1..MaxRevision : history[i][r] # None /\ p \in history[i][r].has
\* A call has read the file, or found its name free, and has still to write it.
Replacing(c, n) == at[c] \in {"keeping", "recording", "placing"} /\ loc[c].meta.file = n
\* It will write what it read, or keep what it read first.
Carries(c, p) == p \in loc[c].doc.has \/ (at[c] = "keeping" /\ p \in loc[c].read.has)
InFile(p, n) ==
  /\ folder[n] # None /\ p \in folder[n].has
  /\ \A c \in Calls : Replacing(c, n) => Carries(c, p)
Safe(p) == Durable(p) \/ \E n \in Names : InFile(p, n)
Kept == \A p \in Person : Kind[p] \in {"edit", "spoil", "drop"} /\ answer[p].outcome = "seen" => Safe(p)

\* A change once in a revision or a copy stays.
LEMMA DurableStays ==
  ASSUME Inv, Grows, \A i \in Ids : copies[i] \subseteq copies'[i], NEW p, Durable(p)
  PROVE  Durable(p)'
BY DEF Durable, Grows

\* No copy is taken back.
LEMMA CopiesStay == ASSUME Inv, NEW op \in Ops, Step(op), NEW i \in Ids PROVE copies[i] \subseteq copies'[i]
<1>1. CASE Keeps(op)
  BY <1>1 DEF Keeps, Inv, Typed, Stored
<1>2. CASE ~Keeps(op)
  BY <1>2
    DEF Step, Server, Reconcile, Called, Locked, ReconcileStarts, ReconcileReadsMeta, ReconcileLooks,
        ReconcileLists, ReconcileReads, Refiled, Adopts, Adopted, ReadsMeta, FileMissing, Gets, CreateNamed,
        ReviseRefused, Revises, Records, PlacesFile, Claims, Fails, PersonMoves, disk
<1> QED BY <1>1, <1>2

\* What a move of the person was is decided when it is made.
LEMMA AnswersOfThePerson ==
  ASSUME Inv, NEW op \in Ops, Step(op), ~PersonMoves(op), NEW p \in Person
  PROVE  answer'[p] = answer[p]
<1>1. answer \in [Ops -> Answers] /\ p \in Ops
  BY DEF Inv, Typed, Counted, Person
<1>2. op \in Calls
  <2>1. at[op] \notin Still \/ op \in Calls
    BY DEF Step, Server, Reconcile, Called, Locked, ReconcileStarts, Reconciles, ReconcileReadsMeta,
           ReconcileLooks, ReconcileLists, ReconcileReads, Refiled, Adopts, Adopted, ReadsMeta, FileMissing,
           Gets, CreateNamed, ReviseRefused, Revises, Keeps, Records, PlacesFile, Claims, Fails, Writing, Still
  <2> QED BY <2>1 DEF Inv, Typed, Placed, PlacedAt
<1>3. op # p
  BY <1>2 DEF Person
<1>4. ASSUME NEW what, Ends(op, what) PROVE answer'[p] = answer[p]
  BY <1>1, <1>3, <1>4 DEF Ends
<1>5. ASSUME NEW r, NextEntry(op, r) PROVE answer'[p] = answer[p]
  BY <1>4, <1>5 DEF NextEntry
<1>6. CASE Reconcile(op)
  BY <1>5, <1>6 DEF Reconcile, ReconcileStarts, ReconcileReadsMeta, ReconcileLooks, ReconcileLists, ReconcileReads,
     Refiled, Adopts, Adopted
<1>7. CASE ~Reconcile(op)
  BY <1>4, <1>7
    DEF Step, Server, Called, Locked, ReadsMeta, FileMissing, Gets, CreateNamed, ReviseRefused, Revises, Keeps,
        Records, PlacesFile, Claims, Fails
<1> QED BY <1>6, <1>7

\* A step that writes no file of the folder, and prepares none to be written.
LEMMA SafeKept ==
  ASSUME Inv, NEW op \in Ops, Step(op), folder' = folder, NEW p, Safe(p),
         at'[op] \in {"keeping", "recording", "placing"} => at[op] = "recording" /\ loc'[op] = loc[op]
  PROVE  Safe(p)'
<1>1. CASE Durable(p)
  BY <1>1, DurableStays, StepGrows, CopiesStay DEF Safe
<1>2. CASE \E n \in Names : InFile(p, n)
  <2>1. PICK n \in Names : InFile(p, n)
    BY <1>2
  <2>2. ASSUME NEW c \in Calls, Replacing(c, n)' PROVE Carries(c, p)'
    <3>1. CASE c = op
      BY <2>1, <2>2, <3>1 DEF Replacing, Carries, InFile
    <3>2. CASE c # op
      <4>1. at'[c] = at[c] /\ loc'[c] = loc[c]
        BY <3>2, OthersStay, Calling DEF Inv
      <4> QED BY <2>1, <2>2, <4>1 DEF Replacing, Carries, InFile
    <3> QED BY <3>1, <3>2
  <2>3. InFile(p, n)'
    BY <2>1, <2>2 DEF InFile
  <2> QED BY <2>3 DEF Safe
<1> QED BY <1>1, <1>2 DEF Safe

\* A planning to be created takes a name no file has.
LEMMA CreateNamedSafe == ASSUME Inv, NEW op \in Ops, CreateNamed(op), NEW p, Safe(p) PROVE Safe(p)'
<1>1. CASE Durable(p)
  BY <1>1, DurableStays, StepGrows, CopiesStay DEF Safe, Step, Server
<1>2. CASE \E n \in Names : InFile(p, n)
  <2>1. PICK n \in Names : InFile(p, n)
    BY <1>2
  <2>2. loc'[op].meta.file \notin Taken
    <3>1. op \in Calls /\ Aim[op] \in Titles /\ IsFree(Aim[op], Taken)
      BY Calling DEF CreateNamed, Inv, Typed, Placed, PlacedAt, Still
    <3>2. FirstFree(Aim[op], Taken) \notin Taken
      BY <3>1, FirstFreeTyped
    <3> DEFINE first == [revision |-> 1, file |-> FirstFree(Aim[op], Taken)]
               doc == [title |-> Aim[op], has |-> {op}, valid |-> TRUE]
               id == NewId(Aim[op])
    <3>3. loc' = [loc EXCEPT ![op] = [NoLocals EXCEPT !.id = id, !.doc = doc, !.meta = first]]
      BY DEF CreateNamed, Set
    <3> HIDE DEF doc, id
    <3>4. loc'[op].meta = first
      BY <3>3 DEF Inv, Typed, Counted, NoLocals
    <3> QED BY <3>2, <3>4
  <2>3. loc'[op].meta.file # n /\ folder' = folder
    BY <2>1, <2>2 DEF InFile, Taken, CreateNamed, disk
  <2>4. ASSUME NEW c \in Calls, Replacing(c, n)' PROVE Carries(c, p)'
    <3>1. c # op
      BY <2>3, <2>4 DEF Replacing
    <3>2. at'[c] = at[c] /\ loc'[c] = loc[c]
      BY <3>1, OthersStay, Calling DEF Inv, Step, Server
    <3> QED BY <2>1, <2>4, <3>2 DEF Replacing, Carries, InFile
  <2>5. InFile(p, n)'
    BY <2>1, <2>3, <2>4 DEF InFile
  <2> QED BY <2>5 DEF Safe
<1> QED BY <1>1, <1>2 DEF Safe

\* An update carries what it read.
LEMMA RevisesSafe == ASSUME Inv, NEW op \in Ops, Revises(op), NEW p, Safe(p) PROVE Safe(p)'
<1>1. CASE Durable(p)
  BY <1>1, DurableStays, StepGrows, CopiesStay DEF Safe, Step, Server
<1>2. CASE \E n \in Names : InFile(p, n)
  <2>1. PICK n \in Names : InFile(p, n)
    BY <1>2
  <2>2. folder' = folder
    BY DEF Revises, disk
  <2>3. ASSUME NEW c \in Calls, Replacing(c, n)' PROVE Carries(c, p)'
    <3>1. CASE c # op
      <4>1. at'[c] = at[c] /\ loc'[c] = loc[c]
        BY <3>1, OthersStay, Calling DEF Inv, Step, Server
      <4> QED BY <2>1, <2>3, <4>1 DEF Replacing, Carries, InFile
    <3>2. CASE c = op
      <4> DEFINE current == IF FileOf(op).valid THEN FileOf(op) ELSE Recorded(op)
      <4>1. /\ current \in Contents /\ FileOf(op) \in Contents
            /\ loc'[op].doc = [current EXCEPT !.has = current.has \cup {op}] /\ loc'[op].read = FileOf(op)
            /\ loc'[op].meta.file = loc[op].meta.file
            /\ ~FileOf(op).valid => at'[op] = "keeping"
        BY RevisesTyped DEF Inv
      <4>2. p \in FileOf(op).has
        BY <2>1, <2>3, <3>2, <4>1 DEF Replacing, InFile, FileOf
      <4>3. CASE FileOf(op).valid
        <5>1. current = FileOf(op)
          BY <4>3
        <5>2. p \in loc'[op].doc.has
          BY <4>1, <4>2, <5>1 DEF Contents
        <5> QED BY <3>2, <5>2 DEF Carries
      <4>4. CASE ~FileOf(op).valid
        BY <3>2, <4>1, <4>2, <4>4 DEF Carries
      <4> QED BY <4>3, <4>4
    <3> QED BY <3>1, <3>2
  <2>4. InFile(p, n)'
    BY <2>1, <2>2, <2>3 DEF InFile
  <2> QED BY <2>4 DEF Safe
<1> QED BY <1>1, <1>2 DEF Safe

\* What it could not read is in a copy before it goes on.
LEMMA KeepsSafe == ASSUME Inv, NEW op \in Ops, Keeps(op), NEW p, Safe(p) PROVE Safe(p)'
<1>0. /\ loc[op].id \in Ids /\ at \in [Ops -> Places] /\ copies \in [Ids -> SUBSET Contents] /\ op \in Calls
      /\ at[op] = "keeping" /\ at'[op] = "recording" /\ loc' = loc /\ folder' = folder
  BY Writes DEF Keeps, Goto, Inv, Typed, Counted, Stored
<1>1. CASE Durable(p)
  BY <1>1, DurableStays, StepGrows, CopiesStay DEF Safe, Step, Server
<1>2. CASE p \in loc[op].read.has
  <2>1. loc[op].read \in copies'[loc[op].id]
    BY <1>0 DEF Keeps
  <2>2. Durable(p)'
    BY <1>0, <1>2, <2>1 DEF Durable
  <2> QED BY <2>2 DEF Safe
<1>3. CASE p \notin loc[op].read.has /\ \E n \in Names : InFile(p, n)
  <2>1. PICK n \in Names : InFile(p, n)
    BY <1>3
  <2>2. ASSUME NEW c \in Calls, Replacing(c, n)' PROVE Carries(c, p)'
    <3>1. CASE c # op
      <4>1. at'[c] = at[c] /\ loc'[c] = loc[c]
        BY <3>1, OthersStay, Calling DEF Inv, Step, Server
      <4> QED BY <2>1, <2>2, <4>1 DEF Replacing, Carries, InFile
    <3>2. CASE c = op
      BY <1>0, <1>3, <2>1, <2>2, <3>2 DEF Replacing, Carries, InFile
    <3> QED BY <3>1, <3>2
  <2>3. InFile(p, n)'
    BY <1>0, <2>1, <2>2 DEF InFile
  <2> QED BY <2>3 DEF Safe
<1> QED BY <1>1, <1>2, <1>3 DEF Safe

\* The file is replaced by a document that holds what was in it, and that is recorded.
LEMMA PlacesFileSafe == ASSUME Inv, NEW op \in Ops, PlacesFile(op), NEW p, Safe(p) PROVE Safe(p)'
<1>0. /\ at[op] = "placing" /\ op \in Calls /\ loc[op].id \in Ids /\ loc[op].meta.revision \in 1..MaxRevision
      /\ loc[op].doc # None /\ loc[op].meta.file \in Names
      /\ history[loc[op].id][loc[op].meta.revision] = loc[op].doc
      /\ UNCHANGED <<loc, history, copies>> /\ at' = [at EXCEPT ![op] = "claiming"]
      /\ folder' = [folder EXCEPT ![loc[op].meta.file] = loc[op].doc]
  BY Writes, Kinds DEF PlacesFile, Goto, Inv, Disk, OnDisk, Written
<1>1. CASE Durable(p)
  BY <1>1, DurableStays, StepGrows, CopiesStay DEF Safe, Step, Server
<1>2. ASSUME NEW n \in Names, InFile(p, n), n = loc[op].meta.file PROVE Safe(p)'
  <2>1. p \in loc[op].doc.has
    BY <1>0, <1>2 DEF InFile, Replacing, Carries
  <2>2. Durable(p)'
    BY <1>0, <2>1 DEF Durable
  <2> QED BY <2>2 DEF Safe
<1>3. ASSUME NEW n \in Names, InFile(p, n), n # loc[op].meta.file PROVE Safe(p)'
  <2>1. folder'[n] = folder[n]
    BY <1>0, <1>3 DEF Inv, Typed, Stored
  <2>2. ASSUME NEW c \in Calls, Replacing(c, n)' PROVE Carries(c, p)'
    <3>1. CASE c # op
      <4>1. at'[c] = at[c] /\ loc'[c] = loc[c]
        BY <3>1, OthersStay, Calling DEF Inv, Step, Server
      <4> QED BY <1>3, <2>2, <4>1 DEF Replacing, Carries, InFile
    <3>2. CASE c = op
      BY <1>0, <1>3, <2>2, <3>2 DEF Replacing
    <3> QED BY <3>1, <3>2
  <2>3. InFile(p, n)'
    BY <1>3, <2>1, <2>2 DEF InFile
  <2> QED BY <2>3 DEF Safe
<1> QED BY <1>1, <1>2, <1>3 DEF Safe

\* What the person does to one file leaves what was written in the others, and what is given up
\* is not claimed to be kept.
LEMMA PersonMovesKept == ASSUME Inv, Kept, NEW op \in Ops, PersonMoves(op) PROVE Kept'
<1>0. /\ op \in Person /\ Moves(op) /\ at \in [Ops -> Places] /\ folder \in [Names -> Contents \cup {None}]
      /\ at' = [at EXCEPT ![op] = "done"] /\ UNCHANGED <<dirs, history, meta, copies, loc>>
  BY DEF PersonMoves, Goto, Inv, Typed, Counted, Stored
<1>1. Aim[op] \in Names /\ (Kind[op] = "rename" => To[op] \in Names)
  BY <1>0, PlanningStoreAssumption DEF Person, Calls, PlanningStoreAssumption
<1>2. \A c \in Calls : at'[c] = at[c]
  BY <1>0, Calling DEF Person
<1>3. ASSUME NEW n \in Names, ~AboutToBeReplaced(n), NEW c \in Calls PROVE ~Replacing(c, n)'
  <2> SUFFICES ASSUME Replacing(c, n)' PROVE FALSE
    OBVIOUS
  <2>1. Replacing(c, n)
    BY <1>0, <1>2 DEF Replacing
  <2>2. loc[c].doc # None
    <3>1. at[c] \in {"keeping"} \cup Written /\ c \in Ops
      BY <2>1, Calling DEF Replacing, Written
    <3> QED BY <3>1, Writes, Kinds DEF Inv
  <2> QED BY <1>3, <2>1, <2>2 DEF Replacing, AboutToBeReplaced
<1> SUFFICES ASSUME NEW p \in Person, Kind[p] \in {"edit", "spoil", "drop"}, answer'[p].outcome = "seen"
             PROVE  Safe(p)'
  BY DEF Kept
<1>4. CASE p = op
  <2>1. ~AboutToBeReplaced(Aim[op])
    BY <1>0, <1>4 DEF PersonMoves, Unseen, NoAnswer
  <2>2. folder'[Aim[op]] # None /\ op \in folder'[Aim[op]].has
    <3>1. CASE Kind[op] \in {"edit", "spoil"}
      <4>1. folder[Aim[op]] \in Contents /\ op \in Changes
        BY <1>0, <1>1, <3>1 DEF Moves, Changes
      <4>2. \A stays \in BOOLEAN : op \in Edited(op, stays).has /\ Edited(op, stays) \in Contents
        BY <4>1 DEF Edited, Contents
      <4> QED BY <1>0, <1>1, <3>1, <4>2, Kinds DEF Moves
    <3>2. CASE Kind[op] = "drop"
      <4>1. Aim[op][1] \in Titles /\ op \in Changes
        BY <1>0, <1>1, <3>2 DEF Names, Changes
      <4>2. [title |-> Aim[op][1], has |-> {op}, valid |-> TRUE] \in Contents
        BY <4>1 DEF Contents
      <4> QED BY <1>0, <1>1, <3>2, <4>2, Kinds DEF Moves
    <3> QED BY <1>4, <3>1, <3>2
  <2>3. InFile(op, Aim[op])'
    BY <1>1, <1>3, <2>1, <2>2 DEF InFile
  <2> QED BY <1>1, <1>4, <2>3 DEF Safe
<1>5. CASE p # op
  <2>1. p \in Ops /\ p \notin GivenUp(op) /\ answer'[p] = answer[p]
    <3>1. p \in Ops
      BY DEF Person
    <3>2. p \notin GivenUp(op)
      BY <1>5, <3>1 DEF PersonMoves, NoAnswer
    <3> QED BY <1>5, <3>1, <3>2 DEF PersonMoves
  <2>2. Safe(p)
    BY <2>1 DEF Kept
  <2>3. CASE Durable(p)
    BY <1>0, <2>3 DEF Durable, Safe
  <2>4. ASSUME NEW n \in Names, InFile(p, n) PROVE Safe(p)'
    <3>1. ASSUME folder'[n] # None, p \in folder'[n].has PROVE Safe(p)'
      <4>1. ASSUME NEW c \in Calls, Replacing(c, n)' PROVE Carries(c, p)'
        BY <1>0, <1>2, <2>4, <4>1 DEF InFile, Replacing, Carries
      <4>2. InFile(p, n)'
        BY <3>1, <4>1 DEF InFile
      <4> QED BY <4>2 DEF Safe
    <3>2. CASE folder'[n] = folder[n]
      BY <2>4, <3>1, <3>2 DEF InFile
    <3>3. CASE Kind[op] \in {"edit", "spoil"} /\ n = Aim[op]
      <4>1. folder[n] \in Contents /\ op \in Changes
        BY <1>0, <2>4, <3>3 DEF InFile, Changes
      <4>2. \A stays \in BOOLEAN : p \in Edited(op, stays).has /\ Edited(op, stays) \in Contents
        BY <2>4, <3>3, <4>1 DEF Edited, Contents, InFile
      <4> QED BY <1>0, <3>1, <3>3, <4>2, Kinds DEF Moves
    <3>4. CASE Kind[op] = "rename" /\ n = Aim[op]
      <4>1. ~AboutToBeReplaced(To[op])
        BY <2>1, <2>4, <3>4 DEF GivenUp, InFile
      <4>2. folder'[To[op]] = folder[n] /\ To[op] \in Names
        BY <1>0, <1>1, <2>4, <3>4 DEF Moves, InFile
      <4>3. InFile(p, To[op])'
        BY <1>3, <2>4, <4>1, <4>2 DEF InFile
      <4> QED BY <4>2, <4>3 DEF Safe
    <3>5. CASE Kind[op] = "delete" /\ n = Aim[op]
      BY <2>1, <2>4, <3>5 DEF GivenUp, InFile
    <3>6. folder'[n] # folder[n] => n = Aim[op] /\ Kind[op] \in {"edit", "spoil", "rename", "delete"}
      BY <1>0, <1>1, <2>4 DEF Moves, InFile
    <3> QED BY <3>2, <3>3, <3>4, <3>5, <3>6
  <2> QED BY <2>2, <2>3, <2>4 DEF Safe
<1> QED BY <1>4, <1>5

\* No step loses a change.
LEMMA StepKept == ASSUME Inv, Kept, NEW op \in Ops, Step(op) PROVE Kept'
<1>1. CASE PersonMoves(op)
  BY <1>1, PersonMovesKept
<1>2. CASE ~PersonMoves(op)
  <2> SUFFICES ASSUME NEW p \in Person, Kind[p] \in {"edit", "spoil", "drop"}, answer'[p].outcome = "seen"
               PROVE  Safe(p)'
    BY DEF Kept
  <2>1. Safe(p)
    BY <1>2, AnswersOfThePerson DEF Kept
  <2>2. at \in [Ops -> Places]
    BY DEF Inv, Typed, Counted
  <2>3. CASE Reconcile(op)
    <3>1. folder' = folder
      BY <2>3
        DEF Reconcile, ReconcileStarts, ReconcileReadsMeta, ReconcileLooks, ReconcileLists, ReconcileReads,
            Refiled, Adopts, Adopted, disk
    <3>2. ASSUME NEW r, NextEntry(op, r) PROVE at'[op] \notin {"keeping", "recording", "placing"}
      BY <2>2, <3>2 DEF NextEntry, Goto, Ends
    <3>3. at'[op] \notin {"keeping", "recording", "placing"}
      BY <2>2, <2>3, <3>2
        DEF Reconcile, ReconcileStarts, ReconcileReadsMeta, ReconcileLooks, ReconcileLists, ReconcileReads,
            Refiled, Adopts, Adopted, Goto
    <3> QED BY <2>1, <3>1, <3>3, SafeKept
  <2>4. CASE Called(op) \/ Locked(op) \/ ReadsMeta(op) \/ FileMissing(op) \/ Gets(op) \/ ReviseRefused(op)
               \/ Claims(op) \/ Fails(op)
    <3>1. folder' = folder
      BY <2>4 DEF Called, Locked, ReadsMeta, FileMissing, Gets, ReviseRefused, Claims, Fails, disk
    <3>2. at'[op] \notin {"keeping", "recording", "placing"}
      BY <2>2, <2>4 DEF Called, Locked, ReadsMeta, FileMissing, Gets, ReviseRefused, Claims, Fails, Ends, Goto
    <3> QED BY <2>1, <3>1, <3>2, SafeKept
  <2>5. CASE Records(op)
    <3>1. folder' = folder /\ at[op] = "recording"
      BY <2>5 DEF Records
    <3>2. at'[op] = "placing" => loc'[op] = loc[op]
      BY <2>2, <2>5 DEF Records, Ends, Goto
    <3>3. at'[op] \in {"placing", "done"}
      BY <2>2, <2>5 DEF Records, Ends, Goto
    <3> QED BY <2>1, <3>1, <3>2, <3>3, SafeKept
  <2> QED BY <1>2, <2>1, <2>3, <2>4, <2>5, CreateNamedSafe, RevisesSafe, KeepsSafe, PlacesFileSafe DEF Step, Server
<1> QED BY <1>1, <1>2

\* "so nothing the person wrote is lost" (mcp/src/store.ts 20), for every set of calls and moves,
\* every number of deaths and of failed writes: excepted is what the person deletes, and what is
\* written, or put, in a file a call is about to replace.
THEOREM WhatIsWrittenStays == Spec => []NothingThePersonWroteIsLost
<1>1. Init => Kept
  BY DEF Init, Kept, NoAnswer, Person
<1>2. Inv /\ Kept /\ [Next]_vars => Kept'
  <2> SUFFICES ASSUME Inv, Kept, [Next]_vars PROVE Kept'
    OBVIOUS
  <2>1. CASE UNCHANGED vars
    BY <2>1 DEF vars, disk, Kept, Safe, Durable, InFile, Replacing, Carries
  <2>2. CASE Crash
    <3>1. /\ UNCHANGED <<folder, history, copies, answer>>
          /\ \A c \in Calls : at'[c] \in Still
      BY <2>2, Calling DEF Crash, disk, InFlight, Still
    <3>2. \A c \in Calls : \A n \in Names : ~Replacing(c, n)'
      BY <3>1 DEF Replacing, Still
    <3> QED BY <3>1, <3>2 DEF Kept, Safe, Durable, InFile
  <2>3. CASE \E op \in Ops : Step(op)
    BY <2>3, StepKept
  <2> QED BY <2>1, <2>2, <2>3 DEF Next, Step
<1>3. Inv /\ Kept => NothingThePersonWroteIsLost
  BY DEF Kept, Safe, Durable, InFile, NothingThePersonWroteIsLost, Somewhere, Taken
<1> QED BY <1>1, <1>2, <1>3, Invariant, PTL DEF Spec

-----------------------------------------------------------------------------
(* The promise of Plannings                                                *)

\* A reconcile writes back the meta it has read with a new file name: no update has replaced it since.
NotOvertaken == \A op \in Ops : Refiled(op) => meta[rec.id].revision = rec.meta.revision
\* The file an update reads is its planning's: what the current revision holds is still in it.
ReadsItsOwn == \A op \in Ops : Revises(op) /\ FileOf(op).valid => HasOf(Recorded(op)) \subseteq HasOf(FileOf(op))
Undisturbed == NotOvertaken /\ ReadsItsOwn

\* Every revision counted by a meta is there; an update under way is made on the last one, and
\* holds what it held; who has not ended has been told nothing.
Counts == \A i \in Ids : meta[i] # None => \A r \in 1..meta[i].revision : history[i][r] # None
Current(o) ==
  Kind[o] = "revise" =>
    /\ at[o] = "file" => meta[loc[o].id].revision = loc[o].meta.revision
    /\ at[o] \in {"keeping"} \cup Written => /\ meta[loc[o].id].revision = loc[o].base
                                             /\ HasOf(history[loc[o].id][loc[o].base]) \subseteq HasOf(loc[o].doc)
Untold(c) == at[c] # "done" => answer[c].outcome = "none"
Promised == Counts /\ (\A o \in Ops : Current(o)) /\ (\A c \in Calls : Untold(c))

\* A step answers one call.
LEMMA AnswersOfTheOthers ==
  ASSUME Inv, NEW op \in Ops, Step(op), NEW c \in Calls, c # op
  PROVE  answer'[c] = answer[c]
<1>1. answer \in [Ops -> Answers] /\ c \in Ops
  BY Calling DEF Inv, Typed, Counted
<1>4. ASSUME NEW what, Ends(op, what) PROVE answer'[c] = answer[c]
  BY <1>1, <1>4 DEF Ends
<1>5. ASSUME NEW r, NextEntry(op, r) PROVE answer'[c] = answer[c]
  BY <1>4, <1>5 DEF NextEntry
<1>6. CASE Reconcile(op)
  BY <1>5, <1>6 DEF Reconcile, ReconcileStarts, ReconcileReadsMeta, ReconcileLooks, ReconcileLists, ReconcileReads,
     Refiled, Adopts, Adopted
<1>7. CASE PersonMoves(op)
  <2>1. c \notin GivenUp(op)
    BY DEF GivenUp, Person
  <2> QED BY <1>1, <1>7, <2>1 DEF PersonMoves
<1>8. CASE ~Reconcile(op) /\ ~PersonMoves(op)
  BY <1>4, <1>8
    DEF Step, Server, Called, Locked, ReadsMeta, FileMissing, Gets, CreateNamed, ReviseRefused, Revises, Keeps,
        Records, PlacesFile, Claims, Fails
<1> QED BY <1>6, <1>7, <1>8

\* What a call is told that made nothing, or nothing yet.
LEMMA OwnAnswer ==
  ASSUME Inv, NEW op \in Calls, Step(op), ~Claims(op)
  PROVE  \/ answer'[op] = answer[op] /\ at'[op] # "done"
         \/ at'[op] = "done" /\ (answer'[op].outcome # "ok" \/ Kind[op] \notin {"create", "revise"})
<1>1. answer \in [Ops -> Answers] /\ at \in [Ops -> Places] /\ op \in Ops
  BY Calling DEF Inv, Typed, Counted
<1>2. ASSUME NEW what, Ends(op, what) PROVE answer'[op] = what /\ at'[op] = "done"
  BY <1>1, <1>2 DEF Ends, Goto
<1>3. /\ Refused.outcome # "ok" /\ [NoAnswer EXCEPT !.outcome = "failed"].outcome # "ok"
      /\ [NoAnswer EXCEPT !.outcome = "taken", !.id = loc[op].id, !.revision = loc[op].meta.revision].outcome # "ok"
  BY DEF Refused, NoAnswer
<1>4. ASSUME NEW r, NextEntry(op, r)
      PROVE  \/ answer'[op] = answer[op] /\ at'[op] # "done"
             \/ at'[op] = "done" /\ Kind[op] \notin {"create", "revise"}
  BY <1>1, <1>2, <1>4 DEF NextEntry, Goto
<1>5. CASE Reconcile(op)
  <2>1. CASE \E r : NextEntry(op, r)
    BY <1>4, <2>1
  <2>2. CASE ReconcileStarts(op) \/ ReconcileReadsMeta(op) \/ Adopts(op)
    BY <1>1, <2>2 DEF ReconcileStarts, ReconcileReadsMeta, Adopts, Goto
  <2>3. CASE ReconcileLooks(op)
    BY <2>3 DEF ReconcileLooks
  <2>4. CASE ReconcileReads(op)
    BY <1>1, <1>4, <2>4 DEF ReconcileReads, Goto
  <2> QED BY <1>5, <2>1, <2>2, <2>3, <2>4 DEF Reconcile, ReconcileLists, Refiled, Adopted
<1>6. CASE Called(op) \/ Locked(op) \/ CreateNamed(op) \/ Revises(op) \/ Keeps(op) \/ PlacesFile(op)
  BY <1>1, <1>6 DEF Called, Locked, CreateNamed, Revises, Keeps, PlacesFile, Goto
<1>7. CASE ReadsMeta(op) \/ FileMissing(op)
  BY <1>1, <1>2, <1>3, <1>7 DEF ReadsMeta, FileMissing, Goto
<1>8. CASE Gets(op)
  BY <1>2, <1>8 DEF Gets
<1>9. CASE ReviseRefused(op)
  BY <1>2, <1>3, <1>9 DEF ReviseRefused
<1>10. CASE Records(op)
  <2>1. CASE Goto(op, "placing") /\ UNCHANGED answer
    BY <1>1, <2>1 DEF Goto
  <2>2. CASE Ends(op, [NoAnswer EXCEPT !.outcome = "taken", !.id = loc[op].id, !.revision = loc[op].meta.revision])
    BY <1>2, <1>3, <2>2
  <2> QED BY <1>10, <2>1, <2>2 DEF Records
<1>11. CASE Fails(op)
  BY <1>2, <1>3, <1>11 DEF Fails
<1>12. ~PersonMoves(op)
  BY DEF PersonMoves, Person
<1> QED BY <1>5, <1>6, <1>7, <1>8, <1>9, <1>10, <1>11, <1>12 DEF Step, Server

\* The revisions of the plannings, and what a step that writes no meta leaves of them.
SameMetas ==
  \A i \in Ids : \/ meta[i] = None /\ meta'[i] = None
                 \/ meta[i] # None /\ meta'[i] # None /\ meta'[i].revision = meta[i].revision

\* A meta counts a revision within the bound.
LEMMA MetaCounts == ASSUME Inv, NEW i \in Ids, meta[i] # None PROVE meta[i] \in Metas /\ meta[i].revision \in 1..MaxRevision
BY DEF Inv, Typed, Stored, Metas

\* Where no planning counts more, the revisions are as they were.
LEMMA SameRevisions ==
  ASSUME Inv, Promised, Grows, SameMetas
  PROVE  Revisions' = Revisions /\ Counts'
<1>1. ASSUME NEW i \in Ids, meta[i] # None
      PROVE  \A r \in 1..meta[i].revision : history'[i][r] = history[i][r] /\ history[i][r] # None
  <2>1. 1..meta[i].revision \subseteq 1..MaxRevision
    BY <1>1, MetaCounts, Kinds
  <2> QED BY <1>1, <2>1 DEF Promised, Counts, Grows
<1>2. Counts'
  BY <1>1 DEF Counts, SameMetas
<1>3. \A i \in Ids : (IF meta'[i] = None THEN <<>> ELSE [r \in 1..meta'[i].revision |-> history'[i][r]])
                     = (IF meta[i] = None THEN <<>> ELSE [r \in 1..meta[i].revision |-> history[i][r]])
  BY <1>1 DEF SameMetas
<1> QED BY <1>2, <1>3 DEF Revisions

\* What the calls were told is what creates and updates were answered.
LEMMA SameTellings ==
  ASSUME \A c \in Calls : \/ answer'[c] = answer[c]
                          \/ /\ answer[c].outcome # "ok" \/ Kind[c] \notin {"create", "revise"}
                             /\ answer'[c].outcome # "ok" \/ Kind[c] \notin {"create", "revise"}
  PROVE  Tellings' = Tellings
BY DEF Tellings

\* Only a claim and an adoption make a planning count more, if no update was overtaken.
LEMMA StepMetas ==
  ASSUME Inv, NEW op \in Ops, Step(op), ~Claims(op), ~Adopted(op), NotOvertaken
  PROVE  SameMetas
<1>1. CASE Refiled(op)
  <2>1. rec.id \in Ids /\ meta[rec.id] # None /\ rec.meta \in Metas /\ rec.meta.revision = meta[rec.id].revision
    BY <1>1 DEF NotOvertaken, Refiled, Inv, Reconciled, Disk, OnDisk
  <2>2. \A i \in Ids : meta'[i] = IF i = rec.id THEN rec.meta ELSE meta[i]
    BY <1>1, <2>1 DEF Refiled, Inv, Typed, Stored
  <2> QED BY <2>1, <2>2, Kinds DEF SameMetas
<1>2. CASE ~Refiled(op)
  <2>1. meta' = meta
    BY <1>2
      DEF Step, Server, Reconcile, Called, Locked, ReconcileStarts, ReconcileReadsMeta, ReconcileLooks,
          ReconcileLists, ReconcileReads, Adopts, ReadsMeta, FileMissing, Gets, CreateNamed, ReviseRefused,
          Revises, Keeps, Records, PlacesFile, Fails, PersonMoves, disk
  <2> QED BY <2>1 DEF SameMetas
<1> QED BY <1>1, <1>2

\* A list of the first values of a function, and the list with the next one.
LEMMA OneLonger ==
  ASSUME NEW D, NEW n \in Nat, NEW f, \A r \in 1..(n + 1) : f[r] \in D
  PROVE  LET b == [r \in 1..n |-> f[r]]
             a == [r \in 1..(n + 1) |-> f[r]]
         IN  b \in Seq(D) /\ Len(b) = n /\ a \in Seq(D) /\ Len(a) = n + 1 /\ a = Append(b, f[n + 1])
<1> DEFINE b == [r \in 1..n |-> f[r]]
           a == [r \in 1..(n + 1) |-> f[r]]
           x == f[n + 1]
<1>1. x \in D /\ b \in Seq(D) /\ a \in Seq(D)
  <2>1. \A r \in 1..n : f[r] \in D
    OBVIOUS
  <2> QED BY <2>1
<1>2. Len(b) = n /\ Len(a) = n + 1
  BY <1>1
<1>3. (\A r \in 1..n : b[r] = f[r]) /\ (\A r \in 1..(n + 1) : a[r] = f[r])
  OBVIOUS
<1> HIDE DEF a, b
<1>4. Append(b, x) \in Seq(D) /\ Len(Append(b, x)) = n + 1
  BY <1>1, <1>2
<1>5. ASSUME NEW r \in 1..(n + 1) PROVE Append(b, x)[r] = a[r]
  <2>1. CASE r = n + 1
    BY <1>1, <1>2, <1>3, <2>1
  <2>2. CASE r \in 1..n
    BY <1>1, <1>2, <1>3, <2>2
  <2>3. r = n + 1 \/ r \in 1..n
    OBVIOUS
  <2> QED BY <2>1, <2>2, <2>3
<1>6. Append(b, x) = a
  BY <1>1, <1>2, <1>4, <1>5
<1> QED BY <1>1, <1>2, <1>6 DEF a, b

\* A meta that is new, or counts one revision more, adds that revision to its planning.
LEMMA OneMoreRevision ==
  ASSUME Inv, Promised, NEW i \in Ids, NEW m \in Metas, meta' = [meta EXCEPT ![i] = m], history' = history,
         history[i][m.revision] \in Docs,
         (meta[i] = None /\ m.revision = 1) \/ (meta[i] # None /\ m.revision = meta[i].revision + 1)
  PROVE  /\ Counts'
         /\ Revisions' = [Revisions EXCEPT ![i] = Append(@, history[i][m.revision])]
         /\ Len(Revisions[i]) = m.revision - 1 /\ (Revisions[i] = <<>> <=> meta[i] = None)
         /\ Len(Revisions'[i]) = m.revision /\ Revisions'[i][m.revision] = history[i][m.revision]
         /\ meta[i] # None => Revisions[i][Len(Revisions[i])] = history[i][meta[i].revision]
<1> DEFINE d == history[i][m.revision]
           n == m.revision - 1
           before == [r \in 1..n |-> history[i][r]]
           after  == [r \in 1..m.revision |-> history[i][r]]
<1>1. m.revision \in 1..MaxRevision /\ m.revision \in Nat /\ n \in Nat /\ m # None /\ d # None
  BY Kinds DEF Metas
<1>2. meta' = [j \in Ids |-> IF j = i THEN m ELSE meta[j]] /\ meta \in [Ids -> Metas \cup {None}]
  BY DEF Inv, Typed, Stored
<1>3. meta[i] # None => meta[i].revision = n
  BY <1>1, MetaCounts
<1>4. \A r \in 1..n : history[i][r] # None
  BY <1>1, <1>3 DEF Promised, Counts
<1>5. Counts'
  <2>1. \A r \in 1..m.revision : r = m.revision \/ r \in 1..n
    BY <1>1
  <2> QED BY <1>1, <1>2, <1>4, <2>1 DEF Promised, Counts
<1>6. Revisions[i] = before
  <2>1. CASE meta[i] = None
    <3>1. n = 0 /\ before = <<>>
      BY <2>1
    <3> QED BY <2>1, <3>1 DEF Revisions
  <2>2. CASE meta[i] # None
    BY <1>3, <2>2 DEF Revisions
  <2> QED BY <2>1, <2>2
<1>7. Revisions'[i] = after /\ \A j \in Ids : j # i => Revisions'[j] = Revisions[j]
  BY <1>1, <1>2 DEF Revisions
<1>8. before \in Seq(Docs) /\ Len(before) = n /\ Len(after) = m.revision /\ after = Append(before, d)
  <2>1. ASSUME NEW r \in 1..(n + 1) PROVE history[i][r] \in Docs
    <3>1. r \in 1..MaxRevision /\ (r = m.revision \/ r \in 1..n)
      BY <1>1, Kinds
    <3>2. history[i][r] \in Docs \cup {None}
      BY <3>1 DEF Inv, Typed, Stored
    <3>3. r = m.revision => history[i][r] \in Docs
      OBVIOUS
    <3>4. r \in 1..n => history[i][r] # None
      BY <1>4
    <3> HIDE DEF before, after, d, n
    <3> QED BY <3>1, <3>2, <3>3, <3>4
  <2>2. n + 1 = m.revision
    BY <1>1
  <2> QED BY <1>1, <2>1, <2>2, OneLonger
<1>9. DOMAIN Revisions = Ids /\ DOMAIN Revisions' = Ids /\ Revisions = [j \in Ids |-> Revisions[j]]
      /\ Revisions' = [j \in Ids |-> Revisions'[j]]
  BY DEF Revisions
<1>10. Revisions' = [Revisions EXCEPT ![i] = Append(@, d)]
  <2> HIDE DEF before, after, d, n
  <2> QED BY <1>6, <1>7, <1>8, <1>9
<1>11. before = <<>> <=> meta[i] = None
  BY <1>1, <1>3, <1>8, MetaCounts
<1>12. meta[i] # None => before[n] = history[i][n]
  BY <1>1, <1>3, MetaCounts
<1>13. after[m.revision] = d /\ (meta[i] # None => meta[i].revision = n) /\ Len(after) = m.revision /\ Len(before) = n
  BY <1>1, <1>3, <1>8
<1> HIDE DEF before, after
<1> QED BY <1>5, <1>6, <1>7, <1>10, <1>11, <1>12, <1>13

\* The meta an update read is still its planning's while it is at work.
LEMMA RevisionsOfTheOthers ==
  ASSUME Inv, NEW op \in Ops, Step(op), NotOvertaken, NEW o \in Ops, o # op, Kind[o] = "revise",
         at[o] \in {"file", "keeping"} \cup Written
  PROVE  loc[o].id \in Ids /\ meta[loc[o].id] # None /\ meta'[loc[o].id].revision = meta[loc[o].id].revision
<1>1. o \in Calls /\ loc[o].id \in Ids /\ loc[o].id = Aim[o] /\ meta[loc[o].id] # None
  <2>1. CASE at[o] = "file"
    BY <2>1, Reading DEF Inv, Disk, OnDisk
  <2>2. CASE at[o] \in {"keeping"} \cup Written
    BY <2>2, Writes DEF Inv, Disk, OnDisk, Prepared
  <2> QED BY <2>1, <2>2
<1>2. CASE Adopted(op)
  <2>1. rec.id \in Ids /\ meta[rec.id] = None /\ meta' = [meta EXCEPT ![rec.id] = rec.meta]
    BY <1>2 DEF Adopted, Inv, Reconciled, Disk, OnDisk
  <2> QED BY <1>1, <2>1 DEF Inv, Typed, Stored
<1>3. CASE Claims(op)
  <2>1. /\ at[op] = "claiming" /\ op \in Calls /\ Prepared(op, loc[op]) /\ loc[op].id \in Ids
          /\ Kind[op] \in {"create", "revise"}
        /\ meta' = [meta EXCEPT ![loc[op].id] = loc[op].meta]
    BY <1>3, Writes DEF Claims, Inv, Written
  <2>2. loc[op].id # loc[o].id
    <3>1. CASE Kind[op] = "create"
      BY <1>1, <2>1, <3>1 DEF Inv, Disk, OnDisk
    <3>2. CASE Kind[op] = "revise"
      BY <1>1, <2>1, <3>2, OneUpdates DEF Inv, Prepared, Written, Still
    <3> QED BY <2>1, <3>1, <3>2
  <2> QED BY <1>1, <2>1, <2>2 DEF Inv, Typed, Stored
<1>4. CASE ~Adopted(op) /\ ~Claims(op)
  BY <1>1, <1>4, StepMetas DEF SameMetas
<1> QED BY <1>2, <1>3, <1>4

\* An update at work stays current whatever the others do.
LEMMA CurrentOfTheOthers ==
  ASSUME Inv, Promised, NEW op \in Ops, Step(op), NotOvertaken, NEW o \in Ops, o # op
  PROVE  Current(o)'
<1>1. at'[o] = at[o] /\ loc'[o] = loc[o] /\ Grows /\ Current(o)
  BY OthersStay, StepGrows DEF Inv, Promised
<1>2. SUFFICES ASSUME Kind[o] = "revise", at[o] \in {"file", "keeping"} \cup Written PROVE Current(o)'
  BY <1>1 DEF Current
<1>3. loc[o].id \in Ids /\ meta[loc[o].id] # None /\ meta'[loc[o].id].revision = meta[loc[o].id].revision
  BY <1>2, RevisionsOfTheOthers
<1>4. CASE at[o] = "file"
  BY <1>1, <1>3, <1>4 DEF Current, Written
<1>5. CASE at[o] \in {"keeping"} \cup Written
  <2>1. at[o] # "file" /\ meta[loc[o].id].revision = loc[o].base
          /\ HasOf(history[loc[o].id][loc[o].base]) \subseteq HasOf(loc[o].doc)
    BY <1>1, <1>2, <1>5 DEF Current, Written
  <2>2. loc[o].base \in 1..MaxRevision /\ history[loc[o].id][loc[o].base] # None
    BY <1>3, <2>1, MetaCounts DEF Promised, Counts
  <2>3. history'[loc[o].id][loc[o].base] = history[loc[o].id][loc[o].base]
    BY <1>1, <1>3, <2>2 DEF Grows
  <2> QED BY <1>1, <1>3, <2>1, <2>3 DEF Current
<1> QED BY <1>2, <1>4, <1>5

\* An update reads the meta last written, is made on that revision and keeps what it holds.
LEMMA CurrentOfItself ==
  ASSUME Inv, Promised, NEW op \in Ops, Step(op), ReadsItsOwn
  PROVE  Current(op)'
<1>1. at \in [Ops -> Places] /\ loc \in [Ops -> Locals] /\ meta \in [Ids -> Metas \cup {None}] /\ Current(op)
  BY DEF Inv, Typed, Counted, Stored, Promised
<1>2. SUFFICES ASSUME Kind[op] = "revise", at'[op] \in {"file", "keeping"} \cup Written PROVE Current(op)'
  BY DEF Current
<1>3. CASE ReadsMeta(op)
  <2>1. CASE meta[loc[op].id] = None
    BY <1>1, <1>2, <1>3, <2>1 DEF ReadsMeta, Ends, Goto, Written
  <2>2. CASE meta[loc[op].id] # None
    <3>1. /\ at' = [at EXCEPT ![op] = "file"] /\ meta' = meta
          /\ loc' = [loc EXCEPT ![op] = [loc[op] EXCEPT !.meta = meta[loc[op].id]]]
      BY <1>3, <2>2 DEF ReadsMeta, Goto, Set, disk
    <3>2. at'[op] = "file" /\ loc'[op].id = loc[op].id /\ loc'[op].meta = meta[loc[op].id]
      BY <1>1, <3>1 DEF Locals
    <3> QED BY <3>1, <3>2 DEF Current, Written
  <2> QED BY <2>1, <2>2
<1>4. CASE Revises(op)
  <2> DEFINE i == loc[op].id
             b == loc[op].base
             current == IF FileOf(op).valid THEN FileOf(op) ELSE Recorded(op)
  <2>1. /\ at[op] = "file" /\ meta' = meta /\ history' = history /\ b = loc[op].meta.revision
        /\ at'[op] \in {"keeping", "recording"}
    BY <1>1, <1>4 DEF Revises, Goto, disk
  <2>2. /\ current \in Contents /\ loc'[op].doc = [current EXCEPT !.has = current.has \cup {op}]
        /\ loc'[op].id = i /\ loc'[op].base = b
    BY <1>4, RevisesTyped DEF Inv
  <2>3. meta[i].revision = b
    BY <1>1, <1>2, <2>1 DEF Current
  <2>4. HasOf(Recorded(op)) \subseteq HasOf(current)
    BY <1>4 DEF ReadsItsOwn
  <2>5. current.has \subseteq loc'[op].doc.has
    BY <2>2 DEF Contents
  <2>6. HasOf(history[i][b]) \subseteq HasOf(loc'[op].doc)
    BY <2>1, <2>4, <2>5 DEF Recorded, HasOf
  <2> HIDE DEF i, b, current
  <2>7. meta'[loc'[op].id].revision = loc'[op].base
        /\ HasOf(history'[loc'[op].id][loc'[op].base]) \subseteq HasOf(loc'[op].doc)
    BY <2>1, <2>2, <2>3, <2>6
  <2> QED BY <2>1, <2>7 DEF Current, Written
<1>5. CASE Keeps(op) \/ Records(op) \/ PlacesFile(op)
  <2>1. at[op] \in {"keeping"} \cup Written /\ meta' = meta
    BY <1>5 DEF Keeps, Records, PlacesFile, Written
  <2>2. at'[op] # "done" => loc' = loc /\ at'[op] \in Written
    BY <1>1, <1>5 DEF Keeps, Records, PlacesFile, Ends, Goto, Written
  <2>3. at'[op] # "done" /\ at'[op] # "file" /\ at[op] # "file"
    BY <1>2, <2>1, <2>2 DEF Written
  <2>4. meta[loc[op].id].revision = loc[op].base
          /\ HasOf(history[loc[op].id][loc[op].base]) \subseteq HasOf(loc[op].doc)
    BY <1>1, <1>2, <2>1 DEF Current
  <2>5. history'[loc[op].id][loc[op].base] = history[loc[op].id][loc[op].base]
    <3>1. loc[op].id \in Ids /\ meta[loc[op].id] # None
      BY <1>2, <2>1, Writes DEF Inv, Disk, OnDisk
    <3>2. loc[op].base \in 1..MaxRevision /\ history[loc[op].id][loc[op].base] # None
      BY <2>4, <3>1, MetaCounts DEF Promised, Counts
    <3> QED BY <3>1, <3>2, StepGrows DEF Grows
  <2> QED BY <2>1, <2>2, <2>3, <2>4, <2>5 DEF Current
<1>6. CASE CreateNamed(op)
  BY <1>2, <1>6 DEF CreateNamed
<1>7. CASE Reconcile(op)
  <2>1. ASSUME NEW r, NextEntry(op, r) PROVE at'[op] \in {"entries", "meta", "done"}
    BY <1>1, <2>1 DEF NextEntry, Ends, Goto
  <2>2. at'[op] \in Reconciling \cup {"meta", "done"}
    BY <1>1, <1>7, <2>1
      DEF Reconcile, ReconcileStarts, ReconcileReadsMeta, ReconcileLooks, ReconcileLists, ReconcileReads,
          Refiled, Adopts, Adopted, Goto, Reconciling
  <2> QED BY <1>2, <2>2 DEF Reconciling, Written
<1>8. CASE ~(\/ ReadsMeta(op) \/ Revises(op) \/ Keeps(op) \/ Records(op) \/ PlacesFile(op) \/ CreateNamed(op) \/ Reconcile(op))
  <2>1. at'[op] \in {"folder", "meta", "planning", "done"}
    BY <1>1, <1>8
      DEF Step, Server, Called, Locked, FileMissing, Gets, ReviseRefused, Claims, Fails, PersonMoves, Ends, Goto
  <2> QED BY <1>2, <2>1 DEF Written
<1> QED BY <1>3, <1>4, <1>5, <1>6, <1>7, <1>8

\* A claimed revision is the next of its planning: the first of a new one, or made on the last.
LEMMA ClaimsNext ==
  ASSUME Inv, Promised, NEW op \in Ops, Claims(op)
  PROVE  LET i == loc[op].id
             m == loc[op].meta
         IN  /\ op \in Calls /\ Kind[op] \in {"create", "revise"} /\ i \in Ids /\ m \in Metas /\ loc[op].doc \in Docs
             /\ meta' = [meta EXCEPT ![i] = m] /\ history' = history /\ history[i][m.revision] = loc[op].doc
             /\ loc[op].base \in Nat /\ m.revision = loc[op].base + 1
             /\ Kind[op] = "create" => meta[i] = None /\ m.revision = 1
             /\ Kind[op] = "revise" => /\ meta[i] # None /\ meta[i].revision = loc[op].base
                                       /\ HasOf(history[i][meta[i].revision]) \subseteq HasOf(loc[op].doc)
<1>1. /\ at[op] = "claiming" /\ op \in Calls /\ Kind[op] \in {"create", "revise"} /\ Prepared(op, loc[op])
        /\ loc[op] \in Locals
      /\ loc[op].id \in Ids /\ loc[op].meta \in Metas /\ loc[op].doc \in Docs
  BY Writes DEF Claims, Inv, Written
<1>2. Current(op) /\ OnDisk(op)
  BY DEF Promised, Inv, Disk
<1>3. meta' = [meta EXCEPT ![loc[op].id] = loc[op].meta] /\ history' = history
  BY DEF Claims
<1>4. loc[op].base \in Nat /\ loc[op].meta.revision = loc[op].base + 1
  BY <1>1 DEF Prepared, Locals
<1>5. CASE Kind[op] = "create"
  BY <1>1, <1>2, <1>3, <1>4, <1>5 DEF Prepared, OnDisk
<1>6. CASE Kind[op] = "revise"
  BY <1>1, <1>2, <1>3, <1>4, <1>6 DEF Prepared, OnDisk, Current, Written
<1> QED BY <1>1, <1>5, <1>6

\* A file taken in is the first revision of a planning that had none.
LEMMA AdoptedNext ==
  ASSUME Inv, NEW op \in Ops, Adopted(op)
  PROVE  /\ rec.id \in Ids /\ rec.meta \in Metas /\ rec.doc \in Docs /\ rec.meta.revision = 1
         /\ meta' = [meta EXCEPT ![rec.id] = rec.meta] /\ history' = history
         /\ meta[rec.id] = None /\ history[rec.id][1] = rec.doc
BY DEF Adopted, Inv, Reconciled, Disk, OnDisk

\* The revisions counted are there after every step.
LEMMA CountsKept == ASSUME Inv, Promised, NEW op \in Ops, Step(op), NotOvertaken PROVE Counts'
<1>1. CASE Adopted(op)
  BY <1>1, AdoptedNext, OneMoreRevision
<1>2. CASE Claims(op)
  <2> DEFINE i == loc[op].id
             m == loc[op].meta
  <2>1. /\ i \in Ids /\ m \in Metas /\ meta' = [meta EXCEPT ![i] = m] /\ history' = history
        /\ history[i][m.revision] \in Docs
        /\ (meta[i] = None /\ m.revision = 1) \/ (meta[i] # None /\ m.revision = meta[i].revision + 1)
    BY <1>2, ClaimsNext
  <2> HIDE DEF i, m
  <2> QED BY <2>1, OneMoreRevision
<1>3. CASE ~Adopted(op) /\ ~Claims(op)
  BY <1>3, StepMetas, StepGrows, SameRevisions
<1> QED BY <1>1, <1>2, <1>3

\* A call is told at its end.
LEMMA UntoldKept == ASSUME Inv, Promised, NEW op \in Ops, Step(op), NEW c \in Calls PROVE Untold(c)'
<1>1. Untold(c) /\ at \in [Ops -> Places] /\ c \in Ops
  BY Calling DEF Promised, Inv, Typed, Counted
<1>2. CASE c # op
  BY <1>1, <1>2, OthersStay, AnswersOfTheOthers DEF Untold, Inv
<1>3. CASE c = op /\ Claims(op)
  BY <1>1, <1>3 DEF Claims, Ends, Goto, Untold
<1>4. CASE c = op /\ ~Claims(op)
  <2>1. at'[op] # "done" => at[op] # "done"
    <3>1. ~PersonMoves(op)
      BY <1>4 DEF PersonMoves, Person
    <3>2. at[op] # "done"
      BY <1>4, <3>1
        DEF Step, Server, Reconcile, Called, Locked, ReconcileStarts, Reconciles, ReconcileReadsMeta,
            ReconcileLooks, ReconcileLists, ReconcileReads, Refiled, Adopts, Adopted, ReadsMeta, FileMissing,
            Gets, CreateNamed, ReviseRefused, Revises, Keeps, Records, PlacesFile, Fails, Writing
    <3> QED BY <3>2
  <2> QED BY <1>1, <1>4, <2>1, OwnAnswer DEF Untold
<1> QED BY <1>2, <1>3, <1>4

\* The promise's invariant is kept by a step of an operation.
LEMMA PromisedStep == ASSUME Inv, Promised, NEW op \in Ops, Step(op), Undisturbed PROVE Promised'
<1>1. \A o \in Ops : Current(o)'
  BY CurrentOfTheOthers, CurrentOfItself DEF Undisturbed
<1> QED BY <1>1, CountsKept, UntoldKept DEF Promised, Undisturbed

\* What a step that claims nothing leaves of what the calls were told.
LEMMA TellingsKept == ASSUME Inv, Promised, NEW op \in Ops, Step(op), ~Claims(op) PROVE Tellings' = Tellings
<1>1. ASSUME NEW c \in Calls
      PROVE  \/ answer'[c] = answer[c]
             \/ /\ answer[c].outcome # "ok" \/ Kind[c] \notin {"create", "revise"}
                /\ answer'[c].outcome # "ok" \/ Kind[c] \notin {"create", "revise"}
  <2>1. CASE c # op
    BY <2>1, AnswersOfTheOthers
  <2>2. CASE c = op
    <3>1. Untold(c)
      BY DEF Promised
    <3>2. ~PersonMoves(op)
      BY <2>2 DEF PersonMoves, Person
    <3>3. at[op] # "done"
      BY <3>2
        DEF Step, Server, Reconcile, Called, Locked, ReconcileStarts, Reconciles, ReconcileReadsMeta,
            ReconcileLooks, ReconcileLists, ReconcileReads, Refiled, Adopts, Adopted, ReadsMeta, FileMissing,
            Gets, CreateNamed, ReviseRefused, Revises, Keeps, Records, PlacesFile, Fails, Writing
    <3>4. answer[c].outcome = "none"
      BY <2>2, <3>1, <3>3 DEF Untold
    <3> QED BY <2>2, <3>4, OwnAnswer
  <2> QED BY <2>1, <2>2
<1> QED BY <1>1, SameTellings

\* Every step is one of the promise's, or none: a file taken in, a planning created or updated.
LEMMA PromiseStep ==
  ASSUME Inv, Promised, NEW op \in Ops, Step(op), Undisturbed
  PROVE  [Abstract!Next]_(Abstract!vars)
<1>1. CASE Adopted(op)
  <2> DEFINE i == rec.id
             d == rec.doc
  <2>1. ~Claims(op) /\ history[i][1] = d
    BY <1>1, AdoptedNext DEF Adopted, Claims
  <2>2. Tellings' = Tellings
    BY <2>1, TellingsKept
  <2>3. /\ i \in Ids /\ d \in Docs /\ Revisions' = [Revisions EXCEPT ![i] = Append(@, d)]
        /\ Len(Revisions[i]) = 0 /\ Revisions[i] = <<>> /\ Len(Revisions'[i]) = 1 /\ Revisions'[i][1] = d
    <3> DEFINE m == rec.meta
    <3>1. /\ i \in Ids /\ m \in Metas /\ d \in Docs /\ m.revision = 1 /\ meta' = [meta EXCEPT ![i] = m]
            /\ history' = history
          /\ meta[i] = None /\ history[i][m.revision] = d
      BY <1>1, <2>1, AdoptedNext
    <3> HIDE DEF i, d, m
    <3>2. /\ Revisions' = [Revisions EXCEPT ![i] = Append(@, history[i][m.revision])]
          /\ Len(Revisions[i]) = m.revision - 1 /\ Revisions[i] = <<>>
          /\ Len(Revisions'[i]) = m.revision /\ Revisions'[i][m.revision] = history[i][m.revision]
      BY <3>1, OneMoreRevision
    <3> QED BY <3>1, <3>2
  <2>4. Abstract!Adopt(i, d)
    BY <2>2, <2>3 DEF Abstract!Adopt, Abstract!Adds
  <2>5. d \in Abstract!Added(i)
    BY <2>3 DEF Abstract!Added
  <2> QED BY <2>3, <2>4, <2>5 DEF Abstract!Next
<1>2. CASE Claims(op)
  <2> DEFINE i == loc[op].id
             d == loc[op].doc
             b == loc[op].base
             m == loc[op].meta
  <2>1. /\ op \in Calls /\ Kind[op] \in {"create", "revise"} /\ i \in Ids /\ m \in Metas /\ d \in Docs
        /\ meta' = [meta EXCEPT ![i] = m] /\ history' = history /\ history[i][m.revision] = d
        /\ b \in Nat /\ m.revision = b + 1
        /\ Kind[op] = "create" => meta[i] = None /\ m.revision = 1
        /\ Kind[op] = "revise" => /\ meta[i] # None /\ meta[i].revision = b
                                  /\ HasOf(history[i][meta[i].revision]) \subseteq HasOf(d)
    BY <1>2, ClaimsNext
  <2>2. /\ answer' = [answer EXCEPT ![op] = Told(loc[op])] /\ answer \in [Ops -> Answers]
          /\ answer[op].outcome = "none"
    <3>1. Untold(op) /\ at[op] = "claiming"
      BY <1>2, <2>1 DEF Promised, Claims
    <3> QED BY <1>2, <3>1 DEF Claims, Ends, Untold, Inv, Typed, Counted
  <2>3. Told(loc[op]).outcome = "ok" /\ Told(loc[op]).id = i /\ Told(loc[op]).base = b /\ Told(loc[op]).doc = d
    BY DEF Told, NoAnswer
  <2> HIDE DEF i, d, b, m
  <2>4. Tellings[op] = None /\ Tellings' = [Tellings EXCEPT ![op] = [id |-> i, base |-> b, doc |-> d]]
    <3>1. answer'[op] = Told(loc[op]) /\ \A c \in Calls : c # op => answer'[c] = answer[c]
      BY <2>1, <2>2, Calling
    <3>2. Tellings'[op] = [id |-> i, base |-> b, doc |-> d] /\ Tellings[op] = None
      BY <2>1, <2>2, <2>3, <3>1 DEF Tellings
    <3>3. \A c \in Calls : c # op => Tellings'[c] = Tellings[c]
      BY <3>1 DEF Tellings
    <3>4. Tellings = [c \in Calls |-> Tellings[c]] /\ Tellings' = [c \in Calls |-> Tellings'[c]]
      BY DEF Tellings
    <3> QED BY <2>1, <3>2, <3>3, <3>4
  <2>5. /\ Revisions' = [Revisions EXCEPT ![i] = Append(@, d)] /\ Len(Revisions[i]) = b /\ Len(Revisions'[i]) = b + 1
        /\ (Revisions[i] = <<>> <=> meta[i] = None) /\ Revisions'[i][b + 1] = d
        /\ meta[i] # None => Revisions[i][Len(Revisions[i])] = history[i][meta[i].revision]
    <3>1. (meta[i] = None /\ m.revision = 1) \/ (meta[i] # None /\ m.revision = meta[i].revision + 1)
      BY <2>1
    <3>2. /\ Revisions' = [Revisions EXCEPT ![i] = Append(@, history[i][m.revision])]
          /\ Len(Revisions[i]) = m.revision - 1 /\ (Revisions[i] = <<>> <=> meta[i] = None)
          /\ Len(Revisions'[i]) = m.revision /\ Revisions'[i][m.revision] = history[i][m.revision]
          /\ meta[i] # None => Revisions[i][Len(Revisions[i])] = history[i][meta[i].revision]
      BY <2>1, <3>1, OneMoreRevision
    <3>3. m.revision - 1 = b
      BY <2>1
    <3> QED BY <2>1, <3>2, <3>3
  <2>6. Abstract!Adds(i, d) /\ Abstract!Tells(op, i, d)
    BY <2>4, <2>5 DEF Abstract!Adds, Abstract!Tells
  <2>7. Abstract!Create(op, i, d) \/ Abstract!Update(op, i, d)
    BY <2>1, <2>5, <2>6 DEF Abstract!Create, Abstract!Update
  <2>8. d \in Abstract!Added(i) \cap Docs
    BY <2>1, <2>5 DEF Abstract!Added
  <2> QED BY <2>1, <2>7, <2>8 DEF Abstract!Next
<1>3. CASE ~Adopted(op) /\ ~Claims(op)
  BY <1>3, StepMetas, StepGrows, SameRevisions, TellingsKept DEF Undisturbed, Abstract!vars
<1> QED BY <1>1, <1>2, <1>3

\* The death of the process is no step of the promise.
LEMMA PromisedCrash ==
  ASSUME Inv, Promised, Crash
  PROVE  Promised' /\ [Abstract!Next]_(Abstract!vars)
<1>1. UNCHANGED <<folder, dirs, history, meta, copies, answer>>
  BY DEF Crash, disk
<1>2. \A o \in Ops : (at'[o] = at[o] /\ loc'[o] = loc[o]) \/ (at'[o] = "done" /\ loc'[o] = NoLocals)
  BY DEF Crash
<1>3. Revisions' = Revisions /\ Tellings' = Tellings
  BY <1>1 DEF Revisions, Tellings
<1>4. \A o \in Ops : Current(o)'
  BY <1>1, <1>2 DEF Promised, Current, Written
<1>5. \A c \in Calls : Untold(c)'
  BY <1>1, <1>2, Calling DEF Promised, Untold
<1> QED BY <1>1, <1>3, <1>4, <1>5 DEF Promised, Counts, Abstract!vars

\* An empty folder is the promise's first state.
LEMMA PromisedInit == Init => Promised /\ Abstract!Init
<1> SUFFICES ASSUME Init PROVE Promised /\ Abstract!Init
  OBVIOUS
<1>1. Counts /\ Revisions = [i \in Ids |-> <<>>]
  BY DEF Init, Counts, Revisions
<1>2. \A o \in Ops : at[o] \in Still /\ answer[o].outcome = "none"
  BY DEF Init, Still, NoAnswer
<1>3. Tellings = [c \in Calls |-> None]
  BY <1>2, Calling DEF Tellings
<1>4. (\A o \in Ops : Current(o)) /\ \A c \in Calls : Untold(c)
  BY <1>2, Calling DEF Current, Untold, Still, Written
<1> QED BY <1>1, <1>3, <1>4 DEF Promised, Abstract!Init

\* The store keeps the promise of Plannings, whatever fails and however often the process dies, as
\* long as the file an update reads still holds what its planning's current revision holds, and
\* no update replaces a meta between a reconcile's reading of it and its writing it back.
THEOREM StoreKeepsItsPromise == Spec /\ [][Undisturbed]_vars => KeepsItsPromise
<1>1. Init => Inv /\ Promised /\ Abstract!Init
  BY InitInv, PromisedInit
<1>2. Inv /\ Promised /\ [Next]_vars /\ [Undisturbed]_vars => Promised' /\ [Abstract!Next]_(Abstract!vars)
  <2> SUFFICES ASSUME Inv, Promised, [Next]_vars, [Undisturbed]_vars
               PROVE  Promised' /\ [Abstract!Next]_(Abstract!vars)
    OBVIOUS
  <2>1. CASE UNCHANGED vars
    <3>1. UNCHANGED <<folder, dirs, history, meta, copies, at, loc, answer>>
      BY <2>1 DEF vars, disk
    <3>2. Revisions' = Revisions /\ Tellings' = Tellings
      BY <3>1 DEF Revisions, Tellings
    <3>3. Promised'
      BY <3>1 DEF Promised, Counts, Current, Untold
    <3> QED BY <3>2, <3>3 DEF Abstract!vars
  <2>2. CASE Crash
    BY <2>2, PromisedCrash
  <2>3. ASSUME NEW op \in Ops, Step(op), Undisturbed PROVE Promised' /\ [Abstract!Next]_(Abstract!vars)
    BY <2>3, PromisedStep, PromiseStep
  <2> QED BY <2>1, <2>2, <2>3 DEF Next, Step
<1>3. Inv /\ [Next]_vars => Inv'
  BY NextInv
<1> QED BY <1>1, <1>2, <1>3, PTL DEF Spec, KeepsItsPromise, Abstract!Spec

-----------------------------------------------------------------------------
(* A folder where nothing is renamed or deleted                            *)

\* The person edits, breaks and adds files, and leaves the others where they are.
NothingMoves == \A op \in Ops : Kind[op] \notin {"rename", "delete"}

\* A file holds a text; a name is no planning's.
Held(n, text) == folder[n] # None /\ HasOf(text) \subseteq HasOf(folder[n])
Free(n) == \A i \in Ids : meta[i] # None => meta[i].file # n
\* Every planning has a file, with what its current revision holds, and has it for itself.
FilesApart ==
  \A i \in Ids : meta[i] # None =>
    /\ Held(meta[i].file, history[i][meta[i].revision])
    /\ \A j \in Ids : meta[j] # None /\ meta[j].file = meta[i].file => j = i
\* A reconcile misses no file; the files it takes in are no planning's.
ReconcilesInPeace ==
  /\ rec.orphans = {}
  /\ \A m \in rec.metas : m.meta.file = meta[m.id].file
  /\ \A n \in rec.entries : Free(n) /\ folder[n] # None
FileAt(o) ==
  /\ at[o] \in Reconciling => ReconcilesInPeace
  /\ at[o] # "refile"
  /\ at[o] = "metas" => \A i \in Ids : meta[i] # None => i \in rec.todo \/ \E m \in rec.metas : m.id = i
  /\ at[o] = "files" => \A i \in Ids : meta[i] # None => \E m \in rec.metas : m.id = i
  /\ at[o] \in {"adopting", "adopted"} => /\ Free(rec.meta.file) /\ rec.meta.file \notin rec.entries
                                          /\ Held(rec.meta.file, rec.doc)
  /\ Kind[o] = "create" /\ at[o] \in Written => Free(loc[o].meta.file)
  /\ Kind[o] = "revise" /\ at[o] \in {"file", "keeping"} \cup Written => loc[o].meta.file = meta[loc[o].id].file
  /\ at[o] = "claiming" => Held(loc[o].meta.file, loc[o].doc)
Apart == FilesApart /\ \A o \in Ops : FileAt(o)

\* Where nothing moves, a file keeps what it holds.
LEMMA FilesGrow ==
  ASSUME Inv, NothingMoves, NEW op \in Ops, Step(op), ~PlacesFile(op), NEW n \in Names, folder[n] # None
  PROVE  folder'[n] # None /\ HasOf(folder[n]) \subseteq HasOf(folder'[n])
<1>1. CASE PersonMoves(op)
  <2>1. Moves(op) /\ Kind[op] \notin {"rename", "delete"}
    BY <1>1 DEF PersonMoves, NothingMoves
  <2>2. folder \in [Names -> Contents \cup {None}] /\ folder[n] \in Contents /\ folder[n].has \in SUBSET Changes
    BY DEF Inv, Typed, Stored, Contents
  <2>3. ASSUME folder[Aim[op]] # None, NEW stays \in BOOLEAN, Kind[op] \in {"edit", "spoil"},
               folder' = [folder EXCEPT ![Aim[op]] = Edited(op, stays)]
        PROVE  folder'[n] # None /\ HasOf(folder[n]) \subseteq HasOf(folder'[n])
    <3>1. Aim[op] \in Names /\ op \in Changes
      BY <2>3, PlanningStoreAssumption DEF PlanningStoreAssumption, Changes
    <3>2. folder[Aim[op]] \in Contents
      BY <2>2, <2>3, <3>1
    <3>3. Edited(op, stays) \in Contents /\ HasOf(folder[Aim[op]]) \subseteq HasOf(Edited(op, stays))
      BY <3>1, <3>2 DEF Edited, Contents, HasOf
    <3> QED BY <2>2, <2>3, <3>1, <3>3, Kinds
  <2>4. CASE Kind[op] = "drop" /\ folder[Aim[op]] = None
             /\ folder' = [folder EXCEPT ![Aim[op]] = [title |-> Aim[op][1], has |-> {op}, valid |-> TRUE]]
    <3>1. n # Aim[op]
      BY <2>4
    <3> QED BY <2>2, <2>4, <3>1
  <2> QED BY <2>1, <2>3, <2>4 DEF Moves
<1>2. CASE ~PersonMoves(op)
  <2>1. folder' = folder
    BY <1>2
      DEF Step, Server, Reconcile, Called, Locked, ReconcileStarts, ReconcileReadsMeta, ReconcileLooks,
          ReconcileLists, ReconcileReads, Refiled, Adopts, Adopted, ReadsMeta, FileMissing, Gets, CreateNamed,
          ReviseRefused, Revises, Keeps, Records, Claims, Fails, disk
  <2> QED BY <2>1
<1> QED BY <1>1, <1>2

\* What a file holds stays in it, unless a call replaces it.
LEMMA HeldStays ==
  ASSUME Inv, NothingMoves, NEW op \in Ops, Step(op), NEW n \in Names, PlacesFile(op) => loc[op].meta.file # n,
         folder[n] # None
  PROVE  folder'[n] # None /\ HasOf(folder[n]) \subseteq HasOf(folder'[n])
<1>1. CASE PlacesFile(op)
  <2>1. folder' = [folder EXCEPT ![loc[op].meta.file] = loc[op].doc] /\ folder \in [Names -> Contents \cup {None}]
    BY <1>1 DEF PlacesFile, Inv, Typed, Stored
  <2> QED BY <1>1, <2>1
<1> QED BY <1>1, FilesGrow

\* Who replaces a file: a create under a name no planning has, an update its planning's.
LEMMA WhoPlaces ==
  ASSUME Inv, Apart, NEW op \in Ops, PlacesFile(op)
  PROVE  /\ op \in Calls /\ at[op] = "placing" /\ loc[op].meta.file \in Names /\ loc[op].doc \in Docs /\ loc[op].id \in Ids
         /\ folder'[loc[op].meta.file] = loc[op].doc /\ UNCHANGED <<dirs, history, meta, loc, rec>>
         /\ \/ Kind[op] = "create" /\ HoldsAt(op, at[op]) /\ Free(loc[op].meta.file)
            \/ /\ Kind[op] = "revise" /\ loc[op].id = Aim[op] /\ meta[loc[op].id] # None
               /\ meta[loc[op].id].file = loc[op].meta.file
<1>1. at[op] = "placing" /\ at[op] \in {"keeping"} \cup Written /\ OnDisk(op) /\ FileAt(op)
  BY DEF PlacesFile, Written, Inv, Disk, Apart
<1>2. /\ op \in Calls /\ Kind[op] \in {"create", "revise"} /\ Prepared(op, loc[op]) /\ loc[op].id \in Ids
      /\ loc[op].doc \in Docs /\ loc[op].meta.file \in Names
  BY <1>1, Writes DEF Inv
<1>3. folder'[loc[op].meta.file] = loc[op].doc /\ UNCHANGED <<dirs, history, meta, loc, rec>>
  BY <1>2 DEF PlacesFile, Inv, Typed, Stored
<1> QED BY <1>1, <1>2, <1>3 DEF Prepared, OnDisk, FileAt, HoldsAt, Written

\* Only an adoption and a create give a planning a file.
LEMMA SameFiles ==
  ASSUME Inv, Promised, Apart, NEW op \in Ops, Step(op), ~Adopted(op), ~(Claims(op) /\ Kind[op] = "create"), NEW i \in Ids
  PROVE  (meta'[i] = None <=> meta[i] = None) /\ (meta[i] # None => meta'[i].file = meta[i].file)
<1>1. CASE Claims(op)
  <2>1. /\ Kind[op] = "revise" /\ loc[op].id \in Ids /\ loc[op].meta \in Metas /\ meta[loc[op].id] # None
        /\ meta' = [meta EXCEPT ![loc[op].id] = loc[op].meta]
    BY <1>1, ClaimsNext
  <2>2. loc[op].meta.file = meta[loc[op].id].file
    BY <1>1, <2>1 DEF Claims, Apart, FileAt, Written
  <2> QED BY <2>1, <2>2, Kinds DEF Inv, Typed, Stored
<1>2. CASE ~Claims(op)
  <2>1. ~Refiled(op)
    BY DEF Apart, FileAt, Refiled
  <2>2. meta' = meta
    BY <1>2, <2>1
      DEF Step, Server, Reconcile, Called, Locked, ReconcileStarts, ReconcileReadsMeta, ReconcileLooks,
          ReconcileLists, ReconcileReads, Adopts, ReadsMeta, FileMissing, Gets, CreateNamed, ReviseRefused,
          Revises, Keeps, Records, PlacesFile, Fails, PersonMoves, disk
  <2> QED BY <2>2
<1> QED BY <1>1, <1>2

\* A planning is given a file of its own, or keeps its file with one revision more.
LEMMA OneMoreFile ==
  ASSUME Inv, FilesApart, NEW k \in Ids, NEW m \in Metas, meta' = [meta EXCEPT ![k] = m], UNCHANGED <<folder, history>>,
         Held(m.file, history[k][m.revision]), Free(m.file) \/ (meta[k] # None /\ meta[k].file = m.file)
  PROVE  FilesApart'
<1>1. \A i \in Ids : meta'[i] = IF i = k THEN m ELSE meta[i]
  BY DEF Inv, Typed, Stored
<1>2. \A i \in Ids : i # k /\ meta[i] # None => meta[i].file # m.file
  BY DEF FilesApart, Free
<1>3. ASSUME NEW i \in Ids, meta'[i] # None
      PROVE  /\ Held(meta[i].file, history[i][meta[i].revision])'
             /\ \A j \in Ids : meta'[j] # None /\ meta'[j].file = meta'[i].file => j = i
  <2>1. CASE i = k
    BY <1>1, <1>2, <2>1 DEF Held
  <2>2. CASE i # k
    BY <1>1, <1>2, <1>3, <2>2 DEF Held, FilesApart
  <2> QED BY <2>1, <2>2
<1> QED BY <1>3 DEF FilesApart

\* The plannings' files stay apart.
LEMMA FilesApartStep == ASSUME Inv, NothingMoves, Promised, Apart, NEW op \in Ops, Step(op) PROVE FilesApart'
<1>1. CASE Adopted(op)
  <2> DEFINE k == rec.id
             m == rec.meta
  <2>1. /\ k \in Ids /\ m \in Metas /\ m.revision = 1 /\ meta' = [meta EXCEPT ![k] = m]
        /\ history' = history /\ history[k][m.revision] = rec.doc
    BY <1>1, AdoptedNext
  <2>2. folder' = folder /\ at[op] = "adopted"
    BY <1>1 DEF Adopted
  <2>3. Free(m.file) /\ Held(m.file, rec.doc)
    BY <2>2 DEF Apart, FileAt
  <2> HIDE DEF k, m
  <2> QED BY <2>1, <2>2, <2>3, OneMoreFile DEF Apart
<1>2. CASE Claims(op)
  <2> DEFINE k == loc[op].id
             m == loc[op].meta
  <2>1. /\ Kind[op] \in {"create", "revise"} /\ k \in Ids /\ m \in Metas /\ meta' = [meta EXCEPT ![k] = m]
        /\ history' = history /\ history[k][m.revision] = loc[op].doc /\ (Kind[op] = "revise" => meta[k] # None)
    BY <1>2, ClaimsNext
  <2>2. folder' = folder /\ at[op] = "claiming"
    BY <1>2 DEF Claims
  <2>3. Held(m.file, loc[op].doc) /\ (Free(m.file) \/ (meta[k] # None /\ meta[k].file = m.file))
    BY <2>1, <2>2 DEF Apart, FileAt, Written
  <2> HIDE DEF k, m
  <2> QED BY <2>1, <2>2, <2>3, OneMoreFile DEF Apart
<1>3. CASE ~Adopted(op) /\ ~Claims(op)
  <2>1. meta' = meta
    <3>1. ~Refiled(op)
      BY DEF Apart, FileAt, Refiled
    <3> QED BY <1>3, <3>1
              DEF Step, Server, Reconcile, Called, Locked, ReconcileStarts, ReconcileReadsMeta, ReconcileLooks,
                  ReconcileLists, ReconcileReads, Adopts, ReadsMeta, FileMissing, Gets, CreateNamed,
                  ReviseRefused, Revises, Keeps, Records, PlacesFile, Fails, PersonMoves, disk
  <2>2. ASSUME NEW i \in Ids, meta[i] # None
        PROVE  folder'[meta[i].file] # None /\ HasOf(history'[i][meta[i].revision]) \subseteq HasOf(folder'[meta[i].file])
    <3> DEFINE n == meta[i].file
               r == meta[i].revision
    <3>1. n \in Names /\ r \in 1..MaxRevision /\ history[i][r] # None
      <4>1. meta[i] \in Metas /\ r \in 1..MaxRevision
        BY <2>2, MetaCounts
      <4>2. n \in Names /\ r \in 1..r
        BY <4>1 DEF Metas
      <4> QED BY <2>2, <4>1, <4>2 DEF Promised, Counts
    <3>2. history'[i][r] = history[i][r]
      BY <3>1, StepGrows DEF Grows
    <3>3. folder[n] # None /\ HasOf(history[i][r]) \subseteq HasOf(folder[n])
      BY <2>2 DEF Apart, FilesApart, Held
    <3> HIDE DEF n, r
    <3>4. CASE PlacesFile(op) => loc[op].meta.file # n
      BY <3>1, <3>2, <3>3, <3>4, HeldStays DEF n, r
    <3>5. CASE PlacesFile(op) /\ loc[op].meta.file = n
      <4>1. /\ Kind[op] = "revise" /\ loc[op].id \in Ids /\ meta[loc[op].id] # None /\ meta[loc[op].id].file = n
            /\ at[op] = "placing" /\ folder'[n] = loc[op].doc /\ loc[op].doc \in Docs
        BY <2>2, <3>5, WhoPlaces DEF Free, n
      <4>2. loc[op].id = i
        BY <2>2, <4>1 DEF Apart, FilesApart, n
      <4>3. Current(op)
        BY DEF Promised
      <4>4. HasOf(history[i][r]) \subseteq HasOf(loc[op].doc)
        BY <4>1, <4>2, <4>3 DEF Current, Written, r
      <4> QED BY <3>2, <4>1, <4>4, Kinds DEF n, r
    <3> QED BY <3>4, <3>5
  <2> QED BY <2>1, <2>2 DEF Apart, FilesApart, Held
<1> QED BY <1>1, <1>2, <1>3

\* A name that is no planning's stays so, but for the one given it.
LEMMA FreeStays ==
  ASSUME Inv, Promised, Apart, NEW op \in Ops, Step(op), ~Adopted(op), ~(Claims(op) /\ Kind[op] = "create"), NEW n, Free(n)
  PROVE  Free(n)'
BY SameFiles DEF Free

\* What a call knows of the files stays true while the others move.
LEMMA FileAtOthers ==
  ASSUME Inv, NothingMoves, Promised, Apart, NEW op \in Ops, Step(op), NEW o \in Ops, o # op
  PROVE  FileAt(o)'
<1>1. at'[o] = at[o] /\ loc'[o] = loc[o] /\ FileAt(o) /\ Placed
  BY OthersStay DEF Inv, Apart, Typed
<1>2. ASSUME HoldsAt(o, at[o])
      PROVE  /\ rec' = rec /\ ~Adopted(op) /\ ~(Claims(op) /\ Kind[op] = "create")
             /\ \A n : Free(n) => Free(n)'
             /\ \A n : PlacesFile(op) /\ Free(n) => loc[op].meta.file # n
  <2>1. ~HoldsAt(op, at[op]) /\ ~(at[op] = "folder" /\ Head(folderLock) = op)
    BY <1>2, AloneInFolder DEF Inv
  <2>2. rec' = rec
    BY <2>1, Outside
  <2>3. ~Adopted(op) /\ ~(Claims(op) /\ Kind[op] = "create")
    BY <2>1 DEF Adopted, Claims, HoldsAt, Reconciling, Written
  <2>4. \A n : PlacesFile(op) /\ Free(n) => loc[op].meta.file # n
    BY <2>1, WhoPlaces DEF Free
  <2> QED BY <2>2, <2>3, <2>4, FreeStays
<1>3. CASE at[o] \in Reconciling
  <2>1. HoldsAt(o, at[o])
    BY <1>3 DEF HoldsAt
  <2>2. ReconcilesInPeace /\ rec' = rec
    BY <1>1, <1>2, <1>3, <2>1 DEF FileAt
  <2>3. rec \in Recs
    BY DEF Inv, Typed, Counted
  <2>4. \A i \in Ids : (meta'[i] = None <=> meta[i] = None) /\ (meta[i] # None => meta'[i].file = meta[i].file)
    BY <1>2, <2>1, SameFiles
  <2>5. \A m \in rec.metas : m.id \in Ids /\ meta[m.id] # None
    BY <2>3 DEF Recs, Entries, Inv, Disk, Known
  <2>6. ASSUME NEW n \in rec.entries PROVE Free(n)' /\ folder'[n] # None
    <3>1. n \in Names /\ Free(n) /\ folder[n] # None
      BY <2>2, <2>3 DEF Recs, ReconcilesInPeace
    <3> QED BY <1>2, <2>1, <3>1, HeldStays
  <2>7. ReconcilesInPeace'
    BY <2>2, <2>4, <2>5, <2>6 DEF ReconcilesInPeace
  <2>8. CASE at[o] \in {"adopting", "adopted"}
    <3>1. /\ Free(rec.meta.file) /\ rec.meta.file \notin rec.entries /\ folder[rec.meta.file] # None
          /\ HasOf(rec.doc) \subseteq HasOf(folder[rec.meta.file])
      BY <1>1, <2>8 DEF FileAt, Held
    <3>2. rec.meta.file \in Names
      BY <2>8 DEF Inv, Reconciled, Metas
    <3>3. Free(rec.meta.file)' /\ folder'[rec.meta.file] # None
            /\ HasOf(folder[rec.meta.file]) \subseteq HasOf(folder'[rec.meta.file])
      BY <1>2, <2>1, <2>2, <3>1, <3>2, HeldStays DEF Free
    <3>4. Held(rec.meta.file, rec.doc)'
      BY <2>2, <3>1, <3>3 DEF Held
    <3> QED BY <1>1, <2>2, <2>7, <2>8, <3>1, <3>3, <3>4 DEF FileAt, Written
  <2>9. CASE at[o] \in {"metas", "files", "entries"}
    BY <1>1, <2>2, <2>4, <2>7, <2>9 DEF FileAt, Written
  <2> QED BY <1>1, <1>3, <2>8, <2>9 DEF Reconciling, FileAt
<1>4. CASE at[o] \in {"file", "keeping"} \cup Written
  <2>1. at[o] \notin Reconciling /\ at[o] \notin {"refile", "metas", "files", "adopting", "adopted"}
    BY <1>4 DEF Reconciling, Written
  <2>2. ASSUME Kind[o] = "create", at[o] \in Written
        PROVE Free(loc[o].meta.file)' /\ HoldsAt(o, at[o]) /\ Free(loc[o].meta.file)
    <3>1. HoldsAt(o, at[o]) /\ Free(loc[o].meta.file)
      BY <1>1, <2>2 DEF HoldsAt, FileAt
    <3>2. ~Adopted(op) /\ ~(Claims(op) /\ Kind[op] = "create")
      BY <1>2, <3>1
    <3> DEFINE n == loc[o].meta.file
    <3>3. Free(n) /\ n = loc'[o].meta.file
      BY <1>1, <3>1
    <3> HIDE DEF n
    <3>4. \A i \in Ids : meta'[i] # None => meta'[i].file # n
      BY <3>2, <3>3, SameFiles DEF Free
    <3> QED BY <3>1, <3>3, <3>4 DEF Free
  <2>3. ASSUME Kind[o] = "revise"
        PROVE  /\ loc[o].id \in Ids /\ loc[o].id = Aim[o] /\ meta[loc[o].id] # None /\ meta'[loc[o].id].file = meta[loc[o].id].file
               /\ o \in Calls /\ loc[o].meta.file = meta[loc[o].id].file
    <3>1. loc[o].id \in Ids /\ meta[loc[o].id] # None
      BY <1>4, <2>3, RevisionsOfTheOthers, Writes, Reading DEF Inv, Disk, OnDisk
    <3>2. o \in Calls /\ loc[o].id = Aim[o]
      BY <1>4, <2>3, Writes, Reading DEF Inv, Prepared
    <3>3. CASE Adopted(op)
      <4>1. rec.id # loc[o].id /\ rec.id \in Ids /\ meta' = [meta EXCEPT ![rec.id] = rec.meta]
        BY <3>1, <3>3, AdoptedNext
      <4>2. meta'[loc[o].id] = meta[loc[o].id]
        BY <3>1, <4>1 DEF Inv, Typed, Stored
      <4> QED BY <1>1, <1>4, <2>3, <3>1, <3>2, <4>2 DEF FileAt
    <3>4. CASE Claims(op) /\ Kind[op] = "create"
      <4>1. loc[op].id # loc[o].id /\ loc[op].id \in Ids /\ meta' = [meta EXCEPT ![loc[op].id] = loc[op].meta]
        BY <3>1, <3>4, ClaimsNext
      <4>2. meta'[loc[o].id] = meta[loc[o].id]
        BY <3>1, <4>1 DEF Inv, Typed, Stored
      <4> QED BY <1>1, <1>4, <2>3, <3>1, <3>2, <4>2 DEF FileAt
    <3>5. CASE ~Adopted(op) /\ ~(Claims(op) /\ Kind[op] = "create")
      BY <1>1, <1>4, <2>3, <3>1, <3>2, <3>5, SameFiles DEF FileAt
    <3> QED BY <3>3, <3>4, <3>5
  <2>4. ASSUME at[o] = "claiming" PROVE Held(loc[o].meta.file, loc[o].doc)'
    <3> DEFINE n == loc[o].meta.file
    <3>1. at[o] \in Written /\ n \in Names /\ Kind[o] \in {"create", "revise"}
      BY <2>4, Writes DEF Inv, Written
    <3>2. folder[n] # None /\ HasOf(loc[o].doc) \subseteq HasOf(folder[n])
      BY <1>1, <2>4 DEF FileAt, Held
    <3>3. ASSUME PlacesFile(op) PROVE loc[op].meta.file # n
      <4>1. CASE Kind[o] = "create"
        BY <1>2, <2>2, <3>1, <3>3, <4>1
      <4>2. CASE Kind[o] = "revise"
        <5>1. loc[o].id \in Ids /\ meta[loc[o].id] # None /\ meta[loc[o].id].file = n /\ o \in Calls
                /\ loc[o].id = Aim[o]
          BY <2>3, <4>2
        <5>2. CASE Free(loc[op].meta.file)
          BY <5>1, <5>2 DEF Free
        <5>3. CASE Kind[op] = "revise" /\ loc[op].id = Aim[op] /\ meta[loc[op].id] # None
                     /\ meta[loc[op].id].file = loc[op].meta.file
          <6>1. op \in Calls /\ at[op] = "placing" /\ loc[op].id \in Ids
            BY <3>3, WhoPlaces
          <6>2. loc[op].id # loc[o].id
            BY <2>4, <4>2, <5>1, <5>3, <6>1, OneUpdates DEF Inv, Still
          <6> QED BY <5>1, <5>3, <6>1, <6>2 DEF Apart, FilesApart
        <5> QED BY <3>3, <5>2, <5>3, WhoPlaces
      <4> QED BY <3>1, <4>1, <4>2
    <3>4. folder'[n] # None /\ HasOf(folder[n]) \subseteq HasOf(folder'[n])
      BY <3>1, <3>2, <3>3, HeldStays
    <3> QED BY <1>1, <3>2, <3>4 DEF Held
  <2> QED BY <1>1, <1>4, <2>1, <2>2, <2>3, <2>4 DEF FileAt, Written
<1>5. CASE at[o] \notin Reconciling \cup {"file", "keeping"} \cup Written
  BY <1>1, <1>5 DEF FileAt, Reconciling, Written
<1> QED BY <1>3, <1>4, <1>5

\* The next file of a reconcile, or the end of it.
LEMMA NextEntryApart ==
  ASSUME Inv, NEW op \in Ops, NEW r, NextEntry(op, r), Kind[op] # "create",
         r.orphans = {}, \A m \in r.metas : m.meta.file = meta'[m.id].file,
         \A n \in r.entries : Free(n)' /\ folder'[n] # None
  PROVE  FileAt(op)'
<1>1. at \in [Ops -> Places]
  BY DEF Inv, Typed, Counted
<1>2. CASE r.entries # {}
  <2>1. rec' = r /\ at'[op] = "entries"
    BY <1>1, <1>2 DEF NextEntry, Goto
  <2> QED BY <2>1 DEF FileAt, ReconcilesInPeace, Written
<1>3. CASE r.entries = {}
  <2>1. at'[op] \in {"meta", "done"}
    BY <1>1, <1>3 DEF NextEntry, Ends, Goto
  <2> QED BY <2>1 DEF FileAt, Reconciling, Written
<1> QED BY <1>2, <1>3

\* A reconcile takes in only files that are no planning's.
LEMMA FileAtReconcile ==
  ASSUME Inv, Apart, NEW op \in Ops, Reconcile(op)
  PROVE  FileAt(op)'
<1>1. /\ at \in [Ops -> Places] /\ rec \in Recs /\ FileAt(op) /\ FilesApart
        /\ folder \in [Names -> Contents \cup {None}]
      /\ \A i \in Ids : meta[i] # None => i \in dirs
      /\ \A m \in rec.metas : m.id \in Ids /\ meta[m.id] # None
  BY DEF Inv, Typed, Counted, Stored, Apart, Disk, Known, Recs, Entries
<1>2. at[op] \in Reconciling => ReconcilesInPeace /\ Kind[op] # "create"
  BY <1>1 DEF FileAt, Inv, Typed, Placed, PlacedAt
<1>3. CASE ReconcileStarts(op)
  <2>1. rec' = [NoRec EXCEPT !.todo = dirs] /\ at'[op] = (IF dirs = {} THEN "files" ELSE "metas")
          /\ UNCHANGED <<folder, meta, loc>>
    BY <1>1, <1>3 DEF ReconcileStarts, Goto, disk
  <2>2. rec'.orphans = {} /\ rec'.metas = {} /\ rec'.entries = {} /\ rec'.todo = dirs
    BY <2>1 DEF NoRec
  <2>3. ReconcilesInPeace'
    BY <2>2 DEF ReconcilesInPeace
  <2> QED BY <1>1, <2>1, <2>2, <2>3 DEF FileAt, Written
<1>4. CASE ReconcileReadsMeta(op)
  <2>1. PICK i \in rec.todo :
          LET metas == rec.metas \cup (IF meta[i] = None THEN {} ELSE {[id |-> i, meta |-> meta[i]]})
              over == rec.todo = {i}
          IN  /\ rec' = [rec EXCEPT !.metas = metas, !.todo = IF over THEN {m.id : m \in metas} ELSE rec.todo \ {i}]
              /\ at'[op] = (IF over THEN "files" ELSE "metas")
    BY <1>1, <1>4 DEF ReconcileReadsMeta, Goto, Recs
  <2> DEFINE read == IF meta[i] = None THEN {} ELSE {[id |-> i, meta |-> meta[i]]}
  <2>2. at[op] = "metas" /\ UNCHANGED <<folder, meta, loc>>
    BY <1>4 DEF ReconcileReadsMeta, disk
  <2>3. /\ rec'.metas = rec.metas \cup read /\ rec'.orphans = rec.orphans /\ rec'.entries = rec.entries
        /\ rec.todo # {i} => rec'.todo = rec.todo \ {i}
    BY <1>1, <2>1 DEF Recs
  <2>4. \A m \in read : m.id = i /\ m.meta = meta[i]
    OBVIOUS
  <2>5. meta[i] # None => \E m \in read : m.id = i
    OBVIOUS
  <2> HIDE DEF read
  <2>6. ReconcilesInPeace
    BY <1>2, <2>2 DEF Reconciling
  <2>7. ReconcilesInPeace'
    BY <2>2, <2>3, <2>4, <2>6 DEF ReconcilesInPeace, Free
  <2>8. \A j \in Ids : meta[j] # None => j \in rec.todo \/ \E m \in rec.metas : m.id = j
    BY <1>1, <2>2 DEF FileAt
  <2>9. CASE rec.todo = {i}
    <3>1. at'[op] = "files" /\ \A j \in Ids : meta[j] # None => \E m \in rec'.metas : m.id = j
      BY <2>1, <2>3, <2>5, <2>8, <2>9
    <3> QED BY <2>2, <2>7, <3>1 DEF FileAt, Written
  <2>10. CASE rec.todo # {i}
    <3>1. at'[op] = "metas" /\ \A j \in Ids : meta[j] # None => j \in rec'.todo \/ \E m \in rec'.metas : m.id = j
      BY <2>1, <2>3, <2>5, <2>8, <2>10
    <3> QED BY <2>2, <2>7, <3>1 DEF FileAt, Written
  <2> QED BY <2>9, <2>10
<1>5. CASE ReconcileLooks(op)
  <2>1. at[op] = "files" /\ UNCHANGED <<folder, meta, loc, at>>
    BY <1>5 DEF ReconcileLooks, disk
  <2>2. ReconcilesInPeace
    BY <1>2, <2>1 DEF Reconciling
  <2>3. PICK m \in rec.metas :
          rec' = [rec EXCEPT !.todo = rec.todo \ {m.id},
                             !.orphans = IF folder[m.meta.file] = None /\ history[m.id][m.meta.revision] # None
                                         THEN rec.orphans \cup {m} ELSE rec.orphans]
    BY <1>1, <1>5 DEF ReconcileLooks, Recs
  <2>4. folder[m.meta.file] # None
    BY <1>1, <2>2 DEF ReconcilesInPeace, FilesApart, Held
  <2>5. rec'.orphans = rec.orphans /\ rec'.metas = rec.metas /\ rec'.entries = rec.entries
    BY <1>1, <2>3, <2>4 DEF Recs
  <2> QED BY <1>1, <2>1, <2>2, <2>5 DEF FileAt, ReconcilesInPeace, Free, Written
<1>6. CASE ReconcileLists(op)
  <2> DEFINE r == [rec EXCEPT !.entries = Unclaimed]
  <2>1. at[op] = "files" /\ NextEntry(op, r) /\ UNCHANGED <<folder, meta>>
    BY <1>6 DEF ReconcileLists, disk
  <2>2. ReconcilesInPeace /\ Kind[op] # "create" /\ \A i \in Ids : meta[i] # None => \E m \in rec.metas : m.id = i
    BY <1>1, <1>2, <2>1 DEF Reconciling, FileAt
  <2>3. r.entries = Unclaimed /\ r.orphans = rec.orphans /\ r.metas = rec.metas
    BY <1>1 DEF Recs
  <2> HIDE DEF r
  <2>4. ASSUME NEW n \in Unclaimed PROVE Free(n)' /\ folder'[n] # None
    <3>1. folder[n] # None /\ \A m \in rec.metas : m.meta.file # n
      BY <2>4 DEF Unclaimed, Taken
    <3>2. \A i \in Ids : meta[i] # None => meta[i].file # n
      BY <2>2, <3>1 DEF ReconcilesInPeace
    <3> QED BY <2>1, <3>1, <3>2 DEF Free
  <2> QED BY <2>1, <2>2, <2>3, <2>4, NextEntryApart DEF ReconcilesInPeace
<1>7. CASE ReconcileReads(op)
  <2>1. at[op] = "entries" /\ UNCHANGED <<folder, meta>>
    BY <1>7 DEF ReconcileReads, disk
  <2>2. ReconcilesInPeace /\ Kind[op] # "create"
    BY <1>2, <2>1 DEF Reconciling
  <2>3. PICK n \in rec.entries :
          LET text == folder[n]
              left == rec.entries \ {n}
          IN  \/ NextEntry(op, [rec EXCEPT !.entries = left])
              \/ \E m \in Renamed(text) : TRUE
              \/ /\ rec' = [rec EXCEPT !.entries = left, !.id = NewId(text.title), !.doc = text,
                                       !.meta = [revision |-> 1, file |-> n]]
                 /\ at'[op] = "adopting"
    BY <1>1, <1>7 DEF ReconcileReads, Goto, Recs
  <2>4. Renamed(folder[n]) = {}
    BY <2>2 DEF Renamed, ReconcilesInPeace
  <2> DEFINE left == rec.entries \ {n}
             r == [rec EXCEPT !.entries = left]
  <2>5. CASE NextEntry(op, r)
    <3>1. r.entries = left /\ r.orphans = rec.orphans /\ r.metas = rec.metas /\ left \subseteq rec.entries
      BY <1>1 DEF Recs
    <3> HIDE DEF r, left
    <3> QED BY <2>1, <2>2, <2>5, <3>1, NextEntryApart DEF ReconcilesInPeace, Free
  <2>6. CASE /\ rec' = [rec EXCEPT !.entries = left, !.id = NewId(folder[n].title), !.doc = folder[n],
                                   !.meta = [revision |-> 1, file |-> n]]
             /\ at'[op] = "adopting"
    <3>1. /\ rec'.entries = left /\ rec'.doc = folder[n] /\ rec'.meta.file = n /\ rec'.orphans = rec.orphans
          /\ rec'.metas = rec.metas /\ n \notin left /\ left \subseteq rec.entries
      BY <1>1, <2>6 DEF Recs
    <3>2. Free(n) /\ folder[n] # None
      BY <2>2 DEF ReconcilesInPeace
    <3> HIDE DEF left
    <3>3. ReconcilesInPeace'
      BY <2>1, <2>2, <3>1 DEF ReconcilesInPeace, Free
    <3>4. Free(rec.meta.file)' /\ Held(rec.meta.file, rec.doc)'
      BY <2>1, <3>1, <3>2 DEF Free, Held
    <3> QED BY <2>6, <3>1, <3>3, <3>4 DEF FileAt, Written
  <2> QED BY <2>3, <2>4, <2>5, <2>6
<1>8. CASE Refiled(op)
  BY <1>1, <1>8 DEF Refiled, FileAt
<1>9. CASE Adopts(op)
  <2>1. at[op] = "adopting" /\ at'[op] = "adopted" /\ UNCHANGED <<folder, meta, rec>>
    BY <1>1, <1>9 DEF Adopts, Goto
  <2>2. ReconcilesInPeace
    BY <1>2, <2>1 DEF Reconciling
  <2> QED BY <1>1, <2>1, <2>2 DEF FileAt, ReconcilesInPeace, Free, Held, Written
<1>10. CASE Adopted(op)
  <2>1. at[op] = "adopted" /\ NextEntry(op, rec) /\ UNCHANGED folder
    BY <1>10 DEF Adopted
  <2>2. ReconcilesInPeace /\ Kind[op] # "create" /\ rec.meta.file \notin rec.entries
    BY <1>1, <1>2, <2>1 DEF Reconciling, FileAt
  <2>3. rec.id \in Ids /\ meta[rec.id] = None /\ meta' = [meta EXCEPT ![rec.id] = rec.meta]
    BY <1>10, AdoptedNext
  <2>4. \A i \in Ids : meta'[i] = IF i = rec.id THEN rec.meta ELSE meta[i]
    BY <2>3 DEF Inv, Typed, Stored
  <2>5. \A m \in rec.metas : m.meta.file = meta'[m.id].file
    BY <1>1, <2>2, <2>3, <2>4 DEF ReconcilesInPeace
  <2>6. \A n \in rec.entries : Free(n)' /\ folder'[n] # None
    BY <2>1, <2>2, <2>4 DEF ReconcilesInPeace, Free
  <2> QED BY <2>1, <2>2, <2>5, <2>6, NextEntryApart DEF ReconcilesInPeace
<1> QED BY <1>3, <1>4, <1>5, <1>6, <1>7, <1>8, <1>9, <1>10 DEF Reconcile

\* A call's own step keeps what it knows of the files.
LEMMA FileAtItself ==
  ASSUME Inv, Apart, NEW op \in Ops, Step(op)
  PROVE  FileAt(op)'
<1>1. at \in [Ops -> Places] /\ loc \in [Ops -> Locals] /\ FileAt(op)
  BY DEF Inv, Typed, Counted, Apart
<1>2. CASE Reconcile(op)
  BY <1>2, FileAtReconcile
<1>3. CASE ReadsMeta(op)
  <2>1. CASE meta[loc[op].id] = None
    <3>1. at'[op] = "done"
      BY <1>1, <1>3, <2>1 DEF ReadsMeta, Ends, Goto
    <3> QED BY <3>1 DEF FileAt, Reconciling, Written
  <2>2. CASE meta[loc[op].id] # None
    <3>1. /\ at'[op] = "file" /\ meta' = meta
            /\ loc' = [loc EXCEPT ![op] = [loc[op] EXCEPT !.meta = meta[loc[op].id]]]
      BY <1>1, <1>3, <2>2 DEF ReadsMeta, Goto, Set, disk
    <3>2. loc'[op].id = loc[op].id /\ loc'[op].meta = meta[loc[op].id]
      BY <1>1, <3>1 DEF Locals
    <3> QED BY <3>1, <3>2 DEF FileAt, Reconciling, Written
  <2> QED BY <2>1, <2>2
<1>4. CASE CreateNamed(op)
  <2>1. /\ Kind[op] = "create" /\ at'[op] = "recording" /\ meta' = meta /\ IsFree(Aim[op], Taken) /\ op \in Calls
        /\ loc'[op].meta.file = FirstFree(Aim[op], Taken)
    BY <1>1, <1>4 DEF CreateNamed, Goto, Set, disk, NoLocals, Inv, Typed, Placed, PlacedAt, Still
  <2>2. FirstFree(Aim[op], Taken) \notin Taken
    BY <2>1, Calling, FirstFreeTyped
  <2>3. \A i \in Ids : meta[i] # None => meta[i].file \in Taken
    <3>1. \A i \in Ids : meta[i] # None => meta[i].file \in Names
      BY MetaCounts DEF Metas
    <3> QED BY <3>1 DEF Apart, FilesApart, Held, Taken
  <2> QED BY <2>1, <2>2, <2>3 DEF FileAt, Free, Reconciling, Written
<1>5. CASE Revises(op)
  <2>1. /\ at[op] = "file" /\ Kind[op] = "revise" /\ at'[op] \in {"keeping", "recording"} /\ meta' = meta
        /\ loc'[op].meta.file = loc[op].meta.file /\ loc'[op].id = loc[op].id
    BY <1>1, <1>5, RevisesTyped DEF Revises, Goto, disk, Inv
  <2> QED BY <1>1, <2>1 DEF FileAt, Reconciling, Written
<1>6. CASE Keeps(op) \/ Records(op)
  <2>1. at'[op] = "done" \/ (at[op] \in {"keeping", "recording"} /\ at'[op] \in {"recording", "placing"} /\ UNCHANGED <<loc, meta>>)
    BY <1>1, <1>6 DEF Keeps, Records, Ends, Goto
  <2>2. Kind[op] = "create" => at[op] # "keeping"
    BY DEF Inv, Typed, Placed, PlacedAt
  <2> QED BY <1>1, <2>1, <2>2 DEF FileAt, Reconciling, Written, Free
<1>7. CASE PlacesFile(op)
  <2>1. /\ at[op] = "placing" /\ loc[op].doc \in Docs /\ folder'[loc[op].meta.file] = loc[op].doc
          /\ UNCHANGED <<meta, loc>>
    BY <1>7, WhoPlaces
  <2>2. at'[op] = "claiming"
    BY <1>1, <1>7 DEF PlacesFile, Goto
  <2>3. Held(loc[op].meta.file, loc[op].doc)'
    BY <2>1, Kinds DEF Held
  <2> QED BY <1>1, <2>1, <2>2, <2>3 DEF FileAt, Reconciling, Written, Free
<1>8. CASE ~(\/ Reconcile(op) \/ ReadsMeta(op) \/ CreateNamed(op) \/ Revises(op) \/ Keeps(op) \/ Records(op) \/ PlacesFile(op))
  <2>1. at'[op] \in {"folder", "meta", "planning", "done"}
    BY <1>1, <1>8
      DEF Step, Server, Called, Locked, FileMissing, Gets, ReviseRefused, Claims, Fails, PersonMoves, Ends, Goto
  <2> QED BY <2>1 DEF FileAt, Reconciling, Written
<1> QED BY <1>2, <1>3, <1>4, <1>5, <1>6, <1>7, <1>8

\* Where nothing moves, no update is overtaken and each reads its own file.
LEMMA NothingMovesUndisturbed == ASSUME Inv, NothingMoves, Promised, Apart PROVE Undisturbed
<1>1. NotOvertaken
  BY DEF NotOvertaken, Refiled, Apart, FileAt
<1>2. ASSUME NEW op \in Ops, Revises(op), FileOf(op).valid PROVE HasOf(Recorded(op)) \subseteq HasOf(FileOf(op))
  <2>1. /\ at[op] = "file" /\ Kind[op] = "revise" /\ FileAt(op) /\ OnDisk(op) /\ Current(op) /\ loc[op].id \in Ids
    BY <1>2, Reading DEF Revises, Apart, Inv, Disk, Promised
  <2>2. /\ meta[loc[op].id] # None /\ loc[op].meta.file = meta[loc[op].id].file
        /\ loc[op].meta.revision = meta[loc[op].id].revision
    BY <2>1 DEF FileAt, OnDisk, Current
  <2> QED BY <2>1, <2>2 DEF Apart, FilesApart, Held, FileOf, Recorded
<1> QED BY <1>1, <1>2 DEF Undisturbed, ReadsItsOwn

\* The files are apart after the process died.
LEMMA ApartCrash == ASSUME Inv, Apart, Crash PROVE Apart'
<1>1. UNCHANGED <<folder, dirs, history, meta, copies>>
  BY DEF Crash, disk
<1>2. \A o \in Ops : (at[o] \in {"new", "done"} /\ at'[o] = at[o]) \/ at'[o] = "done"
  BY DEF Crash, InFlight, Inv, Typed, Placed, PlacedAt, Still
<1>3. \A o \in Ops : FileAt(o)'
  BY <1>2 DEF FileAt, Reconciling, Written
<1> QED BY <1>1, <1>3 DEF Apart, FilesApart, Held

\* Where nothing is renamed or deleted the store keeps the promise of Plannings without condition,
\* and every planning has a readable file, one that no other planning has (line 2).
THEOREM UnmovedStoreKeepsItsPromise ==
  ASSUME NothingMoves
  PROVE  Spec => KeepsItsPromise /\ []FilesApart
<1>1. Init => Inv /\ Promised /\ Abstract!Init /\ Apart
  <2> SUFFICES ASSUME Init PROVE Apart
    BY InitInv, PromisedInit
  <2>1. \A o \in Ops : at[o] \in {"new", "done"}
    BY DEF Init
  <2> QED BY <2>1 DEF Init, Apart, FilesApart, FileAt, Reconciling, Written
<1>2. Inv /\ Promised /\ Apart /\ [Next]_vars => Promised' /\ Apart' /\ [Abstract!Next]_(Abstract!vars)
  <2> SUFFICES ASSUME Inv, Promised, Apart, [Next]_vars
               PROVE  Promised' /\ Apart' /\ [Abstract!Next]_(Abstract!vars)
    OBVIOUS
  <2>1. CASE UNCHANGED vars
    <3>1. UNCHANGED <<folder, dirs, history, meta, copies, at, loc, answer, rec>>
      BY <2>1 DEF vars, disk
    <3>2. Revisions' = Revisions /\ Tellings' = Tellings
      BY <3>1 DEF Revisions, Tellings
    <3>3. Promised'
      BY <3>1 DEF Promised, Counts, Current, Untold
    <3>4. Apart'
      BY <3>1 DEF Apart, FilesApart, FileAt, ReconcilesInPeace, Free, Held
    <3> QED BY <3>2, <3>3, <3>4 DEF Abstract!vars
  <2>2. CASE Crash
    BY <2>2, PromisedCrash, ApartCrash
  <2>3. ASSUME NEW op \in Ops, Step(op) PROVE Promised' /\ Apart' /\ [Abstract!Next]_(Abstract!vars)
    <3>1. Undisturbed
      BY NothingMovesUndisturbed
    <3>2. FilesApart' /\ \A o \in Ops : FileAt(o)'
      BY <2>3, FilesApartStep, FileAtOthers, FileAtItself
    <3> QED BY <2>3, <3>1, <3>2, PromisedStep, PromiseStep DEF Apart
  <2> QED BY <2>1, <2>2, <2>3 DEF Next, Step
<1>3. Inv /\ [Next]_vars => Inv'
  BY NextInv
<1>4. Apart => FilesApart
  BY DEF Apart
<1> QED BY <1>1, <1>2, <1>3, <1>4, PTL DEF Spec, KeepsItsPromise, Abstract!Spec
==============================================================================
