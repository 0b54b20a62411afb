-------------------------- MODULE PromptQueueProofs --------------------------
(***************************************************************************)
(* Theorems about the prompt queue of PromptQueue and the tracker of       *)
(* QueuedPrompts: one operation at a time is past the queue's lock, an id  *)
(* names one prompt however often the queue is taken back, and a change    *)
(* hits what its user saw.                                                 *)
(***************************************************************************)
EXTENDS PromptQueue, TLAPS, FiniteSetTheorems, NaturalsInduction, WellFoundedInduction

-----------------------------------------------------------------------------
(* Types, and who is past the lock                                         *)

\* The tracker, what an operation holds across its awaits, and pi.
Expectations == [source : SourceSet, kind : Kinds, id : Nat]
Trackers == [entries : Seq(Entries), expectations : Seq(Expectations), suspended : BOOLEAN,
             nextId : Nat \ {0}]
Queues == [steer : Seq(Items), followUp : Seq(Items)]
Hands == [to : Nat, target : Nat, saw : Froms, guards : SUBSET Froms, returned : Queues,
          first : Seq(Entries), giving : Seq(Entries), rest : Seq(Entries)]
Agents == [streaming : BOOLEAN, aborting : BOOLEAN, bound : BOOLEAN, session : Nat,
           steer : Seq(Items), followUp : Seq(Items)]

\* Where an operation has the lock, and where it has entries in its hands.
Past == {"called", "prepared", "taking", "stopping", "requeue", "queueing"}
Handing == {"called", "stopping", "requeue", "queueing"}

Typed ==
  /\ tracker \in Trackers
  /\ lock \in Seq(Ops)
  /\ at \in [Ops -> Places]
  /\ op \in [Ops -> Hands]
  /\ replacing \in BOOLEAN
  /\ pi \in Agents /\ (pi.aborting => pi.streaming)
  /\ foreign \subseteq Foreign
  /\ received \in Seq([from : Froms, swallowed : BOOLEAN])

\* The lock is queued for once, by whoever waits or is past it; its holder alone is past it.
Locking ==
  /\ \A i, j \in DOMAIN lock : lock[i] = lock[j] => i = j
  /\ \A i \in DOMAIN lock : at[lock[i]] \in Past \cup {"lock", "late"}
  /\ \A o \in Ops : at[o] \in Past => Holds(o)

\* What an operation that was not handed the queue back holds is nothing; who prompts has what to.
Handed(o) ==
  /\ at[o] \notin Handing => op[o].first = <<>> /\ op[o].rest = <<>>
  /\ at[o] = "called" => op[o].rest = <<>> /\ (Does[o] = "prompt" \/ op[o].first # <<>>)
  /\ at[o] = "queueing" => op[o].giving # <<>>

-----------------------------------------------------------------------------
(* Ids                                                                     *)

\* The ids in a sequence of entries, or of expectations, of which 0 is none.
Unique(s) == \A i, j \in DOMAIN s : s[i].id = s[j].id /\ s[i].id # 0 => i = j
\* No id is in both.
Disjoint(s, u) == \A i \in DOMAIN s : \A j \in DOMAIN u : s[i].id # u[j].id
Under(s, n) == \A i \in DOMAIN s : s[i].id < n

\* In a tracker an id names one prompt, and is not to be given again.
Apart(t) ==
  /\ Unique(t.entries) /\ Unique(t.expectations) /\ Disjoint(t.entries, t.expectations)
  /\ Under(t.entries, t.nextId) /\ Under(t.expectations, t.nextId)
\* So do the ids in an operation's hands.
Separate(o) ==
  /\ Unique(op[o].first) /\ Unique(op[o].rest) /\ Disjoint(op[o].first, op[o].rest)
  /\ Under(op[o].first, tracker.nextId) /\ Under(op[o].rest, tracker.nextId)
  /\ Disjoint(op[o].first, tracker.entries) /\ Disjoint(op[o].first, tracker.expectations)
  /\ Disjoint(op[o].rest, tracker.entries) /\ Disjoint(op[o].rest, tracker.expectations)

\* An id names a prompt of this origin: in a sequence of entries, in a tracker, in someone's hands.
Entered(s, id, x) == \E i \in DOMAIN s : s[i].id = id /\ SourceOf(s[i]).from = x
Expects(s, id, x) == \E i \in DOMAIN s : s[i].id = id /\ s[i].source.from = x
Names(t, id, x) == Entered(t.entries, id, x) \/ Expects(t.expectations, id, x)
Carries(o, id, x) == Entered(op[o].first, id, x) \/ Entered(op[o].rest, id, x)
Means(id, x) == Names(tracker, id, x) \/ \E o \in Ops : Carries(o, id, x)

\* What an edit or a removal that has yet to be made names is what its user saw, or an edit.
Same(o, x) == x = op[o].saw \/ Does[x] = "edit"
Changing(o) == at[o] \in {"lock", "prepared", "taking"} /\ Does[o] \in {"edit", "remove"}
Seen(o) ==
  Changing(o) =>
    /\ op[o].target # 0 /\ op[o].target < tracker.nextId
    /\ \A x : Means(op[o].target, x) => Same(o, x)

Inv ==
  /\ Typed /\ Locking /\ Apart(tracker)
  /\ \A o \in Ops : Handed(o) /\ Separate(o) /\ Seen(o)

-----------------------------------------------------------------------------
(* Sequences                                                               *)

\* A set of natural numbers that is not empty has a least element.
LEMMA Least ==
  ASSUME NEW T \in SUBSET Nat, T # {}
  PROVE  \E n \in T : \A k \in T : n <= k
<1> DEFINE R == OpToRel(<, Nat)
<1>1. PICK n \in T : \A k \in T : <<k, n>> \notin R
  <2>1. IsWellFoundedOn(R, Nat)
    BY NatLessThanWellFounded
  <2> HIDE DEF R
  <2> QED BY <2>1, WFMin
<1>2. \A k \in T : ~(k < n)
  BY <1>1 DEF OpToRel
<1> HIDE DEF R
<1> QED BY <1>2

\* Induction on the natural numbers, stated of a set: the library states it of an operator.
LEMMA FromZero ==
  ASSUME NEW S, 0 \in S, \A n \in Nat : n \in S => n + 1 \in S
  PROVE  Nat \subseteq S
<1> DEFINE T == Nat \ S
<1> SUFFICES ASSUME T # {} PROVE FALSE
  OBVIOUS
<1>1. PICK n \in T : \A k \in T : n <= k
  BY Least
<1>2. n \in Nat /\ n # 0 /\ n - 1 \in Nat /\ ~(n <= n - 1) /\ (n - 1) + 1 = n
  BY <1>1
<1>3. n - 1 \in T
  BY <1>1, <1>2
<1> QED BY <1>1, <1>2, <1>3

\* Every element of one sequence is of the other.
Within(u, s) == \A k \in DOMAIN u : \E i \in DOMAIN s : u[k] = s[i]

\* A sequence without one of its elements.
LEMMA Removed ==
  ASSUME NEW T, NEW s \in Seq(T), NEW i \in DOMAIN s
  PROVE  LET u == RemoveAt(s, i) IN
         /\ u \in Seq(T) /\ Len(u) = Len(s) - 1
         /\ \A k \in DOMAIN u : u[k] = s[IF k < i THEN k ELSE k + 1]
<1> DEFINE a == SubSeq(s, 1, i - 1)
           b == SubSeq(s, i + 1, Len(s))
<1>1. i \in 1..Len(s) /\ Len(s) \in Nat
  OBVIOUS
<1>2. a \in Seq(T) /\ Len(a) = i - 1 /\ \A k \in 1..(i - 1) : a[k] = s[k]
  BY <1>1
<1>3. b \in Seq(T) /\ Len(b) = Len(s) - i /\ \A k \in 1..(Len(s) - i) : b[k] = s[k + i]
  BY <1>1
<1> HIDE DEF a, b
<1>4. a \o b \in Seq(T) /\ Len(a \o b) = Len(s) - 1
  BY <1>1, <1>2, <1>3
<1>5. ASSUME NEW k \in 1..(Len(s) - 1) PROVE (a \o b)[k] = s[IF k < i THEN k ELSE k + 1]
  <2>1. CASE k < i
    <3>1. k \in 1..(i - 1) /\ k \in 1..Len(a)
      BY <1>1, <1>2, <2>1
    <3>2. (a \o b)[k] = a[k]
      BY <1>2, <1>3, <3>1
    <3> QED BY <1>2, <2>1, <3>1, <3>2
  <2>2. CASE ~(k < i)
    <3>1. k - (i - 1) \in 1..(Len(s) - i) /\ k - (i - 1) + i = k + 1 /\ ~(k <= Len(a))
      BY <1>1, <1>2, <2>2
    <3>2. k \in 1..(Len(a) + Len(b)) /\ Len(a) \in Nat /\ Len(b) \in Nat
      BY <1>1, <1>2, <1>3
    <3>3. (a \o b)[k] = b[k - Len(a)]
      BY <1>2, <1>3, <3>1, <3>2
    <3> QED BY <1>2, <1>3, <2>2, <3>1, <3>3
  <2> QED BY <2>1, <2>2
<1>6. RemoveAt(s, i) = a \o b
  BY DEF RemoveAt, a, b
<1>7. DOMAIN (a \o b) = 1..(Len(s) - 1)
  BY <1>4
<1> QED BY <1>4, <1>5, <1>6, <1>7

\* What is left is of the sequence, each of its elements once, and the removed id is not among them.
LEMMA RemovedKeeps ==
  ASSUME NEW T, NEW s \in Seq(T), NEW i \in DOMAIN s
  PROVE  LET u == RemoveAt(s, i) IN
         /\ u \in Seq(T) /\ Within(u, s)
         /\ Unique(s) => /\ Unique(u)
                         /\ s[i].id # 0 => \A k \in DOMAIN u : u[k].id # s[i].id
<1> DEFINE u == RemoveAt(s, i)
           g(k) == IF k < i THEN k ELSE k + 1
<1>1. u \in Seq(T) /\ Len(u) = Len(s) - 1 /\ \A k \in DOMAIN u : u[k] = s[g(k)]
  BY Removed
<1> HIDE DEF u
<1>2. DOMAIN u = 1..(Len(s) - 1) /\ DOMAIN s = 1..Len(s) /\ Len(s) \in Nat /\ i \in 1..Len(s)
  BY <1>1
<1>3. \A k \in DOMAIN u : g(k) \in DOMAIN s /\ g(k) # i
  BY <1>2
<1>4. \A k, m \in DOMAIN u : g(k) = g(m) => k = m
  BY <1>2
<1>5. Within(u, s)
  BY <1>1, <1>3 DEF Within
<1> HIDE DEF g
<1>6. Unique(s) => Unique(u)
  BY <1>1, <1>3, <1>4 DEF Unique
<1>7. Unique(s) /\ s[i].id # 0 => \A k \in DOMAIN u : u[k].id # s[i].id
  BY <1>1, <1>3 DEF Unique
<1> QED BY <1>1, <1>5, <1>6, <1>7 DEF u

\* RemoveFirst leaves the sequence, or removes one element.
LEMMA FirstRemoved ==
  ASSUME NEW T, NEW s \in Seq(T), NEW e
  PROVE  LET u == RemoveFirst(s, e) IN
         u \in Seq(T) /\ Within(u, s) /\ (Unique(s) => Unique(u))
<1>1. CASE ~\E i \in 1..Len(s) : s[i] = e
  <2>1. RemoveFirst(s, e) = s
    BY <1>1 DEF RemoveFirst
  <2> QED BY <2>1 DEF Within
<1>2. CASE \E i \in 1..Len(s) : s[i] = e
  <2> DEFINE I == {i \in 1..Len(s) : s[i] = e}
  <2>1. RemoveFirst(s, e) = RemoveAt(s, Min(I))
    BY <1>2 DEF RemoveFirst, SelectInSeq
  <2>2. Min(I) \in I
    <3>1. I \in SUBSET Nat /\ I # {}
      BY <1>2
    <3>2. \E n \in I : \A k \in I : n <= k
      BY <3>1, Least
    <3> QED BY <3>2 DEF Min
  <2>3. Min(I) \in DOMAIN s
    BY <2>2
  <2> HIDE DEF I
  <2> QED BY <2>1, <2>3, RemovedKeeps
<1> QED BY <1>1, <1>2

-----------------------------------------------------------------------------
(* The tracker: which of its entries a text of pi's list is                *)

\* Counts in sequences are numbers, and a later one of a text counts more.
LEMMA Counted ==
  ASSUME NEW s, NEW n \in Nat, DOMAIN s = 1..n
  PROVE  /\ \A x : Times(s, x) \in Nat
         /\ \A i \in DOMAIN s : Rank(s, i) \in Nat
         /\ \A i, j \in DOMAIN s : s[i] = s[j] /\ i < j => Rank(s, i) # Rank(s, j)
<1>1. IsFiniteSet(1..n)
  BY FS_Interval
<1>2. \A x : Times(s, x) \in Nat
  <2> SUFFICES ASSUME NEW x PROVE Times(s, x) \in Nat
    OBVIOUS
  <2>1. IsFiniteSet({i \in DOMAIN s : s[i] = x})
    BY <1>1, FS_Subset
  <2> QED BY <2>1, FS_CardinalityType DEF Times
<1> DEFINE R(i) == {k \in 1..i : s[k] = s[i]}
<1>3. ASSUME NEW i \in DOMAIN s PROVE IsFiniteSet(R(i)) /\ Cardinality(R(i)) \in Nat
  <2>1. IsFiniteSet(1..i)
    BY FS_Interval
  <2>2. IsFiniteSet(R(i))
    BY <2>1, FS_Subset
  <2> QED BY <2>2, FS_CardinalityType
<1>4. \A i \in DOMAIN s : Rank(s, i) = Cardinality(R(i))
  BY DEF Rank
<1>5. ASSUME NEW i \in DOMAIN s, NEW j \in DOMAIN s, s[i] = s[j], i < j
      PROVE  Cardinality(R(i)) # Cardinality(R(j))
  <2>1. R(i) \subseteq R(j) /\ j \in R(j) /\ j \notin R(i)
    BY <1>5
  <2>2. IsFiniteSet(R(j)) /\ R(i) \in SUBSET R(j) /\ R(i) # R(j)
    BY <1>3, <2>1
  <2> HIDE DEF R
  <2> QED BY <2>2, FS_Subset
<1> HIDE DEF R
<1> QED BY <1>2, <1>3, <1>4, <1>5

\* No two texts of pi's list are one entry of ours.
LEMMA OurOfApart ==
  ASSUME NEW t \in Trackers, NEW kind, NEW T, NEW list \in Seq(T), NEW j \in DOMAIN list,
         NEW m \in DOMAIN list, j # m
  PROVE  OurOf(t, kind, list, j) \cap OurOf(t, kind, list, m) = {}
<1> SUFFICES ASSUME NEW i \in OurOf(t, kind, list, j), i \in OurOf(t, kind, list, m) PROVE FALSE
  OBVIOUS
<1>1. t.entries \in Seq(Entries)
  BY DEF Trackers
<1>2. PICK n \in Nat, k \in Nat : n = Len(list) /\ k = Len(t.entries)
  BY <1>1
<1>3. DOMAIN list = 1..n /\ DOMAIN t.entries = 1..k
  BY <1>1, <1>2
<1> DEFINE x == t.entries[i].piText
           c == Surplus(t, kind, list, x)
<1>4. /\ list[j] = x /\ list[m] = x
      /\ Place(t, kind, i) = Rank(list, j) + c /\ Place(t, kind, i) = Rank(list, m) + c
  BY DEF OurOf, Alike
<1>5. Cardinality(Alike(t, kind, x)) \in Nat
  <2>1. IsFiniteSet(1..k)
    BY FS_Interval
  <2>2. Alike(t, kind, x) \subseteq 1..k
    BY <1>3 DEF Alike, Ours
  <2> QED BY <2>1, <2>2, FS_Subset, FS_CardinalityType
<1>6. c \in Nat
  <2>1. Times(list, x) \in Nat
    BY <1>3, Counted
  <2> QED BY <1>5, <2>1 DEF Surplus
<1> HIDE DEF x, c
<1>7. Rank(list, j) \in Nat /\ Rank(list, m) \in Nat
  BY <1>3, Counted
<1>8. Rank(list, j) = Rank(list, m)
  BY <1>4, <1>6, <1>7
<1>9. j < m \/ m < j
  BY <1>3
<1> QED BY <1>3, <1>4, <1>8, <1>9, Counted

\* f is what the tracker is after each text of pi's list: the function Reconcile chooses.
After(f, t, kind, list, n) ==
  f = [j \in 0..n |-> IF j = 0 THEN [kept |-> <<>>, expectations |-> t.expectations, nextId |-> t.nextId]
                      ELSE Keep(t, kind, list, f[j - 1], j)]

\* There is such a function, for as many texts as one likes.
LEMMA AfterExists ==
  ASSUME NEW t, NEW kind, NEW list
  PROVE  \A n \in Nat : \E f : After(f, t, kind, list, n)
<1> DEFINE start == [kept |-> <<>>, expectations |-> t.expectations, nextId |-> t.nextId]
           S == {n \in Nat : \E f : After(f, t, kind, list, n)}
<1>1. 0 \in S
  <2> DEFINE f == [j \in 0..0 |-> start]
  <2>1. \A j \in 0..0 : j = 0
    OBVIOUS
  <2>2. After(f, t, kind, list, 0)
    BY <2>1 DEF After
  <2> QED BY <2>2
<1>2. ASSUME NEW n \in Nat, n \in S PROVE n + 1 \in S
  <2>1. PICK f : After(f, t, kind, list, n)
    BY <1>2
  <2> DEFINE g == [j \in 0..(n + 1) |-> IF j = n + 1 THEN Keep(t, kind, list, f[n], n + 1) ELSE f[j]]
             h == [j \in 0..(n + 1) |-> IF j = 0 THEN start ELSE Keep(t, kind, list, g[j - 1], j)]
  <2>2. ASSUME NEW j \in 0..(n + 1) PROVE g[j] = h[j]
    <3>1. CASE j = n + 1
      <4>1. j # 0 /\ j - 1 = n /\ n \in 0..(n + 1) /\ n # n + 1
        BY <3>1
      <4>2. g[j - 1] = f[n]
        BY <4>1
      <4> QED BY <3>1, <4>1, <4>2
    <3>2. CASE j # n + 1 /\ j # 0
      <4>1. j \in 0..n /\ j - 1 \in 0..(n + 1) /\ j - 1 # n + 1
        BY <3>2
      <4>2. f[j] = Keep(t, kind, list, f[j - 1], j)
        BY <2>1, <3>2, <4>1 DEF After
      <4>3. g[j - 1] = f[j - 1] /\ g[j] = f[j]
        BY <3>2, <4>1
      <4> QED BY <3>2, <4>2, <4>3
    <3>3. CASE j = 0
      <4>1. j # n + 1 /\ j \in 0..n
        BY <3>3
      <4>2. f[j] = start
        BY <2>1, <3>3, <4>1 DEF After
      <4> QED BY <3>3, <4>1, <4>2
    <3> QED BY <3>1, <3>2, <3>3
  <2>3. g = h
    BY <2>2
  <2>4. After(g, t, kind, list, n + 1)
    BY <2>3 DEF After
  <2> HIDE DEF g
  <2> QED BY <2>4
<1> HIDE DEF S
<1>3. Nat \subseteq S
  BY <1>1, <1>2, FromZero
<1> QED BY <1>3 DEF S

\* Reconcile ends with its last value.
LEMMA ReconcileIsAfter ==
  ASSUME NEW t, NEW kind, NEW T, NEW list \in Seq(T)
  PROVE  \E f : After(f, t, kind, list, Len(list)) /\ Reconcile(t, kind, list).new = f[Len(list)]
<1> DEFINE f == CHOOSE f : After(f, t, kind, list, Len(list))
<1>1. Reconcile(t, kind, list).new = f[Len(list)]
  BY DEF Reconcile, After
<1>2. After(f, t, kind, list, Len(list))
  BY AfterExists
<1> HIDE DEF f
<1> QED BY <1>1, <1>2

\* The strings of pi.
PiTexts == {PiText[x] : x \in DOMAIN PiText}
\* The tracker while a list is gone through.
Passing == [kept : Seq(Entries), expectations : Seq(Expectations), nextId : Nat \ {0}]

\* The ids of entries are numbers, and not 0.
LEMMA EntryIds ==
  ASSUME NEW s \in Seq(Entries), NEW n \in Nat
  PROVE  \A k \in DOMAIN s : /\ s[k] \in Entries /\ s[k].id \in Nat /\ s[k].id # 0
                             /\ Under(s, n) => s[k].id < n
<1> SUFFICES ASSUME NEW k \in DOMAIN s
             PROVE  /\ s[k] \in Entries /\ s[k].id \in Nat /\ s[k].id # 0
                    /\ Under(s, n) => s[k].id < n
  OBVIOUS
<1>1. s[k] \in Entries
  OBVIOUS
<1>2. s[k].id \in Nat \ {0}
  BY <1>1 DEF Entries
<1>3. Under(s, n) => s[k].id < n
  BY DEF Under
<1> QED BY <1>1, <1>2, <1>3

\* Those of expectations are numbers, and their sources were sent.
LEMMA ExpectationIds ==
  ASSUME NEW s \in Seq(Expectations), NEW n \in Nat
  PROVE  \A k \in DOMAIN s : /\ s[k] \in Expectations /\ s[k].id \in Nat /\ s[k].source \in SourceSet
                             /\ Under(s, n) => s[k].id < n
<1> SUFFICES ASSUME NEW k \in DOMAIN s
             PROVE  /\ s[k] \in Expectations /\ s[k].id \in Nat /\ s[k].source \in SourceSet
                    /\ Under(s, n) => s[k].id < n
  OBVIOUS
<1>1. s[k] \in Expectations
  OBVIOUS
<1>2. s[k].id \in Nat /\ s[k].source \in SourceSet
  BY <1>1 DEF Expectations
<1>3. Under(s, n) => s[k].id < n
  BY DEF Under
<1> QED BY <1>1, <1>2, <1>3

\* A kept entry was one of ours and an earlier text, or an expectation with its id, or has a new id.
Comes(t, kind, list, j, e) ==
  \/ \E m \in 1..j : \E i \in OurOf(t, kind, list, m) : e = t.entries[i]
  \/ \E i \in DOMAIN t.expectations : /\ t.expectations[i].id = e.id
                                      /\ t.expectations[i].source.from = SourceOf(e).from
  \/ t.nextId <= e.id
KeptSoFar(t, kind, list, acc, j) ==
  /\ acc \in Passing /\ t.nextId <= acc.nextId
  /\ Unique(acc.kept) /\ Unique(acc.expectations) /\ Disjoint(acc.kept, acc.expectations)
  /\ Under(acc.kept, acc.nextId) /\ Within(acc.expectations, t.expectations)
  /\ \A k \in DOMAIN acc.kept : Comes(t, kind, list, j, acc.kept[k])

\* One more element, with an id of its own.
LEMMA UniqueAppend ==
  ASSUME NEW T, NEW s \in Seq(T), NEW e \in T, Unique(s), \A k \in DOMAIN s : s[k].id # e.id
  PROVE  /\ Append(s, e) \in Seq(T) /\ Unique(Append(s, e))
         /\ \A k \in DOMAIN Append(s, e) : Append(s, e)[k] = e \/ \E i \in DOMAIN s : Append(s, e)[k] = s[i]
<1> DEFINE u == Append(s, e)
<1>1. /\ u \in Seq(T) /\ DOMAIN u = 1..(Len(s) + 1) /\ DOMAIN s = 1..Len(s) /\ Len(s) \in Nat
      /\ u[Len(s) + 1] = e /\ \A k \in 1..Len(s) : u[k] = s[k]
  OBVIOUS
<1> HIDE DEF u
<1>2. \A k \in DOMAIN u : k \in DOMAIN s \/ k = Len(s) + 1
  BY <1>1
<1>3. \A i, j \in DOMAIN u : u[i].id = u[j].id /\ u[i].id # 0 => i = j
  BY <1>1, <1>2 DEF Unique
<1>4. \A k \in DOMAIN u : u[k] = e \/ \E i \in DOMAIN s : u[k] = s[i]
  BY <1>1, <1>2
<1> QED BY <1>1, <1>3, <1>4 DEF Unique, u

\* The origin of an adopted entry is that of its expectation.
LEMMA OriginKept ==
  ASSUME NEW e \in Entries, e.source \in SourceSet
  PROVE  SourceOf(e) = e.source
BY PromptQueueAssumption DEF PromptQueueAssumption, SourceOf, SourceSet, Froms

\* Adopting takes the entry from an expectation, which goes, or from an extension.
LEMMA Adopted ==
  ASSUME NEW acc \in Passing, NEW kind \in Kinds, NEW text \in PiTexts
  PROVE  LET r == Adopt(acc, kind, text) IN
         \/ r = [kept |-> Append(acc.kept, [id |-> acc.nextId, kind |-> kind, piText |-> text, source |-> NoSource]),
                 expectations |-> acc.expectations, nextId |-> acc.nextId + 1]
         \/ \E i \in DOMAIN acc.expectations :
              LET e == acc.expectations[i] IN
              r = [kept |-> Append(acc.kept, [id |-> IF e.id # 0 THEN e.id ELSE acc.nextId, kind |-> kind,
                                              piText |-> text, source |-> e.source]),
                   expectations |-> RemoveAt(acc.expectations, i),
                   nextId |-> IF e.id # 0 THEN acc.nextId ELSE acc.nextId + 1]
<1> DEFINE same  == {i \in DOMAIN acc.expectations : acc.expectations[i].kind = kind}
           exact == {i \in same : acc.expectations[i].source.text = text}
           S == IF exact # {} THEN exact ELSE same
           first == CHOOSE i \in S : \A j \in S : i <= j
<1>1. CASE same = {}
  <2>1. Adopt(acc, kind, text) =
          [acc EXCEPT !.kept = Append(@, [id |-> acc.nextId, kind |-> kind, piText |-> text, source |-> NoSource]),
                      !.nextId = @ + 1]
    BY <1>1 DEF Adopt
  <2> QED BY <2>1 DEF Passing
<1>2. CASE same # {}
  <2>1. S # {} /\ S \in SUBSET Nat /\ S \subseteq DOMAIN acc.expectations
    BY <1>2 DEF Passing
  <2>2. \E i \in S : \A j \in S : i <= j
    BY <2>1, Least
  <2>3. first \in S
    BY <2>2
  <2>4. first \in DOMAIN acc.expectations
    BY <2>1, <2>3
  <2>5. LET e == acc.expectations[first] IN
        Adopt(acc, kind, text) =
          [kept |-> Append(acc.kept, [id |-> IF e.id # 0 THEN e.id ELSE acc.nextId, kind |-> kind,
                                      piText |-> text, source |-> e.source]),
           expectations |-> RemoveAt(acc.expectations, first),
           nextId |-> IF e.id # 0 THEN acc.nextId ELSE acc.nextId + 1]
    BY <1>2 DEF Adopt
  <2> HIDE DEF first
  <2> QED BY <2>4, <2>5
<1> QED BY <1>1, <1>2

\* One entry more is kept, under an id that is nobody's.
LEMMA KeptOneMore ==
  ASSUME NEW t \in Trackers, Apart(t), NEW kind, NEW list, NEW j \in Nat, NEW acc,
         KeptSoFar(t, kind, list, acc, j),
         NEW e \in Entries, NEW x \in Seq(Expectations), NEW n \in Nat, acc.nextId <= n, e.id < n,
         Within(x, acc.expectations), Unique(x), \A k \in DOMAIN acc.kept : acc.kept[k].id # e.id,
         \A k \in DOMAIN x : x[k].id # e.id,
         Comes(t, kind, list, j + 1, e)
  PROVE  KeptSoFar(t, kind, list, [kept |-> Append(acc.kept, e), expectations |-> x, nextId |-> n], j + 1)
<1> DEFINE u == Append(acc.kept, e)
<1>1. acc.kept \in Seq(Entries) /\ acc.nextId \in Nat \ {0} /\ t.nextId \in Nat
      /\ acc.expectations \in Seq(Expectations)
  BY DEF KeptSoFar, Passing, Trackers
<1>2. Unique(acc.kept)
  BY DEF KeptSoFar
<1>3. /\ u \in Seq(Entries) /\ Unique(u)
      /\ \A k \in DOMAIN u : u[k] = e \/ \E i \in DOMAIN acc.kept : u[k] = acc.kept[i]
  BY <1>1, <1>2, UniqueAppend
<1> HIDE DEF u
<1>4. Disjoint(u, x)
  BY <1>3 DEF KeptSoFar, Disjoint, Within
<1>5. Under(u, n)
  <2>1. \A i \in DOMAIN acc.kept : acc.kept[i].id \in Nat /\ acc.kept[i].id < acc.nextId
    <3> DEFINE s == acc.kept
               m == acc.nextId
    <3>1. s \in Seq(Entries) /\ m \in Nat /\ Under(s, m)
      BY <1>1 DEF KeptSoFar
    <3> HIDE DEF s, m
    <3>2. \A i \in DOMAIN s : s[i].id \in Nat /\ s[i].id < m
      BY <3>1, EntryIds
    <3> QED BY <3>2 DEF s, m
  <2>2. \A i \in DOMAIN acc.kept : acc.kept[i].id < n
    BY <1>1, <2>1
  <2> QED BY <1>3, <2>2 DEF Under
<1>6. Within(x, t.expectations)
  BY DEF KeptSoFar, Within
<1>7. \A k \in DOMAIN u : Comes(t, kind, list, j + 1, u[k])
  <2>1. \A i \in DOMAIN acc.kept : Comes(t, kind, list, j + 1, acc.kept[i])
    <3>1. 1..j \subseteq 1..(j + 1)
      OBVIOUS
    <3> QED BY <3>1 DEF KeptSoFar, Comes
  <2> QED BY <1>3, <2>1
<1>8. [kept |-> u, expectations |-> x, nextId |-> n] \in Passing /\ t.nextId <= n
  BY <1>1, <1>3 DEF KeptSoFar, Passing
<1> QED BY <1>3, <1>4, <1>5, <1>6, <1>7, <1>8 DEF KeptSoFar, u

\* Each text of the list leaves the ids kept so far one prompt's each.
LEMMA KeepStep ==
  ASSUME NEW t \in Trackers, Apart(t), NEW kind \in Kinds, NEW list \in Seq(PiTexts),
         NEW j \in Nat, j + 1 \in DOMAIN list, NEW acc, KeptSoFar(t, kind, list, acc, j)
  PROVE  KeptSoFar(t, kind, list, Keep(t, kind, list, acc, j + 1), j + 1)
<1>1. /\ acc \in Passing /\ acc.kept \in Seq(Entries) /\ acc.expectations \in Seq(Expectations)
      /\ acc.nextId \in Nat \ {0} /\ t.nextId \in Nat \ {0} /\ t.nextId <= acc.nextId
      /\ t.entries \in Seq(Entries) /\ t.expectations \in Seq(Expectations)
  BY DEF KeptSoFar, Passing, Trackers
<1>0. /\ Under(acc.kept, acc.nextId) /\ Under(t.entries, t.nextId) /\ Under(t.expectations, t.nextId)
      /\ acc.nextId \in Nat /\ t.nextId \in Nat
  BY <1>1 DEF KeptSoFar, Apart
<1>2. \A k \in DOMAIN acc.kept : acc.kept[k].id \in Nat \ {0} /\ acc.kept[k].id < acc.nextId
  BY <1>0, <1>1, EntryIds
<1>3. \A k \in DOMAIN acc.expectations :
        acc.expectations[k].id \in Nat /\ acc.expectations[k].id < t.nextId
  <2>1. \A i \in DOMAIN t.expectations : t.expectations[i].id \in Nat /\ t.expectations[i].id < t.nextId
    BY <1>0, <1>1, ExpectationIds
  <2> QED BY <2>1 DEF KeptSoFar, Within
<1>4. CASE OurOf(t, kind, list, j + 1) # {}
  <2> DEFINE i == CHOOSE i \in OurOf(t, kind, list, j + 1) : TRUE
             e == t.entries[i]
  <2>1. i \in OurOf(t, kind, list, j + 1)
    BY <1>4
  <2>2. Keep(t, kind, list, acc, j + 1) =
          [kept |-> Append(acc.kept, e), expectations |-> acc.expectations, nextId |-> acc.nextId]
    BY <1>1, <1>4 DEF Keep, Passing
  <2> HIDE DEF i
  <2>3. i \in DOMAIN t.entries
    BY <2>1 DEF OurOf, Alike, Ours
  <2>4. e \in Entries /\ e.id \in Nat \ {0} /\ e.id < t.nextId
    BY <1>0, <1>1, <2>3, EntryIds
  <2>5. Comes(t, kind, list, j + 1, e)
    <3>1. j + 1 \in 1..(j + 1)
      OBVIOUS
    <3> QED BY <2>1, <3>1 DEF Comes
  <2>6. ASSUME NEW k \in DOMAIN acc.kept PROVE acc.kept[k].id # e.id
    <3>1. Comes(t, kind, list, j, acc.kept[k])
      BY DEF KeptSoFar
    <3>2. ASSUME NEW m \in 1..j, NEW n \in OurOf(t, kind, list, m), acc.kept[k] = t.entries[n]
          PROVE  acc.kept[k].id # e.id
      <4>1. m \in DOMAIN list /\ m # j + 1
        BY <1>1
      <4>2. n # i
        BY <2>1, <3>2, <4>1, OurOfApart
      <4>3. n \in DOMAIN t.entries
        BY <3>2 DEF OurOf, Alike, Ours
      <4> QED BY <2>3, <2>4, <3>2, <4>2, <4>3 DEF Apart, Unique
    <3>3. ASSUME NEW n \in DOMAIN t.expectations, t.expectations[n].id = acc.kept[k].id
          PROVE  acc.kept[k].id # e.id
      BY <2>3, <3>3 DEF Apart, Disjoint
    <3>4. ASSUME t.nextId <= acc.kept[k].id PROVE acc.kept[k].id # e.id
      BY <1>1, <1>2, <2>4, <3>4
    <3> QED BY <3>1, <3>2, <3>3, <3>4 DEF Comes
  <2>7. \A k \in DOMAIN acc.expectations : acc.expectations[k].id # e.id
    BY <2>3 DEF KeptSoFar, Within, Apart, Disjoint
  <2>8. Within(acc.expectations, acc.expectations) /\ Unique(acc.expectations)
    BY DEF Within, KeptSoFar
  <2>9. acc.nextId <= acc.nextId /\ e.id < acc.nextId
    BY <1>1, <2>4
  <2> HIDE DEF e
  <2> QED BY <1>1, <2>2, <2>4, <2>5, <2>6, <2>7, <2>8, <2>9, KeptOneMore
<1>5. CASE OurOf(t, kind, list, j + 1) = {}
  <2> DEFINE text == list[j + 1]
             r == Adopt(acc, kind, text)
             made(id, source) == [id |-> id, kind |-> kind, piText |-> text, source |-> source]
  <2>1. text \in PiTexts
    OBVIOUS
  <2>2. Keep(t, kind, list, acc, j + 1) = r
    BY <1>5 DEF Keep
  <2> HIDE DEF text
  <2>3. CASE r = [kept |-> Append(acc.kept, made(acc.nextId, NoSource)),
                  expectations |-> acc.expectations, nextId |-> acc.nextId + 1]
    <3> DEFINE e == made(acc.nextId, NoSource)
    <3>1. e \in Entries /\ e.id = acc.nextId
      BY <1>1, <2>1 DEF Entries, PiTexts
    <3> HIDE DEF e
    <3>2. Comes(t, kind, list, j + 1, e)
      BY <1>1, <3>1 DEF Comes
    <3>3. \A k \in DOMAIN acc.kept : acc.kept[k].id # e.id
      BY <1>1, <1>2, <3>1
    <3>4. \A k \in DOMAIN acc.expectations : acc.expectations[k].id # e.id
      BY <1>1, <1>3, <3>1
    <3>5. Within(acc.expectations, acc.expectations) /\ Unique(acc.expectations)
      BY DEF Within, KeptSoFar
    <3>6. acc.nextId + 1 \in Nat /\ acc.nextId <= acc.nextId + 1 /\ e.id < acc.nextId + 1
      BY <1>1, <3>1
    <3>7. r = [kept |-> Append(acc.kept, e), expectations |-> acc.expectations, nextId |-> acc.nextId + 1]
      BY <2>3 DEF e
    <3> HIDE DEF r
    <3> QED BY <1>1, <2>2, <3>1, <3>2, <3>3, <3>4, <3>5, <3>6, <3>7, KeptOneMore
  <2>4. ASSUME NEW i \in DOMAIN acc.expectations,
               r = [kept |-> Append(acc.kept, made(IF acc.expectations[i].id # 0 THEN acc.expectations[i].id
                                                   ELSE acc.nextId, acc.expectations[i].source)),
                    expectations |-> RemoveAt(acc.expectations, i),
                    nextId |-> IF acc.expectations[i].id # 0 THEN acc.nextId ELSE acc.nextId + 1]
        PROVE  KeptSoFar(t, kind, list, r, j + 1)
    <3> DEFINE w == acc.expectations[i]
               id == IF w.id # 0 THEN w.id ELSE acc.nextId
               e == made(id, w.source)
               x == RemoveAt(acc.expectations, i)
               n == IF w.id # 0 THEN acc.nextId ELSE acc.nextId + 1
    <3>1. w \in Expectations /\ w.id \in Nat /\ w.id < t.nextId /\ w.source \in SourceSet
      <4>1. w \in Expectations /\ w.source \in SourceSet
        BY <1>0, <1>1, ExpectationIds
      <4> QED BY <1>3, <4>1
    <3>2. id \in Nat \ {0} /\ n \in Nat /\ acc.nextId <= n /\ id < n
      <4> HIDE DEF w
      <4>1. CASE w.id = 0
        BY <1>0, <1>1, <4>1
      <4>2. CASE w.id # 0
        BY <1>0, <1>1, <3>1, <4>2
      <4> QED BY <4>1, <4>2
    <3>3. r = [kept |-> Append(acc.kept, e), expectations |-> x, nextId |-> n]
      BY <2>4
    <3>4. e \in Entries /\ e.id = id /\ e.source = w.source
      BY <2>1, <3>1, <3>2 DEF Entries, PiTexts
    <3>5. SourceOf(e) = w.source
      BY <3>1, <3>4, OriginKept
    <3>6. /\ x \in Seq(Expectations) /\ Within(x, acc.expectations) /\ Unique(x)
          /\ w.id # 0 => \A k \in DOMAIN x : x[k].id # w.id
      BY <1>1, RemovedKeeps DEF KeptSoFar
    <3>7. PICK m \in DOMAIN t.expectations : w = t.expectations[m]
      BY DEF KeptSoFar, Within
    <3> HIDE DEF w, id, e, x, n, r
    <3>8. Comes(t, kind, list, j + 1, e)
      <4>1. CASE w.id # 0
        <5>1. t.expectations[m].id = e.id /\ t.expectations[m].source.from = SourceOf(e).from
          BY <3>4, <3>5, <3>7, <4>1 DEF id
        <5> QED BY <5>1 DEF Comes
      <4>2. CASE w.id = 0
        BY <1>1, <3>4, <4>2 DEF Comes, id
      <4> QED BY <4>1, <4>2
    <3>9. \A k \in DOMAIN acc.kept : acc.kept[k].id # e.id
      <4>1. CASE w.id # 0
        BY <3>4, <4>1 DEF KeptSoFar, Disjoint, w, id
      <4>2. CASE w.id = 0
        BY <1>1, <1>2, <3>4, <4>2 DEF id
      <4> QED BY <4>1, <4>2
    <3>10. \A k \in DOMAIN x : x[k].id # e.id
      <4>1. CASE w.id # 0
        BY <3>4, <3>6, <4>1 DEF id
      <4>2. CASE w.id = 0
        BY <1>1, <1>3, <3>4, <3>6, <4>2 DEF id, Within
      <4> QED BY <4>1, <4>2
    <3> QED BY <1>1, <3>2, <3>3, <3>4, <3>6, <3>8, <3>9, <3>10, KeptOneMore
  <2>5. \/ r = [kept |-> Append(acc.kept, made(acc.nextId, NoSource)),
                expectations |-> acc.expectations, nextId |-> acc.nextId + 1]
        \/ \E i \in DOMAIN acc.expectations :
             r = [kept |-> Append(acc.kept, made(IF acc.expectations[i].id # 0 THEN acc.expectations[i].id
                                                 ELSE acc.nextId, acc.expectations[i].source)),
                  expectations |-> RemoveAt(acc.expectations, i),
                  nextId |-> IF acc.expectations[i].id # 0 THEN acc.nextId ELSE acc.nextId + 1]
    BY <1>1, <2>1, Adopted
  <2> HIDE DEF r, made
  <2> QED BY <2>2, <2>3, <2>4, <2>5
<1> QED BY <1>4, <1>5

\* So one list is reconciled.
LEMMA ReconcileKeeps ==
  ASSUME NEW t \in Trackers, Apart(t), NEW kind \in Kinds, NEW list \in Seq(PiTexts)
  PROVE  KeptSoFar(t, kind, list, Reconcile(t, kind, list).new, Len(list))
<1>1. PICK f : After(f, t, kind, list, Len(list)) /\ Reconcile(t, kind, list).new = f[Len(list)]
  BY ReconcileIsAfter
<1> DEFINE S == {j \in Nat : j <= Len(list) => KeptSoFar(t, kind, list, f[j], j)}
<1>2. DOMAIN list = 1..Len(list) /\ Len(list) \in Nat
  OBVIOUS
<1>3. 0 \in S
  <2>1. f[0] = [kept |-> <<>>, expectations |-> t.expectations, nextId |-> t.nextId]
    BY <1>1, <1>2 DEF After
  <2>2. f[0] \in Passing /\ t.nextId <= f[0].nextId /\ f[0].kept = <<>> /\ f[0].expectations = t.expectations
    BY <2>1 DEF Passing, Trackers
  <2>3. Unique(f[0].kept) /\ Disjoint(f[0].kept, f[0].expectations) /\ Under(f[0].kept, f[0].nextId)
    BY <2>2 DEF Unique, Disjoint, Under
  <2>4. Unique(f[0].expectations) /\ Within(f[0].expectations, t.expectations)
    BY <2>2 DEF Apart, Within
  <2>5. \A k \in DOMAIN f[0].kept : Comes(t, kind, list, 0, f[0].kept[k])
    BY <2>2
  <2> QED BY <2>2, <2>3, <2>4, <2>5 DEF KeptSoFar
<1>4. ASSUME NEW j \in Nat, j \in S PROVE j + 1 \in S
  <2> SUFFICES ASSUME j + 1 <= Len(list) PROVE KeptSoFar(t, kind, list, f[j + 1], j + 1)
    OBVIOUS
  <2>1. j <= Len(list) /\ j + 1 \in DOMAIN list /\ j + 1 \in 0..Len(list) /\ j + 1 # 0 /\ (j + 1) - 1 = j
    BY <1>2
  <2>2. f[j + 1] = Keep(t, kind, list, f[j], j + 1)
    BY <1>1, <2>1 DEF After
  <2>3. KeptSoFar(t, kind, list, f[j], j)
    BY <1>4, <2>1
  <2> QED BY <2>1, <2>2, <2>3, KeepStep
<1> HIDE DEF S
<1>5. Nat \subseteq S
  BY <1>3, <1>4, FromZero
<1> QED BY <1>1, <1>2, <1>5 DEF S

-----------------------------------------------------------------------------
(* The tracker's methods                                                   *)

\* A later tracker: its ids name one prompt each, and the ids given before what they named.
Follows(t, u) ==
  /\ u \in Trackers /\ Apart(u) /\ t.nextId <= u.nextId
  /\ \A id, x : id # 0 /\ id < t.nextId /\ Names(u, id, x) => Names(t, id, x)
\* Entries that it kept and has no more.
Kept(t, u, kept) ==
  /\ kept \in Seq(Entries) /\ Unique(kept) /\ Disjoint(kept, u.expectations) /\ Under(kept, u.nextId)
  /\ \A id, x : id < t.nextId /\ Entered(kept, id, x) => Names(t, id, x)

\* One sequence after the other: its ids.
LEMMA UniqueConcat ==
  ASSUME NEW T, NEW s \in Seq(T), NEW u \in Seq(T)
  PROVE  /\ s \o u \in Seq(T)
         /\ Unique(s) /\ Unique(u) /\ Disjoint(s, u) => Unique(s \o u)
<1> DEFINE w == s \o u
           n == Len(s)
           m == Len(u)
<1>1. /\ w \in Seq(T) /\ n \in Nat /\ m \in Nat /\ DOMAIN w = 1..(n + m) /\ DOMAIN s = 1..n /\ DOMAIN u = 1..m
  OBVIOUS
<1>2. /\ \A k \in 1..n : w[k] = s[k]
      /\ \A k \in (n + 1)..(n + m) : w[k] = u[k - n]
  OBVIOUS
<1> HIDE DEF w, n, m
<1>3. \A k \in DOMAIN w : \/ k \in DOMAIN s /\ w[k] = s[k]
                          \/ k - n \in DOMAIN u /\ w[k] = u[k - n] /\ k \notin DOMAIN s
  BY <1>1, <1>2
<1>4. ASSUME Unique(s), Unique(u), Disjoint(s, u), NEW i \in DOMAIN w, NEW j \in DOMAIN w,
             w[i].id = w[j].id, w[i].id # 0
      PROVE  i = j
  <2>1. CASE i \in DOMAIN s /\ w[i] = s[i] /\ j \in DOMAIN s /\ w[j] = s[j]
    BY <1>4, <2>1 DEF Unique
  <2>2. CASE i - n \in DOMAIN u /\ w[i] = u[i - n] /\ j - n \in DOMAIN u /\ w[j] = u[j - n]
    <3>1. i - n = j - n
      BY <1>4, <2>2 DEF Unique
    <3> QED BY <1>1, <3>1
  <2> QED BY <1>3, <1>4, <2>1, <2>2 DEF Disjoint
<1> QED BY <1>1, <1>3, <1>4 DEF Unique, w

\* Both lists of pi's queue.
LEMMA BothFollow ==
  ASSUME NEW t \in Trackers, Apart(t), NEW lists \in [steer : Seq(PiTexts), followUp : Seq(PiTexts)]
  PROVE  LET u == ReconcileBoth(t, lists).tracker IN Follows(t, u) /\ Kept(t, u, u.entries)
<1> DEFINE s == Reconcile(t, "steer", lists.steer).new
           v == [t EXCEPT !.expectations = s.expectations, !.nextId = s.nextId]
           f == Reconcile(v, "followUp", lists.followUp).new
           u == [t EXCEPT !.entries = s.kept \o f.kept, !.expectations = f.expectations, !.nextId = f.nextId]
<1>1. ReconcileBoth(t, lists).tracker = u
  BY DEF ReconcileBoth
<1>2. lists.steer \in Seq(PiTexts) /\ lists.followUp \in Seq(PiTexts) /\ "steer" \in Kinds /\ "followUp" \in Kinds
  BY DEF Kinds
<1>3. KeptSoFar(t, "steer", lists.steer, s, Len(lists.steer))
  BY <1>2, ReconcileKeeps
<1> HIDE DEF s
<1>4. /\ s \in Passing /\ s.kept \in Seq(Entries) /\ s.expectations \in Seq(Expectations)
      /\ s.nextId \in Nat /\ s.nextId # 0 /\ t.nextId \in Nat /\ t.nextId <= s.nextId
      /\ t.entries \in Seq(Entries) /\ t.expectations \in Seq(Expectations)
  BY <1>3 DEF KeptSoFar, Passing, Trackers
<1>5. /\ Unique(s.kept) /\ Unique(s.expectations) /\ Disjoint(s.kept, s.expectations)
      /\ Under(s.kept, s.nextId) /\ Within(s.expectations, t.expectations)
  BY <1>3 DEF KeptSoFar
<1>6. /\ v \in Trackers /\ v.entries = t.entries /\ v.expectations = s.expectations /\ v.nextId = s.nextId
  BY <1>4 DEF Trackers, Passing
<1> HIDE DEF v
<1>7. \A i \in DOMAIN t.entries : t.entries[i].id \in Nat /\ t.entries[i].id # 0 /\ t.entries[i].id < t.nextId
  BY <1>4, EntryIds DEF Apart
<1>8. \A i \in DOMAIN t.expectations : t.expectations[i].id \in Nat /\ t.expectations[i].id < t.nextId
  BY <1>4, ExpectationIds DEF Apart
<1>9. Apart(v)
  <2>1. Disjoint(t.entries, s.expectations)
    BY <1>5 DEF Apart, Disjoint, Within
  <2>2. Under(t.entries, s.nextId)
    BY <1>4, <1>7 DEF Under
  <2>3. Under(s.expectations, s.nextId)
    BY <1>4, <1>5, <1>8 DEF Under, Within
  <2> QED BY <1>5, <1>6, <2>1, <2>2, <2>3 DEF Apart
<1>10. KeptSoFar(v, "followUp", lists.followUp, f, Len(lists.followUp))
  BY <1>2, <1>6, <1>9, ReconcileKeeps
<1> HIDE DEF f
<1>11. /\ f \in Passing /\ f.kept \in Seq(Entries) /\ f.expectations \in Seq(Expectations)
       /\ f.nextId \in Nat /\ f.nextId # 0 /\ s.nextId <= f.nextId
  BY <1>6, <1>10 DEF KeptSoFar, Passing
<1>12. /\ Unique(f.kept) /\ Unique(f.expectations) /\ Disjoint(f.kept, f.expectations)
       /\ Under(f.kept, f.nextId) /\ Within(f.expectations, s.expectations)
  BY <1>6, <1>10 DEF KeptSoFar
<1>13. /\ u \in Trackers /\ u.entries = s.kept \o f.kept /\ u.expectations = f.expectations
       /\ u.nextId = f.nextId
  <2>1. s.kept \o f.kept \in Seq(Entries)
    BY <1>4, <1>11
  <2>2. f.nextId \in Nat \ {0}
    BY <1>11
  <2> HIDE DEF f, s
  <2> QED BY <1>11, <2>1, <2>2 DEF Trackers
<1> HIDE DEF u
<1>14. \A k \in DOMAIN s.kept : s.kept[k].id \in Nat /\ s.kept[k].id # 0 /\ s.kept[k].id < s.nextId
  BY <1>4, <1>5, EntryIds
<1>15. \A k \in DOMAIN f.kept : f.kept[k].id \in Nat /\ f.kept[k].id # 0 /\ f.kept[k].id < f.nextId
  BY <1>11, <1>12, EntryIds
<1>16. ASSUME NEW i \in DOMAIN s.kept, NEW k \in DOMAIN f.kept PROVE s.kept[i].id # f.kept[k].id
  <2>1. Comes(t, "steer", lists.steer, Len(lists.steer), s.kept[i])
    BY <1>3 DEF KeptSoFar
  <2>2. Comes(v, "followUp", lists.followUp, Len(lists.followUp), f.kept[k])
    BY <1>10 DEF KeptSoFar
  <2>3. CASE s.nextId <= f.kept[k].id
    BY <1>4, <1>14, <1>15, <2>3
  <2>4. CASE \E m \in DOMAIN s.expectations : s.expectations[m].id = f.kept[k].id
    BY <1>5, <2>4 DEF Disjoint
  <2>5. ASSUME NEW m \in DOMAIN t.entries, t.entries[m].kind = "followUp", f.kept[k] = t.entries[m]
        PROVE  s.kept[i].id # f.kept[k].id
    <3>1. ASSUME NEW n \in DOMAIN t.entries, t.entries[n].kind = "steer", s.kept[i] = t.entries[n]
          PROVE  s.kept[i].id # f.kept[k].id
      <4>1. n # m
        BY <2>5, <3>1
      <4> QED BY <1>7, <2>5, <3>1, <4>1 DEF Apart, Unique
    <3>2. CASE \E n \in DOMAIN t.expectations : t.expectations[n].id = s.kept[i].id
      BY <2>5, <3>2 DEF Apart, Disjoint
    <3>3. CASE t.nextId <= s.kept[i].id
      BY <1>4, <1>7, <1>14, <2>5, <3>3
    <3>4. \/ \E n \in DOMAIN t.entries : t.entries[n].kind = "steer" /\ s.kept[i] = t.entries[n]
          \/ \E n \in DOMAIN t.expectations : t.expectations[n].id = s.kept[i].id
          \/ t.nextId <= s.kept[i].id
      BY <2>1 DEF Comes, OurOf, Alike, Ours
    <3> QED BY <3>1, <3>2, <3>3, <3>4
  <2>6. \/ \E n \in DOMAIN t.entries : t.entries[n].kind = "followUp" /\ f.kept[k] = t.entries[n]
        \/ \E n \in DOMAIN s.expectations : s.expectations[n].id = f.kept[k].id
        \/ s.nextId <= f.kept[k].id
    BY <1>6, <2>2 DEF Comes, OurOf, Alike, Ours
  <2> QED BY <2>3, <2>4, <2>5, <2>6
<1> DEFINE w == s.kept \o f.kept
<1>17. /\ w \in Seq(Entries) /\ Unique(w)
       /\ \A k \in DOMAIN w : \/ \E i \in DOMAIN s.kept : w[k] = s.kept[i]
                              \/ \E i \in DOMAIN f.kept : w[k] = f.kept[i]
  <2>1. Disjoint(s.kept, f.kept)
    BY <1>16 DEF Disjoint
  <2>2. Unique(s.kept) /\ Unique(f.kept) /\ s.kept \in Seq(Entries) /\ f.kept \in Seq(Entries)
    BY <1>4, <1>5, <1>11, <1>12
  <2>3. w \in Seq(Entries) /\ Unique(w)
    BY <2>1, <2>2, UniqueConcat
  <2>4. \A k \in DOMAIN w : \/ \E i \in DOMAIN s.kept : w[k] = s.kept[i]
                            \/ \E i \in DOMAIN f.kept : w[k] = f.kept[i]
    <3> DEFINE a == s.kept
               b == f.kept
    <3>1. a \in Seq(Entries) /\ b \in Seq(Entries)
      BY <2>2
    <3> HIDE DEF a, b
    <3>2. ASSUME NEW k \in DOMAIN (a \o b)
          PROVE  (\E i \in DOMAIN a : (a \o b)[k] = a[i]) \/ (\E i \in DOMAIN b : (a \o b)[k] = b[i])
      <4>1. Len(a) \in Nat /\ Len(b) \in Nat /\ k \in 1..(Len(a) + Len(b))
        BY <3>1
      <4>2. CASE k <= Len(a)
        BY <3>1, <4>1, <4>2
      <4>3. CASE k > Len(a)
        <5>1. k - Len(a) \in DOMAIN b /\ (a \o b)[k] = b[k - Len(a)]
          BY <3>1, <4>1, <4>3
        <5> QED BY <5>1
      <4> QED BY <4>1, <4>2, <4>3
    <3> QED BY <3>2 DEF a, b
  <2> HIDE DEF w
  <2> QED BY <2>3, <2>4
<1> HIDE DEF w
<1>18. Disjoint(w, f.expectations)
  <2>1. Disjoint(s.kept, f.expectations)
    BY <1>5, <1>12 DEF Disjoint, Within
  <2> QED BY <1>12, <1>17, <2>1 DEF Disjoint
<1>19. Under(w, f.nextId)
  <2>1. \A i \in DOMAIN s.kept : s.kept[i].id < f.nextId
    BY <1>4, <1>11, <1>14
  <2> QED BY <1>15, <1>17, <2>1 DEF Under
<1>20. Under(f.expectations, f.nextId)
  <2>1. \A i \in DOMAIN t.expectations : t.expectations[i].id < f.nextId
    BY <1>4, <1>8, <1>11, SMTT(30)
  <2> QED BY <1>5, <1>12, <2>1 DEF Under, Within
<1>21. Apart(u)
  BY <1>12, <1>13, <1>17, <1>18, <1>19, <1>20 DEF Apart, w
<1>22. ASSUME NEW id, NEW x, id < t.nextId, Entered(w, id, x) PROVE Names(t, id, x)
  <2>1. PICK k \in DOMAIN w : w[k].id = id /\ SourceOf(w[k]).from = x
    BY <1>22 DEF Entered
  <2>2. ASSUME NEW i \in DOMAIN s.kept, w[k] = s.kept[i] PROVE Names(t, id, x)
    <3>1. Comes(t, "steer", lists.steer, Len(lists.steer), s.kept[i])
      BY <1>3 DEF KeptSoFar
    <3>2. ~(t.nextId <= s.kept[i].id)
      BY <1>4, <1>14, <1>22, <2>1, <2>2
    <3>3. CASE \E n \in DOMAIN t.entries : s.kept[i] = t.entries[n]
      BY <2>1, <2>2, <3>3 DEF Names, Entered
    <3>4. CASE \E n \in DOMAIN t.expectations : /\ t.expectations[n].id = s.kept[i].id
                                                /\ t.expectations[n].source.from = SourceOf(s.kept[i]).from
      BY <2>1, <2>2, <3>4 DEF Names, Expects
    <3>5. \/ \E n \in DOMAIN t.entries : s.kept[i] = t.entries[n]
          \/ \E n \in DOMAIN t.expectations : /\ t.expectations[n].id = s.kept[i].id
                                              /\ t.expectations[n].source.from = SourceOf(s.kept[i]).from
      BY <3>1, <3>2 DEF Comes, OurOf, Alike, Ours
    <3> QED BY <3>3, <3>4, <3>5
  <2>3. ASSUME NEW i \in DOMAIN f.kept, w[k] = f.kept[i] PROVE Names(t, id, x)
    <3>1. Comes(v, "followUp", lists.followUp, Len(lists.followUp), f.kept[i])
      BY <1>10 DEF KeptSoFar
    <3>2. ~(s.nextId <= f.kept[i].id)
      BY <1>4, <1>15, <1>22, <2>1, <2>3
    <3>3. CASE \E n \in DOMAIN t.entries : f.kept[i] = t.entries[n]
      BY <2>1, <2>3, <3>3 DEF Names, Entered
    <3>4. CASE \E n \in DOMAIN s.expectations : /\ s.expectations[n].id = f.kept[i].id
                                                /\ s.expectations[n].source.from = SourceOf(f.kept[i]).from
      <4>1. \E n \in DOMAIN t.expectations : /\ t.expectations[n].id = f.kept[i].id
                                             /\ t.expectations[n].source.from = SourceOf(f.kept[i]).from
        BY <1>5, <3>4 DEF Within
      <4> QED BY <2>1, <2>3, <4>1 DEF Names, Expects
    <3>5. \/ \E n \in DOMAIN t.entries : f.kept[i] = t.entries[n]
          \/ \E n \in DOMAIN s.expectations : /\ s.expectations[n].id = f.kept[i].id
                                              /\ s.expectations[n].source.from = SourceOf(f.kept[i]).from
      BY <1>6, <3>1, <3>2 DEF Comes, OurOf, Alike, Ours
    <3> QED BY <3>3, <3>4, <3>5
  <2> QED BY <1>17, <2>2, <2>3
<1>23. ASSUME NEW id, NEW x, Expects(f.expectations, id, x) PROVE Names(t, id, x)
  <2>1. Expects(s.expectations, id, x)
    BY <1>12, <1>23 DEF Expects, Within
  <2>2. Expects(t.expectations, id, x)
    BY <1>5, <2>1 DEF Expects, Within
  <2> QED BY <2>2 DEF Names
<1>24. \A id, x : id # 0 /\ id < t.nextId /\ Names(u, id, x) => Names(t, id, x)
  BY <1>13, <1>22, <1>23 DEF Names, w
<1>25. t.nextId <= u.nextId
  BY <1>4, <1>11, <1>13
<1>26. Follows(t, u)
  BY <1>13, <1>21, <1>24, <1>25 DEF Follows
<1>27. Kept(t, u, u.entries)
  BY <1>13, <1>17, <1>18, <1>19, <1>22 DEF Kept, w
<1> QED BY <1>1, <1>26, <1>27

\* A report of pi's queue.
LEMMA UpdateFollows ==
  ASSUME NEW t \in Trackers, Apart(t), NEW lists \in [steer : Seq(PiTexts), followUp : Seq(PiTexts)]
  PROVE  Follows(t, Update(t, lists).tracker)
<1>1. CASE t.suspended
  <2>1. Update(t, lists).tracker = t
    BY <1>1 DEF Update
  <2>2. t.nextId \in Nat
    BY DEF Trackers
  <2> QED BY <2>1, <2>2 DEF Follows
<1>2. CASE ~t.suspended
  <2>1. Update(t, lists) = ReconcileBoth(t, lists)
    BY <1>2 DEF Update
  <2> QED BY <2>1, BothFollow
<1> QED BY <1>1, <1>2

\* A take-back: what the tracker kept is the operation's.
LEMMA TakeBackFollows ==
  ASSUME NEW t \in Trackers, Apart(t), NEW lists \in [steer : Seq(PiTexts), followUp : Seq(PiTexts)]
  PROVE  LET r == TakeBack(t, lists) IN
         Follows(t, r.tracker) /\ r.tracker.entries = <<>> /\ Kept(t, r.tracker, r.kept)
<1> DEFINE u == ReconcileBoth(t, lists).tracker
           v == [u EXCEPT !.entries = <<>>, !.suspended = FALSE]
<1>1. Follows(t, u) /\ Kept(t, u, u.entries)
  BY BothFollow
<1>2. TakeBack(t, lists).tracker = v /\ TakeBack(t, lists).kept = u.entries
  BY DEF TakeBack
<1> HIDE DEF u
<1>3. /\ v \in Trackers /\ v.entries = <<>> /\ v.expectations = u.expectations /\ v.nextId = u.nextId
  <2>1. u \in Trackers /\ <<>> \in Seq(Entries)
    BY <1>1 DEF Follows
  <2> QED BY <2>1 DEF Trackers
<1> HIDE DEF v
<1>4. Apart(v)
  BY <1>1, <1>3 DEF Follows, Apart, Unique, Disjoint, Under
<1>5. Follows(t, v)
  <2>1. \A id, x : Names(v, id, x) => Names(u, id, x)
    BY <1>3 DEF Names, Entered
  <2> QED BY <1>1, <1>3, <1>4, <2>1 DEF Follows
<1>6. Kept(t, v, u.entries)
  BY <1>1, <1>3 DEF Kept
<1> QED BY <1>2, <1>3, <1>5, <1>6

\* What settles, suspends, resumes and resets only forgets.
LEMMA ForgetsFollow ==
  ASSUME NEW t \in Trackers, Apart(t)
  PROVE  /\ \A source, kind, id : Follows(t, Settle(t, source, kind, id, FALSE))
         /\ Follows(t, Suspend(t)) /\ Follows(t, Resume(t)) /\ Follows(t, Reset(t)) /\ Follows(t, t)
<1>1. t.nextId \in Nat /\ t.nextId <= t.nextId /\ t.expectations \in Seq(Expectations)
  BY DEF Trackers
<1>2. ASSUME NEW source, NEW kind, NEW id PROVE Follows(t, Settle(t, source, kind, id, FALSE))
  <2> DEFINE x == RemoveFirst(t.expectations, [source |-> source, kind |-> kind, id |-> id])
             u == [t EXCEPT !.expectations = x]
  <2>1. Settle(t, source, kind, id, FALSE) = u
    BY DEF Settle
  <2>2. x \in Seq(Expectations) /\ Within(x, t.expectations) /\ Unique(x)
    BY <1>1, FirstRemoved DEF Apart
  <2> HIDE DEF x
  <2>3. u \in Trackers /\ u.entries = t.entries /\ u.expectations = x /\ u.nextId = t.nextId
    BY <2>2 DEF Trackers
  <2> HIDE DEF u
  <2>4. Apart(u)
    BY <2>2, <2>3 DEF Apart, Disjoint, Under, Within
  <2>5. \A i, y : Names(u, i, y) => Names(t, i, y)
    BY <2>2, <2>3 DEF Names, Expects, Within
  <2> QED BY <1>1, <2>1, <2>3, <2>4, <2>5 DEF Follows
<1>3. ASSUME NEW u \in Trackers, u.entries = t.entries, u.expectations = t.expectations, u.nextId = t.nextId
      PROVE  Follows(t, u)
  BY <1>1, <1>3 DEF Follows, Apart, Names
<1>4. Follows(t, Suspend(t)) /\ Follows(t, Resume(t)) /\ Follows(t, t)
  <2>1. Suspend(t) \in Trackers /\ Resume(t) \in Trackers
    BY DEF Suspend, Resume, Trackers
  <2>2. /\ Suspend(t).entries = t.entries /\ Suspend(t).expectations = t.expectations
        /\ Suspend(t).nextId = t.nextId
        /\ Resume(t).entries = t.entries /\ Resume(t).expectations = t.expectations
        /\ Resume(t).nextId = t.nextId
    BY DEF Suspend, Resume, Trackers
  <2> QED BY <1>3, <2>1, <2>2
<1>5. Follows(t, Reset(t))
  <2>1. /\ Reset(t) \in Trackers /\ Reset(t).entries = <<>> /\ Reset(t).expectations = <<>>
        /\ Reset(t).nextId = t.nextId
    <3>1. <<>> \in Seq(Entries) /\ <<>> \in Seq(Expectations)
      OBVIOUS
    <3> QED BY <3>1 DEF Reset, Trackers
  <2>2. DOMAIN Reset(t).entries = {} /\ DOMAIN Reset(t).expectations = {}
    BY <2>1
  <2>3. Apart(Reset(t))
    BY <2>2 DEF Apart, Unique, Disjoint, Under
  <2>4. \A id, x : ~Names(Reset(t), id, x)
    BY <2>2 DEF Names, Entered, Expects
  <2> QED BY <1>1, <2>1, <2>3, <2>4 DEF Follows
<1> QED BY <1>2, <1>4, <1>5

\* An expectation more, without an id or with one of no entry and no expectation.
LEMMA ExpectKeeps ==
  ASSUME NEW t \in Trackers, Apart(t), NEW source \in SourceSet, NEW kind \in Kinds, NEW id \in Nat,
         id < t.nextId,
         id # 0 => /\ \A k \in DOMAIN t.entries : t.entries[k].id # id
                   /\ \A k \in DOMAIN t.expectations : t.expectations[k].id # id
  PROVE  LET u == Expect(t, source, kind, id) IN
         /\ u \in Trackers /\ Apart(u) /\ u.nextId = t.nextId
         /\ \A i, x : i # 0 /\ Names(u, i, x) => Names(t, i, x) \/ (i = id /\ x = source.from)
<1> DEFINE e == [source |-> source, kind |-> kind, id |-> id]
           x == Append(t.expectations, e)
           u == [t EXCEPT !.expectations = x]
<1>1. Expect(t, source, kind, id) = u
  BY DEF Expect
<1>2. e \in Expectations /\ e.id = id /\ e.source = source
  BY DEF Expectations
<1>3. t.expectations \in Seq(Expectations) /\ t.entries \in Seq(Entries) /\ t.nextId \in Nat
  BY DEF Trackers
<1> HIDE DEF e
<1>4. /\ x \in Seq(Expectations) /\ Len(t.expectations) \in Nat
      /\ DOMAIN x = 1..(Len(t.expectations) + 1) /\ DOMAIN t.expectations = 1..Len(t.expectations)
      /\ x[Len(t.expectations) + 1] = e /\ \A k \in DOMAIN t.expectations : x[k] = t.expectations[k]
  BY <1>2, <1>3
<1> HIDE DEF x
<1>5. \A k \in DOMAIN x : k \in DOMAIN t.expectations \/ k = Len(t.expectations) + 1
  BY <1>4
<1>6. Unique(x)
  BY <1>2, <1>4, <1>5 DEF Apart, Unique
<1>7. \A k \in DOMAIN t.entries : t.entries[k].id # 0
  BY <1>3, EntryIds
<1>8. Disjoint(t.entries, x) /\ Under(x, t.nextId)
  BY <1>2, <1>4, <1>5, <1>7 DEF Apart, Disjoint, Under
<1>9. u \in Trackers /\ u.entries = t.entries /\ u.expectations = x /\ u.nextId = t.nextId
  BY <1>4 DEF Trackers
<1> HIDE DEF u
<1>10. \A i, y : i # 0 /\ Names(u, i, y) => Names(t, i, y) \/ (i = id /\ y = source.from)
  BY <1>2, <1>4, <1>5, <1>9 DEF Names, Expects
<1> QED BY <1>1, <1>6, <1>8, <1>9, <1>10 DEF Apart

-----------------------------------------------------------------------------
(* What is sent and read                                                   *)

\* The source of an entry, and of what a client says, can be sent to pi, and named by it.
LEMMA SourceTyped ==
  /\ \A e \in Entries : SourceOf(e) \in SourceSet
  /\ \A o \in Texters : Source(o) \in SourceSet /\ Source(o).from = o
  /\ \A s \in SourceSet : Item(s) \in Items
<1>1. ASSUME NEW e \in Entries PROVE SourceOf(e) \in SourceSet
  <2>1. CASE e.source = NoSource
    <3>1. PICK x \in DOMAIN PiText : e.piText = PiText[x]
      BY DEF Entries
    <3>2. e.piText \in DOMAIN PiText
      BY <3>1, PromptQueueAssumption DEF PromptQueueAssumption
    <3>3. SourceOf(e) = [text |-> e.piText, from |-> NoSource]
      BY <2>1 DEF SourceOf
    <3> QED BY <3>2, <3>3 DEF SourceSet, Froms
  <2>2. CASE e.source # NoSource
    <3>1. e.source \in SourceSet \cup {NoSource}
      BY DEF Entries
    <3> QED BY <2>2, <3>1 DEF SourceOf
  <2> QED BY <2>1, <2>2
<1>2. ASSUME NEW o \in Texters PROVE Source(o) \in SourceSet /\ Source(o).from = o
  <2>1. Says[o] \in DOMAIN PiText
    BY PromptQueueAssumption DEF PromptQueueAssumption
  <2> QED BY <2>1 DEF Source, SourceSet, Froms
<1>3. ASSUME NEW s \in SourceSet PROVE Item(s) \in Items
  <2>1. s.text \in DOMAIN PiText /\ s.from \in Froms
    BY DEF SourceSet
  <2> QED BY <2>1 DEF Item, Items
<1> QED BY <1>1, <1>2, <1>3

\* pi's report is two lists of its strings.
LEMMA ListsTyped ==
  ASSUME NEW q, q.steer \in Seq(Items), q.followUp \in Seq(Items)
  PROVE  Lists(q) \in [steer : Seq(PiTexts), followUp : Seq(PiTexts)]
<1>1. ASSUME NEW s \in Seq(Items) PROVE Texts(s) \in Seq(PiTexts)
  <2>1. ASSUME NEW i \in DOMAIN s PROVE s[i].text \in PiTexts
    <3>1. s[i] \in Items
      OBVIOUS
    <3> QED BY <3>1 DEF Items, PiTexts
  <2>2. Len(s) \in Nat /\ DOMAIN s = 1..Len(s)
    OBVIOUS
  <2> QED BY <2>1, <2>2 DEF Texts
<1> QED BY <1>1 DEF Lists

\* What an operation prompts with.
LEMMA SendingTyped ==
  ASSUME Typed, NEW o \in Ops, Handed(o), at[o] = "called"
  PROVE  Sending(o) \in SourceSet
<1>1. CASE Does[o] = "prompt"
  <2>1. o \in Texters
    BY <1>1 DEF Texters
  <2> QED BY <1>1, <2>1, SourceTyped DEF Sending
<1>2. CASE Does[o] # "prompt"
  <2>1. op[o].first \in Seq(Entries) /\ op[o].first # <<>>
    BY <1>2 DEF Handed, Typed, Hands
  <2>2. Head(op[o].first) \in Entries
    BY <2>1
  <2> QED BY <1>2, <2>2, SourceTyped DEF Sending
<1> QED BY <1>1, <1>2

-----------------------------------------------------------------------------
(* The lock                                                                *)

\* An operation is where it waits for the lock or has it.
Locked == Past \cup {"lock", "late"}

\* An operation comes to wait.
LEMMA LockJoined ==
  ASSUME Typed, Locking, NEW o \in Ops, at[o] = "unsent", WaitForLock(o)
  PROVE  Locking'
<1>1. /\ lock \in Seq(Ops) /\ lock' = Append(lock, o) /\ Len(lock) \in Nat
      /\ DOMAIN lock = 1..Len(lock) /\ DOMAIN lock' = 1..(Len(lock) + 1)
      /\ lock'[Len(lock) + 1] = o /\ \A i \in DOMAIN lock : lock'[i] = lock[i]
  BY DEF Typed, WaitForLock
<1>2. \A i \in DOMAIN lock' : i \in DOMAIN lock \/ i = Len(lock) + 1
  BY <1>1
<1>3. at \in [Ops -> Places] /\ at' = [at EXCEPT ![o] = "lock"]
  BY DEF Typed, WaitForLock
<1>4. \A i \in DOMAIN lock : lock[i] # o /\ lock[i] \in Ops
  BY <1>1 DEF Locking, Past
<1>5. \A i, j \in DOMAIN lock' : lock'[i] = lock'[j] => i = j
  BY <1>1, <1>2, <1>4 DEF Locking
<1>6. \A i \in DOMAIN lock' : at'[lock'[i]] \in Locked
  <2>1. \A i \in DOMAIN lock : at'[lock[i]] = at[lock[i]]
    BY <1>3, <1>4
  <2>2. at'[o] = "lock"
    BY <1>3
  <2> QED BY <1>1, <1>2, <2>1, <2>2 DEF Locking, Locked
<1>7. ASSUME NEW p \in Ops, at'[p] \in Past PROVE Holds(p)'
  <2>1. at[p] \in Past
    BY <1>3, <1>7 DEF Past
  <2>2. lock # <<>> /\ Head(lock) = p
    BY <2>1 DEF Locking, Holds
  <2>3. 1 \in DOMAIN lock /\ lock[1] = p /\ lock' # <<>> /\ Head(lock') = lock'[1]
    BY <1>1, <2>2
  <2> QED BY <1>1, <2>3 DEF Holds
<1> QED BY <1>5, <1>6, <1>7 DEF Locking, Locked

\* Its holder leaves it.
LEMMA LockLeft ==
  ASSUME Typed, Locking, NEW o \in Ops, Holds(o), lock' = Tail(lock), at' = [at EXCEPT ![o] = "done"]
  PROVE  Locking'
<1>1. /\ lock \in Seq(Ops) /\ lock # <<>> /\ lock[1] = o /\ Len(lock) \in Nat /\ DOMAIN lock = 1..Len(lock)
      /\ lock' \in Seq(Ops) /\ DOMAIN lock' = 1..(Len(lock) - 1)
      /\ \A i \in DOMAIN lock' : lock'[i] = lock[i + 1] /\ i + 1 \in DOMAIN lock
  BY DEF Typed, Holds
<1>2. at \in [Ops -> Places]
  BY DEF Typed
<1>3. \A i \in DOMAIN lock' : lock'[i] # o /\ lock'[i] \in Ops
  <2>1. ASSUME NEW i \in DOMAIN lock' PROVE lock[i + 1] # o
    <3>1. i + 1 \in DOMAIN lock /\ 1 \in DOMAIN lock /\ i + 1 # 1
      BY <1>1
    <3> QED BY <1>1, <3>1 DEF Locking
  <2> QED BY <1>1, <2>1
<1>4. \A i, j \in DOMAIN lock' : lock'[i] = lock'[j] => i = j
  <2>1. \A i, j \in DOMAIN lock' : i + 1 = j + 1 => i = j
    BY <1>1
  <2> QED BY <1>1, <2>1 DEF Locking
<1>5. \A i \in DOMAIN lock' : at'[lock'[i]] \in Locked
  BY <1>1, <1>2, <1>3 DEF Locking, Locked
<1>6. \A p \in Ops : at'[p] \notin Past
  <2>1. \A p \in Ops : at[p] \in Past => p = o
    BY DEF Locking, Holds
  <2> QED BY <1>2, <2>1 DEF Past
<1> QED BY <1>4, <1>5, <1>6 DEF Locking, Locked

\* It is left as it is: who is past it and stays so, and who has nothing to do with it.
LEMMA LockStays ==
  ASSUME Typed, Locking, NEW o \in Ops, NEW w, lock' = lock, at' = [at EXCEPT ![o] = w],
         at[o] \in Locked => w \in Locked, w \in Past => Holds(o)
  PROVE  Locking'
<1>1. at \in [Ops -> Places] /\ lock \in Seq(Ops)
  BY DEF Typed
<1>2. \A i \in DOMAIN lock : lock[i] \in Ops
  BY <1>1
<1>3. \A i \in DOMAIN lock : at'[lock[i]] \in Locked
  BY <1>1, <1>2 DEF Locking, Locked
<1>4. \A p \in Ops : at'[p] \in Past => Holds(p)
  BY <1>1 DEF Locking
<1> QED BY <1>3, <1>4 DEF Locking, Locked, Holds

\* A stop aborts, and lets a prompt that was held back go.
LEMMA LockAborted ==
  ASSUME Typed, Locking, NEW o \in Ops, NEW where, AbortNow(o, where),
         \/ where = "done" /\ at[o] = "unsent"
         \/ where = "late" /\ at[o] = "lock"
         \/ where = "done" /\ at[o] = "lock" /\ Holds(o)
  PROVE  Locking'
<1> DEFINE over == Waiting \cup (IF where = "done" THEN {o} ELSE {})
<1>1. /\ at' = [x \in Ops |-> IF x \in over THEN "done" ELSE IF x = o THEN where ELSE at[x]]
      /\ lock' = IF lock # <<>> /\ Head(lock) \in over THEN Tail(lock) ELSE lock
  BY DEF AbortNow
<1>2. \A w \in Waiting : w \in Ops /\ at[w] = "called" /\ Holds(w)
  BY DEF Waiting, Locking, Past
<1>3. lock \in Seq(Ops) /\ at \in [Ops -> Places]
  BY DEF Typed
<1>4. \A i \in DOMAIN lock : lock[i] \in over => lock # <<>> /\ lock[i] = Head(lock)
  <2>1. ASSUME NEW i \in DOMAIN lock, lock[i] = o, where = "done" PROVE Holds(o)
    BY <2>1 DEF Locking, Past
  <2> QED BY <1>2, <2>1 DEF Holds
<1>5. \A p \in over : at'[p] = "done"
  BY <1>1, <1>2
<1>6. \A p \in Ops \ over : at'[p] = IF p = o THEN where ELSE at[p]
  BY <1>1
<1>7. \A p \in Ops : at'[p] \in Past => Holds(p) /\ p \notin over
  <2>1. \A p \in Ops : at'[p] \in Past => at[p] \in Past /\ p \notin over
    BY <1>5, <1>6 DEF Past
  <2> QED BY <2>1 DEF Locking
<1>8. ASSUME NEW y \in Ops \ over, at[y] \in Locked PROVE at'[y] \in Locked
  BY <1>6, <1>8 DEF Locked, Past
<1> HIDE DEF over
<1>9. CASE lock # <<>> /\ Head(lock) \in over
  <2>1. lock' = Tail(lock)
    BY <1>1, <1>9
  <2>2. /\ Len(lock) \in Nat /\ DOMAIN lock = 1..Len(lock) /\ lock[1] = Head(lock) /\ 1 \in DOMAIN lock
        /\ DOMAIN lock' = 1..(Len(lock) - 1)
        /\ \A i \in DOMAIN lock' : lock'[i] = lock[i + 1] /\ i + 1 \in DOMAIN lock /\ i + 1 # 1
    BY <1>3, <1>9, <2>1
  <2>3. \A i, j \in DOMAIN lock' : lock'[i] = lock'[j] => i = j
    <3>1. \A i, j \in DOMAIN lock' : i + 1 = j + 1 => i = j
      BY <2>2
    <3> QED BY <2>2, <3>1 DEF Locking
  <2>4. ASSUME NEW i \in DOMAIN lock' PROVE at'[lock'[i]] \in Locked
    <3>1. lock'[i] = lock[i + 1] /\ i + 1 \in DOMAIN lock /\ lock[i + 1] # lock[1] /\ lock[i + 1] \in Ops
      BY <1>3, <2>2 DEF Locking
    <3>2. lock[i + 1] \notin over
      BY <1>4, <2>2, <3>1
    <3>3. at[lock[i + 1]] \in Locked
      BY <3>1 DEF Locking, Locked
    <3> QED BY <1>8, <3>1, <3>2, <3>3
  <2>5. \A p \in Ops : at'[p] \notin Past
    BY <1>7, <1>9 DEF Holds
  <2> QED BY <2>3, <2>4, <2>5 DEF Locking, Locked
<1>10. CASE ~(lock # <<>> /\ Head(lock) \in over)
  <2>1. lock' = lock
    BY <1>1, <1>10
  <2>2. ASSUME NEW i \in DOMAIN lock PROVE at'[lock[i]] \in Locked
    <3>1. lock[i] \in Ops \ over
      BY <1>3, <1>4, <1>10
    <3>2. at[lock[i]] \in Locked
      BY DEF Locking, Locked
    <3> QED BY <1>8, <3>1, <3>2
  <2> QED BY <1>7, <2>1, <2>2 DEF Locking, Locked, Holds
<1> QED BY <1>9, <1>10

-----------------------------------------------------------------------------
(* What most steps leave of the ids                                        *)

\* An entry is in an operation's hands.
Holding(o, e) ==
  \/ \E i \in DOMAIN op[o].first : op[o].first[i] = e
  \/ \E i \in DOMAIN op[o].rest : op[o].rest[i] = e
\* A step puts nothing into an operation's hands, and nothing there twice.
HandsOnly(o) ==
  /\ Unique(op'[o].first) /\ Unique(op'[o].rest) /\ Disjoint(op'[o].first, op'[o].rest)
  /\ \A i \in DOMAIN op'[o].first : Holding(o, op'[o].first[i])
  /\ \A i \in DOMAIN op'[o].rest : Holding(o, op'[o].rest[i])
\* No change is begun by it, and what one names stays.
ChangesStay(o) == Changing(o)' => Changing(o) /\ op'[o].target = op[o].target /\ op'[o].saw = op[o].saw

\* What an id means stays, but for what is edited: so a change's id means what its user saw.
LEMMA SeenKept ==
  ASSUME Typed, Typed', \A p \in Ops : Seen(p), tracker.nextId <= tracker'.nextId,
         \A id, x : id # 0 /\ id < tracker.nextId /\ Means(id, x)' => Means(id, x) \/ Does[x] = "edit",
         NEW p \in Ops, ChangesStay(p)
  PROVE  Seen(p)'
<1> SUFFICES ASSUME Changing(p)'
             PROVE  /\ op'[p].target # 0 /\ op'[p].target < tracker'.nextId
                    /\ \A x : Means(op[p].target, x)' => Same(p, x)'
  BY DEF Seen
<1>1. tracker.nextId \in Nat /\ tracker'.nextId \in Nat
  BY DEF Typed, Trackers
<1>2. Changing(p) /\ op'[p].target = op[p].target /\ op'[p].saw = op[p].saw
  BY DEF ChangesStay
<1>3. op[p].target # 0 /\ op[p].target < tracker.nextId /\ op[p].target \in Nat
  BY <1>2 DEF Seen, Typed, Hands
<1>4. \A x : Means(op[p].target, x) => Same(p, x)
  BY <1>2 DEF Seen
<1>5. \A x : Same(p, x)' <=> Same(p, x)
  BY <1>2 DEF Same
<1>0. PICK n : n = op[p].target
  OBVIOUS
<1>6. \A x : Means(op[p].target, x)' => Means(n, x)'
  BY <1>0, <1>2 DEF Means, Carries
<1>7. ASSUME NEW x, Means(op[p].target, x)' PROVE Same(p, x)'
  <2>1. Means(n, x)'
    BY <1>6, <1>7
  <2>2. Means(n, x) \/ Does[x] = "edit"
    BY <1>0, <1>3, <2>1
  <2>3. Same(p, x)
    BY <1>0, <1>4, <2>2 DEF Same
  <2> QED BY <1>5, <2>3
<1> QED BY <1>1, <1>2, <1>3, <1>7

\* Such a step keeps the ids apart, and what a change's id means.
LEMMA IdsKept ==
  ASSUME Typed, Typed', Apart(tracker), \A p \in Ops : Separate(p) /\ Seen(p),
         Follows(tracker, tracker'), \A p \in Ops : HandsOnly(p)
  PROVE  Apart(tracker)' /\ \A p \in Ops : Separate(p)' /\ (ChangesStay(p) => Seen(p)')
<1>1. Apart(tracker)'
  BY DEF Follows
<1>2. tracker.nextId \in Nat /\ tracker'.nextId \in Nat /\ tracker.nextId <= tracker'.nextId
  BY DEF Typed, Trackers, Follows
<1>3. \A p \in Ops : op[p].first \in Seq(Entries) /\ op[p].rest \in Seq(Entries)
  BY DEF Typed, Hands
<1>4. ASSUME NEW p \in Ops, NEW e, Holding(p, e)
      PROVE  /\ e.id \in Nat /\ e.id # 0 /\ e.id < tracker.nextId
             /\ \A x : ~Names(tracker, e.id, x)
  <2>1. e.id \in Nat /\ e.id # 0 /\ e.id < tracker.nextId
    BY <1>2, <1>3, <1>4, EntryIds DEF Holding, Separate
  <2>2. \A x : ~Names(tracker, e.id, x)
    BY <1>4 DEF Holding, Separate, Names, Entered, Expects, Disjoint
  <2> QED BY <2>1, <2>2
<1>5. ASSUME NEW p \in Ops, NEW e, Holding(p, e)
      PROVE  /\ e.id < tracker'.nextId
             /\ \A i \in DOMAIN tracker'.entries : tracker'.entries[i].id # e.id
             /\ \A i \in DOMAIN tracker'.expectations : tracker'.expectations[i].id # e.id
  <2>1. \A x : ~Names(tracker', e.id, x)
    BY <1>4, <1>5 DEF Follows
  <2>2. e.id < tracker'.nextId
    BY <1>2, <1>4, <1>5
  <2> QED BY <2>1, <2>2 DEF Names, Entered, Expects
<1>6. ASSUME NEW p \in Ops PROVE Separate(p)'
  <2>1. \A i \in DOMAIN op'[p].first : Holding(p, op'[p].first[i])
    BY DEF HandsOnly
  <2>2. \A i \in DOMAIN op'[p].rest : Holding(p, op'[p].rest[i])
    BY DEF HandsOnly
  <2>3. Unique(op'[p].first) /\ Unique(op'[p].rest) /\ Disjoint(op'[p].first, op'[p].rest)
    BY DEF HandsOnly
  <2>4. Under(op'[p].first, tracker'.nextId) /\ Under(op'[p].rest, tracker'.nextId)
    BY <1>5, <2>1, <2>2 DEF Under
  <2>5. Disjoint(op'[p].first, tracker'.entries) /\ Disjoint(op'[p].first, tracker'.expectations)
    BY <1>5, <2>1 DEF Disjoint
  <2>6. Disjoint(op'[p].rest, tracker'.entries) /\ Disjoint(op'[p].rest, tracker'.expectations)
    BY <1>5, <2>2 DEF Disjoint
  <2> QED BY <2>3, <2>4, <2>5, <2>6 DEF Separate
<1>7. ASSUME NEW q \in Ops, NEW id, NEW x, Carries(q, id, x)' PROVE Carries(q, id, x)
  <2>1. ASSUME NEW s, NEW i \in DOMAIN s, s[i].id = id /\ SourceOf(s[i]).from = x, Holding(q, s[i])
        PROVE  Carries(q, id, x)
    BY <2>1 DEF Holding, Carries, Entered
  <2>2. Entered(op'[q].first, id, x) \/ Entered(op'[q].rest, id, x)
    BY <1>7 DEF Carries
  <2>3. CASE Entered(op'[q].first, id, x)
    <3>1. PICK i \in DOMAIN op'[q].first : op'[q].first[i].id = id /\ SourceOf(op'[q].first[i]).from = x
      BY <2>3 DEF Entered
    <3>2. Holding(q, op'[q].first[i])
      BY DEF HandsOnly
    <3> QED BY <2>1, <3>1, <3>2
  <2>4. CASE Entered(op'[q].rest, id, x)
    <3>1. PICK i \in DOMAIN op'[q].rest : op'[q].rest[i].id = id /\ SourceOf(op'[q].rest[i]).from = x
      BY <2>4 DEF Entered
    <3>2. Holding(q, op'[q].rest[i])
      BY DEF HandsOnly
    <3> QED BY <2>1, <3>1, <3>2
  <2> QED BY <2>2, <2>3, <2>4
<1>8. ASSUME NEW id, NEW x, id # 0, id < tracker.nextId, Means(id, x)' PROVE Means(id, x)
  <2>1. Names(tracker', id, x) => Names(tracker, id, x)
    BY <1>8 DEF Follows
  <2> QED BY <1>7, <1>8, <2>1 DEF Means
<1>9. ASSUME NEW p \in Ops, ChangesStay(p) PROVE Seen(p)'
  BY <1>2, <1>8, <1>9, SeenKept
<1> QED BY <1>1, <1>6, <1>9

\* A step that puts nothing into anyone's hands, and takes from them all or nothing.
LEMMA Quiet ==
  ASSUME Inv, Typed', Locking', Follows(tracker, tracker'),
         \A p \in Ops : /\ op'[p].first \in {op[p].first, <<>>} /\ op'[p].rest \in {op[p].rest, <<>>}
                        /\ ChangesStay(p) /\ Handed(p)'
  PROVE  Inv'
<1>1. ASSUME NEW p \in Ops PROVE HandsOnly(p)
  <2>1. Unique(op[p].first) /\ Unique(op[p].rest) /\ Disjoint(op[p].first, op[p].rest)
    BY DEF Inv, Separate
  <2>2. Unique(<<>>) /\ Disjoint(<<>>, op[p].rest) /\ Disjoint(op[p].first, <<>>) /\ Disjoint(<<>>, <<>>)
    BY DEF Unique, Disjoint
  <2>3. Unique(op'[p].first) /\ Unique(op'[p].rest) /\ Disjoint(op'[p].first, op'[p].rest)
    BY <2>1, <2>2
  <2>4. \A i \in DOMAIN op'[p].first : Holding(p, op'[p].first[i])
    <3>1. CASE op'[p].first = op[p].first
      BY <3>1 DEF Holding
    <3>2. CASE op'[p].first = <<>>
      BY <3>2
    <3> QED BY <3>1, <3>2
  <2>5. \A i \in DOMAIN op'[p].rest : Holding(p, op'[p].rest[i])
    <3>1. CASE op'[p].rest = op[p].rest
      BY <3>1 DEF Holding
    <3>2. CASE op'[p].rest = <<>>
      BY <3>2
    <3> QED BY <3>1, <3>2
  <2> QED BY <2>3, <2>4, <2>5 DEF HandsOnly
<1>2. Apart(tracker)' /\ \A p \in Ops : Separate(p)' /\ Seen(p)'
  BY <1>1, IdsKept DEF Inv
<1> QED BY <1>2 DEF Inv

-----------------------------------------------------------------------------
(* The steps                                                               *)

\* An operation with nothing in its hands.
LEMMA IdleTyped == Idle \in Hands /\ Idle.first = <<>> /\ Idle.rest = <<>>
<1>1. <<>> \in Seq(Items) /\ <<>> \in Seq(Entries) /\ NoSource \in Froms /\ 0 \in Nat /\ {} \in SUBSET Froms
  BY DEF Froms
<1> QED BY <1>1 DEF Idle, Hands, Queues

\* What an operation holds is replaced.
LEMMA OpSet ==
  ASSUME Typed, NEW o \in Ops, NEW h \in Hands, op' = [op EXCEPT ![o] = h]
  PROVE  op' \in [Ops -> Hands] /\ op'[o] = h /\ \A p \in Ops \ {o} : op'[p] = op[p]
BY DEF Typed

\* It moves on.
LEMMA AtSet ==
  ASSUME Typed, NEW o \in Ops, NEW w \in Places, at' = [at EXCEPT ![o] = w]
  PROVE  at' \in [Ops -> Places] /\ at'[o] = w /\ \A p \in Ops \ {o} : at'[p] = at[p]
BY DEF Typed

\* It ends, and with it what it had in its hands.
LEMMA Finished ==
  ASSUME Inv, NEW o \in Ops, Holds(o), Finish(o)
  PROVE  /\ Locking' /\ at' \in [Ops -> Places] /\ op' \in [Ops -> Hands] /\ lock' \in Seq(Ops)
         /\ \A p \in Ops : /\ op'[p].first \in {op[p].first, <<>>} /\ op'[p].rest \in {op[p].rest, <<>>}
                           /\ ChangesStay(p) /\ Handed(p)'
<1>1. /\ at' = [at EXCEPT ![o] = "done"] /\ op' = [op EXCEPT ![o] = Idle] /\ lock' = Tail(lock)
      /\ lock \in Seq(Ops) /\ lock # <<>>
  BY DEF Finish, Inv, Typed, Holds
<1>2. at' \in [Ops -> Places] /\ at'[o] = "done" /\ \A p \in Ops \ {o} : at'[p] = at[p]
  BY <1>1, AtSet DEF Inv, Places
<1>3. op' \in [Ops -> Hands] /\ op'[o] = Idle /\ \A p \in Ops \ {o} : op'[p] = op[p]
  BY <1>1, OpSet, IdleTyped DEF Inv
<1>4. ASSUME NEW p \in Ops
      PROVE  /\ op'[p].first \in {op[p].first, <<>>} /\ op'[p].rest \in {op[p].rest, <<>>}
             /\ ChangesStay(p) /\ Handed(p)'
  <2>1. CASE p = o
    BY <1>2, <1>3, <2>1, IdleTyped DEF ChangesStay, Changing, Handed
  <2>2. CASE p # o
    BY <1>2, <1>3, <2>2 DEF ChangesStay, Changing, Handed, Inv
  <2> QED BY <2>1, <2>2
<1>5. Locking'
  BY <1>1, LockLeft DEF Inv
<1>6. lock' \in Seq(Ops)
  BY <1>1
<1> QED BY <1>2, <1>3, <1>4, <1>5, <1>6

\* A prompt arrives.
LEMMA PromptArrivesKeeps == ASSUME Inv, NEW o \in Ops, PromptArrives(o) PROVE Inv'
<1>1. /\ at[o] = "unsent" /\ Does[o] = "prompt" /\ tracker' = tracker /\ op' = op /\ replacing' = replacing
      /\ pi' = pi /\ foreign' = foreign /\ received' = received
  BY DEF PromptArrives
<1>2. \/ Goto(o, "done") /\ lock' = lock
      \/ WaitForLock(o)
  BY DEF PromptArrives
<1>3. /\ Locking' /\ lock' \in Seq(Ops) /\ at' \in [Ops -> Places]
      /\ at'[o] \in {"done", "lock"} /\ \A p \in Ops \ {o} : at'[p] = at[p]
  <2>1. CASE Goto(o, "done") /\ lock' = lock
    <3>1. Locking'
      BY <1>1, <2>1, LockStays DEF Inv, Goto, Locked, Past
    <3>2. at' \in [Ops -> Places] /\ at'[o] = "done" /\ \A p \in Ops \ {o} : at'[p] = at[p]
      BY <2>1, AtSet DEF Inv, Goto, Places
    <3> QED BY <2>1, <3>1, <3>2 DEF Inv, Typed
  <2>2. CASE WaitForLock(o)
    <3>1. Locking'
      BY <1>1, <2>2, LockJoined DEF Inv
    <3>2. at' \in [Ops -> Places] /\ at'[o] = "lock" /\ \A p \in Ops \ {o} : at'[p] = at[p]
      BY <2>2, AtSet DEF Inv, WaitForLock, Places
    <3>3. lock' \in Seq(Ops)
      BY <2>2 DEF WaitForLock, Inv, Typed
    <3> QED BY <3>1, <3>2, <3>3
  <2> QED BY <1>2, <2>1, <2>2
<1>4. Typed'
  BY <1>1, <1>3 DEF Inv, Typed
<1>5. ASSUME NEW p \in Ops
      PROVE  /\ op'[p].first \in {op[p].first, <<>>} /\ op'[p].rest \in {op[p].rest, <<>>}
             /\ ChangesStay(p) /\ Handed(p)'
  <2>1. CASE p = o
    BY <1>1, <1>3, <2>1 DEF ChangesStay, Changing, Handed, Handing, Inv
  <2>2. CASE p # o
    BY <1>1, <1>3, <2>2 DEF ChangesStay, Changing, Handed, Inv
  <2> QED BY <2>1, <2>2
<1>6. Follows(tracker, tracker')
  BY <1>1, ForgetsFollow DEF Inv, Typed
<1> QED BY <1>3, <1>4, <1>5, <1>6, Quiet

\* It moves on, past the lock or not, with what it held or nothing.
LEMMA Moved ==
  ASSUME Inv, NEW o \in Ops, NEW w \in Places, NEW h \in Hands,
         lock' = lock, at' = [at EXCEPT ![o] = w], op' = [op EXCEPT ![o] = h],
         at[o] \in Locked => w \in Locked, w \in Past => Holds(o), w # "queueing",
         h.first \in {op[o].first, <<>>}, h.rest \in {op[o].rest, <<>>},
         w \notin Handing => h.first = <<>> /\ h.rest = <<>>,
         w = "called" => h.rest = <<>> /\ (Does[o] = "prompt" \/ h.first # <<>>),
         w \in {"lock", "prepared", "taking"} /\ Does[o] \in {"edit", "remove"} =>
           Changing(o) /\ h.target = op[o].target /\ h.saw = op[o].saw
  PROVE  /\ Locking' /\ at' \in [Ops -> Places] /\ op' \in [Ops -> Hands]
         /\ \A p \in Ops : /\ op'[p].first \in {op[p].first, <<>>} /\ op'[p].rest \in {op[p].rest, <<>>}
                           /\ ChangesStay(p) /\ Handed(p)'
<1>1. at' \in [Ops -> Places] /\ at'[o] = w /\ \A p \in Ops \ {o} : at'[p] = at[p]
  BY AtSet DEF Inv
<1>2. op' \in [Ops -> Hands] /\ op'[o] = h /\ \A p \in Ops \ {o} : op'[p] = op[p]
  BY OpSet DEF Inv
<1>3. Locking'
  BY LockStays DEF Inv
<1>4. ASSUME NEW p \in Ops
      PROVE  /\ op'[p].first \in {op[p].first, <<>>} /\ op'[p].rest \in {op[p].rest, <<>>}
             /\ ChangesStay(p) /\ Handed(p)'
  <2>1. CASE p = o
    <3>1. Handed(o)'
      BY <1>1, <1>2 DEF Handed
    <3>2. ChangesStay(o)
      BY <1>1, <1>2 DEF ChangesStay, Changing
    <3> QED BY <1>2, <2>1, <3>1, <3>2
  <2>2. CASE p # o
    BY <1>1, <1>2, <2>2 DEF ChangesStay, Changing, Handed, Inv
  <2> QED BY <2>1, <2>2
<1> QED BY <1>1, <1>2, <1>3, <1>4

\* No operation does anything.
LEMMA AllStay ==
  ASSUME Inv, lock' = lock, at' = at, op' = op
  PROVE  /\ Locking'
         /\ \A p \in Ops : /\ op'[p].first \in {op[p].first, <<>>} /\ op'[p].rest \in {op[p].rest, <<>>}
                           /\ ChangesStay(p) /\ Handed(p)'
<1>1. Locking'
  BY DEF Inv, Locking, Holds
<1>2. ASSUME NEW p \in Ops PROVE ChangesStay(p) /\ Handed(p)'
  BY DEF ChangesStay, Changing, Handed, Inv
<1> QED BY <1>1, <1>2

\* A report is heard.
LEMMA Heard ==
  ASSUME NEW t \in Trackers, Apart(t), NEW q, q.steer \in Seq(Items), q.followUp \in Seq(Items), Hear(t, q)
  PROVE  Follows(t, tracker')
<1>1. tracker' = Update(t, Lists(q)).tracker
  BY DEF Hear
<1> QED BY <1>1, ListsTyped, UpdateFollows

\* One of pi's queues changes.
LEMMA Queued ==
  ASSUME pi \in Agents, NEW k \in Kinds, NEW s \in Seq(Items), pi' = [pi EXCEPT ![k] = s]
  PROVE  /\ pi' \in Agents /\ pi'.steer \in Seq(Items) /\ pi'.followUp \in Seq(Items)
         /\ pi'.aborting = pi.aborting /\ pi'.streaming = pi.streaming
<1>1. CASE k = "steer"
  BY <1>1 DEF Agents
<1>2. CASE k = "followUp"
  BY <1>2 DEF Agents
<1> QED BY <1>1, <1>2 DEF Kinds

\* A prompt's text is ready: it is expected, and called.
LEMMA PromptSentKeeps == ASSUME Inv, NEW o \in Ops, PromptSent(o) PROVE Inv'
<1> DEFINE h == [op[o] EXCEPT !.to = IF pi.bound THEN pi.session ELSE 0]
<1>1. /\ Holds(o) /\ at[o] = "lock" /\ Does[o] = "prompt"
      /\ tracker' = Expect(tracker, Source(o), "steer", 0)
      /\ at' = [at EXCEPT ![o] = "called"] /\ op' = [op EXCEPT ![o] = h]
      /\ lock' = lock /\ replacing' = replacing /\ pi' = pi /\ foreign' = foreign /\ received' = received
  BY DEF PromptSent, Granted, Call, Goto
<1>2. op[o] \in Hands /\ pi.session \in Nat /\ op[o].first = <<>> /\ op[o].rest = <<>>
  BY <1>1 DEF Inv, Typed, Agents, Handed, Handing
<1>3. h \in Hands /\ h.first = op[o].first /\ h.rest = op[o].rest
  BY <1>2 DEF Hands
<1> HIDE DEF h
<1>4. /\ Locking' /\ at' \in [Ops -> Places] /\ op' \in [Ops -> Hands]
      /\ \A p \in Ops : /\ op'[p].first \in {op[p].first, <<>>} /\ op'[p].rest \in {op[p].rest, <<>>}
                        /\ ChangesStay(p) /\ Handed(p)'
  <2>1. "called" \in Places /\ "called" \in Locked /\ "called" \in Handing
    BY DEF Places, Locked, Past, Handing
  <2> QED BY <1>1, <1>2, <1>3, <2>1, Moved
<1>5. Follows(tracker, tracker')
  <2>1. Source(o) \in SourceSet
    BY <1>1, SourceTyped DEF Texters
  <2>2. "steer" \in Kinds /\ 0 \in Nat /\ tracker \in Trackers /\ Apart(tracker)
        /\ tracker.nextId \in Nat /\ 0 < tracker.nextId
    BY DEF Kinds, Inv, Typed, Trackers
  <2>3. /\ tracker' \in Trackers /\ Apart(tracker') /\ tracker'.nextId = tracker.nextId
        /\ \A i, x : i # 0 /\ Names(tracker', i, x) => Names(tracker, i, x) \/ (i = 0 /\ x = Source(o).from)
    BY <1>1, <2>1, <2>2, ExpectKeeps
  <2> QED BY <2>2, <2>3 DEF Follows
<1>6. Typed'
  BY <1>1, <1>4, <1>5 DEF Inv, Typed, Follows
<1> QED BY <1>4, <1>5, <1>6, Quiet

\* pi accepts a prompt.
LEMMA PiPromptsKeeps == ASSUME Inv, NEW o \in Ops, PiPrompts(o) PROVE Inv'
<1>1. /\ at[o] = "called" /\ Finish(o) /\ replacing' = replacing /\ foreign' = foreign
  BY DEF PiPrompts
<1>2. Holds(o) /\ Sending(o) \in SourceSet
  BY <1>1, SendingTyped DEF Inv, Locking, Past
<1>3. /\ Locking' /\ at' \in [Ops -> Places] /\ op' \in [Ops -> Hands] /\ lock' \in Seq(Ops)
      /\ \A p \in Ops : /\ op'[p].first \in {op[p].first, <<>>} /\ op'[p].rest \in {op[p].rest, <<>>}
                        /\ ChangesStay(p) /\ Handed(p)'
  BY <1>1, <1>2, Finished
<1>4. tracker \in Trackers /\ Apart(tracker) /\ pi \in Agents /\ (pi.aborting => pi.streaming)
      /\ received \in Seq([from : Froms, swallowed : BOOLEAN]) /\ replacing \in BOOLEAN /\ foreign \subseteq Foreign
  BY DEF Inv, Typed
<1>5. CASE pi.streaming
  <2>1. /\ pi' = [pi EXCEPT !.steer = Append(@, Item(Sending(o)))] /\ Hear(tracker, pi') /\ received' = received
    BY <1>5 DEF PiPrompts
  <2>2. pi.steer \in Seq(Items) /\ Item(Sending(o)) \in Items
    BY <1>2, <1>4, SourceTyped DEF Agents
  <2>3. Append(pi.steer, Item(Sending(o))) \in Seq(Items) /\ "steer" \in Kinds
    BY <2>2 DEF Kinds
  <2>4. /\ pi' \in Agents /\ pi'.steer \in Seq(Items) /\ pi'.followUp \in Seq(Items)
        /\ pi'.aborting = pi.aborting /\ pi'.streaming = pi.streaming
    BY <1>4, <2>1, <2>3, Queued
  <2>5. Follows(tracker, tracker')
    BY <1>4, <2>1, <2>4, Heard
  <2>6. Typed'
    BY <1>1, <1>3, <1>4, <2>1, <2>4, <2>5 DEF Typed, Follows
  <2> QED BY <1>3, <2>5, <2>6, Quiet
<1>6. CASE ~pi.streaming
  <2>1. /\ pi' = [pi EXCEPT !.streaming = TRUE, !.aborting = FALSE]
        /\ received' = Append(received, [from |-> Sending(o).from, swallowed |-> FALSE])
        /\ tracker' = Settle(tracker, Sending(o), "steer", 0, FALSE)
    BY <1>6 DEF PiPrompts
  <2>2. Follows(tracker, tracker')
    BY <1>4, <2>1, ForgetsFollow
  <2>3. [from |-> Sending(o).from, swallowed |-> FALSE] \in [from : Froms, swallowed : BOOLEAN]
    BY <1>2 DEF SourceSet
  <2>4. received' \in Seq([from : Froms, swallowed : BOOLEAN])
    BY <1>4, <2>1, <2>3
  <2>5. pi' \in Agents /\ ~pi'.aborting
    BY <1>4, <2>1 DEF Agents
  <2>6. Typed'
    BY <1>1, <1>3, <1>4, <2>2, <2>4, <2>5 DEF Typed, Follows
  <2> QED BY <1>3, <2>2, <2>6, Quiet
<1> QED BY <1>5, <1>6

\* It refuses it.
LEMMA PiRefusesKeeps == ASSUME Inv, NEW o \in Ops, PiRefuses(o) PROVE Inv'
<1>1. /\ at[o] = "called" /\ Finish(o) /\ replacing' = replacing /\ foreign' = foreign /\ pi' = pi
      /\ received' = received /\ tracker' = Settle(tracker, Sending(o), "steer", 0, FALSE)
  BY DEF PiRefuses
<1>2. Holds(o)
  BY <1>1 DEF Inv, Locking, Past
<1>3. /\ Locking' /\ at' \in [Ops -> Places] /\ op' \in [Ops -> Hands] /\ lock' \in Seq(Ops)
      /\ \A p \in Ops : /\ op'[p].first \in {op[p].first, <<>>} /\ op'[p].rest \in {op[p].rest, <<>>}
                        /\ ChangesStay(p) /\ Handed(p)'
  BY <1>1, <1>2, Finished
<1>4. Follows(tracker, tracker')
  BY <1>1, ForgetsFollow DEF Inv, Typed
<1>5. Typed'
  BY <1>1, <1>3, <1>4 DEF Inv, Typed, Follows
<1> QED BY <1>3, <1>4, <1>5, Quiet

\* A stop aborts the turn, and lets a prompt that was held back go.
LEMMA AbortNowKeeps ==
  ASSUME Inv, NEW o \in Ops, NEW where, AbortNow(o, where),
         \/ where = "done" /\ at[o] = "unsent"
         \/ where = "late" /\ at[o] = "lock"
         \/ where = "done" /\ at[o] = "lock" /\ Holds(o)
  PROVE  Inv'
<1> DEFINE over == Waiting \cup (IF where = "done" THEN {o} ELSE {})
<1>1. /\ at' = [x \in Ops |-> IF x \in over THEN "done" ELSE IF x = o THEN where ELSE at[x]]
      /\ op' = [x \in Ops |-> IF x \in over \cup {o} THEN Idle ELSE op[x]]
      /\ lock' = IF lock # <<>> /\ Head(lock) \in over THEN Tail(lock) ELSE lock
      /\ pi' = [pi EXCEPT !.aborting = pi.streaming]
      /\ replacing' = replacing /\ foreign' = foreign /\ received' = received
  BY DEF AbortNow
<1>2. Locking'
  BY LockAborted DEF Inv
<1>3. over \subseteq Ops /\ where \in {"done", "late"}
  BY DEF Waiting
<1> HIDE DEF over
<1>4. tracker \in Trackers /\ Apart(tracker) /\ lock \in Seq(Ops) /\ at \in [Ops -> Places] /\ op \in [Ops -> Hands]
      /\ pi \in Agents
  BY DEF Inv, Typed
<1>5. at' \in [Ops -> Places] /\ op' \in [Ops -> Hands]
  <2>1. "done" \in Places /\ "late" \in Places /\ Idle \in Hands
    BY IdleTyped DEF Places
  <2> QED BY <1>1, <1>3, <1>4, <2>1
<1>6. lock' \in Seq(Ops)
  <2>1. CASE lock # <<>> /\ Head(lock) \in over
    BY <1>1, <1>4, <2>1
  <2>2. CASE ~(lock # <<>> /\ Head(lock) \in over)
    BY <1>1, <1>4, <2>2
  <2> QED BY <2>1, <2>2
<1>7. ASSUME NEW p \in Ops
      PROVE  /\ op'[p].first \in {op[p].first, <<>>} /\ op'[p].rest \in {op[p].rest, <<>>}
             /\ ChangesStay(p) /\ Handed(p)'
  <2>1. CASE p \in over \cup {o}
    <3>1. op'[p] = Idle /\ at'[p] \in {"done", "late"}
      BY <1>1, <1>3, <2>1
    <3> QED BY <3>1, IdleTyped DEF ChangesStay, Changing, Handed
  <2>2. CASE p \notin over \cup {o}
    <3>1. op'[p] = op[p] /\ at'[p] = at[p]
      BY <1>1, <2>2
    <3> QED BY <3>1 DEF ChangesStay, Changing, Handed, Inv
  <2> QED BY <2>1, <2>2
<1>8. Follows(tracker, tracker')
  <2>1. CASE Waiting = {}
    BY <1>4, <2>1, ForgetsFollow DEF AbortNow
  <2>2. CASE Waiting # {}
    <3>1. tracker' = Settle(tracker, Sending(CHOOSE w \in Waiting : TRUE), "steer", 0, FALSE)
      BY <2>2 DEF AbortNow
    <3> QED BY <1>4, <3>1, ForgetsFollow
  <2> QED BY <2>1, <2>2
<1>9. pi' \in Agents /\ (pi'.aborting => pi'.streaming)
  BY <1>1, <1>4 DEF Agents
<1>10. Typed'
  BY <1>1, <1>5, <1>6, <1>8, <1>9 DEF Inv, Typed, Follows
<1> QED BY <1>2, <1>7, <1>8, <1>10, Quiet

\* A client message comes to wait for the lock, with no change named.
LEMMA ComesToWait ==
  ASSUME Inv, NEW o \in Ops, NEW h \in Hands, at[o] = "unsent", WaitForLock(o), op' = [op EXCEPT ![o] = h],
         h.first = op[o].first, h.rest = op[o].rest, Does[o] \notin {"edit", "remove"},
         tracker' = tracker, replacing' = replacing, pi' = pi, foreign' = foreign, received' = received
  PROVE  Inv'
<1>1. Locking'
  BY LockJoined DEF Inv
<1>2. at' \in [Ops -> Places] /\ at'[o] = "lock" /\ \A p \in Ops \ {o} : at'[p] = at[p]
  BY AtSet DEF Inv, WaitForLock, Places
<1>3. op' \in [Ops -> Hands] /\ op'[o] = h /\ \A p \in Ops \ {o} : op'[p] = op[p]
  BY OpSet DEF Inv
<1>4. lock' \in Seq(Ops)
  BY DEF WaitForLock, Inv, Typed
<1>5. ASSUME NEW p \in Ops
      PROVE  /\ op'[p].first \in {op[p].first, <<>>} /\ op'[p].rest \in {op[p].rest, <<>>}
             /\ ChangesStay(p) /\ Handed(p)'
  <2>1. CASE p = o
    BY <1>2, <1>3, <2>1 DEF ChangesStay, Changing, Handed, Handing, Inv
  <2>2. CASE p # o
    BY <1>2, <1>3, <2>2 DEF ChangesStay, Changing, Handed, Inv
  <2> QED BY <2>1, <2>2
<1>6. Follows(tracker, tracker')
  BY ForgetsFollow DEF Inv, Typed
<1>7. Typed'
  BY <1>2, <1>3, <1>4 DEF Inv, Typed
<1> QED BY <1>1, <1>5, <1>6, <1>7, Quiet

\* A stop arrives.
LEMMA AbortArrivesKeeps == ASSUME Inv, NEW o \in Ops, AbortArrives(o) PROVE Inv'
<1>1. at[o] = "unsent" /\ Does[o] = "abort"
  BY DEF AbortArrives
<1>2. CASE AbortNow(o, "done")
  BY <1>1, <1>2, AbortNowKeeps
<1>3. CASE ~AbortNow(o, "done")
  <2> DEFINE g == IF pi.aborting THEN {} ELSE {tracker.entries[i].source.from : i \in DOMAIN tracker.entries}
             h == [op[o] EXCEPT !.guards = g]
  <2>1. /\ KeepQueue /\ WaitForLock(o) /\ op' = [op EXCEPT ![o] = h]
        /\ tracker' = tracker /\ replacing' = replacing /\ pi' = pi /\ foreign' = foreign /\ received' = received
    BY <1>3 DEF AbortArrives
  <2>2. g \in SUBSET Froms
    <3>1. ASSUME NEW i \in DOMAIN tracker.entries PROVE tracker.entries[i].source.from \in Froms
      <4>1. tracker.entries \in Seq(Entries)
        BY DEF Inv, Typed, Trackers
      <4>2. tracker.entries[i] \in Entries
        BY <4>1
      <4>3. tracker.entries[i].source \in SourceSet
        BY <2>1, <4>2 DEF KeepQueue, HasForeign, Entries
      <4> QED BY <4>3 DEF SourceSet
    <3> QED BY <3>1
  <2> HIDE DEF g
  <2>3. h \in Hands /\ h.first = op[o].first /\ h.rest = op[o].rest
    BY <2>2 DEF Inv, Typed, Hands
  <2> HIDE DEF h
  <2> QED BY <1>1, <2>1, <2>3, ComesToWait
<1> QED BY <1>2, <1>3

\* The lock did not come in time.
LEMMA AbortGivesUpKeeps == ASSUME Inv, NEW o \in Ops, AbortGivesUp(o) PROVE Inv'
BY AbortNowKeeps DEF AbortGivesUp

\* When it came there was nothing left to keep.
LEMMA AbortFindsNothingKeeps == ASSUME Inv, NEW o \in Ops, AbortFindsNothing(o) PROVE Inv'
BY AbortNowKeeps DEF AbortFindsNothing, Granted

\* An operation ends and only forgets what the tracker knows.
LEMMA EndsKeeps ==
  ASSUME Inv, NEW o \in Ops, Holds(o), Finish(o), tracker' \in {tracker, Resume(tracker)},
         replacing' = replacing, pi' = pi, foreign' = foreign, received' = received
  PROVE  Inv'
<1>1. /\ Locking' /\ at' \in [Ops -> Places] /\ op' \in [Ops -> Hands] /\ lock' \in Seq(Ops)
      /\ \A p \in Ops : /\ op'[p].first \in {op[p].first, <<>>} /\ op'[p].rest \in {op[p].rest, <<>>}
                        /\ ChangesStay(p) /\ Handed(p)'
  BY Finished
<1>2. Follows(tracker, tracker')
  BY ForgetsFollow DEF Inv, Typed
<1>3. Typed'
  BY <1>1, <1>2 DEF Inv, Typed, Follows
<1> QED BY <1>1, <1>2, <1>3, Quiet

\* The lock came to who had given it up.
LEMMA LateReleaseKeeps == ASSUME Inv, NEW o \in Ops, LateRelease(o) PROVE Inv'
BY EndsKeeps DEF LateRelease

\* A change or a Send now is refused.
LEMMA RewriteRefusedKeeps == ASSUME Inv, NEW o \in Ops, RewriteRefused(o) PROVE Inv'
BY EndsKeeps DEF RewriteRefused, Granted

\* pi does not give its queue back.
LEMMA ClearFailsKeeps == ASSUME Inv, NEW o \in Ops, ClearFails(o) PROVE Inv'
<1>1. Holds(o)
  BY DEF ClearFails, Granted, Inv, Locking, Past
<1> QED BY <1>1, EndsKeeps DEF ClearFails

\* Reports are not read while pi gives its queue back.
LEMMA ClearKeeps ==
  ASSUME Inv, NEW o \in Ops, Clear(o), Holds(o), at[o] \in {"lock", "prepared"}
  PROVE  Inv'
<1> DEFINE back == [steer |-> pi.steer, followUp |-> pi.followUp]
           h == [op[o] EXCEPT !.returned = back]
<1>1. /\ tracker' = Suspend(tracker) /\ at' = [at EXCEPT ![o] = "taking"] /\ op' = [op EXCEPT ![o] = h]
      /\ pi' = [pi EXCEPT !.steer = <<>>, !.followUp = <<>>]
      /\ lock' = lock /\ replacing' = replacing /\ foreign' = foreign /\ received' = received
  BY DEF Clear, Goto
<1>2. op[o] \in Hands /\ pi \in Agents /\ (pi.aborting => pi.streaming) /\ op[o].first = <<>> /\ op[o].rest = <<>>
  BY DEF Inv, Typed, Handed, Handing
<1>3. back \in Queues
  BY <1>2 DEF Queues, Agents
<1> HIDE DEF back
<1>4. h \in Hands /\ h.first = op[o].first /\ h.rest = op[o].rest /\ h.target = op[o].target /\ h.saw = op[o].saw
  BY <1>2, <1>3 DEF Hands
<1> HIDE DEF h
<1>5. /\ Locking' /\ at' \in [Ops -> Places] /\ op' \in [Ops -> Hands]
      /\ \A p \in Ops : /\ op'[p].first \in {op[p].first, <<>>} /\ op'[p].rest \in {op[p].rest, <<>>}
                        /\ ChangesStay(p) /\ Handed(p)'
  <2>1. "taking" \in Places /\ "taking" \in Locked /\ "taking" \notin Handing /\ "taking" # "called"
    BY DEF Places, Locked, Past, Handing
  <2>2. Does[o] \in {"edit", "remove"} => Changing(o)
    BY DEF Changing
  <2> QED BY <1>1, <1>2, <1>4, <2>1, <2>2, Moved
<1>6. Follows(tracker, tracker')
  BY <1>1, ForgetsFollow DEF Inv, Typed
<1>7. pi' \in Agents /\ (pi'.aborting => pi'.streaming)
  <2>1. <<>> \in Seq(Items)
    OBVIOUS
  <2> QED BY <1>1, <1>2, <2>1 DEF Agents
<1>8. Typed'
  BY <1>1, <1>5, <1>6, <1>7 DEF Inv, Typed, Follows
<1> QED BY <1>5, <1>6, <1>8, Quiet

\* What is read for an edit is read.
LEMMA EditPreparesKeeps == ASSUME Inv, NEW o \in Ops, EditPrepares(o) PROVE Inv'
<1>1. /\ Holds(o) /\ at[o] = "lock" /\ at' = [at EXCEPT ![o] = "prepared"]
      /\ tracker' = tracker /\ op' = op /\ pi' = pi
      /\ lock' = lock /\ replacing' = replacing /\ foreign' = foreign /\ received' = received
  BY DEF EditPrepares, Granted, Goto
<1>2. op[o] \in Hands /\ op[o].first = <<>> /\ op[o].rest = <<>> /\ op' = [op EXCEPT ![o] = op[o]]
  BY <1>1 DEF Inv, Typed, Handed, Handing
<1>3. /\ Locking' /\ at' \in [Ops -> Places] /\ op' \in [Ops -> Hands]
      /\ \A p \in Ops : /\ op'[p].first \in {op[p].first, <<>>} /\ op'[p].rest \in {op[p].rest, <<>>}
                        /\ ChangesStay(p) /\ Handed(p)'
  <2>1. "prepared" \in Places /\ "prepared" \in Locked /\ "prepared" \notin Handing /\ "prepared" # "called"
    BY DEF Places, Locked, Past, Handing
  <2>2. Does[o] \in {"edit", "remove"} => Changing(o)
    BY <1>1 DEF Changing
  <2> QED BY <1>1, <1>2, <2>1, <2>2, Moved
<1>4. Follows(tracker, tracker')
  BY <1>1, ForgetsFollow DEF Inv, Typed
<1>5. Typed'
  BY <1>1, <1>3 DEF Inv, Typed
<1> QED BY <1>3, <1>4, <1>5, Quiet

\* The turn ended.
LEMMA StopEndsKeeps == ASSUME Inv, NEW o \in Ops, StopEnds(o) PROVE Inv'
<1>1. /\ at[o] = "stopping" /\ at' = [at EXCEPT ![o] = "requeue"]
      /\ tracker' = tracker /\ op' = op /\ pi' = pi
      /\ lock' = lock /\ replacing' = replacing /\ foreign' = foreign /\ received' = received
  BY DEF StopEnds, Goto
<1>2. op[o] \in Hands /\ op' = [op EXCEPT ![o] = op[o]] /\ Holds(o)
  BY <1>1 DEF Inv, Typed, Locking, Past
<1>3. /\ Locking' /\ at' \in [Ops -> Places] /\ op' \in [Ops -> Hands]
      /\ \A p \in Ops : /\ op'[p].first \in {op[p].first, <<>>} /\ op'[p].rest \in {op[p].rest, <<>>}
                        /\ ChangesStay(p) /\ Handed(p)'
  <2>1. "requeue" \in Places /\ "requeue" \in Locked /\ "requeue" \in Handing /\ "requeue" # "called"
        /\ "requeue" \notin {"lock", "prepared", "taking"}
    BY DEF Places, Locked, Past, Handing
  <2> QED BY <1>1, <1>2, <2>1, Moved
<1>4. Follows(tracker, tracker')
  BY <1>1, ForgetsFollow DEF Inv, Typed
<1>5. Typed'
  BY <1>1, <1>3 DEF Inv, Typed
<1> QED BY <1>3, <1>4, <1>5, Quiet

\* An element of one sequence after the other is of one of them.
LEMMA OfEither ==
  ASSUME NEW T, NEW a \in Seq(T), NEW b \in Seq(T), NEW k \in DOMAIN (a \o b)
  PROVE  (\E i \in DOMAIN a : (a \o b)[k] = a[i]) \/ (\E i \in DOMAIN b : (a \o b)[k] = b[i])
<1>1. Len(a) \in Nat /\ Len(b) \in Nat /\ k \in 1..(Len(a) + Len(b))
  OBVIOUS
<1>2. CASE k <= Len(a)
  BY <1>1, <1>2
<1>3. CASE k > Len(a)
  <2>1. k - Len(a) \in DOMAIN b /\ (a \o b)[k] = b[k - Len(a)]
    BY <1>1, <1>3
  <2> QED BY <2>1
<1> QED BY <1>1, <1>2, <1>3

\* Fifteen seconds passed: what was to be sent first is queued with the rest.
LEMMA StopTimesOutKeeps == ASSUME Inv, NEW o \in Ops, StopTimesOut(o) PROVE Inv'
<1> DEFINE all == op[o].first \o op[o].rest
           h == [Idle EXCEPT !.rest = all, !.target = op[o].target]
<1>1. /\ at[o] = "stopping" /\ at' = [at EXCEPT ![o] = "requeue"]
      /\ op' = [x \in Ops |-> IF x = o THEN h ELSE [op[x] EXCEPT !.guards = {}]]
      /\ tracker' = tracker /\ pi' = pi
      /\ lock' = lock /\ replacing' = replacing /\ foreign' = foreign /\ received' = received
  BY DEF StopTimesOut, Goto
<1>2. op[o].first \in Seq(Entries) /\ op[o].rest \in Seq(Entries) /\ op[o].target \in Nat
      /\ op \in [Ops -> Hands]
  BY DEF Inv, Typed, Hands
<1>3. all \in Seq(Entries) /\ Unique(all)
  BY <1>2, UniqueConcat DEF Inv, Separate
<1>4. \A k \in DOMAIN all : Holding(o, all[k])
  <2> DEFINE a == op[o].first
             b == op[o].rest
  <2>1. a \in Seq(Entries) /\ b \in Seq(Entries)
    BY <1>2
  <2> HIDE DEF a, b
  <2>2. \A k \in DOMAIN (a \o b) : \/ \E i \in DOMAIN a : a[i] = (a \o b)[k]
                                   \/ \E i \in DOMAIN b : b[i] = (a \o b)[k]
    BY <2>1, OfEither
  <2> QED BY <2>2 DEF Holding, a, b
<1> HIDE DEF all
<1>5. h \in Hands /\ h.first = <<>> /\ h.rest = all
  BY <1>2, <1>3, IdleTyped DEF Hands
<1> HIDE DEF h
<1>6. \A p \in Ops \ {o} : /\ [op[p] EXCEPT !.guards = {}] \in Hands
                           /\ [op[p] EXCEPT !.guards = {}].first = op[p].first
                           /\ [op[p] EXCEPT !.guards = {}].rest = op[p].rest
                           /\ [op[p] EXCEPT !.guards = {}].giving = op[p].giving
                           /\ [op[p] EXCEPT !.guards = {}].target = op[p].target
                           /\ [op[p] EXCEPT !.guards = {}].saw = op[p].saw
  <2>1. {} \in SUBSET Froms
    OBVIOUS
  <2> QED BY <1>2, <2>1 DEF Hands
<1>7. op' \in [Ops -> Hands]
  BY <1>1, <1>5, <1>6
<1>8. op'[o] = h /\ \A p \in Ops \ {o} : op'[p].first = op[p].first /\ op'[p].rest = op[p].rest
                                         /\ op'[p].target = op[p].target /\ op'[p].saw = op[p].saw
                                         /\ op'[p].giving = op[p].giving
  BY <1>1, <1>6
<1>9. at' \in [Ops -> Places] /\ at'[o] = "requeue" /\ \A p \in Ops \ {o} : at'[p] = at[p]
  BY <1>1, AtSet DEF Inv, Places
<1>10. Holds(o)
  BY <1>1 DEF Inv, Locking, Past
<1>11. Locking'
  BY <1>1, <1>10, LockStays DEF Inv, Locked, Past
<1>12. \A p \in Ops : Handed(p)'
  BY <1>8, <1>9 DEF Handed, Handing, Inv
<1>13. \A p \in Ops : ChangesStay(p)
  BY <1>8, <1>9 DEF ChangesStay, Changing
<1>14. ASSUME NEW p \in Ops PROVE HandsOnly(p)
  <2>1. CASE p = o
    <3>1. Unique(<<>>) /\ Disjoint(<<>>, all) /\ DOMAIN <<>> = {}
      BY DEF Unique, Disjoint
    <3> QED BY <1>3, <1>4, <1>5, <1>8, <2>1, <3>1 DEF HandsOnly
  <2>2. CASE p # o
    <3>1. op'[p].first = op[p].first /\ op'[p].rest = op[p].rest
      BY <1>8, <2>2
    <3>2. Unique(op[p].first) /\ Unique(op[p].rest) /\ Disjoint(op[p].first, op[p].rest)
      BY DEF Inv, Separate
    <3>3. (\A i \in DOMAIN op[p].first : Holding(p, op[p].first[i]))
          /\ (\A i \in DOMAIN op[p].rest : Holding(p, op[p].rest[i]))
      BY DEF Holding
    <3> QED BY <3>1, <3>2, <3>3 DEF HandsOnly
  <2> QED BY <2>1, <2>2
<1>15. Typed'
  BY <1>1, <1>7, <1>9 DEF Inv, Typed
<1>16. Follows(tracker, tracker')
  BY <1>1, ForgetsFollow DEF Inv, Typed
<1>17. Apart(tracker)' /\ \A p \in Ops : Separate(p)' /\ Seen(p)'
  BY <1>13, <1>14, <1>15, <1>16, IdsKept DEF Inv
<1> QED BY <1>11, <1>12, <1>15, <1>17 DEF Inv

\* A sequence without its first: its ids.
LEMMA UniqueTail ==
  ASSUME NEW T, NEW s \in Seq(T), s # <<>>
  PROVE  /\ Tail(s) \in Seq(T) /\ Head(s) \in T /\ \A k \in DOMAIN Tail(s) : \E i \in DOMAIN s : s[i] = Tail(s)[k]
         /\ \E i \in DOMAIN s : s[i] = Head(s)
         /\ Unique(s) => /\ Unique(Tail(s))
                         /\ Head(s).id # 0 => \A k \in DOMAIN Tail(s) : Tail(s)[k].id # Head(s).id
<1> DEFINE u == Tail(s)
<1>1. /\ u \in Seq(T) /\ Len(s) \in Nat /\ DOMAIN u = 1..(Len(s) - 1) /\ DOMAIN s = 1..Len(s) /\ 1 \in DOMAIN s
      /\ Head(s) = s[1] /\ \A k \in DOMAIN u : u[k] = s[k + 1] /\ k + 1 \in DOMAIN s /\ k + 1 # 1
  OBVIOUS
<1> HIDE DEF u
<1>2. \A i, j \in DOMAIN u : i + 1 = j + 1 => i = j
  BY <1>1
<1>3. ASSUME Unique(s) PROVE Unique(u) /\ (Head(s).id # 0 => \A k \in DOMAIN u : u[k].id # Head(s).id)
  BY <1>1, <1>2, <1>3 DEF Unique
<1>4. Head(s) \in T /\ (\A k \in DOMAIN u : \E i \in DOMAIN s : s[i] = u[k]) /\ \E i \in DOMAIN s : s[i] = Head(s)
  BY <1>1
<1> QED BY <1>1, <1>3, <1>4 DEF u

\* The first of what an operation is to queue again leaves its hands, for pi.
LEMMA RestShortens ==
  ASSUME Inv, NEW o \in Ops, at[o] = "requeue", op[o].rest # <<>>,
         op' = [op EXCEPT ![o].giving = <<Head(op[o].rest)>>, ![o].rest = Tail(@), ![o].to = pi.session],
         at' = [at EXCEPT ![o] = "queueing"], lock' = lock
  PROVE  /\ op' \in [Ops -> Hands] /\ at' \in [Ops -> Places] /\ Locking'
         /\ op'[o].first = op[o].first /\ op'[o].rest = Tail(op[o].rest) /\ \A p \in Ops \ {o} : op'[p] = op[p]
         /\ \A p \in Ops : HandsOnly(p) /\ ChangesStay(p) /\ Handed(p)'
<1> DEFINE h == [op[o] EXCEPT !.giving = <<Head(op[o].rest)>>, !.rest = Tail(op[o].rest), !.to = pi.session]
<1>1. op[o] \in Hands /\ op[o].rest \in Seq(Entries) /\ op' = [op EXCEPT ![o] = h] /\ pi.session \in Nat
  BY DEF Inv, Typed, Hands, Agents
<1>2. /\ Tail(op[o].rest) \in Seq(Entries) /\ Unique(Tail(op[o].rest)) /\ Head(op[o].rest) \in Entries
      /\ \A k \in DOMAIN Tail(op[o].rest) : \E i \in DOMAIN op[o].rest : op[o].rest[i] = Tail(op[o].rest)[k]
  BY <1>1, UniqueTail DEF Inv, Separate
<1>3. /\ h \in Hands /\ h.first = op[o].first /\ h.rest = Tail(op[o].rest) /\ h.target = op[o].target
      /\ h.saw = op[o].saw /\ h.giving # <<>>
  <2> DEFINE g == <<Head(op[o].rest)>>
  <2>1. g \in Seq(Entries) /\ g # <<>>
    BY <1>2
  <2> HIDE DEF g
  <2>2. h = [op[o] EXCEPT !.giving = g, !.rest = Tail(op[o].rest), !.to = pi.session]
    BY DEF g
  <2> HIDE DEF h
  <2> QED BY <1>1, <1>2, <2>1, <2>2 DEF Hands
<1> HIDE DEF h
<1>4. op' \in [Ops -> Hands] /\ op'[o] = h /\ \A p \in Ops \ {o} : op'[p] = op[p]
  BY <1>1, <1>3, OpSet DEF Inv
<1>9. at' \in [Ops -> Places] /\ at'[o] = "queueing" /\ \A p \in Ops \ {o} : at'[p] = at[p]
  BY AtSet DEF Inv, Places
<1>5. Locking'
  <2>1. Holds(o)
    BY DEF Inv, Locking, Past
  <2> QED BY <2>1, LockStays DEF Inv, Locked, Past
<1>6. ASSUME NEW p \in Ops PROVE HandsOnly(p)
  <2>1. Unique(op[p].first) /\ Unique(op[p].rest) /\ Disjoint(op[p].first, op[p].rest)
    BY DEF Inv, Separate
  <2>2. (\A i \in DOMAIN op[p].first : Holding(p, op[p].first[i]))
        /\ (\A i \in DOMAIN op[p].rest : Holding(p, op[p].rest[i]))
    BY DEF Holding
  <2>3. CASE p # o
    BY <1>4, <2>1, <2>2, <2>3 DEF HandsOnly
  <2>4. CASE p = o
    <3>1. op'[p].first = op[o].first /\ op'[p].rest = Tail(op[o].rest)
      BY <1>3, <1>4, <2>4
    <3>2. Disjoint(op[o].first, Tail(op[o].rest))
      BY <1>2, <2>1, <2>4 DEF Disjoint
    <3>3. \A k \in DOMAIN Tail(op[o].rest) : Holding(o, Tail(op[o].rest)[k])
      BY <1>2 DEF Holding
    <3> QED BY <1>2, <2>1, <2>2, <2>4, <3>1, <3>2, <3>3 DEF HandsOnly
  <2> QED BY <2>3, <2>4
<1>7. ASSUME NEW p \in Ops PROVE ChangesStay(p)
  BY <1>3, <1>4, <1>9 DEF ChangesStay, Changing
<1>8. ASSUME NEW p \in Ops PROVE Handed(p)'
  BY <1>3, <1>4, <1>9 DEF Handed, Handing, Inv
<1> QED BY <1>3, <1>4, <1>5, <1>6, <1>7, <1>8, <1>9

\* pi has it, or has refused it: the operation goes on to the next.
LEMMA NextOne ==
  ASSUME Inv, NEW o \in Ops, at[o] = "queueing", NextToRequeue(o), lock' = lock
  PROVE  /\ Locking' /\ at' \in [Ops -> Places] /\ op' \in [Ops -> Hands]
         /\ \A p \in Ops : /\ op'[p].first \in {op[p].first, <<>>} /\ op'[p].rest \in {op[p].rest, <<>>}
                           /\ ChangesStay(p) /\ Handed(p)'
<1> DEFINE h == [op[o] EXCEPT !.giving = <<>>, !.to = 0]
<1>1. op[o] \in Hands /\ op' = [op EXCEPT ![o] = h] /\ at' = [at EXCEPT ![o] = "requeue"]
  BY DEF Inv, Typed, NextToRequeue, Goto
<1>2. h \in Hands /\ h.first = op[o].first /\ h.rest = op[o].rest
  <2>1. <<>> \in Seq(Entries) /\ 0 \in Nat
    OBVIOUS
  <2> QED BY <1>1, <2>1 DEF Hands
<1> HIDE DEF h
<1>3. Holds(o)
  BY DEF Inv, Locking, Past
<1>4. /\ "requeue" \in Places /\ "requeue" \in Locked /\ "requeue" \in Handing
      /\ "requeue" \notin {"called", "queueing", "lock", "prepared", "taking"}
  BY DEF Places, Locked, Past, Handing
<1> QED BY <1>1, <1>2, <1>3, <1>4, Moved

\* What is being queued has a source that pi can be sent.
LEMMA GivingTyped ==
  ASSUME Inv, NEW o \in Ops, at[o] = "queueing"
  PROVE  /\ Head(op[o].giving) \in Entries /\ Head(op[o].giving).kind \in Kinds
         /\ SourceOf(Head(op[o].giving)) \in SourceSet /\ Item(SourceOf(Head(op[o].giving))) \in Items
<1>1. op[o].giving \in Seq(Entries) /\ op[o].giving # <<>>
  BY DEF Inv, Typed, Hands, Handed
<1>2. Head(op[o].giving) \in Entries
  BY <1>1
<1> QED BY <1>2, SourceTyped DEF Entries

\* The runtime refuses to queue one again.
LEMMA RequeueFailsKeeps == ASSUME Inv, NEW o \in Ops, RequeueFails(o) PROVE Inv'
<1> DEFINE e == Head(op[o].giving)
<1>1. /\ at[o] = "queueing" /\ NextToRequeue(o) /\ lock' = lock
      /\ tracker' = Settle(tracker, SourceOf(e), e.kind, e.id, FALSE)
      /\ replacing' = replacing /\ pi' = pi /\ foreign' = foreign /\ received' = received
  BY DEF RequeueFails
<1>2. /\ Locking' /\ at' \in [Ops -> Places] /\ op' \in [Ops -> Hands]
      /\ \A p \in Ops : /\ op'[p].first \in {op[p].first, <<>>} /\ op'[p].rest \in {op[p].rest, <<>>}
                        /\ ChangesStay(p) /\ Handed(p)'
  BY <1>1, NextOne
<1>3. Follows(tracker, tracker')
  BY <1>1, ForgetsFollow DEF Inv, Typed
<1>4. Typed'
  BY <1>1, <1>2, <1>3 DEF Inv, Typed, Follows
<1> QED BY <1>2, <1>3, <1>4, Quiet

\* pi queues one again, in the session it was handed to; or that session is gone.
LEMMA PiQueuesKeeps == ASSUME Inv, NEW o \in Ops, PiQueues(o) PROVE Inv'
<1> DEFINE e == Head(op[o].giving)
<1>1. /\ at[o] = "queueing" /\ NextToRequeue(o) /\ lock' = lock
      /\ replacing' = replacing /\ foreign' = foreign /\ received' = received
  BY DEF PiQueues
<1>2. /\ Locking' /\ at' \in [Ops -> Places] /\ op' \in [Ops -> Hands]
      /\ \A p \in Ops : /\ op'[p].first \in {op[p].first, <<>>} /\ op'[p].rest \in {op[p].rest, <<>>}
                        /\ ChangesStay(p) /\ Handed(p)'
  BY <1>1, NextOne
<1>3. tracker \in Trackers /\ Apart(tracker) /\ pi \in Agents /\ (pi.aborting => pi.streaming)
  BY DEF Inv, Typed
<1>4. CASE op[o].to = pi.session
  <2>1. pi' = [pi EXCEPT ![e.kind] = Append(@, Item(SourceOf(e)))] /\ Hear(tracker, pi')
    BY <1>4 DEF PiQueues
  <2>2. e.kind \in Kinds /\ Item(SourceOf(e)) \in Items
    BY <1>1, GivingTyped
  <2>3. pi[e.kind] \in Seq(Items)
    BY <1>3, <2>2 DEF Agents, Kinds
  <2>4. Append(pi[e.kind], Item(SourceOf(e))) \in Seq(Items)
    BY <2>2, <2>3
  <2>5. /\ pi' \in Agents /\ pi'.steer \in Seq(Items) /\ pi'.followUp \in Seq(Items)
        /\ pi'.aborting = pi.aborting /\ pi'.streaming = pi.streaming
    BY <1>3, <2>1, <2>2, <2>4, Queued
  <2>6. Follows(tracker, tracker')
    BY <1>3, <2>1, <2>5, Heard
  <2>7. Typed'
    BY <1>1, <1>2, <1>3, <2>5, <2>6 DEF Inv, Typed, Follows
  <2> QED BY <1>2, <2>6, <2>7, Quiet
<1>5. CASE op[o].to # pi.session
  <2>1. pi' = pi /\ tracker' = tracker
    BY <1>5 DEF PiQueues
  <2>2. Typed'
    BY <1>1, <1>2, <2>1 DEF Inv, Typed
  <2>3. Follows(tracker, tracker')
    BY <1>3, <2>1, ForgetsFollow
  <2> QED BY <1>2, <2>2, <2>3, Quiet
<1> QED BY <1>4, <1>5

\* All are queued again: it is over, or the first starts the turn.
LEMMA RequeueOverKeeps == ASSUME Inv, NEW o \in Ops, RequeueOver(o) PROVE Inv'
<1>1. /\ at[o] = "requeue" /\ op[o].rest = <<>>
      /\ replacing' = replacing /\ pi' = pi /\ foreign' = foreign /\ received' = received
  BY DEF RequeueOver
<1>2. Holds(o)
  BY <1>1 DEF Inv, Locking, Past
<1>3. CASE op[o].first = <<>>
  BY <1>1, <1>2, <1>3, EndsKeeps DEF RequeueOver
<1>4. CASE op[o].first # <<>>
  <2> DEFINE h == [op[o] EXCEPT !.to = IF pi.bound THEN pi.session ELSE 0]
  <2>1. /\ tracker' = Expect(tracker, Sending(o), "steer", 0) /\ lock' = lock
        /\ at' = [at EXCEPT ![o] = "called"] /\ op' = [op EXCEPT ![o] = h]
    BY <1>4 DEF RequeueOver, Call, Goto
  <2>2. op[o] \in Hands /\ pi.session \in Nat /\ op[o].first \in Seq(Entries)
    BY DEF Inv, Typed, Agents, Hands
  <2>3. h \in Hands /\ h.first = op[o].first /\ h.rest = op[o].rest
    BY <2>2 DEF Hands
  <2> HIDE DEF h
  <2>4. /\ Locking' /\ at' \in [Ops -> Places] /\ op' \in [Ops -> Hands]
        /\ \A p \in Ops : /\ op'[p].first \in {op[p].first, <<>>} /\ op'[p].rest \in {op[p].rest, <<>>}
                          /\ ChangesStay(p) /\ Handed(p)'
    <3>1. "called" \in Places /\ "called" \in Locked /\ "called" \in Handing
          /\ "called" \notin {"lock", "prepared", "taking"}
      BY DEF Places, Locked, Past, Handing
    <3> QED BY <1>1, <1>2, <1>4, <2>1, <2>3, <3>1, Moved
  <2>5. Sending(o) \in SourceSet
    <3>1. CASE Does[o] = "prompt"
      BY <3>1, SourceTyped DEF Sending, Texters
    <3>2. CASE Does[o] # "prompt"
      <4>1. Head(op[o].first) \in Entries
        BY <1>4, <2>2
      <4> QED BY <3>2, <4>1, SourceTyped DEF Sending
    <3> QED BY <3>1, <3>2
  <2>6. Follows(tracker, tracker')
    <3>1. "steer" \in Kinds /\ 0 \in Nat /\ tracker \in Trackers /\ Apart(tracker)
          /\ tracker.nextId \in Nat /\ 0 < tracker.nextId
      BY DEF Kinds, Inv, Typed, Trackers
    <3>2. /\ tracker' \in Trackers /\ Apart(tracker') /\ tracker'.nextId = tracker.nextId
          /\ \A i, x : i # 0 /\ Names(tracker', i, x) => Names(tracker, i, x) \/ (i = 0 /\ x = Sending(o).from)
      BY <2>1, <2>5, <3>1, ExpectKeeps
    <3> QED BY <3>1, <3>2 DEF Follows
  <2>7. Typed'
    BY <1>1, <2>1, <2>4, <2>6 DEF Inv, Typed, Follows
  <2> QED BY <2>4, <2>6, <2>7, Quiet
<1> QED BY <1>3, <1>4

\* Someone who has nothing to do with the lock moves on.
LEMMA Besides ==
  ASSUME Inv, NEW o \in Ops, at[o] \in {"unsent", "replacing", "rebinding"},
         NEW w \in {"replacing", "rebinding", "done"}, Goto(o, w), lock' = lock, op' = op
  PROVE  /\ Locking' /\ at' \in [Ops -> Places]
         /\ \A p \in Ops : /\ op'[p].first \in {op[p].first, <<>>} /\ op'[p].rest \in {op[p].rest, <<>>}
                           /\ ChangesStay(p) /\ Handed(p)'
<1>1. at' = [at EXCEPT ![o] = w] /\ op' = [op EXCEPT ![o] = op[o]]
  BY DEF Goto, Inv, Typed
<1>2. op[o] \in Hands /\ op[o].first = <<>> /\ op[o].rest = <<>>
  BY DEF Inv, Typed, Handed, Handing
<1>3. /\ w \in Places /\ w \notin Past /\ w \notin {"called", "lock", "prepared", "taking"}
      /\ at[o] \notin Locked
  BY DEF Places, Past, Locked
<1> QED BY <1>1, <1>2, <1>3, Moved

\* A new session is asked for.
LEMMA NewSessionArrivesKeeps == ASSUME Inv, NEW o \in Ops, NewSessionArrives(o) PROVE Inv'
<1>1. /\ at[o] = "unsent" /\ tracker' = tracker /\ lock' = lock /\ op' = op /\ pi' = pi /\ foreign' = foreign
      /\ received' = received
  BY DEF NewSessionArrives
<1>2. PICK w \in {"replacing", "done"} : Goto(o, w)
  BY DEF NewSessionArrives
<1>3. replacing' \in BOOLEAN
  BY DEF NewSessionArrives, Inv, Typed
<1>4. /\ Locking' /\ at' \in [Ops -> Places]
      /\ \A p \in Ops : /\ op'[p].first \in {op[p].first, <<>>} /\ op'[p].rest \in {op[p].rest, <<>>}
                        /\ ChangesStay(p) /\ Handed(p)'
  BY <1>1, <1>2, Besides
<1>5. Follows(tracker, tracker')
  BY <1>1, ForgetsFollow DEF Inv, Typed
<1>6. Typed'
  BY <1>1, <1>3, <1>4 DEF Inv, Typed
<1> QED BY <1>4, <1>5, <1>6, Quiet

\* The SDK puts it in place.
LEMMA PiReplacesKeeps == ASSUME Inv, NEW o \in Ops, PiReplaces(o) PROVE Inv'
<1>1. /\ at[o] = "replacing" /\ Goto(o, "rebinding") /\ tracker' = tracker /\ lock' = lock /\ op' = op
      /\ foreign' = foreign /\ received' = received /\ replacing' = replacing
      /\ pi' = [pi EXCEPT !.streaming = FALSE, !.aborting = FALSE, !.bound = FALSE, !.session = @ + 1,
                          !.steer = <<>>, !.followUp = <<>>]
  BY DEF PiReplaces
<1>2. pi' \in Agents /\ ~pi'.aborting
  <2>1. <<>> \in Seq(Items) /\ pi \in Agents
    BY DEF Inv, Typed
  <2>2. pi.session + 1 \in Nat
    BY <2>1 DEF Agents
  <2> QED BY <1>1, <2>1, <2>2 DEF Agents
<1>3. /\ Locking' /\ at' \in [Ops -> Places]
      /\ \A p \in Ops : /\ op'[p].first \in {op[p].first, <<>>} /\ op'[p].rest \in {op[p].rest, <<>>}
                        /\ ChangesStay(p) /\ Handed(p)'
  BY <1>1, Besides
<1>4. Follows(tracker, tracker')
  BY <1>1, ForgetsFollow DEF Inv, Typed
<1>5. Typed'
  BY <1>1, <1>2, <1>3 DEF Inv, Typed
<1> QED BY <1>3, <1>4, <1>5, Quiet

\* Its extensions bound, and the server hears of it.
LEMMA SessionReplacedKeeps == ASSUME Inv, NEW o \in Ops, SessionReplaced(o) PROVE Inv'
<1>1. /\ at[o] = "rebinding" /\ Goto(o, "done") /\ tracker' = Reset(tracker) /\ lock' = lock /\ op' = op
      /\ foreign' = foreign /\ received' = received /\ replacing' = FALSE /\ pi' = pi
  BY DEF SessionReplaced
<1>2. /\ Locking' /\ at' \in [Ops -> Places]
      /\ \A p \in Ops : /\ op'[p].first \in {op[p].first, <<>>} /\ op'[p].rest \in {op[p].rest, <<>>}
                        /\ ChangesStay(p) /\ Handed(p)'
  BY <1>1, Besides
<1>3. Follows(tracker, tracker')
  BY <1>1, ForgetsFollow DEF Inv, Typed
<1>4. Typed'
  BY <1>1, <1>2, <1>3 DEF Inv, Typed, Follows
<1> QED BY <1>2, <1>3, <1>4, Quiet

\* pi binds extensions, or ends a turn.
LEMMA PiTurnsKeep == ASSUME Inv, PiBinds \/ PiEnds PROVE Inv'
<1>1. /\ tracker' = tracker /\ lock' = lock /\ op' = op /\ at' = at
      /\ foreign' = foreign /\ received' = received /\ replacing' = replacing
  BY DEF PiBinds, PiEnds
<1>2. pi \in Agents /\ (pi.aborting => pi.streaming)
  BY DEF Inv, Typed
<1>3. pi' \in Agents /\ (pi'.aborting => pi'.streaming)
  <2>1. CASE PiBinds
    BY <1>2, <2>1 DEF PiBinds, Agents
  <2>2. CASE PiEnds
    BY <1>2, <2>2 DEF PiEnds, Agents
  <2> QED BY <2>1, <2>2
<1>4. Follows(tracker, tracker')
  BY <1>1, ForgetsFollow DEF Inv, Typed
<1>5. Typed'
  BY <1>1, <1>3 DEF Inv, Typed
<1> QED BY <1>1, <1>4, <1>5, AllStay, Quiet

\* It reads a message.
LEMMA PiReadsKeeps == ASSUME Inv, PiReads PROVE Inv'
<1> DEFINE k == IF pi.steer # <<>> THEN "steer" ELSE "followUp"
           m == [from |-> Head(pi[k]).from, swallowed |-> pi.aborting]
<1>1. /\ pi[k] # <<>> /\ received' = Append(received, m)
      /\ pi' = [pi EXCEPT ![k] = Tail(pi[k])] /\ Hear(tracker, pi')
      /\ lock' = lock /\ op' = op /\ at' = at /\ foreign' = foreign /\ replacing' = replacing
  BY DEF PiReads
<1>2. pi \in Agents /\ (pi.aborting => pi.streaming) /\ tracker \in Trackers /\ Apart(tracker)
      /\ received \in Seq([from : Froms, swallowed : BOOLEAN])
  BY DEF Inv, Typed
<1>3. pi[k] \in Seq(Items) /\ k \in Kinds /\ pi.aborting \in BOOLEAN
  BY <1>2 DEF Agents, Kinds
<1> HIDE DEF k
<1>4. Head(pi[k]) \in Items /\ Tail(pi[k]) \in Seq(Items)
  BY <1>1, <1>3
<1>5. m \in [from : Froms, swallowed : BOOLEAN]
  BY <1>3, <1>4 DEF Items
<1> HIDE DEF m
<1>6. received' \in Seq([from : Froms, swallowed : BOOLEAN])
  BY <1>1, <1>2, <1>5
<1>7. /\ pi' \in Agents /\ pi'.steer \in Seq(Items) /\ pi'.followUp \in Seq(Items)
      /\ pi'.aborting = pi.aborting /\ pi'.streaming = pi.streaming
  BY <1>1, <1>2, <1>3, <1>4, Queued
<1>8. Follows(tracker, tracker')
  BY <1>1, <1>2, <1>7, Heard
<1>9. Typed'
  BY <1>1, <1>2, <1>6, <1>7, <1>8 DEF Inv, Typed, Follows
<1> QED BY <1>1, <1>8, <1>9, AllStay, Quiet

\* An extension queues a message of its own.
LEMMA PiForeignKeeps == ASSUME Inv, NEW f \in Foreign, PiForeign(f) PROVE Inv'
<1> DEFINE m == [text |-> PiText[f.text], from |-> NoSource]
<1>1. /\ pi' = [pi EXCEPT ![f.kind] = Append(pi[f.kind], m)] /\ Hear(tracker, pi')
      /\ lock' = lock /\ op' = op /\ at' = at /\ foreign' = foreign \ {f} /\ replacing' = replacing
      /\ received' = received
  BY DEF PiForeign
<1>2. pi \in Agents /\ (pi.aborting => pi.streaming) /\ tracker \in Trackers /\ Apart(tracker)
  BY DEF Inv, Typed
<1>3. f.kind \in Kinds /\ f.text \in DOMAIN PiText
  BY PromptQueueAssumption DEF PromptQueueAssumption
<1>4. m \in Items
  BY <1>3 DEF Items, Froms
<1> HIDE DEF m
<1>5. pi[f.kind] \in Seq(Items)
  BY <1>2, <1>3 DEF Agents, Kinds
<1>6. Append(pi[f.kind], m) \in Seq(Items)
  BY <1>4, <1>5
<1>7. /\ pi' \in Agents /\ pi'.steer \in Seq(Items) /\ pi'.followUp \in Seq(Items)
      /\ pi'.aborting = pi.aborting /\ pi'.streaming = pi.streaming
  BY <1>1, <1>2, <1>3, <1>6, Queued
<1>8. Follows(tracker, tracker')
  BY <1>1, <1>2, <1>7, Heard
<1>9. Typed'
  BY <1>1, <1>2, <1>7, <1>8 DEF Inv, Typed, Follows
<1> QED BY <1>1, <1>8, <1>9, AllStay, Quiet

\* A change or a Send now arrives: what it names is what its user sees.
LEMMA RewriteArrivesKeeps == ASSUME Inv, NEW o \in Ops, RewriteArrives(o) PROVE Inv'
<1>1. /\ at[o] = "unsent" /\ WaitForLock(o) /\ tracker' = tracker /\ replacing' = replacing /\ pi' = pi
      /\ foreign' = foreign /\ received' = received
  BY DEF RewriteArrives
<1>2. op \in [Ops -> Hands]
  BY DEF Inv, Typed
<1>3. CASE Does[o] = "sendNow"
  <2>1. op' = [op EXCEPT ![o] = op[o]] /\ op[o] \in Hands
    BY <1>2, <1>3 DEF RewriteArrives
  <2> QED BY <1>1, <1>3, <2>1, ComesToWait
<1>4. CASE Does[o] # "sendNow"
  <2>1. PICK i \in DOMAIN tracker.entries :
          op' = [op EXCEPT ![o].target = tracker.entries[i].id, ![o].saw = SourceOf(tracker.entries[i]).from]
    BY <1>4 DEF RewriteArrives
  <2> DEFINE e == tracker.entries[i]
             h == [op[o] EXCEPT !.target = e.id, !.saw = SourceOf(e).from]
  <2>2. /\ e \in Entries /\ e.id \in Nat /\ e.id # 0 /\ e.id < tracker.nextId /\ tracker.nextId \in Nat
        /\ tracker \in Trackers /\ Apart(tracker)
    <3>1. tracker.entries \in Seq(Entries) /\ tracker.nextId \in Nat /\ Under(tracker.entries, tracker.nextId)
      BY DEF Inv, Typed, Trackers, Apart
    <3> QED BY <3>1, EntryIds DEF Inv, Typed
  <2>3. SourceOf(e).from \in Froms
    BY <2>2, SourceTyped DEF SourceSet
  <2>4. op' = [op EXCEPT ![o] = h]
    BY <1>2, <2>1
  <2>5. ASSUME NEW x, Means(e.id, x) PROVE x = SourceOf(e).from
    <3>1. ASSUME Entered(tracker.entries, e.id, x) PROVE x = SourceOf(e).from
      <4>1. PICK j \in DOMAIN tracker.entries :
              tracker.entries[j].id = e.id /\ SourceOf(tracker.entries[j]).from = x
        BY <3>1 DEF Entered
      <4>2. j = i
        BY <2>2, <4>1 DEF Apart, Unique
      <4> QED BY <4>1, <4>2
    <3>2. ~Expects(tracker.expectations, e.id, x)
      BY <2>2 DEF Expects, Apart, Disjoint
    <3>3. \A p \in Ops : ~Carries(p, e.id, x)
      BY DEF Carries, Entered, Inv, Separate, Disjoint
    <3> QED BY <2>5, <3>1, <3>2, <3>3 DEF Means, Names
  <2> HIDE DEF e
  <2>6. /\ h \in Hands /\ h.first = op[o].first /\ h.rest = op[o].rest /\ h.target = e.id
        /\ h.saw = SourceOf(e).from
    BY <1>2, <2>2, <2>3 DEF Hands
  <2> HIDE DEF h
  <2>7. op' \in [Ops -> Hands] /\ op'[o] = h /\ \A p \in Ops \ {o} : op'[p] = op[p]
    BY <2>4, <2>6, OpSet DEF Inv
  <2>8. at' \in [Ops -> Places] /\ at'[o] = "lock" /\ \A p \in Ops \ {o} : at'[p] = at[p]
    BY <1>1, AtSet DEF Inv, WaitForLock, Places
  <2>9. Locking' /\ lock' \in Seq(Ops)
    <3>1. Locking'
      BY <1>1, LockJoined DEF Inv
    <3>2. lock \in Seq(Ops) /\ lock' = Append(lock, o)
      BY <1>1 DEF Inv, Typed, WaitForLock
    <3> QED BY <3>1, <3>2
  <2>10. Typed'
    BY <1>1, <2>7, <2>8, <2>9 DEF Inv, Typed
  <2>11. \A p \in Ops : op'[p].first = op[p].first /\ op'[p].rest = op[p].rest
    BY <2>6, <2>7
  <2>12. Follows(tracker, tracker')
    BY <1>1, ForgetsFollow DEF Inv, Typed
  <2>13. ASSUME NEW p \in Ops PROVE HandsOnly(p)
    BY <2>11 DEF HandsOnly, Holding, Inv, Separate
  <2>14. Apart(tracker)' /\ \A p \in Ops : Separate(p)' /\ (ChangesStay(p) => Seen(p)')
    BY <2>10, <2>12, <2>13, IdsKept DEF Inv
  <2>15. \A p \in Ops : Handed(p)'
    BY <1>1, <2>7, <2>8, <2>11 DEF Handed, Handing, Inv
  <2>16. \A p \in Ops \ {o} : Seen(p)'
    BY <2>7, <2>8, <2>14 DEF ChangesStay, Changing
  <2>17. Seen(o)'
    <3>0. PICK n : n = e.id
      OBVIOUS
    <3>1. op'[o].target = n /\ op'[o].saw = SourceOf(e).from /\ tracker' = tracker
      BY <1>1, <2>6, <2>7, <3>0
    <3>2. \A x : Means(op[o].target, x)' => Means(n, x)
      BY <2>11, <3>1 DEF Means, Carries
    <3>3. \A x : Means(op[o].target, x)' => Same(o, x)'
      BY <2>5, <3>0, <3>1, <3>2 DEF Same
    <3> QED BY <2>2, <3>0, <3>1, <3>3 DEF Seen
  <2> QED BY <2>9, <2>10, <2>14, <2>15, <2>16, <2>17 DEF Inv
<1> QED BY <1>3, <1>4

\* Rewriting what was taken back: each entry stays what it was, or is the edit, under its id.
LEMMA RewrittenKeeps ==
  ASSUME Typed, NEW o \in Ops, NEW kept \in Seq(Entries), Unique(kept)
  PROVE  LET s == Rewritten(o, kept) IN
         /\ s \in Seq(Entries) /\ Unique(s)
         /\ \A k \in DOMAIN s : \E i \in DOMAIN kept :
              /\ s[k].id = kept[i].id
              /\ SourceOf(s[k]) = SourceOf(kept[i]) \/ (Does[o] = "edit" /\ SourceOf(s[k]).from = o)
<1> DEFINE hit == {i \in DOMAIN kept : kept[i].id = op[o].target}
           s == Rewritten(o, kept)
<1>1. CASE Does[o] = "remove" /\ hit # {}
  <2>1. PICK j \in hit : s = RemoveAt(kept, j)
    BY <1>1 DEF Rewritten
  <2>2. s \in Seq(Entries) /\ Unique(s) /\ Within(s, kept)
    BY <2>1, RemovedKeeps
  <2> QED BY <2>2 DEF Within
<1>2. CASE Does[o] = "edit"
  <2> DEFINE f(i) == IF i \in hit THEN [kept[i] EXCEPT !.source = Source(o)] ELSE kept[i]
             u == [i \in DOMAIN kept |-> f(i)]
  <2>1. s = u
    BY <1>2 DEF Rewritten
  <2>2. Source(o) \in SourceSet /\ Source(o).from = o
    BY <1>2, SourceTyped DEF Texters
  <2>3. ASSUME NEW i \in DOMAIN kept
        PROVE  /\ f(i) \in Entries /\ f(i).id = kept[i].id
               /\ SourceOf(f(i)) = SourceOf(kept[i]) \/ SourceOf(f(i)).from = o
    <3>1. kept[i] \in Entries
      OBVIOUS
    <3>2. CASE i \in hit
      <4>1. f(i) \in Entries /\ f(i).id = kept[i].id /\ f(i).source = Source(o)
        BY <2>2, <3>1, <3>2 DEF Entries
      <4>2. SourceOf(f(i)) = Source(o)
        BY <2>2, <4>1, OriginKept
      <4> QED BY <2>2, <4>1, <4>2
    <3>3. CASE i \notin hit
      BY <3>1, <3>3
    <3> QED BY <3>2, <3>3
  <2> HIDE DEF f
  <2>4. DOMAIN kept = 1..Len(kept) /\ Len(kept) \in Nat
    OBVIOUS
  <2>5. u \in Seq(Entries) /\ DOMAIN u = DOMAIN kept /\ \A i \in DOMAIN kept : u[i] = f(i)
    BY <2>3, <2>4
  <2> HIDE DEF u
  <2>6. Unique(u)
    BY <2>3, <2>5 DEF Unique
  <2>7. \A k \in DOMAIN u : \E i \in DOMAIN kept :
          /\ u[k].id = kept[i].id
          /\ SourceOf(u[k]) = SourceOf(kept[i]) \/ (Does[o] = "edit" /\ SourceOf(u[k]).from = o)
    BY <1>2, <2>3, <2>5
  <2> QED BY <2>1, <2>5, <2>6, <2>7
<1>3. CASE ~(Does[o] = "remove" /\ hit # {}) /\ Does[o] # "edit"
  <2>1. s = kept
    BY <1>3 DEF Rewritten
  <2> QED BY <2>1
<1> QED BY <1>1, <1>2, <1>3

\* An operation in the midst of a change has the lock: no other has anything in its hands.
LEMMA OthersEmpty ==
  ASSUME Inv, NEW o \in Ops, at[o] \in Past, NEW p \in Ops, p # o
  PROVE  at[p] \notin Past /\ op[p].first = <<>> /\ op[p].rest = <<>>
<1>1. at[p] \notin Past
  BY DEF Inv, Locking, Holds
<1> QED BY <1>1 DEF Inv, Handed, Handing, Past

\* pi gave its queue back: it is rewritten, and the operation's.
LEMMA TakenBackKeeps == ASSUME Inv, NEW o \in Ops, TakenBack(o) PROVE Inv'
<1> DEFINE r == TakeBack(tracker, Lists(op[o].returned))
           kept == Rewritten(o, r.kept)
           stop == \/ Does[o] = "abort"
                   \/ Does[o] = "sendNow" /\ pi.streaming
           split == Does[o] = "sendNow" /\ kept # <<>>
           first == IF split THEN <<Head(kept)>> ELSE <<>>
           rest == IF split THEN Tail(kept) ELSE kept
           h == [op[o] EXCEPT !.returned = Idle.returned, !.first = first, !.rest = rest]
           w == IF stop THEN "stopping" ELSE "requeue"
<1>1. /\ at[o] = "taking" /\ tracker' = r.tracker
      /\ op' = [op EXCEPT ![o].returned = Idle.returned, ![o].first = first, ![o].rest = rest]
      /\ at' = [at EXCEPT ![o] = w] /\ pi' = [pi EXCEPT !.aborting = IF stop THEN pi.streaming ELSE @]
      /\ lock' = lock /\ replacing' = replacing /\ foreign' = foreign /\ received' = received
  BY DEF TakenBack, Goto
<1>2. w \in {"stopping", "requeue"}
  OBVIOUS
<1> HIDE DEF w
<1>3. pi' \in Agents /\ (pi'.aborting => pi'.streaming)
  <2>1. pi \in Agents /\ (pi.aborting => pi.streaming)
    BY DEF Inv, Typed
  <2>2. CASE stop
    BY <1>1, <2>1, <2>2 DEF Agents
  <2>3. CASE ~stop
    BY <1>1, <2>1, <2>3 DEF Agents
  <2> QED BY <2>2, <2>3
<1>4. op \in [Ops -> Hands] /\ op[o] \in Hands /\ tracker \in Trackers /\ Apart(tracker)
      /\ op[o].returned \in Queues /\ tracker.nextId \in Nat
  BY DEF Inv, Typed, Hands, Trackers
<1>5. op' = [op EXCEPT ![o] = h]
  BY <1>1, <1>4
<1>6. Follows(tracker, tracker') /\ tracker'.entries = <<>> /\ Kept(tracker, tracker', r.kept)
  <2>1. Lists(op[o].returned) \in [steer : Seq(PiTexts), followUp : Seq(PiTexts)]
    BY <1>4, ListsTyped DEF Queues
  <2> QED BY <1>1, <1>4, <2>1, TakeBackFollows
<1> DEFINE back == r.kept
<1>7. /\ back \in Seq(Entries) /\ Unique(back) /\ Disjoint(back, tracker'.expectations)
      /\ Under(back, tracker'.nextId) /\ tracker'.nextId \in Nat
      /\ \A id, x : id < tracker.nextId /\ Entered(back, id, x) => Names(tracker, id, x)
  BY <1>6 DEF Kept, Follows, Trackers
<1>8. /\ kept \in Seq(Entries) /\ Unique(kept)
      /\ \A k \in DOMAIN kept : \E i \in DOMAIN back :
           /\ kept[k].id = back[i].id
           /\ SourceOf(kept[k]) = SourceOf(back[i]) \/ (Does[o] = "edit" /\ SourceOf(kept[k]).from = o)
  BY <1>7, RewrittenKeeps DEF Inv
<1> HIDE DEF r, kept, back
<1>9. Disjoint(kept, tracker'.expectations) /\ Under(kept, tracker'.nextId)
  BY <1>7, <1>8 DEF Disjoint, Under
<1>10. ASSUME NEW id, NEW x, id < tracker.nextId, Entered(kept, id, x)
       PROVE  Names(tracker, id, x) \/ Does[x] = "edit"
  <2>1. PICK k \in DOMAIN kept : kept[k].id = id /\ SourceOf(kept[k]).from = x
    BY <1>10 DEF Entered
  <2>2. PICK i \in DOMAIN back :
          /\ kept[k].id = back[i].id
          /\ SourceOf(kept[k]) = SourceOf(back[i]) \/ (Does[o] = "edit" /\ SourceOf(kept[k]).from = o)
    BY <1>8
  <2>3. CASE SourceOf(kept[k]) = SourceOf(back[i])
    <3>1. Entered(back, id, x)
      BY <2>1, <2>2, <2>3 DEF Entered
    <3> QED BY <1>7, <1>10, <3>1
  <2> QED BY <2>1, <2>2, <2>3
<1>11. /\ first \in Seq(Entries) /\ rest \in Seq(Entries)
       /\ \A k \in DOMAIN first : \E i \in DOMAIN kept : kept[i] = first[k]
       /\ \A k \in DOMAIN rest : \E i \in DOMAIN kept : kept[i] = rest[k]
       /\ Unique(first) /\ Unique(rest) /\ Disjoint(first, rest)
  <2>1. CASE split
    <3>1. first = <<Head(kept)>> /\ rest = Tail(kept) /\ kept # <<>>
      BY <2>1
    <3>2. /\ Tail(kept) \in Seq(Entries) /\ Head(kept) \in Entries /\ Unique(Tail(kept))
          /\ \A k \in DOMAIN Tail(kept) : \E i \in DOMAIN kept : kept[i] = Tail(kept)[k]
          /\ \E i \in DOMAIN kept : kept[i] = Head(kept)
          /\ Head(kept).id # 0 => \A k \in DOMAIN Tail(kept) : Tail(kept)[k].id # Head(kept).id
      BY <1>8, <3>1, UniqueTail
    <3>3. Head(kept).id # 0
      BY <3>2 DEF Entries
    <3>4. DOMAIN <<Head(kept)>> = {1} /\ <<Head(kept)>>[1] = Head(kept) /\ <<Head(kept)>> \in Seq(Entries)
      BY <3>2
    <3>5. Unique(<<Head(kept)>>) /\ Disjoint(<<Head(kept)>>, Tail(kept))
      BY <3>2, <3>3, <3>4 DEF Unique, Disjoint
    <3>6. \A k \in DOMAIN <<Head(kept)>> : \E i \in DOMAIN kept : kept[i] = <<Head(kept)>>[k]
      BY <3>2, <3>4
    <3> HIDE DEF first, rest, split
    <3> QED BY <3>1, <3>2, <3>4, <3>5, <3>6
  <2>2. CASE ~split
    <3>1. first = <<>> /\ rest = kept
      BY <2>2
    <3>2. DOMAIN <<>> = {} /\ <<>> \in Seq(Entries)
      OBVIOUS
    <3>3. Unique(<<>>) /\ Disjoint(<<>>, kept)
      BY <3>2 DEF Unique, Disjoint
    <3> HIDE DEF first, rest, split
    <3> QED BY <1>8, <3>1, <3>2, <3>3
  <2> QED BY <2>1, <2>2
<1> HIDE DEF first, rest, split, stop
<1>12. h \in Hands /\ h.first = first /\ h.rest = rest
  <2>1. Idle.returned \in Queues
    BY IdleTyped DEF Hands
  <2> QED BY <1>4, <1>11, <2>1 DEF Hands
<1> HIDE DEF h
<1>13. op' \in [Ops -> Hands] /\ op'[o] = h /\ \A p \in Ops \ {o} : op'[p] = op[p]
  BY <1>5, <1>12, OpSet DEF Inv
<1>14. w \in Places /\ w \in Locked /\ w \in Handing /\ w \notin {"called", "lock", "prepared", "taking"}
       /\ at[o] \in Past
  BY <1>1, <1>2 DEF Places, Locked, Past, Handing
<1>15. at' \in [Ops -> Places] /\ at'[o] = w /\ \A p \in Ops \ {o} : at'[p] = at[p]
  BY <1>1, <1>14, AtSet DEF Inv
<1>16. Locking'
  <2>1. Holds(o)
    BY <1>14 DEF Inv, Locking
  <2> QED BY <1>1, <1>14, <2>1, LockStays DEF Inv
<1>17. Typed'
  BY <1>1, <1>3, <1>6, <1>13, <1>15 DEF Inv, Typed, Follows
<1>18. \A p \in Ops : Handed(p)'
  BY <1>2, <1>13, <1>14, <1>15 DEF Handed, Inv
<1>19. \A p \in Ops \ {o} : op[p].first = <<>> /\ op[p].rest = <<>>
  BY <1>14, OthersEmpty
<1>20. ASSUME NEW p \in Ops PROVE Separate(p)'
  <2>1. CASE p = o
    <3>1. Disjoint(first, <<>>) /\ Disjoint(rest, <<>>)
      BY DEF Disjoint
    <3>2. Under(first, tracker'.nextId) /\ Under(rest, tracker'.nextId)
      BY <1>9, <1>11 DEF Under
    <3>3. Disjoint(first, tracker'.expectations) /\ Disjoint(rest, tracker'.expectations)
      BY <1>9, <1>11 DEF Disjoint
    <3> QED BY <1>6, <1>11, <1>12, <1>13, <2>1, <3>1, <3>2, <3>3 DEF Separate
  <2>2. CASE p # o
    <3>1. op'[p].first = <<>> /\ op'[p].rest = <<>>
      BY <1>13, <1>19, <2>2
    <3>2. \A s : Disjoint(<<>>, s)
      BY DEF Disjoint
    <3>3. Unique(<<>>) /\ Under(<<>>, tracker'.nextId)
      BY DEF Unique, Under
    <3> QED BY <3>1, <3>2, <3>3 DEF Separate
  <2> QED BY <2>1, <2>2
<1>21. ASSUME NEW id, NEW x, id # 0, id < tracker.nextId, Means(id, x)' PROVE Means(id, x) \/ Does[x] = "edit"
  <2>1. CASE Names(tracker', id, x)
    BY <1>6, <1>21, <2>1 DEF Follows, Means
  <2>2. ASSUME NEW p \in Ops, Carries(p, id, x)' PROVE Means(id, x) \/ Does[x] = "edit"
    <3>1. p = o
      BY <1>13, <1>19, <2>2 DEF Carries, Entered
    <3>2. Entered(first, id, x) \/ Entered(rest, id, x)
      BY <1>12, <1>13, <2>2, <3>1 DEF Carries
    <3>3. Entered(kept, id, x)
      BY <1>11, <3>2 DEF Entered
    <3> QED BY <1>10, <1>21, <3>3 DEF Means
  <2> QED BY <1>21, <2>1, <2>2 DEF Means
<1>22. ASSUME NEW p \in Ops PROVE Seen(p)'
  <2>1. ChangesStay(p)
    BY <1>13, <1>14, <1>15 DEF ChangesStay, Changing
  <2>2. tracker.nextId <= tracker'.nextId
    BY <1>6 DEF Follows
  <2> QED BY <1>17, <1>21, <2>1, <2>2, SeenKept DEF Inv
<1> QED BY <1>6, <1>16, <1>17, <1>18, <1>20, <1>22 DEF Inv, Follows

\* One is to be queued again, under its id.
LEMMA RequeuesKeeps == ASSUME Inv, NEW o \in Ops, Requeues(o) PROVE Inv'
<1> DEFINE e == Head(op[o].rest)
           t == Expect(tracker, SourceOf(e), e.kind, e.id)
<1>1. /\ at[o] = "requeue" /\ op[o].rest # <<>> /\ tracker' = t /\ pi' = pi
      /\ op' = [op EXCEPT ![o].giving = <<e>>, ![o].rest = Tail(@), ![o].to = pi.session]
      /\ at' = [at EXCEPT ![o] = "queueing"]
      /\ lock' = lock /\ replacing' = replacing /\ foreign' = foreign /\ received' = received
  BY DEF Requeues, Goto
<1>2. /\ op' \in [Ops -> Hands] /\ at' \in [Ops -> Places] /\ Locking'
      /\ op'[o].first = op[o].first /\ op'[o].rest = Tail(op[o].rest) /\ \A p \in Ops \ {o} : op'[p] = op[p]
      /\ \A p \in Ops : HandsOnly(p) /\ ChangesStay(p) /\ Handed(p)'
  BY <1>1, RestShortens
<1>3. pi \in Agents /\ (pi.aborting => pi.streaming) /\ tracker \in Trackers /\ Apart(tracker)
      /\ op[o].first \in Seq(Entries) /\ op[o].rest \in Seq(Entries) /\ op \in [Ops -> Hands]
      /\ tracker.nextId \in Nat
  BY DEF Inv, Typed, Hands, Trackers
<1>4. PICK i \in DOMAIN op[o].rest : op[o].rest[i] = e
  BY <1>1, <1>3, UniqueTail
<1>5. /\ e \in Entries /\ e.id \in Nat /\ e.id # 0 /\ e.id < tracker.nextId
      /\ \A k \in DOMAIN tracker.entries : tracker.entries[k].id # e.id
      /\ \A k \in DOMAIN tracker.expectations : tracker.expectations[k].id # e.id
  BY <1>3, <1>4, EntryIds DEF Inv, Separate, Disjoint
<1>6. e.kind \in Kinds /\ SourceOf(e) \in SourceSet /\ Item(SourceOf(e)) \in Items
  BY <1>5, SourceTyped DEF Entries
<1>7. /\ \A k \in DOMAIN Tail(op[o].rest) : Tail(op[o].rest)[k].id # e.id
      /\ \A k \in DOMAIN op[o].first : op[o].first[k].id # e.id
  <2>1. Unique(op[o].rest) /\ Disjoint(op[o].first, op[o].rest)
    BY DEF Inv, Separate
  <2>2. \A k \in DOMAIN Tail(op[o].rest) : Tail(op[o].rest)[k].id # e.id
    BY <1>1, <1>3, <1>5, <2>1, UniqueTail
  <2> QED BY <1>4, <2>1, <2>2 DEF Disjoint
<1> HIDE DEF e
<1>8. /\ t \in Trackers /\ Apart(t) /\ t.nextId = tracker.nextId
      /\ \A n, x : n # 0 /\ Names(t, n, x) => Names(tracker, n, x) \/ (n = e.id /\ x = SourceOf(e).from)
  BY <1>3, <1>5, <1>6, ExpectKeeps
<1> HIDE DEF t
<1>13. Typed'
  BY <1>1, <1>2, <1>3, <1>8 DEF Inv, Typed
<1>14. \A n, x : n # 0 /\ n < tracker.nextId /\ Names(tracker', n, x) =>
                   Names(tracker, n, x) \/ (n = e.id /\ x = SourceOf(e).from)
  BY <1>1, <1>8
<1>15. op'[o].first = op[o].first /\ op'[o].rest = Tail(op[o].rest) /\ \A p \in Ops \ {o} : op'[p] = op[p]
  BY <1>2
<1>16. \A p \in Ops \ {o} : op[p].first = <<>> /\ op[p].rest = <<>>
  BY <1>1, OthersEmpty DEF Past
<1>17. tracker'.nextId \in Nat /\ tracker.nextId <= tracker'.nextId
  BY <1>1, <1>3, <1>8
<1>18. ASSUME NEW s \in Seq(Entries), NEW k \in DOMAIN s, Under(s, tracker.nextId), s[k].id # e.id,
              Disjoint(s, tracker.entries), Disjoint(s, tracker.expectations)
       PROVE  /\ s[k].id < tracker'.nextId
              /\ \A j \in DOMAIN tracker'.entries : s[k].id # tracker'.entries[j].id
              /\ \A j \in DOMAIN tracker'.expectations : s[k].id # tracker'.expectations[j].id
  <2>1. s[k].id \in Nat /\ s[k].id # 0 /\ s[k].id < tracker.nextId
    BY <1>3, <1>18, EntryIds
  <2>2. \A x : ~Names(tracker, s[k].id, x)
    BY <1>18 DEF Names, Entered, Expects, Disjoint
  <2>3. \A x : ~Names(tracker', s[k].id, x)
    BY <1>14, <1>18, <2>1, <2>2
  <2>4. s[k].id < tracker'.nextId
    BY <1>3, <1>17, <2>1
  <2> QED BY <2>3, <2>4 DEF Names, Entered, Expects
<1>19. ASSUME NEW p \in Ops PROVE Separate(p)'
  <2>1. Unique(op'[p].first) /\ Unique(op'[p].rest) /\ Disjoint(op'[p].first, op'[p].rest)
    BY <1>2 DEF HandsOnly
  <2>2. ASSUME NEW s \in Seq(Entries), Under(s, tracker.nextId), \A k \in DOMAIN s : s[k].id # e.id,
               Disjoint(s, tracker.entries), Disjoint(s, tracker.expectations)
        PROVE  Under(s, tracker'.nextId) /\ Disjoint(s, tracker'.entries) /\ Disjoint(s, tracker'.expectations)
    BY <1>18, <2>2 DEF Under, Disjoint
  <2>3. CASE p = o
    <3>1. /\ Under(op[o].first, tracker.nextId) /\ Disjoint(op[o].first, tracker.entries)
          /\ Disjoint(op[o].first, tracker.expectations)
          /\ Under(op[o].rest, tracker.nextId) /\ Disjoint(op[o].rest, tracker.entries)
          /\ Disjoint(op[o].rest, tracker.expectations)
      BY DEF Inv, Separate
    <3> DEFINE u == Tail(op[o].rest)
    <3>2. u \in Seq(Entries) /\ \A k \in DOMAIN u : \E m \in DOMAIN op[o].rest : op[o].rest[m] = u[k]
      BY <1>1, <1>3, UniqueTail
    <3> HIDE DEF u
    <3>3. Under(u, tracker.nextId) /\ Disjoint(u, tracker.entries) /\ Disjoint(u, tracker.expectations)
      BY <3>1, <3>2 DEF Under, Disjoint
    <3>4. Under(u, tracker'.nextId) /\ Disjoint(u, tracker'.entries) /\ Disjoint(u, tracker'.expectations)
      BY <1>7, <2>2, <3>2, <3>3 DEF u
    <3>5. /\ Under(op[o].first, tracker'.nextId) /\ Disjoint(op[o].first, tracker'.entries)
          /\ Disjoint(op[o].first, tracker'.expectations)
      BY <1>3, <1>7, <2>2, <3>1
    <3> QED BY <1>15, <2>1, <2>3, <3>4, <3>5 DEF Separate, u
  <2>4. CASE p # o
    <3>1. op'[p].first = <<>> /\ op'[p].rest = <<>>
      BY <1>15, <1>16, <2>4
    <3>2. \A s : Disjoint(<<>>, s)
      BY DEF Disjoint
    <3>3. Unique(<<>>) /\ Under(<<>>, tracker'.nextId)
      BY DEF Unique, Under
    <3> QED BY <3>1, <3>2, <3>3 DEF Separate
  <2> QED BY <2>3, <2>4
<1>20. ASSUME NEW id, NEW x, id # 0, id < tracker.nextId, Means(id, x)' PROVE Means(id, x)
  <2>1. Carries(o, e.id, SourceOf(e).from)
    BY <1>4 DEF Carries, Entered
  <2>2. CASE Names(tracker', id, x)
    BY <1>14, <1>20, <2>1, <2>2 DEF Means
  <2>3. ASSUME NEW p \in Ops, Carries(p, id, x)' PROVE Means(id, x)
    <3>1. p = o
      BY <1>15, <1>16, <2>3 DEF Carries, Entered
    <3>2. Entered(op[o].first, id, x) \/ Entered(Tail(op[o].rest), id, x)
      BY <1>15, <2>3, <3>1 DEF Carries
    <3>3. Entered(Tail(op[o].rest), id, x) => Entered(op[o].rest, id, x)
      <4>1. \A k \in DOMAIN Tail(op[o].rest) : \E m \in DOMAIN op[o].rest : op[o].rest[m] = Tail(op[o].rest)[k]
        BY <1>1, <1>3, UniqueTail
      <4> QED BY <4>1 DEF Entered
    <3> QED BY <3>2, <3>3 DEF Means, Carries
  <2> QED BY <1>20, <2>2, <2>3 DEF Means
<1>21. ASSUME NEW p \in Ops PROVE Seen(p)'
  BY <1>2, <1>13, <1>17, <1>20, SeenKept DEF Inv
<1> QED BY <1>1, <1>2, <1>8, <1>13, <1>19, <1>21 DEF Inv

-----------------------------------------------------------------------------
(* The theorems                                                            *)

\* At first nothing waits, and nothing is queued.
LEMMA InvInit == Init => Inv
<1> SUFFICES ASSUME Init PROVE Inv
  OBVIOUS
<1>1. <<>> \in Seq(Entries) /\ <<>> \in Seq(Expectations) /\ <<>> \in Seq(Ops) /\ <<>> \in Seq(Items)
      /\ <<>> \in Seq([from : Froms, swallowed : BOOLEAN])
  OBVIOUS
<1>2. /\ tracker \in Trackers /\ tracker.entries = <<>> /\ tracker.expectations = <<>>
  BY <1>1 DEF Init, EmptyTracker, Trackers
<1>3. pi \in Agents /\ (pi.aborting => pi.streaming)
  <2>1. pi \in [streaming : BOOLEAN, aborting : {FALSE}, bound : BOOLEAN, session : {1},
               steer : {<<>>}, followUp : {<<>>}]
    BY DEF Init
  <2>2. <<>> \in Seq(Items) /\ 1 \in Nat
    OBVIOUS
  <2> QED BY <2>1, <2>2 DEF Agents
<1>4. op \in [Ops -> Hands] /\ \A o \in Ops : op[o].first = <<>> /\ op[o].rest = <<>>
  BY IdleTyped DEF Init
<1>5. PICK pool \in Pools : /\ at = [o \in Ops |-> IF o \in pool.ops THEN "unsent" ELSE "done"]
                            /\ foreign = pool.foreign
  BY DEF Init
<1>6. at \in [Ops -> Places] /\ \A o \in Ops : at[o] \in {"unsent", "done"}
  BY <1>5 DEF Places
<1>7. foreign \subseteq Foreign
  BY <1>5, PromptQueueAssumption DEF PromptQueueAssumption
<1>8. lock = <<>> /\ replacing = FALSE /\ received = <<>> /\ DOMAIN lock = {}
  BY DEF Init
<1>9. Typed
  BY <1>1, <1>2, <1>3, <1>4, <1>6, <1>7, <1>8 DEF Typed
<1>10. Locking
  BY <1>6, <1>8 DEF Locking, Past
<1>11. Unique(<<>>) /\ (\A s : Disjoint(<<>>, s)) /\ (\A n : Under(<<>>, n))
  BY DEF Unique, Disjoint, Under
<1>12. Apart(tracker)
  BY <1>2, <1>11 DEF Apart
<1>13. \A o \in Ops : Handed(o) /\ Separate(o) /\ Seen(o)
  <2>1. \A o \in Ops : Separate(o)
    BY <1>4, <1>11 DEF Separate
  <2> QED BY <1>4, <1>6, <2>1 DEF Handed, Seen, Changing
<1> QED BY <1>9, <1>10, <1>12, <1>13 DEF Inv

\* Every step keeps it.
LEMMA InvNext == Inv /\ [Next]_vars => Inv'
<1> SUFFICES ASSUME Inv, [Next]_vars PROVE Inv'
  OBVIOUS
<1>1. ASSUME NEW o \in Ops, Arrives(o) PROVE Inv'
  BY <1>1, PromptArrivesKeeps, AbortArrivesKeeps, RewriteArrivesKeeps, NewSessionArrivesKeeps DEF Arrives
<1>2. ASSUME NEW o \in Ops, Server(o) PROVE Inv'
  <2>1. CASE AbortTakes(o) \/ SendNowTakes(o) \/ RemoveTakes(o)
    BY <2>1, ClearKeeps DEF AbortTakes, SendNowTakes, RemoveTakes, Granted
  <2>2. CASE EditTakes(o)
    <3>1. Holds(o)
      BY <2>2 DEF EditTakes, Inv, Locking, Past
    <3> QED BY <2>2, <3>1, ClearKeeps DEF EditTakes
  <2>3. CASE PromptSent(o) \/ AbortFindsNothing(o) \/ LateRelease(o) \/ EditPrepares(o) \/ RewriteRefused(o)
    BY <2>3, PromptSentKeeps, AbortFindsNothingKeeps, LateReleaseKeeps, EditPreparesKeeps, RewriteRefusedKeeps
  <2>4. CASE TakenBack(o) \/ StopEnds(o) \/ StopTimesOut(o) \/ Requeues(o) \/ RequeueOver(o) \/ SessionReplaced(o)
    BY <2>4, TakenBackKeeps, StopEndsKeeps, StopTimesOutKeeps, RequeuesKeeps, RequeueOverKeeps, SessionReplacedKeeps
  <2> QED BY <1>2, <2>1, <2>2, <2>3, <2>4 DEF Server
<1>3. ASSUME NEW o \in Ops, Answers(o) PROVE Inv'
  BY <1>3, PiPromptsKeeps, PiRefusesKeeps, PiQueuesKeeps, PiReplacesKeeps DEF Answers
<1>4. ASSUME NEW o \in Ops, Fails(o) \/ AbortGivesUp(o) PROVE Inv'
  BY <1>4, ClearFailsKeeps, RequeueFailsKeeps, AbortGivesUpKeeps DEF Fails
<1>5. CASE PiBinds \/ PiReads \/ PiEnds
  BY <1>5, PiTurnsKeep, PiReadsKeeps
<1>6. ASSUME NEW f \in Foreign, PiForeign(f) PROVE Inv'
  BY <1>6, PiForeignKeeps
<1>7. CASE UNCHANGED vars
  <2>1. tracker' = tracker /\ lock' = lock /\ at' = at /\ op' = op /\ replacing' = replacing /\ pi' = pi
        /\ foreign' = foreign /\ received' = received
    BY <1>7 DEF vars
  <2>2. Typed'
    BY <2>1 DEF Inv, Typed
  <2>3. Follows(tracker, tracker')
    BY <2>1, ForgetsFollow DEF Inv, Typed
  <2> QED BY <2>1, <2>2, <2>3, AllStay, Quiet
<1> QED BY <1>1, <1>2, <1>3, <1>4, <1>5, <1>6, <1>7 DEF Next

\* So it is always so.
LEMMA InvAlways == Spec => []Inv
BY InvInit, InvNext, PTL DEF Spec

(* Whatever the messages, the texts pi makes of theirs, the extensions' and the faults, every variable *)
(* keeps its shape, and one operation at a time is past the queue's lock, though a stop gives the lock  *)
(* up, lets go a prompt that holds it, or a replacement of the session takes no lock.                   *)
THEOREM PromptsTypeCorrect == Spec => []TypeOK
<1>1. Inv => TypeOK
  <2> SUFFICES ASSUME Inv PROVE TypeOK
    OBVIOUS
  <2>1. /\ tracker.entries \in Seq(Entries) /\ tracker.suspended \in BOOLEAN
        /\ tracker.expectations \in Seq([source : SourceSet, kind : Kinds, id : Nat])
    BY DEF Inv, Typed, Trackers, Expectations
  <2>2. ToSet(lock) \subseteq Ops
    BY DEF Inv, Typed, ToSet
  <2>3. \A o \in Ops : at[o] \in {"called", "prepared", "taking", "stopping", "requeue", "queueing"} => Holds(o)
    BY DEF Inv, Locking, Past
  <2>4. pi.steer \in Seq(Items) /\ pi.followUp \in Seq(Items) /\ (pi.aborting => pi.streaming)
    BY DEF Inv, Typed, Agents
  <2>5. \A i \in DOMAIN received : received[i] \in [from : Froms, swallowed : BOOLEAN]
    <3> DEFINE T == [from : Froms, swallowed : BOOLEAN]
    <3>1. received \in Seq(T)
      BY DEF Inv, Typed
    <3> HIDE DEF T
    <3>2. \A i \in DOMAIN received : received[i] \in T
      BY <3>1
    <3> QED BY <3>2 DEF T
  <2>6. at \in [Ops -> Places] /\ replacing \in BOOLEAN
    BY DEF Inv, Typed
  <2> QED BY <2>1, <2>2, <2>3, <2>4, <2>5, <2>6 DEF TypeOK
<1> QED BY <1>1, InvAlways, PTL

\* A step other than its take-back leaves an operation where it is, while pi gives its queue back.
LEMMA StaysTaking ==
  ASSUME Inv, Next, NEW o \in Ops, at[o] = "taking", ~TakenBack(o)
  PROVE  at'[o] = "taking"
<1>0. at \in [Ops -> Places]
  BY DEF Inv, Typed
<1>1. ASSUME NEW p \in Ops, NEW w, at' = [at EXCEPT ![p] = w], p # o PROVE at'[o] = "taking"
  BY <1>0, <1>1
<1>2. ASSUME NEW p \in Ops, NEW where, AbortNow(p, where), p # o PROVE at'[o] = "taking"
  <2>1. o \notin Waiting
    BY DEF Waiting
  <2> QED BY <1>2, <2>1 DEF AbortNow
<1>3. ASSUME NEW p \in Ops, Arrives(p) PROVE at'[o] = "taking"
  <2>1. p # o
    BY <1>3 DEF Arrives, PromptArrives, AbortArrives, RewriteArrives, NewSessionArrives
  <2>2. \/ \E w : at' = [at EXCEPT ![p] = w]
        \/ AbortNow(p, "done")
    BY <1>3 DEF Arrives, PromptArrives, AbortArrives, RewriteArrives, NewSessionArrives, Goto, WaitForLock
  <2> QED BY <1>1, <1>2, <2>1, <2>2
<1>4. ASSUME NEW p \in Ops, Server(p) PROVE at'[o] = "taking"
  <2>1. CASE p = o
    BY <1>4, <2>1 DEF Server, Granted, PromptSent, AbortFindsNothing, AbortTakes, LateRelease, SendNowTakes,
       RemoveTakes, EditPrepares, EditTakes, RewriteRefused, StopEnds, StopTimesOut, Requeues, RequeueOver,
       SessionReplaced
  <2>2. CASE p # o
    <3>1. \/ \E w : at' = [at EXCEPT ![p] = w]
          \/ AbortNow(p, "done")
          \/ at' = at
      BY <1>4 DEF Server, PromptSent, AbortFindsNothing, AbortTakes, LateRelease, SendNowTakes,
         RemoveTakes, EditPrepares, EditTakes, RewriteRefused, TakenBack, StopEnds, StopTimesOut, Requeues,
         RequeueOver, SessionReplaced, Goto, Finish, Clear, Call
    <3> QED BY <1>1, <1>2, <2>2, <3>1
  <2> QED BY <2>1, <2>2
<1>5. ASSUME NEW p \in Ops, Answers(p) PROVE at'[o] = "taking"
  <2>1. p # o
    BY <1>5 DEF Answers, PiPrompts, PiRefuses, PiQueues, PiReplaces
  <2>2. \E w : at' = [at EXCEPT ![p] = w]
    BY <1>5 DEF Answers, PiPrompts, PiRefuses, PiQueues, PiReplaces, NextToRequeue, Goto, Finish
  <2> QED BY <1>1, <2>1, <2>2
<1>6. ASSUME NEW p \in Ops, Fails(p) \/ AbortGivesUp(p) PROVE at'[o] = "taking"
  <2>1. CASE RequeueFails(p)
    BY <1>1, <2>1 DEF RequeueFails, NextToRequeue, Goto
  <2>2. CASE ClearFails(p)
    BY <1>1, <2>2 DEF ClearFails, Granted, Finish
  <2>3. CASE AbortGivesUp(p)
    BY <1>2, <2>3 DEF AbortGivesUp
  <2> QED BY <1>6, <2>1, <2>2, <2>3 DEF Fails
<1>7. CASE PiBinds \/ PiReads \/ PiEnds \/ \E f \in Foreign : PiForeign(f)
  BY <1>7 DEF PiBinds, PiReads, PiEnds, PiForeign
<1> QED BY <1>3, <1>4, <1>5, <1>6, <1>7 DEF Next

\* What a change withdraws had the id that the change names.
LEMMA WithdrawsWhatItNames ==
  ASSUME Inv, NEW o \in Ops, TakenBack(o), Does[o] \in {"edit", "remove"}, NEW x \in gone' \ gone
  PROVE  Same(o, x)
<1> DEFINE r == TakeBack(tracker, Lists(op[o].returned))
           back == r.kept
           hit == {SourceOf(back[i]).from : i \in {j \in DOMAIN back : back[j].id = op[o].target}}
<1>1. at[o] = "taking" /\ Withdraw(o, back)
  BY DEF TakenBack
<1>2. tracker \in Trackers /\ Apart(tracker) /\ op[o].returned \in Queues
  BY DEF Inv, Typed, Hands
<1>3. Kept(tracker, r.tracker, back)
  <2>1. Lists(op[o].returned) \in [steer : Seq(PiTexts), followUp : Seq(PiTexts)]
    BY <1>2, ListsTyped DEF Queues
  <2> QED BY <1>2, <2>1, TakeBackFollows
<1> HIDE DEF r, back
<1>4. x \in hit
  <2>1. hit # {} /\ gone' = gone \cup {CHOOSE y \in hit : TRUE}
    BY <1>1 DEF Withdraw
  <2> HIDE DEF hit
  <2> QED BY <2>1
<1>5. Entered(back, op[o].target, x)
  BY <1>4 DEF Entered
<1>6. Changing(o)
  BY <1>1 DEF Changing
<1>7. op[o].target < tracker.nextId /\ \A y : Means(op[o].target, y) => Same(o, y)
  BY <1>6 DEF Inv, Seen
<1>8. Names(tracker, op[o].target, x)
  BY <1>3, <1>5, <1>7 DEF Kept
<1> QED BY <1>7, <1>8 DEF Means

(* Whatever is queued, taken back, edited, sent now or stopped in the meantime, and however pi merges  *)
(* texts, a change that takes effect withdraws what its user saw under the id, or an edit of it.        *)
THEOREM ChangesHit == Spec => ChangesHitWhatWasSeen
<1> DEFINE Step == \A o \in Ops : at[o] = "taking" /\ at'[o] # "taking" /\ Does[o] \in {"edit", "remove"} =>
                     \A x \in gone' \ gone : x = op[o].saw \/ Does[x] = "edit"
<1>1. Inv /\ [Next]_vars => [Step]_vars
  <2> SUFFICES ASSUME Inv, Next,
                      NEW o \in Ops, at[o] = "taking", at'[o] # "taking", Does[o] \in {"edit", "remove"},
                      NEW x \in gone' \ gone
               PROVE  x = op[o].saw \/ Does[x] = "edit"
    OBVIOUS
  <2>1. TakenBack(o)
    BY StaysTaking
  <2> QED BY <2>1, WithdrawsWhatItNames DEF Same
<1>2. Spec => [][Step]_vars
  BY <1>1, InvAlways, PTL DEF Spec
<1> QED BY <1>2 DEF ChangesHitWhatWasSeen
=============================================================================
