--------------------------- MODULE QueuedPrompts ---------------------------
(***************************************************************************)
(* The server's copy of the agent's prompt queue: queuedPrompts.ts.        *)
(*                                                                         *)
(* The agent (pi) names its queued messages by their text alone and        *)
(* reports whole lists.  The tracker works out, from two lists of texts,   *)
(* which of its entries were delivered and which are new, and which of the *)
(* prompts the server is sending a new text is.  These are its methods, as *)
(* operators on the tracker's state.                                       *)
(***************************************************************************)
EXTENDS Integers, Sequences, SequencesExt, FiniteSets

CONSTANT NoSource    \* the source of an entry some extension queued

Kinds == {"steer", "followUp"}

\* An entry is [id, kind, piText, source]; an expectation [source, kind, id], id 0 when it has none.
EmptyTracker == [entries |-> <<>>, expectations |-> <<>>, suspended |-> FALSE, nextId |-> 1]

Expect(t, source, kind, id) ==
  [t EXCEPT !.expectations = Append(@, [source |-> source, kind |-> kind, id |-> id])]

\* `settle` finds its expectation by identity; equal ones are interchangeable here.
Settle(t, source, kind, id, queued) ==
  IF queued THEN t
  ELSE [t EXCEPT !.expectations = RemoveFirst(@, [source |-> source, kind |-> kind, id |-> id])]

Suspend(t) == [t EXCEPT !.suspended = TRUE]
Resume(t)  == [t EXCEPT !.suspended = FALSE]
Reset(t)   == [t EXCEPT !.entries = <<>>, !.expectations = <<>>, !.suspended = FALSE]

HasForeign(t) == \E i \in DOMAIN t.entries : t.entries[i].source = NoSource

----------------------------------------------------------------------------
Times(texts, x) == Cardinality({i \in DOMAIN texts : texts[i] = x})
Rank(texts, i)  == Cardinality({j \in 1..i : texts[j] = texts[i]})

\* Our entries of one kind, by their places; of those, the ones with one text, and the how manieth
\* of them one is.
Ours(t, kind) == {i \in DOMAIN t.entries : t.entries[i].kind = kind}
Alike(t, kind, x) == {i \in Ours(t, kind) : t.entries[i].piText = x}
Place(t, kind, i) == Cardinality({k \in Alike(t, kind, t.entries[i].piText) : k <= i})
\* How many of ours with a text pi no longer holds.
Surplus(t, kind, list, x) ==
  LET n == Cardinality(Alike(t, kind, x)) - Times(list, x) IN IF n > 0 THEN n ELSE 0
\* The entry that a text of pi's list is: the first of ours with it that was not delivered, the next
\* time the second.
OurOf(t, kind, list, j) ==
  {i \in Alike(t, kind, list[j]) : Place(t, kind, i) = Rank(list, j) + Surplus(t, kind, list, list[j])}

(***************************************************************************)
(* A text in pi's list that none of our entries accounts for: the first    *)
(* expectation of its queue with that very text, else the first of its     *)
(* queue, else an extension's message.                                     *)
(***************************************************************************)
Adopt(acc, kind, text) ==
  LET same  == {i \in DOMAIN acc.expectations : acc.expectations[i].kind = kind}
      exact == {i \in same : acc.expectations[i].source.text = text}
      first(S) == CHOOSE i \in S : \A j \in S : i <= j
      entry(id, source) == [id |-> id, kind |-> kind, piText |-> text, source |-> source]
  IN  IF same = {}
      THEN [acc EXCEPT !.kept = Append(@, entry(acc.nextId, NoSource)), !.nextId = @ + 1]
      ELSE LET i == first(IF exact # {} THEN exact ELSE same)
               e == acc.expectations[i]
           IN  [kept |-> Append(acc.kept, entry(IF e.id # 0 THEN e.id ELSE acc.nextId, e.source)),
                expectations |-> RemoveAt(acc.expectations, i),
                nextId |-> IF e.id # 0 THEN acc.nextId ELSE acc.nextId + 1]

(***************************************************************************)
(* One kind's entries against pi's list of it.  Per text, the first of     *)
(* ours that pi no longer holds were delivered; what pi holds beyond ours  *)
(* is new.                                                                 *)
(***************************************************************************)
Keep(t, kind, list, acc, j) ==
  IF OurOf(t, kind, list, j) = {} THEN Adopt(acc, kind, list[j])
  ELSE [acc EXCEPT !.kept = Append(@, t.entries[CHOOSE i \in OurOf(t, kind, list, j) : TRUE])]

Reconcile(t, kind, list) ==
  LET after[j \in 0..Len(list)] ==
        IF j = 0 THEN [kept |-> <<>>, expectations |-> t.expectations, nextId |-> t.nextId]
        ELSE Keep(t, kind, list, after[j - 1], j)
      left(i) == /\ t.entries[i].kind = kind
                 /\ Place(t, kind, i) <= Surplus(t, kind, list, t.entries[i].piText)
      gone == SelectSeq([i \in DOMAIN t.entries |-> i], left)
  IN  [new |-> after[Len(list)], delivered |-> [k \in DOMAIN gone |-> t.entries[gone[k]]]]

\* Both queues; the tracker after it, with what was kept as its entries, and what was delivered.
ReconcileBoth(t, lists) ==
  LET s == Reconcile(t, "steer", lists.steer)
      f == Reconcile([t EXCEPT !.expectations = s.new.expectations, !.nextId = s.new.nextId],
                     "followUp", lists.followUp)
  IN  [tracker   |-> [t EXCEPT !.entries = s.new.kept \o f.new.kept,
                               !.expectations = f.new.expectations, !.nextId = f.new.nextId],
       delivered |-> s.delivered \o f.delivered]

\* pi reported its queue.
Update(t, lists) ==
  IF t.suspended THEN [tracker |-> t, delivered |-> <<>>] ELSE ReconcileBoth(t, lists)

\* Mutant: ids start again after a take-back.
TakeBack_RestartIds(t, lists) ==
  LET r == ReconcileBoth(t, lists)
  IN  [tracker   |-> [r.tracker EXCEPT !.entries = <<>>, !.suspended = FALSE, !.nextId = 1],
       delivered |-> r.delivered,
       kept      |-> r.tracker.entries]

\* pi gave its whole queue back: what it held is kept, for the caller to queue again.
TakeBack(t, lists) ==
  LET r == ReconcileBoth(t, lists)
  IN  [tracker   |-> [r.tracker EXCEPT !.entries = <<>>, !.suspended = FALSE],
       delivered |-> r.delivered,
       kept      |-> r.tracker.entries]
============================================================================
