---------------------------- MODULE PromptQueue ----------------------------
(***************************************************************************)
(* Prompts, the agent's queue and every operation that rewrites it, in one *)
(* workspace on the embedded runtime: handlePrompt, abortTurn,             *)
(* sendQueueNow, changeQueuedPrompt and replaceSession of index.ts, over   *)
(* the tracker of queuedPrompts.ts.                                        *)
(*                                                                         *)
(* An operation is one client message.  One action is the code between two *)
(* awaits; everything else may happen while an operation waits.  pi itself *)
(* is external: it reads its queue while a turn runs, keeps it when a turn *)
(* is aborted, and reports its whole queue after every change, which the   *)
(* embedded runtime hands to the server in the same call.                  *)
(***************************************************************************)
EXTENDS QueuedPrompts

CONSTANTS
  Ops,             \* the client messages, each sent at most once
  Does,            \* what each asks for
  Says,            \* the text of a prompt or an edit
  PiText,          \* pi's own string for a text it is sent (it expands templates)
  Foreign,         \* messages extensions queue: [text, kind]
  Pools,           \* bound: the messages that meet; a behaviour has those of one pool
  MaxFaults        \* bound: prompts refused, messages not queued again, take-backs that fail

Requests == {"prompt", "abort", "sendNow", "edit", "remove", "newSession"}
Texters  == {o \in Ops : Does[o] \in {"prompt", "edit"}}

ASSUME PromptQueueAssumption ==
  /\ Does \in [Ops -> Requests]
  /\ DOMAIN Says = Texters
  /\ \A t \in DOMAIN PiText : PiText[t] \in DOMAIN PiText
  /\ {Says[o] : o \in Texters} \cup {f.text : f \in Foreign} \subseteq DOMAIN PiText
  /\ \A f \in Foreign : f.kind \in Kinds
  /\ MaxFaults \in Nat
  /\ \A pool \in Pools : pool.ops \subseteq Ops /\ pool.foreign \subseteq Foreign
  /\ NoSource \notin Ops
  /\ NoSource \notin [text : DOMAIN PiText, from : Texters \cup {NoSource}]

VARIABLES
  tracker,    \* queuedPrompts.ts
  lock,       \* queueLock: the operations waiting for it, the holder first
  at,         \* per operation, the await it is at
  op,         \* per operation, the values its code holds across awaits
  replacing,  \* replacingSession
  pi,         \* external: [streaming, aborting, bound, session, steer, followUp]
  foreign,    \* external: what extensions have not queued yet
  shown,      \* the user bubbles broadcast
  received,   \* what the agent read, in order: [from, swallowed]
  sent,       \* history: the messages in the order they are due, an edited one in its place
  gone,       \* history: texts refused, withdrawn, or whose loss was told
  faults

vars == <<tracker, lock, at, op, replacing, pi, foreign, shown, received, sent, gone, faults>>

\* A source is [text, from]: the text sent, and the operation whose user typed it.
Source(o)   == [text |-> Says[o], from |-> o]
SourceOf(e) == IF e.source = NoSource THEN [text |-> e.piText, from |-> NoSource] ELSE e.source
Item(s)     == [text |-> PiText[s.text], from |-> s.from]

Texts(items) == [i \in DOMAIN items |-> items[i].text]
Lists(q)     == [steer |-> Texts(q.steer), followUp |-> Texts(q.followUp)]
Bubbles(entries) ==
  LET own == SelectSeq(entries, LAMBDA e : e.source # NoSource)
  IN  [i \in DOMAIN own |-> own[i].source.from]

Idle == [to |-> 0, target |-> 0, saw |-> NoSource, guards |-> {}, returned |-> [steer |-> <<>>, followUp |-> <<>>],
         first |-> <<>>, giving |-> <<>>, rest |-> <<>>]

Init ==
  /\ tracker = EmptyTracker
  /\ lock = <<>>
  /\ \E pool \in Pools :
       /\ at = [o \in Ops |-> IF o \in pool.ops THEN "unsent" ELSE "done"]
       /\ foreign = pool.foreign
  /\ op = [o \in Ops |-> Idle]
  /\ replacing = FALSE
  /\ pi \in [streaming : BOOLEAN, aborting : {FALSE}, bound : BOOLEAN, session : {1},
             steer : {<<>>}, followUp : {<<>>}]
  /\ pi.streaming => pi.bound
  /\ shown = <<>>
  /\ received = <<>>
  /\ sent = <<>>
  /\ gone = {}
  /\ faults = 0

----------------------------------------------------------------------------
Holds(o)  == lock # <<>> /\ Head(lock) = o
Granted(o, request) == Holds(o) /\ at[o] = "lock" /\ Does[o] = request
WaitForLock(o) == lock' = Append(lock, o) /\ at' = [at EXCEPT ![o] = "lock"]
Goto(o, where) == at' = [at EXCEPT ![o] = where]
\* The operation is over: it releases the lock and keeps nothing.
Finish(o) ==
  /\ at' = [at EXCEPT ![o] = "done"]
  /\ op' = [op EXCEPT ![o] = Idle]
  /\ lock' = Tail(lock)
Fault == faults < MaxFaults /\ faults' = faults + 1

\* A report of pi's queue q, read with the tracker t.
Hear(t, q) ==
  LET u == Update(t, Lists(q))
  IN  tracker' = u.tracker /\ shown' = shown \o Bubbles(u.delivered)

----------------------------------------------------------------------------
(* A prompt.                                                                *)

\* The message arrives; handlePrompt claims the lock before its first await.
PromptArrives(o) ==
  /\ at[o] = "unsent" /\ Does[o] = "prompt"
  /\ IF replacing
     THEN Goto(o, "done") /\ gone' = gone \cup {o} /\ UNCHANGED <<lock, sent>>
     ELSE WaitForLock(o) /\ sent' = Append(sent, o) /\ UNCHANGED gone
  /\ UNCHANGED <<tracker, op, replacing, pi, foreign, shown, received, faults>>

\* promptOnce: the source is expected, and the prompt called; unbound, the runtime holds it back.
Call(o, t) ==
  /\ Goto(o, "called")
  /\ op' = [op EXCEPT ![o].to = IF pi.bound THEN pi.session ELSE 0]

\* The lock is granted, the text prepared.
PromptSent(o) ==
  /\ Granted(o, "prompt")
  /\ tracker' = Expect(tracker, Source(o), "steer", 0)
  /\ Call(o, tracker)
  /\ UNCHANGED <<lock, replacing, pi, foreign, shown, received, sent, gone, faults>>

\* What the operation is prompting with.
Sending(o) == IF Does[o] = "prompt" THEN Source(o) ELSE SourceOf(Head(op[o].first))

\* Mutant: the bubble is echoed on acceptance, queued or not.
PiPrompts_EchoQueued(o) ==
  /\ at[o] = "called" /\ pi.bound /\ op[o].to \in {0, pi.session}
  /\ \A x \in Ops : at[x] # "rebinding"
  /\ shown' = Append(shown, Sending(o).from)
  /\ IF pi.streaming
     THEN /\ pi' = [pi EXCEPT !.steer = Append(@, Item(Sending(o)))]
          /\ tracker' = Update(tracker, Lists(pi')).tracker
          /\ UNCHANGED received
     ELSE /\ pi' = [pi EXCEPT !.streaming = TRUE, !.aborting = FALSE]
          /\ received' = Append(received, [from |-> Sending(o).from, swallowed |-> FALSE])
          /\ tracker' = Settle(tracker, Sending(o), "steer", 0, FALSE)
  /\ Finish(o)
  /\ UNCHANGED <<replacing, foreign, sent, gone, faults>>

Own(items) == SelectSeq([i \in DOMAIN items |-> items[i].from], LAMBDA x : x # NoSource)
\* The history when x starts a turn: ahead of what pi was left holding, which goes along with it.
GoesAhead(x) ==
  LET left   == ToSet(Own(pi.steer \o pi.followUp))
      others == SelectSeq(sent, LAMBDA y : y # x)
      behind == {i \in DOMAIN others : others[i] \in left}
  IN  IF x = NoSource \/ behind = {} THEN sent
      ELSE InsertAt(others, CHOOSE i \in behind : \A j \in behind : i <= j, x)

\* pi accepts it: queued behind the running turn, or the start of a turn.  A replacement is announced
\* once its extensions bound, or before: ahead of any prompt that waited for them.
PiPrompts(o) ==
  /\ at[o] = "called" /\ pi.bound /\ op[o].to \in {0, pi.session}
  /\ \A x \in Ops : at[x] # "rebinding"
  /\ IF pi.streaming
     THEN /\ pi' = [pi EXCEPT !.steer = Append(@, Item(Sending(o)))]
          /\ Hear(tracker, pi')
          /\ UNCHANGED <<received, sent>>
     ELSE /\ pi' = [pi EXCEPT !.streaming = TRUE, !.aborting = FALSE]
          /\ received' = Append(received, [from |-> Sending(o).from, swallowed |-> FALSE])
          /\ tracker' = Settle(tracker, Sending(o), "steer", 0, FALSE)
          /\ shown' = Append(shown, Sending(o).from)
          /\ sent' = GoesAhead(Sending(o).from)
  /\ Finish(o)
  /\ UNCHANGED <<replacing, foreign, gone, faults>>

\* It is refused, or an extension command handled it, or its session was replaced under it.
PiRefuses(o) ==
  /\ at[o] = "called"
  /\ \/ op[o].to = 0 /\ pi.bound /\ Fault
     \/ op[o].to = pi.session /\ Fault
     \/ op[o].to \notin {0, pi.session} /\ UNCHANGED faults
  /\ tracker' = Settle(tracker, Sending(o), "steer", 0, FALSE)
  /\ gone' = gone \cup {Sending(o).from}
  /\ Finish(o)
  /\ UNCHANGED <<replacing, pi, foreign, shown, received, sent>>

----------------------------------------------------------------------------
(* Stop.                                                                    *)

\* The runtime's abort: the turn ends soon, its queue kept; prompts it holds back are refused.
Waiting == {w \in Ops : at[w] = "called" /\ op[w].to = 0 /\ ~pi.bound}
AbortNow(o, where) ==
  LET over == Waiting \cup (IF where = "done" THEN {o} ELSE {})
  IN  /\ pi' = [pi EXCEPT !.aborting = pi.streaming]
      /\ at' = [x \in Ops |-> IF x \in over THEN "done" ELSE IF x = o THEN where ELSE at[x]]
      /\ op' = [x \in Ops |-> IF x \in over \cup {o} THEN Idle ELSE op[x]]
      /\ lock' = IF lock # <<>> /\ Head(lock) \in over THEN Tail(lock) ELSE lock
      /\ tracker' = IF Waiting = {} THEN tracker
                    ELSE Settle(tracker, Sending(CHOOSE w \in Waiting : TRUE), "steer", 0, FALSE)
      /\ gone' = gone \cup {Sending(w).from : w \in Waiting}
      /\ UNCHANGED <<replacing, foreign, shown, received, sent, faults>>

KeepQueue == pi.streaming /\ tracker.entries # <<>> /\ ~HasForeign(tracker)

AbortArrives(o) ==
  /\ at[o] = "unsent" /\ Does[o] = "abort"
  /\ \/ ~KeepQueue /\ AbortNow(o, "done")
     \/ /\ KeepQueue
        /\ WaitForLock(o)
        /\ op' = [op EXCEPT ![o].guards = IF pi.aborting THEN {}
                                           ELSE {tracker.entries[i].source.from : i \in DOMAIN tracker.entries}]
        /\ UNCHANGED <<tracker, replacing, pi, foreign, shown, received, sent, gone, faults>>

\* Mutant: the wait for the lock has no limit once no turn runs.
AbortGivesUp_InTurn(o) == at[o] = "lock" /\ Does[o] = "abort" /\ ~Holds(o) /\ pi.streaming /\ AbortNow(o, "late")

\* The lock did not come within a second: a plain stop, and the lock released when it comes.
AbortGivesUp(o) == at[o] = "lock" /\ Does[o] = "abort" /\ ~Holds(o) /\ AbortNow(o, "late")
LateRelease(o) ==
  /\ Holds(o) /\ at[o] = "late" /\ Finish(o)
  /\ UNCHANGED <<tracker, replacing, pi, foreign, shown, received, sent, gone, faults>>

\* By the time the lock came there was nothing left to keep.
AbortFindsNothing(o) ==
  /\ Granted(o, "abort") /\ (tracker.entries = <<>> \/ ~pi.streaming)
  /\ AbortNow(o, "done")

----------------------------------------------------------------------------
(* The take-back.                                                           *)

\* suspend, then clearQueue: pi's whole queue, on its way to the server.
Clear(o) ==
  /\ tracker' = Suspend(tracker)
  /\ op' = [op EXCEPT ![o].returned = [steer |-> pi.steer, followUp |-> pi.followUp]]
  /\ pi' = [pi EXCEPT !.steer = <<>>, !.followUp = <<>>]
  /\ Goto(o, "taking")
  /\ UNCHANGED <<lock, replacing, foreign, shown, received, sent, gone, faults>>

Target(o) == {i \in DOMAIN tracker.entries : tracker.entries[i].id = op[o].target}
ChangeAllowed(o) == Target(o) # {} /\ ~HasForeign(tracker) /\ ~replacing

AbortTakes(o)   == Granted(o, "abort") /\ tracker.entries # <<>> /\ pi.streaming /\ Clear(o)
SendNowTakes(o) == Granted(o, "sendNow") /\ tracker.entries # <<>> /\ ~HasForeign(tracker) /\ ~replacing /\ Clear(o)
RemoveTakes(o)  == Granted(o, "remove") /\ ChangeAllowed(o) /\ Clear(o)
EditTakes(o)    == at[o] = "prepared" /\ Clear(o)

\* An edit reads the files it mentions first; nothing is checked again after that.
EditPrepares(o) ==
  /\ Granted(o, "edit") /\ ChangeAllowed(o) /\ Goto(o, "prepared")
  /\ UNCHANGED <<tracker, lock, op, replacing, pi, foreign, shown, received, sent, gone, faults>>

\* Sending now, editing or removing, arrives naming an entry it sees, and waits for the lock.
RewriteArrives(o) ==
  /\ at[o] = "unsent"
  /\ \/ Does[o] = "sendNow" /\ UNCHANGED op
     \/ /\ Does[o] \in {"edit", "remove"}
        /\ \E i \in DOMAIN tracker.entries :
             op' = [op EXCEPT ![o].target = tracker.entries[i].id, ![o].saw = SourceOf(tracker.entries[i]).from]
  /\ WaitForLock(o)
  /\ UNCHANGED <<tracker, replacing, pi, foreign, shown, received, sent, gone, faults>>

\* Refused, or nothing to send.  The text of a refused edit is offered back to its user.
RewriteRefused(o) ==
  /\ \/ Granted(o, "sendNow") /\ (tracker.entries = <<>> \/ HasForeign(tracker) \/ replacing)
     \/ (Granted(o, "edit") \/ Granted(o, "remove")) /\ ~ChangeAllowed(o)
  /\ Finish(o)
  /\ UNCHANGED <<tracker, replacing, pi, foreign, shown, received, sent, gone, faults>>

\* clearQueue throws: reports are read again, and the operation fails whole.
ClearFails(o) ==
  /\ \/ Granted(o, "abort") /\ tracker.entries # <<>> /\ pi.streaming
     \/ Granted(o, "sendNow") /\ tracker.entries # <<>> /\ ~HasForeign(tracker) /\ ~replacing
     \/ Granted(o, "remove") /\ ChangeAllowed(o)
     \/ at[o] = "prepared"
  /\ Fault
  /\ tracker' = Resume(tracker)
  /\ Finish(o)
  /\ UNCHANGED <<replacing, pi, foreign, shown, received, sent, gone>>

----------------------------------------------------------------------------
(* What was taken back is queued again.                                     *)

\* Mutant: the edited prompt goes to the end.
Rewritten_AtEnd(o, kept) ==
  LET hit(e) == e.id = op[o].target
      edited(e) == [e EXCEPT !.source = Source(o)]
      out == SelectSeq(kept, hit)
      others == SelectSeq(kept, LAMBDA e : ~hit(e))
  IN  IF Does[o] = "remove" THEN others
      ELSE IF Does[o] = "edit" THEN others \o [i \in DOMAIN out |-> edited(out[i])]
           ELSE kept

\* The edited prompt in its place, under its id; the removed one left out.  No two of those kept have one
\* id: PromptQueueProofs.
Rewritten(o, kept) ==
  LET hit == {i \in DOMAIN kept : kept[i].id = op[o].target}
  IN  CASE Does[o] = "remove" /\ hit # {} -> RemoveAt(kept, CHOOSE i \in hit : TRUE)
        [] Does[o] = "edit" -> [i \in DOMAIN kept |-> IF i \in hit THEN [kept[i] EXCEPT !.source = Source(o)]
                                                      ELSE kept[i]]
        [] OTHER -> kept

\* The history of a change that took effect: what it withdrew, and the edit in its place.
Withdraw(o, kept) ==
  LET hit == {SourceOf(kept[i]).from : i \in {j \in DOMAIN kept : kept[j].id = op[o].target}}
      old == CHOOSE x \in hit : TRUE
  IN  IF Does[o] \notin {"edit", "remove"} \/ hit = {}
      THEN UNCHANGED <<gone, sent>>
      ELSE /\ gone' = gone \cup {old}
           /\ sent' = IF Does[o] = "edit" THEN ReplaceAll(sent, old, o) ELSE Remove(sent, old)

\* takeBack, and on to stopping the turn or queueing again.
TakenBack(o) ==
  /\ at[o] = "taking"
  /\ LET r == TakeBack(tracker, Lists(op[o].returned))
         kept == Rewritten(o, r.kept)
         stop == \/ Does[o] = "abort"
                 \/ Does[o] = "sendNow" /\ pi.streaming
         split == Does[o] = "sendNow" /\ kept # <<>>
     IN  /\ tracker' = r.tracker
         /\ shown' = shown \o Bubbles(r.delivered)
         /\ op' = [op EXCEPT ![o].returned = Idle.returned,
                             ![o].first = IF split THEN <<Head(kept)>> ELSE <<>>,
                             ![o].rest  = IF split THEN Tail(kept) ELSE kept]
         /\ Goto(o, IF stop THEN "stopping" ELSE "requeue")
         /\ pi' = [pi EXCEPT !.aborting = IF stop THEN pi.streaming ELSE @]
         /\ Withdraw(o, r.kept)
  /\ UNCHANGED <<lock, replacing, foreign, received, faults>>

\* Mutants: the end of the turn is not waited for; the wait has no limit; its limit forgets the first.
StopEnds_Early(o) ==
  /\ at[o] = "stopping" /\ Goto(o, "requeue")
  /\ UNCHANGED <<tracker, lock, op, replacing, pi, foreign, shown, received, sent, gone, faults>>
StopTimesOut_Never(o) == at[o] = "stopping" /\ ~pi.streaming /\ StopEnds_Early(o)
StopTimesOut_ForgetsFirst(o) ==
  /\ at[o] = "stopping" /\ Goto(o, "requeue")
  /\ op' = [x \in Ops |-> [op[x] EXCEPT !.guards = {}, !.first = <<>>]]
  /\ UNCHANGED <<tracker, lock, replacing, pi, foreign, shown, received, sent, gone, faults>>

\* stopTurn: the turn ended, or fifteen seconds passed.
StopEnds(o) ==
  /\ at[o] = "stopping" /\ ~pi.streaming /\ Goto(o, "requeue")
  /\ UNCHANGED <<tracker, lock, op, replacing, pi, foreign, shown, received, sent, gone, faults>>
StopTimesOut(o) ==
  /\ at[o] = "stopping" /\ Goto(o, "requeue")
  /\ op' = [x \in Ops |-> IF x = o THEN [Idle EXCEPT !.rest = op[o].first \o op[o].rest, !.target = op[o].target]
                          ELSE [op[x] EXCEPT !.guards = {}]]
  /\ UNCHANGED <<tracker, lock, replacing, pi, foreign, shown, received, sent, gone, faults>>

\* One entry: it is expected under its id, and handed to the session of the moment.
Requeues(o) ==
  /\ at[o] = "requeue" /\ op[o].rest # <<>>
  /\ LET e == Head(op[o].rest)
     IN  /\ tracker' = Expect(tracker, SourceOf(e), e.kind, e.id)
         /\ op' = [op EXCEPT ![o].giving = <<e>>, ![o].rest = Tail(@), ![o].to = pi.session]
  /\ Goto(o, "queueing")
  /\ UNCHANGED <<lock, replacing, pi, foreign, shown, received, sent, gone, faults>>

\* The next one's turn.
NextToRequeue(o) == op' = [op EXCEPT ![o].giving = <<>>, ![o].to = 0] /\ Goto(o, "requeue")

\* pi queues it and reports the queue it now has.  In a session replaced meanwhile nobody reads it.
PiQueues(o) ==
  /\ at[o] = "queueing"
  /\ LET e == Head(op[o].giving)
     IN  IF op[o].to = pi.session
         THEN /\ pi' = [pi EXCEPT ![e.kind] = Append(@, Item(SourceOf(e)))]
              /\ Hear(tracker, pi')
              /\ UNCHANGED gone
         ELSE gone' = gone \cup {SourceOf(e).from} /\ UNCHANGED <<pi, tracker, shown>>
  /\ NextToRequeue(o)
  /\ UNCHANGED <<lock, replacing, foreign, received, sent, faults>>

\* The runtime refuses to queue it: its loss is told, the next one is tried.
RequeueFails(o) ==
  /\ at[o] = "queueing" /\ Fault
  /\ LET e == Head(op[o].giving)
     IN  /\ tracker' = Settle(tracker, SourceOf(e), e.kind, e.id, FALSE)
         /\ gone' = gone \cup {SourceOf(e).from}
  /\ NextToRequeue(o)
  /\ UNCHANGED <<lock, replacing, pi, foreign, shown, received, sent>>

\* All queued again: over, or for sendNow the first starts the turn.
RequeueOver(o) ==
  /\ at[o] = "requeue" /\ op[o].rest = <<>>
  /\ \/ op[o].first = <<>> /\ Finish(o) /\ UNCHANGED tracker
     \/ /\ op[o].first # <<>>
        /\ tracker' = Expect(tracker, Sending(o), "steer", 0)
        /\ Call(o, tracker)
        /\ UNCHANGED lock
  /\ UNCHANGED <<replacing, pi, foreign, shown, received, sent, gone, faults>>

----------------------------------------------------------------------------
(* A new session: replaceSession, which takes no queue lock.                *)

NewSessionArrives(o) ==
  /\ at[o] = "unsent" /\ Does[o] = "newSession"
  /\ IF replacing THEN Goto(o, "done") /\ UNCHANGED replacing ELSE Goto(o, "replacing") /\ replacing' = TRUE
  /\ UNCHANGED <<tracker, lock, op, pi, foreign, shown, received, sent, gone, faults>>

\* The SDK puts a session with an empty queue in place; its extensions have yet to bind.
PiReplaces(o) ==
  /\ at[o] = "replacing"
  /\ pi' = [pi EXCEPT !.streaming = FALSE, !.aborting = FALSE, !.bound = FALSE, !.session = @ + 1,
                      !.steer = <<>>, !.followUp = <<>>]
  /\ gone' = gone \cup {m.from : m \in ToSet(pi.steer \o pi.followUp)}
  /\ Goto(o, "rebinding")
  /\ UNCHANGED <<tracker, lock, op, replacing, foreign, shown, received, sent, faults>>

\* "session_replaced": the tracker starts empty; then another replacement may come.
SessionReplaced(o) ==
  /\ at[o] = "rebinding"
  /\ tracker' = Reset(tracker)
  /\ replacing' = FALSE
  /\ Goto(o, "done")
  /\ UNCHANGED <<lock, op, pi, foreign, shown, received, sent, gone, faults>>

----------------------------------------------------------------------------
(* pi, as the comments of index.ts and queuedPrompts.ts describe it.        *)

PiBinds ==
  /\ ~pi.bound /\ pi' = [pi EXCEPT !.bound = TRUE]
  /\ UNCHANGED <<tracker, lock, at, op, replacing, foreign, shown, received, sent, gone, faults>>

\* The step ends and the steering queue is read; the follow-ups when the turn would end.  A turn
\* being aborted reads its steering queue into the request it drops.
PiReads ==
  /\ pi.streaming
  /\ LET k == IF pi.steer # <<>> THEN "steer" ELSE "followUp"
     IN  /\ pi[k] # <<>> /\ (k = "followUp" => ~pi.aborting)
         /\ received' = Append(received, [from |-> Head(pi[k]).from, swallowed |-> pi.aborting])
         /\ pi' = [pi EXCEPT ![k] = Tail(@)]
         /\ Hear(tracker, pi')
  /\ UNCHANGED <<lock, at, op, replacing, foreign, sent, gone, faults>>

\* The turn ends: nothing is left to read, or it was aborted.
PiEnds ==
  /\ pi.streaming /\ (pi.aborting \/ pi.steer \o pi.followUp = <<>>)
  /\ pi' = [pi EXCEPT !.streaming = FALSE, !.aborting = FALSE]
  /\ UNCHANGED <<tracker, lock, at, op, replacing, foreign, shown, received, sent, gone, faults>>

\* An extension queues a message of its own during a turn.
PiForeign(f) ==
  /\ f \in foreign /\ pi.streaming
  /\ pi' = [pi EXCEPT ![f.kind] = Append(@, [text |-> PiText[f.text], from |-> NoSource])]
  /\ Hear(tracker, pi')
  /\ foreign' = foreign \ {f}
  /\ sent' = Append(sent, NoSource)
  /\ UNCHANGED <<lock, at, op, replacing, received, gone, faults>>

----------------------------------------------------------------------------
Arrives(o) == PromptArrives(o) \/ AbortArrives(o) \/ RewriteArrives(o) \/ NewSessionArrives(o)
Server(o) ==
  \/ PromptSent(o) \/ AbortFindsNothing(o) \/ AbortTakes(o) \/ LateRelease(o)
  \/ SendNowTakes(o) \/ RemoveTakes(o) \/ EditPrepares(o) \/ EditTakes(o) \/ RewriteRefused(o)
  \/ TakenBack(o) \/ StopEnds(o) \/ StopTimesOut(o) \/ Requeues(o) \/ RequeueOver(o) \/ SessionReplaced(o)
Answers(o) == PiPrompts(o) \/ PiRefuses(o) \/ PiQueues(o) \/ PiReplaces(o)
Fails(o) == ClearFails(o) \/ RequeueFails(o)

Next ==
  \/ \E o \in Ops : Arrives(o) \/ Server(o) \/ Answers(o) \/ Fails(o) \/ AbortGivesUp(o)
  \/ PiBinds \/ PiReads \/ PiEnds
  \/ \E f \in Foreign : PiForeign(f)

Spec == Init /\ [][Next]_vars
\* The server's continuations run, its timers fire, and pi answers the calls made to it.  That the
\* extensions of a session ever bind is not assumed: a binding "can wait on a question, or never end".
FairSpec ==
  /\ Spec
  /\ WF_vars(\E o \in Ops : Server(o))
  /\ WF_vars(\E o \in Ops : Answers(o))
  /\ WF_vars(\E o \in Ops : AbortGivesUp(o))

----------------------------------------------------------------------------
Froms    == Texters \cup {NoSource}
SourceSet == [text : DOMAIN PiText, from : Froms]
Items    == [text : {PiText[t] : t \in DOMAIN PiText}, from : Froms]
Entries  == [id : Nat \ {0}, kind : Kinds, piText : {PiText[t] : t \in DOMAIN PiText}, source : SourceSet \cup {NoSource}]
Places   == {"unsent", "lock", "late", "called", "prepared", "taking", "stopping", "requeue", "queueing", "replacing", "rebinding", "done"}

\* Every variable keeps the shape the code gives it; only the holder of the lock is past waiting for it.
TypeOK ==
  /\ tracker.entries \in Seq(Entries)
  /\ tracker.expectations \in Seq([source : SourceSet, kind : Kinds, id : Nat])
  /\ tracker.suspended \in BOOLEAN
  /\ at \in [Ops -> Places]
  /\ ToSet(lock) \subseteq Ops
  /\ \A o \in Ops : at[o] \in {"called", "prepared", "taking", "stopping", "requeue", "queueing"} => Holds(o)
  /\ pi.steer \in Seq(Items) /\ pi.followUp \in Seq(Items)
  /\ pi.aborting => pi.streaming
  /\ \A i \in DOMAIN received : received[i] \in [from : Froms, swallowed : BOOLEAN]
  /\ replacing \in BOOLEAN

\* How often x is among the items or entries an operation has in its hands, or in a queue of pi.
CountFrom(items, x) == Cardinality({i \in DOMAIN items : items[i].from = x})
InHand(x) ==
  LET entries(o) == op[o].first \o op[o].giving \o op[o].rest
      items(o)   == op[o].returned.steer \o op[o].returned.followUp
  IN  \E o \in Ops : \/ \E i \in DOMAIN entries(o) : SourceOf(entries(o)[i]).from = x
                     \/ \E i \in DOMAIN items(o) : items(o)[i].from = x
OnItsWay(x) == x \in Ops /\ Does[x] = "prompt" /\ at[x] \in {"lock", "called"}
Once(b) == IF b THEN 1 ELSE 0

(* NothingLostOrDoubled.  A prompt the user sent, an edit that took effect, and a message an        *)
(* extension queued, is in exactly one place: on its way to pi, in pi's queue, in the hands of the   *)
(* operation rewriting the queue, in the agent's conversation, or gone: refused, withdrawn by its    *)
(* user, or its loss told; while the session stays the same.  A prompt removed or edited is thus     *)
(* never delivered after, and a message of an extension outlives every rewriting of the queue.       *)
NothingLostOrDoubled ==
  \A x \in Texters \cup {NoSource} :
    CountFrom(pi.steer, x) + CountFrom(pi.followUp, x) + CountFrom(received, x)
      + Once(InHand(x)) + Once(OnItsWay(x)) + Once(x \in gone)
    = Once(x \in ToSet(sent) \cup gone)

(* ShownIsWhatPiHas.  A bubble is in the conversation for each message of a user the agent read, and *)
(* for no other, except while a take-back is in flight: queue entries never appear there early, and  *)
(* none is missing because a report was not read.  When no operation holds the lock, the pending     *)
(* list is pi's queue: the same messages of users in the same order.                                 *)
ShownIsWhatPiHas ==
  /\ ~tracker.suspended =>
       \A x \in Texters : Cardinality({i \in DOMAIN shown : shown[i] = x}) = CountFrom(received, x)
  /\ lock = <<>> /\ ~replacing =>
       SelectSeq(Bubbles(tracker.entries), LAMBDA x : x # NoSource) = Own(pi.steer) \o Own(pi.followUp)

(* QueueInOrder.  What the agent has read, what pi's queue holds and what the operation in progress  *)
(* has in its hands are, in that order, in the order the users sent it, an edited message in the     *)
(* place of the one it replaced; but a prompt that starts a turn passes those a stopped turn left    *)
(* waiting in pi's queue, which go along with it.                                                    *)
Line ==
  LET entries(e) == SelectSeq(Bubbles(e), LAMBDA x : x # NoSource)
      queue == Own(pi.steer) \o Own(pi.followUp)
      held == IF lock = <<>> THEN Idle ELSE op[Head(lock)]
  IN  Own(received) \o entries(held.first) \o Own(held.returned.steer) \o Own(held.returned.followUp)
        \o queue \o entries(held.giving) \o entries(held.rest)
Position(x) == CHOOSE i \in DOMAIN sent : sent[i] = x
Ordered(line) == \A i, j \in DOMAIN line : i < j => Position(line[i]) < Position(line[j])
QueueInOrder == Ordered(Line)

(* StopSwallowsNothing.  A prompt waiting when the user pressed Stop, in a queue the server can      *)
(* rewrite, is not read into the request the stop aborts; unless the lock or the stop timed out.    *)
StopSwallowsNothing ==
  [][\A i \in DOMAIN received' \ DOMAIN received :
       received'[i].swallowed => \A o \in Ops : received'[i].from \notin op[o].guards]_vars

(* ChangesHitWhatWasSeen.  An edit or a removal that takes effect, as its take-back ends, withdraws   *)
(* the prompt its user saw under that id, or an edit of it: ids outlive any number of take-backs.     *)
ChangesHitWhatWasSeen ==
  [][\A o \in Ops : at[o] = "taking" /\ at'[o] # "taking" /\ Does[o] \in {"edit", "remove"} =>
       \A x \in gone' \ gone :
         x = op[o].saw \/ Does[x] = "edit"]_vars

(* EveryOperationEnds.  Whatever is in progress ends, for each message is sent once: the lock is      *)
(* always released, though a turn does not stop, or a session is replaced meanwhile; unless a prompt  *)
(* waits for extensions that never bind, and nobody presses Stop.                                     *)
EveryOperationEnds == []<>(Waiting # {} \/ \A o \in Ops : at[o] \in {"unsent", "done"})

(* StopGetsThrough.  A Stop that waits for the lock stops the turn all the same, and ends by it a     *)
(* prompt that holds the lock while it waits for extensions that never bind: that prompt could be     *)
(* released by nothing else.                                                                         *)
StopGetsThrough ==
  \A o \in Ops : Does[o] = "abort" => (at[o] = "lock" ~> at[o] \in {"late", "done"})
============================================================================
