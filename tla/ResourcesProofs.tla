--------------------------- MODULE ResourcesProofs ---------------------------
(***************************************************************************)
(* Theorems about the sessions of Sessions and the repository of           *)
(* Resources.  First the sessions alone: their lemmas are stated of the    *)
(* operations' steps, so that they hold in Resources, whose steps these    *)
(* also are.  Then both: who keeps a session's flag set, that it is        *)
(* cleared, that no two operations replace one session at once, and who    *)
(* comes to write to a conversation.                                       *)
(***************************************************************************)
EXTENDS Resources, TLAPS, FiniteSetTheorems

-----------------------------------------------------------------------------
(* Type correctness                                                        *)

\* The local variables of an operation, as TypeOK has them.
Memory == [on : Session \cup {None}, to : Conversation \cup {Fresh}, then : Callers,
           tools : Settings \cup {Retained}, left : SUBSET Session,
           back : Conversation \cup {None}, before : Settings, edits : SUBSET Ops, cut : BOOLEAN]

\* Where an operation has called a runtime from, and has yet to come back to.
Called == Calling \cup {"sibling", "next", "restoring", "inventory"}
\* The calls made of the operation's own session.
Own == Callers \ {"sibling", "back", "reload"}

\* What a place says of the local variables: a call is made of a session, the operation's own
\* unless it rebuilds another; a change of a plan is made in a conversation.
Placed(o) ==
  /\ at[o] \in Called => mem[o].on \in Session
  /\ at[o] \in {"reading", "writing"} => mem[o].to \in Conversation
  /\ at[o] \in Calling /\ mem[o].then \in Own => mem[o].on = On[o]
  /\ at[o] = "inventory" => mem[o].on = On[o] /\ mem[o].then \in {"restart", "apply"}
  /\ at[o] = "next" => mem[o].on = On[o] /\ mem[o].then = "apply"
  /\ at[o] = "sibling" => mem[o].then = "apply" /\ mem[o].tools \in Settings
  /\ at[o] = "syncing" => mem[o].then # "sibling"

\* A plan is copied from a conversation.
CopiesFrom(step) == step.stage = "copying" => step.from # None
Copied == \A s \in Session : \A i \in DOMAIN sync[s] : CopiesFrom(sync[s][i])

Typed == TypeOK /\ (\A o \in Ops : Placed(o)) /\ Copied

\* The operations' places and local variables after a step of one of them.
Memorized ==
  /\ at \in [Ops -> Places] /\ mem \in [Ops -> Memory] /\ \A o \in Ops : Placed(o)

\* The chains of workPlanSync are typed, and copy from conversations.
Chained == sync \in [Session -> Seq(Sync)] /\ Copied

\* What TypeOK says of the rest.
Stored ==
  /\ live \in [Session -> Conversation] /\ turn \subseteq Session /\ replacing \subseteq Session
  /\ saved \subseteq used /\ used \subseteq Conversation
  /\ lineage \in [Conversation -> SUBSET Conversation]
  /\ plan \in [Conversation -> SUBSET Ops]
  /\ shown \in [Session -> [file : Conversation, plan : SUBSET Ops]]
  /\ marker \in [Session -> Conversation \cup {None}]
  /\ Chained
  /\ config \in Settings /\ disk \in Settings
  /\ boundary \in [Session -> Settings] /\ built \in [Session -> Settings]
  /\ faults \subseteq Ops \X Callers \X {"vetoed", "threw", "bound", "unrestored"}
  /\ \A s \in Session : live[s] \in used

\* The two halves are the whole.
LEMMA Halves == Typed <=> Stored /\ Memorized
BY DEF Typed, TypeOK, Stored, Chained, Memorized, Memory

\* An operation that moves, with typed local variables that its new place allows, keeps the
\* places and local variables of all typed.
LEMMA MoveMemorized ==
  ASSUME NEW o \in Ops, NEW place \in Places, NEW m \in Memory, Memorized,
         at' = [at EXCEPT ![o] = place], mem' = [mem EXCEPT ![o] = m], Placed(o)'
  PROVE  Memorized'
<1>1. at' \in [Ops -> Places] /\ mem' \in [Ops -> Memory]
  BY DEF Memorized
<1>2. \A p \in Ops : Placed(p)'
  BY DEF Memorized, Placed
<1> QED BY <1>1, <1>2 DEF Memorized

\* One whose local variables stay.
LEMMA GoesMemorized ==
  ASSUME NEW o \in Ops, NEW place \in Places, Memorized, Goes(o, place), UNCHANGED mem, Placed(o)'
  PROVE  Memorized'
<1>1. mem[o] \in Memory /\ mem' = [mem EXCEPT ![o] = mem[o]]
  BY DEF Memorized
<1> QED BY <1>1, MoveMemorized DEF Goes

\* A call of a runtime, of a session it may name.
LEMMA CallsMemorized ==
  ASSUME NEW o \in Ops, NEW s \in Session, NEW to \in Conversation \cup {Fresh}, NEW then \in Callers,
         NEW tools \in Settings \cup {Retained}, Memorized, then \in Own => s = On[o],
         Calls(o, s, to, then, tools)
  PROVE  Memorized'
<1> DEFINE m == [mem[o] EXCEPT !.on = s, !.to = to, !.then = then, !.tools = tools]
<1>1. mem[o] \in Memory /\ mem' = [mem EXCEPT ![o] = m]
  BY DEF Memorized, Calls
<1>2. m \in Memory
  BY <1>1 DEF Memory
<1>3. at' = [at EXCEPT ![o] = "asking"] /\ "asking" \in Places
  BY DEF Calls, Goes, Places
<1>4. Placed(o)'
  BY <1>1, <1>3 DEF Memorized, Placed, Memory, Called, Calling, Own
<1> QED BY <1>1, <1>2, <1>3, <1>4, MoveMemorized

\* A step that leaves the chains alone keeps them so.
LEMMA ChainKept ==
  ASSUME Chained, UNCHANGED sync
  PROVE  Chained'
BY DEF Chained, Copied, CopiesFrom

\* So does one that queues another plan to load.
LEMMA QueueChained ==
  ASSUME NEW s \in Session, NEW step \in Sync, Chained, CopiesFrom(step),
         sync' = [sync EXCEPT ![s] = Append(@, step)]
  PROVE  Chained'
<1>1. sync[s] \in Seq(Sync) /\ Append(sync[s], step) \in Seq(Sync)
  BY DEF Chained
<1>2. \A i \in DOMAIN Append(sync[s], step) : CopiesFrom(Append(sync[s], step)[i])
  BY <1>1 DEF Chained, Copied, CopiesFrom
<1> HIDE DEF CopiesFrom
<1> QED BY <1>1, <1>2 DEF Chained, Copied

\* So does a step that takes the place of another.
LEMMA StepChained ==
  ASSUME NEW s \in Session, NEW i \in DOMAIN sync[s], NEW step \in Sync, Chained, CopiesFrom(step),
         sync' = [sync EXCEPT ![s] = [sync[s] EXCEPT ![i] = step]]
  PROVE  Chained'
<1> DEFINE q == [sync[s] EXCEPT ![i] = step]
<1>1. sync[s] \in Seq(Sync)
  BY DEF Chained
<1>2. q \in Seq(Sync) /\ DOMAIN q = DOMAIN sync[s]
  BY <1>1
<1>3. \A j \in DOMAIN q : CopiesFrom(q[j])
  BY <1>1 DEF Chained, Copied, CopiesFrom
<1> HIDE DEF q
<1> QED BY <1>2, <1>3 DEF Chained, Copied, CopiesFrom

\* So does an operation that awaits the chain.
LEMMA AwaitChained ==
  ASSUME NEW o \in Ops, NEW s \in Session, s = mem[o].on, Chained, AwaitsSync(o)
  PROVE  Chained'
<1>1. sync[s] \in Seq(Sync) /\ sync \in [Session -> Seq(Sync)]
  BY DEF Chained
<1>2. CASE sync[s] = <<>>
  <2>1. sync' = sync
    BY <1>1, <1>2 DEF AwaitsSync
  <2> QED BY <2>1 DEF Chained, Copied, CopiesFrom
<1>3. CASE sync[s] # <<>>
  <2> DEFINE n == Len(sync[s])
             step == [sync[s][n] EXCEPT !.waits = @ \cup {o}]
  <2>1. n \in DOMAIN sync[s] /\ sync[s][n] \in Sync /\ CopiesFrom(sync[s][n])
    BY <1>1, <1>3 DEF Chained, Copied
  <2>2. step \in Sync /\ CopiesFrom(step)
    BY <2>1 DEF Sync, CopiesFrom
  <2>3. sync' = [sync EXCEPT ![s] = [sync[s] EXCEPT ![n] = step]]
    BY <1>3 DEF AwaitsSync
  <2> HIDE DEF step, n
  <2> QED BY <2>1, <2>2, <2>3, StepChained
<1> QED BY <1>2, <1>3

\* A step of an operation keeps what is stored typed: first, the steps a request begins with.
LEMMA RequestedStored ==
  ASSUME NEW o \in Ops, Stored, Memorized, Requested(o)
  PROVE  Stored'
<1> USE SessionsAssumption, ChainKept DEF SessionsAssumption, Stored, conversations, plans, settings
<1>1. CASE NewSession(o)
  BY <1>1 DEF NewSession, ReplaceSession
<1>2. CASE Fork(o)
  BY <1>2 DEF Fork, ReplaceSession
<1>3. CASE SwitchArrives(o)
  BY <1>3 DEF SwitchArrives
<1>4. CASE DeleteArrives(o)
  BY <1>4 DEF DeleteArrives
<1>5. CASE Restart(o)
  BY <1>5 DEF Restart
<1>6. CASE Navigate(o)
  BY <1>6 DEF Navigate
<1>7. CASE Prompt(o)
  BY <1>7 DEF Prompt
<1>8. CASE Apply(o)
  BY <1>8 DEF Apply
<1>9. CASE PlanTool(o)
  BY <1>9 DEF PlanTool
<1> QED BY <1>1, <1>2, <1>3, <1>4, <1>5, <1>6, <1>7, <1>8, <1>9 DEF Requested

\* Then, those it continues with.
LEMMA ContinuesStored ==
  ASSUME NEW o \in Ops, Stored, Memorized, Continues(o)
  PROVE  Stored'
<1> USE SessionsAssumption, ChainKept DEF SessionsAssumption, Stored, conversations, plans, settings
<1>1. CASE SwitchFound(o)
  BY <1>1 DEF SwitchFound, ReplaceSession
<1>2. CASE DeleteFound(o)
  BY <1>2 DEF DeleteFound
<1>3. CASE Unlinked(o)
  BY <1>3 DEF Unlinked
<1>4. CASE PlanDeleted(o)
  BY <1>4 DEF PlanDeleted
<1>5. CASE TurnedAway(o)
  BY <1>5 DEF TurnedAway
<1>6. CASE Install(o)
  <2>1. mem[o] \in Memory /\ mem[o].on \in Session
    BY <1>6 DEF Install, Memorized, Placed, Called, Calling
  <2>2. PICK c \in Conversation : /\ live' = [live EXCEPT ![mem[o].on] = c]
                                  /\ used' = used \cup {c}
                                  /\ saved' \in {saved, saved \cup {c}}
                                  /\ lineage' \in {lineage, [lineage EXCEPT ![c] = @ \cup lineage[live[mem[o].on]]]}
    BY <1>6, <2>1 DEF Install, Taken, NextFile, Memory
  <2>3. built' \in [Session -> Settings]
    BY <1>6, <2>1 DEF Install, Memory
  <2>4. turn' \subseteq Session
    BY <1>6 DEF Install
  <2>5. lineage' \in [Conversation -> SUBSET Conversation]
    <3>1. lineage[live[mem[o].on]] \subseteq Conversation
      BY <2>1
    <3> QED BY <2>2, <3>1
  <2>6. UNCHANGED <<replacing, plans, config, disk, boundary, faults>>
    BY <1>6 DEF Install
  <2> QED BY <2>1, <2>2, <2>3, <2>4, <2>5, <2>6
<1>7. CASE Bind(o)
  <2> DEFINE step == [file |-> live[mem[o].on], kind |-> "session", from |-> None,
                      stage |-> "queued", edits |-> {}, waits |-> {}]
  <2>1. mem[o].on \in Session
    BY <1>7 DEF Bind, Memorized, Placed, Called, Calling
  <2>2. step \in Sync /\ CopiesFrom(step)
    BY <2>1 DEF Sync, CopiesFrom
  <2>3. sync' = [sync EXCEPT ![mem[o].on] = Append(@, step)]
    BY <1>7 DEF Bind
  <2> HIDE DEF step
  <2>4. Chained'
    BY <2>1, <2>2, <2>3, QueueChained
  <2> QED BY <1>7, <2>4 DEF Bind
<1>8. CASE Replaced(o)
  <2>1. Chained'
    <3>1. CASE AwaitsSync(o)
      <4>1. mem[o].on \in Session
        BY <1>8, <3>1 DEF Replaced, Memorized, Placed, Called, Calling
      <4> QED BY <3>1, <4>1, AwaitChained
    <3>2. CASE ~AwaitsSync(o)
      BY <1>8, <3>2 DEF Replaced
    <3> QED BY <3>1, <3>2
  <2> QED BY <1>8, <2>1 DEF Replaced, Releases
<1>9. CASE Recovered(o)
  BY <1>9 DEF Recovered, Releases
<1>10. CASE Restarted(o)
  BY <1>10 DEF Restarted, Releases
<1>11. CASE InventoryRead(o)
  <2>1. Chained'
    <3>1. CASE AwaitsSync(o)
      <4>1. mem[o].on \in Session
        BY <1>11, <3>1 DEF InventoryRead, Memorized, Placed, Called, Calling
      <4> QED BY <3>1, <4>1, AwaitChained
    <3>2. CASE ~AwaitsSync(o)
      BY <1>11, <3>2 DEF InventoryRead
    <3> QED BY <3>1, <3>2
  <2> QED BY <1>11, <2>1 DEF InventoryRead
<1>12. CASE Settles(o)
  BY <1>12 DEF Settles, Releases
<1>13. CASE Navigated(o)
  BY <1>13 DEF Navigated, Releases
<1>14. CASE PromptSent(o)
  <2>1. On[o] \in Session /\ live[On[o]] \in used
    OBVIOUS
  <2> QED BY <1>14, <2>1 DEF PromptSent
<1>15. CASE PlanRead(o)
  BY <1>15 DEF PlanRead
<1>16. CASE PlanWritten(o)
  <2> DEFINE step == [file |-> mem[o].to, kind |-> "tool", from |-> None,
                      stage |-> "queued", edits |-> {}, waits |-> {}]
  <2>1. mem[o] \in Memory /\ mem[o].to \in Conversation /\ On[o] \in Session
    BY <1>16 DEF PlanWritten, Memorized, Placed
  <2>2. step \in Sync /\ CopiesFrom(step)
    BY <2>1 DEF Sync, CopiesFrom
  <2>3. sync' = sync \/ sync' = [sync EXCEPT ![On[o]] = Append(@, step)]
    BY <1>16 DEF PlanWritten
  <2> HIDE DEF step
  <2>4. Chained'
    BY <2>1, <2>2, <2>3, QueueChained
  <2>5. plan' \in [Conversation -> SUBSET Ops]
    BY <1>16, <2>1 DEF PlanWritten, Memory
  <2> QED BY <1>16, <2>4, <2>5 DEF PlanWritten
<1>17. CASE Adopted(o)
  BY <1>17 DEF Adopted, Settings
<1>18. CASE ResourcesRebuilt(o)
  BY <1>18 DEF ResourcesRebuilt, Settings
<1>19. CASE Applied(o)
  BY <1>19 DEF Applied, RollsBack, Memorized, Memory
<1>20. CASE Restored(o)
  BY <1>20 DEF Restored, Releases, Memorized, Memory
<1>21. CASE Retried(o)
  BY <1>21 DEF Retried, Releases
<1>22. CASE NextSibling(o)
  BY <1>22 DEF NextSibling
<1>23. CASE SiblingResources(o)
  <2>1. mem[o] \in Memory /\ mem[o].on \in Session
    BY <1>23 DEF SiblingResources, Memorized, Placed, Called
  <2>2. mem[o].tools \in Settings
    BY <1>23 DEF SiblingResources, Memorized, Placed
  <2> QED BY <1>23, <2>1, <2>2 DEF SiblingResources
<1>24. CASE SiblingRebuilt(o)
  BY <1>24 DEF SiblingRebuilt, SiblingDone
<1>25. CASE SwitchedBack(o)
  <2>1. Chained'
    <3>1. CASE AwaitsSync(o)
      <4>1. mem[o].on \in Session
        BY <1>25, <3>1 DEF SwitchedBack, Synced, Memorized, Placed, Called, Calling
      <4> QED BY <3>1, <4>1, AwaitChained
    <3>2. CASE ~AwaitsSync(o)
      BY <1>25, <3>2 DEF SwitchedBack
    <3> QED BY <3>1, <3>2
  <2> QED BY <1>25, <2>1 DEF SwitchedBack, SiblingDone
<1> QED BY <1>1, <1>2, <1>3, <1>4, <1>5, <1>6, <1>7, <1>8, <1>9, <1>10, <1>11, <1>12, <1>13, <1>14, <1>15,
           <1>16, <1>17, <1>18, <1>19, <1>20, <1>21, <1>22, <1>23, <1>24, <1>25
          DEF Continues

\* An operation that goes where nothing is said of its local variables.
LEMMA LeavesMemorized ==
  ASSUME NEW o \in Ops, NEW place \in Places \ (Called \cup {"reading", "writing"}), Memorized,
         Goes(o, place), UNCHANGED mem
  PROVE  Memorized'
<1>1. Placed(o)'
  BY DEF Goes, Memorized, Placed, Called, Calling
<1> QED BY <1>1, GoesMemorized

\* One that its runtime's call takes further.
LEMMA StaysMemorized ==
  ASSUME NEW o \in Ops, NEW place \in Calling, at[o] \in Calling, Memorized, Goes(o, place), UNCHANGED mem,
         place = "syncing" => mem[o].then # "sibling"
  PROVE  Memorized'
<1>1. Placed(o)' /\ place \in Places
  BY DEF Goes, Memorized, Placed, Called, Calling, Places
<1> QED BY <1>1, GoesMemorized

\* They keep the places and local variables typed: the steps a request begins with.
LEMMA RequestedMemorized ==
  ASSUME NEW o \in Ops, Stored, Memorized, Requested(o)
  PROVE  Memorized'
<1> USE SessionsAssumption DEF SessionsAssumption
<1>1. mem[o] \in Memory /\ On[o] \in Session /\ live[On[o]] \in Conversation
  BY DEF Memorized, Stored
<1>2. CASE NewSession(o)
  <2>1. Calls(o, On[o], Fresh, "replace", Retained)
    BY <1>2 DEF NewSession, ReplaceSession
  <2> QED BY <1>1, <2>1, CallsMemorized DEF Callers
<1>3. CASE Fork(o)
  <2>1. Calls(o, On[o], Fresh, "replace", Retained)
    BY <1>3 DEF Fork, ReplaceSession
  <2> QED BY <1>1, <2>1, CallsMemorized DEF Callers
<1>4. CASE SwitchArrives(o)
  <2>1. Goes(o, "looking") /\ UNCHANGED mem
    BY <1>4 DEF SwitchArrives
  <2>2. Placed(o)'
    BY <2>1 DEF Goes, Memorized, Placed, Called, Calling
  <2> QED BY <2>1, <2>2, GoesMemorized DEF Places
<1>5. CASE DeleteArrives(o)
  <2>1. Goes(o, "looking") /\ UNCHANGED mem
    BY <1>5 DEF DeleteArrives
  <2>2. Placed(o)'
    BY <2>1 DEF Goes, Memorized, Placed, Called, Calling
  <2> QED BY <2>1, <2>2, GoesMemorized DEF Places
<1>6. CASE Restart(o)
  <2>1. Calls(o, On[o], Fresh, "restart", boundary[On[o]]) /\ boundary[On[o]] \in Settings
    BY <1>6, <1>1 DEF Restart, Stored
  <2> QED BY <1>1, <2>1, CallsMemorized DEF Callers
<1>7. CASE Navigate(o)
  <2>1. Goes(o, "navigating") /\ UNCHANGED mem
    BY <1>7 DEF Navigate
  <2>2. Placed(o)'
    BY <2>1 DEF Goes, Memorized, Placed, Called, Calling
  <2> QED BY <2>1, <2>2, GoesMemorized DEF Places
<1>8. CASE Prompt(o)
  <2>1. Goes(o, "preparing") /\ UNCHANGED mem
    BY <1>8 DEF Prompt
  <2>2. Placed(o)'
    BY <2>1 DEF Goes, Memorized, Placed, Called, Calling
  <2> QED BY <2>1, <2>2, GoesMemorized DEF Places
<1>9. CASE Apply(o)
  <2>1. Goes(o, "checking") /\ UNCHANGED mem
    BY <1>9 DEF Apply
  <2>2. Placed(o)'
    BY <2>1 DEF Goes, Memorized, Placed, Called, Calling
  <2> QED BY <2>1, <2>2, GoesMemorized DEF Places
<1>10. CASE PlanTool(o)
  <2> DEFINE m == [mem[o] EXCEPT !.to = live[On[o]]]
  <2>1. m \in Memory
    BY <1>1 DEF Memory
  <2>2. at' = [at EXCEPT ![o] = "reading"] /\ mem' = [mem EXCEPT ![o] = m] /\ "reading" \in Places
    BY <1>10 DEF PlanTool, Goes, Places
  <2>3. Placed(o)'
    BY <1>1, <2>2 DEF Memorized, Memory, Placed, Called, Calling
  <2> QED BY <2>1, <2>2, <2>3, MoveMemorized
<1> QED BY <1>2, <1>3, <1>4, <1>5, <1>6, <1>7, <1>8, <1>9, <1>10 DEF Requested

\* The settings of a sibling are over: the next one's.
LEMMA DoneMemorized ==
  ASSUME NEW o \in Ops, Memorized, SiblingDone(o)
  PROVE  Memorized'
<1> DEFINE m == [mem[o] EXCEPT !.on = On[o], !.left = @ \ {mem[o].on}, !.then = "apply"]
<1>1. mem[o] \in Memory /\ On[o] \in Session
  BY SessionsAssumption DEF SessionsAssumption, Memorized
<1>2. m \in Memory
  BY <1>1 DEF Memory, Callers
<1>3. at' = [at EXCEPT ![o] = "next"] /\ mem' = [mem EXCEPT ![o] = m] /\ "next" \in Places
  BY DEF SiblingDone, Goes, Places
<1>4. Placed(o)'
  BY <1>1, <1>3 DEF Memorized, Memory, Placed, Called, Calling
<1> QED BY <1>2, <1>3, <1>4, MoveMemorized

\* And the steps it continues with.
LEMMA ContinuesMemorized ==
  ASSUME NEW o \in Ops, Stored, Memorized, Continues(o)
  PROVE  Memorized'
<1> USE SessionsAssumption DEF SessionsAssumption
<1>1. mem[o] \in Memory /\ On[o] \in Session /\ boundary[On[o]] \in Settings
  BY DEF Memorized, Stored
<1>2. CASE SwitchFound(o)
  <2>1. Calls(o, On[o], Aim[o], "replace", Retained) /\ Aim[o] \in Conversation
    BY <1>2 DEF SwitchFound, ReplaceSession, Stored
  <2> QED BY <1>1, <2>1, CallsMemorized DEF Callers
<1>3. CASE DeleteFound(o)
  <2>1. Goes(o, "unlinking") /\ UNCHANGED mem
    BY <1>3 DEF DeleteFound
  <2> QED BY <2>1, LeavesMemorized DEF Places, Ended, Called, Calling
<1>4. CASE Unlinked(o)
  <2>1. Goes(o, "unplanning") /\ UNCHANGED mem
    BY <1>4 DEF Unlinked
  <2> QED BY <2>1, LeavesMemorized DEF Places, Ended, Called, Calling
<1>5. CASE PlanDeleted(o)
  <2>1. Goes(o, "done") /\ UNCHANGED mem
    BY <1>5 DEF PlanDeleted
  <2> QED BY <2>1, LeavesMemorized DEF Places, Ended, Called, Calling
<1>6. CASE TurnedAway(o)
  <2>1. Goes(o, "refused") /\ UNCHANGED mem
    BY <1>6 DEF TurnedAway
  <2> QED BY <2>1, LeavesMemorized DEF Places, Ended, Called, Calling
<1>7. CASE Install(o)
  <2>1. at' = [at EXCEPT ![o] = "binding"] /\ at[o] = "asking" /\ at' \in [Ops -> Places]
    BY <1>7 DEF Install, Goes, Memorized, Places
  <2>2. \A p \in Ops : mem'[p] = mem[p] \/ mem'[p] = [mem[p] EXCEPT !.cut = TRUE]
    BY <1>7 DEF Install
  <2>3. ASSUME NEW p \in Ops
        PROVE  /\ mem'[p] \in Memory
               /\ mem'[p].on = mem[p].on /\ mem'[p].to = mem[p].to
               /\ mem'[p].then = mem[p].then /\ mem'[p].tools = mem[p].tools
    <3>1. mem[p] \in Memory
      BY DEF Memorized
    <3>2. CASE mem'[p] = mem[p]
      BY <3>1, <3>2
    <3>3. CASE mem'[p] = [mem[p] EXCEPT !.cut = TRUE]
      BY <3>1, <3>3, ZenonT(60) DEF Memory
    <3> QED BY <2>2, <3>2, <3>3
  <2>4. mem' \in [Ops -> Memory]
    BY <1>7, <2>3, Zenon DEF Install
  <2>6. \A p \in Ops : Placed(p)'
    BY <2>1, <2>3 DEF Memorized, Placed, Called, Calling
  <2> QED BY <2>1, <2>4, <2>6 DEF Memorized
<1>8. CASE Bind(o)
  <2>1. Goes(o, "installed") /\ at[o] \in Calling /\ UNCHANGED mem
    BY <1>8 DEF Bind, Calling
  <2> QED BY <2>1, StaysMemorized DEF Calling
<1>9. CASE Replaced(o)
  <2>1. CASE AwaitsSync(o) /\ at[o] = "installed" /\ UNCHANGED mem
    BY <1>9, <2>1, StaysMemorized DEF AwaitsSync, Calling, Replaced
  <2>2. CASE Releases(o, "done") /\ UNCHANGED mem
    BY <2>2, LeavesMemorized DEF Releases, Places, Ended, Called, Calling
  <2>3. CASE Calls(o, On[o], Fresh, "recover", Retained)
    BY <1>1, <2>3, CallsMemorized DEF Callers
  <2> QED BY <1>9, <2>1, <2>2, <2>3 DEF Replaced
<1>10. CASE Recovered(o)
  <2>1. Goes(o, "done") /\ UNCHANGED mem
    BY <1>10 DEF Recovered, Releases
  <2> QED BY <2>1, LeavesMemorized DEF Places, Ended, Called, Calling
<1>11. CASE Restarted(o)
  <2>1. CASE Goes(o, "inventory") /\ at[o] = "installed"
    <3>1. Placed(o)' /\ UNCHANGED mem
      BY <1>11, <2>1 DEF Restarted, Goes, Memorized, Placed, Called, Calling, Own, Callers
    <3> QED BY <2>1, <3>1, GoesMemorized DEF Places
  <2>2. CASE Releases(o, "refused")
    BY <1>11, <2>2, LeavesMemorized DEF Restarted, Releases, Places, Ended, Called, Calling
  <2> QED BY <1>11, <2>1, <2>2 DEF Restarted
<1>12. CASE InventoryRead(o)
  <2>1. Goes(o, "syncing") /\ UNCHANGED mem
    BY <1>12 DEF InventoryRead, AwaitsSync
  <2>2. Placed(o)'
    BY <1>12, <2>1 DEF InventoryRead, Goes, Memorized, Placed, Called, Calling
  <2> QED BY <2>1, <2>2, GoesMemorized DEF Places
<1>13. CASE Settles(o)
  <2>1. Goes(o, "done") /\ UNCHANGED mem
    BY <1>13 DEF Settles, Releases
  <2> QED BY <2>1, LeavesMemorized DEF Places, Ended, Called, Calling
<1>14. CASE Navigated(o)
  <2>1. PICK place \in {"preparing", "refused", "done"} : Goes(o, place)
    BY <1>14 DEF Navigated, Releases
  <2>2. UNCHANGED mem
    BY <1>14 DEF Navigated
  <2> QED BY <2>1, <2>2, LeavesMemorized DEF Places, Ended, Called, Calling
<1>15. CASE PromptSent(o)
  <2>1. Goes(o, "done") /\ UNCHANGED mem
    BY <1>15 DEF PromptSent
  <2> QED BY <2>1, LeavesMemorized DEF Places, Ended, Called, Calling
<1>16. CASE PlanRead(o)
  <2> DEFINE m == [mem[o] EXCEPT !.edits = plan[mem[o].to] \cup {o}]
  <2>1. mem[o].to \in Conversation
    BY <1>16 DEF PlanRead, Memorized, Placed
  <2>2. m \in Memory
    BY <1>1, <2>1 DEF Memory, Stored
  <2>3. at' = [at EXCEPT ![o] = "writing"] /\ mem' = [mem EXCEPT ![o] = m] /\ "writing" \in Places
    BY <1>16 DEF PlanRead, Goes, Places
  <2>4. Placed(o)'
    BY <1>1, <2>1, <2>3 DEF Memorized, Memory, Placed, Called, Calling
  <2> QED BY <2>2, <2>3, <2>4, MoveMemorized
<1>17. CASE PlanWritten(o)
  <2>1. Goes(o, "done") /\ UNCHANGED mem
    BY <1>17 DEF PlanWritten
  <2> QED BY <2>1, LeavesMemorized DEF Places, Ended, Called, Calling
<1>18. CASE Adopted(o)
  <2> DEFINE m == [mem[o] EXCEPT !.before = config, !.left = Siblings(On[o])]
  <2>1. m \in Memory
    BY <1>1 DEF Memory, Stored, Siblings
  <2>2. at' = [at EXCEPT ![o] = "resources"] /\ mem' = [mem EXCEPT ![o] = m] /\ "resources" \in Places
    BY <1>18 DEF Adopted, Goes, Places, Memorized
  <2>3. Placed(o)'
    BY <2>2 DEF Memorized, Placed, Called, Calling
  <2> QED BY <2>1, <2>2, <2>3, MoveMemorized
<1>19. CASE ResourcesRebuilt(o)
  <2>1. Calls(o, On[o], Fresh, "apply", o)
    BY <1>19 DEF ResourcesRebuilt
  <2> QED BY <1>1, <2>1, CallsMemorized DEF Callers, Settings
<1>20. CASE Applied(o)
  <2>1. CASE Goes(o, "next") /\ at[o] = "installed" /\ UNCHANGED mem
    <3>1. Placed(o)'
      BY <1>20, <2>1 DEF Applied, Goes, Memorized, Placed, Called, Calling, Own, Callers
    <3> QED BY <2>1, <3>1, GoesMemorized DEF Places
  <2>2. CASE RollsBack(o) /\ at[o] \in {"vetoed", "threw"} /\ UNCHANGED mem
    <3>1. Placed(o)'
      BY <2>2 DEF RollsBack, Goes, Memorized, Placed, Called, Calling
    <3> QED BY <2>2, <3>1, GoesMemorized DEF RollsBack, Places
  <2>3. CASE Retries(o)
    BY <1>1, <2>3, CallsMemorized DEF Retries, Callers
  <2> QED BY <1>20, <2>1, <2>2, <2>3 DEF Applied
<1>21. CASE Restored(o)
  <2>1. Goes(o, "refused") /\ UNCHANGED mem
    BY <1>21 DEF Restored, Releases
  <2> QED BY <2>1, LeavesMemorized DEF Places, Ended, Called, Calling
<1>22. CASE Retried(o)
  <2>1. Goes(o, "refused") /\ UNCHANGED mem
    BY <1>22 DEF Retried, Releases
  <2> QED BY <2>1, LeavesMemorized DEF Places, Ended, Called, Calling
<1>23. CASE NextSibling(o)
  <2>1. CASE Goes(o, "inventory") /\ UNCHANGED mem
    <3>1. Placed(o)'
      BY <1>23, <2>1 DEF NextSibling, Goes, Memorized, Placed, Called, Calling
    <3> QED BY <2>1, <3>1, GoesMemorized DEF Places
  <2>2. ASSUME NEW r \in mem[o].left, mem' = [mem EXCEPT ![o].on = r, ![o].tools = config], Goes(o, "sibling")
        PROVE  Memorized'
    <3> DEFINE m == [mem[o] EXCEPT !.on = r, !.tools = config]
    <3>1. r \in Session /\ config \in Settings
      BY <1>1, <2>2 DEF Memory, Stored
    <3>2. m \in Memory
      BY <1>1, <3>1 DEF Memory
    <3>3. at' = [at EXCEPT ![o] = "sibling"] /\ mem' = [mem EXCEPT ![o] = m] /\ "sibling" \in Places
      BY <2>2 DEF Goes, Places, Memorized
    <3>4. mem[o].then = "apply"
      BY <1>23 DEF NextSibling, Memorized, Placed
    <3>5. m.then = "apply" /\ m.on = r /\ m.tools = config
      BY <1>1, <3>4 DEF Memory
    <3>6. Placed(o)'
      BY <3>1, <3>3, <3>5 DEF Memorized, Placed, Called, Calling
    <3> QED BY <3>2, <3>3, <3>6, MoveMemorized
  <2> QED BY <1>23, <2>1, <2>2 DEF NextSibling
<1>24. CASE SiblingResources(o)
  <2> DEFINE m == [mem[o] EXCEPT !.to = Fresh, !.then = "sibling", !.back = live[mem[o].on]]
  <2>1. mem[o].on \in Session /\ live[mem[o].on] \in Conversation
    BY <1>24 DEF SiblingResources, Memorized, Placed, Called, Stored
  <2>2. m \in Memory
    BY <1>1, <2>1 DEF Memory, Callers
  <2>3. at' = [at EXCEPT ![o] = "asking"] /\ mem' = [mem EXCEPT ![o] = m] /\ "asking" \in Places
    BY <1>24 DEF SiblingResources, Goes, Places, Memorized
  <2>4. Placed(o)'
    BY <1>1, <2>1, <2>3 DEF Memorized, Memory, Placed, Called, Calling, Own
  <2> QED BY <2>2, <2>3, <2>4, MoveMemorized
<1>25. CASE SiblingRebuilt(o)
  <2>1. CASE Calls(o, mem[o].on, mem[o].back, "back", Retained) /\ at[o] = "installed" /\ mem[o].back \in saved
    <3>1. mem[o].on \in Session /\ mem[o].back \in Conversation
      BY <2>1 DEF Memorized, Placed, Called, Calling, Stored
    <3> QED BY <2>1, <3>1, CallsMemorized DEF Callers, Own
  <2>2. CASE SiblingDone(o)
    BY <2>2, DoneMemorized
  <2> QED BY <1>25, <2>1, <2>2 DEF SiblingRebuilt
<1>26. CASE SwitchedBack(o)
  <2>1. CASE AwaitsSync(o) /\ at[o] \in {"installed", "vetoed"} /\ UNCHANGED mem
    BY <1>26, <2>1, StaysMemorized DEF AwaitsSync, Calling, SwitchedBack
  <2>2. CASE SiblingDone(o)
    BY <2>2, DoneMemorized
  <2> QED BY <1>26, <2>1, <2>2 DEF SwitchedBack
<1> QED BY <1>2, <1>3, <1>4, <1>5, <1>6, <1>7, <1>8, <1>9, <1>10, <1>11, <1>12, <1>13, <1>14, <1>15, <1>16,
           <1>17, <1>18, <1>19, <1>20, <1>21, <1>22, <1>23, <1>24, <1>25, <1>26
          DEF Continues

\* A veto or a failure keeps both.
LEMMA FaultTyped ==
  ASSUME NEW o \in Ops, Stored, Memorized, Fault(o)
  PROVE  Stored' /\ Memorized'
<1>1. PICK what \in {"vetoed", "threw", "bound"} :
        /\ at[o] \in {"asking", "binding"}
        /\ faults' = faults \cup {<<o, mem[o].then, what>>}
        /\ Goes(o, IF what = "vetoed" THEN "vetoed" ELSE "threw")
  BY DEF Fault
<1>2. UNCHANGED <<conversations, replacing, plans, settings, mem>>
  BY DEF Fault
<1>3. mem[o].then \in Callers
  BY DEF Memorized, Memory
<1>4. Stored'
  BY <1>1, <1>2, <1>3, ChainKept DEF Stored, conversations, plans, settings
<1>5. Memorized'
  BY <1>1, <1>2, StaysMemorized DEF Calling
<1> QED BY <1>4, <1>5

\* So does a failure of the resources of a session.
LEMMA ResourcesFailTyped ==
  ASSUME NEW o \in Ops, Stored, Memorized, ResourcesFail(o)
  PROVE  Stored' /\ Memorized'
<1>1. mem[o].then \in Callers
  BY DEF Memorized, Memory
<1>2. Stored'
  BY <1>1, ChainKept DEF ResourcesFail, Stored, conversations, plans, settings
<1>3. Calls(o, On[o], Fresh, "retry", boundary[On[o]]) /\ On[o] \in Session /\ boundary[On[o]] \in Settings
  BY SessionsAssumption DEF SessionsAssumption, ResourcesFail, Retries, Stored
<1>4. Memorized'
  BY <1>3, CallsMemorized DEF Callers
<1> QED BY <1>2, <1>4

\* So does a failure of a roll back.
LEMMA RestoreFailsTyped ==
  ASSUME NEW o \in Ops, Stored, Memorized, RestoreFails(o)
  PROVE  Stored' /\ Memorized'
<1>1. mem[o].then \in Callers /\ mem[o].before \in Settings /\ On[o] \in Session
  BY SessionsAssumption DEF SessionsAssumption, Memorized, Memory
<1>2. PICK kept \in {boundary[On[o]], mem[o].before} :
        boundary' = [boundary EXCEPT ![On[o]] = kept] /\ Calls(o, On[o], Fresh, "retry", kept)
  BY DEF RestoreFails
<1>3. kept \in Settings
  BY <1>1, <1>2 DEF Stored
<1>4. Stored'
  BY <1>1, <1>2, <1>3, ChainKept DEF RestoreFails, Stored, conversations, plans
<1>5. Memorized'
  BY <1>1, <1>2, <1>3, CallsMemorized DEF Callers
<1> QED BY <1>4, <1>5

\* So does a step of workPlanSync.
LEMMA SyncsTyped ==
  ASSUME NEW s \in Session, Stored, Memorized, Syncs(s)
  PROVE  Stored' /\ Memorized'
<1>1. sync[s] \in Seq(Sync) /\ sync[s] # <<>> /\ 1 \in DOMAIN sync[s] /\ sync[s][1] \in Sync /\ CopiesFrom(sync[s][1])
  BY DEF Syncs, SyncBegins, CopyRead, CopyWritten, PlanLoaded, SyncLands, Step, Stored, Chained, Copied
<1>2. Memorized'
  <2>1. UNCHANGED <<at, mem>>
    BY DEF Syncs, SyncBegins, CopyRead, CopyWritten, PlanLoaded, SyncLands
  <2> QED BY <2>1 DEF Memorized, Placed
<1> DEFINE Takes(step) == sync' = [sync EXCEPT ![s] = [sync[s] EXCEPT ![1] = step]]
<1>3. ASSUME NEW step \in Sync, CopiesFrom(step), Takes(step) PROVE Chained'
  BY <1>1, <1>3, StepChained DEF Stored
<1>4. CASE SyncBegins(s)
  <2> DEFINE step == [sync[s][1] EXCEPT !.from = Source(s),
                                        !.stage = IF Source(s) = None THEN "loading" ELSE "copying"]
  <2>1. step \in Sync /\ CopiesFrom(step)
    BY <1>1 DEF Sync, Source, Stored, CopiesFrom
  <2>2. Takes(step)
    BY <1>1, <1>4 DEF SyncBegins, Stored, Chained
  <2>3. Chained'
    BY <1>3, <2>1, <2>2
  <2> QED BY <1>2, <1>4, <2>3 DEF SyncBegins, Stored, conversations, settings
<1>5. CASE CopyRead(s)
  <2> DEFINE step == [sync[s][1] EXCEPT !.edits = plan[sync[s][1].from], !.stage = "persisting"]
  <2>1. sync[s][1].from \in Conversation
    BY <1>1, <1>5 DEF CopyRead, Step, CopiesFrom, Sync
  <2>2. step \in Sync /\ CopiesFrom(step)
    BY <1>1, <2>1 DEF Sync, Stored, CopiesFrom
  <2>3. Takes(step)
    BY <1>1, <1>5 DEF CopyRead, Stored, Chained
  <2>4. Chained'
    BY <1>3, <2>2, <2>3
  <2> QED BY <1>2, <1>5, <2>4 DEF CopyRead, Stored, conversations, settings
<1>6. CASE CopyWritten(s)
  <2> DEFINE step == [sync[s][1] EXCEPT !.stage = "loading"]
  <2>1. step \in Sync /\ CopiesFrom(step)
    BY <1>1 DEF Sync, CopiesFrom
  <2>2. Takes(step)
    BY <1>1, <1>6 DEF CopyWritten, Stored, Chained
  <2>3. Chained'
    BY <1>3, <2>1, <2>2
  <2>4. sync[s][1].edits \in SUBSET Ops
    BY <1>1 DEF Sync
  <2> QED BY <1>2, <1>6, <2>3, <2>4 DEF CopyWritten, Stored, conversations, settings
<1>7. CASE PlanLoaded(s)
  <2> DEFINE step == [sync[s][1] EXCEPT !.edits = plan[sync[s][1].file], !.stage = "landing"]
  <2>1. step \in Sync /\ CopiesFrom(step)
    BY <1>1 DEF Sync, Stored, CopiesFrom
  <2>2. Takes(step)
    BY <1>1, <1>7 DEF PlanLoaded, Stored, Chained
  <2>3. Chained'
    BY <1>3, <2>1, <2>2
  <2> QED BY <1>2, <1>7, <2>3 DEF PlanLoaded, Stored, conversations, settings
<1>8. CASE SyncLands(s)
  <2>1. Chained'
    <3>1. sync' = [sync EXCEPT ![s] = Tail(@)] /\ sync \in [Session -> Seq(Sync)] /\ Copied
      BY <1>8 DEF SyncLands, Stored, Chained
    <3>2. Tail(sync[s]) \in Seq(Sync)
      BY <1>1
    <3>3. \A i \in DOMAIN Tail(sync[s]) : i + 1 \in DOMAIN sync[s] /\ Tail(sync[s])[i] = sync[s][i + 1]
      BY <1>1
    <3>4. \A i \in DOMAIN Tail(sync[s]) : CopiesFrom(Tail(sync[s])[i])
      BY <3>1, <3>3 DEF Copied
    <3> QED BY <3>1, <3>2, <3>4 DEF Chained, Copied, CopiesFrom
  <2>2. sync[s][1].edits \in SUBSET Ops /\ sync[s][1].file \in Conversation
    BY <1>1 DEF Sync
  <2>3. shown' \in [Session -> [file : Conversation, plan : SUBSET Ops]]
    BY <1>8, <2>2 DEF SyncLands, Stored
  <2> QED BY <1>2, <1>8, <2>1, <2>3 DEF SyncLands, Stored, conversations, settings
<1> QED BY <1>4, <1>5, <1>6, <1>7, <1>8 DEF Syncs

\* So does the end of a turn.
LEMMA TurnEndsTyped ==
  ASSUME NEW s \in Session, Stored, Memorized, TurnEnds(s)
  PROVE  Stored' /\ Memorized'
BY ChainKept DEF TurnEnds, Stored, Memorized, Placed, plans, settings

\* The first state is typed.
LEMMA InitTyped == Init => Stored /\ Memorized
<1> SUFFICES ASSUME Init PROVE Stored /\ Memorized
  OBVIOUS
<1> USE SessionsAssumption DEF SessionsAssumption
<1>1. Chained
  BY DEF Init, Chained, Copied
<1>2. \A s \in Session : First[s] \in Range(First)
  BY DEF Range
<1>3. Range(First) \subseteq Conversation
  BY DEF Range
<1>4. Stored
  BY <1>1, <1>2, <1>3 DEF Init, Stored, Settings
<1>5. Blank \in Memory
  BY DEF Blank, Memory, Callers, Settings
<1>6. Memorized
  BY <1>5 DEF Init, Memorized, Placed, Places, Ended, Called, Calling, Blank
<1> QED BY <1>4, <1>6

\* Every reachable state is typed, whatever the sessions, requests, vetoes and failures.
THEOREM SessionsTypeCorrect == Spec => []TypeOK
<1>1. Init => Stored /\ Memorized
  BY InitTyped
<1>2. Stored /\ Memorized /\ [Next]_vars => Stored' /\ Memorized'
  <2> SUFFICES ASSUME Stored, Memorized, [Next]_vars PROVE Stored' /\ Memorized'
    OBVIOUS
  <2>1. ASSUME NEW o \in Ops, Requested(o) \/ Continues(o) \/ Fault(o) \/ ResourcesFail(o)
              \/ RestoreFails(o)
        PROVE  Stored' /\ Memorized'
    BY <2>1, RequestedStored, RequestedMemorized, ContinuesStored, ContinuesMemorized,
       FaultTyped, ResourcesFailTyped, RestoreFailsTyped
  <2>2. ASSUME NEW s \in Session, Syncs(s) \/ TurnEnds(s)
        PROVE  Stored' /\ Memorized'
    BY <2>2, SyncsTyped, TurnEndsTyped
  <2>3. CASE UNCHANGED vars
    BY <2>3, ChainKept DEF vars, conversations, plans, settings, Stored, Memorized, Placed
  <2> QED BY <2>1, <2>2, <2>3 DEF Next, Terminating
<1>3. Stored /\ Memorized => TypeOK
  BY Halves DEF Typed
<1> QED BY <1>1, <1>2, <1>3, PTL DEF Spec

-----------------------------------------------------------------------------
(* Who sets and clears the flags                                           *)

\* The sessions whose flag an operation of this module has set and has yet to clear.
Owns(o, s) ==
  \/ /\ s = On[o]
     /\ \/ at[o] \in Calling /\ mem[o].then # "reload"
        \/ at[o] \in {"navigating", "resources", "restoring", "next", "sibling", "inventory"}
  \/ s = mem[o].on /\ at[o] \in Calling /\ mem[o].then \in {"sibling", "back"}

\* A step of one operation: those of its own, and the three that fail.
Steps(o) == Requested(o) \/ Continues(o) \/ Fault(o) \/ ResourcesFail(o) \/ RestoreFails(o)

\* It is taken neither by an operation that is over nor by one in a handler of Resources; the
\* call of such a handler stays that call, and is made by none of these steps; and it leaves
\* the other operations where they are.
LEMMA StepAlone ==
  ASSUME NEW o \in Ops, Memorized, Steps(o)
  PROVE  /\ at[o] \notin Ended \cup {"job"} /\ at'[o] \notin {"new", "job"}
         /\ at[o] \in Calling /\ mem[o].then = "reload" =>
              at'[o] \in Calling /\ mem'[o].then = "reload" /\ mem'[o].on = mem[o].on
         /\ at'[o] \in Calling /\ mem'[o].then = "reload" => at[o] \in Calling /\ mem[o].then = "reload"
         /\ \A p \in Ops \ {o} : at'[p] = at[p] /\ mem'[p].on = mem[p].on /\ mem'[p].then = mem[p].then
<1>1. /\ at \in [Ops -> Places] /\ mem \in [Ops -> Memory]
      /\ \A p \in Ops : mem[p] \in Memory /\ Placed(p)
  BY DEF Memorized
<1> USE <1>1 DEF Goes, Ended, Calling
<1>2. CASE NewSession(o)
  BY <1>2 DEF NewSession, Arrives, ReplaceSession, Calls
<1>3. CASE Fork(o)
  BY <1>3 DEF Fork, Arrives, ReplaceSession, Calls
<1>4. CASE SwitchArrives(o)
  BY <1>4 DEF SwitchArrives, Arrives
<1>5. CASE DeleteArrives(o)
  BY <1>5 DEF DeleteArrives, Arrives
<1>6. CASE Restart(o)
  BY <1>6 DEF Restart, Arrives, Calls
<1>7. CASE Navigate(o)
  BY <1>7 DEF Navigate, Arrives
<1>8. CASE Prompt(o)
  BY <1>8 DEF Prompt, Arrives
<1>9. CASE Apply(o)
  BY <1>9 DEF Apply, Arrives
<1>10. CASE PlanTool(o)
  BY <1>10 DEF PlanTool, Arrives
<1>11. CASE SwitchFound(o)
  BY <1>11 DEF SwitchFound, ReplaceSession, Calls
<1>12. CASE DeleteFound(o)
  BY <1>12 DEF DeleteFound
<1>13. CASE Unlinked(o)
  BY <1>13 DEF Unlinked
<1>14. CASE PlanDeleted(o)
  BY <1>14 DEF PlanDeleted
<1>15. CASE TurnedAway(o)
  BY <1>15 DEF TurnedAway, Arrives, Turned
<1>16. CASE Install(o)
  <2>1. \A p \in Ops : mem'[p] = mem[p] \/ mem'[p] = [mem[p] EXCEPT !.cut = TRUE]
    BY <1>16 DEF Install
  <2>2. \A p \in Ops : mem'[p].on = mem[p].on /\ mem'[p].then = mem[p].then
    BY <2>1, ZenonT(60) DEF Memory
  <2> QED BY <1>16, <2>2 DEF Install
<1>17. CASE Bind(o)
  BY <1>17 DEF Bind
<1>18. CASE Replaced(o)
  BY <1>18 DEF Replaced, AwaitsSync, Releases, Calls, Memory
<1>19. CASE Recovered(o)
  BY <1>19 DEF Recovered, Releases
<1>20. CASE Restarted(o)
  BY <1>20 DEF Restarted, Releases
<1>21. CASE InventoryRead(o)
  BY <1>21 DEF InventoryRead, AwaitsSync, Placed
<1>22. CASE Settles(o)
  BY <1>22 DEF Settles, Synced, Releases
<1>23. CASE Navigated(o)
  BY <1>23 DEF Navigated, Releases
<1>24. CASE PromptSent(o)
  BY <1>24 DEF PromptSent
<1>25. CASE PlanRead(o)
  BY <1>25 DEF PlanRead
<1>26. CASE PlanWritten(o)
  BY <1>26 DEF PlanWritten
<1>27. CASE Adopted(o)
  BY <1>27 DEF Adopted
<1>28. CASE ResourcesRebuilt(o)
  BY <1>28 DEF ResourcesRebuilt, Calls
<1>29. CASE Applied(o)
  BY <1>29 DEF Applied, RollsBack, Retries, Calls, Memory
<1>30. CASE Restored(o)
  BY <1>30 DEF Restored, Releases
<1>31. CASE Retried(o)
  BY <1>31 DEF Retried, Releases
<1>32. CASE NextSibling(o)
  BY <1>32 DEF NextSibling
<1>33. CASE SiblingResources(o)
  BY <1>33 DEF SiblingResources, Placed
<1>34. CASE SiblingRebuilt(o)
  BY <1>34 DEF SiblingRebuilt, Calls, SiblingDone, Memory
<1>35. CASE SwitchedBack(o)
  BY <1>35 DEF SwitchedBack, AwaitsSync, Synced, SiblingDone
<1>36. CASE Fault(o)
  BY <1>36 DEF Fault
<1>37. CASE ResourcesFail(o)
  BY <1>37 DEF ResourcesFail, Retries, Calls
<1>38. CASE RestoreFails(o)
  BY <1>38 DEF RestoreFails, Calls
<1> QED BY <1>2, <1>3, <1>4, <1>5, <1>6, <1>7, <1>8, <1>9, <1>10, <1>11, <1>12, <1>13, <1>14, <1>15, <1>16,
           <1>17, <1>18, <1>19, <1>20, <1>21, <1>22, <1>23, <1>24, <1>25, <1>26, <1>27, <1>28, <1>29, <1>30,
           <1>31, <1>32, <1>33, <1>34, <1>35, <1>36, <1>37, <1>38
          DEF Steps, Requested, Continues

\* What a step does to the flags: those it sets it owns, and of those it owned it lets go of
\* none that stays set.
Flags(o) ==
  /\ \A s \in replacing' \ replacing : Owns(o, s)'
  /\ \A s \in replacing' : Owns(o, s) => Owns(o, s)'

\* Every step of an operation does that, whatever happens to its calls.
LEMMA StepFlags ==
  ASSUME NEW o \in Ops, Memorized, Steps(o)
  PROVE  Flags(o)
<1>1. /\ at \in [Ops -> Places] /\ mem \in [Ops -> Memory] /\ mem[o] \in Memory /\ Placed(o)
  BY DEF Memorized
<1> USE <1>1 DEF Flags, Owns, Goes, Calling
<1>2. CASE NewSession(o)
  BY <1>2 DEF NewSession, Arrives, ReplaceSession, Calls, Placed, Called, Own, Callers, Memory
<1>3. CASE Fork(o)
  BY <1>3 DEF Fork, Arrives, ReplaceSession, Calls, Placed, Called, Own, Callers, Memory
<1>4. CASE SwitchArrives(o)
  BY <1>4 DEF SwitchArrives, Arrives, Placed, Called, Own, Callers, Memory
<1>5. CASE DeleteArrives(o)
  BY <1>5 DEF DeleteArrives, Arrives, Placed, Called, Own, Callers, Memory
<1>6. CASE Restart(o)
  BY <1>6 DEF Restart, Arrives, Calls, Placed, Called, Own, Callers, Memory
<1>7. CASE Navigate(o)
  BY <1>7 DEF Navigate, Arrives, Placed, Called, Own, Callers, Memory
<1>8. CASE Prompt(o)
  BY <1>8 DEF Prompt, Arrives, Placed, Called, Own, Callers, Memory
<1>9. CASE Apply(o)
  BY <1>9 DEF Apply, Arrives, Placed, Called, Own, Callers, Memory
<1>10. CASE PlanTool(o)
  BY <1>10 DEF PlanTool, Arrives, Placed, Called, Own, Callers, Memory
<1>11. CASE SwitchFound(o)
  BY <1>11 DEF SwitchFound, ReplaceSession, Calls, Placed, Called, Own, Callers, Memory
<1>12. CASE DeleteFound(o)
  BY <1>12 DEF DeleteFound, Placed, Called, Own, Callers, Memory
<1>13. CASE Unlinked(o)
  BY <1>13 DEF Unlinked, Placed, Called, Own, Callers, Memory
<1>14. CASE PlanDeleted(o)
  BY <1>14 DEF PlanDeleted, Placed, Called, Own, Callers, Memory
<1>15. CASE TurnedAway(o)
  BY <1>15 DEF TurnedAway, Arrives, Turned, Placed, Called, Own, Callers, Memory
<1>16. CASE Install(o)
  <2>1. mem'[o] = mem[o]
    BY <1>16 DEF Install
  <2> QED BY <1>16, <2>1 DEF Install
<1>17. CASE Bind(o)
  BY <1>17 DEF Bind, Placed, Called, Own, Callers, Memory
<1>18. CASE Replaced(o)
  BY <1>18 DEF Replaced, AwaitsSync, Releases, Calls, Placed, Called, Own, Callers, Memory
<1>19. CASE Recovered(o)
  BY <1>19 DEF Recovered, Releases, Placed, Called, Own, Callers, Memory
<1>20. CASE Restarted(o)
  BY <1>20 DEF Restarted, Releases, Placed, Called, Own, Callers, Memory
<1>21. CASE InventoryRead(o)
  BY <1>21 DEF InventoryRead, AwaitsSync, Placed, Called, Own, Callers, Memory
<1>22. CASE Settles(o)
  BY <1>22 DEF Settles, Synced, Releases, Placed, Called, Own, Callers, Memory
<1>23. CASE Navigated(o)
  BY <1>23 DEF Navigated, Releases, Placed, Called, Own, Callers, Memory
<1>24. CASE PromptSent(o)
  BY <1>24 DEF PromptSent, Placed, Called, Own, Callers, Memory
<1>25. CASE PlanRead(o)
  BY <1>25 DEF PlanRead, Placed, Called, Own, Callers, Memory
<1>26. CASE PlanWritten(o)
  BY <1>26 DEF PlanWritten, Placed, Called, Own, Callers, Memory
<1>27. CASE Adopted(o)
  BY <1>27 DEF Adopted, Placed, Called, Own, Callers, Memory
<1>28. CASE ResourcesRebuilt(o)
  BY <1>28 DEF ResourcesRebuilt, Calls, Placed, Called, Own, Callers, Memory
<1>29. CASE Applied(o)
  BY <1>29 DEF Applied, RollsBack, Retries, Calls, Placed, Called, Own, Callers, Memory
<1>30. CASE Restored(o)
  BY <1>30 DEF Restored, Releases, Placed, Called, Own, Callers, Memory
<1>31. CASE Retried(o)
  BY <1>31 DEF Retried, Releases, Placed, Called, Own, Callers, Memory
<1>32. CASE NextSibling(o)
  BY <1>32 DEF NextSibling, Placed, Called, Own, Callers, Memory
<1>33. CASE SiblingResources(o)
  BY <1>33 DEF SiblingResources, Placed, Called, Own, Callers, Memory
<1>34. CASE SiblingRebuilt(o)
  BY <1>34 DEF SiblingRebuilt, Calls, SiblingDone, Placed, Called, Own, Callers, Memory
<1>35. CASE SwitchedBack(o)
  BY <1>35 DEF SwitchedBack, AwaitsSync, Synced, SiblingDone, Placed, Called, Own, Callers, Memory
<1>36. CASE Fault(o)
  BY <1>36 DEF Fault
<1>37. CASE ResourcesFail(o)
  BY <1>37 DEF ResourcesFail, Retries, Calls, Memory
<1>38. CASE RestoreFails(o)
  BY <1>38 DEF RestoreFails, Calls, Memory
<1> QED BY <1>2, <1>3, <1>4, <1>5, <1>6, <1>7, <1>8, <1>9, <1>10, <1>11, <1>12, <1>13, <1>14, <1>15, <1>16,
           <1>17, <1>18, <1>19, <1>20, <1>21, <1>22, <1>23, <1>24, <1>25, <1>26, <1>27, <1>28, <1>29, <1>30,
           <1>31, <1>32, <1>33, <1>34, <1>35, <1>36, <1>37, <1>38
          DEF Steps, Requested, Continues

\* Settings are applied by two kinds of operations, of which only a removal is new in Resources,
\* and the tree is moved in by two others.
Applying == {"apply", "remove"}
Kinds(o) ==
  /\ \/ at[o] \in {"checking", "resources", "restoring", "next", "sibling"}
     \/ mem[o].then \in {"apply", "retry", "sibling", "back"}
     => Kind[o] \in Applying
  /\ at[o] = "navigating" => Kind[o] \in {"navigate", "edit"}

\* An operation that applies settings, before it has adopted them.
Unadopted(o) == Kind[o] \in Applying => mem[o].on = None /\ at[o] # "resources"

\* What an operation that adopts no settings does to the flags: it comes to own only those that
\* nobody had set, and clears only its own.
Excludes(o) ==
  /\ \A s \in Session : Owns(o, s)' => s \in replacing' /\ (Owns(o, s) \/ s \notin replacing)
  /\ \A s \in replacing \ replacing' : Owns(o, s)

\* Settings once adopted stay so: no step undoes it.
LEMMA StepAdopts ==
  ASSUME NEW o \in Ops, Memorized, Steps(o), Unadopted(o)'
  PROVE  Unadopted(o)
<1>1. /\ at \in [Ops -> Places] /\ mem \in [Ops -> Memory] /\ mem[o] \in Memory /\ Placed(o)
      /\ On[o] \in Session /\ None \notin Session
  BY SessionsAssumption DEF SessionsAssumption, Memorized
<1> USE <1>1 DEF Unadopted, Goes, Calling, Applying
<1>2. CASE NewSession(o)
  BY <1>2 DEF NewSession, Arrives, ReplaceSession, Calls, Placed, Memory
<1>3. CASE Fork(o)
  BY <1>3 DEF Fork, Arrives, ReplaceSession, Calls, Placed, Memory
<1>4. CASE SwitchArrives(o)
  BY <1>4 DEF SwitchArrives, Arrives, Placed, Memory
<1>5. CASE DeleteArrives(o)
  BY <1>5 DEF DeleteArrives, Arrives, Placed, Memory
<1>6. CASE Restart(o)
  BY <1>6 DEF Restart, Arrives, Calls, Placed, Memory
<1>7. CASE Navigate(o)
  BY <1>7 DEF Navigate, Arrives, Placed, Memory
<1>8. CASE Prompt(o)
  BY <1>8 DEF Prompt, Arrives, Placed, Memory
<1>9. CASE Apply(o)
  BY <1>9 DEF Apply, Arrives, Placed, Memory
<1>10. CASE PlanTool(o)
  BY <1>10 DEF PlanTool, Arrives, Placed, Memory
<1>11. CASE SwitchFound(o)
  BY <1>11 DEF SwitchFound, ReplaceSession, Calls, Placed, Memory
<1>12. CASE DeleteFound(o)
  BY <1>12 DEF DeleteFound, Placed, Memory
<1>13. CASE Unlinked(o)
  BY <1>13 DEF Unlinked, Placed, Memory
<1>14. CASE PlanDeleted(o)
  BY <1>14 DEF PlanDeleted, Placed, Memory
<1>15. CASE TurnedAway(o)
  BY <1>15 DEF TurnedAway, Arrives, Turned, Placed, Memory
<1>16. CASE Install(o)
  <2>1. mem'[o] = mem[o]
    BY <1>16 DEF Install
  <2> QED BY <1>16, <2>1 DEF Install
<1>17. CASE Bind(o)
  BY <1>17 DEF Bind, Placed, Memory
<1>18. CASE Replaced(o)
  BY <1>18 DEF Replaced, AwaitsSync, Releases, Calls, Placed, Memory
<1>19. CASE Recovered(o)
  BY <1>19 DEF Recovered, Releases, Placed, Memory
<1>20. CASE Restarted(o)
  BY <1>20 DEF Restarted, Releases, Placed, Memory
<1>21. CASE InventoryRead(o)
  BY <1>21 DEF InventoryRead, AwaitsSync, Placed, Memory
<1>22. CASE Settles(o)
  BY <1>22 DEF Settles, Synced, Releases, Placed, Memory
<1>23. CASE Navigated(o)
  BY <1>23 DEF Navigated, Releases, Placed, Memory
<1>24. CASE PromptSent(o)
  BY <1>24 DEF PromptSent, Placed, Memory
<1>25. CASE PlanRead(o)
  BY <1>25 DEF PlanRead, Placed, Memory
<1>26. CASE PlanWritten(o)
  BY <1>26 DEF PlanWritten, Placed, Memory
<1>27. CASE Adopted(o)
  BY <1>27 DEF Adopted, Placed, Memory
<1>28. CASE ResourcesRebuilt(o)
  BY <1>28 DEF ResourcesRebuilt, Calls, Placed, Memory
<1>29. CASE Applied(o)
  BY <1>29 DEF Applied, RollsBack, Retries, Calls, Placed, Memory
<1>30. CASE Restored(o)
  BY <1>30 DEF Restored, Releases, Placed, Memory
<1>31. CASE Retried(o)
  BY <1>31 DEF Retried, Releases, Placed, Memory
<1>32. CASE NextSibling(o)
  <2>1. CASE mem[o].left = {}
    BY <1>32, <2>1 DEF NextSibling
  <2>2. ASSUME NEW r \in mem[o].left, mem' = [mem EXCEPT ![o].on = r, ![o].tools = config]
        PROVE  Unadopted(o)
    <3>1. mem'[o].on = r /\ r \in Session
      BY <1>1, <2>2 DEF Memory
    <3> QED BY <1>32, <3>1 DEF NextSibling
  <2> QED BY <1>32, <2>1, <2>2 DEF NextSibling
<1>33. CASE SiblingResources(o)
  BY <1>33 DEF SiblingResources, Placed, Memory
<1>34. CASE SiblingRebuilt(o)
  BY <1>34 DEF SiblingRebuilt, Calls, SiblingDone, Placed, Memory
<1>35. CASE SwitchedBack(o)
  BY <1>35 DEF SwitchedBack, AwaitsSync, Synced, SiblingDone, Placed, Memory
<1>36. CASE Fault(o)
  BY <1>36 DEF Fault
<1>37. CASE ResourcesFail(o)
  BY <1>37 DEF ResourcesFail, Retries, Calls, Placed, Memory
<1>38. CASE RestoreFails(o)
  BY <1>38 DEF RestoreFails, Calls, Placed, Memory
<1> QED BY <1>2, <1>3, <1>4, <1>5, <1>6, <1>7, <1>8, <1>9, <1>10, <1>11, <1>12, <1>13, <1>14, <1>15, <1>16,
           <1>17, <1>18, <1>19, <1>20, <1>21, <1>22, <1>23, <1>24, <1>25, <1>26, <1>27, <1>28, <1>29, <1>30,
           <1>31, <1>32, <1>33, <1>34, <1>35, <1>36, <1>37, <1>38
          DEF Steps, Requested, Continues

\* Every step keeps Kinds.
LEMMA StepKinds ==
  ASSUME NEW o \in Ops, Memorized, Kinds(o), Steps(o)
  PROVE  Kinds(o)'
<1>1. /\ at \in [Ops -> Places] /\ mem \in [Ops -> Memory] /\ mem[o] \in Memory /\ Placed(o)
  BY DEF Memorized
<1> USE <1>1 DEF Kinds, Goes, Calling, Applying
<1>2. CASE NewSession(o)
  BY <1>2 DEF NewSession, Arrives, ReplaceSession, Calls, Placed, Memory
<1>3. CASE Fork(o)
  BY <1>3 DEF Fork, Arrives, ReplaceSession, Calls, Placed, Memory
<1>4. CASE SwitchArrives(o)
  BY <1>4 DEF SwitchArrives, Arrives, Placed, Memory
<1>5. CASE DeleteArrives(o)
  BY <1>5 DEF DeleteArrives, Arrives, Placed, Memory
<1>6. CASE Restart(o)
  BY <1>6 DEF Restart, Arrives, Calls, Placed, Memory
<1>7. CASE Navigate(o)
  BY <1>7 DEF Navigate, Arrives, Placed, Memory
<1>8. CASE Prompt(o)
  BY <1>8 DEF Prompt, Arrives, Placed, Memory
<1>9. CASE Apply(o)
  BY <1>9 DEF Apply, Arrives, Placed, Memory
<1>10. CASE PlanTool(o)
  BY <1>10 DEF PlanTool, Arrives, Placed, Memory
<1>11. CASE SwitchFound(o)
  BY <1>11 DEF SwitchFound, ReplaceSession, Calls, Placed, Memory
<1>12. CASE DeleteFound(o)
  BY <1>12 DEF DeleteFound, Placed, Memory
<1>13. CASE Unlinked(o)
  BY <1>13 DEF Unlinked, Placed, Memory
<1>14. CASE PlanDeleted(o)
  BY <1>14 DEF PlanDeleted, Placed, Memory
<1>15. CASE TurnedAway(o)
  BY <1>15 DEF TurnedAway, Arrives, Turned, Placed, Memory
<1>16. CASE Install(o)
  <2>1. mem'[o] = mem[o]
    BY <1>16 DEF Install
  <2> QED BY <1>16, <2>1 DEF Install
<1>17. CASE Bind(o)
  BY <1>17 DEF Bind, Placed, Memory
<1>18. CASE Replaced(o)
  BY <1>18 DEF Replaced, AwaitsSync, Releases, Calls, Placed, Memory
<1>19. CASE Recovered(o)
  BY <1>19 DEF Recovered, Releases, Placed, Memory
<1>20. CASE Restarted(o)
  BY <1>20 DEF Restarted, Releases, Placed, Memory
<1>21. CASE InventoryRead(o)
  BY <1>21 DEF InventoryRead, AwaitsSync, Placed, Memory
<1>22. CASE Settles(o)
  BY <1>22 DEF Settles, Synced, Releases, Placed, Memory
<1>23. CASE Navigated(o)
  BY <1>23 DEF Navigated, Releases, Placed, Memory
<1>24. CASE PromptSent(o)
  BY <1>24 DEF PromptSent, Placed, Memory
<1>25. CASE PlanRead(o)
  BY <1>25 DEF PlanRead, Placed, Memory
<1>26. CASE PlanWritten(o)
  BY <1>26 DEF PlanWritten, Placed, Memory
<1>27. CASE Adopted(o)
  BY <1>27 DEF Adopted, Placed, Memory
<1>28. CASE ResourcesRebuilt(o)
  BY <1>28 DEF ResourcesRebuilt, Calls, Placed, Memory
<1>29. CASE Applied(o)
  BY <1>29 DEF Applied, RollsBack, Retries, Calls, Placed, Memory
<1>30. CASE Restored(o)
  BY <1>30 DEF Restored, Releases, Placed, Memory
<1>31. CASE Retried(o)
  BY <1>31 DEF Retried, Releases, Placed, Memory
<1>32. CASE NextSibling(o)
  BY <1>32 DEF NextSibling, Placed, Memory
<1>33. CASE SiblingResources(o)
  BY <1>33 DEF SiblingResources, Placed, Memory
<1>34. CASE SiblingRebuilt(o)
  BY <1>34 DEF SiblingRebuilt, Calls, SiblingDone, Placed, Memory
<1>35. CASE SwitchedBack(o)
  BY <1>35 DEF SwitchedBack, AwaitsSync, Synced, SiblingDone, Placed, Memory
<1>36. CASE Fault(o)
  BY <1>36 DEF Fault
<1>37. CASE ResourcesFail(o)
  BY <1>37 DEF ResourcesFail, Retries, Calls, Placed, Memory
<1>38. CASE RestoreFails(o)
  BY <1>38 DEF RestoreFails, Calls, Placed, Memory
<1> QED BY <1>2, <1>3, <1>4, <1>5, <1>6, <1>7, <1>8, <1>9, <1>10, <1>11, <1>12, <1>13, <1>14, <1>15, <1>16,
           <1>17, <1>18, <1>19, <1>20, <1>21, <1>22, <1>23, <1>24, <1>25, <1>26, <1>27, <1>28, <1>29, <1>30,
           <1>31, <1>32, <1>33, <1>34, <1>35, <1>36, <1>37, <1>38
          DEF Steps, Requested, Continues

\* While an operation has adopted no settings, its steps exclude the others.
LEMMA StepExcludes ==
  ASSUME NEW o \in Ops, Stored, Memorized, Kinds(o), Unadopted(o), Unadopted(o)', Steps(o),
         \A s \in Session : Owns(o, s) => s \in replacing
  PROVE  Excludes(o)
<1>1. /\ at \in [Ops -> Places] /\ mem \in [Ops -> Memory] /\ mem[o] \in Memory /\ Placed(o)
      /\ replacing \subseteq Session /\ On[o] \in Session
  BY SessionsAssumption DEF SessionsAssumption, Memorized, Stored
<1>2. Kind[o] \in Applying => at[o] \notin Called
  BY <1>1, SessionsAssumption DEF SessionsAssumption, Unadopted, Placed
<1>3. ~\E place \in {"resources", "restoring", "next", "sibling"} : at[o] = place
  BY <1>1, <1>2 DEF Kinds, Unadopted, Called
<1>4. at[o] \in Calling => mem[o].then \notin {"apply", "retry", "sibling", "back"}
  BY <1>1, <1>2 DEF Kinds, Called
<1> USE <1>1 DEF Excludes, Owns, Goes, Calling
<1>5. CASE NewSession(o)
  BY <1>4, <1>5 DEF NewSession, Arrives, ReplaceSession, Calls, Placed, Called, Own, Callers, Memory
<1>6. CASE Fork(o)
  BY <1>4, <1>6 DEF Fork, Arrives, ReplaceSession, Calls, Placed, Called, Own, Callers, Memory
<1>7. CASE SwitchArrives(o)
  BY <1>4, <1>7 DEF SwitchArrives, Arrives, Placed, Called, Own, Callers, Memory
<1>8. CASE DeleteArrives(o)
  BY <1>4, <1>8 DEF DeleteArrives, Arrives, Placed, Called, Own, Callers, Memory
<1>9. CASE Restart(o)
  BY <1>4, <1>9 DEF Restart, Arrives, Calls, Placed, Called, Own, Callers, Memory
<1>10. CASE Navigate(o)
  BY <1>4, <1>10 DEF Navigate, Arrives, Placed, Called, Own, Callers, Memory
<1>11. CASE Prompt(o)
  BY <1>4, <1>11 DEF Prompt, Arrives, Placed, Called, Own, Callers, Memory
<1>12. CASE Apply(o)
  BY <1>4, <1>12 DEF Apply, Arrives, Placed, Called, Own, Callers, Memory
<1>13. CASE PlanTool(o)
  BY <1>4, <1>13 DEF PlanTool, Arrives, Placed, Called, Own, Callers, Memory
<1>14. CASE SwitchFound(o)
  BY <1>4, <1>14 DEF SwitchFound, ReplaceSession, Calls, Placed, Called, Own, Callers, Memory
<1>15. CASE DeleteFound(o)
  BY <1>4, <1>15 DEF DeleteFound, Placed, Called, Own, Callers, Memory
<1>16. CASE Unlinked(o)
  BY <1>4, <1>16 DEF Unlinked, Placed, Called, Own, Callers, Memory
<1>17. CASE PlanDeleted(o)
  BY <1>4, <1>17 DEF PlanDeleted, Placed, Called, Own, Callers, Memory
<1>18. CASE TurnedAway(o)
  BY <1>4, <1>18 DEF TurnedAway, Arrives, Turned, Placed, Called, Own, Callers, Memory
<1>19. CASE Install(o)
  <2>1. mem'[o] = mem[o]
    BY <1>19 DEF Install
  <2> QED BY <1>19, <2>1 DEF Install
<1>20. CASE Bind(o)
  BY <1>4, <1>20 DEF Bind, Placed, Called, Own, Callers, Memory
<1>21. CASE Replaced(o)
  BY <1>4, <1>21 DEF Replaced, AwaitsSync, Releases, Calls, Placed, Called, Own, Callers, Memory
<1>22. CASE Recovered(o)
  BY <1>4, <1>22 DEF Recovered, Releases, Placed, Called, Own, Callers, Memory
<1>23. CASE Restarted(o)
  BY <1>4, <1>23 DEF Restarted, Releases, Placed, Called, Own, Callers, Memory
<1>24. CASE InventoryRead(o)
  BY <1>4, <1>24 DEF InventoryRead, AwaitsSync, Placed, Called, Own, Callers, Memory
<1>25. CASE Settles(o)
  BY <1>4, <1>25 DEF Settles, Synced, Releases, Placed, Called, Own, Callers, Memory
<1>26. CASE Navigated(o)
  BY <1>4, <1>26 DEF Navigated, Releases, Placed, Called, Own, Callers, Memory
<1>27. CASE PromptSent(o)
  BY <1>4, <1>27 DEF PromptSent, Placed, Called, Own, Callers, Memory
<1>28. CASE PlanRead(o)
  BY <1>4, <1>28 DEF PlanRead, Placed, Called, Own, Callers, Memory
<1>29. CASE PlanWritten(o)
  BY <1>4, <1>29 DEF PlanWritten, Placed, Called, Own, Callers, Memory
<1>30. CASE Fault(o)
  BY <1>30 DEF Fault
<1>31. CASE Adopted(o)
  <2>1. at'[o] = "resources"
    BY <1>31 DEF Adopted
  <2> QED BY <1>31, <2>1 DEF Adopted, Kinds, Unadopted
<1>32. CASE ResourcesRebuilt(o) \/ Applied(o) \/ Restored(o) \/ Retried(o) \/ NextSibling(o)
              \/ SiblingResources(o) \/ SiblingRebuilt(o) \/ SwitchedBack(o) \/ ResourcesFail(o)
              \/ RestoreFails(o)
  BY <1>3, <1>4, <1>32
    DEF ResourcesRebuilt, Applied, Restored, Retried, NextSibling, SiblingResources, SiblingRebuilt,
        SwitchedBack, Synced, ResourcesFail, RestoreFails
<1> QED BY <1>5, <1>6, <1>7, <1>8, <1>9, <1>10, <1>11, <1>12, <1>13, <1>14, <1>15, <1>16, <1>17, <1>18, <1>19,
           <1>20, <1>21, <1>22, <1>23, <1>24, <1>25, <1>26, <1>27, <1>28, <1>29, <1>30, <1>31, <1>32
          DEF Steps, Requested, Continues

-----------------------------------------------------------------------------
(* Who writes to a conversation                                            *)

\* A session is about to be put on a conversation, or on the one it left to be rebuilt.
Heads(o, s, c) == at[o] = "asking" /\ mem[o].on = s /\ mem[o].to = c
Returns(o, s, c) ==
  at[o] \in Calling /\ mem[o].then = "sibling" /\ mem[o].on = s /\ mem[o].back = c
\* A session shows a conversation, or will as far as one operation goes, or any.
ClaimsBy(o, s, c) == live[s] = c \/ Heads(o, s, c) \/ Returns(o, s, c)
Claims(s, c) == live[s] = c \/ \E o \in Ops : ClaimsBy(o, s, c)

\* Only switches, and the return of who was rebuilt for settings, name a conversation that
\* exists; settings rebuild the siblings of their session.
Root(o) ==
  /\ Kind[o] = "switch" =>
       /\ at[o] \in Calling \cup Ended \cup {"new", "looking"}
       /\ at[o] \in Calling => mem[o].then \in {"replace", "recover"}
  /\ at[o] = "asking" /\ mem[o].to \in Conversation =>
       /\ mem[o].to \in used
       /\ \/ Kind[o] = "switch" /\ Aim[o] = mem[o].to
          \/ mem[o].then = "back" /\ mem[o].back = mem[o].to
  /\ mem[o].left \subseteq Siblings(On[o])
  /\ at[o] = "sibling" => mem[o].on \in Siblings(On[o])
  /\ at[o] \in Calling /\ mem[o].then \in {"sibling", "back"} =>
       mem[o].on \in Siblings(On[o]) /\ mem[o].back \in used

\* A conversation that two sessions of a project claim has been come to in one of the two ways.
Single ==
  \A r \in Session : \A s \in Siblings(r) : \A c \in Conversation :
    Claims(r, c) /\ Claims(s, c) => Shared(s, c)

\* What a step of one operation leaves of the others, and of its own past.
Apart(o) ==
  \A p \in Ops \ {o} : /\ at'[p] = at[p] /\ mem'[p].on = mem[p].on /\ mem'[p].to = mem[p].to
                       /\ mem'[p].then = mem[p].then /\ mem'[p].back = mem[p].back
                       /\ mem'[p].left = mem[p].left
Recalls(o) ==
  /\ used \subseteq used'
  /\ \A c : Went(o, c) => Went(o, c)'
  /\ mem[o].back # None => mem'[o].back # None

\* Nothing that was not claimed is, or only in one session: a conversation that did not exist, or
\* one that no sibling shows and a switch has found.
Found(o, c) == at[o] = "looking" /\ Went(o, c)' /\ \A r \in Siblings(On[o]) : live[r] # c
Quiet(o) == \A s \in Session : \A c \in Conversation : ClaimsBy(o, s, c)' => ClaimsBy(o, s, c)
Comes(o, t) ==
  \A s \in Session : \A c \in Conversation :
    ClaimsBy(o, s, c)' => \/ ClaimsBy(o, s, c)
                          \/ s = t /\ c \notin used
                          \/ s = t /\ t = On[o] /\ Found(o, c)

\* What is claimed exists.
LEMMA ClaimedIsUsed ==
  ASSUME Stored, \A o \in Ops : Root(o), NEW s \in Session, NEW c \in Conversation, Claims(s, c)
  PROVE  c \in used
BY DEF Stored, Root, Claims, ClaimsBy, Heads, Returns

\* A sibling's claim is a way the conversation was come to, if the sibling does not show it.
LEMMA ClaimedByAWay ==
  ASSUME NEW o \in Ops, \A p \in Ops : Root(p), Stored, NEW s \in Session, NEW r \in Siblings(s),
         NEW c \in Conversation, at[o] = "looking", Claims(r, c), live[r] # c
  PROVE  \E p \in Ops \ {o} : Went(p, c) \/ Resettled(p, s)
<1>1. PICK p \in Ops : Heads(p, r, c) \/ Returns(p, r, c)
  BY DEF Claims, ClaimsBy
<1>2. p # o /\ at[p] \in Calling
  BY <1>1 DEF Heads, Returns, Calling
<1>3. CASE mem[p].back = c /\ mem[p].on = r /\ mem[p].then \in {"sibling", "back"}
  <2>1. r \in Siblings(On[p]) /\ mem[p].back # None
    BY <1>2, <1>3, SessionsAssumption DEF SessionsAssumption, Root
  <2>2. Resettled(p, s)
    BY <2>1 DEF Resettled, Siblings
  <2> QED BY <1>2, <2>2
<1>4. CASE Kind[p] = "switch" /\ Aim[p] = c
  BY <1>2, <1>4 DEF Went
<1> QED BY <1>1, <1>3, <1>4 DEF Root, Heads, Returns

\* What the conversation was come to by stays so.
LEMMA SharedStays ==
  ASSUME NEW o \in Ops, Apart(o), Recalls(o), NEW s, NEW c
  PROVE  Shared(s, c) => Shared(s, c)'
<1>1. \A p \in Ops : /\ Went(p, c) => Went(p, c)'
                     /\ Resettled(p, s) => Resettled(p, s)'
  BY DEF Apart, Recalls, Went, Resettled
<1> QED BY <1>1 DEF Shared

\* The claims of the others stay what they were.
LEMMA ClaimsCome ==
  ASSUME NEW o \in Ops, NEW t \in Session, Apart(o), Comes(o, t), NEW s \in Session, NEW c \in Conversation,
         Claims(s, c)'
  PROVE  Claims(s, c) \/ (s = t /\ c \notin used) \/ (s = t /\ t = On[o] /\ Found(o, c))
<1>1. PICK p \in Ops : ClaimsBy(p, s, c)'
  BY DEF Claims, ClaimsBy
<1>2. CASE ClaimsBy(o, s, c)'
  BY <1>2 DEF Comes, Claims
<1>3. CASE ~ClaimsBy(o, s, c)'
  <2>1. p # o /\ (Heads(p, s, c) \/ Returns(p, s, c))
    BY <1>1, <1>3 DEF Apart, ClaimsBy, Heads, Returns
  <2> QED BY <2>1 DEF Claims, ClaimsBy
<1> QED BY <1>2, <1>3

\* Such a step leaves every conversation claimed once, but for the two ways.
LEMMA SingleStays ==
  ASSUME NEW o \in Ops, NEW t \in Session, Stored, Single, \A p \in Ops : Root(p),
         Apart(o), Recalls(o), Comes(o, t)
  PROVE  Single'
<1> SUFFICES ASSUME NEW r \in Session, NEW s \in Siblings(r), NEW c \in Conversation,
                    Claims(r, c)', Claims(s, c)'
             PROVE  Shared(s, c)'
  BY DEF Single
<1>1. s \in Session /\ r \in Siblings(s) /\ Project[r] = Project[s] /\ r # s
  BY DEF Siblings
<1>2. Claims(r, c) \/ (r = t /\ c \notin used) \/ (r = t /\ t = On[o] /\ Found(o, c))
  BY ClaimsCome
<1>3. Claims(s, c) \/ (s = t /\ c \notin used) \/ (s = t /\ t = On[o] /\ Found(o, c))
  BY <1>1, ClaimsCome
<1>4. CASE Claims(r, c) /\ Claims(s, c)
  BY <1>4, SharedStays DEF Single
<1>5. ASSUME NEW x \in Session, NEW y \in Siblings(x), Project[x] = Project[s], x = On[o], Found(o, c),
             Claims(y, c)
      PROVE  Shared(s, c)'
  <2>1. at[o] = "looking" /\ Went(o, c)' /\ live[y] # c
    BY <1>5 DEF Found
  <2>2. PICK p \in Ops \ {o} : Went(p, c) \/ Resettled(p, x)
    BY <1>5, <2>1, ClaimedByAWay
  <2>3. Went(p, c)' \/ Resettled(p, s)'
    BY <1>5, <2>2 DEF Apart, Went, Resettled
  <2> QED BY <2>1, <2>3 DEF Shared
<1>6. CASE Claims(s, c) /\ ~Claims(r, c)
  <2>1. r = On[o] /\ Found(o, c)
    BY <1>1, <1>2, <1>6, ClaimedIsUsed
  <2> QED BY <1>1, <1>5, <1>6, <2>1
<1>7. CASE Claims(r, c) /\ ~Claims(s, c)
  <2>1. s = On[o] /\ Found(o, c)
    BY <1>1, <1>3, <1>7, ClaimedIsUsed
  <2> QED BY <1>1, <1>5, <1>7, <2>1
<1> QED BY <1>1, <1>2, <1>3, <1>4, <1>6, <1>7

\* What is true of an operation's root stays true of the others.
LEMMA RootsApart ==
  ASSUME NEW o \in Ops, Apart(o), Recalls(o), NEW p \in Ops \ {o}, Root(p)
  PROVE  Root(p)'
BY DEF Apart, Recalls, Root

\* Every step leaves the others apart.
LEMMA StepApart ==
  ASSUME NEW o \in Ops, Memorized, Steps(o)
  PROVE  Apart(o)
<1>1. at \in [Ops -> Places] /\ mem \in [Ops -> Memory]
  BY DEF Memorized
<1> USE <1>1 DEF Apart, Goes
<1>2. CASE NewSession(o)
  BY <1>2 DEF NewSession, Arrives, ReplaceSession, Calls
<1>3. CASE Fork(o)
  BY <1>3 DEF Fork, Arrives, ReplaceSession, Calls
<1>4. CASE SwitchArrives(o)
  BY <1>4 DEF SwitchArrives, Arrives
<1>5. CASE DeleteArrives(o)
  BY <1>5 DEF DeleteArrives, Arrives
<1>6. CASE Restart(o)
  BY <1>6 DEF Restart, Arrives, Calls
<1>7. CASE Navigate(o)
  BY <1>7 DEF Navigate, Arrives
<1>8. CASE Prompt(o)
  BY <1>8 DEF Prompt, Arrives
<1>9. CASE Apply(o)
  BY <1>9 DEF Apply, Arrives
<1>10. CASE PlanTool(o)
  BY <1>10 DEF PlanTool, Arrives
<1>11. CASE DeleteFound(o)
  BY <1>11 DEF DeleteFound
<1>12. CASE Unlinked(o)
  BY <1>12 DEF Unlinked
<1>13. CASE PlanDeleted(o)
  BY <1>13 DEF PlanDeleted
<1>14. CASE TurnedAway(o)
  BY <1>14 DEF TurnedAway, Arrives, Turned
<1>15. CASE Bind(o)
  BY <1>15 DEF Bind
<1>16. CASE Replaced(o)
  BY <1>16 DEF Replaced, AwaitsSync, Releases, Calls
<1>17. CASE Recovered(o)
  BY <1>17 DEF Recovered, Releases
<1>18. CASE Restarted(o)
  BY <1>18 DEF Restarted, Releases
<1>19. CASE InventoryRead(o)
  BY <1>19 DEF InventoryRead, AwaitsSync
<1>20. CASE Settles(o)
  BY <1>20 DEF Settles, Synced, Releases
<1>21. CASE Navigated(o)
  BY <1>21 DEF Navigated, Releases
<1>22. CASE PromptSent(o)
  BY <1>22 DEF PromptSent
<1>23. CASE PlanRead(o)
  BY <1>23 DEF PlanRead
<1>24. CASE PlanWritten(o)
  BY <1>24 DEF PlanWritten
<1>25. CASE Adopted(o)
  BY <1>25 DEF Adopted
<1>26. CASE ResourcesRebuilt(o)
  BY <1>26 DEF ResourcesRebuilt, Calls
<1>27. CASE Applied(o)
  BY <1>27 DEF Applied, RollsBack, Retries, Calls
<1>28. CASE Restored(o)
  BY <1>28 DEF Restored, Releases
<1>29. CASE Retried(o)
  BY <1>29 DEF Retried, Releases
<1>30. CASE NextSibling(o)
  BY <1>30 DEF NextSibling
<1>31. CASE SiblingResources(o)
  BY <1>31 DEF SiblingResources
<1>32. CASE SiblingRebuilt(o)
  BY <1>32 DEF SiblingRebuilt, Calls, SiblingDone
<1>33. CASE SwitchedBack(o)
  BY <1>33 DEF SwitchedBack, AwaitsSync, Synced, SiblingDone
<1>34. CASE Fault(o)
  BY <1>34 DEF Fault
<1>35. CASE ResourcesFail(o)
  BY <1>35 DEF ResourcesFail, Retries, Calls
<1>38. CASE RestoreFails(o)
  BY <1>38 DEF RestoreFails, Calls
<1>36. CASE SwitchFound(o)
  BY <1>36 DEF SwitchFound, ReplaceSession, Calls
<1>37. CASE Install(o)
  <2>1. \A p \in Ops : mem'[p] = mem[p] \/ mem'[p] = [mem[p] EXCEPT !.cut = TRUE]
    BY <1>37 DEF Install
  <2>2. \A p \in Ops : /\ mem'[p].on = mem[p].on /\ mem'[p].to = mem[p].to /\ mem'[p].then = mem[p].then
                       /\ mem'[p].back = mem[p].back /\ mem'[p].left = mem[p].left
    BY <2>1, ZenonT(60) DEF Memory
  <2> QED BY <1>37, <2>2 DEF Install
<1> QED BY <1>2, <1>3, <1>4, <1>5, <1>6, <1>7, <1>8, <1>9, <1>10, <1>11, <1>12, <1>13, <1>14, <1>15, <1>16,
           <1>17, <1>18, <1>19, <1>20, <1>21, <1>22, <1>23, <1>24, <1>25, <1>26, <1>27, <1>28, <1>29, <1>30,
           <1>31, <1>32, <1>33, <1>34, <1>35, <1>36, <1>37, <1>38
          DEF Steps, Requested, Continues

\* A step that installs nothing and finds nothing claims nothing new.
LEMMA StepQuiet ==
  ASSUME NEW o \in Ops, Stored, Memorized, Kinds(o), Root(o), Steps(o), ~Install(o), ~SwitchFound(o)
  PROVE  Quiet(o) /\ Recalls(o) /\ Root(o)'
<1>1. /\ at \in [Ops -> Places] /\ mem \in [Ops -> Memory] /\ mem[o] \in Memory /\ Placed(o)
      /\ live \in [Session -> Conversation] /\ \A s \in Session : live[s] \in used
      /\ used \subseteq Conversation /\ saved \subseteq used
  BY DEF Memorized, Stored
<1>2. Fresh \notin Conversation /\ None \notin Conversation /\ On[o] \in Session /\ "switch" \notin Applying
  BY SessionsAssumption DEF SessionsAssumption, Applying
<1> USE <1>1, <1>2 DEF Quiet, Recalls, Root, ClaimsBy, Heads, Returns, Went, Kinds, Goes, Calling, Ended, conversations
<1>3. CASE NewSession(o)
  BY <1>3 DEF NewSession, Arrives, ReplaceSession, Calls, Placed, Called, Memory
<1>4. CASE Fork(o)
  BY <1>4 DEF Fork, Arrives, ReplaceSession, Calls, Placed, Called, Memory
<1>5. CASE SwitchArrives(o)
  BY <1>5 DEF SwitchArrives, Arrives, Placed, Called, Memory
<1>6. CASE DeleteArrives(o)
  BY <1>6 DEF DeleteArrives, Arrives, Placed, Called, Memory
<1>7. CASE Restart(o)
  BY <1>7 DEF Restart, Arrives, Calls, Placed, Called, Memory
<1>8. CASE Navigate(o)
  BY <1>8 DEF Navigate, Arrives, Placed, Called, Memory
<1>9. CASE Prompt(o)
  BY <1>9 DEF Prompt, Arrives, Placed, Called, Memory
<1>10. CASE Apply(o)
  BY <1>10 DEF Apply, Arrives, Placed, Called, Memory
<1>11. CASE PlanTool(o)
  BY <1>11 DEF PlanTool, Arrives, Placed, Called, Memory
<1>12. CASE DeleteFound(o)
  BY <1>12 DEF DeleteFound, Placed, Called, Memory
<1>13. CASE Unlinked(o)
  BY <1>13 DEF Unlinked, Placed, Called, Memory
<1>14. CASE PlanDeleted(o)
  BY <1>14 DEF PlanDeleted, Placed, Called, Memory
<1>15. CASE TurnedAway(o)
  BY <1>15 DEF TurnedAway, Arrives, Turned, Placed, Called, Memory
<1>16. CASE Bind(o)
  BY <1>16 DEF Bind, Placed, Called, Memory
<1>17. CASE Replaced(o)
  BY <1>17 DEF Replaced, AwaitsSync, Releases, Calls, Placed, Called, Memory
<1>18. CASE Recovered(o)
  BY <1>18 DEF Recovered, Releases, Placed, Called, Memory
<1>19. CASE Restarted(o)
  BY <1>19 DEF Restarted, Releases, Placed, Called, Memory
<1>20. CASE InventoryRead(o)
  BY <1>20 DEF InventoryRead, AwaitsSync, Placed, Called, Memory
<1>21. CASE Settles(o)
  BY <1>21 DEF Settles, Synced, Releases, Placed, Called, Memory
<1>22. CASE Navigated(o)
  BY <1>22 DEF Navigated, Releases, Placed, Called, Memory
<1>23. CASE PromptSent(o)
  BY <1>23 DEF PromptSent, Placed, Called, Memory
<1>24. CASE PlanRead(o)
  BY <1>24 DEF PlanRead, Placed, Called, Memory
<1>25. CASE PlanWritten(o)
  BY <1>25 DEF PlanWritten, Placed, Called, Memory
<1>26. CASE Adopted(o)
  BY <1>26 DEF Adopted, Placed, Called, Memory
<1>27. CASE ResourcesRebuilt(o)
  BY <1>27 DEF ResourcesRebuilt, Calls, Placed, Called, Memory
<1>28. CASE Applied(o)
  BY <1>28 DEF Applied, RollsBack, Retries, Calls, Placed, Called, Memory
<1>29. CASE Restored(o)
  BY <1>29 DEF Restored, Releases, Placed, Called, Memory
<1>30. CASE Retried(o)
  BY <1>30 DEF Retried, Releases, Placed, Called, Memory
<1>31. CASE NextSibling(o)
  <2>1. CASE mem[o].left = {}
    BY <1>31, <2>1 DEF NextSibling
  <2>2. ASSUME NEW r \in mem[o].left, mem' = [mem EXCEPT ![o].on = r, ![o].tools = config]
        PROVE  Quiet(o) /\ Recalls(o) /\ Root(o)'
    <3>1. mem'[o].on = r /\ mem'[o].left = mem[o].left /\ mem'[o].back = mem[o].back
      BY <2>2 DEF Memory
    <3>2. at' = [at EXCEPT ![o] = "sibling"] /\ at[o] = "next" /\ live' = live /\ used' = used
      BY <1>31, <2>2, Zenon DEF NextSibling
    <3> QED BY <2>2, <3>1, <3>2
  <2> QED BY <1>31, <2>1, <2>2 DEF NextSibling
<1>32. CASE SiblingResources(o)
  BY <1>32 DEF SiblingResources, Placed, Called, Memory
<1>33. CASE SiblingRebuilt(o)
  BY <1>33 DEF SiblingRebuilt, Calls, SiblingDone, Placed, Called, Memory
<1>34. CASE SwitchedBack(o)
  BY <1>34 DEF SwitchedBack, AwaitsSync, Synced, SiblingDone, Placed, Called, Memory
<1>35. CASE Fault(o)
  BY <1>35 DEF Fault, Placed, Called, Memory
<1>36. CASE ResourcesFail(o)
  BY <1>36 DEF ResourcesFail, Retries, Calls, Placed, Called, Memory
<1>38. CASE RestoreFails(o)
  BY <1>38 DEF RestoreFails, Calls, Placed, Called, Memory
<1>37. CASE Install(o) \/ SwitchFound(o)
  BY <1>37
<1> QED BY <1>3, <1>4, <1>5, <1>6, <1>7, <1>8, <1>9, <1>10, <1>11, <1>12, <1>13, <1>14, <1>15, <1>16, <1>17,
           <1>18, <1>19, <1>20, <1>21, <1>22, <1>23, <1>24, <1>25, <1>26, <1>27, <1>28, <1>29, <1>30, <1>31,
           <1>32, <1>33, <1>34, <1>35, <1>36, <1>37, <1>38
          DEF Steps, Requested, Continues

\* A session that is installed shows what it was headed for, or a conversation there was not.
LEMMA InstallComes ==
  ASSUME NEW o \in Ops, Stored, Memorized, Root(o), Install(o)
  PROVE  Comes(o, mem[o].on) /\ Recalls(o) /\ Root(o)'
<1>1. /\ at \in [Ops -> Places] /\ mem \in [Ops -> Memory] /\ mem[o] \in Memory /\ Placed(o)
      /\ live \in [Session -> Conversation] /\ mem'[o] = mem[o] /\ at' = [at EXCEPT ![o] = "binding"]
      /\ at[o] = "asking"
  BY DEF Memorized, Stored, Install, Goes
<1>2. PICK c \in Conversation : /\ c \notin used \/ c = mem[o].to
                                /\ live' = [live EXCEPT ![mem[o].on] = c] /\ used' = used \cup {c}
  BY <1>1 DEF Install, NextFile, Taken, Memory
<1>3. Comes(o, mem[o].on)
  BY <1>1, <1>2 DEF Comes, ClaimsBy, Heads, Returns, Calling
<1>4. Recalls(o)
  BY <1>1, <1>2 DEF Recalls, Went, Calling
<1>5. Root(o)'
  BY <1>1, <1>2 DEF Root, Calling
<1> QED BY <1>3, <1>4, <1>5

\* A switch that is let through heads its session for what it names, which no sibling shows.
LEMMA SwitchComes ==
  ASSUME NEW o \in Ops, Stored, Memorized, Root(o), SwitchFound(o)
  PROVE  Comes(o, On[o]) /\ Recalls(o) /\ Root(o)'
<1>1. /\ at \in [Ops -> Places] /\ mem \in [Ops -> Memory] /\ mem[o] \in Memory
      /\ saved \subseteq used /\ used \subseteq Conversation
      /\ at[o] = "looking" /\ Kind[o] = "switch" /\ Aim[o] \in saved /\ ~Elsewhere(On[o], Aim[o])
      /\ at' = [at EXCEPT ![o] = "asking"]
  BY DEF Memorized, Stored, SwitchFound, ReplaceSession, Calls, Goes
<1>2. /\ mem'[o].on = On[o] /\ mem'[o].to = Aim[o] /\ mem'[o].then = "replace"
      /\ mem'[o].left = mem[o].left /\ mem'[o].back = mem[o].back
  BY <1>1 DEF SwitchFound, ReplaceSession, Calls, Memory
<1>3. live' = live /\ used' = used
  BY DEF SwitchFound, ReplaceSession, conversations
<1>4. Comes(o, On[o])
  BY <1>1, <1>2, <1>3 DEF Comes, ClaimsBy, Heads, Returns, Found, Elsewhere, Went, Calling
<1>5. Recalls(o)
  BY <1>1, <1>2, <1>3 DEF Recalls, Went, Calling
<1>6. Root(o)'
  BY <1>1, <1>2, <1>3 DEF Root, Calling
<1> QED BY <1>4, <1>5, <1>6

\* A quiet step is one to which nothing comes.
LEMMA QuietComes ==
  ASSUME NEW o \in Ops, NEW t, Quiet(o)
  PROVE  Comes(o, t)
BY DEF Quiet, Comes

\* Every step of an operation keeps the roots, and conversations single.
LEMMA StepSingle ==
  ASSUME NEW o \in Ops, Stored, Memorized, Kinds(o), \A p \in Ops : Root(p), Single, Steps(o)
  PROVE  Single' /\ \A p \in Ops : Root(p)'
<1>1. Apart(o) /\ On[o] \in Session
  BY StepApart, SessionsAssumption DEF SessionsAssumption
<1>2. PICK t \in Session : Comes(o, t) /\ Recalls(o) /\ Root(o)'
  <2>1. CASE Install(o)
    <3>1. mem[o].on \in Session
      BY <2>1 DEF Install, Memorized, Placed, Called, Calling
    <3> QED BY <2>1, <3>1, InstallComes
  <2>2. CASE SwitchFound(o)
    BY <1>1, <2>2, SwitchComes
  <2>3. CASE ~Install(o) /\ ~SwitchFound(o)
    BY <1>1, <2>3, StepQuiet, QuietComes
  <2> QED BY <2>1, <2>2, <2>3
<1> QED BY <1>1, <1>2, SingleStays, RootsApart

\* Where nothing is shared to begin with.
LEMMA InitSingle == Init => Single /\ \A o \in Ops : Root(o)
<1> SUFFICES ASSUME Init PROVE Single /\ \A o \in Ops : Root(o)
  OBVIOUS
<1>1. \A o \in Ops : at[o] \in {"new", "refused"} /\ mem[o] = Blank
  BY DEF Init
<1>2. \A o \in Ops : Root(o)
  BY <1>1 DEF Root, Blank, Calling, Ended
<1>3. \A s \in Session : \A c : Claims(s, c) => c = First[s]
  BY <1>1 DEF Init, Claims, ClaimsBy, Heads, Returns, Calling
<1>4. \A r \in Session : \A s \in Siblings(r) : First[r] # First[s]
  BY SessionsAssumption DEF SessionsAssumption, Siblings
<1>5. \A r \in Session : Siblings(r) \subseteq Session
  BY DEF Siblings
<1>6. Single
  BY <1>3, <1>4, <1>5 DEF Single
<1> QED BY <1>2, <1>6

\* The property is what it says of the sessions' own conversations.
LEMMA SingleIsOneWriter ==
  ASSUME Stored, Single
  PROVE  OneWriterPerConversation
<1>1. \A s \in Session : live[s] \in Conversation /\ Claims(s, live[s])
  BY DEF Stored, Claims, ClaimsBy
<1> QED BY <1>1 DEF Single, OneWriterPerConversation, Siblings

-----------------------------------------------------------------------------
(* The sessions and the repository they load: type correctness             *)

\* The repository, what is known of it, and who loads it.
Known ==
  /\ started \subseteq Session /\ starting \subseteq Session
  /\ loaded \in [Session -> Nat \cup {NoRevision}]
  /\ upstream \in Nat /\ fetched \in Nat /\ head \in Nat
  /\ clean \in BOOLEAN /\ present \in BOOLEAN /\ registered \in BOOLEAN
  /\ known \subseteq members /\ members \subseteq Range(Project)
  /\ issued \subseteq Assessment /\ tokens \subseteq issued /\ IsFiniteSet(issued)

\* A handler's local variables: an update confirms an assessment, and has reserved its own
\* session unless somebody was busy; who is yet to be rebuilt, or is being rebuilt, is reserved.
JobPlaced(o) ==
  LET j == job[o] IN
  /\ at[o] = "new" => j = Idle
  /\ j.why = "guard" => j.token \in Assessment /\ (j.blocked \/ On[o] \in j.reserved)
  /\ j.stage \in {"merging", "next", "reloading"} \/ j.why = "reload" => On[o] \in j.reserved
  /\ j.stage = "merging" => j.why = "guard"
  /\ j.left \subseteq j.reserved /\ j.target \in j.reserved \cup {None}
  /\ j.stage \in {"reloading", "rebuilding"} \/ j.why = "reload" => j.target \in j.reserved
  /\ j.why = "reload" => /\ mem[o].then = "reload" /\ mem[o].on \in j.reserved
                         /\ at[o] \in Calling \cup Ended \cup {"job"}
  /\ at[o] \in Calling /\ mem[o].then = "reload" =>
       j.stage \in {"reloading", "next", "rebuilding"} /\ mem[o].on \in j.reserved
  /\ j.stage \in {"listing", "config", "others", "rebuilding"} => Kind[o] = "remove" /\ j.why = "check"

\* Who works on the clone holds its lock, from where it looks at it to where it lets it go.
InLine == {"looking", "fetching", "reading", "assessed", "merging"}
Held == lock \in Seq(Ops) /\ \A o \in Ops : job[o].stage \in InLine => Locked(o)

Jobs == job \in [Ops -> Job] /\ \A o \in Ops : JobPlaced(o)

RTyped == Stored /\ Memorized /\ Known /\ Held /\ Jobs

\* The parts are the whole.
LEMMA RTypedIsTyped == RTyped => ResourcesTypeOK
BY Halves DEF RTyped, Typed, Known, Held, Jobs, ResourcesTypeOK

\* Nothing of what is typed changes.
LEMMA RUnchanged == RTyped /\ UNCHANGED allvars => RTyped'
<1> SUFFICES ASSUME RTyped, UNCHANGED allvars PROVE RTyped'
  OBVIOUS
<1> USE DEF RTyped, allvars, vars, rest, conversations, plans, settings
<1>1. Stored'
  BY ChainKept DEF Stored
<1>2. Memorized'
  BY DEF Memorized, Placed
<1>3. Known'
  BY DEF Known, agents, clone, knowledge, checks
<1>4. Jobs'
  BY DEF Jobs, JobPlaced
<1>5. Held'
  BY DEF Held, Locked
<1> QED BY <1>1, <1>2, <1>3, <1>4, <1>5

\* An operation's new local variables of its handler, which its place allows, keep all typed,
\* if the others stay where they are.
LEMMA JobMoves ==
  ASSUME NEW o \in Ops, NEW j \in Job, Jobs, job' = [job EXCEPT ![o] = j], JobPlaced(o)',
         \A p \in Ops \ {o} : at'[p] = at[p] /\ mem'[p].on = mem[p].on /\ mem'[p].then = mem[p].then
  PROVE  Jobs'
<1>1. job' \in [Ops -> Job]
  BY DEF Jobs
<1>2. \A p \in Ops \ {o} : job'[p] = job[p]
  BY DEF Jobs
<1>3. \A p \in Ops \ {o} : JobPlaced(p)'
  BY <1>2 DEF Jobs, JobPlaced
<1> QED BY <1>1, <1>3 DEF Jobs

\* So do steps that change no job.
LEMMA JobStays ==
  ASSUME NEW o \in Ops, Jobs, UNCHANGED job, JobPlaced(o)',
         \A p \in Ops \ {o} : at'[p] = at[p] /\ mem'[p].on = mem[p].on /\ mem'[p].then = mem[p].then
  PROVE  Jobs'
<1>1. job' = [job EXCEPT ![o] = job[o]] /\ job[o] \in Job
  BY DEF Jobs
<1> QED BY <1>1, JobMoves

\* What a step does to the lock of the clone: its operation may come last in it, and is to hold
\* it if it works on the clone; or, holding it, lets it go and works there no more.
LockMoves(o, j) ==
  \/ /\ UNCHANGED lock \/ Queue(o)
     /\ j.stage \in InLine => job[o].stage \in InLine \/ Locked(o)
  \/ Unlock /\ (job[o].stage \in InLine \/ Locked(o)) /\ j.stage \notin InLine

\* Such steps keep the lock held by who works on the clone.
LEMMA LockHeld ==
  ASSUME NEW o \in Ops, NEW j \in Job, Jobs, Held, job' = [job EXCEPT ![o] = j], LockMoves(o, j)
  PROVE  Held'
<1>1. job'[o] = j /\ \A p \in Ops \ {o} : job'[p] = job[p]
  BY DEF Jobs
<1>2. CASE /\ UNCHANGED lock \/ Queue(o)
           /\ j.stage \in InLine => job[o].stage \in InLine \/ Locked(o)
  <2>1. lock' \in Seq(Ops) /\ (lock # <<>> => lock' # <<>> /\ Head(lock') = Head(lock))
    BY <1>2 DEF Held, Queue
  <2> QED BY <1>1, <1>2, <2>1 DEF Held, Locked
<1>3. CASE Unlock /\ (job[o].stage \in InLine \/ Locked(o)) /\ j.stage \notin InLine
  <2>1. lock # <<>> /\ Head(lock) = o /\ lock' = Tail(lock)
    BY <1>3 DEF Held, Locked, Unlock
  <2>2. lock' \in Seq(Ops)
    BY <2>1 DEF Held
  <2>3. \A p \in Ops : job'[p].stage \notin InLine
    BY <1>1, <1>3, <2>1 DEF Held, Locked
  <2> QED BY <2>2, <2>3 DEF Held
<1> QED BY <1>2, <1>3 DEF LockMoves

\* An inventory read again is typed.
LEMMA InventoriesKnown ==
  ASSUME NEW s \in Session, known \subseteq members, members \subseteq Range(Project), Inventories(s)
  PROVE  known' \subseteq members' /\ members' \subseteq Range(Project)
<1>1. Project[s] \in Range(Project)
  BY SessionsAssumption DEF SessionsAssumption, Range
<1> QED BY <1>1 DEF Inventories

\* The steps of Sessions keep all typed, with what installed sessions load.
LEMMA SessionStepTyped == RTyped /\ SessionStep => RTyped'
<1> SUFFICES ASSUME RTyped, SessionStep PROVE RTyped'
  OBVIOUS
<1>1. Known'
  <2>1. loaded' \in [Session -> Nat \cup {NoRevision}]
    BY DEF SessionStep, RTyped, Known, Reads
  <2>2. registered' \in BOOLEAN
    BY Zenon DEF SessionStep
  <2> QED BY <2>1, <2>2 DEF SessionStep, RTyped, Known, clone, knowledge, checks
<1>2. UNCHANGED <<job, lock>> /\ Held'
  BY DEF SessionStep, RTyped, Held, Locked
<1>3. ASSUME NEW o \in Ops, Steps(o) PROVE RTyped'
  <2>1. Stored' /\ Memorized'
    BY <1>3, RequestedStored, RequestedMemorized, ContinuesStored, ContinuesMemorized,
       FaultTyped, ResourcesFailTyped, RestoreFailsTyped DEF Steps, RTyped
  <2>2. JobPlaced(o)'
    BY <1>2, <1>3, StepAlone DEF RTyped, Jobs, JobPlaced
  <2>3. Jobs'
    BY <1>2, <1>3, <2>2, StepAlone, JobStays DEF RTyped
  <2> QED BY <1>1, <1>2, <2>1, <2>3 DEF RTyped
<1>4. ASSUME NEW s \in Session, Syncs(s) \/ TurnEnds(s) PROVE RTyped'
  <2>1. Stored' /\ Memorized'
    BY <1>4, SyncsTyped, TurnEndsTyped DEF RTyped
  <2>2. UNCHANGED <<at, mem>>
    BY <1>4 DEF Syncs, SyncBegins, CopyRead, CopyWritten, PlanLoaded, SyncLands, TurnEnds
  <2>3. Jobs'
    BY <1>2, <2>2 DEF RTyped, Jobs, JobPlaced
  <2> QED BY <1>1, <1>2, <2>1, <2>3 DEF RTyped
<1> QED BY <1>3, <1>4 DEF SessionStep, Steps, Open

\* The places a handler of this module puts its operation at, but for its calls.
Handled == Places \ (Called \cup {"reading", "writing"})

\* A step of a handler that makes no call, and leaves conversations, plans and settings alone,
\* keeps all typed if its new local variables are, and what it changes of the repository.
LEMMA HandlerTyped ==
  ASSUME NEW o \in Ops, NEW place \in Handled, NEW j \in Job, RTyped,
         UNCHANGED <<conversations, plans, settings, mem, faults>>, replacing' \subseteq Session,
         at' = at \/ Goes(o, place), job' = [job EXCEPT ![o] = j], Known', JobPlaced(o)', LockMoves(o, j)
  PROVE  RTyped'
<1>1. Stored'
  BY ChainKept DEF RTyped, Stored, conversations, plans, settings
<1>2. Memorized'
  <2>1. CASE at' = at
    BY <2>1 DEF RTyped, Memorized, Placed
  <2>2. CASE Goes(o, place)
    BY <2>2, LeavesMemorized DEF RTyped, Handled
  <2> QED BY <2>1, <2>2
<1>3. \A p \in Ops \ {o} : at'[p] = at[p] /\ mem'[p].on = mem[p].on /\ mem'[p].then = mem[p].then
  BY DEF RTyped, Memorized, Goes
<1>4. Jobs'
  BY <1>3, JobMoves DEF RTyped
<1>5. Held'
  BY LockHeld DEF RTyped
<1> QED BY <1>1, <1>2, <1>4, <1>5 DEF RTyped

\* One that leaves the session's variables as they are.
LEMMA RepositoryTyped ==
  ASSUME NEW o \in Ops, NEW j \in Job, RTyped, UNCHANGED vars, job' = [job EXCEPT ![o] = j],
         Known', JobPlaced(o)', LockMoves(o, j)
  PROVE  RTyped'
<1>1. replacing' \subseteq Session
  BY DEF RTyped, Stored, vars
<1>2. "job" \in Handled
  BY DEF Handled, Places, Called, Calling
<1> QED BY <1>1, <1>2, HandlerTyped DEF vars

\* The first state is typed.
LEMMA RInitTyped == InitResources => RTyped
<1> SUFFICES ASSUME InitResources PROVE RTyped
  OBVIOUS
<1>1. Stored /\ Memorized
  BY InitTyped DEF InitResources
<1>2. Known
  BY FS_EmptySet DEF InitResources, Known
<1>3. Idle \in Job
  BY DEF Idle, Job
<1>4. \A o \in Ops : at[o] \in {"new", "refused"}
  BY DEF InitResources, Init
<1>5. Jobs
  BY <1>3, <1>4 DEF InitResources, Jobs, JobPlaced, Idle, Calling
<1>6. Held
  BY DEF InitResources, Held, Idle, InLine
<1> QED BY <1>1, <1>2, <1>5, <1>6 DEF RTyped

\* Requests of a handler keep all typed.
LEMMA ResourceRequestedTyped ==
  ASSUME NEW o \in Ops, RTyped, ResourceRequested(o)
  PROVE  RTyped'
<1>1. /\ job[o] \in Job /\ JobPlaced(o) /\ replacing \subseteq Session /\ at \in [Ops -> Places]
      /\ job \in [Ops -> Job] /\ On[o] \in Session /\ Affected \subseteq Session
  BY SessionsAssumption DEF SessionsAssumption, RTyped, Jobs, Stored, Memorized, Affected
<1>2. {"job", "done", "refused", "checking"} \subseteq Handled
  BY DEF Handled, Places, Ended, Called, Calling
<1>3. at[o] = "new"
  BY DEF ResourceRequested, CheckArrives, UpdateArrives, RemoveArrives, Starts, TurnedAwayHere, Arrives
<1>4. job[o] = Idle /\ Idle \in Job
  BY <1>1, <1>3 DEF JobPlaced
<1> USE DEF others, Does, Staged, LockMoves, InLine
<1>5. CASE CheckArrives(o)
  <2> DEFINE j == [Idle EXCEPT !.stage = "queued"]
  <2>1. j \in Job
    BY DEF Idle, Job
  <2>2. Goes(o, "job") /\ job' = [job EXCEPT ![o] = j]
    BY <1>4, <1>5 DEF CheckArrives
  <2>5. j.stage = "queued"
    BY DEF Idle
  <2>3. JobPlaced(o)'
    BY <1>1, <2>2 DEF JobPlaced, Goes, Idle, Calling
  <2>4. Known'
    BY <1>5 DEF CheckArrives, RTyped, Known, agents, clone, knowledge, checks
  <2> QED BY <1>1, <1>2, <1>5, <2>1, <2>2, <2>3, <2>4, <2>5, HandlerTyped DEF CheckArrives
<1>6. CASE UpdateArrives(o)
  <2> DEFINE busy == Busy(Affected, {})
  <2>1. PICK token \in issued :
          job' = [job EXCEPT ![o] = [Idle EXCEPT !.stage = "queued", !.why = "guard", !.token = token,
                                     !.blocked = busy, !.reserved = IF busy THEN {} ELSE Affected]]
    BY <1>6 DEF UpdateArrives
  <2> DEFINE j == [Idle EXCEPT !.stage = "queued", !.why = "guard", !.token = token,
                               !.blocked = busy, !.reserved = IF busy THEN {} ELSE Affected]
  <2>2. token \in Assessment /\ busy \in BOOLEAN
    BY DEF RTyped, Known, Busy
  <2>3. j \in Job
    BY <1>1, <2>2, ZenonT(60) DEF Idle, Job
  <2>4. On[o] \in Affected
    BY <1>1, <1>6 DEF UpdateArrives, Affected, RTyped, Known
  <2>5. /\ j.stage = "queued" /\ j.why = "guard" /\ j.token = token /\ j.blocked = busy
        /\ j.reserved = (IF busy THEN {} ELSE Affected) /\ j.left = {} /\ j.target = None
    BY DEF Idle
  <2>6. job'[o] = j /\ at' = [at EXCEPT ![o] = "job"]
    BY <1>1, <1>6, <2>1 DEF UpdateArrives, Goes
  <2> HIDE DEF j, busy
  <2>7. JobPlaced(o)'
    BY <1>1, <2>2, <2>4, <2>5, <2>6 DEF JobPlaced, Calling
  <2>8. Known'
    BY <1>6 DEF UpdateArrives, RTyped, Known, agents, clone, knowledge, checks
  <2>9. replacing' \subseteq Session
    BY <1>1, <1>6 DEF UpdateArrives
  <2>10. job' = [job EXCEPT ![o] = j] /\ Goes(o, "job") /\ UNCHANGED others /\ Queue(o)
    BY <1>6, <2>1 DEF UpdateArrives, j, busy
  <2> QED BY <1>2, <2>3, <2>5, <2>7, <2>8, <2>9, <2>10, HandlerTyped
<1>7. CASE RemoveArrives(o)
  <2> DEFINE more == Affected \ {On[o]}
             j == [Idle EXCEPT !.stage = "listing", !.reserved = more, !.left = more]
  <2>1. j \in Job
    BY <1>1 DEF Idle, Job
  <2>2. Goes(o, "job") /\ job' = [job EXCEPT ![o] = j]
    BY <1>7 DEF RemoveArrives
  <2>3. JobPlaced(o)'
    BY <1>1, <1>7, <2>2 DEF RemoveArrives, Arrives, JobPlaced, Goes, Idle, Calling
  <2>4. Known'
    BY <1>7 DEF RemoveArrives, RTyped, Known, agents, clone, knowledge, checks
  <2>5. replacing' \subseteq Session
    BY <1>1, <1>7 DEF RemoveArrives
  <2>6. j.stage = "listing"
    BY DEF Idle
  <2> QED BY <1>2, <1>7, <2>1, <2>2, <2>3, <2>4, <2>5, <2>6, HandlerTyped DEF RemoveArrives
<1>8. CASE Starts(o)
  <2> DEFINE j == [Idle EXCEPT !.stage = "building"]
  <2>1. j \in Job
    BY DEF Idle, Job
  <2>2. Goes(o, "job") /\ job' = [job EXCEPT ![o] = j]
    BY <1>4, <1>8 DEF Starts
  <2>5. j.stage = "building"
    BY DEF Idle
  <2>3. JobPlaced(o)'
    BY <1>1, <2>2 DEF JobPlaced, Goes, Idle, Calling
  <2>4. Known'
    BY <1>1, <1>8 DEF Starts, RTyped, Known, clone, knowledge, checks
  <2> QED BY <1>1, <1>2, <1>8, <2>1, <2>2, <2>3, <2>4, <2>5, HandlerTyped DEF Starts
<1>9. CASE TurnedAwayHere(o)
  <2>1. job' = [job EXCEPT ![o] = Idle]
    BY <1>1, <1>4, <1>9 DEF TurnedAwayHere, rest
  <2>2. JobPlaced(o)'
    BY <1>1, <1>9, <2>1 DEF TurnedAwayHere, JobPlaced, Goes, Idle, Calling
  <2>3. Known'
    BY <1>9 DEF TurnedAwayHere, rest, RTyped, Known, agents, clone, knowledge, checks
  <2> QED BY <1>1, <1>2, <1>4, <1>9, <2>1, <2>2, <2>3, HandlerTyped DEF TurnedAwayHere, Idle, rest
<1> QED BY <1>5, <1>6, <1>7, <1>8, <1>9 DEF ResourceRequested

\* Steps on a clone, under its lock, keep all typed.
LEMMA ChecksTyped ==
  ASSUME NEW o \in Ops, RTyped,
         \/ Looks(o) \/ Fetches(o) \/ ReadsRevisions(o) \/ RefreshesLast(o) \/ AllRebuilt(o)
         \/ Deletes(o) \/ ReadsFiles(o)
  PROVE  RTyped'
<1>1. /\ job[o] \in Job /\ JobPlaced(o) /\ at \in [Ops -> Places] /\ job \in [Ops -> Job]
      /\ On[o] \in Session /\ Project[On[o]] \in Range(Project)
  BY SessionsAssumption DEF SessionsAssumption, RTyped, Jobs, Memorized, Range
<1> USE DEF Does, Staged
<1>2. CASE Looks(o)
  <2> DEFINE j == [job[o] EXCEPT !.seen = None, !.stage = IF present /\ clean THEN "fetching" ELSE "assessed"]
  <2>1. j \in Job
    BY <1>1 DEF Job
  <2>2. job' = [job EXCEPT ![o] = j] /\ UNCHANGED vars
    BY <1>2 DEF Looks
  <2>3. JobPlaced(o)'
    BY <1>1, <1>2, <2>2 DEF Looks, In, JobPlaced, vars, Job, Calling
  <2>4. Known'
    BY <1>2 DEF Looks, RTyped, Known, agents, clone, knowledge, checks
  <2>9. LockMoves(o, j)
    BY <1>1, <1>2 DEF Looks, In, LockMoves, InLine, Job
  <2> QED BY <2>1, <2>2, <2>3, <2>4, <2>9, RepositoryTyped
<1>3. CASE Fetches(o)
  <2>1. PICK stage \in {"reading", "assessed"} : Staged(o, stage) /\ fetched' \in {fetched, upstream}
    BY <1>3 DEF Fetches
  <2> DEFINE j == [job[o] EXCEPT !.stage = stage]
  <2>2. j \in Job
    BY <1>1 DEF Job
  <2>3. job' = [job EXCEPT ![o] = j] /\ UNCHANGED vars
    BY <1>3, <2>1 DEF Fetches
  <2>4. JobPlaced(o)'
    BY <1>1, <1>3, <2>3 DEF Fetches, In, JobPlaced, vars, Job, Calling
  <2>5. Known'
    BY <1>3, <2>1 DEF Fetches, RTyped, Known, agents, clone, knowledge, checks
  <2>9. LockMoves(o, j)
    BY <1>1, <1>3 DEF Fetches, In, LockMoves, InLine, Job
  <2> QED BY <2>2, <2>3, <2>4, <2>5, <2>9, RepositoryTyped
<1>4. CASE ReadsRevisions(o)
  <2> DEFINE a == [number |-> Cardinality(issued) + 1, project |-> Project[On[o]], local |-> head, up |-> fetched]
  <2>1. a \in Assessment
    BY <1>1, FS_CardinalityType DEF Assessment, RTyped, Known
  <2>2. PICK seen \in {job[o].seen, a} :
          /\ job' = [job EXCEPT ![o] = [job[o] EXCEPT !.stage = "assessed", !.seen = seen]]
          /\ \/ issued' = issued \cup {a} /\ tokens' = tokens \cup {a}
             \/ UNCHANGED checks
    <3>1. [job[o] EXCEPT !.stage = "assessed"] = [job[o] EXCEPT !.stage = "assessed", !.seen = job[o].seen]
      BY <1>1 DEF Job
    <3> QED BY <1>4, <3>1 DEF ReadsRevisions
  <2> HIDE DEF a
  <2> DEFINE j == [job[o] EXCEPT !.stage = "assessed", !.seen = seen]
  <2>3. j \in Job
    BY <1>1, <2>1 DEF Job
  <2>4. job' = [job EXCEPT ![o] = j] /\ UNCHANGED vars
    BY <1>4, <2>2 DEF ReadsRevisions
  <2>5. JobPlaced(o)'
    BY <1>1, <1>4, <2>4 DEF ReadsRevisions, In, JobPlaced, vars, Job, Calling
  <2>6. issued' \subseteq Assessment /\ tokens' \subseteq issued' /\ IsFiniteSet(issued')
    BY <2>1, <2>2, FS_AddElement DEF RTyped, Known, checks
  <2>7. Known'
    BY <1>4, <2>6 DEF ReadsRevisions, RTyped, Known, agents, clone, knowledge
  <2>9. LockMoves(o, j)
    BY <1>1, <1>4 DEF ReadsRevisions, In, LockMoves, InLine, Job
  <2> QED BY <2>3, <2>4, <2>5, <2>7, <2>9, RepositoryTyped
<1>5. CASE RefreshesLast(o)
  <2> DEFINE j == [job[o] EXCEPT !.stage = "queued", !.why = "last"]
  <2>1. j \in Job
    BY <1>1 DEF Job
  <2>2. job' = [job EXCEPT ![o] = j] /\ UNCHANGED vars
    BY <1>5 DEF RefreshesLast
  <2>3. JobPlaced(o)'
    BY <1>1, <1>5, <2>2 DEF RefreshesLast, In, JobPlaced, vars, Job, Calling
  <2>5. Known'
    BY <1>5 DEF RefreshesLast, RTyped, Known, agents, clone, knowledge, checks
  <2>9. LockMoves(o, j)
    BY <1>1, <1>5 DEF RefreshesLast, In, LockMoves, InLine, Job
  <2> QED BY <2>1, <2>2, <2>3, <2>5, <2>9, RepositoryTyped
<1>6. CASE AllRebuilt(o)
  <2>1. PICK stage \in {"inventory", "deleting"} : Staged(o, stage)
    BY <1>6 DEF AllRebuilt
  <2> DEFINE j == [job[o] EXCEPT !.stage = stage]
  <2>2. j \in Job
    BY <1>1 DEF Job
  <2>3. job' = [job EXCEPT ![o] = j] /\ UNCHANGED vars
    BY <1>6, <2>1 DEF AllRebuilt
  <2>4. JobPlaced(o)'
    BY <1>1, <1>6, <2>3 DEF AllRebuilt, In, JobPlaced, vars, Job, Calling
  <2>6. Known'
    BY <1>6 DEF AllRebuilt, RTyped, Known, agents, clone, knowledge, checks
  <2>9. LockMoves(o, j)
    BY <1>1, <1>6 DEF AllRebuilt, In, LockMoves, InLine, Job
  <2> QED BY <2>2, <2>3, <2>4, <2>6, <2>9, RepositoryTyped
<1>7. CASE Deletes(o)
  <2> DEFINE j == [job[o] EXCEPT !.stage = "inventory"]
  <2>1. j \in Job
    BY <1>1 DEF Job
  <2>2. job' = [job EXCEPT ![o] = j] /\ UNCHANGED vars
    BY <1>7 DEF Deletes
  <2>3. JobPlaced(o)'
    BY <1>1, <1>7, <2>2 DEF Deletes, In, JobPlaced, vars, Job, Calling
  <2>5. Known'
    BY <1>7 DEF Deletes, RTyped, Known, agents, clone, knowledge, checks
  <2>9. LockMoves(o, j)
    BY <1>1, <1>7 DEF Deletes, In, LockMoves, InLine, Job
  <2> QED BY <2>1, <2>2, <2>3, <2>5, <2>9, RepositoryTyped
<1>8. CASE ReadsFiles(o)
  <2> DEFINE j == [job[o] EXCEPT !.stage = "attaching", !.read = Reads]
  <2>1. j \in Job
    BY <1>1, ZenonT(60) DEF Job, Reads, RTyped, Known
  <2>2. job' = [job EXCEPT ![o] = j] /\ UNCHANGED vars
    BY <1>8 DEF ReadsFiles
  <2>3. JobPlaced(o)'
    BY <1>1, <1>8, <2>2 DEF ReadsFiles, In, JobPlaced, vars, Job, Calling
  <2>4. Known'
    BY <1>8 DEF ReadsFiles, RTyped, Known, agents, clone, knowledge, checks
  <2>9. LockMoves(o, j)
    BY <1>1, <1>8 DEF ReadsFiles, In, LockMoves, InLine, Job
  <2> QED BY <2>1, <2>2, <2>3, <2>4, <2>9, RepositoryTyped
<1> QED BY <1>2, <1>3, <1>4, <1>5, <1>6, <1>7, <1>8

\* The end of a handler keeps all typed.
LEMMA EndsTyped ==
  ASSUME NEW o \in Ops, NEW stage \in {"over", "updated"}, RTyped, Ends(o, stage), Known',
         UNCHANGED <<conversations, plans, settings, mem, faults>>,
         UNCHANGED lock \/ (Unlock /\ (job[o].stage \in InLine \/ Locked(o)))
  PROVE  RTyped'
<1> DEFINE j == [job[o] EXCEPT !.stage = stage]
<1>1. /\ job[o] \in Job /\ JobPlaced(o) /\ at \in [Ops -> Places] /\ job \in [Ops -> Job]
      /\ replacing \subseteq Session
  BY DEF RTyped, Jobs, Memorized, Stored
<1>2. j \in Job
  BY <1>1 DEF Job
<1>3. job' = [job EXCEPT ![o] = j] /\ Goes(o, "done") /\ replacing' \subseteq Session
  BY <1>1 DEF Ends, Staged, Does
<1>4. JobPlaced(o)'
  BY <1>1, <1>3 DEF JobPlaced, Goes, Job, Calling, Ended
<1>5. LockMoves(o, j)
  BY <1>1 DEF LockMoves, InLine, Job
<1>6. "done" \in Handled
  BY DEF Handled, Places, Ended, Called, Calling
<1> QED BY <1>2, <1>3, <1>4, <1>5, <1>6, HandlerTyped

\* A handler that only passes from one stage to another keeps all typed: in its operation's
\* place, or in another one.
LEMMA StagedTyped ==
  ASSUME NEW o \in Ops, NEW j \in Job, RTyped, UNCHANGED <<conversations, plans, settings, mem, faults>>,
         replacing' \subseteq Session, Goes(o, "job") \/ Goes(o, "checking") \/ UNCHANGED at,
         job' = [job EXCEPT ![o] = j], Known', JobPlaced(o)', LockMoves(o, j)
  PROVE  RTyped'
<1>1. "job" \in Handled /\ "checking" \in Handled
  BY DEF Handled, Places, Called, Calling
<1> QED BY <1>1, HandlerTyped

\* The steps of an update, but for its reloads, keep all typed.
LEMMA UpdateTyped ==
  ASSUME NEW o \in Ops, RTyped, Checked(o) \/ TakesToken(o) \/ Guards(o) \/ Merges(o) \/ Answers(o)
  PROVE  RTyped'
<1>1. /\ job[o] \in Job /\ JobPlaced(o) /\ at \in [Ops -> Places] /\ job \in [Ops -> Job]
      /\ On[o] \in Session /\ Affected \subseteq Session /\ replacing \subseteq Session
  BY SessionsAssumption DEF SessionsAssumption, RTyped, Jobs, Memorized, Stored, Affected
<1>2. "assessed" \in InLine /\ "merging" \in InLine
  BY DEF InLine
<1> USE DEF Does, Staged
<1>3. CASE Checked(o)
  <2>1. Known'
    BY <1>3 DEF Checked, others, RTyped, Known, agents, clone, knowledge, checks
  <2> QED BY <1>2, <1>3, <2>1, EndsTyped DEF Checked, In, others
<1>4. CASE TakesToken(o)
  <2>1. Known'
    BY <1>4 DEF TakesToken, NotUpdated, others, RTyped, Known, agents, clone, knowledge, checks
  <2>2. CASE NotUpdated(o)
    BY <1>4, <2>1, <2>2, EndsTyped DEF TakesToken, NotUpdated, others
  <2>3. CASE Staged(o, "looking") /\ UNCHANGED <<vars, lock>>
    <3> DEFINE j == [job[o] EXCEPT !.stage = "looking"]
    <3>1. j \in Job
      BY <1>1 DEF Job
    <3>2. job' = [job EXCEPT ![o] = j] /\ UNCHANGED vars
      BY <2>3
    <3>3. JobPlaced(o)'
      BY <1>1, <1>4, <3>2 DEF TakesToken, In, JobPlaced, vars, Job, Calling
    <3>4. LockMoves(o, j)
      BY <1>1, <1>4, <2>3 DEF TakesToken, LockMoves, InLine, Job
    <3> QED BY <2>1, <3>1, <3>2, <3>3, <3>4, RepositoryTyped
  <2> QED BY <1>4, <2>2, <2>3 DEF TakesToken
<1>5. CASE Guards(o)
  <2>1. Known'
    BY <1>5 DEF Guards, NotUpdated, others, RTyped, Known, agents, clone, knowledge, checks
  <2>2. CASE NotUpdated(o)
    BY <1>2, <1>5, <2>1, <2>2, EndsTyped DEF Guards, In, NotUpdated, others
  <2>3. CASE ~NotUpdated(o)
    <3> DEFINE j == [job[o] EXCEPT !.stage = "merging", !.left = Affected, !.reserved = @ \cup Affected]
    <3>1. j \in Job
      BY <1>1 DEF Job
    <3>2. /\ job' = [job EXCEPT ![o] = j] /\ UNCHANGED <<others, at, lock>> /\ replacing' = replacing \cup Affected
          /\ ~job[o].blocked
      BY <1>5, <2>3 DEF Guards
    <3>3. JobPlaced(o)'
      BY <1>1, <1>5, <3>2 DEF Guards, In, JobPlaced, others, Job, Calling
    <3>4. LockMoves(o, j)
      BY <1>1, <1>2, <1>5, <3>2 DEF Guards, In, LockMoves, Job
    <3> QED BY <1>1, <2>1, <3>1, <3>2, <3>3, <3>4, StagedTyped DEF others
  <2> QED BY <2>2, <2>3
<1>6. CASE Merges(o)
  <2>1. job[o].token \in Assessment /\ job[o].token.up \in Nat
    BY <1>1, <1>6 DEF Merges, In, JobPlaced, Assessment
  <2>2. Known'
    BY <1>6, <2>1 DEF Merges, NotUpdated, others, RTyped, Known, agents, clone, knowledge, checks
  <2>3. CASE NotUpdated(o)
    BY <1>2, <1>6, <2>2, <2>3, EndsTyped DEF Merges, In, NotUpdated, others
  <2>4. CASE ~NotUpdated(o)
    <3> DEFINE j == [job[o] EXCEPT !.stage = "next"]
    <3>1. j \in Job
      BY <1>1 DEF Job
    <3>2. job' = [job EXCEPT ![o] = j] /\ UNCHANGED vars /\ Unlock
      BY <1>6, <2>4 DEF Merges
    <3>3. JobPlaced(o)'
      BY <1>1, <1>6, <3>2 DEF Merges, In, JobPlaced, vars, Job, Calling
    <3>4. LockMoves(o, j)
      BY <1>1, <1>2, <1>6, <3>2 DEF Merges, In, LockMoves, InLine, Job
    <3> QED BY <2>2, <3>1, <3>2, <3>3, <3>4, RepositoryTyped
  <2> QED BY <2>3, <2>4
<1>7. CASE Answers(o)
  <2>1. known' \subseteq members' /\ members' \subseteq Range(Project)
    BY <1>1, <1>7, InventoriesKnown DEF Answers, RTyped, Known, knowledge
  <2>2. Known'
    BY <1>7, <2>1 DEF Answers, others, RTyped, Known, agents, clone, checks
  <2> QED BY <1>2, <1>7, <2>2, EndsTyped DEF Answers, In, others
<1> QED BY <1>3, <1>4, <1>5, <1>6, <1>7

\* The rebuilding of a session keeps all typed, by an update or by a removal; a cold one has none.
LEMMA ReloadTyped ==
  ASSUME NEW o \in Ops, NEW stage \in {"reloading", "rebuilding"}, RTyped, Reload(o, stage),
         at[o] = "job", job[o].stage = IF stage = "reloading" THEN "next" ELSE "others"
  PROVE  RTyped'
<1>1. /\ job[o] \in Job /\ JobPlaced(o) /\ at \in [Ops -> Places] /\ job \in [Ops -> Job]
      /\ mem \in [Ops -> Memory] /\ mem[o] \in Memory /\ boundary \in [Session -> Settings]
  BY DEF RTyped, Jobs, Memorized, Stored
<1>2. PICK t \in job[o].left :
        /\ job' = [job EXCEPT ![o] = [job[o] EXCEPT !.left = @ \ {t}, !.target = t,
                                                    !.stage = IF t \in started THEN stage ELSE @]]
        /\ IF t \in started THEN Calls(o, t, Fresh, "reload", Retained) ELSE UNCHANGED <<at, mem>>
  BY DEF Reload, Does
<1> DEFINE j == [job[o] EXCEPT !.left = @ \ {t}, !.target = t, !.stage = IF t \in started THEN stage ELSE @]
<1>3. t \in Session /\ t \in job[o].reserved /\ j \in Job
  BY <1>1, ZenonT(60) DEF Job, JobPlaced
<1>4. Known' /\ UNCHANGED <<conversations, replacing, plans, settings, faults, lock>>
  BY DEF Reload, RTyped, Known, agents, clone, knowledge, checks
<1>5. LockMoves(o, j)
  BY <1>1, <1>4 DEF LockMoves, InLine, Job
<1>6. /\ j.left = job[o].left \ {t} /\ j.target = t /\ j.reserved = job[o].reserved /\ j.why = job[o].why
      /\ j.stage = (IF t \in started THEN stage ELSE job[o].stage) /\ job'[o] = j
      /\ j.token = job[o].token /\ j.blocked = job[o].blocked
  BY <1>1, <1>2 DEF Job
<1>7. CASE t \in started
  <2>1. Calls(o, t, Fresh, "reload", Retained)
    BY <1>1, <1>2, <1>3, <1>7
  <2>2. Memorized'
    BY <1>3, <2>1, CallsMemorized DEF RTyped, Callers, Own
  <2>3. Stored'
    BY <1>4, ChainKept DEF RTyped, Stored, conversations, plans, settings
  <2>4. at'[o] = "asking" /\ mem'[o].then = "reload" /\ mem'[o].on = t
    BY <1>1, <2>1 DEF Calls, Goes, Memory
  <2>5. \A p \in Ops \ {o} : at'[p] = at[p] /\ mem'[p].on = mem[p].on /\ mem'[p].then = mem[p].then
    BY <1>1, <2>1 DEF Calls, Goes
  <2> HIDE DEF j
  <2>6. JobPlaced(o)'
    BY <1>1, <1>3, <1>6, <1>7, <2>4 DEF JobPlaced, Calling
  <2>7. Jobs'
    BY <1>2, <1>3, <2>5, <2>6, JobMoves DEF RTyped, j
  <2>8. Held'
    BY <1>2, <1>3, <1>5, LockHeld DEF RTyped, j
  <2> QED BY <1>4, <2>2, <2>3, <2>7, <2>8 DEF RTyped
<1>8. CASE t \notin started
  <2>1. UNCHANGED vars
    BY <1>2, <1>4, <1>8 DEF vars
  <2>2. UNCHANGED <<at, mem>>
    BY <1>2, <1>8
  <2>3. job' = [job EXCEPT ![o] = j]
    BY <1>2
  <2> HIDE DEF j
  <2>4. JobPlaced(o)'
    BY <1>1, <1>3, <1>6, <1>8, <2>2 DEF JobPlaced, Calling
  <2> QED BY <1>3, <1>4, <1>5, <2>1, <2>3, <2>4, RepositoryTyped
<1> QED BY <1>7, <1>8

\* So do the ends of those, with what comes after them in an update and in a removal.
LEMMA RebuiltTyped ==
  ASSUME NEW o \in Ops, RTyped,
         Reloaded(o) \/ Reassessed(o) \/ ReloadSynced(o) \/ OtherRebuilt(o)
  PROVE  RTyped'
<1>1. /\ job[o] \in Job /\ JobPlaced(o) /\ at \in [Ops -> Places] /\ job \in [Ops -> Job]
      /\ replacing \subseteq Session /\ mem[o] \in Memory /\ job[o].reserved \subseteq Session
  BY DEF RTyped, Jobs, Memorized, Stored, Job
<1>2. "job" \in Handled
  BY DEF Handled, Places, Called, Calling
<1> USE DEF Does, Staged
<1>3. CASE Reloaded(o)
  <2>1. Known' /\ UNCHANGED others /\ UNCHANGED replacing /\ Goes(o, "job") /\ job[o].stage = "reloading"
        /\ mem[o].then = "reload" /\ at[o] \in Calling
    BY <1>3 DEF Reloaded, Back, others, RTyped, Known, agents, clone, knowledge, checks, Calling
  <2>2. CASE at[o] = "installed"
    <3> DEFINE j == [job[o] EXCEPT !.stage = "queued", !.why = "reload", !.refreshed = @ \/ job[o].target = On[o]]
    <3>1. j \in Job
      BY <1>1 DEF Job
    <3>2. job' = [job EXCEPT ![o] = j] /\ Queue(o)
      BY <1>3, <2>2 DEF Reloaded
    <3>3. JobPlaced(o)'
      BY <1>1, <2>1, <3>2 DEF JobPlaced, Goes, others, Job, Calling
    <3>4. LockMoves(o, j)
      BY <1>1, <3>2 DEF LockMoves, InLine, Job
    <3> QED BY <1>1, <1>2, <2>1, <3>1, <3>2, <3>3, <3>4, HandlerTyped DEF others
  <2>3. CASE at[o] # "installed"
    <3> DEFINE j == [job[o] EXCEPT !.stage = "next", !.failed = TRUE]
    <3>1. j \in Job
      BY <1>1 DEF Job
    <3>2. job' = [job EXCEPT ![o] = j] /\ UNCHANGED lock
      BY <1>3, <2>3 DEF Reloaded
    <3>3. JobPlaced(o)'
      BY <1>1, <2>1, <3>2 DEF JobPlaced, Goes, others, Job, Calling
    <3>4. LockMoves(o, j)
      BY <1>1, <3>2 DEF LockMoves, InLine, Job
    <3> QED BY <1>1, <1>2, <2>1, <3>1, <3>2, <3>3, <3>4, HandlerTyped DEF others
  <2> QED BY <2>2, <2>3
<1>4. CASE Reassessed(o)
  <2> DEFINE j == [job[o] EXCEPT !.stage = "next"]
  <2>1. /\ at[o] = "job" /\ job[o].why = "reload" /\ job[o].stage = "assessed" /\ AwaitsSync(o)
        /\ UNCHANGED <<conversations, replacing, plan, shown, marker, settings, mem, faults, agents, clone,
                       registered, checks>>
        /\ Unlock /\ job' = [job EXCEPT ![o] = j] /\ Inventories(job[o].target)
    BY <1>4 DEF Reassessed, In
  <2>2. /\ mem[o].then = "reload" /\ mem[o].on \in job[o].reserved /\ mem[o].on \in Session
        /\ job[o].target \in Session /\ On[o] \in job[o].reserved
    BY <1>1, <2>1 DEF JobPlaced
  <2>3. Goes(o, "syncing") /\ at'[o] = "syncing" /\ "syncing" \in Places
    BY <1>1, <2>1 DEF AwaitsSync, Goes, Places
  <2>4. Placed(o)'
    BY <2>1, <2>2, <2>3 DEF Placed, Called, Calling, Own
  <2>5. Memorized'
    BY <2>1, <2>3, <2>4, GoesMemorized DEF RTyped
  <2>6. Stored'
    BY <2>1, <2>2, AwaitChained DEF RTyped, Stored, conversations, settings
  <2>7. known' \subseteq members' /\ members' \subseteq Range(Project)
    BY <2>1, <2>2, InventoriesKnown DEF RTyped, Known
  <2>8. Known'
    BY <2>1, <2>7 DEF RTyped, Known, agents, clone, checks
  <2>9. j \in Job
    BY <1>1 DEF Job
  <2>10. JobPlaced(o)'
    BY <1>1, <2>1, <2>2, <2>3 DEF JobPlaced, Job, Calling
  <2>11. \A p \in Ops \ {o} : at'[p] = at[p] /\ mem'[p].on = mem[p].on /\ mem'[p].then = mem[p].then
    BY <1>1, <2>1, <2>3 DEF Goes
  <2>12. Jobs'
    BY <2>1, <2>9, <2>10, <2>11, JobMoves DEF RTyped
  <2>13. LockMoves(o, j)
    BY <1>1, <2>1 DEF LockMoves, InLine, Job
  <2>14. Held'
    BY <2>1, <2>9, <2>13, LockHeld DEF RTyped
  <2> QED BY <2>5, <2>6, <2>8, <2>12, <2>14 DEF RTyped
<1>5. CASE ReloadSynced(o)
  <2>1. job' = [job EXCEPT ![o] = job[o]] /\ Goes(o, "job") /\ UNCHANGED <<lock, mem, replacing>>
    BY <1>1, <1>5 DEF ReloadSynced, rest
  <2>2. Known'
    BY <1>5 DEF ReloadSynced, rest, RTyped, Known, agents, clone, knowledge, checks
  <2>3. JobPlaced(o)'
    BY <1>1, <2>1 DEF JobPlaced, Goes, Calling
  <2>4. LockMoves(o, job[o])
    BY <2>1 DEF LockMoves
  <2> QED BY <1>1, <1>2, <1>5, <2>1, <2>2, <2>3, <2>4, HandlerTyped DEF ReloadSynced
<1>6. CASE OtherRebuilt(o)
  <2> DEFINE j == [job[o] EXCEPT !.stage = "others", !.failed = @ \/ at[o] # "installed"]
  <2>1. /\ UNCHANGED others /\ UNCHANGED <<replacing, lock>> /\ Goes(o, "job") /\ job[o].stage = "rebuilding"
        /\ job' = [job EXCEPT ![o] = j] /\ job[o].target \in Session
    BY <1>1, <1>6 DEF OtherRebuilt, Back, JobPlaced
  <2>2. known' \subseteq members' /\ members' \subseteq Range(Project)
    BY <1>6, <2>1, InventoriesKnown DEF OtherRebuilt, RTyped, Known, knowledge
  <2>3. Known'
    BY <1>6, <2>2 DEF OtherRebuilt, others, RTyped, Known, agents, clone, checks
  <2>4. j \in Job
    BY <1>1, ZenonT(60) DEF Job
  <2>5. JobPlaced(o)'
    BY <1>1, <2>1 DEF JobPlaced, Goes, others, Job, Calling
  <2>6. LockMoves(o, j)
    BY <1>1, <2>1 DEF LockMoves, InLine, Job
  <2> QED BY <1>1, <1>2, <2>1, <2>3, <2>4, <2>5, <2>6, HandlerTyped DEF others
<1> QED BY <1>3, <1>4, <1>5, <1>6

\* The steps of a removal, but for its rebuilds, and those of a start keep all typed.
LEMMA RemovalTyped ==
  ASSUME NEW o \in Ops, RTyped, Unregisters(o) \/ Unregistered(o) \/ Removed(o) \/ StartEnds(o)
  PROVE  RTyped'
<1>1. /\ job[o] \in Job /\ JobPlaced(o) /\ at \in [Ops -> Places] /\ job \in [Ops -> Job]
      /\ replacing \subseteq Session /\ On[o] \in Session
  BY SessionsAssumption DEF SessionsAssumption, RTyped, Jobs, Memorized, Stored
<1> USE DEF Does, Staged
<1>2. CASE Unregisters(o)
  <2>1. Known'
    BY <1>2 DEF Unregisters, others, RTyped, Known, agents, clone, knowledge, checks
  <2>2. CASE Ends(o, "over")
    BY <1>2, <2>1, <2>2, EndsTyped DEF Unregisters, others
  <2>3. CASE ~Ends(o, "over")
    <3> DEFINE j == [job[o] EXCEPT !.stage = "config"]
    <3>1. /\ at[o] = "job" /\ job[o].stage = "listing" /\ Goes(o, "checking") /\ UNCHANGED <<lock, replacing>>
          /\ UNCHANGED others /\ job' = [job EXCEPT ![o] = j]
      BY <1>2, <2>3 DEF Unregisters, In
    <3>2. j \in Job
      BY <1>1 DEF Job
    <3>3. JobPlaced(o)'
      BY <1>1, <3>1 DEF JobPlaced, Goes, others, Job, Calling
    <3>4. LockMoves(o, j)
      BY <1>1, <3>1 DEF LockMoves, InLine, Job
    <3> QED BY <1>1, <2>1, <3>1, <3>2, <3>3, <3>4, StagedTyped DEF others
  <2> QED BY <2>2, <2>3
<1>3. CASE Unregistered(o)
  <2>1. Known'
    BY <1>3 DEF Unregistered, others, RTyped, Known, agents, clone, knowledge, checks
  <2>2. CASE Ends(o, "over")
    BY <1>3, <2>1, <2>2, EndsTyped DEF Unregistered, others
  <2>3. CASE ~Ends(o, "over")
    <3> DEFINE j == [job[o] EXCEPT !.stage = "others"]
    <3>1. /\ job[o].stage = "config" /\ Goes(o, "job") /\ UNCHANGED <<lock, replacing>>
          /\ UNCHANGED others /\ job' = [job EXCEPT ![o] = j]
      BY <1>3, <2>3 DEF Unregistered
    <3>2. j \in Job
      BY <1>1 DEF Job
    <3>3. JobPlaced(o)'
      BY <1>1, <3>1 DEF JobPlaced, Goes, others, Job, Calling
    <3>4. LockMoves(o, j)
      BY <1>1, <3>1 DEF LockMoves, InLine, Job
    <3> QED BY <1>1, <2>1, <3>1, <3>2, <3>3, <3>4, StagedTyped DEF others
  <2> QED BY <2>2, <2>3
<1>4. CASE Removed(o)
  <2>1. known' \subseteq members' /\ members' \subseteq Range(Project)
    BY <1>1, <1>4, InventoriesKnown DEF Removed, RTyped, Known
  <2>2. Known'
    BY <1>4, <2>1 DEF Removed, others, RTyped, Known, agents, clone, checks
  <2> QED BY <1>4, <2>2, EndsTyped DEF Removed, others
<1>5. CASE StartEnds(o)
  <2>1. known' \subseteq members' /\ members' \subseteq Range(Project)
    BY <1>1, <1>5, InventoriesKnown DEF StartEnds, RTyped, Known, knowledge
  <2>2. Known'
    BY <1>1, <1>5, <2>1 DEF StartEnds, others, RTyped, Known, clone, checks
  <2> QED BY <1>5, <2>2, EndsTyped DEF StartEnds, others
<1> QED BY <1>2, <1>3, <1>4, <1>5

\* So does the attachment of an agent, on a conversation of its own.
LEMMA AttachedTyped ==
  ASSUME NEW o \in Ops, RTyped, Attached(o)
  PROVE  RTyped'
<1> DEFINE s == On[o]
           j == [job[o] EXCEPT !.stage = "inventory"]
<1>1. /\ job[o] \in Job /\ JobPlaced(o) /\ at \in [Ops -> Places] /\ job \in [Ops -> Job]
      /\ mem \in [Ops -> Memory] /\ s \in Session
  BY SessionsAssumption DEF SessionsAssumption, RTyped, Jobs, Memorized
<1>2. /\ at[o] = "job" /\ job[o].stage = "attaching" /\ job' = [job EXCEPT ![o] = j]
      /\ UNCHANGED <<turn, saved, lineage, replacing, plan, marker, sync, settings, at, mem, faults, lock>>
  BY DEF Attached, In, Staged, Does
<1>3. Stored'
  <2>1. PICK c \in Conversation : /\ live' = [live EXCEPT ![s] = c] /\ used' = used \cup {c}
                                  /\ shown' = [shown EXCEPT ![s] = [file |-> c, plan |-> plan[c]]]
    BY DEF Attached, NextFile, Taken
  <2>2. [file |-> c, plan |-> plan[c]] \in [file : Conversation, plan : SUBSET Ops]
    BY DEF RTyped, Stored
  <2>3. shown' \in [Session -> [file : Conversation, plan : SUBSET Ops]]
    BY <2>1, <2>2 DEF RTyped, Stored
  <2>4. Chained'
    BY <1>2, ChainKept DEF RTyped, Stored
  <2> QED BY <1>1, <1>2, <2>1, <2>3, <2>4 DEF RTyped, Stored, settings
<1>4. Memorized'
  BY <1>2 DEF RTyped, Memorized, Placed
<1>5. loaded' \in [Session -> Nat \cup {NoRevision}] /\ started' \subseteq Session
  BY <1>1 DEF Attached, RTyped, Known, Job
<1>6. Known'
  BY <1>5 DEF Attached, RTyped, Known, clone, knowledge, checks
<1>7. j \in Job
  BY <1>1 DEF Job
<1>8. JobPlaced(o)'
  BY <1>1, <1>2 DEF JobPlaced, Job, Calling
<1>9. Jobs'
  BY <1>1, <1>2, <1>7, <1>8, JobMoves DEF RTyped
<1>10. LockMoves(o, j)
  BY <1>1, <1>2 DEF LockMoves, InLine, Job
<1>11. Held'
  BY <1>2, <1>7, <1>10, LockHeld DEF RTyped
<1> QED BY <1>3, <1>4, <1>6, <1>9, <1>11 DEF RTyped

\* Those around them keep all typed: a push, the person's work, the end of a token's time.
LEMMA AroundTyped ==
  ASSUME NEW o \in Ops, RTyped, Pushes(o) \/ WorksInClone(o) \/ Expires(o)
  PROVE  RTyped'
<1>1. /\ job[o] \in Job /\ JobPlaced(o) /\ at \in [Ops -> Places] /\ job \in [Ops -> Job]
      /\ replacing \subseteq Session
  BY DEF RTyped, Jobs, Memorized, Stored
<1>2. Goes(o, "done") /\ UNCHANGED others /\ UNCHANGED <<replacing, lock, job>> /\ at[o] = "new"
  BY DEF Pushes, WorksInClone, Expires, Arrives
<1>3. job[o] = Idle /\ job' = [job EXCEPT ![o] = Idle]
  BY <1>1, <1>2 DEF JobPlaced
<1>4. Known'
  <2>1. CASE Pushes(o)
    BY <2>1 DEF Pushes, others, RTyped, Known, agents, knowledge, checks
  <2>2. CASE WorksInClone(o)
    BY <2>2 DEF WorksInClone, others, RTyped, Known, agents, knowledge, checks
  <2>3. CASE Expires(o)
    BY <2>3 DEF Expires, others, RTyped, Known, agents, clone, knowledge
  <2> QED BY <2>1, <2>2, <2>3
<1>5. JobPlaced(o)'
  BY <1>1, <1>2, <1>3 DEF JobPlaced, Goes, Idle, Calling
<1>6. LockMoves(o, Idle) /\ Idle \in Job
  BY <1>1, <1>2, <1>3 DEF LockMoves
<1>7. "done" \in Handled
  BY DEF Handled, Places, Ended, Called, Calling
<1> QED BY <1>1, <1>2, <1>3, <1>4, <1>5, <1>6, <1>7, HandlerTyped DEF others

\* So does an inventory read in the background.
LEMMA RefreshesTyped ==
  ASSUME NEW s \in Session, RTyped, Refreshes(s)
  PROVE  RTyped'
<1>1. UNCHANGED <<vars, agents, clone, registered, lock, checks, job>>
  BY DEF Refreshes
<1>2. known' \subseteq members' /\ members' \subseteq Range(Project)
  BY InventoriesKnown DEF Refreshes, RTyped, Known
<1>3. Known'
  BY <1>1, <1>2 DEF RTyped, Known, agents, clone, checks
<1>4. Stored'
  BY <1>1, ChainKept DEF RTyped, Stored, vars, conversations, plans, settings
<1>5. Memorized' /\ Jobs' /\ Held'
  BY <1>1 DEF RTyped, vars, Memorized, Placed, Jobs, JobPlaced, Held, Locked
<1> QED BY <1>3, <1>4, <1>5 DEF RTyped

\* Every step keeps all typed.
LEMMA RNextTyped == RTyped /\ [ResourcesNext]_allvars => RTyped'
<1> SUFFICES ASSUME RTyped, [ResourcesNext]_allvars PROVE RTyped'
  OBVIOUS
<1>1. ASSUME NEW o \in Ops, ResourceContinues(o) PROVE RTyped'
  <2>1. CASE Reloads(o)
    BY <2>1, ReloadTyped DEF Reloads, In
  <2>2. CASE RebuildsOther(o)
    BY <2>2, ReloadTyped DEF RebuildsOther, In
  <2> QED BY <1>1, <2>1, <2>2, ChecksTyped, UpdateTyped, RebuiltTyped, RemovalTyped, AttachedTyped
             DEF ResourceContinues
<1>2. CASE UNCHANGED allvars
  BY <1>2, RUnchanged
<1>3. ASSUME NEW o \in Ops, ResourceRequested(o) \/ Pushes(o) \/ WorksInClone(o) \/ Expires(o) PROVE RTyped'
  BY <1>3, ResourceRequestedTyped, AroundTyped
<1>4. CASE SessionStep \/ \E s \in Session : Refreshes(s)
  BY <1>4, SessionStepTyped, RefreshesTyped
<1>5. CASE ResourcesTerminating
  BY <1>2, <1>5 DEF ResourcesTerminating
<1>6. Open \subseteq Ops
  BY DEF Open
<1> QED BY <1>1, <1>2, <1>3, <1>4, <1>5, <1>6, Zenon DEF ResourcesNext

\* Every reachable state of the sessions and the repository is typed, whatever the requests, and
\* however those of several sessions interleave.
THEOREM ResourcesTypeCorrect == ResourcesSpec => []ResourcesTypeOK
BY RInitTyped, RNextTyped, RTypedIsTyped, PTL DEF ResourcesSpec

\* Two operations never work on the clone at once: one that looks at it, fetches, reads or merges
\* keeps every other from there until withLock lets the next one in.
THEOREM OneInTheClone ==
  ResourcesSpec => [](\A o, p \in Ops : job[o].stage \in InLine /\ job[p].stage \in InLine => o = p)
<1>1. RTyped => \A o, p \in Ops : job[o].stage \in InLine /\ job[p].stage \in InLine => o = p
  BY DEF RTyped, Held, Locked
<1> QED BY <1>1, RInitTyped, RNextTyped, PTL DEF ResourcesSpec

-----------------------------------------------------------------------------
(* Who keeps a session's flag set                                          *)

\* An operation is in a handler of this module, in the settings of a removal, or in a call that
\* such a handler made.
Working(o) == at[o] = "job" \/ job[o].stage = "config" \/ (at[o] \in Calling /\ mem[o].then = "reload")
Reserves(o, s) == Working(o) /\ s \in job[o].reserved
Keeps(o, s) == Owns(o, s) \/ Reserves(o, s)

\* Every flag that is set has an operation that is to clear it.
Flagged == \A s \in replacing : \E o \in Ops : Keeps(o, s)

\* What a step of one operation does to a flag: set, it is kept by the operation; kept and still
\* set, it still is.
Hands(o) ==
  /\ \A s \in replacing' \ replacing : Keeps(o, s)'
  /\ \A s \in replacing' : Keeps(o, s) => Keeps(o, s)'

\* And: the operation comes to keep only what nobody had set, and clears only what it kept.
Spares(o) ==
  /\ \A s \in Session : Keeps(o, s)' => IF Keeps(o, s) THEN s \in replacing => s \in replacing'
                                                       ELSE s \in replacing' \ replacing
  /\ \A s \in replacing \ replacing' : Keeps(o, s)

\* The other operations stay where they are.
Others(o) ==
  \A p \in Ops \ {o} : /\ at'[p] = at[p] /\ mem'[p].on = mem[p].on /\ mem'[p].then = mem[p].then
                       /\ job'[p] = job[p]

\* Then they keep what they kept.
LEMMA OthersKeep ==
  ASSUME NEW o \in Ops, Others(o)
  PROVE  \A p \in Ops \ {o} : \A s : Keeps(p, s)' <=> Keeps(p, s)
BY DEF Others, Keeps, Owns, Reserves, Working

\* Nothing new is kept or cleared by a step that changes only its own operation's stage.
LEMMA StagedHands ==
  ASSUME NEW o \in Ops, NEW j \in Job, RTyped, UNCHANGED <<replacing, at, mem>>, job' = [job EXCEPT ![o] = j],
         at[o] = "job", j.reserved = job[o].reserved
  PROVE  Hands(o) /\ Spares(o) /\ Others(o)
<1>1. job'[o] = j /\ at'[o] = "job" /\ \A p \in Ops \ {o} : job'[p] = job[p]
  BY DEF RTyped, Jobs
<1>2. \A s : Keeps(o, s)' <=> Keeps(o, s)
  BY <1>1 DEF Keeps, Owns, Reserves, Working
<1> QED BY <1>1, <1>2 DEF Hands, Spares, Others

\* Nor by one that takes its operation to a place where what it reserved is still its own.
LEMMA PassedHands ==
  ASSUME NEW o \in Ops, NEW place, NEW j \in Job, RTyped, UNCHANGED <<replacing, mem>>, Goes(o, place),
         job' = [job EXCEPT ![o] = j], j.reserved = job[o].reserved,
         Working(o), Working(o)', \A s : ~Owns(o, s), \A s : ~Owns(o, s)'
  PROVE  Hands(o) /\ Spares(o) /\ Others(o)
<1>1. job'[o] = j /\ \A p \in Ops \ {o} : job'[p] = job[p] /\ at'[p] = at[p]
  BY DEF RTyped, Jobs, Memorized, Goes
<1>2. \A s : Keeps(o, s)' <=> Keeps(o, s)
  BY <1>1 DEF Keeps, Reserves
<1> QED BY <1>1, <1>2 DEF Hands, Spares, Others

\* Who was not at work on the repository reserves free sessions, or none.
LEMMA ArrivalHands ==
  ASSUME NEW o \in Ops, NEW place \in {"job", "done", "refused"}, NEW j \in Job, RTyped, at[o] = "new",
         Goes(o, place), UNCHANGED mem, job' = [job EXCEPT ![o] = j],
         replacing' = replacing \cup j.reserved, j.reserved \cap replacing = {},
         j.stage # "config", place # "job" => j.reserved = {}
  PROVE  Hands(o) /\ Spares(o) /\ Others(o)
<1>1. job'[o] = j /\ at'[o] = place /\ \A p \in Ops \ {o} : job'[p] = job[p] /\ at'[p] = at[p]
  BY DEF RTyped, Jobs, Memorized, Goes
<1>2. job[o] = Idle
  BY DEF RTyped, Jobs, JobPlaced
<1>3. \A s : ~Keeps(o, s)
  BY <1>2 DEF Keeps, Owns, Reserves, Working, Idle, Calling
<1>4. \A s : Keeps(o, s)' <=> s \in j.reserved
  BY <1>1 DEF Keeps, Owns, Reserves, Working, Calling
<1> QED BY <1>1, <1>3, <1>4 DEF Hands, Spares, Others

\* The end of a handler clears what it reserved, and keeps nothing.
LEMMA EndsHands ==
  ASSUME NEW o \in Ops, NEW stage \in {"over", "updated"}, RTyped, Ends(o, stage), UNCHANGED mem,
         at[o] = "job" \/ (job[o].stage = "config" /\ at[o] \in Ended)
  PROVE  Hands(o) /\ Spares(o) /\ Others(o)
<1> DEFINE j == [job[o] EXCEPT !.stage = stage]
<1>1. job[o] \in Job /\ job' = [job EXCEPT ![o] = j] /\ at'[o] = "done" /\ j.stage = stage
  BY DEF Ends, Goes, Staged, Does, RTyped, Jobs, Memorized, Job
<1>2. job'[o] = j /\ \A p \in Ops \ {o} : job'[p] = job[p] /\ at'[p] = at[p]
  BY <1>1 DEF Ends, Goes, RTyped, Jobs, Memorized
<1>3. \A s : Keeps(o, s) <=> s \in job[o].reserved
  BY DEF Keeps, Owns, Reserves, Working, Calling, Ended
<1>4. \A s : ~Keeps(o, s)'
  BY <1>1, <1>2 DEF Keeps, Owns, Reserves, Working, Calling
<1> QED BY <1>2, <1>3, <1>4 DEF Hands, Spares, Others, Ends

\* The requests of handlers spare the others' sessions.
LEMMA ResourceRequestedHands ==
  ASSUME NEW o \in Ops, RTyped, ResourceRequested(o)
  PROVE  Hands(o) /\ Spares(o) /\ Others(o)
<1>1. at[o] = "new"
  BY DEF ResourceRequested, CheckArrives, UpdateArrives, RemoveArrives, Starts, TurnedAwayHere, Arrives
<1>2. job[o] = Idle /\ Idle \in Job /\ job \in [Ops -> Job] /\ Affected \subseteq Session
  BY <1>1 DEF RTyped, Jobs, JobPlaced, Affected
<1> USE DEF Does, Staged, others
<1>3. CASE CheckArrives(o)
  <2> DEFINE j == [Idle EXCEPT !.stage = "queued"]
  <2>1. j \in Job /\ j.reserved = {} /\ j.stage = "queued"
    BY DEF Idle, Job
  <2>2. Goes(o, "job") /\ job' = [job EXCEPT ![o] = j] /\ UNCHANGED <<replacing, mem>>
    BY <1>2, <1>3 DEF CheckArrives
  <2> QED BY <1>1, <2>1, <2>2, ArrivalHands
<1>4. CASE UpdateArrives(o)
  <2> DEFINE busy == Busy(Affected, {})
             Confirming(token) == [Idle EXCEPT !.stage = "queued", !.why = "guard", !.token = token, !.blocked = busy,
                                               !.reserved = IF busy THEN {} ELSE Affected]
  <2>1. PICK token \in issued : job' = [job EXCEPT ![o] = Confirming(token)]
    BY <1>4 DEF UpdateArrives
  <2> DEFINE j == Confirming(token)
  <2>2. token \in Assessment /\ busy \in BOOLEAN
    BY DEF RTyped, Known, Busy
  <2>3. j \in Job /\ j.stage = "queued" /\ j.reserved = IF busy THEN {} ELSE Affected
    BY <1>2, <2>2 DEF Idle, Job
  <2>4. ~busy => Affected \cap replacing = {}
    BY DEF Busy
  <2>5. /\ Goes(o, "job") /\ UNCHANGED mem
        /\ replacing' = IF busy THEN replacing ELSE replacing \cup Affected
    BY <1>4 DEF UpdateArrives
  <2> HIDE DEF j, busy
  <2>6. replacing' = replacing \cup j.reserved /\ j.reserved \cap replacing = {}
    BY <2>3, <2>4, <2>5
  <2> QED BY <1>1, <2>1, <2>3, <2>5, <2>6, ArrivalHands DEF j
<1>5. CASE RemoveArrives(o)
  <2> DEFINE more == Affected \ {On[o]}
             j == [Idle EXCEPT !.stage = "listing", !.reserved = more, !.left = more]
  <2>1. j \in Job /\ j.reserved = more /\ j.stage = "listing"
    BY <1>2 DEF Idle, Job
  <2>2. Goes(o, "job") /\ job' = [job EXCEPT ![o] = j] /\ UNCHANGED mem /\ replacing' = replacing \cup more
    BY <1>5 DEF RemoveArrives
  <2>3. more \cap replacing = {}
    BY <1>5 DEF RemoveArrives, Busy
  <2> QED BY <1>1, <2>1, <2>2, <2>3, ArrivalHands
<1>6. CASE Starts(o)
  <2> DEFINE j == [Idle EXCEPT !.stage = "building"]
  <2>1. j \in Job /\ j.reserved = {} /\ j.stage = "building"
    BY DEF Idle, Job
  <2>2. Goes(o, "job") /\ job' = [job EXCEPT ![o] = j] /\ UNCHANGED <<replacing, mem>>
    BY <1>2, <1>6 DEF Starts
  <2> QED BY <1>1, <2>1, <2>2, ArrivalHands
<1>7. CASE TurnedAwayHere(o)
  <2>1. Idle.reserved = {} /\ Idle.stage = "none"
    BY DEF Idle
  <2>2. Goes(o, "refused") /\ job' = [job EXCEPT ![o] = Idle] /\ UNCHANGED <<replacing, mem>>
    BY <1>2, <1>7 DEF TurnedAwayHere, rest
  <2> QED BY <1>1, <1>2, <2>1, <2>2, ArrivalHands
<1> QED BY <1>3, <1>4, <1>5, <1>6, <1>7 DEF ResourceRequested

\* A step in a handler leaves what its operation has reserved, but for those that end it or
\* reserve more: on the clone, and in a start.
LEMMA ChecksHand ==
  ASSUME NEW o \in Ops, RTyped,
         \/ Looks(o) \/ Fetches(o) \/ ReadsRevisions(o) \/ RefreshesLast(o) \/ AllRebuilt(o)
         \/ Deletes(o) \/ ReadsFiles(o) \/ Attached(o)
  PROVE  Hands(o) /\ Spares(o) /\ Others(o)
<1>1. /\ job[o] \in Job /\ at[o] = "job" /\ job \in [Ops -> Job] /\ RTyped'
      /\ Project[On[o]] \in Range(Project)
  BY ChecksTyped, AttachedTyped, SessionsAssumption
     DEF SessionsAssumption, RTyped, Jobs, In, Looks, Fetches, ReadsRevisions, RefreshesLast, AllRebuilt,
         Deletes, ReadsFiles, Attached, Range
<1>2. UNCHANGED <<replacing, at, mem>>
  BY DEF vars, Looks, Fetches, ReadsRevisions, RefreshesLast, AllRebuilt, Deletes, ReadsFiles, Attached
<1>3. job' = [job EXCEPT ![o] = job'[o]] /\ job'[o].reserved = job[o].reserved
  <2> USE DEF Does, Staged
  <2>1. CASE Looks(o)
    BY <1>1, <2>1 DEF Looks, Job
  <2>2. CASE RefreshesLast(o)
    BY <1>1, <2>2 DEF RefreshesLast, Job
  <2>3. CASE ReadsFiles(o)
    BY <1>1, <2>3 DEF ReadsFiles, Job
  <2>4. CASE Fetches(o)
    BY <1>1, <2>4 DEF Fetches, Job
  <2>5. CASE AllRebuilt(o)
    BY <1>1, <2>5 DEF AllRebuilt, Job
  <2>6. CASE Deletes(o) \/ Attached(o)
    BY <1>1, <2>6, ZenonT(60) DEF Deletes, Attached, Job
  <2>7. CASE ReadsRevisions(o)
    <3> DEFINE a == [number |-> Cardinality(issued) + 1, project |-> Project[On[o]], local |-> head, up |-> fetched]
    <3>1. \/ job' = [job EXCEPT ![o] = [job[o] EXCEPT !.stage = "assessed", !.seen = a]]
          \/ job' = [job EXCEPT ![o] = [job[o] EXCEPT !.stage = "assessed"]]
      BY <2>7 DEF ReadsRevisions
    <3> HIDE DEF a
    <3> QED BY <1>1, <3>1, ZenonT(60) DEF Job
  <2> QED BY <2>1, <2>2, <2>3, <2>4, <2>5, <2>6, <2>7
<1>4. job'[o] \in Job
  BY <1>1 DEF RTyped, Jobs
<1> QED BY <1>1, <1>2, <1>3, <1>4, StagedHands

\* In an update: the guard reserves who is concerned by now, none of them another's.
LEMMA UpdateHands ==
  ASSUME NEW o \in Ops, RTyped, Checked(o) \/ TakesToken(o) \/ Guards(o) \/ Merges(o) \/ Answers(o)
  PROVE  Hands(o) /\ Spares(o) /\ Others(o)
<1>1. job[o] \in Job /\ at[o] = "job" /\ job \in [Ops -> Job] /\ Affected \subseteq Session
  BY DEF RTyped, Jobs, In, Checked, TakesToken, Guards, Merges, Answers, Affected
<1> USE DEF Does, Staged, others
<1>2. CASE Checked(o)
  BY <1>1, <1>2, EndsHands DEF Checked
<1>3. CASE NotUpdated(o)
  BY <1>1, <1>3, EndsHands DEF NotUpdated
<1>4. CASE TakesToken(o) /\ ~NotUpdated(o)
  <2> DEFINE j == [job[o] EXCEPT !.stage = "looking"]
  <2>1. j \in Job /\ j.reserved = job[o].reserved
    BY <1>1 DEF Job
  <2>2. job' = [job EXCEPT ![o] = j] /\ UNCHANGED <<replacing, at, mem>>
    BY <1>4 DEF TakesToken, vars
  <2> QED BY <1>1, <2>1, <2>2, StagedHands
<1>5. CASE Guards(o) /\ ~NotUpdated(o)
  <2> DEFINE j == [job[o] EXCEPT !.stage = "merging", !.left = Affected, !.reserved = @ \cup Affected]
  <2>1. j \in Job /\ j.reserved = job[o].reserved \cup Affected
    BY <1>1 DEF Job
  <2>2. /\ job' = [job EXCEPT ![o] = j] /\ UNCHANGED <<at, mem>> /\ replacing' = replacing \cup Affected
        /\ (Affected \ job[o].reserved) \cap replacing = {}
    BY <1>5 DEF Guards, Busy
  <2>3. job'[o] = j /\ \A p \in Ops \ {o} : job'[p] = job[p]
    BY <1>1, <2>2
  <2> HIDE DEF j
  <2>4. \A s : Keeps(o, s) <=> s \in job[o].reserved
    BY <1>1 DEF Keeps, Owns, Reserves, Working, Calling
  <2>5. \A s : Keeps(o, s)' <=> s \in job[o].reserved \cup Affected
    BY <1>1, <2>1, <2>2, <2>3 DEF Keeps, Owns, Reserves, Working, Calling
  <2> QED BY <2>2, <2>3, <2>4, <2>5 DEF Hands, Spares, Others
<1>6. CASE Merges(o) /\ ~NotUpdated(o)
  <2> DEFINE j == [job[o] EXCEPT !.stage = "next"]
  <2>1. j \in Job /\ j.reserved = job[o].reserved
    BY <1>1 DEF Job
  <2>2. job' = [job EXCEPT ![o] = j] /\ UNCHANGED <<replacing, at, mem>>
    BY <1>6 DEF Merges, vars
  <2> QED BY <1>1, <2>1, <2>2, StagedHands
<1>7. CASE Answers(o)
  BY <1>1, <1>7, EndsHands DEF Answers
<1> QED BY <1>2, <1>3, <1>4, <1>5, <1>6, <1>7

\* A rebuild is the call of a handler: what its operation reserved stays so until it is back.
LEMMA RebuildHands ==
  ASSUME NEW o \in Ops, RTyped,
         \/ Reloads(o) \/ RebuildsOther(o)
         \/ Reloaded(o) \/ Reassessed(o) \/ ReloadSynced(o) \/ OtherRebuilt(o)
  PROVE  Hands(o) /\ Spares(o) /\ Others(o)
<1>1. /\ job[o] \in Job /\ job \in [Ops -> Job] /\ at \in [Ops -> Places] /\ mem \in [Ops -> Memory]
      /\ JobPlaced(o)
  BY DEF RTyped, Jobs, Memorized
<1> USE DEF Does, Staged, others
<1>2. ASSUME NEW stage, Reload(o, stage), at[o] = "job"
      PROVE  Hands(o) /\ Spares(o) /\ Others(o)
  <2>1. PICK t \in job[o].left :
          /\ job' = [job EXCEPT ![o] = [job[o] EXCEPT !.left = @ \ {t}, !.target = t,
                                                      !.stage = IF t \in started THEN stage ELSE @]]
          /\ IF t \in started THEN Calls(o, t, Fresh, "reload", Retained) ELSE UNCHANGED <<at, mem>>
    BY <1>2 DEF Reload
  <2>2. job'[o].reserved = job[o].reserved /\ \A p \in Ops \ {o} : job'[p] = job[p]
    BY <1>1, <2>1 DEF Job
  <2>3. /\ at'[o] = "job" \/ (at'[o] = "asking" /\ mem'[o].then = "reload")
        /\ \A p \in Ops \ {o} : at'[p] = at[p] /\ mem'[p].on = mem[p].on /\ mem'[p].then = mem[p].then
    BY <1>1, <1>2, <2>1 DEF Calls, Goes, Memory
  <2>4. \A s : Keeps(o, s)' <=> Keeps(o, s)
    BY <1>2, <2>2, <2>3 DEF Keeps, Owns, Reserves, Working, Calling
  <2>5. UNCHANGED replacing
    BY <1>2 DEF Reload
  <2> QED BY <2>2, <2>3, <2>4, <2>5 DEF Hands, Spares, Others
<1>3. CASE Reloads(o) \/ RebuildsOther(o)
  BY <1>2, <1>3 DEF Reloads, RebuildsOther, In
<1>4. CASE Reloaded(o) \/ ReloadSynced(o) \/ OtherRebuilt(o)
  <2>1. /\ Goes(o, "job") /\ UNCHANGED <<replacing, mem>> /\ at[o] \in Calling /\ mem[o].then = "reload"
    BY <1>4 DEF Reloaded, ReloadSynced, Synced, OtherRebuilt, Back, Calling
  <2>2. job' = [job EXCEPT ![o] = job'[o]] /\ job'[o].reserved = job[o].reserved
    <3>1. CASE Reloaded(o)
      <4>1. CASE at[o] = "installed"
        <5>1. job' = [job EXCEPT ![o] = [job[o] EXCEPT !.stage = "queued", !.why = "reload",
                                                       !.refreshed = @ \/ job[o].target = On[o]]]
          BY <3>1, <4>1 DEF Reloaded
        <5> QED BY <1>1, <5>1 DEF Job
      <4>2. CASE at[o] # "installed"
        BY <1>1, <3>1, <4>2, ZenonT(60) DEF Reloaded, Job
      <4> QED BY <4>1, <4>2
    <3>2. CASE ReloadSynced(o)
      BY <1>1, <3>2 DEF ReloadSynced, rest
    <3>3. CASE OtherRebuilt(o)
      <4>1. job' = [job EXCEPT ![o] = [job[o] EXCEPT !.stage = "others", !.failed = @ \/ at[o] # "installed"]]
        BY <3>3 DEF OtherRebuilt
      <4> QED BY <1>1, <4>1 DEF Job
    <3> QED BY <1>4, <3>1, <3>2, <3>3
  <2>3. RTyped'
    BY <1>4, RebuiltTyped
  <2>4. job'[o] \in Job
    BY <1>1, <2>2, <2>3 DEF RTyped, Jobs
  <2>5. at'[o] = "job"
    BY <1>1, <2>1 DEF Goes
  <2>6. Working(o) /\ Working(o)' /\ (\A s : ~Owns(o, s)) /\ (\A s : ~Owns(o, s)')
    BY <2>1, <2>5 DEF Owns, Working, Calling
  <2> QED BY <2>1, <2>2, <2>4, <2>6, PassedHands
<1>5. CASE Reassessed(o)
  <2> DEFINE j == [job[o] EXCEPT !.stage = "next"]
  <2>1. /\ Goes(o, "syncing") /\ UNCHANGED <<replacing, mem>> /\ at[o] = "job" /\ mem[o].then = "reload"
        /\ job' = [job EXCEPT ![o] = j]
    BY <1>1, <1>5 DEF Reassessed, In, AwaitsSync, JobPlaced
  <2>2. j \in Job /\ j.reserved = job[o].reserved
    BY <1>1 DEF Job
  <2>3. at'[o] = "syncing"
    BY <1>1, <2>1 DEF Goes
  <2>4. Working(o) /\ Working(o)' /\ (\A s : ~Owns(o, s)) /\ (\A s : ~Owns(o, s)')
    BY <2>1, <2>3 DEF Owns, Working, Calling
  <2> QED BY <2>1, <2>2, <2>4, PassedHands
<1> QED BY <1>3, <1>4, <1>5

\* So does a removal through the settings it applies.
LEMMA RemovalHands ==
  ASSUME NEW o \in Ops, RTyped, Unregisters(o) \/ Unregistered(o) \/ Removed(o) \/ StartEnds(o)
  PROVE  Hands(o) /\ Spares(o) /\ Others(o)
<1>1. job[o] \in Job /\ job \in [Ops -> Job] /\ at \in [Ops -> Places]
  BY DEF RTyped, Jobs, Memorized
<1> USE DEF Does, Staged, others
<1>2. CASE Ends(o, "over")
  <2>1. UNCHANGED mem /\ (at[o] = "job" \/ (job[o].stage = "config" /\ at[o] \in Ended))
    BY DEF Unregisters, Unregistered, Removed, StartEnds, In
  <2> QED BY <1>2, <2>1, EndsHands
<1>3. CASE Unregisters(o) /\ ~Ends(o, "over")
  <2> DEFINE j == [job[o] EXCEPT !.stage = "config"]
  <2>1. Goes(o, "checking") /\ UNCHANGED <<replacing, mem>> /\ at[o] = "job" /\ job' = [job EXCEPT ![o] = j]
    BY <1>3 DEF Unregisters, In
  <2>2. j \in Job /\ j.reserved = job[o].reserved /\ j.stage = "config"
    BY <1>1 DEF Job
  <2>3. at'[o] = "checking" /\ job'[o] = j
    BY <1>1, <2>1 DEF Goes
  <2>4. Working(o) /\ Working(o)' /\ (\A s : ~Owns(o, s)) /\ (\A s : ~Owns(o, s)')
    BY <2>1, <2>2, <2>3 DEF Owns, Working, Calling
  <2> QED BY <2>1, <2>2, <2>4, PassedHands
<1>4. CASE Unregistered(o) /\ ~Ends(o, "over")
  <2> DEFINE j == [job[o] EXCEPT !.stage = "others"]
  <2>1. Goes(o, "job") /\ UNCHANGED <<replacing, mem>> /\ at[o] = "done" /\ job[o].stage = "config"
        /\ job' = [job EXCEPT ![o] = j]
    BY <1>4 DEF Unregistered
  <2>2. j \in Job /\ j.reserved = job[o].reserved
    BY <1>1 DEF Job
  <2>3. at'[o] = "job"
    BY <1>1, <2>1 DEF Goes
  <2>4. Working(o) /\ Working(o)' /\ (\A s : ~Owns(o, s)) /\ (\A s : ~Owns(o, s)')
    BY <2>1, <2>3 DEF Owns, Working, Calling
  <2> QED BY <2>1, <2>2, <2>4, PassedHands
<1> QED BY <1>2, <1>3, <1>4 DEF Removed, StartEnds

\* Who only pushes, works in the clone or lets a token expire keeps nothing.
LEMMA AroundHands ==
  ASSUME NEW o \in Ops, RTyped, Pushes(o) \/ WorksInClone(o) \/ Expires(o)
  PROVE  Hands(o) /\ Spares(o) /\ Others(o)
<1>1. Goes(o, "done") /\ UNCHANGED <<replacing, mem, job>> /\ at[o] = "new"
  BY DEF Pushes, WorksInClone, Expires, Arrives, others
<1>2. job[o] = Idle /\ Idle \in Job /\ job' = [job EXCEPT ![o] = Idle] /\ Idle.reserved = {} /\ Idle.stage = "none"
  BY <1>1, ZenonT(60) DEF RTyped, Jobs, JobPlaced, Idle
<1> QED BY <1>1, <1>2, ArrivalHands

\* A step of Sessions hands the flags on too: its removals and its calls are still the handler's.
LEMMA StepHands ==
  ASSUME NEW o \in Ops, RTyped, Steps(o), UNCHANGED job
  PROVE  Hands(o) /\ Others(o)
<1>1. Flags(o) /\ at[o] # "job"
  BY StepFlags, StepAlone DEF RTyped
<1>2. Others(o) /\ (Working(o) => Working(o)')
  BY StepAlone DEF RTyped, Others, Working
<1> QED BY <1>1, <1>2 DEF Hands, Flags, Keeps, Reserves

\* Every step of one operation hands the flags on.
LEMMA AllHand ==
  ASSUME NEW o \in Ops, RTyped,
         ResourceRequested(o) \/ ResourceContinues(o) \/ Pushes(o) \/ WorksInClone(o) \/ Expires(o)
  PROVE  Hands(o) /\ Spares(o) /\ Others(o)
BY ResourceRequestedHands, ChecksHand, UpdateHands, RebuildHands, RemovalHands, AroundHands, Zenon
   DEF ResourceContinues

\* Then each that is set has its keeper still.
LEMMA FlaggedStays ==
  ASSUME NEW o \in Ops, Flagged, Hands(o), Others(o)
  PROVE  Flagged'
<1> SUFFICES ASSUME NEW s \in replacing' PROVE \E p \in Ops : Keeps(p, s)'
  BY DEF Flagged
<1>1. CASE s \notin replacing
  BY <1>1 DEF Hands
<1>2. CASE s \in replacing
  <2>1. PICK p \in Ops : Keeps(p, s)
    BY <1>2 DEF Flagged
  <2> QED BY <2>1, OthersKeep DEF Hands
<1> QED BY <1>1, <1>2

\* The steps of no operation leave the flags, who keeps them and what the sessions show alone.
Background == UNCHANGED <<replacing, at, mem, job, live, used>>
LEMMA NextSteps ==
  ASSUME [ResourcesNext]_allvars
  PROVE  \/ Background
         \/ \E o \in Ops : Steps(o) /\ UNCHANGED job
         \/ \E o \in Ops : ResourceRequested(o) \/ ResourceContinues(o) \/ Pushes(o) \/ WorksInClone(o) \/ Expires(o)
<1>1. CASE SessionStep
  <2>1. ASSUME NEW s \in Session, Syncs(s) \/ TurnEnds(s) PROVE UNCHANGED <<replacing, at, mem, live, used>>
    BY <2>1 DEF Syncs, SyncBegins, CopyRead, CopyWritten, PlanLoaded, SyncLands, TurnEnds, conversations
  <2>2. UNCHANGED job
    BY <1>1 DEF SessionStep
  <2> QED BY <1>1, <2>1, <2>2 DEF SessionStep, Steps, Open, Background
<1>2. CASE UNCHANGED allvars
  BY <1>2 DEF allvars, vars, conversations, rest, Background
<1>3. ASSUME NEW s \in Session, Refreshes(s) PROVE Background
  BY <1>3 DEF Refreshes, vars, conversations, Background
<1>4. Open \subseteq Ops
  BY DEF Open
<1> QED BY <1>1, <1>2, <1>3, <1>4, Zenon DEF ResourcesNext, ResourcesTerminating

\* A flag that is set has an operation that is not over, and has begun, to clear it: whatever the
\* vetoes, failures and refusals, no session is left reserved.
THEOREM FlagsAreReleased == ResourcesSpec => []FlagIsReleased
<1>1. InitResources => Flagged
  BY DEF InitResources, Init, Flagged
<1>2. RTyped /\ Flagged /\ [ResourcesNext]_allvars => Flagged'
  <2> SUFFICES ASSUME RTyped, Flagged, [ResourcesNext]_allvars PROVE Flagged'
    OBVIOUS
  <2>1. CASE Background
    BY <2>1 DEF Background, Flagged, Keeps, Owns, Reserves, Working
  <2>2. ASSUME NEW o \in Ops, Steps(o), UNCHANGED job PROVE Flagged'
    BY <2>2, StepHands, FlaggedStays
  <2>3. ASSUME NEW o \in Ops,
               ResourceRequested(o) \/ ResourceContinues(o) \/ Pushes(o) \/ WorksInClone(o) \/ Expires(o)
        PROVE  Flagged'
    BY <2>3, AllHand, FlaggedStays
  <2> QED BY <2>1, <2>2, <2>3, NextSteps
<1>3. RTyped /\ Flagged => FlagIsReleased
  <2> SUFFICES ASSUME RTyped, \A o \in Open : at[o] = "new", NEW o \in Ops, NEW s, Keeps(o, s) PROVE FALSE
    BY DEF Flagged, FlagIsReleased
  <2>1. o \in Open
    BY DEF Open, Ended, Keeps, Owns, Reserves, Working, Calling
  <2>2. at[o] = "new" /\ job[o] = Idle
    BY <2>1 DEF RTyped, Jobs, JobPlaced
  <2> QED BY <2>2 DEF Keeps, Owns, Reserves, Working, Idle, Calling
<1> QED BY <1>1, <1>2, <1>3, RInitTyped, RNextTyped, PTL DEF ResourcesSpec

-----------------------------------------------------------------------------
(* One replacement at a time, until settings are adopted                   *)

\* No settings have been adopted, by a request or by a removal.
NoneAdopted == \A o \in Ops : Unadopted(o)

\* Then a flag that an operation keeps is set, and no other keeps it.
Exclusive ==
  /\ \A o \in Ops : \A s \in Session : Keeps(o, s) => s \in replacing
  /\ \A o, p \in Ops : \A s \in Session : Keeps(o, s) /\ Keeps(p, s) => o = p
Settled == (\A o \in Ops : Kinds(o)) /\ (NoneAdopted => Exclusive)

\* What spares the others leaves it so.
LEMMA ExclusiveStays ==
  ASSUME NEW o \in Ops, Exclusive, Hands(o), Spares(o), Others(o)
  PROVE  Exclusive'
<1>1. ASSUME NEW p \in Ops, NEW s \in Session, Keeps(p, s)' PROVE s \in replacing'
  <2>1. CASE p = o
    BY <1>1, <2>1 DEF Exclusive, Spares
  <2>2. CASE p # o
    <3>1. Keeps(p, s) /\ s \in replacing
      BY <1>1, <2>2, OthersKeep DEF Exclusive
    <3> QED BY <2>2, <3>1 DEF Exclusive, Spares
  <2> QED BY <2>1, <2>2
<1>2. ASSUME NEW p \in Ops, NEW s \in Session, Keeps(o, s)', Keeps(p, s)', p # o PROVE FALSE
  <2>1. Keeps(p, s) /\ s \in replacing
    BY <1>2, OthersKeep DEF Exclusive
  <2>2. Keeps(o, s)
    BY <1>2, <2>1 DEF Spares
  <2> QED BY <1>2, <2>1, <2>2 DEF Exclusive
<1>3. ASSUME NEW p \in Ops \ {o}, NEW q \in Ops \ {o}, NEW s \in Session, Keeps(p, s)', Keeps(q, s)'
      PROVE  p = q
  BY <1>3, OthersKeep DEF Exclusive
<1>4. (\A p \in Ops : \A s \in Session : Keeps(p, s) => s \in replacing)'
  BY <1>1
<1>5. (\A p, q \in Ops : \A s \in Session : Keeps(p, s) /\ Keeps(q, s) => p = q)'
  BY <1>2, <1>3
<1> QED BY <1>4, <1>5 DEF Exclusive

\* The steps of Sessions spare the others while no settings are adopted.
LEMMA StepSpares ==
  ASSUME NEW o \in Ops, RTyped, Exclusive, Kinds(o), Unadopted(o), Unadopted(o)', Steps(o), UNCHANGED job
  PROVE  Spares(o)
<1>1. Excludes(o)
  BY StepExcludes DEF RTyped, Exclusive, Keeps
<1>2. /\ at[o] # "job" /\ at'[o] # "job"
      /\ at'[o] \in Calling /\ mem'[o].then = "reload" => at[o] \in Calling /\ mem[o].then = "reload"
  BY StepAlone DEF RTyped
<1>3. \A s : Reserves(o, s)' => Reserves(o, s)
  BY <1>2 DEF Reserves, Working
<1>4. ASSUME NEW s, Reserves(o, s), Owns(o, s) PROVE FALSE
  <2>1. Placed(o) /\ JobPlaced(o) /\ None \notin Session
    BY SessionsAssumption DEF SessionsAssumption, RTyped, Memorized, Jobs
  <2>2. CASE job[o].stage = "config"
    <3>1. Kind[o] = "remove" /\ mem[o].on = None /\ at[o] # "resources" /\ at[o] # "navigating"
      BY <2>1, <2>2 DEF JobPlaced, Unadopted, Kinds, Applying
    <3> QED BY <1>4, <2>1, <3>1 DEF Placed, Owns, Called
  <2>3. CASE at[o] \in Calling /\ mem[o].then = "reload"
    BY <1>4, <2>3 DEF Owns, Calling
  <2> QED BY <1>2, <1>4, <2>2, <2>3 DEF Reserves, Working
<1>5. replacing \subseteq Session
  BY DEF RTyped, Stored
<1>6. \A s \in replacing \ replacing' : Keeps(o, s)
  BY <1>1 DEF Excludes, Keeps
<1>7. ASSUME NEW s \in Session, Keeps(o, s)'
      PROVE  IF Keeps(o, s) THEN s \in replacing => s \in replacing' ELSE s \in replacing' \ replacing
  <2>1. CASE Owns(o, s)'
    BY <1>1, <2>1 DEF Excludes, Keeps
  <2>2. CASE Reserves(o, s)'
    BY <1>1, <1>3, <1>4, <2>2 DEF Excludes, Keeps
  <2> QED BY <1>7, <2>1, <2>2 DEF Keeps
<1> QED BY <1>6, <1>7 DEF Spares

\* Where a handler takes its operation: it applies settings only in a removal, and calls only
\* for a rebuild.
Handles(o) ==
  /\ at[o] # "resources"
  /\ at'[o] \in {"job", "done", "refused", "syncing", "asking"} \/ (at'[o] = "checking" /\ Kind[o] = "remove")
  /\ mem'[o] = mem[o] \/ (mem'[o].then = "reload" /\ mem'[o].on \in Session)

\* Every step of a handler does so.
LEMMA AllHandle ==
  ASSUME NEW o \in Ops, RTyped,
         ResourceRequested(o) \/ ResourceContinues(o) \/ Pushes(o) \/ WorksInClone(o) \/ Expires(o)
  PROVE  Handles(o)
<1>1. /\ at \in [Ops -> Places] /\ mem \in [Ops -> Memory] /\ mem[o] \in Memory /\ JobPlaced(o)
      /\ job[o].left \subseteq Session
  BY DEF RTyped, Memorized, Jobs, Job
<1> USE DEF Handles, Goes, others
<1>2. CASE ResourceRequested(o) \/ Pushes(o) \/ WorksInClone(o) \/ Expires(o)
  BY <1>1, <1>2 DEF ResourceRequested, CheckArrives, UpdateArrives, RemoveArrives, Starts, TurnedAwayHere,
                    Pushes, WorksInClone, Expires, Arrives
<1>3. CASE Looks(o) \/ Fetches(o) \/ ReadsRevisions(o) \/ RefreshesLast(o) \/ AllRebuilt(o)
           \/ Deletes(o) \/ ReadsFiles(o) \/ Attached(o)
  <2>1. at[o] = "job" /\ UNCHANGED <<at, mem>>
    BY <1>3 DEF In, Looks, Fetches, ReadsRevisions, RefreshesLast, AllRebuilt, Deletes, ReadsFiles, Attached, vars
  <2> QED BY <2>1
<1>4. CASE Checked(o) \/ TakesToken(o) \/ Guards(o) \/ Merges(o) \/ Answers(o)
  <2>1. at[o] = "job" /\ UNCHANGED mem /\ (UNCHANGED at \/ Goes(o, "done"))
    BY <1>4 DEF In, Checked, TakesToken, Guards, Merges, Answers, NotUpdated, Ends, vars
  <2> QED BY <1>1, <2>1
<1>5. CASE Reloaded(o) \/ Reassessed(o) \/ ReloadSynced(o) \/ OtherRebuilt(o)
  <2>1. /\ at[o] \in Calling \cup {"job"} /\ UNCHANGED mem /\ (Goes(o, "job") \/ Goes(o, "syncing"))
    BY <1>5 DEF In, Back, Synced, Reloaded, Reassessed, AwaitsSync, ReloadSynced, OtherRebuilt, Calling
  <2> QED BY <1>1, <2>1 DEF Calling
<1>6. CASE Reloads(o) \/ RebuildsOther(o)
  <2>1. PICK stage : Reload(o, stage) /\ at[o] = "job"
    BY <1>6 DEF Reloads, RebuildsOther, In
  <2>2. PICK t \in Session : Calls(o, t, Fresh, "reload", Retained) \/ UNCHANGED <<at, mem>>
    BY <1>1, <2>1 DEF Reload
  <2> QED BY <1>1, <2>1, <2>2 DEF Calls, Memory
<1>7. CASE Unregisters(o)
  <2>1. at[o] = "job" /\ UNCHANGED mem /\ Kind[o] = "remove" /\ (Goes(o, "checking") \/ Goes(o, "done"))
    BY <1>1, <1>7 DEF In, Unregisters, Ends, JobPlaced
  <2> QED BY <1>1, <2>1
<1>8. CASE Unregistered(o) \/ Removed(o) \/ StartEnds(o)
  <2>1. at[o] \in Ended \cup {"job"} /\ UNCHANGED mem /\ (Goes(o, "job") \/ Goes(o, "done"))
    BY <1>8 DEF In, Unregistered, Removed, StartEnds, Ends
  <2> QED BY <1>1, <2>1 DEF Ended
<1> QED BY <1>2, <1>3, <1>4, <1>5, <1>6, <1>7, <1>8 DEF ResourceContinues

\* So it keeps Kinds, and brings no settings back to where none were adopted.
LEMMA HandlerKinds ==
  ASSUME NEW o \in Ops, Kinds(o), Handles(o)
  PROVE  Kinds(o)' /\ (Unadopted(o)' => Unadopted(o))
<1>1. None \notin Session
  BY SessionsAssumption DEF SessionsAssumption
<1> QED BY <1>1 DEF Kinds, Handles, Unadopted, Applying

\* What holds of the other operations still does.
LEMMA OthersSettled ==
  ASSUME NEW o \in Ops, Others(o), \A p \in Ops : Kinds(p), Kinds(o)', Unadopted(o)' => Unadopted(o)
  PROVE  (\A p \in Ops : Kinds(p)') /\ (NoneAdopted' => NoneAdopted)
<1>1. \A p \in Ops \ {o} : Kinds(p)' /\ (Unadopted(p)' => Unadopted(p))
  BY DEF Others, Kinds, Unadopted
<1> QED BY <1>1 DEF NoneAdopted

\* The hold of an operation on a session, while no settings are adopted, is a flag it keeps.
LEMMA HoldsKeeps ==
  ASSUME NEW o \in Ops, NEW s \in Session, RTyped, Unadopted(o), Holds(o, s)
  PROVE  Keeps(o, s)
<1>1. /\ mem[o] \in Memory /\ Placed(o) /\ JobPlaced(o) /\ None \notin Session
      /\ job[o].reserved \subseteq Session
  BY SessionsAssumption DEF SessionsAssumption, RTyped, Memorized, Jobs, Job
<1>2. CASE s = On[o] /\ at[o] \in {"navigating", "resources", "restoring", "next", "sibling", "inventory"}
  BY <1>2 DEF Keeps, Owns
<1>3. CASE at[o] \in Calling /\ mem[o].then # "reload"
  BY <1>1, <1>3 DEF Holds, Keeps, Owns, Placed, Memory, Own, Callers, Calling
<1>4. CASE at[o] \in Calling /\ mem[o].then = "reload"
  <2>1. job[o].stage \in {"reloading", "next", "rebuilding"} /\ mem[o].on \in job[o].reserved
    BY <1>1, <1>4 DEF JobPlaced
  <2>2. job[o].stage # "rebuilding"
    BY <1>1, <2>1 DEF JobPlaced, Unadopted, Applying
  <2>3. On[o] \in job[o].reserved
    BY <1>1, <2>1, <2>2 DEF JobPlaced
  <2> QED BY <1>4, <2>1, <2>3 DEF Holds, Keeps, Reserves, Working, Calling
<1> QED BY <1>2, <1>3, <1>4 DEF Holds

\* A session is never replaced, or moved in its tree, by two operations at once, as long as no
\* settings have been adopted: handleUpdateConfig alone sets a flag it has not looked at.
THEOREM OneAtATime == ResourcesSpec => [](NoneAdopted => OneReplacementAtATime)
<1>1. RTyped /\ InitResources => Settled
  <2> SUFFICES ASSUME RTyped, InitResources PROVE Settled
    OBVIOUS
  <2>1. \A o \in Ops : at[o] \in {"new", "refused"} /\ mem[o].then = "replace" /\ job[o].stage = "none"
    BY DEF InitResources, Init, Blank, Idle
  <2>2. \A o \in Ops : Kinds(o)
    BY <2>1 DEF Kinds
  <2>3. \A o \in Ops : \A s : ~Keeps(o, s)
    BY <2>1 DEF Keeps, Owns, Reserves, Working, Calling
  <2> QED BY <2>2, <2>3 DEF Settled, Exclusive
<1>2. RTyped /\ Settled /\ [ResourcesNext]_allvars => Settled'
  <2> SUFFICES ASSUME RTyped, Settled, [ResourcesNext]_allvars PROVE Settled'
    OBVIOUS
  <2>1. CASE Background
    BY <2>1 DEF Background, Settled, NoneAdopted, Unadopted, Exclusive, Kinds, Keeps, Owns, Reserves, Working
  <2>2. ASSUME NEW o \in Ops, Steps(o), UNCHANGED job PROVE Settled'
    <3>1. Hands(o) /\ Others(o) /\ Kinds(o)' /\ (Unadopted(o)' => Unadopted(o))
      BY <2>2, StepHands, StepKinds, StepAdopts DEF RTyped, Settled
    <3>2. (\A p \in Ops : Kinds(p)') /\ (NoneAdopted' => NoneAdopted)
      BY <3>1, OthersSettled DEF Settled
    <3>3. ASSUME NoneAdopted' PROVE Exclusive'
      <4>1. Spares(o)
        BY <2>2, <3>2, <3>3, StepSpares DEF Settled, NoneAdopted
      <4> QED BY <3>1, <3>2, <3>3, <4>1, ExclusiveStays DEF Settled
    <3> QED BY <3>2, <3>3 DEF Settled
  <2>3. ASSUME NEW o \in Ops,
               ResourceRequested(o) \/ ResourceContinues(o) \/ Pushes(o) \/ WorksInClone(o) \/ Expires(o)
        PROVE  Settled'
    <3>1. Hands(o) /\ Spares(o) /\ Others(o) /\ Kinds(o)' /\ (Unadopted(o)' => Unadopted(o))
      BY <2>3, AllHand, AllHandle, HandlerKinds DEF Settled
    <3>2. (\A p \in Ops : Kinds(p)') /\ (NoneAdopted' => NoneAdopted)
      BY <3>1, OthersSettled DEF Settled
    <3> QED BY <3>1, <3>2, ExclusiveStays DEF Settled
  <2> QED BY <2>1, <2>2, <2>3, NextSteps
<1>3. RTyped /\ Settled => (NoneAdopted => OneReplacementAtATime)
  <2> SUFFICES ASSUME RTyped, NoneAdopted, Exclusive, NEW s \in Session
               PROVE  Cardinality({o \in Ops : Holds(o, s)}) <= 1
    BY DEF Settled, OneReplacementAtATime
  <2>1. \A o, p \in Ops : Holds(o, s) /\ Holds(p, s) => o = p
    BY HoldsKeeps DEF NoneAdopted, Exclusive
  <2>2. CASE {o \in Ops : Holds(o, s)} = {}
    BY <2>2, FS_EmptySet
  <2>3. CASE {o \in Ops : Holds(o, s)} # {}
    <3>1. PICK o \in Ops : {p \in Ops : Holds(p, s)} = {o}
      BY <2>1, <2>3
    <3> QED BY <3>1, FS_Singleton
  <2> QED BY <2>2, <2>3
<1> QED BY <1>1, <1>2, <1>3, RInitTyped, RNextTyped, PTL DEF ResourcesSpec

-----------------------------------------------------------------------------
(* Who writes to a conversation                                            *)

\* What a handler here does to the conversations: its operation is no switch, and what it calls
\* for is a new session.
Renews(o) ==
  /\ Kind[o] # "switch"
  /\ \/ mem'[o] = mem[o] /\ at'[o] \notin {"asking", "sibling"} /\ (at'[o] \in Calling => mem[o].then = "reload")
     \/ /\ at'[o] = "asking" /\ mem'[o].to = Fresh /\ mem'[o].then = "reload"
        /\ mem'[o].back = mem[o].back /\ mem'[o].left = mem[o].left
  /\ \A p \in Ops \ {o} : at'[p] = at[p] /\ mem'[p] = mem[p]
  /\ \/ UNCHANGED <<live, used>>
     \/ \E c \in NextFile : live' = [live EXCEPT ![On[o]] = c] /\ used' = Taken(c)

\* Every step of a handler does so.
LEMMA AllRenew ==
  ASSUME NEW o \in Ops, RTyped, Root(o),
         ResourceRequested(o) \/ ResourceContinues(o) \/ Pushes(o) \/ WorksInClone(o) \/ Expires(o)
  PROVE  Renews(o)
<1>1. /\ at \in [Ops -> Places] /\ mem \in [Ops -> Memory] /\ mem[o] \in Memory /\ JobPlaced(o)
      /\ job[o].left \subseteq Session
  BY DEF RTyped, Memorized, Jobs, Job
<1>2. at[o] = "job" \/ (at[o] \in Calling /\ mem[o].then = "reload") => Kind[o] # "switch"
  BY <1>1 DEF Root, Calling, Ended
<1> USE DEF Renews, Goes, Calling, others, conversations
<1>3. CASE ResourceRequested(o) \/ Pushes(o) \/ WorksInClone(o) \/ Expires(o)
  <2>1. \E place \in {"job", "refused", "done"} : Goes(o, place)
    BY <1>3 DEF ResourceRequested, CheckArrives, UpdateArrives, RemoveArrives, Starts, TurnedAwayHere,
                Pushes, WorksInClone, Expires
  <2>2. Kind[o] # "switch" /\ UNCHANGED <<mem, live, used>>
    BY <1>3 DEF ResourceRequested, CheckArrives, UpdateArrives, RemoveArrives, Starts, TurnedAwayHere,
                Pushes, WorksInClone, Expires, Arrives
  <2> QED BY <1>1, <2>1, <2>2
<1>4. CASE Looks(o) \/ Fetches(o) \/ ReadsRevisions(o) \/ RefreshesLast(o) \/ AllRebuilt(o)
           \/ Deletes(o) \/ ReadsFiles(o)
  <2>1. at[o] = "job" /\ UNCHANGED <<at, mem, live, used>>
    BY <1>4 DEF In, Looks, Fetches, ReadsRevisions, RefreshesLast, AllRebuilt, Deletes, ReadsFiles, vars
  <2> QED BY <1>2, <2>1
<1>5. CASE Attached(o)
  <2>1. at[o] = "job" /\ UNCHANGED <<at, mem>>
    BY <1>5 DEF In, Attached
  <2>2. \E c \in NextFile : live' = [live EXCEPT ![On[o]] = c] /\ used' = Taken(c)
    BY <1>5 DEF Attached
  <2> QED BY <1>2, <2>1, <2>2
<1>6. CASE Checked(o) \/ TakesToken(o) \/ Guards(o) \/ Merges(o) \/ Answers(o)
  <2>1. at[o] = "job" /\ UNCHANGED <<mem, live, used>> /\ (UNCHANGED at \/ Goes(o, "done"))
    BY <1>6 DEF In, Checked, TakesToken, Guards, Merges, Answers, NotUpdated, Ends, vars
  <2> QED BY <1>1, <1>2, <2>1
<1>7. CASE Reloaded(o) \/ Reassessed(o) \/ ReloadSynced(o) \/ OtherRebuilt(o)
  <2>1. /\ at[o] = "job" \/ (at[o] \in Calling /\ mem[o].then = "reload")
        /\ UNCHANGED <<mem, live, used>>
    BY <1>7 DEF In, Back, Synced, Reloaded, Reassessed, AwaitsSync, ReloadSynced, OtherRebuilt
  <2>2. Goes(o, "job") \/ (Goes(o, "syncing") /\ mem[o].then = "reload")
    BY <1>1, <1>7 DEF In, Back, Reloaded, Reassessed, AwaitsSync, ReloadSynced, OtherRebuilt, JobPlaced
  <2> QED BY <1>1, <1>2, <2>1, <2>2
<1>8. CASE Reloads(o) \/ RebuildsOther(o)
  <2>1. PICK stage : Reload(o, stage) /\ at[o] = "job"
    BY <1>8 DEF Reloads, RebuildsOther, In
  <2>2. PICK t \in Session : Calls(o, t, Fresh, "reload", Retained) \/ UNCHANGED <<at, mem>>
    BY <1>1, <2>1 DEF Reload
  <2>3. UNCHANGED <<live, used>>
    BY <2>1 DEF Reload
  <2> QED BY <1>1, <1>2, <2>1, <2>2, <2>3 DEF Calls, Memory
<1>9. CASE Unregisters(o)
  <2>1. at[o] = "job" /\ UNCHANGED <<mem, live, used>> /\ (Goes(o, "checking") \/ Goes(o, "done"))
    BY <1>9 DEF In, Unregisters, Ends
  <2> QED BY <1>1, <1>2, <2>1
<1>10. CASE Unregistered(o) \/ Removed(o) \/ StartEnds(o)
  <2>1. UNCHANGED <<mem, live, used>> /\ (Goes(o, "job") \/ Goes(o, "done"))
    BY <1>10 DEF Unregistered, Removed, StartEnds, Ends
  <2>2. Kind[o] # "switch"
    BY <1>1, <1>10 DEF Unregistered, Removed, StartEnds, JobPlaced
  <2> QED BY <1>1, <2>1, <2>2
<1> QED BY <1>3, <1>4, <1>5, <1>6, <1>7, <1>8, <1>9, <1>10 DEF ResourceContinues

\* So it keeps conversations single, as the steps of Sessions do.
LEMMA RenewsSingle ==
  ASSUME NEW o \in Ops, RTyped, \A p \in Ops : Root(p), Single, Renews(o)
  PROVE  Single' /\ \A p \in Ops : Root(p)'
<1>1. /\ On[o] \in Session /\ Fresh \notin Conversation /\ live \in [Session -> Conversation]
      /\ Stored
  BY SessionsAssumption DEF SessionsAssumption, RTyped, Stored
<1>2. Apart(o)
  BY DEF Apart, Renews
<1>3. Recalls(o)
  BY DEF Recalls, Renews, Went, Taken
<1>4. Root(o)'
  BY <1>1 DEF Root, Renews, Calling
<1>5. Comes(o, On[o])
  <2> SUFFICES ASSUME NEW s \in Session, NEW c \in Conversation, ClaimsBy(o, s, c)'
               PROVE  ClaimsBy(o, s, c) \/ (s = On[o] /\ c \notin used)
    BY DEF Comes
  <2>1. live'[s] = c
    BY <1>1 DEF ClaimsBy, Heads, Returns, Renews
  <2> QED BY <1>1, <2>1 DEF ClaimsBy, Renews, NextFile
<1> QED BY <1>1, <1>2, <1>3, <1>4, <1>5, SingleStays, RootsApart

\* Two sessions of a project come to write to one conversation only by switches that found it
\* free, the second of which may be the return of a session that was being rebuilt: no new
\* session, fork, deletion, recovery, restart, start, update or removal has them share one.
THEOREM OneWriter == ResourcesSpec => []OneWriterPerConversation
<1> DEFINE Inv == (\A o \in Ops : Kinds(o) /\ Root(o)) /\ Single
<1>1. InitResources => Inv
  <2> SUFFICES ASSUME InitResources PROVE Inv
    OBVIOUS
  <2>1. \A o \in Ops : at[o] \in {"new", "refused"} /\ mem[o].then = "replace"
    BY DEF InitResources, Init, Blank
  <2>2. \A o \in Ops : Kinds(o)
    BY <2>1 DEF Kinds
  <2> QED BY <2>2, InitSingle DEF InitResources
<1>2. RTyped /\ Inv /\ [ResourcesNext]_allvars => Inv'
  <2> SUFFICES ASSUME RTyped, Inv, [ResourcesNext]_allvars PROVE Inv'
    OBVIOUS
  <2>1. CASE Background
    <3>1. \A o \in Ops : Kinds(o)' /\ Root(o)'
      BY <2>1 DEF Background, Kinds, Root
    <3>2. Single'
      BY <2>1 DEF Background, Single, Claims, ClaimsBy, Heads, Returns, Shared, Went, Resettled
    <3> QED BY <3>1, <3>2
  <2>2. ASSUME NEW o \in Ops, Steps(o) PROVE Inv'
    <3>1. Kinds(o)' /\ \A p \in Ops \ {o} : Kinds(p)'
      BY <2>2, StepKinds, StepAlone DEF RTyped, Kinds
    <3>2. Single' /\ \A p \in Ops : Root(p)'
      BY <2>2, StepSingle DEF RTyped
    <3> QED BY <3>1, <3>2
  <2>3. ASSUME NEW o \in Ops,
               ResourceRequested(o) \/ ResourceContinues(o) \/ Pushes(o) \/ WorksInClone(o) \/ Expires(o)
        PROVE  Inv'
    <3>1. Renews(o) /\ Kinds(o)'
      BY <2>3, AllRenew, AllHandle, HandlerKinds
    <3>2. \A p \in Ops \ {o} : Kinds(p)'
      BY <3>1 DEF Renews, Kinds
    <3>3. Single' /\ \A p \in Ops : Root(p)'
      BY <3>1, RenewsSingle
    <3> QED BY <3>1, <3>2, <3>3
  <2> QED BY <2>1, <2>2, <2>3, NextSteps
<1>3. RTyped /\ Inv => OneWriterPerConversation
  BY SingleIsOneWriter DEF RTyped
<1> HIDE DEF Inv
<1> QED BY <1>1, <1>2, <1>3, RInitTyped, RNextTyped, PTL DEF ResourcesSpec
=============================================================================
