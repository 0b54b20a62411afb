----------------------------- MODULE RpcRuntime -----------------------------
(***************************************************************************)
(* The conversation of an agent that runs as a child process, as the       *)
(* server mirrors it: server/src/rpcRuntime.ts.                            *)
(*                                                                         *)
(* The child's standard output carries the answers to commands and the     *)
(* records of what happens, in one order.  An answer goes to whoever waits *)
(* for it as soon as it is read; records are handled one at a time, and    *)
(* one that ends a turn asks the child for its history, over several round *)
(* trips, before the next is handled.  PiRpcProcess models the transport   *)
(* and its failures.                                                       *)
(*                                                                         *)
(* The child is external: pi, whose turn ends with agent_settled, or an    *)
(* agent of a compatible dialect, whose agent_end closes every attempt.    *)
(***************************************************************************)
EXTENDS Naturals, Sequences, SequencesExt

CONSTANTS Prompt,  \* the prompts of the browsers
          Pools,   \* what else a behaviour may have, each at most once
          None     \* no prompt

Extras == {"new", "abort", "custom", "compact", "retry", "fault"}
ASSUME RpcAssumption == Pools \subseteq SUBSET Extras /\ None \notin Prompt

VARIABLES
  completionEvent, \* the record that ends a turn: "agent_settled" or "agent_end"
  streaming,       \* the turn state reported to the rest of the server
  messages,        \* the mirror of the history
  records,         \* the queue: records, and the refresh of a new session
  work,            \* what the one being handled waits for
  failed,          \* the runtime is given up on
  told,            \* whether the browsers were last told that the agent runs
  misled,          \* history: since a turn was last completed, a prompt that no turn runs for was
                   \* accepted by an answer that did not say so
  pc,              \* per prompt: "new", "sent", "accepted" or "refused"
  newSession,      \* the replacement: "no", "sent", "rebooting" or "over"
  toChild,         \* commands on their way
  fromChild,       \* answers and records on their way
  history,         \* the child's messages
  turn,            \* where the child's turn is
  prompts,         \* the prompts the turn is to answer, the present one first
  suspended,       \* an abort made the child refuse prompts, but for those that say how to queue
  abandoned,       \* history: the prompts of the session that was replaced
  left             \* what else may still happen

server == <<completionEvent, streaming, messages, records, work, failed, told, misled, pc, newSession>>
child == <<history, turn, prompts, suspended, abandoned>>
vars == <<server, toChild, fromChild, child, left>>

-----------------------------------------------------------------------------
(* Messages, commands, answers and records                                 *)

Said(p, role) == [of |-> p, role |-> role]
Partial == Said(None, "partial")
Message == [of : Prompt \cup {None}, role : {"user", "assistant", "custom", "partial"}]

Command(c, p, steer) == [command |-> c, of |-> p, steer |-> steer]
Ask(c) == Command(c, None, FALSE)
Answer(c, p, says, data) == [kind |-> "answer", to |-> c, of |-> p, says |-> says, data |-> data]
Record(kind) == [kind |-> kind, message |-> Partial]
Ended(message) == [kind |-> "message_end", message |-> message]

TypeOK ==
  /\ completionEvent \in {"agent_settled", "agent_end"}
  /\ streaming \in BOOLEAN /\ failed \in BOOLEAN /\ told \in BOOLEAN
  /\ misled \in BOOLEAN /\ suspended \in BOOLEAN
  /\ messages \in Seq(Message) /\ history \in Seq(Message)
  /\ work \in [task : {"none", "turn", "compaction", "session"}, waits : {"none", "state", "messages", "rest"}]
  /\ pc \in [Prompt -> {"new", "sent", "accepted", "refused"}]
  /\ newSession \in {"no", "sent", "rebooting", "over"}
  /\ turn \in {"idle", "begun", "asking", "replying", "waiting"}
  /\ prompts \in Seq(Prompt) /\ abandoned \subseteq Prompt
  /\ turn \in {"asking", "replying", "waiting"} => prompts # <<>>
  /\ left \subseteq Extras
  /\ Cardinality({i \in DOMAIN messages : messages[i] = Partial}) <= 1

Init ==
  /\ completionEvent \in {"agent_settled", "agent_end"}
  /\ streaming = FALSE /\ messages = <<>> /\ records = <<>>
  /\ work = [task |-> "none", waits |-> "none"]
  /\ failed = FALSE /\ told = FALSE /\ misled = FALSE /\ suspended = FALSE
  /\ pc = [p \in Prompt |-> "new"] /\ newSession = "no"
  /\ toChild = <<>> /\ fromChild = <<>>
  /\ history = <<>> /\ turn = "idle" /\ prompts = <<>> /\ abandoned = {}
  /\ left \in Pools

-----------------------------------------------------------------------------
(* The child                                                               *)

Emits(lines) == fromChild' = fromChild \o lines
\* What ends a turn, in the order of its records.
Ending == IF completionEvent = "agent_settled"
          THEN <<Record("agent_end"), Record("agent_settled")>> ELSE <<Record("agent_end")>>

\* The child takes the next command.  Some dialects report no disposition: an answer may be
\* "unsaid", a turn runs for the prompt, or "silent", an extension's command handled it; the two
\* look alike.
Refuses(c, why) == Emits(<<Answer("prompt", c.of, why, <<>>)>>) /\ UNCHANGED <<turn, prompts, suspended>>
ReadsPrompt(c) ==
  /\ c.command = "prompt"
  /\ \/ /\ turn # "idle" /\ c.steer /\ prompts' = Append(prompts, c.of)
        /\ \E says \in {"queued", "unsaid"} : Emits(<<Answer("prompt", c.of, says, <<>>)>>)
        /\ UNCHANGED <<turn, suspended>>
     \/ turn # "idle" /\ ~c.steer /\ Refuses(c, "refused")
     \/ turn = "idle" /\ suspended /\ ~c.steer /\ Refuses(c, "suspended")
     \/ /\ turn = "idle" /\ (suspended => c.steer)
        /\ turn' = "begun" /\ prompts' = <<c.of>> \o prompts /\ suspended' = FALSE
        /\ \E says \in {"started", "unsaid"} : Emits(<<Answer("prompt", c.of, says, <<>>)>>)
     \/ \* An extension's command: no turn runs.
        /\ turn = "idle" /\ (suspended => c.steer) /\ suspended' = FALSE
        /\ \E says \in {"handled", "silent"} : Emits(<<Answer("prompt", c.of, says, <<>>)>>)
        /\ UNCHANGED <<turn, prompts>>
  /\ UNCHANGED <<history, abandoned, left>>
ReadsQuestion(c) ==
  /\ \/ c.command = "messages" /\ Emits(<<Answer("messages", None, "ok", history)>>) /\ UNCHANGED left
     \/ /\ c.command = "state"
        /\ Emits(<<Answer("state", None, IF turn = "idle" THEN "idle" ELSE "streaming", <<>>)>>)
        /\ UNCHANGED left
     \/ c.command = "rest" /\ Emits(<<Answer("rest", None, "ok", <<>>)>>) /\ UNCHANGED left
     \/ /\ c.command = "rest" /\ "fault" \in left /\ left' = left \ {"fault"}
        /\ Emits(<<Answer("rest", None, "failed", <<>>)>>)
  /\ UNCHANGED child
\* A wait for a retry that is cut short has no agent_end of its own.
Stopped == IF turn # "waiting" THEN Ending
           ELSE <<Record("auto_retry_failed")>> \o
                (IF completionEvent = "agent_settled" THEN <<Record("agent_settled")>> ELSE <<>>)
\* A new session: the turn is abandoned, its last records before the answer.
ReadsNew(c) ==
  /\ c.command = "new"
  /\ \/ Emits(<<Answer("new", None, "cancelled", <<>>)>>) /\ UNCHANGED child
     \/ /\ Emits((IF turn = "idle" THEN <<>> ELSE Stopped) \o <<Answer("new", None, "ok", <<>>)>>)
        /\ history' = <<>> /\ turn' = "idle" /\ prompts' = <<>> /\ suspended' = FALSE
        /\ abandoned' = {m.of : m \in {n \in ToSet(history) : n.of # None}} \cup ToSet(prompts)
  /\ UNCHANGED left
\* In one dialect of "agent_end" an abort may suspend what is queued (rpcRuntime.ts:704).
ReadsAbort(c) ==
  /\ c.command = "abort"
  /\ IF turn = "idle" THEN UNCHANGED <<turn, prompts, suspended, fromChild>>
     ELSE /\ Emits(Stopped) /\ turn' = "idle" /\ prompts' = Tail(prompts)
          /\ suspended' \in IF completionEvent = "agent_end" THEN BOOLEAN ELSE {suspended}
  /\ UNCHANGED <<history, abandoned, left>>
ChildReads ==
  /\ toChild # <<>> /\ toChild' = Tail(toChild)
  /\ LET c == Head(toChild) IN ReadsPrompt(c) \/ ReadsQuestion(c) \/ ReadsNew(c) \/ ReadsAbort(c)
  /\ UNCHANGED server

\* The turn: the prompt, the reply, then the next prompt or the end.
Receives == Said(Head(prompts), "user")
TurnStarts ==
  /\ turn = "begun" /\ turn' = "asking"
  /\ history' = Append(history, Receives)
  /\ Emits(<<Record("agent_start"), Ended(Receives)>>)
  /\ UNCHANGED <<prompts, left>>
ReplyStarts ==
  /\ turn = "asking" /\ turn' = "replying"
  /\ Emits(<<Record("message_start")>>)
  /\ UNCHANGED <<history, prompts, left>>
ReplyEnds ==
  LET reply == Said(Head(prompts), "assistant") IN
  /\ turn = "replying" /\ prompts' = Tail(prompts)
  /\ IF Len(prompts) = 1
     THEN /\ turn' = "idle" /\ history' = Append(history, reply)
          /\ Emits(<<Ended(reply)>> \o Ending)
     ELSE LET next == Said(prompts[2], "user") IN
          /\ turn' = "asking" /\ history' = history \o <<reply, next>>
          /\ Emits(<<Ended(reply), Ended(next)>>)
  /\ UNCHANGED left
\* The model fails: the attempt ends, and after a wait there is another.
AttemptFails ==
  /\ turn = "asking" /\ "retry" \in left /\ left' = left \ {"retry"}
  /\ turn' = "waiting"
  /\ Emits(<<Record("agent_end"), Record("auto_retry_start")>>)
  /\ UNCHANGED <<history, prompts>>
Retries ==
  /\ turn = "waiting" /\ turn' = "asking"
  /\ Emits(<<Record("agent_start")>>)
  /\ UNCHANGED <<history, prompts, left>>
\* An extension puts a message of its own into the conversation.
CustomMessage ==
  LET custom == Said(None, "custom") IN
  /\ "custom" \in left /\ left' = left \ {"custom"}
  /\ history' = Append(history, custom) /\ Emits(<<Ended(custom)>>)
  /\ UNCHANGED <<turn, prompts>>
\* The child summarises its history.
Compacts ==
  /\ "compact" \in left /\ left' = left \ {"compact"} /\ turn \in {"idle", "asking"}
  /\ history' = <<Said(None, "custom")>> /\ Emits(<<Record("compaction_end")>>)
  /\ UNCHANGED <<turn, prompts>>
ChildWorks ==
  /\ TurnStarts \/ ReplyStarts \/ ReplyEnds \/ AttemptFails \/ Retries \/ CustomMessage \/ Compacts
  /\ UNCHANGED <<server, toChild, suspended, abandoned>>

-----------------------------------------------------------------------------
(* Commands of the server                                                  *)

Sends(c) == toChild' = Append(toChild, c)

\* A prompt goes once the one before it was answered, as a steer if a turn is known of;
\* that no session change is under way was looked at earlier, and may have changed since.
SendPrompt(p) ==
  /\ pc[p] = "new"
  /\ \A q \in Prompt : pc[q] # "sent"
  /\ IF failed THEN pc' = [pc EXCEPT ![p] = "refused"] /\ UNCHANGED toChild
     ELSE pc' = [pc EXCEPT ![p] = "sent"] /\ Sends(Command("prompt", p, streaming))
  /\ UNCHANGED <<completionEvent, streaming, messages, records, work, failed, told, misled, newSession,
                 fromChild, child, left>>
AskNewSession ==
  /\ "new" \in left /\ left' = left \ {"new"} /\ ~failed
  /\ newSession' = "sent" /\ Sends(Ask("new"))
  /\ UNCHANGED <<completionEvent, streaming, messages, records, work, failed, told, misled, pc, fromChild, child>>
Abort ==
  /\ "abort" \in left /\ left' = left \ {"abort"} /\ ~failed
  /\ Sends(Ask("abort"))
  /\ UNCHANGED <<server, fromChild, child>>

-----------------------------------------------------------------------------
(* What is read from the child                                             *)

\* Mutant: whatever is not refused runs.
X_Accepted(a) ==
  /\ a.to = "prompt" /\ a.says # "suspended"
  /\ pc' = [pc EXCEPT ![a.of] = IF a.says = "refused" THEN "refused" ELSE "accepted"]
  /\ streaming' = (streaming \/ a.says # "refused") /\ misled' = (misled \/ a.says = "silent")
  /\ UNCHANGED <<messages, records, work, failed, told, newSession, toChild>>
\* An accepted prompt has the agent run, unless the answer says that an extension handled it.
Accepted(a) ==
  /\ a.to = "prompt" /\ a.says # "suspended"
  /\ pc' = [pc EXCEPT ![a.of] = IF a.says = "refused" THEN "refused" ELSE "accepted"]
  /\ streaming' = (streaming \/ a.says \notin {"refused", "handled"})
  /\ misled' = (misled \/ a.says = "silent")
  /\ UNCHANGED <<messages, records, work, failed, told, newSession, toChild>>
\* Refused because an abort suspended the queue: sent again, and says how to queue it.
Resent(a) ==
  /\ a.to = "prompt" /\ a.says = "suspended"
  /\ IF failed THEN pc' = [pc EXCEPT ![a.of] = "refused"] /\ UNCHANGED toChild
     ELSE Sends(Command("prompt", a.of, TRUE)) /\ UNCHANGED pc
  /\ UNCHANGED <<streaming, messages, records, work, failed, told, misled, newSession>>
X_SessionAnswered(a) ==
  /\ a.to = "new" /\ newSession' = "over"
  /\ UNCHANGED <<streaming, messages, records, work, failed, told, misled, pc, toChild>>
X_RebootsAtOnce(a) ==
  /\ a.to = "new" /\ newSession' = "rebooting"
  /\ work' = [task |-> "session", waits |-> "state"] /\ toChild' = Append(toChild, Ask("state"))
  /\ UNCHANGED <<streaming, messages, records, failed, told, misled, pc>>
\* The refresh of the new session takes its place in the queue.
SessionAnswered(a) ==
  /\ a.to = "new"
  /\ IF a.says = "cancelled" THEN newSession' = "over" /\ UNCHANGED records
     ELSE newSession' = "rebooting" /\ records' = Append(records, Record("rebootstrap"))
  /\ UNCHANGED <<streaming, messages, work, failed, told, misled, pc, toChild>>

\* refreshConversation: the messages, then the tree, the entries and the statistics.
Asks(task, c) == work' = [task |-> task, waits |-> c] /\ Sends(Ask(c))
StateAnswered(a) ==
  /\ a.to = "state"
  /\ streaming' = (a.says = "streaming")
  /\ Asks(work.task, "messages")
  /\ UNCHANGED <<messages, records, failed, told, misled, pc, newSession>>
MessagesAnswered(a) ==
  /\ a.to = "messages"
  /\ messages' = a.data
  /\ Asks(work.task, "rest")
  /\ UNCHANGED <<streaming, records, failed, told, misled, pc, newSession>>
\* A turn is over for the browsers even if the refresh failed; a session is announced only
\* if it did not.
Done == [task |-> "none", waits |-> "none"]
RestAnswered(a) ==
  /\ a.to = "rest"
  /\ work' = Done
  /\ failed' = (failed \/ a.says = "failed")
  /\ told' = CASE work.task = "turn" -> FALSE
               [] work.task = "session" /\ a.says = "ok" -> streaming
               [] OTHER -> told
  /\ newSession' = IF work.task = "session" THEN "over" ELSE newSession
  /\ UNCHANGED <<streaming, messages, records, misled, pc, toChild>>

ReadLine ==
  /\ fromChild # <<>> /\ fromChild' = Tail(fromChild)
  /\ LET line == Head(fromChild) IN
       IF line.kind = "answer"
       THEN \/ Accepted(line) \/ Resent(line) \/ SessionAnswered(line)
            \/ StateAnswered(line) \/ MessagesAnswered(line) \/ RestAnswered(line)
       ELSE /\ records' = Append(records, line)
            /\ UNCHANGED <<streaming, messages, work, failed, told, misled, pc, newSession, toChild>>
  /\ UNCHANGED <<completionEvent, child, left>>

-----------------------------------------------------------------------------
(* The queue of records                                                    *)

CompleteTurn == streaming' = FALSE /\ misled' = FALSE /\ Asks("turn", "messages") /\ UNCHANGED <<messages, told>>
Runs == streaming' = TRUE /\ told' = TRUE /\ UNCHANGED <<misled, messages, work, toChild>>
Ignored == UNCHANGED <<streaming, told, misled, messages, work, toChild>>

\* The message being assembled is the last of the mirror's; its end puts the final one there.
MessageStart ==
  /\ messages' = Append(messages, Partial)
  /\ UNCHANGED <<streaming, told, misled, work, toChild>>
MessageEnd(m) ==
  /\ messages' = IF m.role = "assistant" /\ Contains(messages, Partial)
                 THEN [messages EXCEPT ![CHOOSE i \in DOMAIN messages : messages[i] = Partial] = m]
                 ELSE Append(messages, m)
  /\ UNCHANGED <<streaming, told, misled, work, toChild>>

Handles(r) ==
  CASE r.kind = "agent_start" -> Runs
    [] r.kind \in {"agent_end", "agent_settled"} -> IF r.kind = completionEvent THEN CompleteTurn ELSE Ignored
    [] r.kind = "message_start" -> MessageStart
    [] r.kind = "message_end" -> MessageEnd(r.message)
    [] r.kind = "auto_retry_start" -> IF streaming THEN Ignored ELSE Runs
    [] r.kind = "auto_retry_failed" ->
         IF streaming /\ completionEvent = "agent_end" THEN CompleteTurn ELSE Ignored
    [] r.kind = "compaction_end" ->
         Asks("compaction", "messages") /\ UNCHANGED <<streaming, told, misled, messages>>
    [] r.kind = "rebootstrap" -> Asks("session", "state") /\ UNCHANGED <<streaming, told, misled, messages>>
HandleRecord ==
  /\ work = Done /\ records # <<>>
  /\ records' = Tail(records)
  /\ Handles(Head(records))
  /\ UNCHANGED <<completionEvent, failed, pc, newSession, fromChild, child, left>>

-----------------------------------------------------------------------------

AtRest ==
  /\ turn = "idle" /\ toChild = <<>> /\ fromChild = <<>> /\ records = <<>> /\ work = Done
Terminating == AtRest /\ (failed \/ \A p \in Prompt : pc[p] # "new") /\ UNCHANGED vars

Next ==
  \/ ChildReads \/ ChildWorks \/ ReadLine \/ HandleRecord
  \/ AskNewSession \/ Abort
  \/ \E p \in Prompt : SendPrompt(p)
  \/ Terminating

Spec == Init /\ [][Next]_vars
-----------------------------------------------------------------------------
(* Properties                                                              *)

Written(m) == m.role \in {"user", "assistant"}
Keeps(kept, m) == IF Written(m) THEN Append(kept, m) ELSE kept
WrittenIn(seq) == FoldLeft(Keeps, <<>>, seq)
\* Once nothing is on its way, the mirror holds the child's messages: every prompt and
\* reply once and in order, and no message an extension did not write (rpcRuntime.ts:265,
\* 578), whatever refreshes, aborts, retries and new sessions came between.
MirrorAtRest ==
  AtRest /\ ~failed =>
    /\ WrittenIn(messages) = WrittenIn(history)
    /\ ToSet(messages) = ToSet(history)

\* Once nothing is on its way, no browser is left with an agent that runs and no prompt is
\* sent as a steer to a turn that is over, in either dialect (rpcRuntime.ts:462, 502, 729);
\* unless, since a turn was last completed, an extension's command was accepted by an answer
\* without a disposition, after which the runtime takes a turn to run (rpcRuntime.ts:732).
IdleAtRest == AtRest => misled \/ (~told /\ ~streaming)

\* A new session is announced with nothing of the conversation it replaced
\* (rpcRuntime.ts:322-332).
AnnouncedIsTheNew ==
  [][newSession = "rebooting" /\ newSession' = "over" /\ ~failed' =>
        \A m \in ToSet(messages') : m.of \notin abandoned]_vars

=============================================================================
