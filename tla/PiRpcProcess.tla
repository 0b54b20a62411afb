---------------------------- MODULE PiRpcProcess ----------------------------
(***************************************************************************)
(* The agent as a child process: server/src/piRpcProcess.ts, with the      *)
(* questions of extensions as server/src/rpcRuntime.ts keeps them, because *)
(* they suspend the time-outs of the commands.                             *)
(*                                                                         *)
(* A command is written to the child's stdin through one chain of writes,  *)
(* kept in `pending' until its answer, its time-out or the failure of the  *)
(* process settles it.  Any trouble fails the process for good and stops   *)
(* the child.  A time-out is a timer that may fire whenever it is armed.   *)
(***************************************************************************)
EXTENDS Naturals, Sequences

CONSTANTS Command,   \* the commands the server sends
          TypeOf,    \* the type of each: "prompt" or another
          Dialog,    \* the questions the child may ask
          OwnerOf,   \* the prompt each question is asked for
          NoCommand, \* what a line that answers no command carries; cancellations
          MaxUnread  \* bound: lines of the child that wait to be read

ASSUME CommandAssumption ==
  /\ NoCommand \notin Command \cup Dialog
  /\ Command \cap Dialog = {}
  /\ MaxUnread \in Nat
  /\ OwnerOf \in [Dialog -> {c \in Command : TypeOf[c] = "prompt"}]

VARIABLES
  stage,       \* per command: "new", "writing", "sent", or "threw" to its caller
  result,      \* per command: the promise its answer or its failure settles
  answeredBy,  \* per command: the command whose answer it was given
  pending,     \* commands kept for their answer
  armed,       \* those of them whose timer runs
  writeChain,  \* records to be written, in order
  writing,     \* whether the first of them is with the operating system
  failed,      \* the process is given up on
  stop,        \* runStop: "no", "asked" (SIGTERM), "killed" (SIGKILL), "done"
  exitSeen,    \* the child's exit has been reported
  records,     \* rpcRuntime's queue of records: questions not handled yet
  openDialogs, \* questions put to the browsers and not answered
  alive,       \* the child runs
  received,    \* commands the child has in hand
  asked,       \* questions the child has asked
  fromChild    \* lines of the child that are not read yet

server == <<stage, result, answeredBy, pending, armed, writeChain, writing, failed, stop>>
dialogs == <<records, openDialogs>>
child == <<received, asked, fromChild>>
vars == <<server, dialogs, child, exitSeen, alive>>

Line == [kind : {"response", "ask", "junk"},
         of : Command \cup Dialog \cup {NoCommand},
         withId : BOOLEAN]

TypeOK ==
  /\ stage \in [Command -> {"new", "writing", "sent", "threw"}]
  /\ result \in [Command -> {"none", "answered", "rejected"}]
  /\ answeredBy \in [Command -> Command \cup {NoCommand}]
  /\ pending \subseteq Command /\ armed \subseteq pending
  /\ writeChain \in Seq(Command \cup Dialog \cup {NoCommand})
  /\ writing \in BOOLEAN /\ failed \in BOOLEAN
  /\ stop \in {"no", "asked", "killed", "done"}
  /\ exitSeen \in BOOLEAN /\ alive \in BOOLEAN
  /\ records \in Seq(Dialog) /\ openDialogs \subseteq Dialog
  /\ received \subseteq Command /\ asked \subseteq Dialog
  /\ fromChild \in Seq(Line)

Init ==
  /\ stage = [c \in Command |-> "new"]
  /\ result = [c \in Command |-> "none"]
  /\ answeredBy = [c \in Command |-> NoCommand]
  /\ pending = {} /\ armed = {}
  /\ writeChain = <<>> /\ writing = FALSE
  /\ failed = FALSE /\ stop = "no"
  /\ exitSeen = FALSE /\ alive = TRUE
  /\ records = <<>> /\ openDialogs = {}
  /\ received = {} /\ asked = {} /\ fromChild = <<>>

-----------------------------------------------------------------------------
(* The end: failing closed, and stopping the child.                        *)

X_Stopping(seen) == IF stop # "no" THEN stop ELSE "done"

(* What runStop makes of `stop', given whether the exit has been reported. *)
Stopping(seen) == IF stop # "no" THEN stop ELSE IF seen THEN "done" ELSE "asked"

RejectPending(also) ==
  result' = [c \in Command |-> IF c \in pending \cup also THEN "rejected" ELSE result[c]]

(* fail(): everyone waiting is rejected and the child is stopped.          *)
Fail(seen) ==
  /\ failed' = TRUE
  /\ RejectPending({})
  /\ pending' = {} /\ armed' = {}
  /\ stop' = Stopping(seen)

(* stop() of the runtime's owner: one runStop, shared with fail().         *)
Dispose ==
  /\ stop = "no"
  /\ Fail(exitSeen)
  /\ UNCHANGED <<stage, answeredBy, writeChain, writing, dialogs, child, exitSeen, alive>>

(* The grace is over: SIGKILL.                                             *)
GraceOver ==
  /\ stop = "asked"
  /\ stop' = "killed"
  /\ UNCHANGED <<stage, result, answeredBy, pending, armed, writeChain, writing, failed,
                 dialogs, child, exitSeen, alive>>

(* The child's exit is reported: the end of runStop, or a failure.         *)
ExitEvent ==
  /\ ~alive /\ ~exitSeen
  /\ exitSeen' = TRUE
  /\ \/ /\ stop # "no"
        /\ stop' = "done"
        /\ UNCHANGED <<result, pending, armed, failed>>
     \/ /\ stop = "no"
        /\ Fail(TRUE)
  /\ UNCHANGED <<stage, answeredBy, writeChain, writing, dialogs, child, alive>>

-----------------------------------------------------------------------------
(* Commands and the chain of writes.                                       *)

X_Issue(c) ==
  /\ stage[c] = "new"
  /\ stage' = [stage EXCEPT ![c] = "writing"]
  /\ pending' = pending \cup {c}
  /\ armed' = armed \cup {c}
  /\ writeChain' = Append(writeChain, c)
  /\ UNCHANGED <<result, answeredBy, writing, failed, stop, dialogs, child, exitSeen, alive>>

(* command(): refused when the process has failed, else kept, timed and    *)
(* queued for writing.                                                     *)
Issue(c) ==
  /\ stage[c] = "new"
  /\ \/ /\ failed
        /\ stage' = [stage EXCEPT ![c] = "threw"]
        /\ UNCHANGED <<pending, armed, writeChain>>
     \/ /\ ~failed
        /\ stage' = [stage EXCEPT ![c] = "writing"]
        /\ pending' = pending \cup {c}
        /\ armed' = armed \cup {c}
        /\ writeChain' = Append(writeChain, c)
  /\ UNCHANGED <<result, answeredBy, writing, failed, stop, dialogs, child, exitSeen, alive>>

(* A write that has its turn goes to the child's stdin; one that finds the *)
(* process failed is rejected, and so is its command.                      *)
WriteStart ==
  /\ writeChain # <<>> /\ ~writing /\ ~failed
  /\ writing' = TRUE
  /\ received' = received \cup ({Head(writeChain)} \cap Command)
  /\ UNCHANGED <<stage, result, answeredBy, pending, armed, writeChain, failed, stop,
                 dialogs, asked, fromChild, exitSeen, alive>>

Thrown == IF Head(writeChain) \in Command
            THEN [stage EXCEPT ![Head(writeChain)] = "threw"] ELSE stage

WriteRefused ==
  /\ writeChain # <<>> /\ ~writing /\ failed
  /\ stage' = Thrown
  /\ writeChain' = Tail(writeChain)
  /\ UNCHANGED <<result, answeredBy, pending, armed, writing, failed, stop,
                 dialogs, child, exitSeen, alive>>

(* resumeCommandTimeout("prompt").                                         *)
Resumed == armed \cup {c \in pending : TypeOf[c] = "prompt"}

X_WriteDone ==
  /\ writing /\ alive
  /\ writing' = FALSE
  /\ writeChain' = Tail(writeChain)
  /\ stage' = IF Head(writeChain) \in Command
                THEN [stage EXCEPT ![Head(writeChain)] = "sent"] ELSE stage
  /\ armed' = IF Head(writeChain) \in Dialog THEN Resumed ELSE armed
  /\ UNCHANGED <<result, answeredBy, pending, failed, stop, dialogs, child, exitSeen, alive>>

(* The write is through.  After the answer to the last open question the   *)
(* prompts are timed again.                                                *)
WriteDone ==
  /\ writing /\ alive
  /\ writing' = FALSE
  /\ writeChain' = Tail(writeChain)
  /\ stage' = IF Head(writeChain) \in Command
                THEN [stage EXCEPT ![Head(writeChain)] = "sent"] ELSE stage
  /\ armed' = IF Head(writeChain) \in Dialog /\ openDialogs = {} THEN Resumed ELSE armed
  /\ UNCHANGED <<result, answeredBy, pending, failed, stop, dialogs, child, exitSeen, alive>>

(* The pipe is broken: the write is rejected and stdin reports its error.  *)
WriteFails ==
  /\ writing /\ ~alive
  /\ writing' = FALSE
  /\ writeChain' = Tail(writeChain)
  /\ stage' = Thrown
  /\ \/ failed /\ UNCHANGED <<result, pending, armed, failed, stop>>
     \/ ~failed /\ Fail(exitSeen)
  /\ UNCHANGED <<answeredBy, dialogs, child, exitSeen, alive>>

X_TimeOut(c) ==
  /\ c \in armed /\ TypeOf[c] # "prompt"
  /\ Fail(exitSeen)
  /\ UNCHANGED <<stage, answeredBy, writeChain, writing, dialogs, child, exitSeen, alive>>

(* The timer of a command fires: it is rejected, and the process fails.    *)
TimeOut(c) ==
  /\ c \in armed
  /\ Fail(exitSeen)
  /\ UNCHANGED <<stage, answeredBy, writeChain, writing, dialogs, child, exitSeen, alive>>

-----------------------------------------------------------------------------
(* Lines of the child.                                                     *)

(* The response can be told to be for one command.                         *)
IsSingle(S) == \E c \in Command : S = {c}

X_Matches(line) ==
  LET same == {c \in pending : TypeOf[c] = TypeOf[line.of]} IN
  IF same = {} THEN {} ELSE {CHOOSE c \in same : TRUE}

(* The pending command a response is for: by its id, or, without one, the  *)
(* only one of its type.                                                   *)
Matches(line) ==
  IF line.withId THEN pending \cap {line.of}
  ELSE {c \in pending : TypeOf[c] = TypeOf[line.of]}

OnLine ==
  /\ fromChild # <<>>
  /\ fromChild' = Tail(fromChild)
  /\ LET line == Head(fromChild) IN
     \/ /\ failed
        /\ UNCHANGED <<result, answeredBy, pending, armed, failed, stop, records>>
     \/ /\ ~failed
        /\ line.kind = "junk" \/ (line.kind = "response" /\ ~IsSingle(Matches(line)))
        /\ Fail(exitSeen)
        /\ UNCHANGED <<answeredBy, records>>
     \/ /\ ~failed
        /\ line.kind = "response"
        /\ \E c \in Command :
             /\ Matches(line) = {c}
             /\ result' = [result EXCEPT ![c] = "answered"]
             /\ answeredBy' = [answeredBy EXCEPT ![c] = line.of]
             /\ pending' = pending \ {c}
             /\ armed' = armed \ {c}
        /\ UNCHANGED <<failed, stop, records>>
     \/ /\ ~failed
        /\ line.kind = "ask"
        /\ records' = Append(records, line.of)
        /\ UNCHANGED <<result, answeredBy, pending, armed, failed, stop>>
  /\ UNCHANGED <<stage, writeChain, writing, openDialogs, received, asked, exitSeen, alive>>

(* onRecord of a question, in its turn in the queue of records: it is open *)
(* from here, and the time-outs of the prompts are suspended.              *)
HandleAsk ==
  /\ records # <<>>
  /\ records' = Tail(records)
  /\ openDialogs' = openDialogs \cup {Head(records)}
  /\ armed' = {c \in armed : TypeOf[c] # "prompt"}
  /\ UNCHANGED <<stage, result, answeredBy, pending, writeChain, writing, failed, stop,
                 child, exitSeen, alive>>

(* answerExtensionUI(): only an open question, and its answer is written.  *)
AnswerDialog(d) ==
  /\ d \in openDialogs
  /\ openDialogs' = openDialogs \ {d}
  /\ writeChain' = Append(writeChain, d)
  /\ UNCHANGED <<stage, result, answeredBy, pending, armed, writing, failed, stop,
                 records, child, exitSeen, alive>>

(* releaseDialogs(), when the session is replaced: all are answered with a *)
(* cancellation, and the prompts are timed again at once, though the       *)
(* answer to a question may be on its way out.  Nobody waits for the       *)
(* writes of the cancellations: they are one in the chain.  With no        *)
(* question open and every prompt timed it changes nothing.                *)
ReleaseDialogs ==
  /\ openDialogs # {} \/ armed # Resumed
  /\ openDialogs' = {}
  /\ writeChain' = IF openDialogs = {} THEN writeChain ELSE Append(writeChain, NoCommand)
  /\ armed' = Resumed
  /\ UNCHANGED <<stage, result, answeredBy, pending, writing, failed, stop,
                 records, child, exitSeen, alive>>

-----------------------------------------------------------------------------
(* The child, as far as its protocol goes: it answers each command once or *)
(* never, with its id or, for one it may not know, also without; asks      *)
(* questions for a prompt it has in hand; may write anything; and may end. *)

Says(line) == /\ alive /\ Len(fromChild) < MaxUnread
              /\ fromChild' = Append(fromChild, line)
              /\ UNCHANGED <<server, dialogs, exitSeen, alive>>

ChildAnswers(c) ==
  /\ c \in received
  /\ received' = received \ {c}
  /\ \E withId \in {TRUE, TypeOf[c] = "prompt"} :
       Says([kind |-> "response", of |-> c, withId |-> withId])
  /\ UNCHANGED asked

(* A question is known by its turn among those of its prompt.              *)
NextOf(c) == CHOOSE d \in Dialog \ asked : OwnerOf[d] = c

ChildAsks(d) ==
  /\ OwnerOf[d] \in received /\ d \notin asked
  /\ d = NextOf(OwnerOf[d])
  /\ asked' = asked \cup {d}
  /\ Says([kind |-> "ask", of |-> d, withId |-> TRUE])
  /\ UNCHANGED received

ChildTalksNonsense ==
  /\ fromChild = <<>>
  /\ Says([kind |-> "junk", of |-> NoCommand, withId |-> FALSE])
  /\ UNCHANGED <<received, asked>>

ChildEnds ==
  /\ alive
  /\ alive' = FALSE
  /\ UNCHANGED <<server, dialogs, child, exitSeen>>

-----------------------------------------------------------------------------
Next ==
  \/ \E c \in Command : Issue(c) \/ TimeOut(c) \/ ChildAnswers(c)
  \/ \E d \in Dialog : AnswerDialog(d) \/ ChildAsks(d)
  \/ WriteStart \/ WriteDone \/ WriteFails \/ WriteRefused
  \/ OnLine \/ HandleAsk \/ ReleaseDialogs
  \/ Dispose \/ GraceOver \/ ExitEvent
  \/ ChildTalksNonsense \/ ChildEnds

(* What happens without anyone's doing: the event loop runs what is ready, *)
(* timers fire, a write the child has answered is over, and a child that   *)
(* was sent SIGKILL ends.  Neither the child nor the people answering its  *)
(* questions need do anything: a write may wait for a full pipe for ever.  *)
Fairness ==
  /\ \A c \in Command : WF_vars(TimeOut(c))
  /\ WF_vars(WriteStart) /\ WF_vars(WriteFails) /\ WF_vars(WriteRefused)
  /\ WF_vars(WriteDone /\ Head(writeChain) \in Command \ received)
  /\ WF_vars(OnLine) /\ WF_vars(HandleAsk)
  /\ WF_vars(GraceOver) /\ WF_vars(ExitEvent)
  /\ WF_vars(ChildEnds /\ stop = "killed")

Spec == Init /\ [][Next]_vars /\ Fairness

-----------------------------------------------------------------------------
(* What the caller of a command has been told: what it awaited first is    *)
(* the write, then the answer.                                             *)
Outcome(c) ==
  CASE stage[c] = "new" -> "none"
    [] stage[c] = "threw" -> "rejected"
    [] stage[c] = "sent" /\ result[c] # "none" -> result[c]
    [] OTHER -> "pending"

Abstract == INSTANCE Commands WITH
  Bounded <- {c \in Command : TypeOf[c] # "prompt"},
  outcome <- [c \in Command |-> Outcome(c)],
  open <- ~failed

(* Every command is told one outcome, none is taken once the process has   *)
(* failed, and one that is not a prompt always ends (command, fail, stop). *)
ImplementsCommands == Abstract!Spec

(* No command is given the answer to another one, also by a child that     *)
(* leaves the ids out (settle).                                            *)
AnswersAreTheirOwn == \A c \in Command : answeredBy[c] \in {c, NoCommand}

(* A command kept for its answer is one whose caller still waits, and one  *)
(* that waits for its answer and was not rejected is kept.                 *)
PendingIsWhoWaits ==
  \A c \in Command :
    c \in pending <=> stage[c] \in {"writing", "sent"} /\ result[c] = "none"

(* While a question is open, its prompt is not timed: the timer resumes    *)
(* only after the last question is answered (suspendCommandTimeout and     *)
(* answerExtensionUI).  And a command is untimed only while a question is  *)
(* open or the answer to one is being written: nothing else can leave it   *)
(* waiting without an end.                                                 *)
Asked == openDialogs # {} \/ \E i \in DOMAIN writeChain : writeChain[i] \in Dialog
TimedUnlessAsked ==
  /\ \A d \in openDialogs : OwnerOf[d] \notin armed
  /\ ~Asked => pending \subseteq armed

(* stop() resolves only when the child is gone, whoever asked first.       *)
StoppedIsGone == stop = "done" => ~alive

(* A prompt whose caller waits is settled, or somebody is asked for it or  *)
(* for another one, or the answer has not gone out to the child.           *)
PromptsEnd ==
  \A c \in Command : Outcome(c) = "pending" ~> Outcome(c) # "pending" \/ Asked
=============================================================================
