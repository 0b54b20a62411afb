------------------------- MODULE PiRpcProcessProofs -------------------------
(***************************************************************************)
(* Theorems about PiRpcProcess, for every set of commands and questions,   *)
(* every type of command and any number of unread lines: its invariants,   *)
(* and that each of its steps is one Commands allows, or none.             *)
(***************************************************************************)
EXTENDS PiRpcProcess, TLAPS

-----------------------------------------------------------------------------
(* Type correctness                                                        *)

\* What the child writes: answers to commands, questions, and nonsense.
ChildLine == {l \in Line : /\ l.kind = "response" => l.of \in Command
                           /\ l.kind = "ask" => l.of \in Dialog}

\* With it: what is being written is the first of the chain.
Typed ==
  /\ TypeOK
  /\ fromChild \in Seq(ChildLine)
  /\ writing => writeChain # <<>>

\* Giving up on the process (fail) keeps its variables typed.
LEMMA FailTyped ==
  ASSUME TypeOK, NEW seen \in BOOLEAN, Fail(seen)
  PROVE  /\ result' \in [Command -> {"none", "answered", "rejected"}]
         /\ pending' \subseteq Command /\ armed' \subseteq pending'
         /\ failed' \in BOOLEAN /\ stop' \in {"no", "asked", "killed", "done"}
BY DEF TypeOK, Fail, RejectPending, Stopping

LEMMA TypedInit == Init => Typed
<1> SUFFICES ASSUME Init PROVE Typed
  OBVIOUS
<1>1. fromChild \in Seq(ChildLine) /\ fromChild \in Seq(Line)
  BY DEF Init
<1>2. writeChain \in Seq(Command \cup Dialog \cup {NoCommand}) /\ records \in Seq(Dialog)
  BY DEF Init
<1>3. TypeOK
  BY <1>1, <1>2 DEF Init, TypeOK
<1> QED BY <1>1, <1>3 DEF Typed, Init

LEMMA TypedStep ==
  ASSUME Typed, [Next]_vars
  PROVE  Typed'
<1> USE CommandAssumption DEF CommandAssumption
<1> SUFFICES ASSUME Next PROVE Typed'
  <2>1. CASE UNCHANGED vars
    BY <2>1 DEF Typed, TypeOK, vars, server, dialogs, child
  <2> QED BY <2>1
<1>1. ASSUME NEW c \in Command, Issue(c) PROVE Typed'
  <2>1. writeChain' \in Seq(Command \cup Dialog \cup {NoCommand})
    <3>1. /\ writeChain \in Seq(Command \cup Dialog \cup {NoCommand})
          /\ writeChain' = writeChain \/ writeChain' = Append(writeChain, c)
      BY <1>1 DEF Typed, TypeOK, Issue
    <3> QED BY <3>1
  <2> QED BY <1>1, <2>1 DEF Typed, TypeOK, Issue, dialogs, child
<1>2. ASSUME NEW c \in Command, TimeOut(c) PROVE Typed'
  <2>1. Fail(exitSeen) BY <1>2 DEF TimeOut
  <2> QED BY <1>2, <2>1, FailTyped DEF Typed, TypeOK, TimeOut, dialogs, child
<1>3. ASSUME NEW line \in ChildLine, Says(line)
      PROVE  fromChild' \in Seq(ChildLine) /\ fromChild' \in Seq(Line)
  BY <1>3 DEF Typed, TypeOK, Says, ChildLine
<1>4. ASSUME NEW c \in Command, ChildAnswers(c) PROVE Typed'
  <2>1. PICK withId \in BOOLEAN : Says([kind |-> "response", of |-> c, withId |-> withId])
    BY <1>4 DEF ChildAnswers
  <2>2. [kind |-> "response", of |-> c, withId |-> withId] \in ChildLine
    BY DEF Line, ChildLine
  <2>3. fromChild' \in Seq(ChildLine) /\ fromChild' \in Seq(Line)
    BY <1>3, <2>1, <2>2
  <2>4. UNCHANGED <<server, dialogs, exitSeen, alive>>
    BY <2>1 DEF Says
  <2> QED BY <1>4, <2>3, <2>4 DEF Typed, TypeOK, ChildAnswers, server, dialogs
<1>5. ASSUME NEW d \in Dialog, AnswerDialog(d) PROVE Typed'
  <2>1. writeChain' \in Seq(Command \cup Dialog \cup {NoCommand})
    BY <1>5 DEF Typed, TypeOK, AnswerDialog
  <2>2. TypeOK'
    BY <1>5, <2>1 DEF Typed, TypeOK, AnswerDialog, child
  <2>3. writeChain' # <<>>
    <3>1. writeChain \in Seq(Command \cup Dialog \cup {NoCommand}) /\ writeChain' = Append(writeChain, d)
      BY <1>5 DEF Typed, TypeOK, AnswerDialog
    <3> QED BY <3>1
  <2> QED BY <1>5, <2>2, <2>3 DEF Typed, AnswerDialog, child
<1>6. ASSUME NEW d \in Dialog, ChildAsks(d) PROVE Typed'
  <2>1. Says([kind |-> "ask", of |-> d, withId |-> TRUE])
    BY <1>6 DEF ChildAsks
  <2>2. [kind |-> "ask", of |-> d, withId |-> TRUE] \in ChildLine
    BY DEF Line, ChildLine
  <2>3. fromChild' \in Seq(ChildLine) /\ fromChild' \in Seq(Line)
    BY <1>3, <2>1, <2>2
  <2>4. UNCHANGED <<server, dialogs, exitSeen, alive>>
    BY <2>1 DEF Says
  <2> QED BY <1>6, <2>3, <2>4 DEF Typed, TypeOK, ChildAsks, server, dialogs
<1>7. CASE WriteStart
  BY <1>7 DEF Typed, TypeOK, WriteStart, dialogs
<1>8. CASE WriteDone
  <2>1. writeChain' \in Seq(Command \cup Dialog \cup {NoCommand}) /\ Head(writeChain) \in Command \cup Dialog \cup {NoCommand}
    BY <1>8 DEF Typed, TypeOK, WriteDone
  <2>2. stage' \in [Command -> {"new", "writing", "sent", "threw"}]
    BY <1>8, <2>1 DEF Typed, TypeOK, WriteDone
  <2> QED BY <1>8, <2>1, <2>2 DEF Typed, TypeOK, WriteDone, Resumed, dialogs, child
<1>9. Thrown \in [Command -> {"new", "writing", "sent", "threw"}]
  BY DEF Typed, TypeOK, Thrown
<1>10. CASE WriteRefused
  <2>1. writeChain' \in Seq(Command \cup Dialog \cup {NoCommand})
    BY <1>10 DEF Typed, TypeOK, WriteRefused
  <2> QED BY <1>9, <1>10, <2>1 DEF Typed, TypeOK, WriteRefused, dialogs, child
<1>11. CASE WriteFails
  <2>1. writeChain' \in Seq(Command \cup Dialog \cup {NoCommand})
    BY <1>11 DEF Typed, TypeOK, WriteFails
  <2>2. /\ result' \in [Command -> {"none", "answered", "rejected"}]
        /\ pending' \subseteq Command /\ armed' \subseteq pending'
        /\ failed' \in BOOLEAN /\ stop' \in {"no", "asked", "killed", "done"}
    BY <1>11, FailTyped DEF Typed, TypeOK, WriteFails
  <2> QED BY <1>9, <1>11, <2>1, <2>2 DEF Typed, TypeOK, WriteFails, dialogs, child
<1>12. CASE OnLine
  <2>1. Head(fromChild) \in ChildLine /\ fromChild' \in Seq(Line) /\ fromChild' \in Seq(ChildLine)
    BY <1>12 DEF Typed, TypeOK, OnLine
  <2>2. CASE failed /\ UNCHANGED <<result, answeredBy, pending, armed, failed, stop, records>>
    BY <1>12, <2>1, <2>2 DEF Typed, TypeOK, OnLine
  <2>3. CASE Fail(exitSeen) /\ UNCHANGED <<answeredBy, records>>
    BY <1>12, <2>1, <2>3, FailTyped DEF Typed, TypeOK, OnLine
  <2>4. ASSUME NEW c \in Command, Matches(Head(fromChild)) = {c},
               result' = [result EXCEPT ![c] = "answered"],
               answeredBy' = [answeredBy EXCEPT ![c] = Head(fromChild).of],
               pending' = pending \ {c}, armed' = armed \ {c},
               UNCHANGED <<failed, stop, records>>
        PROVE  Typed'
    <3>1. Head(fromChild).kind = "response" => Head(fromChild).of \in Command
      BY <2>1 DEF ChildLine
    <3> QED BY <1>12, <2>1, <2>4, <3>1 DEF Typed, TypeOK, OnLine
  <2>5. CASE /\ Head(fromChild).kind = "ask"
             /\ records' = Append(records, Head(fromChild).of)
             /\ UNCHANGED <<result, answeredBy, pending, armed, failed, stop>>
    <3>1. records' \in Seq(Dialog)
      BY <2>1, <2>5 DEF Typed, TypeOK, ChildLine
    <3> QED BY <1>12, <2>1, <2>5, <3>1 DEF Typed, TypeOK, OnLine
  <2> QED BY <1>12, <2>2, <2>3, <2>4, <2>5 DEF OnLine
<1>13. CASE HandleAsk
  <2>1. records' \in Seq(Dialog) /\ Head(records) \in Dialog
    BY <1>13 DEF Typed, TypeOK, HandleAsk
  <2> QED BY <1>13, <2>1 DEF Typed, TypeOK, HandleAsk, child
<1>14. CASE ReleaseDialogs
  <2>1. /\ writeChain' \in Seq(Command \cup Dialog \cup {NoCommand})
        /\ writeChain # <<>> => writeChain' # <<>>
    <3>1. /\ writeChain \in Seq(Command \cup Dialog \cup {NoCommand})
          /\ writeChain' = writeChain \/ writeChain' = Append(writeChain, NoCommand)
      BY <1>14 DEF Typed, TypeOK, ReleaseDialogs
    <3>2. CASE writeChain' = writeChain
      BY <3>1, <3>2
    <3>3. CASE writeChain' = Append(writeChain, NoCommand)
      BY <3>1, <3>3
    <3> QED BY <3>1, <3>2, <3>3
  <2> QED BY <1>14, <2>1 DEF Typed, TypeOK, ReleaseDialogs, Resumed, child
<1>15. CASE Dispose
  <2>1. Fail(exitSeen) BY <1>15 DEF Dispose
  <2> QED BY <1>15, <2>1, FailTyped DEF Typed, TypeOK, Dispose, dialogs, child
<1>16. CASE GraceOver
  BY <1>16 DEF Typed, TypeOK, GraceOver, dialogs, child
<1>17. CASE ExitEvent
  BY <1>17, FailTyped DEF Typed, TypeOK, ExitEvent, dialogs, child
<1>18. CASE ChildTalksNonsense
  <2>1. [kind |-> "junk", of |-> NoCommand, withId |-> FALSE] \in ChildLine
    BY DEF Line, ChildLine
  <2> QED BY <1>3, <1>18, <2>1 DEF Typed, TypeOK, ChildTalksNonsense, Says, server, dialogs
<1>19. CASE ChildEnds
  BY <1>19 DEF Typed, TypeOK, ChildEnds, server, dialogs, child
<1> QED
  BY <1>1, <1>2, <1>4, <1>5, <1>6, <1>7, <1>8, <1>10, <1>11, <1>12, <1>13, <1>14, <1>15,
     <1>16, <1>17, <1>18, <1>19 DEF Next

LEMMA AlwaysTyped == Spec => []Typed
<1>1. Typed /\ [Next]_vars => Typed'
  BY TypedStep
<1> QED BY TypedInit, <1>1, PTL DEF Spec

\* Every reachable state is typed: no write is begun that is not in the chain, no line is
\* taken for the answer to something that is not a command (PiRpcProcess, onLine).
THEOREM ProcessTypeCorrect == Spec => []TypeOK
<1>1. Typed => TypeOK
  BY DEF Typed
<1> QED BY <1>1, AlwaysTyped, PTL

-----------------------------------------------------------------------------
(* The chain of writes: the commands in it are in it once, and at "writing" *)

ChainOK(chain, at) ==
  /\ \A i \in 1..Len(chain) : chain[i] \in Command => at[chain[i]] = "writing"
  /\ \A i, j \in 1..Len(chain) : chain[i] \in Command /\ chain[i] = chain[j] => i = j

\* A command that was never issued is put at the end.
LEMMA ChainAppend ==
  ASSUME NEW chain \in Seq(Command \cup Dialog \cup {NoCommand}), NEW at, NEW c \in Command,
         at \in [Command -> {"new", "writing", "sent", "threw"}],
         ChainOK(chain, at), at[c] = "new"
  PROVE  ChainOK(Append(chain, c), [at EXCEPT ![c] = "writing"])
<1> DEFINE longer == Append(chain, c)
<1>1. /\ Len(longer) = Len(chain) + 1
      /\ longer[Len(chain) + 1] = c
      /\ \A i \in 1..Len(chain) : longer[i] = chain[i] /\ chain[i] # c
  BY DEF ChainOK
<1>2. Len(chain) \in Nat /\ \A i \in 1..Len(longer) : i = Len(chain) + 1 \/ i \in 1..Len(chain)
  BY <1>1
<1> HIDE DEF longer
<1>3. \A i \in 1..Len(longer) :
        longer[i] \in Command => [at EXCEPT ![c] = "writing"][longer[i]] = "writing"
  BY <1>1, <1>2 DEF ChainOK
<1>4. \A i, j \in 1..Len(longer) : longer[i] \in Command /\ longer[i] = longer[j] => i = j
  BY <1>1, <1>2 DEF ChainOK
<1> QED BY <1>3, <1>4 DEF ChainOK, longer

\* The first is taken out, and a command is then anywhere.
LEMMA ChainTail ==
  ASSUME NEW chain \in Seq(Command \cup Dialog \cup {NoCommand}), NEW at, NEW next, chain # <<>>,
         at \in [Command -> {"new", "writing", "sent", "threw"}], ChainOK(chain, at),
         \A c \in Command : c # Head(chain) => next[c] = at[c]
  PROVE  ChainOK(Tail(chain), next)
<1>1. Len(chain) \in Nat /\ Len(Tail(chain)) = Len(chain) - 1 /\ Head(chain) = chain[1]
  OBVIOUS
<1>2. \A i \in 1..Len(Tail(chain)) : /\ i + 1 \in 1..Len(chain)
                                     /\ Tail(chain)[i] = chain[i + 1]
  BY <1>1
<1>3. \A i \in 1..Len(Tail(chain)) : chain[i + 1] \in Command => chain[i + 1] # Head(chain)
  BY <1>1, <1>2 DEF ChainOK
<1> QED BY <1>1, <1>2, <1>3 DEF ChainOK

\* Answers to questions, and cancellations, are put at the end.
LEMMA ChainDialogs ==
  ASSUME NEW chain \in Seq(Command \cup Dialog \cup {NoCommand}), NEW answers \in Seq(Dialog \cup {NoCommand}),
         NEW at,
         ChainOK(chain, at)
  PROVE  ChainOK(chain \o answers, at)
<1>1. \A i \in 1..Len(chain \o answers) :
        \/ i \in 1..Len(chain) /\ (chain \o answers)[i] = chain[i]
        \/ (chain \o answers)[i] \in Dialog \cup {NoCommand} /\ (chain \o answers)[i] \notin Command
  <2>1. TAKE i \in 1..Len(chain \o answers)
  <2>2. CASE i \in 1..Len(chain)
    BY <2>2
  <2>3. CASE i \notin 1..Len(chain)
    <3>1. /\ i - Len(chain) \in 1..Len(answers)
          /\ (chain \o answers)[i] = answers[i - Len(chain)]
      BY <2>3
    <3> QED BY <3>1, CommandAssumption DEF CommandAssumption
  <2> QED BY <2>2, <2>3
<1> QED BY <1>1 DEF ChainOK

-----------------------------------------------------------------------------
(* Who waits                                                               *)

\* PendingIsWhoWaits is inductive together with: nobody is kept once the process has failed,
\* only commands that were issued have a result, and the chain.
Waiting ==
  /\ PendingIsWhoWaits
  /\ failed => pending = {}
  /\ \A c \in Command : stage[c] = "new" => result[c] = "none"
  /\ ChainOK(writeChain, stage)

\* Giving up rejects whoever waits.
LEMMA FailWaiting ==
  ASSUME TypeOK, Waiting, NEW seen \in BOOLEAN, Fail(seen), UNCHANGED <<stage, writeChain>>
  PROVE  Waiting'
BY DEF TypeOK, Waiting, PendingIsWhoWaits, Fail, RejectPending

\* A write is over: what was at "writing" may be anywhere, and only it.
LEMMA ChainAdvances ==
  ASSUME TypeOK, Waiting, writeChain # <<>>, writeChain' = Tail(writeChain),
         \A c \in Command : c # Head(writeChain) => stage'[c] = stage[c]
  PROVE  ChainOK(writeChain, stage)'
<1>1. /\ writeChain \in Seq(Command \cup Dialog \cup {NoCommand})
      /\ stage \in [Command -> {"new", "writing", "sent", "threw"}]
      /\ ChainOK(writeChain, stage)
  BY DEF TypeOK, Waiting
<1>2. ChainOK(Tail(writeChain), stage')
  BY <1>1, ChainTail
<1> QED BY <1>2

LEMMA WaitingInit == Init => Waiting
<1> SUFFICES ASSUME Init PROVE Waiting
  OBVIOUS
<1>1. PendingIsWhoWaits /\ (failed => pending = {})
  BY DEF Init, PendingIsWhoWaits
<1>2. ChainOK(writeChain, stage)
  BY DEF Init, ChainOK
<1> QED BY <1>1, <1>2 DEF Waiting, Init

LEMMA WaitingStep ==
  ASSUME Typed, Waiting, [Next]_vars
  PROVE  Waiting'
<1> USE CommandAssumption DEF CommandAssumption
<1>0. TypeOK BY DEF Typed
<1>1. CASE UNCHANGED <<stage, result, pending, failed, writeChain>>
  BY <1>1 DEF Waiting, PendingIsWhoWaits
<1>2. ASSUME NEW c \in Command, Issue(c) PROVE Waiting'
  <2>1. CASE failed /\ stage' = [stage EXCEPT ![c] = "threw"] /\ UNCHANGED <<pending, writeChain>>
    <3>1. ChainOK(writeChain, stage)'
      BY <1>2, <2>1, <1>0 DEF Waiting, ChainOK, TypeOK, Issue
    <3> QED BY <1>0, <1>2, <2>1, <3>1 DEF Waiting, PendingIsWhoWaits, TypeOK, Issue
  <2>2. CASE /\ ~failed
             /\ stage' = [stage EXCEPT ![c] = "writing"]
             /\ pending' = pending \cup {c}
             /\ writeChain' = Append(writeChain, c)
    <3>1. ChainOK(writeChain, stage)'
      BY <1>2, <2>2, <1>0, ChainAppend DEF Waiting, TypeOK, Issue
    <3> QED BY <1>0, <1>2, <2>2, <3>1 DEF Waiting, PendingIsWhoWaits, TypeOK, Issue
  <2> QED BY <1>2, <2>1, <2>2 DEF Issue
<1>3. ASSUME Fail(exitSeen), UNCHANGED <<stage, writeChain>> PROVE Waiting'
  BY <1>0, <1>3, FailWaiting DEF TypeOK
<1>4. CASE WriteRefused
  <2>0. /\ writeChain # <<>> /\ writeChain' = Tail(writeChain)
        /\ \A c \in Command : c # Head(writeChain) => stage'[c] = stage[c]
    BY <1>0, <1>4 DEF TypeOK, WriteRefused, Thrown
  <2>1. ChainOK(writeChain, stage)'
    BY <1>0, <2>0, ChainAdvances
  <2> QED BY <1>0, <1>4, <2>1 DEF Waiting, PendingIsWhoWaits, TypeOK, WriteRefused, Thrown
<1>5. CASE WriteDone
  <2>0. /\ writeChain # <<>> /\ writeChain' = Tail(writeChain)
        /\ \A c \in Command : c # Head(writeChain) => stage'[c] = stage[c]
    BY <1>0, <1>5 DEF Typed, TypeOK, WriteDone
  <2>1. ChainOK(writeChain, stage)'
    BY <1>0, <2>0, ChainAdvances
  <2>2. Head(writeChain) \in Command => stage[Head(writeChain)] = "writing"
    BY <1>0, <1>5 DEF Typed, Waiting, ChainOK, TypeOK, WriteDone
  <2> QED BY <1>0, <1>5, <2>1, <2>2 DEF Waiting, PendingIsWhoWaits, TypeOK, WriteDone
<1>6. CASE WriteFails
  <2>0. /\ writeChain # <<>> /\ writeChain' = Tail(writeChain)
        /\ \A c \in Command : c # Head(writeChain) => stage'[c] = stage[c]
    BY <1>0, <1>6 DEF Typed, TypeOK, WriteFails, Thrown
  <2>1. ChainOK(writeChain, stage)'
    BY <1>0, <2>0, ChainAdvances
  <2>2. Head(writeChain) \in Command => stage[Head(writeChain)] = "writing"
    BY <1>0, <1>6 DEF Typed, Waiting, ChainOK, TypeOK, WriteFails
  <2>3. CASE failed /\ UNCHANGED <<result, pending, failed>>
    BY <1>0, <1>6, <2>1, <2>2, <2>3 DEF Waiting, PendingIsWhoWaits, TypeOK, WriteFails, Thrown
  <2>4. CASE Fail(exitSeen)
    BY <1>0, <1>6, <2>1, <2>2, <2>4
       DEF Waiting, PendingIsWhoWaits, TypeOK, WriteFails, Thrown, Fail, RejectPending
  <2> QED BY <1>6, <2>3, <2>4 DEF WriteFails
<1>7. CASE OnLine
  <2>1. ASSUME NEW c \in Command, Matches(Head(fromChild)) = {c},
               result' = [result EXCEPT ![c] = "answered"], pending' = pending \ {c},
               UNCHANGED <<stage, failed, writeChain>>
        PROVE  Waiting'
    <3>1. c \in pending
      BY <2>1 DEF Matches
    <3> QED BY <1>0, <2>1, <3>1 DEF Waiting, PendingIsWhoWaits, TypeOK
  <2> QED BY <1>1, <1>3, <1>7, <2>1 DEF OnLine
<1>8. ASSUME NEW d \in Dialog, AnswerDialog(d) PROVE Waiting'
  <2>1. writeChain' = writeChain \o <<d>> /\ <<d>> \in Seq(Dialog \cup {NoCommand}) /\ stage' = stage
    BY <1>0, <1>8 DEF AnswerDialog, TypeOK
  <2>2. writeChain \in Seq(Command \cup Dialog \cup {NoCommand}) /\ ChainOK(writeChain, stage)
    BY <1>0 DEF Waiting, TypeOK
  <2>3. ChainOK(writeChain \o <<d>>, stage)
    BY <2>1, <2>2, ChainDialogs
  <2> QED BY <1>8, <2>1, <2>3 DEF Waiting, PendingIsWhoWaits, AnswerDialog
<1>9. CASE ReleaseDialogs
  <2>1. CASE writeChain' = writeChain
    BY <1>1, <1>9, <2>1 DEF ReleaseDialogs
  <2>2. CASE writeChain' = Append(writeChain, NoCommand)
    <3>1. writeChain' = writeChain \o <<NoCommand>> /\ <<NoCommand>> \in Seq(Dialog \cup {NoCommand})
      BY <1>0, <2>2 DEF TypeOK
    <3>2. writeChain \in Seq(Command \cup Dialog \cup {NoCommand}) /\ ChainOK(writeChain, stage)
      BY <1>0 DEF Waiting, TypeOK
    <3>3. ChainOK(writeChain \o <<NoCommand>>, stage)
      BY <3>1, <3>2, ChainDialogs
    <3> QED BY <1>9, <3>1, <3>3 DEF Waiting, PendingIsWhoWaits, ReleaseDialogs
  <2> QED BY <1>9, <2>1, <2>2 DEF ReleaseDialogs
<1>10. CASE ExitEvent
  <2>1. CASE UNCHANGED <<result, pending, failed>>
    BY <1>1, <1>10, <2>1 DEF ExitEvent
  <2>2. CASE Fail(TRUE)
    BY <1>0, <1>10, <2>2, FailWaiting DEF ExitEvent
  <2> QED BY <1>10, <2>1, <2>2 DEF ExitEvent
<1>11. CASE Dispose \/ \E c \in Command : TimeOut(c)
  BY <1>3, <1>11 DEF Dispose, TimeOut
<1>12. CASE \/ WriteStart \/ HandleAsk \/ GraceOver \/ ChildTalksNonsense \/ ChildEnds
            \/ \E c \in Command : ChildAnswers(c)
            \/ \E d \in Dialog : ChildAsks(d)
            \/ UNCHANGED vars
  BY <1>1, <1>12 DEF WriteStart, HandleAsk, GraceOver, ChildTalksNonsense, ChildEnds,
                     ChildAnswers, ChildAsks, Says, vars, server
<1> QED
  BY <1>2, <1>4, <1>5, <1>6, <1>7, <1>8, <1>9, <1>10, <1>11, <1>12 DEF Next

LEMMA AlwaysWaiting == Spec => []Waiting
<1>1. Typed /\ Waiting /\ [Next]_vars => Waiting'
  BY WaitingStep
<1> QED BY WaitingInit, <1>1, AlwaysTyped, PTL DEF Spec

\* Whoever waits for an answer is kept, and nobody else: no caller of command() is forgotten
\* by fail(), by settle() or by a write that is refused.
THEOREM TheKeptAreWhoWait == Spec => []PendingIsWhoWaits
<1>1. Waiting => PendingIsWhoWaits
  BY DEF Waiting
<1> QED BY <1>1, AlwaysWaiting, PTL

-----------------------------------------------------------------------------
(* Stopping                                                                *)

Stopped ==
  /\ exitSeen => ~alive
  /\ stop = "done" => exitSeen

LEMMA StoppedStep ==
  ASSUME Stopped, [Next]_vars
  PROVE  Stopped'
<1>1. ASSUME Fail(exitSeen), UNCHANGED <<exitSeen, alive>> PROVE Stopped'
  BY <1>1 DEF Stopped, Fail, Stopping
<1>2. CASE UNCHANGED <<stop, exitSeen, alive>>
  BY <1>2 DEF Stopped
<1>3. CASE ExitEvent
  BY <1>3 DEF Stopped, ExitEvent
<1>4. CASE GraceOver
  BY <1>4 DEF Stopped, GraceOver
<1>5. CASE ChildEnds
  BY <1>5 DEF Stopped, ChildEnds, server
<1>6. CASE OnLine \/ WriteFails \/ Dispose \/ \E c \in Command : TimeOut(c)
  BY <1>1, <1>2, <1>6 DEF OnLine, WriteFails, Dispose, TimeOut
<1>7. CASE \/ WriteStart \/ WriteDone \/ WriteRefused \/ HandleAsk \/ ReleaseDialogs
           \/ ChildTalksNonsense
           \/ \E c \in Command : Issue(c) \/ ChildAnswers(c)
           \/ \E d \in Dialog : AnswerDialog(d) \/ ChildAsks(d)
           \/ UNCHANGED vars
  BY <1>2, <1>7 DEF WriteStart, WriteDone, WriteRefused, HandleAsk, ReleaseDialogs, Issue,
     ChildTalksNonsense, ChildAnswers, AnswerDialog, ChildAsks, Says, vars, server
<1> QED BY <1>3, <1>4, <1>5, <1>6, <1>7 DEF Next

\* Whoever stops the process is told only once the child is gone, also when the failure of the
\* process had begun to stop it, or its exit came first (runStop).
THEOREM StoppedMeansGone == Spec => []StoppedIsGone
<1>1. Init => Stopped
  BY DEF Init, Stopped
<1>2. Stopped /\ [Next]_vars => Stopped'
  BY StoppedStep
<1>3. Stopped => StoppedIsGone
  BY DEF Stopped, StoppedIsGone
<1> QED BY <1>1, <1>2, <1>3, PTL DEF Spec

-----------------------------------------------------------------------------
(* Time-outs                                                               *)

\* A question has come from the child: it is open, its record waits, its line is not read.
Posed == openDialogs \cup {records[i] : i \in DOMAIN records}
           \cup {fromChild[i].of : i \in {j \in DOMAIN fromChild : fromChild[j].kind = "ask"}}

\* Only prompts are ever untimed, and what the child has in hand was issued: a prompt that is
\* issued, and timed, while a question is open is not the one the question is asked for.
Timing ==
  /\ TimedUnlessAsked
  /\ \A c \in pending \ armed : TypeOf[c] = "prompt"
  /\ \A c \in received : stage[c] # "new"
  /\ \A d \in Posed : stage[OwnerOf[d]] # "new"

\* Questions that have come stay so, or go: only the child poses new ones.
LEMMA PosedStep ==
  ASSUME Typed, [Next]_vars, NEW q \in Posed'
  PROVE  q \in Posed \/ (q \in Dialog /\ OwnerOf[q] \in received)
<1>0. TypeOK BY DEF Typed
<1>1. CASE UNCHANGED <<openDialogs, records, fromChild>>
  BY <1>1 DEF Posed
<1>2. ASSUME NEW line, Says(line), UNCHANGED dialogs
      PROVE  q \in Posed \/ (line.kind = "ask" /\ q = line.of)
  <2>1. CASE q \in openDialogs \cup {records[i] : i \in DOMAIN records}
    BY <2>1 DEF Posed
  <2>2. CASE q \in {fromChild'[i].of : i \in {j \in DOMAIN fromChild' : fromChild'[j].kind = "ask"}}
    <3>1. PICK i \in DOMAIN fromChild' : fromChild'[i].kind = "ask" /\ q = fromChild'[i].of
      BY <2>2
    <3>2. CASE i \in DOMAIN fromChild
      BY <1>0, <1>2, <3>1, <3>2 DEF Posed, Says, TypeOK
    <3>3. CASE i \notin DOMAIN fromChild
      BY <1>0, <1>2, <3>1, <3>3 DEF Says, TypeOK
    <3> QED BY <3>2, <3>3
  <2> QED BY <1>2, <2>1, <2>2 DEF Posed, dialogs
<1>3. ASSUME NEW d \in Dialog, ChildAsks(d)
      PROVE  q \in Posed \/ (q \in Dialog /\ OwnerOf[q] \in received)
  BY <1>2, <1>3 DEF ChildAsks, Says
<1>4. ASSUME NEW c \in Command, ChildAnswers(c) PROVE q \in Posed
  BY <1>2, <1>4 DEF ChildAnswers, Says
<1>5. CASE ChildTalksNonsense
  BY <1>2, <1>5 DEF ChildTalksNonsense, Says
<1>6. CASE OnLine
  <2>0. /\ DOMAIN fromChild = 1..Len(fromChild) /\ Len(fromChild) \in Nat
        /\ DOMAIN fromChild' = 1..(Len(fromChild) - 1)
        /\ Head(fromChild) = fromChild[1] /\ 1 \in DOMAIN fromChild
        /\ openDialogs' = openDialogs
    BY <1>0, <1>6 DEF OnLine, TypeOK
  <2>1. \A i \in DOMAIN fromChild' : i + 1 \in DOMAIN fromChild /\ fromChild'[i] = fromChild[i + 1]
    BY <1>0, <1>6, <2>0 DEF OnLine, TypeOK
  <2>2. CASE q \in {fromChild'[i].of : i \in {j \in DOMAIN fromChild' : fromChild'[j].kind = "ask"}}
    BY <2>1, <2>2 DEF Posed
  <2>3. CASE q \in openDialogs
    BY <2>3 DEF Posed
  <2>4. CASE q \in {records'[i] : i \in DOMAIN records'}
    <3>1. CASE records' = records
      BY <2>4, <3>1 DEF Posed
    <3>2. CASE /\ Head(fromChild).kind = "ask"
               /\ records' = Append(records, Head(fromChild).of)
      <4>1. PICK i \in DOMAIN records' : q = records'[i]
        BY <2>4
      <4>2. CASE i \in DOMAIN records
        BY <1>0, <3>2, <4>1, <4>2 DEF Posed, TypeOK
      <4>3. CASE i \notin DOMAIN records
        <5>1. q = fromChild[1].of /\ fromChild[1].kind = "ask"
          BY <1>0, <2>0, <3>2, <4>1, <4>3 DEF TypeOK
        <5> QED BY <2>0, <5>1 DEF Posed
      <4> QED BY <4>2, <4>3
    <3> QED BY <1>6, <3>1, <3>2 DEF OnLine
  <2> QED BY <2>0, <2>2, <2>3, <2>4 DEF Posed
<1>7. CASE HandleAsk
  <2>0. /\ DOMAIN records = 1..Len(records) /\ Len(records) \in Nat
        /\ DOMAIN records' = 1..(Len(records) - 1)
        /\ Head(records) = records[1] /\ 1 \in DOMAIN records
    BY <1>0, <1>7 DEF HandleAsk, TypeOK
  <2>1. \A i \in DOMAIN records' : i + 1 \in DOMAIN records /\ records'[i] = records[i + 1]
    BY <1>0, <1>7, <2>0 DEF HandleAsk, TypeOK
  <2>2. openDialogs' = openDialogs \cup {records[1]} /\ fromChild' = fromChild
    BY <1>7, <2>0 DEF HandleAsk, child
  <2> QED BY <2>0, <2>1, <2>2 DEF Posed
<1>8. CASE ReleaseDialogs \/ \E d \in Dialog : AnswerDialog(d)
  BY <1>8 DEF Posed, ReleaseDialogs, AnswerDialog, child
<1>9. CASE \/ WriteStart \/ WriteDone \/ WriteFails \/ WriteRefused \/ ChildEnds
           \/ Dispose \/ GraceOver \/ ExitEvent \/ UNCHANGED vars
           \/ \E c \in Command : Issue(c) \/ TimeOut(c)
  BY <1>1, <1>9 DEF WriteStart, WriteDone, WriteFails, WriteRefused, ChildEnds, Dispose,
     GraceOver, ExitEvent, vars, server, dialogs, child, Issue, TimeOut
<1> QED
  BY <1>3, <1>4, <1>5, <1>6, <1>7, <1>8, <1>9 DEF Next

\* A command never goes back to not having been issued.
LEMMA StageStep ==
  ASSUME Typed, [Next]_vars, NEW c \in Command, stage[c] # "new"
  PROVE  stage'[c] # "new"
<1>0. TypeOK BY DEF Typed
<1>1. CASE stage' = stage \/ stage' = Thrown
  BY <1>0, <1>1 DEF Thrown, TypeOK
<1>2. CASE WriteDone \/ \E x \in Command : Issue(x)
  BY <1>0, <1>2 DEF WriteDone, Issue, TypeOK
<1>3. CASE ~(WriteDone \/ \E x \in Command : Issue(x))
  BY <1>1, <1>3 DEF Next, TimeOut, ChildAnswers, AnswerDialog, ChildAsks, WriteStart, WriteFails,
     WriteRefused, OnLine, HandleAsk, ReleaseDialogs, Dispose, GraceOver, ExitEvent,
     ChildTalksNonsense, ChildEnds, Says, server, vars
<1> QED BY <1>2, <1>3

\* The child has in hand only what was written to it.
LEMMA ReceivedStep ==
  ASSUME Typed, Waiting, Timing, [Next]_vars
  PROVE  \A c \in received' : stage'[c] # "new"
<1>0. TypeOK BY DEF Typed
<1>1. CASE received' \subseteq received
  BY <1>0, <1>1, StageStep DEF Timing, TypeOK
<1>2. CASE WriteStart
  <2>1. Head(writeChain) \in Command => stage[Head(writeChain)] = "writing"
    BY <1>0, <1>2 DEF Waiting, ChainOK, WriteStart, TypeOK
  <2> QED BY <1>2, <2>1 DEF WriteStart, Timing
<1>3. CASE ~WriteStart
  <2>1. received' \subseteq received
    BY <1>3 DEF Next, TimeOut, ChildAnswers, AnswerDialog, ChildAsks, Issue, WriteDone, WriteFails,
       WriteRefused, OnLine, HandleAsk, ReleaseDialogs, Dispose, GraceOver, ExitEvent,
       ChildTalksNonsense, ChildEnds, Says, child, vars
  <2> QED BY <1>1, <2>1
<1> QED BY <1>2, <1>3

\* The question that is in the chain is still in it when something is added, and when the first
\* is taken out and is not that question.
LEMMA AskedAfter ==
  ASSUME Typed, NEW i \in DOMAIN writeChain, writeChain[i] \in Dialog,
         \/ writeChain' = Tail(writeChain) /\ Head(writeChain) \notin Dialog
         \/ \E more \in Seq(Command \cup Dialog \cup {NoCommand}) : writeChain' = writeChain \o more
  PROVE  \E k \in DOMAIN writeChain' : writeChain'[k] \in Dialog
<1>0. writeChain \in Seq(Command \cup Dialog \cup {NoCommand}) BY DEF Typed, TypeOK
<1>1. CASE writeChain' = Tail(writeChain) /\ Head(writeChain) \notin Dialog
  <2>1. i # 1 /\ i \in 1..Len(writeChain) /\ Len(writeChain) \in Nat
    BY <1>0, <1>1
  <2>2. i - 1 \in DOMAIN writeChain' /\ writeChain'[i - 1] = writeChain[i]
    BY <1>0, <1>1, <2>1
  <2> QED BY <2>2
<1>2. ASSUME NEW more \in Seq(Command \cup Dialog \cup {NoCommand}), writeChain' = writeChain \o more
      PROVE  \E k \in DOMAIN writeChain' : writeChain'[k] \in Dialog
  <2>1. i \in DOMAIN writeChain' /\ writeChain'[i] = writeChain[i]
    BY <1>0, <1>2
  <2> QED BY <2>1
<1> QED BY <1>1, <1>2

\* The time-outs themselves: who is timed, and while what.
LEMMA TimedStep ==
  ASSUME Typed, Waiting, Timing, [Next]_vars
  PROVE  TimedUnlessAsked' /\ \A c \in pending' \ armed' : TypeOf[c] = "prompt"
<1> DEFINE Goal == TimedUnlessAsked' /\ \A c \in pending' \ armed' : TypeOf[c] = "prompt"
<1> USE CommandAssumption DEF CommandAssumption
<1>0. TypeOK BY DEF Typed
<1>1. CASE UNCHANGED <<pending, armed, openDialogs, writeChain>>
  BY <1>1 DEF Timing, TimedUnlessAsked, Asked
<1>2. CASE pending' = {} /\ armed' = {} /\ openDialogs' = openDialogs
  BY <1>2 DEF TimedUnlessAsked
<1>3. ASSUME NEW c \in Command, Issue(c), ~failed PROVE Goal
  <2>1. /\ pending' = pending \cup {c} /\ armed' = armed \cup {c} /\ openDialogs' = openDialogs
        /\ writeChain' = Append(writeChain, c) /\ stage[c] = "new"
    BY <1>3 DEF Issue, dialogs
  <2>2. \A d \in openDialogs : OwnerOf[d] # c
    BY <2>1 DEF Timing, Posed
  <2>3. Asked => Asked'
    <3>1. writeChain' = writeChain \o <<c>> /\ <<c>> \in Seq(Command \cup Dialog \cup {NoCommand})
      BY <1>0, <2>1 DEF TypeOK
    <3> QED BY <2>1, <3>1, AskedAfter DEF Asked
  <2> QED BY <1>0, <2>1, <2>2, <2>3 DEF Timing, TimedUnlessAsked, TypeOK
<1>4. CASE WriteDone
  <2>0. /\ openDialogs' = openDialogs /\ pending' = pending /\ writeChain' = Tail(writeChain)
        /\ writeChain # <<>> /\ Head(writeChain) \in Command \cup Dialog \cup {NoCommand}
    BY <1>0, <1>4 DEF WriteDone, dialogs, Typed, TypeOK
  <2>1. CASE Head(writeChain) \in Dialog /\ openDialogs = {}
    <3>1. armed' = Resumed BY <1>4, <2>1 DEF WriteDone
    <3>2. pending' \subseteq armed'
      BY <2>0, <3>1 DEF Resumed, Timing
    <3> QED BY <2>0, <2>1, <3>2 DEF TimedUnlessAsked
  <2>2. CASE Head(writeChain) \in Dialog /\ openDialogs # {}
    <3>1. armed' = armed /\ Asked' BY <1>4, <2>0, <2>2 DEF WriteDone, Asked
    <3> QED BY <2>0, <3>1 DEF TimedUnlessAsked, Timing
  <2>3. CASE Head(writeChain) \notin Dialog
    <3>1. armed' = armed BY <1>4, <2>3 DEF WriteDone
    <3>2. Asked => Asked'
      BY <2>0, <2>3, AskedAfter DEF Asked
    <3> QED BY <2>0, <3>1, <3>2 DEF TimedUnlessAsked, Timing
  <2> QED BY <2>1, <2>2, <2>3
<1>5. CASE WriteFails \/ WriteRefused
  <2>1. pending' = {} /\ armed' = {} /\ openDialogs' = openDialogs
    BY <1>0, <1>5 DEF WriteFails, WriteRefused, Fail, Waiting, TypeOK, dialogs
  <2> QED BY <1>2, <2>1
<1>6. CASE OnLine
  <2>0. openDialogs' = openDialogs /\ writeChain' = writeChain BY <1>6 DEF OnLine
  <2>1. CASE UNCHANGED <<pending, armed>>
    BY <1>1, <2>0, <2>1
  <2>2. CASE Fail(exitSeen)
    BY <1>2, <2>0, <2>2 DEF Fail
  <2>3. ASSUME NEW c \in Command, pending' = pending \ {c}, armed' = armed \ {c} PROVE Goal
    BY <2>0, <2>3 DEF Timing, TimedUnlessAsked, Asked
  <2> QED BY <1>6, <2>1, <2>2, <2>3 DEF OnLine
<1>7. CASE HandleAsk
  <2>1. /\ openDialogs' # {} /\ pending' = pending /\ openDialogs' \subseteq Dialog
        /\ armed' = {c \in armed : TypeOf[c] # "prompt"}
    BY <1>0, <1>7 DEF HandleAsk, TypeOK
  <2>2. \A d \in openDialogs' : OwnerOf[d] \notin armed'
    BY <2>1
  <2> QED BY <2>1, <2>2 DEF Timing, TimedUnlessAsked, Asked
<1>8. ASSUME NEW d \in Dialog, AnswerDialog(d) PROVE Goal
  <2>1. /\ writeChain' = Append(writeChain, d) /\ pending' = pending /\ armed' = armed
        /\ openDialogs' = openDialogs \ {d}
    BY <1>8 DEF AnswerDialog
  <2>2. Len(writeChain) + 1 \in DOMAIN writeChain' /\ writeChain'[Len(writeChain) + 1] = d
    BY <1>0, <2>1 DEF TypeOK
  <2>3. Asked' BY <2>2 DEF Asked
  <2> QED BY <2>1, <2>3 DEF Timing, TimedUnlessAsked
<1>9. CASE ReleaseDialogs
  <2>1. openDialogs' = {} /\ pending' = pending /\ armed' = Resumed
    BY <1>9 DEF ReleaseDialogs
  <2>2. pending' \subseteq armed'
    BY <2>1 DEF Resumed, Timing
  <2> QED BY <2>1, <2>2 DEF TimedUnlessAsked
<1>10. CASE Dispose \/ ExitEvent \/ \E c \in Command : TimeOut(c)
  BY <1>1, <1>2, <1>10 DEF Dispose, ExitEvent, TimeOut, Fail, dialogs
<1>11. CASE \/ WriteStart \/ GraceOver \/ ChildTalksNonsense \/ ChildEnds
            \/ \E c \in Command : ChildAnswers(c) \/ (Issue(c) /\ failed)
            \/ \E d \in Dialog : ChildAsks(d)
            \/ UNCHANGED vars
  BY <1>1, <1>11 DEF WriteStart, GraceOver, ChildTalksNonsense, ChildEnds, ChildAnswers, ChildAsks,
     Issue, Says, vars, server, dialogs
<1> QED
  BY <1>3, <1>4, <1>5, <1>6, <1>7, <1>8, <1>9, <1>10, <1>11 DEF Next

\* While a question is open its prompt is not timed, and a command is untimed only while a
\* question is open or an answer to one is being written: HandleAsk's suspension, the answers and
\* releaseDialogs never leave a command waiting without an end, nor end a prompt a person thinks
\* about (suspendCommandTimeout, answerExtensionUI, releaseDialogs).
THEOREM OnlyTheAskedAreUntimed == Spec => []TimedUnlessAsked
<1>1. Init => Timing
  BY DEF Init, Timing, TimedUnlessAsked, Posed
<1>2. Typed /\ Waiting /\ Timing /\ [Next]_vars => Timing'
  <2> SUFFICES ASSUME Typed, Waiting, Timing, [Next]_vars PROVE Timing'
    OBVIOUS
  <2>1. \A c \in received' : stage'[c] # "new"
    BY ReceivedStep
  <2>2. \A d \in Posed' : stage'[OwnerOf[d]] # "new"
    <3>1. TAKE d \in Posed'
    <3>2. d \in Dialog /\ stage[OwnerOf[d]] # "new" /\ OwnerOf[d] \in Command
      <4>1. CASE d \in Posed
        <5>1. d \in Dialog
          BY <4>1 DEF Posed, Typed, TypeOK, ChildLine
        <5> QED BY <4>1, <5>1, CommandAssumption DEF Timing, CommandAssumption
      <4>2. CASE d \in Dialog /\ OwnerOf[d] \in received
        BY <4>2, CommandAssumption DEF Timing, CommandAssumption
      <4> QED BY <3>1, <4>1, <4>2, PosedStep
    <3> QED BY <3>2, StageStep
  <2> QED BY <2>1, <2>2, TimedStep DEF Timing
<1>3. Timing => TimedUnlessAsked
  BY DEF Timing
<1> QED BY <1>1, <1>2, <1>3, AlwaysTyped, AlwaysWaiting, PTL DEF Spec

-----------------------------------------------------------------------------
(* Answers                                                                 *)

\* The lines that answer c and are not read yet.
Answering(c) == {i \in 1..Len(fromChild) : fromChild[i].kind = "response" /\ fromChild[i].of = c}
\* c is in the chain and its write has not begun.
Unwritten(c) == \E i \in 1..Len(writeChain) : writeChain[i] = c /\ (writing => i # 1)

\* While the process is in use, a command is in one place: it is to be written, the child has
\* it in hand, or one line answers it; and it is kept for that.
OnePlace ==
  \A c \in Command :
    /\ Unwritten(c) => c \in pending /\ c \notin received
    /\ c \in received => c \in pending /\ Answering(c) = {}
    /\ \A i \in Answering(c) : c \in pending /\ ~Unwritten(c) /\ \A j \in Answering(c) : i = j

Answered ==
  /\ AnswersAreTheirOwn
  /\ ~failed => OnePlace

\* A line of the child is added.
LEMMA LineAdded ==
  ASSUME TypeOK, NEW line, fromChild' = Append(fromChild, line), NEW c \in Command
  PROVE  \A i : i \in Answering(c)' <=>
                  \/ i \in Answering(c)
                  \/ line.kind = "response" /\ line.of = c /\ i = Len(fromChild) + 1
<1>1. /\ Len(fromChild) \in Nat /\ Len(fromChild') = Len(fromChild) + 1
      /\ fromChild'[Len(fromChild) + 1] = line
      /\ \A i \in 1..Len(fromChild) : fromChild'[i] = fromChild[i]
  BY DEF TypeOK
<1>2. \A i : i \in 1..Len(fromChild') <=> i \in 1..Len(fromChild) \/ i = Len(fromChild) + 1
  BY <1>1
<1>3. Len(fromChild) + 1 \notin 1..Len(fromChild)
  BY <1>1
<1> QED BY <1>1, <1>2, <1>3 DEF Answering

\* The first line is read.
LEMMA LineRead ==
  ASSUME TypeOK, fromChild # <<>>, fromChild' = Tail(fromChild), NEW c \in Command
  PROVE  \A i \in Answering(c)' : i + 1 \in Answering(c) /\ i + 1 # 1 /\ i \in Nat
<1>1. Len(fromChild) \in Nat /\ Len(fromChild') = Len(fromChild) - 1
  BY DEF TypeOK
<1>2. \A i \in 1..Len(fromChild') : /\ i + 1 \in 1..Len(fromChild) /\ i + 1 # 1 /\ i \in Nat
                                   /\ fromChild'[i] = fromChild[i + 1]
  BY <1>1 DEF TypeOK
<1> QED BY <1>2 DEF Answering

\* What is put in the chain is at its end.
LEMMA WriteAdded ==
  ASSUME Typed, NEW more \in Seq(Command \cup Dialog \cup {NoCommand}), writeChain' = writeChain \o more,
         writing' = writing, NEW c \in Command, Unwritten(c)'
  PROVE  Unwritten(c) \/ \E i \in 1..Len(more) : more[i] = c
<1>1. PICK i \in 1..Len(writeChain') : writeChain'[i] = c /\ (writing => i # 1)
  BY DEF Unwritten
<1>2. CASE i \in 1..Len(writeChain)
  BY <1>1, <1>2 DEF Unwritten, Typed, TypeOK
<1>3. CASE i \notin 1..Len(writeChain)
  <2>1. i - Len(writeChain) \in 1..Len(more) /\ more[i - Len(writeChain)] = c
    BY <1>1, <1>3 DEF Typed, TypeOK
  <2> QED BY <2>1
<1> QED BY <1>2, <1>3

\* The command a response is matched to is the one it answers, also without its id: the one it
\* answers is kept, so it is the only one of its type.
LEMMA FirstAnswersItself ==
  ASSUME Typed, OnePlace, fromChild # <<>>, Head(fromChild).kind = "response",
         NEW c \in Command, Matches(Head(fromChild)) = {c}
  PROVE  Head(fromChild).of = c /\ 1 \in Answering(c)
<1> DEFINE line == Head(fromChild)
<1>1. /\ line = fromChild[1] /\ 1 \in 1..Len(fromChild) /\ line \in ChildLine
  BY DEF Typed
<1>2. line.of \in Command
  BY <1>1 DEF ChildLine
<1>3. 1 \in Answering(line.of)
  BY <1>1 DEF Answering
<1>4. line.of \in pending
  BY <1>2, <1>3 DEF OnePlace
<1>5. line.of \in Matches(line)
  BY <1>4 DEF Matches
<1> QED BY <1>3, <1>5

LEMMA OnePlaceStep ==
  ASSUME Typed, Waiting, OnePlace, ~failed, ~failed', [Next]_vars
  PROVE  OnePlace'
<1> USE CommandAssumption DEF CommandAssumption
<1>0. TypeOK BY DEF Typed
<1>1. CASE UNCHANGED <<pending, received, fromChild, writeChain, writing>>
  BY <1>1 DEF OnePlace, Answering, Unwritten
<1>2. ASSUME NEW c \in Command, Issue(c) PROVE OnePlace'
  <2>1. /\ stage[c] = "new" /\ pending' = pending \cup {c}
        /\ writeChain' = writeChain \o <<c>> /\ <<c>> \in Seq(Command \cup Dialog \cup {NoCommand})
        /\ UNCHANGED <<writing, received, fromChild>>
    <3>1. <<c>> \in Seq(Command \cup Dialog \cup {NoCommand}) /\ writeChain \in Seq(Command \cup Dialog \cup {NoCommand})
      BY <1>0 DEF TypeOK
    <3>2. writeChain \o <<c>> = Append(writeChain, c)
      BY <3>1
    <3> QED BY <1>2, <3>1, <3>2 DEF Issue, child
  <2>2. c \notin pending
    BY <2>1 DEF Waiting, PendingIsWhoWaits
  <2>3. ASSUME NEW x \in Command, Unwritten(x)' PROVE Unwritten(x) \/ x = c
    <3>1. Unwritten(x) \/ \E i \in 1..Len(<<c>>) : <<c>>[i] = x
      BY <2>1, <2>3, WriteAdded
    <3> QED BY <3>1
  <2>4. \A x \in Command : Answering(x)' = Answering(x)
    BY <2>1 DEF Answering
  <2> QED BY <2>1, <2>2, <2>3, <2>4 DEF OnePlace
<1>3. CASE WriteStart
  <2>1. /\ writeChain # <<>> /\ ~writing /\ writing' /\ writeChain' = writeChain
        /\ received' = received \cup ({Head(writeChain)} \cap Command)
        /\ UNCHANGED <<pending, fromChild>>
    BY <1>3 DEF WriteStart
  <2>2. Head(writeChain) = writeChain[1] /\ 1 \in 1..Len(writeChain)
    BY <1>0, <2>1 DEF TypeOK
  <2>3. ASSUME NEW x \in Command, Unwritten(x)' PROVE Unwritten(x) /\ x # Head(writeChain)
    <3>1. PICK i \in 1..Len(writeChain) : writeChain[i] = x /\ i # 1
      BY <2>1, <2>3 DEF Unwritten
    <3> QED BY <2>1, <2>2, <3>1 DEF Unwritten, Waiting, ChainOK
  <2>4. Head(writeChain) \in Command => Unwritten(Head(writeChain))
    BY <2>1, <2>2 DEF Unwritten
  <2>5. \A x \in Command : Answering(x)' = Answering(x)
    BY <2>1 DEF Answering
  <2> QED BY <2>1, <2>3, <2>4, <2>5 DEF OnePlace
<1>4. CASE WriteDone \/ WriteRefused \/ WriteFails
  <2>1. /\ writing /\ ~writing' /\ writeChain' = Tail(writeChain) /\ writeChain # <<>>
        /\ UNCHANGED <<pending, received, fromChild>>
    BY <1>4 DEF WriteDone, WriteRefused, WriteFails, Fail, Typed, child
  <2>2. ASSUME NEW x \in Command, Unwritten(x)' PROVE Unwritten(x)
    <3>1. PICK i \in 1..Len(writeChain') : writeChain'[i] = x
      BY <2>2 DEF Unwritten
    <3>2. i + 1 \in 1..Len(writeChain) /\ i + 1 # 1 /\ writeChain[i + 1] = x
      BY <1>0, <2>1, <3>1 DEF TypeOK
    <3> QED BY <3>2 DEF Unwritten
  <2>3. ASSUME NEW x \in Command PROVE Answering(x)' = Answering(x)
    BY <2>1 DEF Answering
  <2> QED BY <2>1, <2>2, <2>3 DEF OnePlace
<1>5. CASE OnLine
  <2>1. /\ fromChild # <<>> /\ fromChild' = Tail(fromChild)
        /\ UNCHANGED <<writeChain, writing, received>>
    BY <1>5 DEF OnLine
  <2>2. \A x \in Command : Unwritten(x)' <=> Unwritten(x)
    BY <2>1 DEF Unwritten
  <2>3. \A x \in Command : \A i \in Answering(x)' :
          i + 1 \in Answering(x) /\ i + 1 # 1 /\ i \in Nat
    BY <1>0, <2>1, LineRead
  <2>4. ASSUME NEW c \in Command, Head(fromChild).kind = "response",
               Matches(Head(fromChild)) = {c}, pending' = pending \ {c}
        PROVE  OnePlace'
    <3>1. Head(fromChild).of = c /\ 1 \in Answering(c)
      BY <2>1, <2>4, FirstAnswersItself
    <3>2. Answering(c)' = {}
      BY <2>3, <3>1 DEF OnePlace
    <3>3. ~Unwritten(c) /\ c \notin received
      BY <3>1 DEF OnePlace
    <3> QED BY <2>1, <2>2, <2>3, <2>4, <3>2, <3>3 DEF OnePlace
  <2>5. CASE UNCHANGED pending
    BY <2>1, <2>2, <2>3, <2>5 DEF OnePlace
  <2> QED BY <1>5, <2>4, <2>5 DEF OnLine, Fail
<1>6. ASSUME NEW d \in Dialog, AnswerDialog(d) PROVE OnePlace'
  <2>1. /\ writeChain' = writeChain \o <<d>> /\ <<d>> \in Seq(Command \cup Dialog \cup {NoCommand})
        /\ UNCHANGED <<writing, received, fromChild, pending>>
    BY <1>0, <1>6 DEF AnswerDialog, TypeOK, child
  <2>2. ASSUME NEW x \in Command, Unwritten(x)' PROVE Unwritten(x)
    <3>1. Unwritten(x) \/ \E i \in 1..Len(<<d>>) : <<d>>[i] = x
      BY <2>1, <2>2, WriteAdded
    <3> QED BY <3>1
  <2>3. \A x \in Command : Answering(x)' = Answering(x)
    BY <2>1 DEF Answering
  <2> QED BY <2>1, <2>2, <2>3 DEF OnePlace
<1>7. CASE ReleaseDialogs
  <2>1. CASE writeChain' = writeChain
    BY <1>1, <1>7, <2>1 DEF ReleaseDialogs, child
  <2>2. CASE writeChain' = Append(writeChain, NoCommand)
    <3>1. /\ writeChain' = writeChain \o <<NoCommand>>
          /\ <<NoCommand>> \in Seq(Command \cup Dialog \cup {NoCommand})
          /\ UNCHANGED <<writing, received, fromChild, pending>>
      BY <1>0, <1>7, <2>2 DEF ReleaseDialogs, TypeOK, child
    <3>2. ASSUME NEW x \in Command, Unwritten(x)' PROVE Unwritten(x)
      <4>1. Unwritten(x) \/ \E i \in 1..Len(<<NoCommand>>) : <<NoCommand>>[i] = x
        BY <3>1, <3>2, WriteAdded
      <4> QED BY <4>1
    <3>3. \A x \in Command : Answering(x)' = Answering(x)
      BY <3>1 DEF Answering
    <3> QED BY <3>1, <3>2, <3>3 DEF OnePlace
  <2> QED BY <1>7, <2>1, <2>2 DEF ReleaseDialogs
<1>8. ASSUME NEW c \in Command, ChildAnswers(c) PROVE OnePlace'
  <2>1. PICK withId : Says([kind |-> "response", of |-> c, withId |-> withId])
    BY <1>8 DEF ChildAnswers
  <2>2. /\ c \in received /\ received' = received \ {c}
        /\ UNCHANGED <<writeChain, writing, pending>>
    BY <1>8, <2>1 DEF ChildAnswers, Says, server
  <2>3. fromChild' = Append(fromChild, [kind |-> "response", of |-> c, withId |-> withId])
    BY <2>1 DEF Says
  <2>4. \A x \in Command : \A i : i \in Answering(x)' <=>
          i \in Answering(x) \/ (x = c /\ i = Len(fromChild) + 1)
    BY <1>0, <2>3, LineAdded
  <2>5. \A x \in Command : Unwritten(x)' <=> Unwritten(x)
    BY <2>2 DEF Unwritten
  <2> QED BY <2>2, <2>4, <2>5 DEF OnePlace
<1>9. ASSUME NEW line, line.kind # "response", Says(line), UNCHANGED received PROVE OnePlace'
  <2>1. UNCHANGED <<writeChain, writing, pending, received>> /\ fromChild' = Append(fromChild, line)
    BY <1>9 DEF Says, server
  <2>2. \A x \in Command : Answering(x)' = Answering(x)
    BY <1>0, <1>9, <2>1, LineAdded
  <2>3. \A x \in Command : Unwritten(x)' <=> Unwritten(x)
    BY <2>1 DEF Unwritten
  <2> QED BY <2>1, <2>2, <2>3 DEF OnePlace
<1>10. CASE ChildTalksNonsense \/ \E d \in Dialog : ChildAsks(d)
  BY <1>9, <1>10 DEF ChildTalksNonsense, ChildAsks
<1>11. CASE \/ HandleAsk \/ GraceOver \/ ExitEvent \/ Dispose \/ ChildEnds
            \/ \E c \in Command : TimeOut(c)
            \/ UNCHANGED vars
  BY <1>1, <1>11 DEF HandleAsk, GraceOver, ExitEvent, Dispose, ChildEnds, TimeOut, Fail,
                     vars, server, child
<1> QED BY <1>2, <1>3, <1>4, <1>5, <1>6, <1>7, <1>8, <1>10, <1>11 DEF Next

LEMMA AnsweredStep ==
  ASSUME Typed, Waiting, Answered, [Next]_vars
  PROVE  Answered'
<1>1. ASSUME ~failed' PROVE ~failed
  BY <1>1 DEF Next, Issue, TimeOut, ChildAnswers, AnswerDialog, ChildAsks, WriteStart, WriteDone,
     WriteFails, WriteRefused, OnLine, HandleAsk, ReleaseDialogs, Dispose, GraceOver, ExitEvent,
     ChildTalksNonsense, ChildEnds, Fail, Says, vars, server
<1>2. ~failed' => OnePlace'
  BY <1>1, OnePlaceStep DEF Answered
<1>3. AnswersAreTheirOwn'
  <2>1. CASE UNCHANGED answeredBy
    BY <2>1 DEF Answered, AnswersAreTheirOwn
  <2>2. CASE OnLine
    <3>1. ASSUME NEW c \in Command, ~failed, Head(fromChild).kind = "response",
                 Matches(Head(fromChild)) = {c},
                 answeredBy' = [answeredBy EXCEPT ![c] = Head(fromChild).of]
          PROVE  AnswersAreTheirOwn'
      <4>1. Head(fromChild).of = c
        BY <2>2, <3>1, FirstAnswersItself DEF Answered, OnLine
      <4> QED BY <3>1, <4>1 DEF Answered, AnswersAreTheirOwn, Typed, TypeOK
    <3> QED BY <2>1, <2>2, <3>1 DEF OnLine
  <2>3. CASE Next /\ ~OnLine
    BY <2>1, <2>3 DEF Next, Issue, TimeOut, ChildAnswers, AnswerDialog, ChildAsks, WriteStart,
       WriteDone, WriteFails, WriteRefused, HandleAsk, ReleaseDialogs, Dispose, GraceOver,
       ExitEvent, ChildTalksNonsense, ChildEnds, Says, server
  <2>4. CASE UNCHANGED vars
    BY <2>1, <2>4 DEF vars, server
  <2> QED BY <2>2, <2>3, <2>4
<1> QED BY <1>2, <1>3 DEF Answered

\* No command is given the answer to another, however many of one type are under way and whatever
\* the child leaves out, as long as it answers each once (settle, pendingByType).
THEOREM AnswersGoWhereTheyBelong == Spec => []AnswersAreTheirOwn
<1>1. Init => Answered
  BY DEF Init, Answered, AnswersAreTheirOwn, OnePlace, Unwritten, Answering
<1>2. Typed /\ Waiting /\ Answered /\ [Next]_vars => Answered'
  BY AnsweredStep
<1>3. Answered => AnswersAreTheirOwn
  BY DEF Answered
<1> QED BY <1>1, <1>2, <1>3, AlwaysTyped, AlwaysWaiting, PTL DEF Spec

-----------------------------------------------------------------------------
(* What the caller of a command is told                                    *)

LEMMA TakenStep ==
  ASSUME NEW c \in Command, Outcome(c) = "none", failed' = failed, failed \in BOOLEAN,
         Outcome(c)' = IF failed THEN "rejected" ELSE "pending",
         \A x \in Command : x # c => Outcome(x)' = Outcome(x)
  PROVE  Abstract!Issue(c)
BY DEF Abstract!Issue

LEMMA SettledStep ==
  ASSUME NEW c \in Command, Outcome(c) = "pending", failed' = failed,
         Outcome(c)' \in {"answered", "rejected"},
         \A x \in Command : x # c => Outcome(x)' = Outcome(x)
  PROVE  Abstract!Settle(c)
<1> DEFINE how == Outcome(c)'
<1>1. how \in {"answered", "rejected"}
  OBVIOUS
<1>2. [x \in Command |-> Outcome(x)]' = [[x \in Command |-> Outcome(x)] EXCEPT ![c] = how]
  OBVIOUS
<1>3. [x \in Command |-> Outcome(x)][c] = "pending"
  OBVIOUS
<1> HIDE DEF how
<1> QED BY <1>1, <1>2, <1>3 DEF Abstract!Settle

LEMMA ClosedStep ==
  ASSUME ~failed, failed',
         \A x \in Command : \/ Outcome(x)' = Outcome(x)
                            \/ Outcome(x) = "pending" /\ Outcome(x)' = "rejected"
  PROVE  Abstract!Close
<1> DEFINE out == [x \in Command |-> Outcome(x)]
           told == {x \in Command : Outcome(x) = "pending" /\ Outcome(x)' = "rejected"}
<1>1. told \in SUBSET {x \in Command : out[x] = "pending"}
  OBVIOUS
<1>2. out' = [x \in Command |-> IF x \in told THEN "rejected" ELSE out[x]]
  OBVIOUS
<1> HIDE DEF told
<1> QED BY <1>1, <1>2 DEF Abstract!Close

LEMMA SameStep ==
  ASSUME failed' = failed, \A x \in Command : Outcome(x)' = Outcome(x)
  PROVE  UNCHANGED Abstract!vars
BY DEF Abstract!vars

LEMMA ImplementsStep ==
  ASSUME Typed, Waiting, [Next]_vars
  PROVE  [Abstract!Next]_(Abstract!vars)
<1> USE CommandAssumption DEF CommandAssumption
<1>0. TypeOK BY DEF Typed
<1>1. CASE UNCHANGED <<stage, result, failed>>
  <2>1. \A x \in Command : Outcome(x)' = Outcome(x)
    BY <1>1 DEF Outcome
  <2> QED BY <1>1, <2>1, SameStep
<1>2. ASSUME NEW c \in Command, Issue(c) PROVE Abstract!Next
  <2>1. /\ stage[c] = "new" /\ result' = result /\ failed' = failed
        /\ stage' = [stage EXCEPT ![c] = IF failed THEN "threw" ELSE "writing"]
    BY <1>2 DEF Issue
  <2>2. /\ Outcome(c) = "none" /\ Outcome(c)' = IF failed THEN "rejected" ELSE "pending"
        /\ \A x \in Command : x # c => Outcome(x)' = Outcome(x)
    BY <1>0, <2>1 DEF Outcome, TypeOK
  <2> QED BY <1>0, <2>1, <2>2, TakenStep DEF Abstract!Next, TypeOK
\* The first of the chain is over, with or without the process: its caller may be told so.
<1>3. ASSUME writeChain # <<>>, result' = result, failed' = failed,
             \/ stage' = Thrown
             \/ stage' = IF Head(writeChain) \in Command
                            THEN [stage EXCEPT ![Head(writeChain)] = "sent"] ELSE stage
      PROVE  [Abstract!Next]_(Abstract!vars)
  <2>0. PICK h : h = Head(writeChain)
    OBVIOUS
  <2>1. CASE h \notin Command
    BY <1>1, <1>3, <2>0, <2>1 DEF Thrown
  <2>2. CASE h \in Command
    <3>1. stage[h] = "writing"
      BY <1>0, <1>3, <2>0, <2>2 DEF Waiting, ChainOK, TypeOK
    <3>2. /\ Outcome(h) = "pending"
          /\ Outcome(h)' \in {"pending", "answered", "rejected"}
          /\ \A x \in Command : x # h => Outcome(x)' = Outcome(x)
      BY <1>0, <1>3, <2>0, <2>2, <3>1 DEF Outcome, Thrown, TypeOK
    <3>3. CASE Outcome(h)' = "pending"
      BY <1>3, <3>2, <3>3, SameStep
    <3>4. CASE Outcome(h)' \in {"answered", "rejected"}
      BY <1>3, <2>2, <3>2, <3>4, SettledStep DEF Abstract!Next
    <3> QED BY <3>2, <3>3, <3>4
  <2> QED BY <2>1, <2>2
\* The process is given up on: those whose record went out are told.
<1>4. ASSUME NEW seen, Fail(seen), stage' = stage PROVE [Abstract!Next]_(Abstract!vars)
  <2>1. CASE failed
    <3>1. result' = result /\ failed' = failed
      BY <1>0, <1>4, <2>1 DEF Waiting, Fail, RejectPending, TypeOK
    <3> QED BY <1>1, <1>4, <3>1
  <2>2. CASE ~failed
    <3>1. \A x \in Command : \/ Outcome(x)' = Outcome(x)
                             \/ Outcome(x) = "pending" /\ Outcome(x)' = "rejected"
      BY <1>0, <1>4 DEF Waiting, PendingIsWhoWaits, Outcome, Fail, RejectPending, TypeOK
    <3> QED BY <1>4, <2>2, <3>1, ClosedStep DEF Fail, Abstract!Next
  <2> QED BY <2>1, <2>2
<1>5. CASE WriteFails
  <2>1. CASE UNCHANGED <<result, failed>>
    BY <1>3, <1>5, <2>1 DEF WriteFails, Typed
  <2>2. CASE ~failed /\ Fail(exitSeen)
    <3>1. /\ stage' = Thrown
          /\ Head(writeChain) \in Command => stage[Head(writeChain)] = "writing"
      BY <1>0, <1>5 DEF WriteFails, Typed, Waiting, ChainOK, TypeOK
    <3>2. \A x \in Command : \/ Outcome(x)' = Outcome(x)
                             \/ Outcome(x) = "pending" /\ Outcome(x)' = "rejected"
      BY <1>0, <2>2, <3>1
         DEF Waiting, PendingIsWhoWaits, Outcome, Thrown, Fail, RejectPending, TypeOK
    <3> QED BY <2>2, <3>2, ClosedStep DEF Fail, Abstract!Next
  <2> QED BY <1>5, <2>1, <2>2 DEF WriteFails
<1>6. CASE WriteDone \/ WriteRefused
  BY <1>3, <1>6 DEF WriteDone, WriteRefused, Typed
<1>7. CASE OnLine
  <2>1. ASSUME NEW c \in Command, Matches(Head(fromChild)) = {c}, failed' = failed,
               result' = [result EXCEPT ![c] = "answered"], stage' = stage
        PROVE  [Abstract!Next]_(Abstract!vars)
    <3>1. stage[c] \in {"writing", "sent"} /\ result[c] = "none"
      BY <2>1 DEF Matches, Waiting, PendingIsWhoWaits
    <3>2. /\ Outcome(c) = "pending" /\ Outcome(c)' \in {"pending", "answered"}
          /\ \A x \in Command : x # c => Outcome(x)' = Outcome(x)
      BY <1>0, <2>1, <3>1 DEF Outcome, TypeOK
    <3>3. CASE Outcome(c)' = "pending"
      BY <2>1, <3>2, <3>3, SameStep
    <3>4. CASE Outcome(c)' = "answered"
      BY <2>1, <3>2, <3>4, SettledStep DEF Abstract!Next
    <3> QED BY <3>2, <3>3, <3>4
  <2> QED BY <1>1, <1>4, <1>7, <2>1 DEF OnLine
<1>8. CASE Dispose \/ ExitEvent \/ \E c \in Command : TimeOut(c)
  BY <1>1, <1>4, <1>8 DEF Dispose, ExitEvent, TimeOut
<1>9. CASE \/ WriteStart \/ HandleAsk \/ ReleaseDialogs \/ GraceOver
           \/ ChildTalksNonsense \/ ChildEnds
           \/ \E c \in Command : ChildAnswers(c)
           \/ \E d \in Dialog : AnswerDialog(d) \/ ChildAsks(d)
           \/ UNCHANGED vars
  BY <1>1, <1>9 DEF WriteStart, HandleAsk, ReleaseDialogs, GraceOver, ChildTalksNonsense,
     ChildEnds, ChildAnswers, AnswerDialog, ChildAsks, Says, vars, server
<1> QED BY <1>2, <1>5, <1>6, <1>7, <1>8, <1>9 DEF Next

\* The process keeps the safety part of what Commands promises: a command is told one outcome, it
\* keeps it, and none is taken once the process has failed (command, settle, fail).
THEOREM ProcessImplementsCommands == Spec => Abstract!Init /\ [][Abstract!Next]_(Abstract!vars)
<1>1. Init => Abstract!Init
  BY DEF Init, Abstract!Init, Outcome
<1>2. Typed /\ Waiting /\ [Next]_vars => [Abstract!Next]_(Abstract!vars)
  BY ImplementsStep
<1> QED BY <1>1, <1>2, AlwaysTyped, AlwaysWaiting, PTL DEF Spec
=============================================================================
