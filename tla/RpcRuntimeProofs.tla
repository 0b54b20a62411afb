--------------------------- MODULE RpcRuntimeProofs ---------------------------
(***************************************************************************)
(* Theorems about RpcRuntime.                                              *)
(***************************************************************************)
EXTENDS RpcRuntime, FiniteSetTheorems, NaturalsInduction, WellFoundedInduction, TLAPS

-----------------------------------------------------------------------------
(* Sequences of lines: what follows what                                   *)

\* Some line of the sequence is in the set.
SomeIn(L, E) == \E j \in 1..Len(L) : L[j] \in E
\* After each line of S there is one of E.
Followed(L, S, E) == \A i \in 1..Len(L) : L[i] \in S => \E j \in 1..Len(L) : i < j /\ L[j] \in E
\* Between a line of S and a later one of B there is one of E.
Barred(L, S, E, B) ==
  \A i, k \in 1..Len(L) : i < k /\ L[i] \in S /\ L[k] \in B => \E j \in 1..Len(L) : i < j /\ j < k /\ L[j] \in E
\* Before each line of B there is one of E.
Before(L, E, B) == \A k \in 1..Len(L) : L[k] \in B => \E j \in 1..Len(L) : j < k /\ L[j] \in E
\* At most one line is in the set.
OnlyOne(L, E) == \A i, j \in 1..Len(L) : L[i] \in E /\ L[j] \in E => i = j
-----------------------------------------------------------------------------
(* The lines and their types                                               *)

\* The child's messages: no partial one is ever among them.
Spoken == {m \in Message : m.role # "partial"}
Questions == {"state", "messages", "rest"}
CommandLine ==
  {c \in [command : Questions \cup {"prompt", "new", "abort"}, of : Prompt \cup {None}, steer : BOOLEAN] :
     c.command = "prompt" => c.of \in Prompt}
Outcomes == {"started", "queued", "unsaid", "handled", "silent", "refused", "suspended"}
Sayings == Outcomes \cup {"ok", "cancelled", "failed", "idle", "streaming"}
AnswerLine ==
  {a \in [kind : {"answer"}, to : Questions \cup {"prompt", "new"}, of : Prompt \cup {None}, data : Seq(Spoken),
          says : Sayings] :
     a.to = "prompt" => a.of \in Prompt /\ a.says \in Outcomes}
\* A message that ends is the child's; a retry, the turn and the refresh have no message to speak of.
RecordLine ==
  {r \in [kind : {"agent_start", "agent_end", "agent_settled", "message_start", "message_end", "auto_retry_start",
                  "auto_retry_failed", "compaction_end", "rebootstrap"}, message : Message] :
     r.kind = "message_end" => r.message \in Spoken}
Line == AnswerLine \cup RecordLine
\* What was said by the child and not handled yet, in the order it was said.
Lines == records \o fromChild

Tasks == [task : {"none", "turn", "compaction", "session"}, waits : {"none"} \cup Questions]
\* A task asks one question after the other; only a session's first is the state.
WorkOK ==
  /\ work \in Tasks
  /\ work.task = "none" <=> work.waits = "none"
  /\ work.waits = "state" => work.task = "session"
Typed ==
  /\ completionEvent \in {"agent_settled", "agent_end"}
  /\ streaming \in BOOLEAN /\ failed \in BOOLEAN /\ told \in BOOLEAN
  /\ misled \in BOOLEAN /\ suspended \in BOOLEAN
  /\ messages \in Seq(Message) /\ history \in Seq(Spoken)
  /\ pc \in [Prompt -> {"new", "sent", "accepted", "refused"}]
  /\ newSession \in {"no", "sent", "rebooting", "over"}
  /\ turn \in {"idle", "begun", "asking", "replying", "waiting"}
  /\ prompts \in Seq(Prompt) /\ abandoned \subseteq Prompt
  /\ turn # "idle" => prompts # <<>>
  /\ left \subseteq Extras
  /\ toChild \in Seq(CommandLine) /\ fromChild \in Seq(Line) /\ records \in Seq(RecordLine)
  /\ WorkOK

\* One question at a time: the one the record being handled waits for is on its way, or its answer.
Asking == {c \in CommandLine : c.command \in Questions}
Answering == {l \in AnswerLine : l.to \in Questions}
Matched ==
  /\ OnlyOne(toChild, Asking) /\ OnlyOne(Lines, Answering)
  /\ ~(SomeIn(toChild, Asking) /\ SomeIn(Lines, Answering))
  /\ \A i \in 1..Len(toChild) : toChild[i] \in Asking => toChild[i].command = work.waits
  /\ \A i \in 1..Len(Lines) : Lines[i] \in Answering => Lines[i].to = work.waits

\* A session is replaced once: its command, its answer, its refresh in the queue and that
\* refresh under way come after one another.
AskNew == {c \in CommandLine : c.command = "new"}
AnsweredNew == {l \in AnswerLine : l.to = "new"}
Rebootstrap == {l \in RecordLine : l.kind = "rebootstrap"}
News == AnsweredNew \cup Rebootstrap
OneSession ==
  /\ OnlyOne(toChild, AskNew) /\ OnlyOne(Lines, News)
  /\ ~(SomeIn(toChild, AskNew) /\ SomeIn(Lines, News))
  /\ SomeIn(toChild, AskNew) \/ SomeIn(Lines, AnsweredNew) => newSession = "sent"
  /\ SomeIn(Lines, Rebootstrap) \/ work.task = "session" => newSession = "rebooting"
  /\ work.task = "session" => ~SomeIn(Lines, News)
  /\ "new" \in left => newSession = "no"

\* Lines after which the server has a turn running, those that end it, and those that start the
\* refresh of a new session.
Starts ==
  {l \in AnswerLine : (l.to = "prompt" /\ l.says \in {"started", "queued", "unsaid"}) \/ (l.to = "state" /\ l.says = "streaming")}
  \cup {l \in RecordLine : l.kind \in {"agent_start", "auto_retry_start"}}
Ends ==
  {l \in RecordLine : l.kind = completionEvent \/ (l.kind = "auto_retry_failed" /\ completionEvent = "agent_end")}
Reboots == {l \in AnsweredNew : l.says # "cancelled"} \cup Rebootstrap
\* Whatever has the server say that a turn runs, its end is to come; unless the server was
\* misled, and no turn runs.
EndsAt(L, t) ==
  /\ t = "idle" => Followed(L, Starts, Ends)
  /\ Barred(L, Starts, Ends, Reboots)
  /\ misled \/ /\ told /\ t = "idle" => SomeIn(L, Ends) \/ work.task = "turn"
               /\ streaming /\ t = "idle" => SomeIn(L, Ends)
               /\ told => Before(L, Ends, Reboots) \/ work.task = "turn"
               /\ told => streaming \/ work.task = "turn"
               /\ told => work.task # "session"
EndsComing == EndsAt(Lines, turn)

\* Lines that put a partial message into the mirror, and those that take it away.
PartialStarts == {l \in RecordLine : l.kind = "message_start"}
PartialEnds ==
  {l \in RecordLine : l.kind = completionEvent \/ (l.kind = "message_end" /\ l.message.role = "assistant")}
HasPartial == \E i \in 1..Len(messages) : messages[i] = Partial
\* The messages are about to be replaced.
Replacing == work.waits \in {"state", "messages"}
PartialAt(L, t) ==
  /\ \A i, j \in 1..Len(messages) : messages[i] = Partial /\ messages[j] = Partial => i = j
  /\ Barred(L, PartialStarts, PartialEnds, PartialStarts)
  /\ t # "replying" => Followed(L, PartialStarts, PartialEnds)
  /\ t # "replying" /\ HasPartial => SomeIn(L, PartialEnds) \/ Replacing
  /\ HasPartial => Before(L, PartialEnds, PartialStarts) \/ Replacing
OnePartial == PartialAt(Lines, turn)

\* The child has not seen the prompt.
Unseen(p) == p \notin abandoned /\ (\A i \in 1..Len(prompts) : prompts[i] # p) /\ \A i \in 1..Len(history) : history[i].of # p
\* None of these messages is of the session that was replaced.
Clean(seq) == \A i \in 1..Len(seq) : seq[i].of \notin abandoned
MessagesAnswers == {l \in AnswerLine : l.to = "messages"}
OfTheNew ==
  /\ Clean(history) /\ \A i \in 1..Len(prompts) : prompts[i] \notin abandoned
  /\ \A p \in Prompt : pc[p] = "new" => Unseen(p)
  /\ \A i \in 1..Len(toChild) : toChild[i].command = "prompt" => Unseen(toChild[i].of) /\ pc[toChild[i].of] # "new"
  /\ \A i, j \in 1..Len(toChild) :
       toChild[i].command = "prompt" /\ toChild[j].command = "prompt" /\ toChild[i].of = toChild[j].of => i = j
  /\ work.task = "session" => \A i \in 1..Len(Lines) : Lines[i] \in MessagesAnswers => Clean(Lines[i].data)
  /\ work.task = "session" /\ work.waits = "rest" => Clean(messages)

\* Said after the others, lines come after them.
LEMMA EmitSome ==
  ASSUME NEW T, NEW L \in Seq(T), NEW lines \in Seq(T), NEW E
  PROVE  /\ L \o lines \in Seq(T)
         /\ SomeIn(L \o lines, E) <=> SomeIn(L, E) \/ SomeIn(lines, E)
<1> DEFINE M == L \o lines
<1>1. /\ M \in Seq(T) /\ Len(M) = Len(L) + Len(lines) /\ Len(L) \in Nat /\ Len(lines) \in Nat
      /\ \A i \in 1..Len(L) : M[i] = L[i]
      /\ \A i \in 1..Len(lines) : M[Len(L) + i] = lines[i]
  OBVIOUS
<1>2. ASSUME NEW j \in 1..Len(M) PROVE j \in 1..Len(L) \/ (j - Len(L) \in 1..Len(lines) /\ M[j] = lines[j - Len(L)])
  BY <1>1, <1>2
<1> HIDE DEF M
<1>3. SomeIn(M, E) => SomeIn(L, E) \/ SomeIn(lines, E)
  BY <1>1, <1>2 DEF SomeIn
<1>4. SomeIn(L, E) => SomeIn(M, E)
  BY <1>1 DEF SomeIn
<1>5. ASSUME SomeIn(lines, E) PROVE SomeIn(M, E)
  <2>1. PICK j \in 1..Len(lines) : lines[j] \in E
    BY <1>5 DEF SomeIn
  <2>2. Len(L) + j \in 1..Len(M) /\ M[Len(L) + j] \in E
    BY <1>1, <2>1
  <2> QED BY <2>2 DEF SomeIn
<1> QED BY <1>1, <1>3, <1>4, <1>5 DEF M

\* They follow what they have after every line to be followed.
LEMMA EmitFollowed ==
  ASSUME NEW T, NEW L \in Seq(T), NEW lines \in Seq(T), NEW S, NEW E,
         \/ Followed(L, S, E) /\ ~SomeIn(lines, S)
         \/ \E e \in 1..Len(lines) : lines[e] \in E /\ \A i \in 1..Len(lines) : lines[i] \in S => i < e
  PROVE  Followed(L \o lines, S, E)
<1> DEFINE M == L \o lines
<1>1. /\ M \in Seq(T) /\ Len(M) = Len(L) + Len(lines) /\ Len(L) \in Nat /\ Len(lines) \in Nat
      /\ \A i \in 1..Len(L) : M[i] = L[i]
      /\ \A i \in 1..Len(lines) : M[Len(L) + i] = lines[i]
  OBVIOUS
<1>2. ASSUME NEW j \in 1..Len(M) PROVE j \in 1..Len(L) \/ (j - Len(L) \in 1..Len(lines) /\ M[j] = lines[j - Len(L)])
  BY <1>1, <1>2
<1> HIDE DEF M
<1> SUFFICES ASSUME NEW i \in 1..Len(M), M[i] \in S PROVE \E j \in 1..Len(M) : i < j /\ M[j] \in E
  BY DEF Followed, M
<1>3. CASE Followed(L, S, E) /\ ~SomeIn(lines, S)
  <2>1. i \in 1..Len(L) /\ L[i] \in S
    BY <1>1, <1>2, <1>3 DEF SomeIn
  <2>2. PICK j \in 1..Len(L) : i < j /\ L[j] \in E
    BY <1>3, <2>1 DEF Followed
  <2> QED BY <1>1, <2>2
<1>4. CASE \E e \in 1..Len(lines) : lines[e] \in E /\ \A k \in 1..Len(lines) : lines[k] \in S => k < e
  <2>1. PICK e \in 1..Len(lines) : lines[e] \in E /\ \A k \in 1..Len(lines) : lines[k] \in S => k < e
    BY <1>4
  <2>2. Len(L) + e \in 1..Len(M) /\ M[Len(L) + e] \in E
    BY <1>1, <2>1
  <2>3. i < Len(L) + e
    <3>1. CASE i \in 1..Len(L)
      BY <1>1, <2>1, <3>1
    <3>2. CASE i - Len(L) \in 1..Len(lines) /\ M[i] = lines[i - Len(L)]
      <4>1. i - Len(L) < e
        BY <2>1, <3>2
      <4> QED BY <1>1, <2>1, <4>1
    <3> QED BY <1>2, <3>1, <3>2
  <2> QED BY <2>2, <2>3
<1> QED BY <1>3, <1>4

\* They come between nothing.
LEMMA EmitBarred ==
  ASSUME NEW T, NEW L \in Seq(T), NEW lines \in Seq(T), NEW S, NEW E, NEW B, ~SomeIn(lines, B)
  PROVE  /\ Barred(L, S, E, B) => Barred(L \o lines, S, E, B)
         /\ Before(L, E, B) => Before(L \o lines, E, B)
<1> DEFINE M == L \o lines
<1>1. /\ M \in Seq(T) /\ Len(M) = Len(L) + Len(lines) /\ Len(L) \in Nat /\ Len(lines) \in Nat
      /\ \A i \in 1..Len(L) : M[i] = L[i]
      /\ \A i \in 1..Len(lines) : M[Len(L) + i] = lines[i]
  OBVIOUS
<1>2. ASSUME NEW k \in 1..Len(M), M[k] \in B PROVE k \in 1..Len(L) /\ L[k] \in B
  <2>1. k \in 1..Len(L) \/ (k - Len(L) \in 1..Len(lines) /\ M[k] = lines[k - Len(L)])
    BY <1>1, <1>2
  <2> HIDE DEF M
  <2> QED BY <1>1, <1>2, <2>1 DEF SomeIn
<1> HIDE DEF M
<1>3. ASSUME Barred(L, S, E, B) PROVE Barred(M, S, E, B)
  <2> SUFFICES ASSUME NEW i \in 1..Len(M), NEW k \in 1..Len(M), i < k, M[i] \in S, M[k] \in B
               PROVE  \E j \in 1..Len(M) : i < j /\ j < k /\ M[j] \in E
    BY DEF Barred
  <2>1. k \in 1..Len(L) /\ L[k] \in B /\ i \in 1..Len(L) /\ L[i] \in S
    BY <1>1, <1>2
  <2>2. PICK j \in 1..Len(L) : i < j /\ j < k /\ L[j] \in E
    BY <1>3, <2>1 DEF Barred
  <2> QED BY <1>1, <2>2
<1>4. ASSUME Before(L, E, B) PROVE Before(M, E, B)
  <2> SUFFICES ASSUME NEW k \in 1..Len(M), M[k] \in B PROVE \E j \in 1..Len(M) : j < k /\ M[j] \in E
    BY DEF Before
  <2>1. PICK j \in 1..Len(L) : j < k /\ L[j] \in E
    BY <1>2, <1>4 DEF Before
  <2> QED BY <1>1, <2>1
<1> QED BY <1>3, <1>4 DEF M

\* The last line, and what it needs before it.
LEMMA EmitLast ==
  ASSUME NEW T, NEW L \in Seq(T), NEW x \in T, NEW S, NEW E, NEW B
  PROVE  /\ Barred(L, S, E, B) /\ Followed(L, S, E) => Barred(Append(L, x), S, E, B)
         /\ Before(L, E, B) /\ SomeIn(L, E) => Before(Append(L, x), E, B)
<1> DEFINE M == Append(L, x)
<1>1. /\ M \in Seq(T) /\ Len(M) = Len(L) + 1 /\ Len(L) \in Nat
      /\ \A i \in 1..Len(L) : M[i] = L[i]
  OBVIOUS
<1>2. \A k \in 1..Len(M) : k \in 1..Len(L) \/ k = Len(L) + 1
  BY <1>1
<1> HIDE DEF M
<1>3. ASSUME Barred(L, S, E, B), Followed(L, S, E) PROVE Barred(M, S, E, B)
  <2> SUFFICES ASSUME NEW i \in 1..Len(M), NEW k \in 1..Len(M), i < k, M[i] \in S, M[k] \in B
               PROVE  \E j \in 1..Len(M) : i < j /\ j < k /\ M[j] \in E
    BY DEF Barred
  <2>1. i \in 1..Len(L) /\ L[i] \in S
    BY <1>1
  <2>2. CASE k \in 1..Len(L)
    <3>1. PICK j \in 1..Len(L) : i < j /\ j < k /\ L[j] \in E
      BY <1>1, <1>3, <2>1, <2>2 DEF Barred
    <3> QED BY <1>1, <3>1
  <2>3. CASE k = Len(L) + 1
    <3>1. PICK j \in 1..Len(L) : i < j /\ L[j] \in E
      BY <1>3, <2>1 DEF Followed
    <3> QED BY <1>1, <2>3, <3>1
  <2> QED BY <1>2, <2>2, <2>3
<1>4. ASSUME Before(L, E, B), SomeIn(L, E) PROVE Before(M, E, B)
  <2> SUFFICES ASSUME NEW k \in 1..Len(M), M[k] \in B PROVE \E j \in 1..Len(M) : j < k /\ M[j] \in E
    BY DEF Before
  <2>1. CASE k \in 1..Len(L)
    <3>1. PICK j \in 1..Len(L) : j < k /\ L[j] \in E
      BY <1>1, <1>4, <2>1 DEF Before
    <3> QED BY <1>1, <3>1
  <2>2. CASE k = Len(L) + 1
    <3>1. PICK j \in 1..Len(L) : L[j] \in E
      BY <1>4 DEF SomeIn
    <3> QED BY <1>1, <2>2, <3>1
  <2> QED BY <1>2, <2>1, <2>2
<1> QED BY <1>3, <1>4 DEF M

\* M is L without its line k.
Without(L, M, k) ==
  /\ k \in 1..Len(L) /\ Len(L) = Len(M) + 1
  /\ \A i \in 1..Len(M) : M[i] = IF i < k THEN L[i] ELSE L[i + 1]
\* M is L but for its line k.
Instead(L, M, k) ==
  /\ k \in 1..Len(L) /\ Len(L) = Len(M)
  /\ \A i \in 1..Len(M) : i # k => M[i] = L[i]

\* Where the lines of L are in M.
LEMMA WithoutPlaces ==
  ASSUME NEW T, NEW L \in Seq(T), NEW M \in Seq(T), NEW k, Without(L, M, k)
  PROVE  /\ \A j \in 1..Len(L) : j < k => j \in 1..Len(M) /\ M[j] = L[j]
         /\ \A j \in 1..Len(L) : k < j => j - 1 \in 1..Len(M) /\ M[j - 1] = L[j]
         /\ \A i \in 1..Len(M) : i < k => i \in 1..Len(L) /\ M[i] = L[i]
         /\ \A i \in 1..Len(M) : ~(i < k) => i + 1 \in 1..Len(L) /\ M[i] = L[i + 1]
<1>1. Len(L) \in Nat /\ Len(M) \in Nat
  OBVIOUS
<1> QED BY <1>1 DEF Without

\* A line that ends nothing, or the first, may go.
LEMMA WithoutKeeps ==
  ASSUME NEW T, NEW L \in Seq(T), NEW M \in Seq(T), NEW k, Without(L, M, k), NEW S, NEW E, NEW B
  PROVE  /\ SomeIn(M, S) => SomeIn(L, S)
         /\ OnlyOne(L, S) => OnlyOne(M, S)
         /\ OnlyOne(L, S) /\ L[k] \in S => ~SomeIn(M, S)
         /\ L[k] \notin E /\ SomeIn(L, E) => SomeIn(M, E)
         /\ (k = 1 \/ L[k] \notin E) /\ Followed(L, S, E) => Followed(M, S, E)
         /\ (k = 1 \/ L[k] \notin E) /\ Barred(L, S, E, B) => Barred(M, S, E, B)
         /\ L[k] \notin E /\ Before(L, E, B) => Before(M, E, B)
<1>1. Len(L) \in Nat /\ Len(M) \in Nat /\ k \in 1..Len(L) /\ Len(L) = Len(M) + 1
  BY DEF Without
<1> DEFINE Up(i) == IF i < k THEN i ELSE i + 1
           Down(j) == IF j < k THEN j ELSE j - 1
<1>2. \A i \in 1..Len(M) : Up(i) \in 1..Len(L) /\ Up(i) # k /\ L[Up(i)] = M[i]
  BY <1>1, WithoutPlaces
<1>3. \A j \in 1..Len(L) : j # k => Down(j) \in 1..Len(M) /\ M[Down(j)] = L[j] /\ Up(Down(j)) = j
  BY <1>1, WithoutPlaces
<1>4. \A i, j \in 1..Len(M) : (i < j => Up(i) < Up(j)) /\ (Up(i) < Up(j) => i < j)
  BY <1>1
<1>5. \A i \in 1..Len(M), j \in 1..Len(L) : j # k => (Up(i) < j => i < Down(j)) /\ (j < Up(i) => Down(j) < i)
  BY <1>1
<1>6. \A i \in 1..Len(M) : k = 1 => 1 < Up(i)
  BY <1>1
<1> HIDE DEF Up, Down
<1>7. (SomeIn(M, S) => SomeIn(L, S)) /\ (OnlyOne(L, S) => OnlyOne(M, S))
  <2>1. \A i, j \in 1..Len(M) : Up(i) = Up(j) => i = j
    BY <1>1 DEF Up
  <2> QED BY <1>2, <2>1 DEF SomeIn, OnlyOne
<1>8. OnlyOne(L, S) /\ L[k] \in S => ~SomeIn(M, S)
  BY <1>1, <1>2 DEF SomeIn, OnlyOne
<1>9. L[k] \notin E /\ SomeIn(L, E) => SomeIn(M, E)
  BY <1>3 DEF SomeIn
<1>10. ASSUME k = 1 \/ L[k] \notin E, Followed(L, S, E) PROVE Followed(M, S, E)
  <2> SUFFICES ASSUME NEW i \in 1..Len(M), M[i] \in S PROVE \E j \in 1..Len(M) : i < j /\ M[j] \in E
    BY DEF Followed
  <2>1. PICK j \in 1..Len(L) : Up(i) < j /\ L[j] \in E
    BY <1>2, <1>10 DEF Followed
  <2>2. j # k
    BY <1>1, <1>2, <1>6, <1>10, <2>1
  <2> QED BY <1>3, <1>5, <2>1, <2>2
<1>11. ASSUME k = 1 \/ L[k] \notin E, Barred(L, S, E, B) PROVE Barred(M, S, E, B)
  <2> SUFFICES ASSUME NEW i \in 1..Len(M), NEW l \in 1..Len(M), i < l, M[i] \in S, M[l] \in B
               PROVE  \E j \in 1..Len(M) : i < j /\ j < l /\ M[j] \in E
    BY DEF Barred
  <2>1. PICK j \in 1..Len(L) : Up(i) < j /\ j < Up(l) /\ L[j] \in E
    BY <1>2, <1>4, <1>11 DEF Barred
  <2>2. j # k
    BY <1>1, <1>2, <1>6, <1>11, <2>1
  <2> QED BY <1>3, <1>5, <2>1, <2>2
<1>12. ASSUME L[k] \notin E, Before(L, E, B) PROVE Before(M, E, B)
  <2> SUFFICES ASSUME NEW l \in 1..Len(M), M[l] \in B PROVE \E j \in 1..Len(M) : j < l /\ M[j] \in E
    BY DEF Before
  <2>1. PICK j \in 1..Len(L) : j < Up(l) /\ L[j] \in E
    BY <1>2, <1>12 DEF Before
  <2>2. j # k
    BY <1>12, <2>1
  <2> QED BY <1>3, <1>5, <2>1, <2>2
<1> QED BY <1>7, <1>8, <1>9, <1>10, <1>11, <1>12

\* So may a line be changed that ends nothing into one that starts nothing.
LEMMA InsteadKeeps ==
  ASSUME NEW T, NEW L \in Seq(T), NEW M \in Seq(T), NEW k, Instead(L, M, k), NEW S, NEW E, NEW B
  PROVE  /\ M[k] \notin S /\ SomeIn(M, S) => SomeIn(L, S)
         /\ (M[k] \in S => L[k] \in S) /\ OnlyOne(L, S) => OnlyOne(M, S)
         /\ OnlyOne(L, S) /\ L[k] \in S /\ M[k] \notin S => ~SomeIn(M, S)
         /\ L[k] \notin E /\ SomeIn(L, E) => SomeIn(M, E)
         /\ L[k] \notin E /\ M[k] \notin S /\ Followed(L, S, E) => Followed(M, S, E)
         /\ L[k] \notin E /\ M[k] \notin S /\ (M[k] \in B => L[k] \in B) /\ Barred(L, S, E, B) => Barred(M, S, E, B)
         /\ L[k] \notin E /\ (M[k] \in B => L[k] \in B) /\ Before(L, E, B) => Before(M, E, B)
<1>1. Len(M) = Len(L) /\ k \in 1..Len(L) /\ \A i \in 1..Len(L) : i # k => M[i] = L[i]
  BY DEF Instead
<1>2. /\ M[k] \notin S /\ SomeIn(M, S) => SomeIn(L, S)
      /\ L[k] \notin E /\ SomeIn(L, E) => SomeIn(M, E)
      /\ OnlyOne(L, S) /\ L[k] \in S /\ M[k] \notin S => ~SomeIn(M, S)
  BY <1>1 DEF SomeIn, OnlyOne
<1>3. (M[k] \in S => L[k] \in S) /\ OnlyOne(L, S) => OnlyOne(M, S)
  BY <1>1 DEF OnlyOne
<1>4. L[k] \notin E /\ M[k] \notin S /\ Followed(L, S, E) => Followed(M, S, E)
  BY <1>1 DEF Followed
<1>5. L[k] \notin E /\ M[k] \notin S /\ (M[k] \in B => L[k] \in B) /\ Barred(L, S, E, B) => Barred(M, S, E, B)
  BY <1>1 DEF Barred
<1>6. L[k] \notin E /\ (M[k] \in B => L[k] \in B) /\ Before(L, E, B) => Before(M, E, B)
  BY <1>1 DEF Before
<1> QED BY <1>2, <1>3, <1>4, <1>5, <1>6

-----------------------------------------------------------------------------
(* What each line is                                                       *)

RecordKinds ==
  {"agent_start", "agent_end", "agent_settled", "message_start", "message_end", "auto_retry_start",
   "auto_retry_failed", "compaction_end", "rebootstrap"}

\* A record without a message of its own.
LEMMA RecordTyped ==
  ASSUME NEW kind \in RecordKinds \ {"message_end"}
  PROVE  Record(kind) \in RecordLine /\ Record(kind).kind = kind
BY DEF Record, RecordKinds, RecordLine, Partial, Said, Message

\* The end of a message of the child's.
LEMMA EndedTyped ==
  ASSUME NEW m \in Spoken
  PROVE  Ended(m) \in RecordLine /\ Ended(m).kind = "message_end" /\ Ended(m).message = m
BY DEF Ended, RecordLine, Spoken

\* A message of the child's, of a prompt or of an extension.
LEMMA SaidTyped ==
  ASSUME NEW p \in Prompt \cup {None}, NEW role \in {"user", "assistant", "custom"}
  PROVE  Said(p, role) \in Spoken /\ Said(p, role).of = p /\ Said(p, role).role = role
BY DEF Said, Spoken, Message

\* What a record is.
LEMMA RecordClasses ==
  ASSUME NEW l \in RecordLine
  PROVE  /\ l.kind \in RecordKinds /\ l \in Line /\ l \notin AnswerLine
         /\ l.kind = "message_end" => l.message \in Spoken
         /\ l \in Starts <=> l.kind \in {"agent_start", "auto_retry_start"}
         /\ l \in Ends <=> l.kind = completionEvent \/ (l.kind = "auto_retry_failed" /\ completionEvent = "agent_end")
         /\ l \in PartialStarts <=> l.kind = "message_start"
         /\ l \in PartialEnds <=> l.kind = completionEvent \/ (l.kind = "message_end" /\ l.message.role = "assistant")
         /\ l \in Rebootstrap <=> l.kind = "rebootstrap"
         /\ l \in News <=> l.kind = "rebootstrap"
         /\ l \in Reboots <=> l.kind = "rebootstrap"
         /\ l \notin Answering /\ l \notin AnsweredNew /\ l \notin MessagesAnswers
<1>1. l.kind \in RecordKinds /\ l.kind # "answer" /\ (l.kind = "message_end" => l.message \in Spoken)
  BY DEF RecordLine, RecordKinds
<1>2. l \notin AnswerLine
  BY <1>1 DEF AnswerLine
<1> QED BY <1>1, <1>2 DEF Line, Starts, Ends, PartialStarts, PartialEnds, Rebootstrap, News, Reboots, Answering,
                        AnsweredNew, MessagesAnswers

\* What an answer is.
LEMMA AnswerClasses ==
  ASSUME NEW l \in AnswerLine
  PROVE  /\ l.kind = "answer" /\ l \in Line /\ l \notin RecordLine
         /\ l \notin Ends /\ l \notin PartialStarts /\ l \notin PartialEnds /\ l \notin Rebootstrap
         /\ l \in Starts <=> \/ l.to = "prompt" /\ l.says \in {"started", "queued", "unsaid"}
                             \/ l.to = "state" /\ l.says = "streaming"
         /\ l \in News <=> l.to = "new"
         /\ l \in AnsweredNew <=> l.to = "new"
         /\ l \in Reboots <=> l.to = "new" /\ l.says # "cancelled"
         /\ l \in Answering <=> l.to \in Questions
         /\ l \in MessagesAnswers <=> l.to = "messages"
<1>1. l.kind = "answer" /\ l \notin RecordLine
  BY DEF AnswerLine, RecordLine
<1> QED BY <1>1 DEF Line, Starts, Ends, PartialStarts, PartialEnds, Rebootstrap, News, Reboots, Answering,
                  AnsweredNew, MessagesAnswers

\* One line.
LEMMA OneLine ==
  ASSUME NEW a \in Line
  PROVE  <<a>> \in Seq(Line) /\ \A E : SomeIn(<<a>>, E) <=> a \in E
BY DEF SomeIn

\* Two lines.
LEMMA TwoLines ==
  ASSUME NEW a \in Line, NEW b \in Line
  PROVE  <<a, b>> \in Seq(Line) /\ \A E : SomeIn(<<a, b>>, E) <=> a \in E \/ b \in E
<1>1. <<a, b>> \in Seq(Line) /\ Len(<<a, b>>) = 2 /\ <<a, b>>[1] = a /\ <<a, b>>[2] = b
  OBVIOUS
<1>2. 1..2 = {1, 2}
  OBVIOUS
<1> QED BY <1>1, <1>2 DEF SomeIn

\* Records that start nothing.
Closing == {l \in RecordLine : l.kind \in {"agent_end", "agent_settled", "auto_retry_failed", "message_end"}}
\* Records that end a turn or a message start none, and answer nothing.
LEMMA ClosingSaid ==
  ASSUME NEW lines \in Seq(Closing)
  PROVE  /\ lines \in Seq(RecordLine) /\ lines \in Seq(Line)
         /\ ~SomeIn(lines, Starts) /\ ~SomeIn(lines, News) /\ ~SomeIn(lines, Reboots)
         /\ ~SomeIn(lines, PartialStarts) /\ ~SomeIn(lines, Answering) /\ ~SomeIn(lines, MessagesAnswers)
<1>1. \A i \in 1..Len(lines) : lines[i] \in Closing
  OBVIOUS
<1>2. Closing \subseteq RecordLine /\ RecordLine \subseteq Line
  BY DEF Closing, Line
<1>3. \A l \in Closing : /\ l \notin Starts /\ l \notin News /\ l \notin Reboots
                         /\ l \notin PartialStarts /\ l \notin Answering /\ l \notin MessagesAnswers
  BY <1>2, RecordClasses DEF Closing
<1> QED BY <1>1, <1>2, <1>3 DEF SomeIn

\* What ends a turn, last.
LEMMA EndingSays ==
  ASSUME completionEvent \in {"agent_settled", "agent_end"}
  PROVE  /\ Ending \in Seq(Closing) /\ Len(Ending) \in 1..2
         /\ Ending[Len(Ending)].kind = completionEvent
<1>1. /\ Record("agent_end") \in Closing /\ Record("agent_settled") \in Closing
      /\ Record("agent_end").kind = "agent_end" /\ Record("agent_settled").kind = "agent_settled"
  BY RecordTyped DEF Closing, RecordKinds
<1>2. CASE completionEvent = "agent_settled"
  <2>1. Ending = <<Record("agent_end"), Record("agent_settled")>>
    BY <1>2 DEF Ending
  <2> HIDE DEF Ending
  <2> QED BY <1>1, <1>2, <2>1
<1>3. CASE completionEvent = "agent_end"
  <2>1. Ending = <<Record("agent_end")>>
    BY <1>3 DEF Ending
  <2> QED BY <1>1, <1>3, <2>1
<1> QED BY <1>2, <1>3

\* Where the lines of two sequences are in the one made of both.
LEMMA Joined ==
  ASSUME NEW T, NEW A \in Seq(T), NEW B \in Seq(T)
  PROVE  /\ A \o B \in Seq(T) /\ Len(A \o B) = Len(A) + Len(B)
         /\ \A i \in 1..Len(A) : (A \o B)[i] = A[i]
         /\ \A i \in 1..Len(B) : (A \o B)[Len(A) + i] = B[i]
OBVIOUS

\* One record before others: where it and the last of them are.
LEMMA OneBefore ==
  ASSUME NEW T, NEW x \in T, NEW s \in Seq(T), Len(s) \in 1..2
  PROVE  /\ <<x>> \o s \in Seq(T) /\ Len(<<x>> \o s) = 1 + Len(s)
         /\ (<<x>> \o s)[1] = x /\ (<<x>> \o s)[1 + Len(s)] = s[Len(s)]
<1> DEFINE one == <<x>>
<1>1. one \in Seq(T) /\ Len(one) = 1 /\ one[1] = x
  OBVIOUS
<1> HIDE DEF one
<1>2. 1 \in 1..1 /\ Len(s) \in 1..Len(s)
  <2>1. PICK n \in 1..2 : n = Len(s)
    OBVIOUS
  <2>2. n \in 1..n
    BY <2>1
  <2> QED BY <2>1, <2>2
<1>3. /\ one \o s \in Seq(T) /\ Len(one \o s) = Len(one) + Len(s)
      /\ \A i \in 1..Len(one) : (one \o s)[i] = one[i]
      /\ \A i \in 1..Len(s) : (one \o s)[Len(one) + i] = s[i]
  BY <1>1, Joined, SMTT(30)
<1>4. (one \o s)[1] = x /\ (one \o s)[1 + Len(s)] = s[Len(s)]
  BY <1>1, <1>2, <1>3
<1> QED BY <1>1, <1>3, <1>4 DEF one

\* What a turn that is stopped says: last, its end.
LEMMA StoppedSays ==
  ASSUME completionEvent \in {"agent_settled", "agent_end"}
  PROVE  /\ Stopped \in Seq(Closing) /\ Len(Stopped) \in Nat \ {0}
         /\ Stopped[Len(Stopped)] \in Ends
         /\ turn = "replying" => Stopped[Len(Stopped)] \in PartialEnds
<1>1. Ending \in Seq(Closing) /\ Len(Ending) \in 1..2 /\ Ending[Len(Ending)].kind = completionEvent
  BY EndingSays
<1>2. Closing \subseteq RecordLine
  BY DEF Closing
<1>3. CASE turn # "waiting"
  <2>1. Stopped = Ending
    BY <1>3 DEF Stopped
  <2>2. Ending[Len(Ending)] \in RecordLine
    BY <1>1, <1>2
  <2> QED BY <1>1, <2>1, <2>2, RecordClasses
<1>4. CASE turn = "waiting" /\ completionEvent = "agent_settled"
  <2>1. Stopped = <<Record("auto_retry_failed")>> \o <<Record("agent_settled")>>
    BY <1>4 DEF Stopped
  <2>2. /\ Record("auto_retry_failed") \in Closing /\ Record("agent_settled") \in Closing
        /\ Record("agent_settled") \in Ends
    BY <1>4, RecordTyped, RecordClasses DEF Closing, RecordKinds
  <2>3. Stopped \in Seq(Closing) /\ Len(Stopped) = 2 /\ Stopped[2] = Record("agent_settled")
    BY <2>1, <2>2
  <2> QED BY <1>4, <2>2, <2>3
<1>5. CASE turn = "waiting" /\ completionEvent = "agent_end"
  <2>1. Stopped = <<Record("auto_retry_failed")>> \o <<>>
    BY <1>5 DEF Stopped
  <2>2. Record("auto_retry_failed") \in Closing /\ Record("auto_retry_failed") \in Ends
    BY <1>5, RecordTyped, RecordClasses DEF Closing, RecordKinds
  <2>3. Stopped \in Seq(Closing) /\ Len(Stopped) = 1 /\ Stopped[1] = Record("auto_retry_failed")
    BY <2>1, <2>2
  <2> QED BY <1>5, <2>2, <2>3
<1> QED BY <1>3, <1>4, <1>5

\* A line that ends no reply, changed into one that starts none.
LEMMA InsteadPartial ==
  ASSUME NEW L \in Seq(Line), NEW M \in Seq(Line), NEW k, Instead(L, M, k),
         L[k] \notin PartialEnds, M[k] \notin PartialStarts
  PROVE  /\ Followed(L, PartialStarts, PartialEnds) => Followed(M, PartialStarts, PartialEnds)
         /\ Barred(L, PartialStarts, PartialEnds, PartialStarts) => Barred(M, PartialStarts, PartialEnds, PartialStarts)
         /\ SomeIn(L, PartialEnds) => SomeIn(M, PartialEnds)
         /\ Before(L, PartialEnds, PartialStarts) => Before(M, PartialEnds, PartialStarts)
BY InsteadKeeps

-----------------------------------------------------------------------------
(* What the child says in a step                                           *)

\* If no turn runs after it, its end is said and no start after that.
SaysEnd(lines) ==
  turn' = "idle" =>
    \/ turn = "idle" /\ ~SomeIn(lines, Starts)
    \/ \E e \in 1..Len(lines) : lines[e] \in Ends /\ \A i \in 1..Len(lines) : lines[i] \in Starts => i < e
\* It starts a reply where none is under way, and a reply is over only with its end.
SaysPartial(lines) ==
  \/ lines = <<Record("message_start")>> /\ turn = "asking" /\ turn' = "replying"
  \/ ~SomeIn(lines, PartialStarts) /\ (turn' # "replying" => turn # "replying" \/ SomeIn(lines, PartialEnds))
\* A step of the child that answers nothing.
Tells(lines) ==
  /\ lines \in Seq(RecordLine) /\ lines \in Seq(Line) /\ ~SomeIn(lines, News)
  /\ fromChild' = fromChild \o lines /\ SaysEnd(lines) /\ SaysPartial(lines)
\* A step of the child that answers a command that is no new session.
Replies(a) ==
  /\ a \in AnswerLine /\ a.to # "new"
  /\ fromChild' = fromChild \o <<a>> /\ SaysEnd(<<a>>) /\ SaysPartial(<<a>>)

\* The turn, on its own.
LEMMA WorksTells == ASSUME Typed, ChildWorks PROVE \E lines : Tells(lines)
<1>0. completionEvent \in {"agent_settled", "agent_end"} /\ RecordLine \subseteq Line /\ prompts \in Seq(Prompt)
  BY DEF Typed, Line
<1>1. ASSUME NEW a \in RecordLine, NEW b \in RecordLine, a.kind # "rebootstrap", b.kind # "rebootstrap",
             a.kind # "message_start", b.kind # "message_start", turn' # "idle",
             turn # "replying" \/ (a.kind = "message_end" /\ a.message.role = "assistant"),
             fromChild' = fromChild \o <<a, b>>
      PROVE  Tells(<<a, b>>)
  <2>1. <<a, b>> \in Seq(RecordLine) /\ <<a, b>> \in Seq(Line) /\ ~SomeIn(<<a, b>>, News)
    BY <1>0, <1>1, TwoLines, RecordClasses
  <2>2. ~SomeIn(<<a, b>>, PartialStarts) /\ (turn # "replying" \/ SomeIn(<<a, b>>, PartialEnds))
    BY <1>0, <1>1, TwoLines, RecordClasses
  <2> QED BY <1>1, <2>1, <2>2 DEF Tells, SaysEnd, SaysPartial
<1>2. ASSUME NEW a \in RecordLine, a.kind # "rebootstrap", a.kind # "message_start",
             turn' = turn \/ (turn # "replying" /\ turn' \notin {"idle", "replying"}),
             a.kind \notin {"agent_start", "auto_retry_start"} \/ turn' # "idle",
             fromChild' = fromChild \o <<a>>
      PROVE  Tells(<<a>>)
  <2>1. <<a>> \in Seq(RecordLine) /\ <<a>> \in Seq(Line) /\ ~SomeIn(<<a>>, News)
    BY <1>0, <1>2, OneLine, RecordClasses
  <2>2. ~SomeIn(<<a>>, PartialStarts) /\ (turn' # "replying" => turn # "replying")
    BY <1>0, <1>2, OneLine, RecordClasses
  <2>3. turn' = "idle" => turn = "idle" /\ ~SomeIn(<<a>>, Starts)
    BY <1>0, <1>2, OneLine, RecordClasses
  <2> QED BY <1>2, <2>1, <2>2, <2>3 DEF Tells, SaysEnd, SaysPartial
<1>3. CASE TurnStarts
  <2>1. Head(prompts) \in Prompt
    BY <1>0, <1>3 DEF TurnStarts, Typed
  <2>2. Receives \in Spoken
    BY <2>1, SaidTyped DEF Receives
  <2>3. /\ Record("agent_start") \in RecordLine /\ Record("agent_start").kind = "agent_start"
        /\ Ended(Receives) \in RecordLine /\ Ended(Receives).kind = "message_end"
    BY <2>2, RecordTyped, EndedTyped DEF RecordKinds
  <2> QED BY <1>1, <1>3, <2>3 DEF TurnStarts, Emits
<1>4. CASE ReplyStarts
  <2>1. Record("message_start") \in RecordLine /\ Record("message_start").kind = "message_start"
    BY RecordTyped DEF RecordKinds
  <2>2. <<Record("message_start")>> \in Seq(RecordLine) /\ <<Record("message_start")>> \in Seq(Line)
        /\ ~SomeIn(<<Record("message_start")>>, News)
    BY <1>0, <2>1, OneLine, RecordClasses
  <2> QED BY <1>4, <2>2 DEF ReplyStarts, Emits, Tells, SaysEnd, SaysPartial
<1>5. CASE ReplyEnds
  <2> DEFINE reply == Said(Head(prompts), "assistant")
  <2>1. Head(prompts) \in Prompt /\ prompts # <<>> /\ turn = "replying"
    BY <1>0, <1>5 DEF ReplyEnds, Typed
  <2>2. reply \in Spoken /\ reply.role = "assistant"
    BY <2>1, SaidTyped
  <2>3. Ended(reply) \in RecordLine /\ Ended(reply).kind = "message_end" /\ Ended(reply).message = reply
    BY <2>2, EndedTyped
  <2> HIDE DEF reply
  <2>4. CASE Len(prompts) = 1
    <3>1. turn' = "idle" /\ fromChild' = fromChild \o (<<Ended(reply)>> \o Ending)
      BY <1>5, <2>4 DEF ReplyEnds, Emits, reply
    <3> DEFINE lines == <<Ended(reply)>> \o Ending
    <3>2. Ended(reply) \in Closing /\ Ending \in Seq(Closing) /\ Len(Ending) \in 1..2
          /\ Ending[Len(Ending)].kind = completionEvent /\ Ending[Len(Ending)] \in RecordLine
      <4>1. Ended(reply) \in Closing
        BY <2>3 DEF Closing
      <4>2. Ending \in Seq(Closing) /\ Len(Ending) \in 1..2 /\ Ending[Len(Ending)].kind = completionEvent
        BY <1>0, EndingSays
      <4>3. Closing \subseteq RecordLine
        BY DEF Closing
      <4>4. Ending[Len(Ending)] \in Closing
        BY <4>2
      <4> QED BY <4>1, <4>2, <4>3, <4>4
    <3>3. lines \in Seq(Closing) /\ Len(lines) = 1 + Len(Ending) /\ lines[Len(lines)] = Ending[Len(Ending)]
      BY <3>2, OneBefore
    <3> HIDE DEF lines
    <3>4. lines[Len(lines)] \in Ends /\ lines[Len(lines)] \in PartialEnds /\ Len(lines) \in 1..Len(lines)
      <4>1. PICK n \in Nat : n = Len(lines) /\ n # 0
        BY <3>2, <3>3
      <4> QED BY <3>2, <3>3, <4>1, RecordClasses
    <3>5. lines \in Seq(RecordLine) /\ lines \in Seq(Line) /\ ~SomeIn(lines, News) /\ ~SomeIn(lines, Starts)
          /\ ~SomeIn(lines, PartialStarts) /\ SomeIn(lines, PartialEnds)
      BY <3>3, <3>4, ClosingSaid DEF SomeIn
    <3>6. \A i \in 1..Len(lines) : lines[i] \notin Starts
      BY <3>5 DEF SomeIn
    <3>7. fromChild' = fromChild \o lines
      BY <3>1 DEF lines
    <3> QED BY <3>4, <3>5, <3>6, <3>7 DEF Tells, SaysEnd, SaysPartial
  <2>5. CASE Len(prompts) # 1
    <3> DEFINE next == Said(prompts[2], "user")
    <3>1. prompts[2] \in Prompt
      <4>1. Len(prompts) \in Nat /\ Len(prompts) # 0
        BY <1>0, <2>1
      <4>2. 2 \in 1..Len(prompts)
        <5>1. PICK n \in Nat : n = Len(prompts)
          BY <4>1
        <5>2. n # 0 /\ n # 1
          BY <2>5, <4>1, <5>1
        <5>3. 2 \in 1..n
          BY <5>2
        <5> QED BY <5>1, <5>3
      <4> QED BY <1>0, <4>2
    <3>2. next \in Spoken
      BY <3>1, SaidTyped
    <3>3. Ended(next) \in RecordLine /\ Ended(next).kind = "message_end"
      BY <3>2, EndedTyped
    <3>4. turn' = "asking" /\ fromChild' = fromChild \o <<Ended(reply), Ended(next)>>
      BY <1>5, <2>5 DEF ReplyEnds, Emits, reply
    <3> HIDE DEF next
    <3>5. Ended(reply).message.role = "assistant"
      BY <2>2, <2>3
    <3> QED BY <1>1, <2>3, <3>3, <3>4, <3>5
  <2> QED BY <2>4, <2>5
<1>6. CASE AttemptFails
  <2>1. /\ Record("agent_end") \in RecordLine /\ Record("agent_end").kind = "agent_end"
        /\ Record("auto_retry_start") \in RecordLine /\ Record("auto_retry_start").kind = "auto_retry_start"
    BY RecordTyped DEF RecordKinds
  <2> QED BY <1>1, <1>6, <2>1 DEF AttemptFails, Emits
<1>7. CASE Retries
  <2>1. Record("agent_start") \in RecordLine /\ Record("agent_start").kind = "agent_start"
    BY RecordTyped DEF RecordKinds
  <2> QED BY <1>2, <1>7, <2>1 DEF Retries, Emits
<1>8. CASE CustomMessage
  <2>1. Said(None, "custom") \in Spoken
    BY SaidTyped
  <2>2. Ended(Said(None, "custom")) \in RecordLine /\ Ended(Said(None, "custom")).kind = "message_end"
    BY <2>1, EndedTyped
  <2>3. turn' = turn /\ fromChild' = fromChild \o <<Ended(Said(None, "custom"))>>
    BY <1>8 DEF CustomMessage, Emits
  <2> QED BY <1>2, <2>2, <2>3
<1>9. CASE Compacts
  <2>1. Record("compaction_end") \in RecordLine /\ Record("compaction_end").kind = "compaction_end"
    BY RecordTyped DEF RecordKinds
  <2> QED BY <1>2, <1>9, <2>1 DEF Compacts, Emits
<1> QED BY <1>3, <1>4, <1>5, <1>6, <1>7, <1>8, <1>9 DEF ChildWorks

\* What the child answers to a prompt or a question, or says when it is stopped.
LEMMA PromptReplies ==
  ASSUME Typed, NEW c \in CommandLine, ReadsPrompt(c)
  PROVE  \E a : Replies(a) /\ a.to = "prompt" /\ a.of = c.of /\ (a.says = "suspended" => prompts' = prompts)
<1>1. c.of \in Prompt
  BY DEF ReadsPrompt, CommandLine
<1>2. <<>> \in Seq(Spoken)
  OBVIOUS
<1>3. ASSUME NEW says \in Outcomes,
             turn' = "idle" => turn = "idle" /\ says \in {"handled", "silent", "refused", "suspended"},
             turn' = "replying" <=> turn = "replying", says = "suspended" => prompts' = prompts,
             fromChild' = fromChild \o <<Answer("prompt", c.of, says, <<>>)>>
      PROVE  \E a : Replies(a) /\ a.to = "prompt" /\ a.of = c.of /\ (a.says = "suspended" => prompts' = prompts)
  <2> DEFINE a == Answer("prompt", c.of, says, <<>>)
  <2>1. a \in AnswerLine /\ a.to = "prompt" /\ a.says = says /\ a.of = c.of
    BY <1>1, <1>2, <1>3 DEF Answer, AnswerLine, Sayings, Outcomes
  <2> HIDE DEF a
  <2>2. a \in Line /\ ~SomeIn(<<a>>, PartialStarts) /\ (turn' = "idle" => turn = "idle" /\ ~SomeIn(<<a>>, Starts))
    BY <1>3, <2>1, OneLine, AnswerClasses
  <2>3. SaysEnd(<<a>>)
    BY <2>2 DEF SaysEnd
  <2>4. SaysPartial(<<a>>)
    BY <1>3, <2>2 DEF SaysPartial
  <2>5. fromChild' = fromChild \o <<a>>
    BY <1>3 DEF a
  <2> QED BY <1>3, <2>1, <2>3, <2>4, <2>5 DEF Replies
<1>4. turn \in {"idle", "begun", "asking", "replying", "waiting"}
  BY DEF Typed
<1>5. \E says \in Outcomes :
        /\ turn' = "idle" => turn = "idle" /\ says \in {"handled", "silent", "refused", "suspended"}
        /\ turn' = "replying" <=> turn = "replying"
        /\ says = "suspended" => prompts' = prompts
        /\ fromChild' = fromChild \o <<Answer("prompt", c.of, says, <<>>)>>
  BY <1>4 DEF ReadsPrompt, Refuses, Emits, Outcomes
<1> QED BY <1>3, <1>5

\* A question is answered with what it asks for.
LEMMA QuestionReplies ==
  ASSUME Typed, NEW c \in CommandLine, ReadsQuestion(c)
  PROVE  /\ c \in Asking
         /\ \E a : Replies(a) /\ a.to = c.command /\ (a.to = "messages" => a.data = history)
<1>1. history \in Seq(Spoken) /\ <<>> \in Seq(Spoken) /\ turn' = turn /\ c.command \in Questions
  BY DEF Typed, ReadsQuestion, child, Questions
<1>0. c \in Asking
  BY <1>1 DEF Asking
<1>2. ASSUME NEW says \in {"ok", "idle", "streaming", "failed"}, NEW data \in Seq(Spoken),
             c.command = "messages" => data = history, turn = "idle" => says # "streaming",
             fromChild' = fromChild \o <<Answer(c.command, None, says, data)>>
      PROVE  \E a : Replies(a) /\ a.to = c.command /\ (a.to = "messages" => a.data = history)
  <2> DEFINE a == Answer(c.command, None, says, data)
  <2>1. a \in AnswerLine /\ a.to = c.command /\ a.says = says /\ a.data = data
    <3>1. c.command \in Questions \cup {"prompt", "new"} /\ c.command # "prompt"
      BY <1>1 DEF Questions
    <3> QED BY <1>2, <3>1 DEF Answer, AnswerLine, Sayings, Outcomes
  <2> HIDE DEF a
  <2>2. a \in Line /\ ~SomeIn(<<a>>, PartialStarts) /\ (turn = "idle" => ~SomeIn(<<a>>, Starts)) /\ a.to # "new"
    BY <1>1, <1>2, <2>1, OneLine, AnswerClasses DEF Questions
  <2>3. SaysEnd(<<a>>)
    BY <1>1, <2>2 DEF SaysEnd
  <2>4. SaysPartial(<<a>>)
    BY <1>1, <2>2 DEF SaysPartial
  <2>5. fromChild' = fromChild \o <<a>>
    BY <1>2 DEF a
  <2> QED BY <1>2, <2>1, <2>2, <2>3, <2>4, <2>5 DEF Replies
<1>3. CASE c.command = "messages"
  <2>1. fromChild' = fromChild \o <<Answer(c.command, None, "ok", history)>>
    BY <1>3 DEF ReadsQuestion, Emits
  <2> QED BY <1>0, <1>1, <1>2, <1>3, <2>1
<1>4. CASE c.command = "state"
  <2> DEFINE says == IF turn = "idle" THEN "idle" ELSE "streaming"
  <2>1. fromChild' = fromChild \o <<Answer(c.command, None, says, <<>>)>>
    BY <1>4 DEF ReadsQuestion, Emits
  <2>2. says \in {"ok", "idle", "streaming", "failed"} /\ (turn = "idle" => says # "streaming")
    OBVIOUS
  <2> HIDE DEF says
  <2> QED BY <1>0, <1>1, <1>2, <1>4, <2>1, <2>2
<1>5. CASE c.command = "rest"
  <2>1. PICK says \in {"ok", "failed"} : fromChild' = fromChild \o <<Answer(c.command, None, says, <<>>)>>
    BY <1>5 DEF ReadsQuestion, Emits
  <2>2. says \in {"ok", "idle", "streaming", "failed"} /\ says # "streaming"
    OBVIOUS
  <2> QED BY <1>0, <1>1, <1>2, <1>5, <2>1, <2>2
<1> QED BY <1>1, <1>3, <1>4, <1>5 DEF Questions

\* What is stopped says its end.
LEMMA StopTold ==
  ASSUME Typed, turn' = "idle", turn # "idle"
  PROVE  /\ Stopped \in Seq(RecordLine) /\ Stopped \in Seq(Line) /\ ~SomeIn(Stopped, News)
         /\ SaysEnd(Stopped) /\ SaysPartial(Stopped)
<1>1. completionEvent \in {"agent_settled", "agent_end"}
  BY DEF Typed
<1> DEFINE lines == Stopped
<1>2. /\ lines \in Seq(Closing) /\ Len(lines) \in Nat \ {0}
      /\ lines[Len(lines)] \in Ends /\ (turn = "replying" => lines[Len(lines)] \in PartialEnds)
  BY <1>1, StoppedSays
<1> HIDE DEF lines
<1>3. Len(lines) \in 1..Len(lines)
  BY <1>2
<1>4. /\ lines \in Seq(RecordLine) /\ lines \in Seq(Line) /\ ~SomeIn(lines, News) /\ ~SomeIn(lines, Starts)
      /\ ~SomeIn(lines, PartialStarts)
  BY <1>2, ClosingSaid
<1>5. SaysEnd(lines)
  BY <1>2, <1>3, <1>4 DEF SaysEnd, SomeIn
<1>6. SaysPartial(lines)
  BY <1>2, <1>3, <1>4 DEF SaysPartial, SomeIn
<1> QED BY <1>4, <1>5, <1>6 DEF lines

\* An abort stops the turn, or finds none.
LEMMA AbortTells ==
  ASSUME Typed, NEW c, ReadsAbort(c)
  PROVE  UNCHANGED <<turn, prompts, fromChild>> \/ (turn # "idle" /\ prompts' = Tail(prompts) /\ Tells(Stopped))
BY StopTold DEF ReadsAbort, Emits, Tells

-----------------------------------------------------------------------------
(* How a step moves the lines and the commands                             *)

\* The first goes; what it was followed by, or barred from, is still there.
LEMMA HeadGoes ==
  ASSUME NEW T, NEW L \in Seq(T), L # <<>>
  PROVE  /\ Tail(L) \in Seq(T) /\ Head(L) \in T /\ Head(L) = L[1] /\ 1 \in 1..Len(L)
         /\ Without(L, Tail(L), 1)
<1>1. /\ Len(L) \in Nat /\ Len(L) # 0 /\ Tail(L) \in Seq(T) /\ Len(Tail(L)) = Len(L) - 1
      /\ Head(L) = L[1]
      /\ \A i \in 1..Len(Tail(L)) : Tail(L)[i] = L[i + 1]
  OBVIOUS
<1>2. 1 \in 1..Len(L) /\ \A i \in 1..Len(Tail(L)) : ~(i < 1)
  BY <1>1
<1> QED BY <1>1, <1>2 DEF Without

\* A line of S had its E after it; where the first is of S, what is behind it has E before B.
LEMMA FirstHad ==
  ASSUME NEW T, NEW L \in Seq(T), NEW M \in Seq(T), NEW S, NEW E, NEW B
  PROVE  /\ \A k \in 1..Len(L) : L[k] \in S /\ Followed(L, S, E) => SomeIn(L, E)
         /\ Without(L, M, 1) /\ L[1] \in S /\ Barred(L, S, E, B) => Before(M, E, B)
         /\ 1 \in 1..Len(L) /\ L[1] \in B => ~Before(L, E, B)
<1>1. \A k \in 1..Len(L) : L[k] \in S /\ Followed(L, S, E) => SomeIn(L, E)
  BY DEF Followed, SomeIn
<1>2. ASSUME Without(L, M, 1), L[1] \in S, Barred(L, S, E, B) PROVE Before(M, E, B)
  <2>1. /\ Len(L) \in Nat /\ Len(M) \in Nat /\ Len(L) = Len(M) + 1 /\ 1 \in 1..Len(L)
        /\ \A i \in 1..Len(M) : M[i] = L[i + 1]
    BY <1>2 DEF Without
  <2> SUFFICES ASSUME NEW k \in 1..Len(M), M[k] \in B PROVE \E j \in 1..Len(M) : j < k /\ M[j] \in E
    BY DEF Before
  <2>2. k + 1 \in 1..Len(L) /\ 1 < k + 1 /\ L[k + 1] \in B
    BY <2>1
  <2>3. PICK j \in 1..Len(L) : 1 < j /\ j < k + 1 /\ L[j] \in E
    BY <1>2, <2>1, <2>2 DEF Barred
  <2>4. j - 1 \in 1..Len(M) /\ j - 1 < k /\ (j - 1) + 1 = j
    BY <2>1, <2>3
  <2> QED BY <2>1, <2>3, <2>4
<1>3. 1 \in 1..Len(L) /\ L[1] \in B => ~Before(L, E, B)
  <2>1. \A j \in 1..Len(L) : ~(j < 1)
    OBVIOUS
  <2> QED BY <2>1 DEF Before
<1> QED BY <1>1, <1>2, <1>3

\* One more command or line, of a set there was none of.
LEMMA OneMore ==
  ASSUME NEW T, NEW L \in Seq(T), NEW x \in T, NEW E
  PROVE  /\ Append(L, x) \in Seq(T) /\ Append(L, x) = L \o <<x>>
         /\ SomeIn(Append(L, x), E) <=> SomeIn(L, E) \/ x \in E
         /\ OnlyOne(L, E) /\ (x \notin E \/ ~SomeIn(L, E)) => OnlyOne(Append(L, x), E)
         /\ \A i \in 1..Len(Append(L, x)) : Append(L, x)[i] = x \/ (i \in 1..Len(L) /\ Append(L, x)[i] = L[i])
<1> DEFINE M == Append(L, x)
<1>1. /\ M \in Seq(T) /\ Len(M) = Len(L) + 1 /\ Len(L) \in Nat /\ M[Len(L) + 1] = x
      /\ \A i \in 1..Len(L) : M[i] = L[i]
      /\ M = L \o <<x>>
  OBVIOUS
<1>2. \A i \in 1..Len(M) : i \in 1..Len(L) \/ i = Len(L) + 1
  BY <1>1
<1>3. Len(L) + 1 \in 1..Len(M) /\ \A i \in 1..Len(L) : i \in 1..Len(M)
  BY <1>1
<1> HIDE DEF M
<1>4. SomeIn(M, E) <=> SomeIn(L, E) \/ x \in E
  BY <1>1, <1>2, <1>3 DEF SomeIn
<1>5. OnlyOne(L, E) /\ (x \notin E \/ ~SomeIn(L, E)) => OnlyOne(M, E)
  BY <1>1, <1>2, <1>3 DEF SomeIn, OnlyOne
<1> QED BY <1>1, <1>2, <1>4, <1>5 DEF M

\* More lines, none of them of the set.
LEMMA NoneMore ==
  ASSUME NEW T, NEW L \in Seq(T), NEW lines \in Seq(T), NEW E, ~SomeIn(lines, E)
  PROVE  /\ OnlyOne(L, E) => OnlyOne(L \o lines, E)
         /\ \A i \in 1..Len(L \o lines) : (L \o lines)[i] \in E => i \in 1..Len(L) /\ (L \o lines)[i] = L[i]
<1> DEFINE M == L \o lines
<1>1. /\ M \in Seq(T) /\ Len(M) = Len(L) + Len(lines) /\ Len(L) \in Nat /\ Len(lines) \in Nat
      /\ \A i \in 1..Len(L) : M[i] = L[i]
      /\ \A i \in 1..Len(lines) : M[Len(L) + i] = lines[i]
  OBVIOUS
<1>2. ASSUME NEW k \in 1..Len(M), M[k] \in E PROVE k \in 1..Len(L) /\ M[k] = L[k]
  <2>1. k \in 1..Len(L) \/ (k - Len(L) \in 1..Len(lines) /\ M[k] = lines[k - Len(L)])
    BY <1>1, <1>2
  <2> HIDE DEF M
  <2> QED BY <1>1, <1>2, <2>1 DEF SomeIn
<1> HIDE DEF M
<1>3. OnlyOne(L, E) => OnlyOne(M, E)
  BY <1>1, <1>2 DEF OnlyOne
<1> QED BY <1>2, <1>3 DEF M

\* What is written by the child comes after the lines.
LEMMA LinesGrow ==
  ASSUME records \in Seq(Line), fromChild \in Seq(Line), NEW lines \in Seq(Line),
         records' = records, fromChild' = fromChild \o lines
  PROVE  Lines \in Seq(Line) /\ Lines' = Lines \o lines
<1>1. records \o (fromChild \o lines) = (records \o fromChild) \o lines
  OBVIOUS
<1> QED BY <1>1 DEF Lines

\* A record that is read keeps its place.
LEMMA LinesStay ==
  ASSUME records \in Seq(Line), fromChild \in Seq(Line), fromChild # <<>>,
         records' = Append(records, Head(fromChild)), fromChild' = Tail(fromChild)
  PROVE  Lines' = Lines
<1>1. Append(records, Head(fromChild)) \o Tail(fromChild) = records \o fromChild
  OBVIOUS
<1> QED BY <1>1 DEF Lines

\* An answer that is read goes, from between the records and the rest.
LEMMA AnswerGoes ==
  ASSUME records \in Seq(Line), fromChild \in Seq(Line), fromChild # <<>>,
         records' = records, fromChild' = Tail(fromChild)
  PROVE  /\ Lines \in Seq(Line) /\ Lines' \in Seq(Line)
         /\ Without(Lines, Lines', Len(records) + 1) /\ Lines[Len(records) + 1] = Head(fromChild)
<1> DEFINE L == records \o fromChild
           M == records \o Tail(fromChild)
           n == Len(records)
<1>1. /\ n \in Nat /\ Len(fromChild) \in Nat /\ Len(fromChild) # 0
      /\ Tail(fromChild) \in Seq(Line) /\ Len(Tail(fromChild)) = Len(fromChild) - 1
      /\ Head(fromChild) = fromChild[1]
      /\ \A i \in 1..Len(Tail(fromChild)) : Tail(fromChild)[i] = fromChild[i + 1]
  OBVIOUS
<1>2. /\ L \in Seq(Line) /\ Len(L) = n + Len(fromChild)
      /\ \A i \in 1..n : L[i] = records[i]
      /\ \A i \in 1..Len(fromChild) : L[n + i] = fromChild[i]
  OBVIOUS
<1>3. /\ M \in Seq(Line) /\ Len(M) = n + Len(Tail(fromChild))
      /\ \A i \in 1..n : M[i] = records[i]
      /\ \A i \in 1..Len(Tail(fromChild)) : M[n + i] = Tail(fromChild)[i]
  BY <1>1
<1> HIDE DEF L, M, n
<1>4. ASSUME NEW i \in 1..Len(M) PROVE M[i] = IF i < n + 1 THEN L[i] ELSE L[i + 1]
  <2>1. CASE i < n + 1
    <3>1. i \in 1..n
      BY <1>1, <2>1
    <3> QED BY <1>2, <1>3, <2>1, <3>1
  <2>2. CASE ~(i < n + 1)
    <3>1. PICK j \in 1..Len(Tail(fromChild)) : i = n + j
      <4>1. i - n \in 1..Len(Tail(fromChild)) /\ i = n + (i - n)
        BY <1>1, <1>3, <2>2
      <4> QED BY <4>1
    <3>2. M[i] = fromChild[j + 1] /\ j + 1 \in 1..Len(fromChild)
      BY <1>1, <1>3, <3>1
    <3>3. L[n + (j + 1)] = fromChild[j + 1]
      BY <1>2, <3>2
    <3>4. n + (j + 1) = i + 1
      BY <1>1, <3>1
    <3> QED BY <2>2, <3>2, <3>3, <3>4
  <2> QED BY <2>1, <2>2
<1>5. n + 1 \in 1..Len(L) /\ Len(L) = Len(M) + 1
  BY <1>1, <1>2, <1>3
<1>6. L[n + 1] = Head(fromChild)
  BY <1>1, <1>2
<1> QED BY <1>2, <1>3, <1>4, <1>5, <1>6 DEF L, M, n, Without, Lines

\* The answer to a new session has its refresh take its place.
LEMMA AnswerChanges ==
  ASSUME records \in Seq(Line), fromChild \in Seq(Line), fromChild # <<>>, NEW r \in Line,
         records' = Append(records, r), fromChild' = Tail(fromChild)
  PROVE  /\ Lines \in Seq(Line) /\ Lines' \in Seq(Line)
         /\ Instead(Lines, Lines', Len(records) + 1) /\ Lines[Len(records) + 1] = Head(fromChild)
         /\ Lines'[Len(records) + 1] = r
<1> DEFINE L == records \o fromChild
           R == Append(records, r)
           M == R \o Tail(fromChild)
           n == Len(records)
<1>1. /\ n \in Nat /\ Len(fromChild) \in Nat /\ Len(fromChild) # 0
      /\ Tail(fromChild) \in Seq(Line) /\ Len(Tail(fromChild)) = Len(fromChild) - 1
      /\ Head(fromChild) = fromChild[1]
      /\ \A i \in 1..Len(Tail(fromChild)) : Tail(fromChild)[i] = fromChild[i + 1]
  OBVIOUS
<1>2. /\ L \in Seq(Line) /\ Len(L) = n + Len(fromChild)
      /\ \A i \in 1..n : L[i] = records[i]
      /\ \A i \in 1..Len(fromChild) : L[n + i] = fromChild[i]
  OBVIOUS
<1>0. R \in Seq(Line) /\ Len(R) = n + 1 /\ R[n + 1] = r /\ \A i \in 1..n : R[i] = records[i]
  OBVIOUS
<1> HIDE DEF R
<1> DEFINE rest == Tail(fromChild)
<1>7. rest \in Seq(Line)
  BY <1>1
<1>8. Len(rest) = Len(fromChild) - 1 /\ \A i \in 1..Len(rest) : rest[i] = fromChild[i + 1]
  BY <1>1
<1> HIDE DEF rest, n
<1>3. /\ R \o rest \in Seq(Line) /\ Len(R \o rest) = (n + 1) + Len(rest)
      /\ \A i \in 1..(n + 1) : (R \o rest)[i] = R[i]
      /\ \A i \in 1..Len(rest) : (R \o rest)[(n + 1) + i] = rest[i]
  <2>1. /\ R \o rest \in Seq(Line) /\ Len(R \o rest) = Len(R) + Len(rest)
        /\ \A i \in 1..Len(R) : (R \o rest)[i] = R[i]
        /\ \A i \in 1..Len(rest) : (R \o rest)[Len(R) + i] = rest[i]
    <3>1. R \in Seq(Line)
      BY <1>0
    <3> QED BY <1>7, <3>1, Joined
  <2>2. Len(R) = n + 1
    BY <1>0
  <2> QED BY <2>1, <2>2
<1>9. M = R \o rest
  BY DEF rest
<1> HIDE DEF L, M
<1>4. ASSUME NEW i \in 1..Len(M), i # n + 1 PROVE M[i] = L[i]
  <2>1. CASE i < n + 1
    <3>1. i \in 1..n /\ i \in 1..(n + 1)
      BY <1>1, <2>1
    <3> QED BY <1>0, <1>2, <1>3, <1>9, <3>1
  <2>2. CASE ~(i < n + 1)
    <3>1. PICK j \in 1..Len(rest) : i = (n + 1) + j
      <4>1. i - (n + 1) \in 1..Len(rest) /\ i = (n + 1) + (i - (n + 1))
        BY <1>1, <1>3, <1>4, <1>8, <1>9, <2>2
      <4> QED BY <4>1
    <3>2. M[i] = fromChild[j + 1] /\ j + 1 \in 1..Len(fromChild)
      BY <1>1, <1>3, <1>8, <1>9, <3>1
    <3>3. L[n + (j + 1)] = fromChild[j + 1]
      BY <1>2, <3>2
    <3>4. n + (j + 1) = i
      BY <1>1, <3>1
    <3> QED BY <3>2, <3>3, <3>4
  <2> QED BY <2>1, <2>2
<1>5. n + 1 \in 1..Len(L) /\ Len(L) = Len(M) /\ n + 1 \in 1..(n + 1)
  <2>1. Len(M) = (n + 1) + (Len(fromChild) - 1) /\ Len(L) = n + Len(fromChild)
    BY <1>2, <1>3, <1>8, <1>9
  <2> QED BY <1>1, <2>1
<1>6. L[n + 1] = Head(fromChild) /\ M[n + 1] = r
  BY <1>0, <1>1, <1>2, <1>3, <1>5, <1>9
<1> QED BY <1>9, <1>2, <1>3, <1>4, <1>5, <1>6 DEF L, M, R, n, Instead, Lines

\* A record that is handled was the first of the lines.
LEMMA RecordGoes ==
  ASSUME records \in Seq(RecordLine), fromChild \in Seq(Line), records # <<>>,
         records' = Tail(records), fromChild' = fromChild
  PROVE  /\ Lines \in Seq(Line) /\ Lines' \in Seq(Line) /\ Head(records) \in RecordLine
         /\ Without(Lines, Lines', 1) /\ Lines[1] = Head(records) /\ 1 \in 1..Len(Lines)
<1>1. RecordLine \subseteq Line
  BY DEF Line
<1>2. records \in Seq(Line) /\ Head(records) \in RecordLine
  BY <1>1
<1>3. /\ records \o fromChild \in Seq(Line) /\ records \o fromChild # <<>>
      /\ Tail(records \o fromChild) = Tail(records) \o fromChild
      /\ Head(records \o fromChild) = Head(records)
  BY <1>2
<1>4. Lines \in Seq(Line) /\ Lines # <<>> /\ Lines' = Tail(Lines) /\ Head(Lines) = Head(records)
  BY <1>3 DEF Lines
<1> QED BY <1>2, <1>4, HeadGoes

-----------------------------------------------------------------------------
(* What the child says keeps what is known of the lines                    *)

\* The end of a turn that runs is to come, or is said.
LEMMA EndsTold ==
  ASSUME NEW L \in Seq(Line), NEW lines \in Seq(Line), EndsAt(L, turn), SaysEnd(lines), ~SomeIn(lines, Reboots)
  PROVE  EndsAt(L \o lines, turn')
<1> DEFINE M == L \o lines
<1>1. SomeIn(M, Ends) <=> SomeIn(L, Ends) \/ SomeIn(lines, Ends)
  BY EmitSome
<1>2. /\ Barred(L, Starts, Ends, Reboots) => Barred(M, Starts, Ends, Reboots)
      /\ Before(L, Ends, Reboots) => Before(M, Ends, Reboots)
  BY EmitBarred
<1>3. ASSUME turn' = "idle"
      PROVE Followed(M, Starts, Ends) /\ (SomeIn(L, Ends) \/ turn = "idle" => SomeIn(M, Ends) \/ turn = "idle")
                                  /\ (turn = "idle" \/ SomeIn(M, Ends))
  <2>1. CASE turn = "idle" /\ ~SomeIn(lines, Starts)
    <3>1. Followed(L, Starts, Ends)
      BY <2>1 DEF EndsAt
    <3>2. Followed(M, Starts, Ends)
      BY <2>1, <3>1, EmitFollowed
    <3> QED BY <1>1, <2>1, <3>2
  <2>2. CASE \E e \in 1..Len(lines) : lines[e] \in Ends /\ \A i \in 1..Len(lines) : lines[i] \in Starts => i < e
    <3>1. Followed(M, Starts, Ends)
      BY <2>2, EmitFollowed
    <3>2. SomeIn(lines, Ends)
      BY <2>2 DEF SomeIn
    <3> QED BY <1>1, <3>1, <3>2
  <2> QED BY <1>3, <2>1, <2>2 DEF SaysEnd
<1> HIDE DEF M
<1> QED BY <1>1, <1>2, <1>3 DEF EndsAt, M

\* The end of a reply under way is to come, or is said.
LEMMA PartialTold ==
  ASSUME NEW L \in Seq(Line), NEW lines \in Seq(Line), PartialAt(L, turn), SaysPartial(lines)
  PROVE  PartialAt(L \o lines, turn')
<1> DEFINE M == L \o lines
           begins == Record("message_start")
<1>1. SomeIn(M, PartialEnds) <=> SomeIn(L, PartialEnds) \/ SomeIn(lines, PartialEnds)
  BY EmitSome
<1>2. CASE lines = <<begins>> /\ turn = "asking" /\ turn' = "replying"
  <2>1. begins \in Line
    BY RecordTyped, RecordClasses DEF RecordKinds
  <2>2. M = Append(L, begins)
    BY <1>2, <2>1
  <2>3. Followed(L, PartialStarts, PartialEnds) /\ Barred(L, PartialStarts, PartialEnds, PartialStarts)
    BY <1>2 DEF PartialAt
  <2>4. Barred(M, PartialStarts, PartialEnds, PartialStarts)
    BY <2>1, <2>2, <2>3, EmitLast
  <2>5. Before(L, PartialEnds, PartialStarts) /\ SomeIn(L, PartialEnds) => Before(M, PartialEnds, PartialStarts)
    BY <2>1, <2>2, EmitLast
  <2>6. HasPartial => Before(M, PartialEnds, PartialStarts) \/ Replacing
    BY <1>2, <2>5 DEF PartialAt
  <2> HIDE DEF M, begins
  <2> QED BY <1>2, <2>4, <2>6 DEF PartialAt, M
<1>3. CASE ~SomeIn(lines, PartialStarts) /\ (turn' # "replying" => turn # "replying" \/ SomeIn(lines, PartialEnds))
  <2>1. /\ Barred(L, PartialStarts, PartialEnds, PartialStarts) => Barred(M, PartialStarts, PartialEnds, PartialStarts)
        /\ Before(L, PartialEnds, PartialStarts) => Before(M, PartialEnds, PartialStarts)
    BY <1>3, EmitBarred
  <2>2. Followed(L, PartialStarts, PartialEnds) => Followed(M, PartialStarts, PartialEnds)
    BY <1>3, EmitFollowed
  <2>3. ASSUME SomeIn(lines, PartialEnds) PROVE Followed(M, PartialStarts, PartialEnds)
    <3>1. PICK e \in 1..Len(lines) : lines[e] \in PartialEnds
      BY <2>3 DEF SomeIn
    <3>2. \A i \in 1..Len(lines) : lines[i] \in PartialStarts => i < e
      BY <1>3 DEF SomeIn
    <3> QED BY <3>1, <3>2, EmitFollowed
  <2> HIDE DEF M
  <2> QED BY <1>1, <1>3, <2>1, <2>2, <2>3 DEF PartialAt, M
<1> QED BY <1>2, <1>3 DEF SaysPartial

\* The commands, less the first that was read.
CommandsGo == toChild' = toChild \/ (toChild # <<>> /\ toChild' = Tail(toChild))
\* No command is there that was not, and none more often.
LEMMA CommandsKeep ==
  ASSUME toChild \in Seq(CommandLine), CommandsGo
  PROVE  /\ toChild' \in Seq(CommandLine)
         /\ \A E : (SomeIn(toChild', E) => SomeIn(toChild, E)) /\ (OnlyOne(toChild, E) => OnlyOne(toChild', E))
         /\ \A j \in 1..Len(toChild') : \E i \in 1..Len(toChild) : toChild'[j] = toChild[i]
<1>1. CASE toChild' = toChild
  BY <1>1
<1>2. CASE toChild # <<>> /\ toChild' = Tail(toChild)
  <2>1. toChild' \in Seq(CommandLine) /\ Without(toChild, toChild', 1)
    BY <1>2, HeadGoes
  <2>2. \A E : (SomeIn(toChild', E) => SomeIn(toChild, E)) /\ (OnlyOne(toChild, E) => OnlyOne(toChild', E))
    <3> TAKE E
    <3> QED BY <2>1, WithoutKeeps
  <2>3. \A j \in 1..Len(toChild') : j + 1 \in 1..Len(toChild) /\ toChild'[j] = toChild[j + 1]
    BY <2>1 DEF Without
  <2> QED BY <2>1, <2>2, <2>3
<1> QED BY <1>1, <1>2 DEF CommandsGo

\* No question is answered.
LEMMA MatchedTold ==
  ASSUME Typed, Matched, NEW lines \in Seq(Line), ~SomeIn(lines, Answering), Lines \in Seq(Line),
         Lines' = Lines \o lines, CommandsGo, UNCHANGED work
  PROVE  Matched'
<1>1. /\ SomeIn(toChild', Asking) => SomeIn(toChild, Asking)
      /\ OnlyOne(toChild, Asking) => OnlyOne(toChild', Asking)
      /\ \A j \in 1..Len(toChild') : \E i \in 1..Len(toChild) : toChild'[j] = toChild[i]
  BY CommandsKeep DEF Typed
<1>2. SomeIn(Lines', Answering) => SomeIn(Lines, Answering)
  BY EmitSome
<1>3. /\ OnlyOne(Lines, Answering) => OnlyOne(Lines', Answering)
      /\ \A i \in 1..Len(Lines') : Lines'[i] \in Answering => i \in 1..Len(Lines) /\ Lines'[i] = Lines[i]
  BY NoneMore
<1>4. \A i \in 1..Len(toChild') : toChild'[i] \in Asking => toChild'[i].command = work'.waits
  BY <1>1 DEF Matched
<1>5. \A i \in 1..Len(Lines') : Lines'[i] \in Answering => Lines'[i].to = work'.waits
  BY <1>3 DEF Matched
<1>6. OnlyOne(toChild', Asking) /\ OnlyOne(Lines', Answering)
        /\ ~(SomeIn(toChild', Asking) /\ SomeIn(Lines', Answering))
  BY <1>1, <1>2, <1>3 DEF Matched
<1> QED BY <1>4, <1>5, <1>6 DEF Matched

\* The one question is answered.
LEMMA MatchedAnswered ==
  ASSUME Typed, Matched, toChild # <<>>, toChild' = Tail(toChild), Head(toChild) \in Asking,
         NEW a \in AnswerLine, a.to = Head(toChild).command, Lines \in Seq(Line),
         Lines' = Lines \o <<a>>, UNCHANGED work
  PROVE  Matched'
<1>1. /\ toChild' \in Seq(CommandLine) /\ Without(toChild, toChild', 1)
      /\ Head(toChild) = toChild[1] /\ 1 \in 1..Len(toChild)
  BY HeadGoes DEF Typed
<1>2. OnlyOne(toChild, Asking) => OnlyOne(toChild', Asking) /\ ~SomeIn(toChild', Asking)
  <2>1. toChild \in Seq(CommandLine) /\ toChild[1] \in Asking
    BY <1>1 DEF Typed
  <2>2. OnlyOne(toChild, Asking) => OnlyOne(toChild', Asking)
    BY <1>1, <2>1, WithoutKeeps
  <2>3. OnlyOne(toChild, Asking) /\ toChild[1] \in Asking => ~SomeIn(toChild', Asking)
    BY <1>1, <2>1, WithoutKeeps
  <2> QED BY <2>1, <2>2, <2>3
<1>3. ~SomeIn(toChild', Asking)
  BY <1>2 DEF Matched
<1>4. SomeIn(toChild, Asking)
  BY <1>1 DEF SomeIn
<1>5. ~SomeIn(Lines, Answering)
  BY <1>4 DEF Matched
<1>6. a \in Line
  BY DEF Line
<1>7. Lines' = Append(Lines, a)
  BY <1>6
<1>8. /\ OnlyOne(Lines, Answering) => OnlyOne(Lines', Answering)
      /\ \A i \in 1..Len(Lines') : Lines'[i] = a \/ (i \in 1..Len(Lines) /\ Lines'[i] = Lines[i])
  <2>1. OnlyOne(Lines, Answering) => OnlyOne(Append(Lines, a), Answering)
    BY <1>5, <1>6, OneMore
  <2>2. \A i \in 1..Len(Append(Lines, a)) : Append(Lines, a)[i] = a
          \/ (i \in 1..Len(Lines) /\ Append(Lines, a)[i] = Lines[i])
    BY <1>6, OneMore
  <2> QED BY <1>7, <2>1, <2>2
<1>9. Head(toChild).command = work.waits
  BY <1>1 DEF Matched
<1>10. \A i \in 1..Len(Lines') : Lines'[i] \in Answering => Lines'[i].to = work'.waits
  BY <1>5, <1>8, <1>9 DEF SomeIn
<1>11. \A i \in 1..Len(toChild') : toChild'[i] \in Asking => toChild'[i].command = work'.waits
  BY <1>3 DEF SomeIn
<1>12. OnlyOne(toChild', Asking) /\ OnlyOne(Lines', Answering)
  BY <1>2, <1>8 DEF Matched
<1> QED BY <1>3, <1>10, <1>11, <1>12 DEF Matched

\* No session is answered.
LEMMA SessionTold ==
  ASSUME Typed, OneSession, NEW lines \in Seq(Line), ~SomeIn(lines, News), Lines \in Seq(Line),
         Lines' = Lines \o lines, CommandsGo, UNCHANGED <<work, newSession>>, left' \subseteq left
  PROVE  OneSession'
<1>1. /\ SomeIn(toChild', AskNew) => SomeIn(toChild, AskNew)
      /\ OnlyOne(toChild, AskNew) => OnlyOne(toChild', AskNew)
  BY CommandsKeep DEF Typed
<1>2. ~SomeIn(lines, AnsweredNew) /\ ~SomeIn(lines, Rebootstrap)
  BY DEF SomeIn, News
<1>3. /\ SomeIn(Lines', News) => SomeIn(Lines, News)
      /\ SomeIn(Lines', AnsweredNew) => SomeIn(Lines, AnsweredNew)
      /\ SomeIn(Lines', Rebootstrap) => SomeIn(Lines, Rebootstrap)
  BY <1>2, EmitSome
<1>4. OnlyOne(Lines, News) => OnlyOne(Lines', News)
  BY NoneMore
<1> QED BY <1>1, <1>3, <1>4 DEF OneSession

-----------------------------------------------------------------------------
(* The steps of the child                                                  *)

Inv == Typed /\ Matched /\ OneSession /\ EndsComing /\ OnePartial /\ OfTheNew

\* The prompts the child has seen, in this session.
Seen == {prompts[i] : i \in 1..Len(prompts)} \cup {history[i].of : i \in 1..Len(history)}
\* What may be seen besides: nothing of the old session, nothing that is still to be sent or read.
MaySee(X) ==
  \A x \in X : /\ x \notin abandoned /\ (x \in Prompt => pc[x] # "new")
               /\ \A i \in 1..Len(toChild') : toChild'[i].command = "prompt" => toChild'[i].of # x
Sees(X) ==
  /\ \A i \in 1..Len(prompts') : prompts'[i] \in Seen \cup X
  /\ \A i \in 1..Len(history') : history'[i].of \in Seen \cup X

\* The child sees nothing of the session that was replaced.
LEMMA NewTold ==
  ASSUME Typed, OfTheNew, CommandsGo, UNCHANGED <<abandoned, work, messages, pc>>, NEW X, MaySee(X), Sees(X),
         \A i \in 1..Len(Lines') : Lines'[i] \in MessagesAnswers =>
           Clean(Lines'[i].data) \/ (i \in 1..Len(Lines) /\ Lines'[i] = Lines[i])
  PROVE  OfTheNew'
<1>1. \A x \in Seen \cup X : x \notin abandoned
  BY DEF OfTheNew, Clean, Seen, MaySee
<1>2. Clean(history)' /\ \A i \in 1..Len(prompts') : prompts'[i] \notin abandoned'
  BY <1>1 DEF Clean, Sees
<1>3. ASSUME NEW p, Unseen(p), p \notin X PROVE Unseen(p)'
  <2>1. p \notin Seen \cup X
    BY <1>3 DEF Unseen, Seen
  <2> QED BY <1>3, <2>1 DEF Unseen, Sees
<1>4. ASSUME NEW p \in Prompt, pc'[p] = "new" PROVE Unseen(p)'
  <2>1. Unseen(p) /\ p \notin X
    BY <1>4 DEF OfTheNew, MaySee
  <2> QED BY <1>3, <2>1
<1>5. \A j \in 1..Len(toChild') : \E i \in 1..Len(toChild) : toChild'[j] = toChild[i]
  BY CommandsKeep DEF Typed
<1>6. ASSUME NEW i \in 1..Len(toChild'), toChild'[i].command = "prompt"
      PROVE  \E p : p = toChild'[i].of /\ Unseen(p)' /\ pc'[p] # "new"
  <2>1. PICK j \in 1..Len(toChild) : toChild'[i] = toChild[j]
    BY <1>5
  <2>2. PICK p : p = toChild'[i].of
    OBVIOUS
  <2>3. Unseen(p) /\ p \notin X /\ pc[p] # "new"
    BY <1>6, <2>1, <2>2 DEF OfTheNew, MaySee
  <2>4. Unseen(p)'
    BY <1>3, <2>3
  <2> QED BY <2>2, <2>3, <2>4
<1>7. ASSUME NEW i \in 1..Len(toChild'), NEW j \in 1..Len(toChild'), toChild'[i].command = "prompt",
             toChild'[j].command = "prompt", toChild'[i].of = toChild'[j].of
      PROVE  i = j
  <2>1. CASE toChild' = toChild
    BY <1>7, <2>1 DEF OfTheNew
  <2>2. CASE toChild # <<>> /\ toChild' = Tail(toChild)
    <3>1. Without(toChild, toChild', 1) /\ toChild' \in Seq(CommandLine)
      BY <2>2, HeadGoes DEF Typed
    <3>2. i + 1 \in 1..Len(toChild) /\ toChild'[i] = toChild[i + 1] /\ j + 1 \in 1..Len(toChild)
            /\ toChild'[j] = toChild[j + 1]
      BY <3>1 DEF Without
    <3>3. i + 1 = j + 1
      BY <1>7, <3>2 DEF OfTheNew
    <3> QED BY <3>3
  <2> QED BY <2>1, <2>2 DEF CommandsGo
<1>8. ASSUME work'.task = "session", NEW i \in 1..Len(Lines'), Lines'[i] \in MessagesAnswers
      PROVE Clean(Lines'[i].data)
  BY <1>8 DEF OfTheNew
<1>9. \A i \in 1..Len(Lines') : Clean(Lines'[i].data) => Clean(Lines[i].data)'
  BY DEF Clean
<1>10. work'.task = "session" /\ work'.waits = "rest" => Clean(messages)'
  BY DEF Clean, OfTheNew
<1>11. \A i \in 1..Len(toChild') : toChild'[i].command = "prompt" => Unseen(toChild[i].of)'
         /\ pc'[toChild'[i].of] # "new"
  BY <1>6 DEF Unseen
<1> QED BY <1>2, <1>4, <1>7, <1>8, <1>9, <1>10, <1>11 DEF OfTheNew

\* Types, after what the child does.
ChildTyped ==
  /\ history' \in Seq(Spoken) /\ prompts' \in Seq(Prompt) /\ abandoned' \subseteq Prompt /\ left' \subseteq left
  /\ suspended' \in BOOLEAN
  /\ turn' \in {"idle", "begun", "asking", "replying", "waiting"} /\ (turn' # "idle" => prompts' # <<>>)
\* The types are kept by whatever the child says and does.
LEMMA TypedTold ==
  ASSUME Typed, UNCHANGED server, NEW lines \in Seq(Line), fromChild' = fromChild \o lines, CommandsGo, ChildTyped
  PROVE  Typed'
<1>1. toChild' \in Seq(CommandLine)
  BY CommandsKeep DEF Typed
<1>2. fromChild' \in Seq(Line)
  BY DEF Typed
<1> QED BY <1>1, <1>2 DEF Typed, server, ChildTyped, WorkOK

\* The child tells of its turn, or is stopped.
LEMMA TellsKeeps ==
  ASSUME Inv, UNCHANGED server, NEW lines, Tells(lines), CommandsGo, ChildTyped, UNCHANGED abandoned,
         NEW X, MaySee(X), Sees(X)
  PROVE  Inv'
<1>1. /\ lines \in Seq(RecordLine) /\ lines \in Seq(Line) /\ ~SomeIn(lines, News)
      /\ fromChild' = fromChild \o lines /\ SaysEnd(lines) /\ SaysPartial(lines)
  BY DEF Tells
<1>2. records \in Seq(Line) /\ fromChild \in Seq(Line) /\ records' = records
  BY DEF Inv, Typed, Line, server
<1>3. Lines \in Seq(Line) /\ Lines' = Lines \o lines
  BY <1>1, <1>2, LinesGrow
<1>4. ~SomeIn(lines, Answering) /\ ~SomeIn(lines, MessagesAnswers) /\ ~SomeIn(lines, Reboots)
  <2>1. \A i \in 1..Len(lines) : lines[i] \in RecordLine
    BY <1>1
  <2>2. \A l \in RecordLine : l \notin Answering /\ l \notin MessagesAnswers /\ (l \in Reboots => l \in News)
    BY RecordClasses
  <2> QED BY <1>1, <2>1, <2>2 DEF SomeIn
<1>5. Typed'
  BY <1>1, TypedTold DEF Inv
<1>6. Matched'
  BY <1>1, <1>3, <1>4, MatchedTold DEF Inv, server
<1>7. OneSession'
  BY <1>1, <1>3, <1>4, SessionTold DEF Inv, server, ChildTyped
<1>8. EndsComing'
  <2>1. EndsAt(Lines \o lines, turn')
    BY <1>1, <1>3, <1>4, EndsTold DEF Inv, EndsComing
  <2>2. Ends' = Ends
    BY DEF Ends, server
  <2> QED BY <1>3, <2>1, <2>2 DEF EndsAt, EndsComing, server
<1>9. OnePartial'
  <2>1. PartialAt(Lines \o lines, turn')
    BY <1>1, <1>3, PartialTold DEF Inv, OnePartial
  <2>2. PartialEnds' = PartialEnds
    BY DEF PartialEnds, server
  <2>3. HasPartial' = HasPartial /\ Replacing' = Replacing
    BY DEF HasPartial, Replacing, server
  <2> QED BY <1>3, <2>1, <2>2, <2>3 DEF PartialAt, OnePartial, server
<1>10. OfTheNew'
  <2>1. \A i \in 1..Len(Lines') : Lines'[i] \in MessagesAnswers => i \in 1..Len(Lines) /\ Lines'[i] = Lines[i]
    BY <1>1, <1>3, <1>4, NoneMore
  <2> QED BY <2>1, NewTold DEF Inv, server
<1> QED BY <1>5, <1>6, <1>7, <1>8, <1>9, <1>10 DEF Inv

\* The child answers a prompt or a question.
LEMMA RepliesKeep ==
  ASSUME Inv, UNCHANGED server, NEW a, Replies(a), CommandsGo, ChildTyped, UNCHANGED abandoned,
         NEW X, MaySee(X), Sees(X), a.to = "messages" => Clean(a.data),
         \/ a.to = "prompt"
         \/ toChild # <<>> /\ toChild' = Tail(toChild) /\ Head(toChild) \in Asking /\ a.to = Head(toChild).command
  PROVE  Inv'
<1>1. /\ a \in AnswerLine /\ a.to # "new" /\ a \in Line
      /\ fromChild' = fromChild \o <<a>> /\ SaysEnd(<<a>>) /\ SaysPartial(<<a>>)
  BY DEF Replies, Line
<1>2. records \in Seq(Line) /\ fromChild \in Seq(Line) /\ records' = records
  BY DEF Inv, Typed, Line, server
<1>3. <<a>> \in Seq(Line) /\ ~SomeIn(<<a>>, News) /\ ~SomeIn(<<a>>, Reboots)
  BY <1>1, OneLine, AnswerClasses
<1>4. Lines \in Seq(Line) /\ Lines' = Lines \o <<a>>
  BY <1>1, <1>2, <1>3, LinesGrow
<1>5. Typed'
  BY <1>1, <1>3, TypedTold DEF Inv
<1>6. Matched'
  <2>1. CASE a.to = "prompt"
    <3>1. ~SomeIn(<<a>>, Answering)
      BY <1>1, <2>1, OneLine, AnswerClasses DEF Questions
    <3> QED BY <1>3, <1>4, <3>1, MatchedTold DEF Inv, server
  <2>2. CASE toChild # <<>> /\ toChild' = Tail(toChild) /\ Head(toChild) \in Asking /\ a.to = Head(toChild).command
    BY <1>1, <1>4, <2>2, MatchedAnswered DEF Inv, server
  <2> QED BY <2>1, <2>2
<1>7. OneSession'
  BY <1>3, <1>4, SessionTold DEF Inv, server, ChildTyped
<1>8. EndsComing'
  <2>1. EndsAt(Lines \o <<a>>, turn')
    BY <1>1, <1>3, <1>4, EndsTold DEF Inv, EndsComing
  <2>2. Ends' = Ends
    BY DEF Ends, server
  <2> QED BY <1>4, <2>1, <2>2 DEF EndsAt, EndsComing, server
<1>9. OnePartial'
  <2>1. PartialAt(Lines \o <<a>>, turn')
    BY <1>1, <1>3, <1>4, PartialTold DEF Inv, OnePartial
  <2>2. PartialEnds' = PartialEnds
    BY DEF PartialEnds, server
  <2>3. HasPartial' = HasPartial /\ Replacing' = Replacing
    BY DEF HasPartial, Replacing, server
  <2> QED BY <1>4, <2>1, <2>2, <2>3 DEF PartialAt, OnePartial, server
<1>10. OfTheNew'
  <2>1. \A i \in 1..Len(Lines') : Lines'[i] = a \/ (i \in 1..Len(Lines) /\ Lines'[i] = Lines[i])
    <3>1. Lines' = Append(Lines, a)
      BY <1>1, <1>4
    <3>2. \A i \in 1..Len(Append(Lines, a)) : Append(Lines, a)[i] = a
            \/ (i \in 1..Len(Lines) /\ Append(Lines, a)[i] = Lines[i])
      BY <1>1, <1>4, OneMore
    <3> QED BY <3>1, <3>2
  <2>2. a \in MessagesAnswers => Clean(a.data)
    BY DEF MessagesAnswers
  <2>3. ASSUME NEW i \in 1..Len(Lines'), Lines'[i] \in MessagesAnswers
        PROVE  Clean(Lines'[i].data) \/ (i \in 1..Len(Lines) /\ Lines'[i] = Lines[i])
    <3>1. CASE Lines'[i] = a
      <4>1. Clean(a.data)
        BY <2>2, <2>3, <3>1
      <4> QED BY <3>1, <4>1 DEF Clean
    <3> QED BY <2>1, <3>1
  <2> QED BY <2>3, NewTold DEF Inv, server
<1> QED BY <1>5, <1>6, <1>7, <1>8, <1>9, <1>10 DEF Inv

\* The turn goes on with the prompts the child has.
LEMMA WorksSees == ASSUME Inv, ChildWorks PROVE ChildTyped /\ Sees({None})
<1>1. Typed /\ UNCHANGED abandoned /\ suspended' = suspended /\ suspended \in BOOLEAN
  BY DEF Inv, ChildWorks, Typed
<1>3. prompts \in Seq(Prompt) /\ history \in Seq(Spoken) /\ abandoned \subseteq Prompt
  BY <1>1 DEF Typed
<1>5. \A i \in 1..Len(prompts) : prompts[i] \in Seen
  BY DEF Seen
<1>6. \A i \in 1..Len(history) : history[i].of \in Seen
  BY DEF Seen
<1>7. prompts # <<>> => /\ Head(prompts) = prompts[1] /\ 1 \in 1..Len(prompts) /\ Head(prompts) \in Prompt
                        /\ Tail(prompts) \in Seq(Prompt) /\ Len(Tail(prompts)) = Len(prompts) - 1
                        /\ \A i \in 1..Len(Tail(prompts)) : i + 1 \in 1..Len(prompts) /\ Tail(prompts)[i] = prompts[i + 1]
  BY <1>3
<1>8. ASSUME NEW m \in Spoken, m.of \in Seen \cup {None}
      PROVE  /\ Append(history, m) \in Seq(Spoken)
             /\ \A i \in 1..Len(Append(history, m)) : Append(history, m)[i].of \in Seen \cup {None}
  <2>1. /\ Append(history, m) \in Seq(Spoken)
        /\ \A i \in 1..Len(Append(history, m)) : Append(history, m)[i] = m \/ (i \in 1..Len(history) /\ Append(history, m)[i] = history[i])
    BY <1>3, OneMore
  <2> QED BY <1>6, <1>8, <2>1
<1>10. ASSUME history' = history, prompts' = prompts, left' \subseteq left, turn' \in {"asking", "replying", "waiting"},
              prompts # <<>>
       PROVE  ChildTyped /\ Sees({None})
  BY <1>1, <1>3, <1>5, <1>6, <1>10 DEF ChildTyped, Sees
<1>11. turn # "idle" => prompts # <<>>
  BY <1>1 DEF Typed
<1>12. CASE TurnStarts
  <2>1. turn # "idle" /\ turn' = "asking" /\ prompts' = prompts /\ left' = left
          /\ history' = Append(history, Receives)
    BY <1>12 DEF TurnStarts
  <2>2. Receives \in Spoken /\ Receives.of \in Seen
    BY <1>5, <1>7, <1>11, <2>1, SaidTyped DEF Receives
  <2> QED BY <1>1, <1>3, <1>5, <1>8, <1>11, <2>1, <2>2 DEF ChildTyped, Sees
<1>13. CASE ReplyStarts
  BY <1>10, <1>11, <1>13 DEF ReplyStarts
<1>14. CASE ReplyEnds
  <2> DEFINE reply == Said(Head(prompts), "assistant")
             next == Said(prompts[2], "user")
  <2>1. turn # "idle" /\ prompts' = Tail(prompts) /\ left' = left /\ prompts # <<>>
    BY <1>11, <1>14 DEF ReplyEnds
  <2>2. reply \in Spoken /\ reply.of \in Seen
    BY <1>5, <1>7, <2>1, SaidTyped
  <2>3. prompts' \in Seq(Prompt) /\ \A i \in 1..Len(prompts') : prompts'[i] \in Seen
    BY <1>5, <1>7, <2>1
  <2>4. CASE Len(prompts) = 1
    <3>1. turn' = "idle" /\ history' = Append(history, reply)
      BY <1>14, <2>4 DEF ReplyEnds
    <3> HIDE DEF reply
    <3> QED BY <1>1, <1>3, <1>8, <2>1, <2>2, <2>3, <3>1 DEF ChildTyped, Sees
  <2>5. CASE Len(prompts) # 1
    <3>1. turn' = "asking" /\ history' = history \o <<reply, next>>
      BY <1>14, <2>5 DEF ReplyEnds
    <3>2. 2 \in 1..Len(prompts) /\ prompts' # <<>>
      <4>1. PICK n \in Nat : n = Len(prompts)
        BY <1>3
      <4>2. n # 0 /\ n # 1
        BY <1>3, <2>1, <2>5, <4>1
      <4>3. 2 \in 1..n /\ n - 1 # 0
        BY <4>2
      <4> QED BY <1>7, <2>1, <2>3, <4>1, <4>3
    <3>3. next \in Spoken /\ next.of \in Seen
      BY <1>3, <1>5, <3>2, SaidTyped
    <3> HIDE DEF reply, next
    <3>4. history \o <<reply, next>> = Append(Append(history, reply), next)
      BY <1>3, <2>2, <3>3
    <3> DEFINE h == Append(history, reply)
    <3>5. h \in Seq(Spoken) /\ \A i \in 1..Len(h) : h[i].of \in Seen \cup {None}
      BY <1>8, <2>2
    <3>6. Append(h, next) \in Seq(Spoken)
            /\ \A i \in 1..Len(Append(h, next)) : Append(h, next)[i].of \in Seen \cup {None}
      <4> HIDE DEF h
      <4>1. /\ Append(h, next) \in Seq(Spoken)
            /\ \A i \in 1..Len(Append(h, next)) : Append(h, next)[i] = next \/ (i \in 1..Len(h) /\ Append(h, next)[i] = h[i])
        BY <3>3, <3>5, OneMore
      <4> QED BY <3>3, <3>5, <4>1
    <3> QED BY <1>1, <1>3, <2>1, <2>3, <3>1, <3>2, <3>4, <3>6 DEF ChildTyped, Sees
  <2> QED BY <2>4, <2>5
<1>15. CASE AttemptFails
  BY <1>10, <1>11, <1>15 DEF AttemptFails
<1>16. CASE Retries
  BY <1>10, <1>11, <1>16 DEF Retries
<1>17. CASE CustomMessage
  <2>1. turn' = turn /\ prompts' = prompts /\ left' \subseteq left /\ history' = Append(history, Said(None, "custom"))
    BY <1>17 DEF CustomMessage
  <2>2. Said(None, "custom") \in Spoken /\ Said(None, "custom").of \in Seen \cup {None}
    BY SaidTyped
  <2>3. turn \in {"idle", "begun", "asking", "replying", "waiting"}
    BY <1>1 DEF Typed
  <2> QED BY <1>1, <1>3, <1>5, <1>8, <1>11, <2>1, <2>2, <2>3 DEF ChildTyped, Sees
<1>18. CASE Compacts
  <2>1. turn' = turn /\ prompts' = prompts /\ left' \subseteq left /\ history' = <<Said(None, "custom")>>
    BY <1>18 DEF Compacts
  <2>2. Said(None, "custom") \in Spoken /\ Said(None, "custom").of = None
    BY SaidTyped
  <2>3. turn \in {"idle", "begun", "asking", "replying", "waiting"}
    BY <1>1 DEF Typed
  <2>4. history' \in Seq(Spoken) /\ \A i \in 1..Len(history') : history'[i].of = None
    BY <2>1, <2>2
  <2> QED BY <1>1, <1>3, <1>5, <1>11, <2>1, <2>3, <2>4 DEF ChildTyped, Sees
<1> QED BY <1>12, <1>13, <1>14, <1>15, <1>16, <1>17, <1>18 DEF ChildWorks

\* It keeps what is known.
LEMMA WorksKeep == ASSUME Inv, ChildWorks PROVE Inv'
<1>1. Typed /\ UNCHANGED server /\ toChild' = toChild /\ CommandsGo /\ UNCHANGED abandoned
  BY DEF Inv, ChildWorks, CommandsGo
<1>2. PICK lines : Tells(lines)
  BY <1>1, WorksTells
<1>3. None \notin Prompt /\ abandoned \subseteq Prompt
  BY <1>1, RpcAssumption DEF Typed
<1>4. MaySee({None})
  <2>1. \A i \in 1..Len(toChild') : toChild'[i].command = "prompt" => toChild'[i].of \in Prompt
    BY <1>1 DEF Typed, CommandLine
  <2> QED BY <1>1, <1>3, <2>1 DEF MaySee
<1> QED BY <1>1, <1>2, <1>4, WorksSees, TellsKeeps

\* A command is read by the child.
LEMMA CommandRead ==
  ASSUME Typed, toChild # <<>>, toChild' = Tail(toChild)
  PROVE  /\ CommandsGo /\ Head(toChild) \in CommandLine /\ Head(toChild) = toChild[1] /\ 1 \in 1..Len(toChild)
         /\ toChild' \in Seq(CommandLine) /\ Without(toChild, toChild', 1)
         /\ \A i \in 1..Len(toChild') : i + 1 \in 1..Len(toChild) /\ toChild'[i] = toChild[i + 1]
<1>1. toChild \in Seq(CommandLine)
  BY DEF Typed
<1>2. /\ Head(toChild) \in CommandLine /\ Head(toChild) = toChild[1] /\ 1 \in 1..Len(toChild)
      /\ toChild' \in Seq(CommandLine) /\ Without(toChild, toChild', 1)
  BY <1>1, HeadGoes
<1>3. \A i \in 1..Len(toChild') : i + 1 \in 1..Len(toChild) /\ toChild'[i] = toChild[i + 1]
  <2>1. Len(toChild') \in Nat /\ Len(toChild) \in Nat
    BY <1>1, <1>2
  <2> QED BY <1>2, <2>1 DEF Without
<1> QED BY <1>2, <1>3 DEF CommandsGo

\* A prompt joins those the child is to answer.
LEMMA PromptRead ==
  ASSUME Inv, UNCHANGED server, toChild # <<>>, toChild' = Tail(toChild), ReadsPrompt(Head(toChild))
  PROVE  Inv'
<1> DEFINE c == Head(toChild)
<1>1. /\ CommandsGo /\ c \in CommandLine /\ c = toChild[1] /\ 1 \in 1..Len(toChild)
      /\ toChild' \in Seq(CommandLine)
      /\ \A i \in 1..Len(toChild') : i + 1 \in 1..Len(toChild) /\ toChild'[i] = toChild[i + 1]
  BY CommandRead DEF Inv
<1>2. ReadsPrompt(c)
  OBVIOUS
<1> HIDE DEF c
<1>3. c.command = "prompt" /\ c.of \in Prompt /\ UNCHANGED <<history, abandoned, left>>
  BY <1>1, <1>2 DEF ReadsPrompt, CommandLine
<1>4. PICK a : Replies(a) /\ a.to = "prompt"
  BY <1>1, <1>2, PromptReplies DEF Inv
<1>5. Typed /\ OfTheNew
  BY DEF Inv
<1>6. prompts \in Seq(Prompt) /\ history \in Seq(Spoken) /\ abandoned \subseteq Prompt
      /\ turn \in {"idle", "begun", "asking", "replying", "waiting"} /\ (turn # "idle" => prompts # <<>>)
  BY <1>5 DEF Typed
<1>7. MaySee({c.of})
  <2>1. Unseen(c.of) /\ pc[c.of] # "new"
    BY <1>1, <1>3, <1>5 DEF OfTheNew
  <2>2. ASSUME NEW i \in 1..Len(toChild'), toChild'[i].command = "prompt", toChild'[i].of = c.of PROVE FALSE
    <3>1. i + 1 \in 1..Len(toChild) /\ toChild'[i] = toChild[i + 1]
      BY <1>1
    <3>2. i + 1 = 1
      BY <1>1, <1>3, <1>5, <2>2, <3>1 DEF OfTheNew
    <3> QED BY <3>2
  <2> QED BY <2>1, <2>2 DEF MaySee, Unseen
<1>8. ASSUME NEW l \in {prompts, Append(prompts, c.of), <<c.of>> \o prompts}
      PROVE  l \in Seq(Prompt) /\ (l # prompts => l # <<>>) /\ \A i \in 1..Len(l) : l[i] \in Seen \cup {c.of}
  <2>1. \A i \in 1..Len(prompts) : prompts[i] \in Seen
    BY DEF Seen
  <2>2. CASE l = prompts
    BY <1>6, <2>1, <2>2
  <2>3. CASE l = Append(prompts, c.of)
    <3>1. /\ l \in Seq(Prompt) /\ l # <<>>
          /\ \A i \in 1..Len(l) : l[i] = c.of \/ (i \in 1..Len(prompts) /\ l[i] = prompts[i])
      BY <1>3, <1>6, <2>3, OneMore
    <3> QED BY <2>1, <3>1
  <2>4. CASE l = <<c.of>> \o prompts
    <3>1. /\ l \in Seq(Prompt) /\ l # <<>> /\ Len(l) = 1 + Len(prompts) /\ Len(prompts) \in Nat /\ l[1] = c.of
          /\ \A i \in 1..Len(prompts) : l[1 + i] = prompts[i]
      BY <1>3, <1>6, <2>4
    <3>2. \A i \in 1..Len(l) : i = 1 \/ (i - 1 \in 1..Len(prompts) /\ l[i] = prompts[i - 1])
      BY <3>1
    <3> QED BY <2>1, <3>1, <3>2
  <2> QED BY <1>8, <2>2, <2>3, <2>4
<1>9. /\ prompts' \in {prompts, Append(prompts, c.of), <<c.of>> \o prompts}
      /\ turn' = turn \/ (turn' = "begun" /\ prompts' # prompts) \/ (turn' = "begun" /\ prompts' = <<c.of>> \o prompts)
      /\ suspended' \in BOOLEAN
  <2>1. suspended \in BOOLEAN
    BY <1>5 DEF Typed
  <2> QED BY <1>2, <2>1 DEF ReadsPrompt, Refuses
<1>10. <<c.of>> \o prompts # <<>>
  BY <1>3, <1>6
<1>11. prompts' = prompts \/ prompts' # <<>>
  BY <1>8, <1>9
<1>12. ChildTyped
  BY <1>3, <1>6, <1>8, <1>9, <1>10, <1>11 DEF ChildTyped
<1>13. Sees({c.of})
  <2>1. \A i \in 1..Len(history) : history[i].of \in Seen
    BY DEF Seen
  <2> QED BY <1>3, <1>8, <1>9, <2>1 DEF Sees
<1> QED BY <1>1, <1>3, <1>4, <1>7, <1>12, <1>13, RepliesKeep

\* A question is answered, the messages with the child's own.
LEMMA QuestionRead ==
  ASSUME Inv, UNCHANGED server, toChild # <<>>, toChild' = Tail(toChild), ReadsQuestion(Head(toChild))
  PROVE  Inv'
<1>1. CommandsGo /\ Head(toChild) \in CommandLine
  BY CommandRead DEF Inv
<1>2. Head(toChild) \in Asking /\ \E a : Replies(a) /\ a.to = Head(toChild).command
        /\ (a.to = "messages" => a.data = history)
  BY <1>1, QuestionReplies DEF Inv
<1>3. UNCHANGED child /\ left' \subseteq left
  BY DEF ReadsQuestion
<1>4. Clean(history)
  BY DEF Inv, OfTheNew
<1>5. ChildTyped
  BY <1>3 DEF ChildTyped, Inv, Typed, child
<1>6. MaySee({}) /\ Sees({})
  BY <1>3 DEF MaySee, Sees, Seen, child
<1>7. PICK a : Replies(a) /\ a.to = Head(toChild).command /\ (a.to = "messages" => a.data = history)
  BY <1>2
<1>8. a.to = "messages" => Clean(a.data)
  BY <1>4, <1>7
<1> QED BY <1>1, <1>2, <1>3, <1>5, <1>6, <1>7, <1>8, RepliesKeep DEF child

\* An abort is answered by what is stopped.
LEMMA AbortSays ==
  ASSUME Typed, NEW c, ReadsAbort(c) PROVE ChildTyped /\ Sees({}) /\ \E lines : Tells(lines)
<1>2. Typed
  OBVIOUS
<1>3. UNCHANGED <<history, abandoned, left>> /\ suspended' \in BOOLEAN
  BY DEF ReadsAbort, Typed
<1>5. CASE UNCHANGED <<turn, prompts, fromChild>>
  <2> DEFINE lines == <<>>
  <2>1. lines \in Seq(RecordLine) /\ lines \in Seq(Line) /\ \A E : ~SomeIn(lines, E)
    BY DEF SomeIn
  <2>2. fromChild' = fromChild \o lines
    BY <1>2, <1>5 DEF Typed
  <2> HIDE DEF lines
  <2>3. SaysPartial(lines)
    BY <1>5, <2>1 DEF SaysPartial
  <2>4. SaysEnd(lines)
    BY <1>5, <2>1 DEF SaysEnd
  <2>5. Tells(lines)
    BY <2>1, <2>2, <2>3, <2>4 DEF Tells
  <2>6. ChildTyped
    BY <1>2, <1>3, <1>5 DEF ChildTyped, Typed
  <2>7. Sees({})
    BY <1>3, <1>5 DEF Sees, Seen
  <2> QED BY <2>5, <2>6, <2>7
<1>6. CASE turn # "idle" /\ prompts' = Tail(prompts) /\ Tells(Stopped)
  <2>1. turn' = "idle"
    BY <1>6 DEF ReadsAbort
  <2>2. prompts \in Seq(Prompt) /\ prompts # <<>>
    BY <1>2, <1>6 DEF Typed
  <2>3. prompts' \in Seq(Prompt) /\ Without(prompts, prompts', 1)
    BY <1>6, <2>2, HeadGoes
  <2>4. \A i \in 1..Len(prompts') : i + 1 \in 1..Len(prompts) /\ prompts'[i] = prompts[i + 1]
    <3>1. Len(prompts') \in Nat /\ Len(prompts) \in Nat
      BY <2>2, <2>3
    <3> QED BY <2>3, <3>1 DEF Without
  <2>5. ChildTyped
    BY <1>2, <1>3, <2>1, <2>3 DEF ChildTyped, Typed
  <2>6. Sees({})
    BY <1>3, <2>4 DEF Sees, Seen
  <2> QED BY <1>6, <2>5, <2>6
<1> QED BY <1>5, <1>6, AbortTells

\* It keeps what is known.
LEMMA AbortRead ==
  ASSUME Inv, UNCHANGED server, toChild # <<>>, toChild' = Tail(toChild), ReadsAbort(Head(toChild))
  PROVE  Inv'
<1>1. CommandsGo
  BY CommandRead DEF Inv
<1>2. ChildTyped /\ Sees({}) /\ \E lines : Tells(lines)
  BY AbortSays DEF Inv
<1>3. MaySee({})
  BY DEF MaySee
<1>4. UNCHANGED abandoned
  BY DEF ReadsAbort
<1> QED BY <1>1, <1>2, <1>3, <1>4, TellsKeeps

\* After the last lines of the turn that is left, the answer to a new session.
LEMMA EndsAnswered ==
  ASSUME NEW L \in Seq(Line), NEW a \in AnswerLine, a.to = "new", NEW t, a.says = "cancelled" \/ t = "idle", EndsAt(L, t)
  PROVE  EndsAt(Append(L, a), t)
<1> DEFINE M == Append(L, a)
<1>1. a \in Line /\ a \notin Starts /\ a \notin Ends /\ (a.says = "cancelled" => a \notin Reboots)
  BY AnswerClasses DEF Questions
<1>2. M = L \o <<a>> /\ <<a>> \in Seq(Line)
  BY <1>1
<1>3. ~SomeIn(<<a>>, Starts) /\ (a.says = "cancelled" => ~SomeIn(<<a>>, Reboots))
  BY <1>1, OneLine
<1>4. SomeIn(M, Ends) <=> SomeIn(L, Ends)
  <2>1. ~SomeIn(<<a>>, Ends)
    BY <1>1, OneLine
  <2>2. SomeIn(L \o <<a>>, Ends) <=> SomeIn(L, Ends) \/ SomeIn(<<a>>, Ends)
    BY <1>2, EmitSome
  <2> QED BY <1>2, <2>1, <2>2
<1>5. Followed(L, Starts, Ends) => Followed(M, Starts, Ends)
  BY <1>2, <1>3, EmitFollowed
<1>6. CASE a.says = "cancelled"
  <2>1. /\ Barred(L, Starts, Ends, Reboots) => Barred(M, Starts, Ends, Reboots)
        /\ Before(L, Ends, Reboots) => Before(M, Ends, Reboots)
    BY <1>2, <1>3, <1>6, EmitBarred
  <2> HIDE DEF M
  <2> QED BY <1>4, <1>5, <2>1 DEF EndsAt, M
<1>7. CASE t = "idle"
  <2>1. /\ Barred(L, Starts, Ends, Reboots) /\ Followed(L, Starts, Ends) => Barred(M, Starts, Ends, Reboots)
        /\ Before(L, Ends, Reboots) /\ SomeIn(L, Ends) => Before(M, Ends, Reboots)
    BY <1>1, EmitLast
  <2> HIDE DEF M
  <2> QED BY <1>4, <1>5, <1>7, <2>1 DEF EndsAt, M
<1> QED BY <1>6, <1>7

\* The answer is no part of a reply.
LEMMA PartialAnswered ==
  ASSUME NEW L \in Seq(Line), NEW a \in AnswerLine, NEW t, PartialAt(L, t)
  PROVE  PartialAt(Append(L, a), t)
<1> DEFINE M == Append(L, a)
<1>1. a \in Line /\ a \notin PartialStarts /\ a \notin PartialEnds
  BY AnswerClasses
<1>2. M = L \o <<a>> /\ <<a>> \in Seq(Line)
  BY <1>1
<1>3. ~SomeIn(<<a>>, PartialStarts)
  BY <1>1, OneLine
<1>4. SomeIn(L, PartialEnds) => SomeIn(M, PartialEnds)
  BY <1>2, EmitSome
<1>5. Followed(L, PartialStarts, PartialEnds) => Followed(M, PartialStarts, PartialEnds)
  BY <1>2, <1>3, EmitFollowed
<1>6. /\ Barred(L, PartialStarts, PartialEnds, PartialStarts) => Barred(M, PartialStarts, PartialEnds, PartialStarts)
      /\ Before(L, PartialEnds, PartialStarts) => Before(M, PartialEnds, PartialStarts)
  BY <1>2, <1>3, EmitBarred
<1> HIDE DEF M
<1> QED BY <1>4, <1>5, <1>6 DEF PartialAt, M

\* What the child says to a new session: nothing, or the last of its turn, then the answer.
LEMMA NewReplies ==
  ASSUME Typed, NEW c, ReadsNew(c)
  PROVE  \E lines, a : /\ lines \in Seq(RecordLine) /\ lines \in Seq(Line) /\ ~SomeIn(lines, News)
                       /\ SaysEnd(lines) /\ SaysPartial(lines)
                       /\ a \in AnswerLine /\ a.to = "new" /\ (a.says = "cancelled" \/ turn' = "idle")
                       /\ fromChild' = fromChild \o (lines \o <<a>>)
<1>1. \A says \in {"ok", "cancelled"} : /\ Answer("new", None, says, <<>>) \in AnswerLine
                                        /\ Answer("new", None, says, <<>>).to = "new"
                                        /\ Answer("new", None, says, <<>>).says = says
  <2>1. <<>> \in Seq(Spoken)
    OBVIOUS
  <2> QED BY <2>1 DEF Answer, AnswerLine, Sayings, Outcomes
<1> DEFINE none == <<>>
<1>2. none \in Seq(RecordLine) /\ none \in Seq(Line) /\ \A E : ~SomeIn(none, E)
  BY DEF SomeIn
<1>3. \A x : none \o <<x>> = <<x>>
  OBVIOUS
<1>4. ASSUME turn' = turn PROVE SaysEnd(none) /\ SaysPartial(none)
  <2> HIDE DEF none
  <2> QED BY <1>2, <1>4 DEF SaysEnd, SaysPartial
<1>5. CASE Emits(<<Answer("new", None, "cancelled", <<>>)>>) /\ UNCHANGED child
  <2> DEFINE a == Answer("new", None, "cancelled", <<>>)
  <2>1. a \in AnswerLine /\ a.to = "new" /\ a.says = "cancelled"
    BY <1>1
  <2>2. fromChild' = fromChild \o (none \o <<a>>) /\ turn' = turn
    BY <1>3, <1>5 DEF Emits, child
  <2> HIDE DEF a, none
  <2> QED BY <1>2, <1>4, <2>1, <2>2
<1>6. CASE /\ Emits((IF turn = "idle" THEN <<>> ELSE Stopped) \o <<Answer("new", None, "ok", <<>>)>>)
           /\ turn' = "idle"
  <2> DEFINE a == Answer("new", None, "ok", <<>>)
  <2>1. a \in AnswerLine /\ a.to = "new"
    BY <1>1
  <2>2. CASE turn = "idle"
    <3>1. fromChild' = fromChild \o (none \o <<a>>) /\ turn' = turn
      BY <1>6, <2>2 DEF Emits
    <3> HIDE DEF a, none
    <3> QED BY <1>2, <1>4, <1>6, <2>1, <3>1
  <2>3. CASE turn # "idle"
    <3>1. fromChild' = fromChild \o (Stopped \o <<a>>)
      BY <1>6, <2>3 DEF Emits
    <3>2. /\ Stopped \in Seq(RecordLine) /\ Stopped \in Seq(Line) /\ ~SomeIn(Stopped, News)
          /\ SaysEnd(Stopped) /\ SaysPartial(Stopped)
      BY <1>6, <2>3, StopTold
    <3> HIDE DEF a
    <3> QED BY <1>6, <2>1, <3>1, <3>2
  <2> QED BY <2>2, <2>3
<1> QED BY <1>5, <1>6 DEF ReadsNew

\* A new session is answered, after the end of the turn it abandons.
LEMMA NewRead ==
  ASSUME Inv, UNCHANGED server, toChild # <<>>, toChild' = Tail(toChild), ReadsNew(Head(toChild))
  PROVE  Inv'
<1>1. /\ CommandsGo /\ Head(toChild) \in CommandLine /\ Head(toChild) = toChild[1] /\ 1 \in 1..Len(toChild)
      /\ toChild' \in Seq(CommandLine) /\ Without(toChild, toChild', 1) /\ toChild \in Seq(CommandLine)
  BY CommandRead DEF Inv, Typed
<1>2. PICK lines, a : /\ lines \in Seq(RecordLine) /\ lines \in Seq(Line) /\ ~SomeIn(lines, News)
                      /\ SaysEnd(lines) /\ SaysPartial(lines)
                      /\ a \in AnswerLine /\ a.to = "new" /\ (a.says = "cancelled" \/ turn' = "idle")
                      /\ fromChild' = fromChild \o (lines \o <<a>>)
  BY NewReplies DEF Inv
<1>3. records \in Seq(Line) /\ fromChild \in Seq(Line) /\ records' = records
  BY DEF Inv, Typed, Line, server
<1>4. a \in Line /\ a \in News /\ a \in AnsweredNew /\ a \notin Rebootstrap /\ a \notin Answering
        /\ a \notin MessagesAnswers
  BY <1>2, AnswerClasses DEF Questions
<1> DEFINE all == lines \o <<a>>
<1>5. all \in Seq(Line)
  BY <1>2, <1>4
<1>6. Lines \in Seq(Line) /\ Lines' = Lines \o all
  BY <1>2, <1>3, <1>5, LinesGrow
<1> DEFINE L == Lines \o lines
<1>7. L \in Seq(Line) /\ Lines' = Append(L, a)
  BY <1>2, <1>4, <1>6
<1>8. ~SomeIn(lines, Answering) /\ ~SomeIn(lines, MessagesAnswers) /\ ~SomeIn(lines, Reboots)
  <2>1. \A i \in 1..Len(lines) : lines[i] \in RecordLine
    BY <1>2
  <2>2. \A l \in RecordLine : l \notin Answering /\ l \notin MessagesAnswers /\ (l \in Reboots => l \in News)
    BY RecordClasses
  <2> QED BY <1>2, <2>1, <2>2 DEF SomeIn
<1>9. ~SomeIn(all, Answering) /\ ~SomeIn(all, MessagesAnswers)
  <2>1. <<a>> \in Seq(Line) /\ ~SomeIn(<<a>>, Answering) /\ ~SomeIn(<<a>>, MessagesAnswers)
    BY <1>4, OneLine
  <2> QED BY <1>2, <1>8, <2>1, EmitSome
<1>10. SomeIn(toChild, AskNew)
  <2>1. toChild[1] \in AskNew
    BY <1>1 DEF AskNew, ReadsNew
  <2> QED BY <1>1, <2>1 DEF SomeIn
<1>11. ~SomeIn(Lines, News) /\ newSession = "sent" /\ work.task # "session" /\ ~SomeIn(toChild', AskNew)
         /\ "new" \notin left
  <2>1. ~SomeIn(Lines, News) /\ newSession = "sent"
    BY <1>10 DEF Inv, OneSession
  <2>2. work.task # "session" /\ "new" \notin left
    BY <2>1 DEF Inv, OneSession
  <2>3. toChild[1] \in AskNew /\ OnlyOne(toChild, AskNew)
    BY <1>1 DEF AskNew, ReadsNew, Inv, OneSession
  <2>4. ~SomeIn(toChild', AskNew)
    BY <1>1, <2>3, WithoutKeeps
  <2> QED BY <2>1, <2>2, <2>4
<1>12. /\ left' = left
       /\ \/ UNCHANGED child
          \/ /\ history' = <<>> /\ turn' = "idle" /\ prompts' = <<>>
             /\ abandoned' = {m.of : m \in {n \in ToSet(history) : n.of # None}} \cup ToSet(prompts)
       /\ suspended' \in BOOLEAN
  BY DEF ReadsNew, child, Inv, Typed
<1>13. Typed /\ history \in Seq(Spoken) /\ prompts \in Seq(Prompt)
  BY DEF Inv, Typed
<1>14. ToSet(history) = {history[i] : i \in 1..Len(history)} /\ ToSet(prompts) = {prompts[i] : i \in 1..Len(prompts)}
  BY <1>13 DEF ToSet
<1>15. ChildTyped
  <2>1. CASE UNCHANGED child
    BY <1>12, <1>13, <2>1 DEF ChildTyped, child, Typed
  <2>2. CASE history' = <<>> /\ turn' = "idle" /\ prompts' = <<>>
               /\ abandoned' = {m.of : m \in {n \in ToSet(history) : n.of # None}} \cup ToSet(prompts)
    <3>1. \A i \in 1..Len(history) : history[i].of \in Prompt \cup {None}
      BY <1>13 DEF Spoken, Message
    <3>2. abandoned' \subseteq Prompt
      BY <1>13, <1>14, <2>2, <3>1
    <3> QED BY <1>12, <2>2, <3>2 DEF ChildTyped
  <2> QED BY <1>12, <2>1, <2>2
<1> HIDE DEF L, all
<1>16. Typed'
  BY <1>1, <1>2, <1>5, <1>13, <1>15, TypedTold DEF all
<1>17. Matched'
  BY <1>1, <1>5, <1>6, <1>9, MatchedTold DEF Inv, server
<1>18. OneSession'
  <2>1. ~SomeIn(L, News)
    BY <1>2, <1>6, <1>11, EmitSome DEF L
  <2>2. OnlyOne(L, News)
    BY <2>1 DEF SomeIn, OnlyOne
  <2>3. OnlyOne(Lines', News)
    BY <1>4, <1>7, <2>1, <2>2, OneMore
  <2>4. ~SomeIn(L, Rebootstrap)
    BY <2>1 DEF SomeIn, News
  <2>5. ~SomeIn(Lines', Rebootstrap)
    BY <1>4, <1>7, <2>4, OneMore
  <2>6. OnlyOne(toChild', AskNew)
    BY <1>11 DEF SomeIn, OnlyOne
  <2> QED BY <1>11, <1>12, <2>3, <2>5, <2>6 DEF OneSession, server
<1>19. EndsComing'
  <2>1. EndsAt(L, turn')
    BY <1>2, <1>6, <1>8, EndsTold DEF Inv, EndsComing, L
  <2>2. EndsAt(Lines', turn')
    BY <1>2, <1>7, <2>1, EndsAnswered
  <2>3. Ends' = Ends
    BY DEF Ends, server
  <2> QED BY <2>2, <2>3 DEF EndsAt, EndsComing, server
<1>20. OnePartial'
  <2>1. PartialAt(L, turn')
    BY <1>2, <1>6, PartialTold DEF Inv, OnePartial, L
  <2>2. PartialAt(Lines', turn')
    BY <1>2, <1>7, <2>1, PartialAnswered
  <2>3. PartialEnds' = PartialEnds
    BY DEF PartialEnds, server
  <2>4. HasPartial' = HasPartial /\ Replacing' = Replacing
    BY DEF HasPartial, Replacing, server
  <2> QED BY <2>2, <2>3, <2>4 DEF PartialAt, OnePartial, server
<1>21. OfTheNew'
  <2>1. CASE UNCHANGED child
    <3>1. \A i \in 1..Len(Lines') : Lines'[i] \in MessagesAnswers => i \in 1..Len(Lines) /\ Lines'[i] = Lines[i]
      BY <1>5, <1>6, <1>9, NoneMore
    <3>2. MaySee({}) /\ Sees({})
      BY <2>1 DEF MaySee, Sees, Seen, child
    <3> QED BY <1>1, <2>1, <3>1, <3>2, NewTold DEF Inv, server, child
  <2>2. CASE history' = <<>> /\ turn' = "idle" /\ prompts' = <<>>
               /\ abandoned' = {m.of : m \in {n \in ToSet(history) : n.of # None}} \cup ToSet(prompts)
    <3>1. \A p : p \in abandoned' => p \in Seen
      BY <1>14, <2>2 DEF Seen
    <3>2. ASSUME NEW p, Unseen(p) PROVE Unseen(p)'
      <4>1. p \notin abandoned'
        BY <3>1, <3>2 DEF Unseen, Seen
      <4> QED BY <2>2, <4>1 DEF Unseen
    <3>3. Clean(history)' /\ \A i \in 1..Len(prompts') : prompts'[i] \notin abandoned'
      BY <2>2 DEF Clean
    <3>4. \A i \in 1..Len(toChild') : i + 1 \in 1..Len(toChild) /\ toChild'[i] = toChild[i + 1]
      BY <1>13, CommandRead
    <3>5. ASSUME NEW i \in 1..Len(toChild'), toChild'[i].command = "prompt"
          PROVE  \E p : p = toChild'[i].of /\ Unseen(p)' /\ pc'[p] # "new"
      <4>1. PICK p : p = toChild'[i].of
        OBVIOUS
      <4>2. Unseen(p) /\ pc[p] # "new"
        BY <3>4, <3>5, <4>1 DEF Inv, OfTheNew
      <4> QED BY <3>2, <4>1, <4>2 DEF server
    <3>6. \A i \in 1..Len(toChild') : toChild'[i].command = "prompt" => Unseen(toChild[i].of)'
            /\ pc'[toChild'[i].of] # "new"
      BY <3>5 DEF Unseen
    <3>7. ASSUME NEW i \in 1..Len(toChild'), NEW j \in 1..Len(toChild'), toChild'[i].command = "prompt",
                 toChild'[j].command = "prompt", toChild'[i].of = toChild'[j].of
          PROVE  i = j
      <4>1. i + 1 = j + 1
        BY <3>4, <3>7 DEF Inv, OfTheNew
      <4> QED BY <4>1
    <3>8. \A p \in Prompt : pc'[p] = "new" => Unseen(p)'
      BY <3>2 DEF Inv, OfTheNew, server
    <3> QED BY <1>11, <3>3, <3>6, <3>7, <3>8 DEF OfTheNew, server
  <2> QED BY <1>12, <2>1, <2>2
<1> QED BY <1>16, <1>17, <1>18, <1>19, <1>20, <1>21 DEF Inv

\* Whatever the child reads.
LEMMA ReadsKeep == ASSUME Inv, ChildReads PROVE Inv'
BY PromptRead, QuestionRead, NewRead, AbortRead DEF ChildReads

-----------------------------------------------------------------------------
(* What the server reads                                                   *)

\* A record joins the queue: it keeps its place among the lines.
LEMMA RecordRead ==
  ASSUME Inv, fromChild # <<>>, fromChild' = Tail(fromChild), Head(fromChild).kind # "answer",
         records' = Append(records, Head(fromChild)),
         UNCHANGED <<completionEvent, streaming, messages, work, failed, told, misled, pc, newSession, toChild, child,
                     left>>
  PROVE  Inv'
<1>1. Typed /\ records \in Seq(Line) /\ fromChild \in Seq(Line)
  BY DEF Inv, Typed, Line
<1>2. Lines' = Lines
  BY <1>1, LinesStay
<1>3. Head(fromChild) \in RecordLine /\ fromChild' \in Seq(Line)
  BY <1>1 DEF Line, AnswerLine
<1>4. records' \in Seq(RecordLine)
  BY <1>1, <1>3 DEF Typed
<1>5. Typed'
  BY <1>1, <1>3, <1>4 DEF Typed, WorkOK, child
<1>6. Matched' /\ OneSession'
  BY <1>2 DEF Inv, Matched, OneSession
<1>7. Ends' = Ends /\ PartialEnds' = PartialEnds /\ HasPartial' = HasPartial /\ Replacing' = Replacing
  BY DEF Ends, PartialEnds, HasPartial, Replacing
<1>8. EndsComing' /\ OnePartial'
  BY <1>2, <1>7 DEF Inv, EndsComing, EndsAt, OnePartial, PartialAt, child
<1>9. OfTheNew'
  BY <1>2 DEF Inv, OfTheNew, Clean, Unseen, child
<1> QED BY <1>5, <1>6, <1>8, <1>9 DEF Inv

\* An answer that goes is the end of nothing.
LEMMA AnswerKeeps ==
  ASSUME NEW L \in Seq(Line), NEW M \in Seq(Line), NEW k, Without(L, M, k), L[k] \in AnswerLine
  PROVE  /\ Followed(L, Starts, Ends) => Followed(M, Starts, Ends)
         /\ Barred(L, Starts, Ends, Reboots) => Barred(M, Starts, Ends, Reboots)
         /\ SomeIn(L, Ends) => SomeIn(M, Ends)
         /\ Before(L, Ends, Reboots) => Before(M, Ends, Reboots)
         /\ L[k] \in Starts /\ Followed(L, Starts, Ends) => SomeIn(M, Ends)
         /\ \A t : PartialAt(L, t) => PartialAt(M, t)
<1>1. L[k] \notin Ends /\ L[k] \notin PartialEnds /\ k \in 1..Len(L)
  BY AnswerClasses DEF Without
<1>2. /\ Followed(L, Starts, Ends) => Followed(M, Starts, Ends)
      /\ Barred(L, Starts, Ends, Reboots) => Barred(M, Starts, Ends, Reboots)
      /\ SomeIn(L, Ends) => SomeIn(M, Ends)
      /\ Before(L, Ends, Reboots) => Before(M, Ends, Reboots)
  BY <1>1, WithoutKeeps
<1>3. L[k] \in Starts /\ Followed(L, Starts, Ends) => SomeIn(L, Ends)
  BY <1>1, FirstHad
<1>4. /\ Followed(L, PartialStarts, PartialEnds) => Followed(M, PartialStarts, PartialEnds)
      /\ Barred(L, PartialStarts, PartialEnds, PartialStarts) => Barred(M, PartialStarts, PartialEnds, PartialStarts)
      /\ SomeIn(L, PartialEnds) => SomeIn(M, PartialEnds)
      /\ Before(L, PartialEnds, PartialStarts) => Before(M, PartialEnds, PartialStarts)
  BY <1>1, WithoutKeeps
<1>5. \A t : PartialAt(L, t) => PartialAt(M, t)
  BY <1>4 DEF PartialAt
<1> QED BY <1>2, <1>3, <1>5

\* What an answer leaves behind.
AnswerRead ==
  /\ fromChild # <<>> /\ fromChild' = Tail(fromChild) /\ Head(fromChild) \in AnswerLine
  /\ UNCHANGED <<completionEvent, child, left>>
\* The answer was the first of what the child said and the server had not read.
LEMMA AnswerFacts ==
  ASSUME Inv, AnswerRead
  PROVE  /\ Typed /\ records \in Seq(Line) /\ fromChild \in Seq(Line) /\ fromChild' \in Seq(Line)
         /\ Ends' = Ends /\ PartialEnds' = PartialEnds
         /\ Len(records) + 1 \in 1..Len(Lines) /\ Lines[Len(records) + 1] = Head(fromChild)
         /\ Lines \in Seq(Line)
<1>1. Typed /\ records \in Seq(Line) /\ fromChild \in Seq(Line)
  BY DEF Inv, Typed, Line
<1>2. fromChild # <<>> /\ fromChild' = Tail(fromChild)
  BY DEF AnswerRead
<1>3. fromChild' \in Seq(Line)
  BY <1>1, <1>2
<1>4. Ends' = Ends /\ PartialEnds' = PartialEnds
  BY DEF Ends, PartialEnds, AnswerRead
<1>5. /\ Lines \in Seq(Line) /\ Len(Lines) = Len(records) + Len(fromChild) /\ Len(records) \in Nat
      /\ \A i \in 1..Len(fromChild) : Lines[Len(records) + i] = fromChild[i]
  BY <1>1, Joined DEF Lines
<1>6. 1 \in 1..Len(fromChild) /\ Head(fromChild) = fromChild[1]
  BY <1>1, <1>2, HeadGoes
<1>7. Len(fromChild) \in Nat
  BY <1>1
<1>8. Len(records) + 1 \in 1..Len(Lines)
  BY <1>5, <1>6, <1>7
<1> QED BY <1>1, <1>3, <1>4, <1>5, <1>6, <1>8

\* An answer that goes while the records stay.
LEMMA AnswerWithout ==
  ASSUME Inv, AnswerRead, records' = records
  PROVE  /\ Lines' \in Seq(Line) /\ Without(Lines, Lines', Len(records) + 1)
         /\ \A i \in 1..Len(Lines') : \E j \in 1..Len(Lines) : Lines'[i] = Lines[j]
         /\ \A E : SomeIn(Lines', E) => SomeIn(Lines, E)
         /\ \A E : OnlyOne(Lines, E) => OnlyOne(Lines', E)
<1>1. Typed /\ records \in Seq(Line) /\ fromChild \in Seq(Line)
  BY AnswerFacts
<1>2. Lines \in Seq(Line) /\ Lines' \in Seq(Line) /\ Without(Lines, Lines', Len(records) + 1)
  BY <1>1, AnswerGoes DEF AnswerRead
<1>3. \A i \in 1..Len(Lines') : \E j \in 1..Len(Lines) : Lines'[i] = Lines[j]
  <2> TAKE i \in 1..Len(Lines')
  <2>1. CASE i < Len(records) + 1
    BY <1>2, <2>1, WithoutPlaces
  <2>2. CASE ~(i < Len(records) + 1)
    BY <1>2, <2>2, WithoutPlaces
  <2> QED BY <2>1, <2>2
<1>4. \A E : SomeIn(Lines', E) => SomeIn(Lines, E)
  BY <1>3 DEF SomeIn
<1>5. \A E : OnlyOne(Lines, E) => OnlyOne(Lines', E)
  <2> TAKE E
  <2> QED BY <1>2, WithoutKeeps
<1> QED BY <1>2, <1>3, <1>4, <1>5

\* What is known of the questions, where none is answered.
LEMMA AnswerMatched ==
  ASSUME Inv, AnswerRead, records' = records, UNCHANGED <<work, toChild>> PROVE Matched'
<1>1. /\ \A i \in 1..Len(Lines') : \E j \in 1..Len(Lines) : Lines'[i] = Lines[j]
      /\ \A E : SomeIn(Lines', E) => SomeIn(Lines, E)
      /\ \A E : OnlyOne(Lines, E) => OnlyOne(Lines', E)
  BY AnswerWithout
<1>2. OnlyOne(Lines', Answering) /\ (SomeIn(Lines', Answering) => SomeIn(Lines, Answering))
  BY <1>1 DEF Inv, Matched
<1>3. \A i \in 1..Len(Lines') : Lines'[i] \in Answering => Lines'[i].to = work.waits
  BY <1>1 DEF Inv, Matched
<1> QED BY <1>2, <1>3 DEF Inv, Matched

\* What is known of the session, where none is answered.
LEMMA AnswerSession ==
  ASSUME Inv, AnswerRead, records' = records, UNCHANGED newSession,
         work'.task = "session" => work.task = "session",
         SomeIn(toChild', AskNew) => SomeIn(toChild, AskNew), OnlyOne(toChild', AskNew)
  PROVE  OneSession'
<1>1. /\ \A E : SomeIn(Lines', E) => SomeIn(Lines, E)
      /\ \A E : OnlyOne(Lines, E) => OnlyOne(Lines', E)
  BY AnswerWithout
<1>2. /\ OnlyOne(Lines', News) /\ (SomeIn(Lines', News) => SomeIn(Lines, News))
      /\ (SomeIn(Lines', AnsweredNew) => SomeIn(Lines, AnsweredNew))
      /\ (SomeIn(Lines', Rebootstrap) => SomeIn(Lines, Rebootstrap))
  BY <1>1 DEF Inv, OneSession
<1>3. left' = left
  BY DEF AnswerRead
<1> QED BY <1>2, <1>3 DEF Inv, OneSession

\* No message of the session that was replaced comes in while neither the messages nor the child's
\* change.
LEMMA AnswerOfTheNew ==
  ASSUME Inv, AnswerRead, records' = records, UNCHANGED <<work, messages, toChild>>,
         \A p \in Prompt : pc'[p] = "new" => pc[p] = "new"
  PROVE  OfTheNew'
<1>1. \A i \in 1..Len(Lines') : \E j \in 1..Len(Lines) : Lines'[i] = Lines[j]
  BY AnswerWithout
<1>2. UNCHANGED <<history, prompts, abandoned>>
  BY DEF AnswerRead, child
<1>3. \A i \in 1..Len(toChild) : toChild[i].command = "prompt" => toChild[i].of \in Prompt
  BY DEF Inv, Typed, CommandLine
<1>4. work.task = "session" => \A i \in 1..Len(Lines') : Lines'[i] \in MessagesAnswers => Clean(Lines'[i].data)
  BY <1>1 DEF Inv, OfTheNew
<1> QED BY <1>2, <1>3, <1>4 DEF Inv, OfTheNew, Clean, Unseen

\* A prompt is accepted, or not: the end of the turn it is accepted for is to come.
LEMMA AcceptedKeeps ==
  ASSUME Inv, AnswerRead, Accepted(Head(fromChild)) PROVE Inv'
<1> DEFINE l == Head(fromChild)
           k == Len(records) + 1
<1>1. /\ Typed /\ records \in Seq(Line) /\ fromChild \in Seq(Line) /\ fromChild' \in Seq(Line)
      /\ Ends' = Ends /\ PartialEnds' = PartialEnds /\ Lines[k] = l /\ Lines \in Seq(Line)
  BY AnswerFacts
<1>2. l \in AnswerLine /\ UNCHANGED <<completionEvent, child, left>>
  BY DEF AnswerRead
<1>3. /\ l.to = "prompt" /\ pc' = [pc EXCEPT ![l.of] = IF l.says = "refused" THEN "refused" ELSE "accepted"]
      /\ streaming' = (streaming \/ l.says \notin {"refused", "handled"})
      /\ l.says # "suspended" /\ misled' = (misled \/ l.says = "silent")
      /\ UNCHANGED <<messages, records, work, failed, told, newSession, toChild>>
  BY DEF Accepted
<1>4. Lines' \in Seq(Line) /\ Without(Lines, Lines', k)
  BY <1>3, AnswerWithout
<1> HIDE DEF l, k
<1>5. l.of \in Prompt
  BY <1>2, <1>3 DEF AnswerLine
<1>6. pc' \in [Prompt -> {"new", "sent", "accepted", "refused"}] /\ \A p \in Prompt : pc'[p] = "new" => pc[p] = "new"
  BY <1>1, <1>3, <1>5 DEF Typed
<1>7. Typed'
  BY <1>1, <1>2, <1>3, <1>6 DEF Typed, WorkOK, child
<1>8. Matched' /\ OneSession'
  BY <1>3, AnswerMatched, AnswerSession DEF Inv, OneSession
<1>9. EndsComing'
  <2>1. /\ Followed(Lines, Starts, Ends) => Followed(Lines', Starts, Ends)
        /\ Barred(Lines, Starts, Ends, Reboots) => Barred(Lines', Starts, Ends, Reboots)
        /\ SomeIn(Lines, Ends) => SomeIn(Lines', Ends)
        /\ Before(Lines, Ends, Reboots) => Before(Lines', Ends, Reboots)
        /\ l \in Starts /\ Followed(Lines, Starts, Ends) => SomeIn(Lines', Ends)
    BY <1>1, <1>2, <1>4, AnswerKeeps
  <2>2. streaming' => streaming \/ misled' \/ l \in Starts
    BY <1>2, <1>3, AnswerClasses DEF AnswerLine, Outcomes
  <2>3. (streaming => streaming') /\ (misled => misled')
    BY <1>3
  <2>4. turn' = turn /\ told' = told /\ work' = work
    BY <1>2, <1>3 DEF child
  <2> QED BY <1>1, <2>1, <2>2, <2>3, <2>4 DEF Inv, EndsComing, EndsAt
<1>10. OnePartial'
  <2>1. PartialAt(Lines', turn)
    BY <1>1, <1>2, <1>4, AnswerKeeps DEF Inv, OnePartial
  <2>2. HasPartial' = HasPartial /\ Replacing' = Replacing /\ turn' = turn
    BY <1>2, <1>3 DEF HasPartial, Replacing, child
  <2> QED BY <1>1, <1>3, <2>1, <2>2 DEF OnePartial, PartialAt
<1>11. OfTheNew'
  BY <1>3, <1>6, AnswerOfTheNew
<1> QED BY <1>7, <1>8, <1>9, <1>10, <1>11 DEF Inv

\* The answer to a new session: the old one stays, or the refresh of the new one joins the queue.
LEMMA SessionAnsweredKeeps ==
  ASSUME Inv, AnswerRead, SessionAnswered(Head(fromChild)) PROVE Inv'
<1> DEFINE l == Head(fromChild)
           k == Len(records) + 1
<1>1. /\ Typed /\ records \in Seq(Line) /\ fromChild \in Seq(Line) /\ fromChild' \in Seq(Line)
      /\ Ends' = Ends /\ PartialEnds' = PartialEnds /\ Lines[k] = l /\ Lines \in Seq(Line) /\ k \in 1..Len(Lines)
  BY AnswerFacts
<1>2. l \in AnswerLine /\ UNCHANGED <<completionEvent, child, left>> /\ fromChild # <<>>
        /\ fromChild' = Tail(fromChild)
  BY DEF AnswerRead
<1>3. /\ l.to = "new" /\ UNCHANGED <<streaming, messages, work, failed, told, misled, pc, toChild>>
      /\ IF l.says = "cancelled" THEN newSession' = "over" /\ UNCHANGED records
         ELSE newSession' = "rebooting" /\ records' = Append(records, Record("rebootstrap"))
  BY DEF SessionAnswered
<1>4. records' = records => Lines' \in Seq(Line) /\ Without(Lines, Lines', k)
  BY AnswerWithout
<1>5. Record("rebootstrap") \in RecordLine /\ Record("rebootstrap").kind = "rebootstrap"
  BY RecordTyped DEF RecordKinds
<1>6. /\ records' = Append(records, Record("rebootstrap")) =>
           Lines' \in Seq(Line) /\ Instead(Lines, Lines', k) /\ Lines'[k] = Record("rebootstrap")
  <2>1. Record("rebootstrap") \in Line
    BY <1>5 DEF Line
  <2> QED BY <1>1, <1>2, <2>1, AnswerChanges
<1> HIDE DEF l, k
<1>7. /\ l \in News /\ l \in AnsweredNew /\ l \notin Answering /\ l \notin Ends /\ l \notin PartialEnds
      /\ (l.says # "cancelled" => l \in Reboots)
  BY <1>2, <1>3, AnswerClasses DEF Questions
<1>8. SomeIn(Lines, News) /\ SomeIn(Lines, AnsweredNew)
  BY <1>1, <1>7 DEF SomeIn
<1>9. newSession = "sent" /\ ~SomeIn(toChild, AskNew) /\ work.task # "session" /\ "new" \notin left
  <2>1. newSession = "sent" /\ ~SomeIn(toChild, AskNew)
    BY <1>8 DEF Inv, OneSession
  <2> QED BY <2>1 DEF Inv, OneSession
<1>10. OnlyOne(Lines, News) /\ OnlyOne(Lines, AnsweredNew)
  BY DEF Inv, OneSession, OnlyOne, News
<1>11. HasPartial' = HasPartial /\ Replacing' = Replacing /\ turn' = turn
  BY <1>2, <1>3 DEF HasPartial, Replacing, child
<1>12. OfTheNew'
  BY <1>2, <1>3, <1>9 DEF Inv, OfTheNew, Clean, Unseen, child
<1>13. records' \in Seq(RecordLine) /\ newSession' \in {"no", "sent", "rebooting", "over"}
  <2>1. records \in Seq(RecordLine)
    BY <1>1 DEF Typed
  <2>2. Append(records, Record("rebootstrap")) \in Seq(RecordLine)
    BY <1>5, <2>1
  <2> QED BY <1>3, <2>1, <2>2
<1>14. Typed'
  BY <1>1, <1>2, <1>3, <1>13 DEF Typed, WorkOK, child
<1>15. CASE l.says = "cancelled"
  <2>1. newSession' = "over" /\ records' = records /\ Lines' \in Seq(Line) /\ Without(Lines, Lines', k)
    BY <1>3, <1>4, <1>15
  <2>2. Matched'
    BY <1>3, <2>1, AnswerMatched
  <2>3. ~SomeIn(Lines', News)
    BY <1>1, <1>7, <1>10, <2>1, WithoutKeeps
  <2>4. OneSession'
    <3>1. OnlyOne(Lines', News) /\ ~SomeIn(Lines', AnsweredNew) /\ ~SomeIn(Lines', Rebootstrap)
      BY <2>3 DEF SomeIn, OnlyOne, News
    <3> QED BY <1>2, <1>3, <1>9, <2>3, <3>1 DEF Inv, OneSession
  <2>5. EndsComing'
    <3>1. /\ Followed(Lines, Starts, Ends) => Followed(Lines', Starts, Ends)
          /\ Barred(Lines, Starts, Ends, Reboots) => Barred(Lines', Starts, Ends, Reboots)
          /\ SomeIn(Lines, Ends) => SomeIn(Lines', Ends)
          /\ Before(Lines, Ends, Reboots) => Before(Lines', Ends, Reboots)
      BY <1>1, <1>2, <2>1, AnswerKeeps
    <3> QED BY <1>1, <1>2, <1>3, <1>11, <3>1 DEF Inv, EndsComing, EndsAt
  <2>6. OnePartial'
    <3>1. PartialAt(Lines', turn)
      BY <1>1, <1>2, <2>1, AnswerKeeps DEF Inv, OnePartial
    <3> QED BY <1>1, <1>3, <1>11, <3>1 DEF OnePartial, PartialAt
  <2> QED BY <1>12, <1>14, <2>2, <2>4, <2>5, <2>6 DEF Inv
<1>16. CASE l.says # "cancelled"
  <2> DEFINE r == Record("rebootstrap")
  <2>1. newSession' = "rebooting" /\ Lines' \in Seq(Line) /\ Instead(Lines, Lines', k) /\ Lines'[k] = r
    BY <1>3, <1>6, <1>16
  <2>2. /\ r \in News /\ r \in Reboots /\ r \notin AnsweredNew /\ r \notin Answering /\ r \notin Starts
        /\ r \notin PartialStarts
    BY <1>5, RecordClasses
  <2> HIDE DEF r
  <2>3. \A i \in 1..Len(Lines') : i = k \/ (i \in 1..Len(Lines) /\ Lines'[i] = Lines[i])
    BY <2>1 DEF Instead
  <2>4. Matched'
    <3>1. (SomeIn(Lines', Answering) => SomeIn(Lines, Answering))
            /\ (OnlyOne(Lines, Answering) => OnlyOne(Lines', Answering))
      BY <1>1, <2>1, <2>2, InsteadKeeps
    <3>2. \A i \in 1..Len(Lines') : Lines'[i] \in Answering => Lines'[i].to = work.waits
      BY <2>1, <2>2, <2>3 DEF Inv, Matched
    <3> QED BY <1>3, <3>1, <3>2 DEF Inv, Matched
  <2>5. OneSession'
    <3>1. OnlyOne(Lines', News)
      BY <1>1, <1>7, <1>10, <2>1, InsteadKeeps
    <3>2. ~SomeIn(Lines', AnsweredNew)
      BY <1>1, <1>7, <1>10, <2>1, <2>2, InsteadKeeps
    <3> QED BY <1>2, <1>3, <1>9, <2>1, <3>1, <3>2 DEF Inv, OneSession
  <2>6. EndsComing'
    <3>1. /\ Followed(Lines, Starts, Ends) => Followed(Lines', Starts, Ends)
          /\ Barred(Lines, Starts, Ends, Reboots) => Barred(Lines', Starts, Ends, Reboots)
          /\ SomeIn(Lines, Ends) => SomeIn(Lines', Ends)
          /\ Before(Lines, Ends, Reboots) => Before(Lines', Ends, Reboots)
      <4>1. Followed(Lines, Starts, Ends) => Followed(Lines', Starts, Ends)
        BY <1>1, <1>7, <1>16, <2>1, <2>2, InsteadKeeps
      <4>2. Barred(Lines, Starts, Ends, Reboots) => Barred(Lines', Starts, Ends, Reboots)
        BY <1>1, <1>7, <1>16, <2>1, <2>2, InsteadKeeps
      <4>3. SomeIn(Lines, Ends) => SomeIn(Lines', Ends)
        BY <1>1, <1>7, <1>16, <2>1, <2>2, InsteadKeeps
      <4>4. Before(Lines, Ends, Reboots) => Before(Lines', Ends, Reboots)
        BY <1>1, <1>7, <1>16, <2>1, <2>2, InsteadKeeps
      <4> QED BY <4>1, <4>2, <4>3, <4>4
    <3> QED BY <1>1, <1>2, <1>3, <1>11, <3>1 DEF Inv, EndsComing, EndsAt
  <2>7. OnePartial'
    <3>1. /\ Followed(Lines, PartialStarts, PartialEnds) => Followed(Lines', PartialStarts, PartialEnds)
          /\ Barred(Lines, PartialStarts, PartialEnds, PartialStarts) => Barred(Lines', PartialStarts, PartialEnds, PartialStarts)
          /\ SomeIn(Lines, PartialEnds) => SomeIn(Lines', PartialEnds)
          /\ Before(Lines, PartialEnds, PartialStarts) => Before(Lines', PartialEnds, PartialStarts)
      BY <1>1, <1>7, <2>1, <2>2, InsteadPartial
    <3> QED BY <1>1, <1>3, <1>11, <3>1 DEF Inv, OnePartial, PartialAt
  <2> QED BY <1>12, <1>14, <2>4, <2>5, <2>6, <2>7 DEF Inv
<1> QED BY <1>15, <1>16

\* The next question, where none was left.
LEMMA NextAsked ==
  ASSUME Typed, ~SomeIn(toChild, Asking), ~SomeIn(Lines', Answering), NEW c \in Questions,
         toChild' = Append(toChild, Ask(c)), work'.waits = c
  PROVE  /\ Matched' /\ toChild' \in Seq(CommandLine)
         /\ SomeIn(toChild', AskNew) => SomeIn(toChild, AskNew)
         /\ OnlyOne(toChild, AskNew) => OnlyOne(toChild', AskNew)
         /\ \A i \in 1..Len(toChild') : toChild'[i].command = "prompt" => i \in 1..Len(toChild) /\ toChild'[i] = toChild[i]
<1>1. Ask(c) \in CommandLine /\ Ask(c).command = c /\ c \notin {"prompt", "new", "abort"}
  BY DEF Ask, Command, CommandLine, Questions
<1>2. Ask(c) \in Asking /\ Ask(c) \notin AskNew
  BY <1>1 DEF Asking, AskNew
<1>3. toChild \in Seq(CommandLine)
  BY DEF Typed
<1> DEFINE x == Ask(c)
<1> HIDE DEF x
<1>4. /\ toChild' \in Seq(CommandLine)
      /\ \A i \in 1..Len(toChild') : toChild'[i] = x \/ (i \in 1..Len(toChild) /\ toChild'[i] = toChild[i])
  BY <1>1, <1>3, OneMore DEF x
<1>5. OnlyOne(toChild, Asking)
  BY DEF SomeIn, OnlyOne
<1>6. OnlyOne(toChild', Asking)
  BY <1>1, <1>3, <1>5, OneMore DEF x
<1>7. /\ SomeIn(toChild', AskNew) => SomeIn(toChild, AskNew)
      /\ OnlyOne(toChild, AskNew) => OnlyOne(toChild', AskNew)
  BY <1>1, <1>2, <1>3, OneMore DEF x
<1>8. OnlyOne(Lines', Answering) /\ \A i \in 1..Len(Lines') : Lines'[i] \notin Answering
  BY DEF SomeIn, OnlyOne
<1>9. \A i \in 1..Len(toChild') : toChild'[i] \in Asking => toChild'[i].command = work'.waits
  BY <1>1, <1>4 DEF SomeIn, x
<1>10. Matched'
  BY <1>6, <1>8, <1>9 DEF Matched
<1> QED BY <1>1, <1>4, <1>7, <1>10 DEF x

\* A question that is answered leaves none on its way.
LEMMA QuestionAnswered ==
  ASSUME Inv, AnswerRead, records' = records, Head(fromChild).to \in Questions
  PROVE  /\ Head(fromChild).to = work.waits
         /\ ~SomeIn(Lines', Answering) /\ ~SomeIn(toChild, Asking)
<1>1. Lines[Len(records) + 1] = Head(fromChild) /\ Lines \in Seq(Line) /\ Len(records) + 1 \in 1..Len(Lines)
  BY AnswerFacts
<1>2. Head(fromChild) \in Answering
  BY DEF Answering, AnswerRead
<1>3. SomeIn(Lines, Answering)
  BY <1>1, <1>2 DEF SomeIn
<1>4. ~SomeIn(toChild, Asking)
  BY <1>3 DEF Inv, Matched
<1>5. ~SomeIn(Lines', Answering)
  <2>1. OnlyOne(Lines, Answering)
    BY DEF Inv, Matched
  <2>2. Lines' \in Seq(Line) /\ Without(Lines, Lines', Len(records) + 1)
    BY AnswerWithout
  <2> DEFINE k == Len(records) + 1
  <2> HIDE DEF k
  <2>3. Lines[k] \in Answering /\ Without(Lines, Lines', k)
    BY <1>1, <1>2, <2>2 DEF k
  <2> QED BY <1>1, <2>1, <2>2, <2>3, WithoutKeeps
<1>6. Head(fromChild).to = work.waits
  BY <1>1, <1>2 DEF Inv, Matched
<1> QED BY <1>4, <1>5, <1>6

\* The state of a new session: what ends its turn, if one runs, is to come.
LEMMA StateAnsweredKeeps ==
  ASSUME Inv, AnswerRead, StateAnswered(Head(fromChild)) PROVE Inv'
<1> DEFINE l == Head(fromChild)
           k == Len(records) + 1
<1>1. /\ Typed /\ records \in Seq(Line) /\ fromChild \in Seq(Line) /\ fromChild' \in Seq(Line)
      /\ Ends' = Ends /\ PartialEnds' = PartialEnds /\ Lines[k] = l /\ Lines \in Seq(Line) /\ k \in 1..Len(Lines)
  BY AnswerFacts
<1>2. l \in AnswerLine /\ UNCHANGED <<completionEvent, child, left>>
  BY DEF AnswerRead
<1>3. /\ l.to = "state" /\ streaming' = (l.says = "streaming")
      /\ work' = [task |-> work.task, waits |-> "messages"] /\ toChild' = Append(toChild, Ask("messages"))
      /\ UNCHANGED <<messages, records, failed, told, misled, pc, newSession>>
  BY DEF StateAnswered, Asks, Sends
<1>4. Lines' \in Seq(Line) /\ Without(Lines, Lines', k)
        /\ \A i \in 1..Len(Lines') : \E j \in 1..Len(Lines) : Lines'[i] = Lines[j]
  BY <1>3, AnswerWithout
<1>5. l.to = work.waits /\ ~SomeIn(Lines', Answering) /\ ~SomeIn(toChild, Asking)
  BY <1>3, QuestionAnswered DEF Questions
<1> HIDE DEF l, k
<1>6. work.task = "session" /\ work'.task = "session" /\ work'.waits = "messages"
  BY <1>1, <1>3, <1>5 DEF Typed, WorkOK
<1>7. /\ Matched' /\ toChild' \in Seq(CommandLine)
      /\ SomeIn(toChild', AskNew) => SomeIn(toChild, AskNew)
      /\ OnlyOne(toChild, AskNew) => OnlyOne(toChild', AskNew)
      /\ \A i \in 1..Len(toChild') : toChild'[i].command = "prompt" => i \in 1..Len(toChild) /\ toChild'[i] = toChild[i]
  BY <1>1, <1>3, <1>5, <1>6, NextAsked DEF Questions
<1>8. Typed'
  <2>1. WorkOK'
    BY <1>3, <1>6 DEF WorkOK, Tasks, Questions
  <2> QED BY <1>1, <1>2, <1>3, <1>7, <2>1 DEF Typed, child
<1>9. OneSession'
  BY <1>3, <1>6, <1>7, AnswerSession DEF Inv, OneSession
<1>10. EndsComing'
  <2>1. /\ Followed(Lines, Starts, Ends) => Followed(Lines', Starts, Ends)
        /\ Barred(Lines, Starts, Ends, Reboots) => Barred(Lines', Starts, Ends, Reboots)
        /\ l \in Starts /\ Followed(Lines, Starts, Ends) => SomeIn(Lines', Ends)
    BY <1>1, <1>2, <1>4, AnswerKeeps
  <2>2. streaming' => l \in Starts
    BY <1>2, <1>3, AnswerClasses
  <2>3. misled \/ ~told
    BY <1>6 DEF Inv, EndsComing, EndsAt
  <2> QED BY <1>1, <1>2, <1>3, <2>1, <2>2, <2>3 DEF Inv, EndsComing, EndsAt, child
<1>11. OnePartial'
  <2>1. PartialAt(Lines', turn)
    BY <1>1, <1>2, <1>4, AnswerKeeps DEF Inv, OnePartial
  <2>2. HasPartial' = HasPartial /\ Replacing' /\ turn' = turn
    BY <1>2, <1>3, <1>6 DEF HasPartial, Replacing, child
  <2> QED BY <1>1, <1>3, <2>1, <2>2 DEF OnePartial, PartialAt
<1>12. OfTheNew'
  <2>1. UNCHANGED <<history, prompts, abandoned, messages, pc>>
    BY <1>2, <1>3 DEF child
  <2>2. \A i \in 1..Len(Lines') : Lines'[i] \in MessagesAnswers => Clean(Lines'[i].data)
    BY <1>4, <1>6 DEF Inv, OfTheNew
  <2>3. /\ Clean(history)' /\ \A i \in 1..Len(prompts') : prompts'[i] \notin abandoned'
        /\ \A p \in Prompt : pc'[p] = "new" => Unseen(p)'
    BY <2>1 DEF Inv, OfTheNew, Clean, Unseen
  <2>4. \A i \in 1..Len(toChild') : toChild'[i].command = "prompt" =>
          Unseen(toChild[i].of)' /\ pc'[toChild'[i].of] # "new"
    <3>1. ASSUME NEW i \in 1..Len(toChild'), toChild'[i].command = "prompt"
          PROVE  Unseen(toChild[i].of) /\ pc[toChild[i].of] # "new" /\ toChild'[i] = toChild[i]
      BY <1>7, <3>1 DEF Inv, OfTheNew
    <3> QED BY <2>1, <3>1 DEF Unseen
  <2>5. \A i, j \in 1..Len(toChild') :
          toChild'[i].command = "prompt" /\ toChild'[j].command = "prompt" /\ toChild'[i].of = toChild'[j].of
            => i = j
    BY <1>7 DEF Inv, OfTheNew
  <2>6. \A i \in 1..Len(Lines') : Lines'[i] \in MessagesAnswers' => Clean(Lines[i].data)'
    BY <2>1, <2>2 DEF MessagesAnswers, Clean
  <2> QED BY <1>6, <2>3, <2>4, <2>5, <2>6 DEF OfTheNew
<1> QED BY <1>7, <1>8, <1>9, <1>10, <1>11, <1>12 DEF Inv

\* The messages: the child's own, none of them partial.
LEMMA MessagesAnsweredKeeps ==
  ASSUME Inv, AnswerRead, MessagesAnswered(Head(fromChild)) PROVE Inv'
<1> DEFINE l == Head(fromChild)
           k == Len(records) + 1
<1>1. /\ Typed /\ records \in Seq(Line) /\ fromChild \in Seq(Line) /\ fromChild' \in Seq(Line)
      /\ Ends' = Ends /\ PartialEnds' = PartialEnds /\ Lines[k] = l /\ Lines \in Seq(Line) /\ k \in 1..Len(Lines)
  BY AnswerFacts
<1>2. l \in AnswerLine /\ UNCHANGED <<completionEvent, child, left>>
  BY DEF AnswerRead
<1>3. /\ l.to = "messages" /\ messages' = l.data
      /\ work' = [task |-> work.task, waits |-> "rest"] /\ toChild' = Append(toChild, Ask("rest"))
      /\ UNCHANGED <<streaming, records, failed, told, misled, pc, newSession>>
  BY DEF MessagesAnswered, Asks, Sends
<1>4. Lines' \in Seq(Line) /\ Without(Lines, Lines', k)
        /\ \A i \in 1..Len(Lines') : \E j \in 1..Len(Lines) : Lines'[i] = Lines[j]
  BY <1>3, AnswerWithout
<1>5. l.to = work.waits /\ ~SomeIn(Lines', Answering) /\ ~SomeIn(toChild, Asking)
  BY <1>3, QuestionAnswered DEF Questions
<1> HIDE DEF l, k
<1>6. work'.task = work.task /\ work'.waits = "rest" /\ WorkOK'
  BY <1>1, <1>3, <1>5 DEF Typed, WorkOK, Tasks, Questions
<1>7. /\ Matched' /\ toChild' \in Seq(CommandLine)
      /\ SomeIn(toChild', AskNew) => SomeIn(toChild, AskNew)
      /\ OnlyOne(toChild, AskNew) => OnlyOne(toChild', AskNew)
      /\ \A i \in 1..Len(toChild') : toChild'[i].command = "prompt" => i \in 1..Len(toChild) /\ toChild'[i] = toChild[i]
  BY <1>1, <1>3, <1>5, <1>6, NextAsked DEF Questions
<1>8. messages' \in Seq(Spoken) /\ messages' \in Seq(Message) /\ ~HasPartial'
      /\ \A i \in 1..Len(messages') : messages'[i] # Partial
  <2>1. messages' \in Seq(Spoken)
    BY <1>2, <1>3 DEF AnswerLine
  <2>2. \A i \in 1..Len(messages') : messages'[i] \in Spoken
    BY <2>1
  <2>3. Partial \notin Spoken
    BY DEF Partial, Said, Spoken
  <2>4. Spoken \subseteq Message
    BY DEF Spoken
  <2> QED BY <2>1, <2>2, <2>3, <2>4 DEF HasPartial
<1>9. Typed'
  BY <1>1, <1>2, <1>3, <1>6, <1>7, <1>8 DEF Typed, child
<1>10. OneSession'
  BY <1>3, <1>6, <1>7, AnswerSession DEF Inv, OneSession
<1>11. EndsComing'
  <2>1. /\ Followed(Lines, Starts, Ends) => Followed(Lines', Starts, Ends)
        /\ Barred(Lines, Starts, Ends, Reboots) => Barred(Lines', Starts, Ends, Reboots)
        /\ SomeIn(Lines, Ends) => SomeIn(Lines', Ends)
        /\ Before(Lines, Ends, Reboots) => Before(Lines', Ends, Reboots)
    BY <1>1, <1>2, <1>4, AnswerKeeps
  <2> QED BY <1>1, <1>2, <1>3, <1>6, <2>1 DEF Inv, EndsComing, EndsAt, child
<1>12. OnePartial'
  <2>1. PartialAt(Lines', turn)
    BY <1>1, <1>2, <1>4, AnswerKeeps DEF Inv, OnePartial
  <2>2. turn' = turn
    BY <1>2 DEF child
  <2> QED BY <1>1, <1>8, <2>1, <2>2 DEF OnePartial, PartialAt
<1>13. OfTheNew'
  <2>1. UNCHANGED <<history, prompts, abandoned, pc>>
    BY <1>2, <1>3 DEF child
  <2>2. work.task = "session" => \A i \in 1..Len(Lines') : Lines'[i] \in MessagesAnswers => Clean(Lines'[i].data)
    BY <1>4 DEF Inv, OfTheNew
  <2>3. work.task = "session" => Clean(messages')
    <3>1. l \in MessagesAnswers
      BY <1>2, <1>3 DEF MessagesAnswers
    <3>2. work.task = "session" => Clean(l.data)
      BY <1>1, <3>1 DEF Inv, OfTheNew
    <3> QED BY <1>3, <3>2
  <2> QED BY <1>6, <1>7, <2>1, <2>2, <2>3 DEF Inv, OfTheNew, Clean, Unseen
<1> QED BY <1>7, <1>9, <1>10, <1>11, <1>12, <1>13 DEF Inv

\* The rest: the turn is over for the browsers, or the new session announced.
LEMMA RestAnsweredKeeps ==
  ASSUME Inv, AnswerRead, RestAnswered(Head(fromChild)) PROVE Inv'
<1> DEFINE l == Head(fromChild)
           k == Len(records) + 1
<1>1. /\ Typed /\ records \in Seq(Line) /\ fromChild \in Seq(Line) /\ fromChild' \in Seq(Line)
      /\ Ends' = Ends /\ PartialEnds' = PartialEnds /\ Lines[k] = l /\ Lines \in Seq(Line) /\ k \in 1..Len(Lines)
  BY AnswerFacts
<1>2. l \in AnswerLine /\ UNCHANGED <<completionEvent, child, left>>
  BY DEF AnswerRead
<1>3. /\ l.to = "rest" /\ work' = Done /\ failed' = (failed \/ l.says = "failed")
      /\ told' = CASE work.task = "turn" -> FALSE
                   [] work.task = "session" /\ l.says = "ok" -> streaming
                   [] OTHER -> told
      /\ newSession' = (IF work.task = "session" THEN "over" ELSE newSession)
      /\ UNCHANGED <<streaming, messages, records, misled, pc, toChild>>
  BY DEF RestAnswered
<1>4. /\ Lines' \in Seq(Line) /\ Without(Lines, Lines', k)
      /\ \A E : SomeIn(Lines', E) => SomeIn(Lines, E)
      /\ \A E : OnlyOne(Lines, E) => OnlyOne(Lines', E)
  BY <1>3, AnswerWithout
<1>5. l.to = work.waits /\ ~SomeIn(Lines', Answering) /\ ~SomeIn(toChild, Asking)
  BY <1>3, QuestionAnswered DEF Questions
<1> HIDE DEF l, k
<1>6. work'.task = "none" /\ work'.waits = "none" /\ WorkOK' /\ work.waits = "rest" /\ work.task # "none"
  BY <1>1, <1>3, <1>5 DEF Typed, WorkOK, Tasks, Done
<1>7. /\ work.task = "turn" => told' = FALSE
      /\ work.task # "turn" => told' = told \/ (work.task = "session" /\ told' = streaming)
  BY <1>3
<1>8. Typed'
  <2>1. told' \in BOOLEAN /\ failed' \in BOOLEAN /\ newSession' \in {"no", "sent", "rebooting", "over"}
    BY <1>1, <1>3, <1>7 DEF Typed
  <2> QED BY <1>1, <1>2, <1>3, <1>6, <2>1 DEF Typed, child
<1>9. Matched'
  <2>1. OnlyOne(toChild, Asking) /\ OnlyOne(Lines', Answering)
    BY <1>5 DEF OnlyOne, SomeIn
  <2>2. (\A i \in 1..Len(toChild) : toChild[i] \notin Asking)
          /\ (\A i \in 1..Len(Lines') : Lines'[i] \notin Answering)
    BY <1>5 DEF SomeIn
  <2> QED BY <1>3, <1>5, <2>1, <2>2 DEF Matched
<1>10. OneSession'
  <2>1. CASE work.task = "session"
    <3>1. newSession = "rebooting" /\ ~SomeIn(Lines, News)
      BY <2>1 DEF Inv, OneSession
    <3>2. ~SomeIn(toChild, AskNew) /\ "new" \notin left
      BY <3>1 DEF Inv, OneSession
    <3>3. ~SomeIn(Lines', News)
      BY <1>4, <3>1
    <3>4. OnlyOne(Lines', News) /\ ~SomeIn(Lines', AnsweredNew) /\ ~SomeIn(Lines', Rebootstrap)
      BY <3>3 DEF SomeIn, OnlyOne, News
    <3> QED BY <1>2, <1>3, <1>6, <3>2, <3>3, <3>4 DEF Inv, OneSession
  <2>2. CASE work.task # "session"
    <3>1. newSession' = newSession
      BY <1>3, <2>2
    <3> QED BY <1>3, <1>6, <3>1, AnswerSession DEF Inv, OneSession
  <2> QED BY <2>1, <2>2
<1>11. EndsComing'
  <2>1. /\ Followed(Lines, Starts, Ends) => Followed(Lines', Starts, Ends)
        /\ Barred(Lines, Starts, Ends, Reboots) => Barred(Lines', Starts, Ends, Reboots)
        /\ SomeIn(Lines, Ends) => SomeIn(Lines', Ends)
        /\ Before(Lines, Ends, Reboots) => Before(Lines', Ends, Reboots)
    BY <1>1, <1>2, <1>4, AnswerKeeps
  <2>2. work.task = "session" => (misled \/ ~told) /\ Before(Lines', Ends, Reboots)
    <3>1. work.task = "session" => ~SomeIn(Lines', News)
      BY <1>4 DEF Inv, OneSession
    <3>2. work.task = "session" => ~SomeIn(Lines', Reboots)
      BY <3>1 DEF SomeIn, News, Reboots
    <3> QED BY <3>2 DEF Inv, EndsComing, EndsAt, Before, SomeIn
  <2>3. turn' = turn /\ streaming' = streaming /\ misled' = misled
    BY <1>2, <1>3 DEF child
  <2>4. CASE work.task = "turn"
    BY <1>1, <1>6, <1>7, <2>1, <2>3, <2>4 DEF Inv, EndsComing, EndsAt
  <2>5. CASE work.task # "turn" /\ told' = told
    BY <1>1, <1>6, <2>1, <2>3, <2>5 DEF Inv, EndsComing, EndsAt
  <2>6. CASE work.task = "session" /\ told' = streaming
    BY <1>1, <1>6, <2>1, <2>2, <2>3, <2>6 DEF Inv, EndsComing, EndsAt
  <2> QED BY <1>7, <2>4, <2>5, <2>6
<1>12. OnePartial'
  <2>1. PartialAt(Lines', turn)
    BY <1>1, <1>2, <1>4, AnswerKeeps DEF Inv, OnePartial
  <2>2. HasPartial' = HasPartial /\ ~Replacing /\ turn' = turn
    BY <1>2, <1>3, <1>6 DEF HasPartial, Replacing, child
  <2> QED BY <1>1, <1>3, <2>1, <2>2 DEF OnePartial, PartialAt
<1>13. OfTheNew'
  <2>1. UNCHANGED <<history, prompts, abandoned, messages, pc, toChild>>
    BY <1>2, <1>3 DEF child
  <2> QED BY <1>6, <2>1 DEF Inv, OfTheNew, Clean, Unseen
<1> QED BY <1>8, <1>9, <1>10, <1>11, <1>12, <1>13 DEF Inv

\* A prompt is answered before the next is sent: it is on its way, or its answer is, and an answer
\* that asks for the prompt again is about one the child has not seen.
PromptCommands == {c \in CommandLine : c.command = "prompt"}
PromptAnswers == {l \in AnswerLine : l.to = "prompt"}
OnePrompt ==
  /\ OnlyOne(toChild, PromptCommands) /\ OnlyOne(Lines, PromptAnswers)
  /\ ~(SomeIn(toChild, PromptCommands) /\ SomeIn(Lines, PromptAnswers))
  /\ \A i \in 1..Len(toChild) : toChild[i] \in PromptCommands => pc[toChild[i].of] = "sent"
  /\ \A i \in 1..Len(Lines) : Lines[i] \in PromptAnswers =>
       pc[Lines[i].of] = "sent" /\ (Lines[i].says = "suspended" => Unseen(Lines[i].of))

\* The answer was the only one, and no prompt was on its way.
LEMMA PromptAnswered ==
  ASSUME Inv, OnePrompt, AnswerRead, records' = records, Head(fromChild).to = "prompt"
  PROVE  /\ ~SomeIn(Lines', PromptAnswers) /\ ~SomeIn(toChild, PromptCommands)
         /\ Head(fromChild).of \in Prompt /\ pc[Head(fromChild).of] = "sent"
         /\ Head(fromChild).says = "suspended" => Unseen(Head(fromChild).of)
<1> DEFINE l == Head(fromChild)
           k == Len(records) + 1
<1>1. k \in 1..Len(Lines) /\ Lines[k] = l /\ Lines \in Seq(Line)
  BY AnswerFacts
<1>2. Lines' \in Seq(Line) /\ Without(Lines, Lines', k)
  BY AnswerWithout
<1>3. l \in PromptAnswers /\ l.of \in Prompt
  BY DEF AnswerRead, PromptAnswers, AnswerLine
<1> HIDE DEF l, k
<1>4. ~SomeIn(Lines', PromptAnswers)
  BY <1>1, <1>2, <1>3, WithoutKeeps DEF OnePrompt
<1>5. ~SomeIn(toChild, PromptCommands)
  BY <1>1, <1>3 DEF OnePrompt, SomeIn
<1>6. pc[l.of] = "sent" /\ (l.says = "suspended" => Unseen(l.of))
  BY <1>1, <1>3 DEF OnePrompt
<1> QED BY <1>3, <1>4, <1>5, <1>6 DEF l

\* What is known of the turn and of the session, where an answer is read and only the commands change.
LEMMA AnswerQuiet ==
  ASSUME Inv, AnswerRead, UNCHANGED <<streaming, messages, records, work, told, misled, newSession>>,
         SomeIn(toChild', AskNew) => SomeIn(toChild, AskNew), OnlyOne(toChild', AskNew)
  PROVE  OneSession' /\ EndsComing' /\ OnePartial'
<1> DEFINE k == Len(records) + 1
<1>1. /\ records \in Seq(Line) /\ fromChild \in Seq(Line)
      /\ Ends' = Ends /\ PartialEnds' = PartialEnds /\ Lines[k] = Head(fromChild) /\ Lines \in Seq(Line)
  BY AnswerFacts
<1>2. Lines' \in Seq(Line) /\ Without(Lines, Lines', k)
  BY AnswerWithout
<1>3. Head(fromChild) \in AnswerLine /\ turn' = turn
  BY DEF AnswerRead, child
<1> HIDE DEF k
<1>4. OneSession'
  BY AnswerSession
<1>5. /\ Followed(Lines, Starts, Ends) => Followed(Lines', Starts, Ends)
      /\ Barred(Lines, Starts, Ends, Reboots) => Barred(Lines', Starts, Ends, Reboots)
      /\ SomeIn(Lines, Ends) => SomeIn(Lines', Ends)
      /\ Before(Lines, Ends, Reboots) => Before(Lines', Ends, Reboots)
      /\ PartialAt(Lines, turn) => PartialAt(Lines', turn)
  BY <1>1, <1>2, <1>3, AnswerKeeps
<1>6. EndsComing'
  BY <1>1, <1>3, <1>5 DEF Inv, EndsComing, EndsAt
<1>7. HasPartial' = HasPartial /\ Replacing' = Replacing
  BY DEF HasPartial, Replacing
<1>8. OnePartial'
  BY <1>1, <1>3, <1>5, <1>7 DEF Inv, OnePartial, PartialAt
<1> QED BY <1>4, <1>6, <1>8

\* A prompt that was refused because the queue is suspended goes again: the child has not seen it.
LEMMA ResentKeeps ==
  ASSUME Inv, OnePrompt, AnswerRead, Resent(Head(fromChild)) PROVE Inv'
<1> DEFINE l == Head(fromChild)
           c == Command("prompt", l.of, TRUE)
<1>1. /\ Typed /\ toChild \in Seq(CommandLine) /\ fromChild' \in Seq(Line)
      /\ pc \in [Prompt -> {"new", "sent", "accepted", "refused"}]
  BY AnswerFacts DEF Typed
<1>2. /\ l.to = "prompt" /\ l.says = "suspended"
      /\ UNCHANGED <<streaming, messages, records, work, failed, told, misled, newSession>>
      /\ UNCHANGED <<completionEvent, child, left>> /\ UNCHANGED <<history, prompts, abandoned>>
  BY DEF Resent, AnswerRead, child
<1>3. ~SomeIn(toChild, PromptCommands) /\ l.of \in Prompt /\ pc[l.of] = "sent" /\ Unseen(l.of)
  BY <1>2, PromptAnswered
<1>4. \/ toChild' = toChild /\ pc' = [pc EXCEPT ![l.of] = "refused"]
      \/ toChild' = Append(toChild, c) /\ pc' = pc
  BY DEF Resent, Sends
<1> HIDE DEF l
<1>5. c \in CommandLine /\ c.command = "prompt" /\ c.of = l.of /\ c \in PromptCommands
        /\ c \notin Asking /\ c \notin AskNew
  BY <1>3 DEF Command, CommandLine, PromptCommands, Asking, AskNew, Questions
<1> HIDE DEF c
<1>6. /\ toChild' \in Seq(CommandLine)
      /\ \A E : c \notin E => (SomeIn(toChild', E) => SomeIn(toChild, E)) /\ (OnlyOne(toChild, E) => OnlyOne(toChild', E))
      /\ \A i \in 1..Len(toChild') : toChild'[i] = c \/ (i \in 1..Len(toChild) /\ toChild'[i] = toChild[i])
      /\ OnlyOne(toChild', PromptCommands)
  <2>1. CASE toChild' = toChild
    BY <1>1, <2>1 DEF OnePrompt
  <2>2. CASE toChild' = Append(toChild, c)
    <3>1. /\ Append(toChild, c) \in Seq(CommandLine)
          /\ \A E : SomeIn(Append(toChild, c), E) <=> SomeIn(toChild, E) \/ c \in E
          /\ \A E : OnlyOne(toChild, E) /\ (c \notin E \/ ~SomeIn(toChild, E)) => OnlyOne(Append(toChild, c), E)
          /\ \A i \in 1..Len(Append(toChild, c)) :
               Append(toChild, c)[i] = c \/ (i \in 1..Len(toChild) /\ Append(toChild, c)[i] = toChild[i])
      BY <1>1, <1>5, OneMore
    <3> QED BY <1>3, <2>2, <3>1 DEF OnePrompt
  <2> QED BY <1>4, <2>1, <2>2
<1>7. pc' \in [Prompt -> {"new", "sent", "accepted", "refused"}] /\ (\A p \in Prompt : pc'[p] = "new" => pc[p] = "new")
        /\ (toChild' # toChild => pc'[l.of] # "new")
  BY <1>1, <1>3, <1>4
<1>8. Typed'
  BY <1>1, <1>2, <1>6, <1>7 DEF Typed, WorkOK, child
<1>9. Matched'
  <2>1. /\ OnlyOne(Lines', Answering) /\ (SomeIn(Lines', Answering) => SomeIn(Lines, Answering))
        /\ \A i \in 1..Len(Lines') : \E j \in 1..Len(Lines) : Lines'[i] = Lines[j]
    BY <1>2, AnswerWithout DEF Inv, Matched
  <2>2. (SomeIn(toChild', Asking) => SomeIn(toChild, Asking)) /\ OnlyOne(toChild', Asking)
    BY <1>5, <1>6 DEF Inv, Matched
  <2>3. \A i \in 1..Len(toChild') : toChild'[i] \in Asking => toChild'[i].command = work.waits
    BY <1>5, <1>6 DEF Inv, Matched
  <2>4. \A i \in 1..Len(Lines') : Lines'[i] \in Answering => Lines'[i].to = work.waits
    BY <2>1 DEF Inv, Matched
  <2> QED BY <1>2, <2>1, <2>2, <2>3, <2>4 DEF Inv, Matched
<1>10. OneSession' /\ EndsComing' /\ OnePartial'
  <2>1. (SomeIn(toChild', AskNew) => SomeIn(toChild, AskNew)) /\ OnlyOne(toChild', AskNew)
    BY <1>5, <1>6 DEF Inv, OneSession
  <2> QED BY <1>2, <2>1, AnswerQuiet
<1>11. OfTheNew'
  <2>1. ASSUME NEW i \in 1..Len(toChild'), toChild'[i].command = "prompt"
        PROVE  toChild'[i] = c /\ toChild' # toChild /\ toChild'[i] \in PromptCommands
    <3>1. toChild'[i] \in PromptCommands
      BY <1>6, <2>1 DEF PromptCommands
    <3>2. ~(i \in 1..Len(toChild) /\ toChild'[i] = toChild[i])
      BY <1>3, <3>1 DEF SomeIn
    <3> QED BY <1>6, <3>1, <3>2
  <2>2. \A i, j \in 1..Len(toChild') : toChild'[i].command = "prompt" /\ toChild'[j].command = "prompt" => i = j
    BY <1>6, <2>1 DEF OnlyOne
  <2>3. \A i \in 1..Len(Lines') : \E j \in 1..Len(Lines) : Lines'[i] = Lines[j]
    BY <1>2, AnswerWithout
  <2>4. work.task = "session" => \A i \in 1..Len(Lines') : Lines'[i] \in MessagesAnswers => Clean(Lines'[i].data)
    BY <2>3 DEF Inv, OfTheNew
  <2>5. \A i \in 1..Len(toChild') : toChild'[i].command = "prompt" => Unseen(toChild'[i].of) /\ pc'[toChild'[i].of] # "new"
    BY <1>3, <1>5, <1>7, <2>1
  <2> QED BY <1>2, <1>7, <2>2, <2>4, <2>5 DEF Inv, OfTheNew, Clean, Unseen
<1> QED BY <1>8, <1>9, <1>10, <1>11 DEF Inv

\* Whatever the server reads.
LEMMA LineReadKeeps == ASSUME Inv, OnePrompt, ReadLine PROVE Inv'
<1>1. fromChild # <<>> /\ fromChild' = Tail(fromChild) /\ UNCHANGED <<completionEvent, child, left>>
  BY DEF ReadLine
<1>2. Head(fromChild) \in Line
  BY <1>1, HeadGoes DEF Inv, Typed
<1>3. CASE Head(fromChild).kind = "answer"
  <2>1. Head(fromChild) \in AnswerLine
    BY <1>2, <1>3, RecordClasses DEF Line, RecordKinds
  <2>2. AnswerRead
    BY <1>1, <2>1 DEF AnswerRead
  <2> QED BY <1>3, <2>2, AcceptedKeeps, ResentKeeps, SessionAnsweredKeeps, StateAnsweredKeeps, MessagesAnsweredKeeps,
             RestAnsweredKeeps
            DEF ReadLine
<1>4. CASE Head(fromChild).kind # "answer"
  BY <1>1, <1>4, RecordRead DEF ReadLine
<1> QED BY <1>3, <1>4

-----------------------------------------------------------------------------
(* The queue of records                                                    *)

\* What a record that is handled leaves behind.
RecordTaken ==
  /\ work = Done /\ records # <<>> /\ records' = Tail(records)
  /\ UNCHANGED <<completionEvent, failed, pc, newSession, fromChild, child, left>>
\* The record was the first of the lines, and no question is on its way while one is handled.
LEMMA TakenFacts ==
  ASSUME Inv, RecordTaken
  PROVE  /\ Typed /\ Head(records) \in RecordLine /\ records' \in Seq(RecordLine)
         /\ Lines \in Seq(Line) /\ Lines' \in Seq(Line) /\ Without(Lines, Lines', 1)
         /\ Lines[1] = Head(records) /\ 1 \in 1..Len(Lines)
         /\ Ends' = Ends /\ PartialEnds' = PartialEnds
         /\ work.task = "none" /\ work.waits = "none"
         /\ \A i \in 1..Len(Lines') : \E j \in 1..Len(Lines) : Lines'[i] = Lines[j]
         /\ \A E : SomeIn(Lines', E) => SomeIn(Lines, E)
         /\ \A E : OnlyOne(Lines, E) => OnlyOne(Lines', E)
         /\ ~SomeIn(Lines', Answering) /\ ~SomeIn(toChild, Asking)
<1>1. Typed /\ records \in Seq(RecordLine) /\ fromChild \in Seq(Line)
  BY DEF Inv, Typed
<1>2. Head(records) \in RecordLine /\ records' \in Seq(RecordLine)
  BY <1>1 DEF RecordTaken
<1>3. /\ Lines \in Seq(Line) /\ Lines' \in Seq(Line) /\ Without(Lines, Lines', 1)
      /\ Lines[1] = Head(records) /\ 1 \in 1..Len(Lines)
  BY <1>1, RecordGoes DEF RecordTaken
<1>4. Ends' = Ends /\ PartialEnds' = PartialEnds
  BY DEF Ends, PartialEnds, RecordTaken
<1>5. work.task = "none" /\ work.waits = "none"
  BY DEF RecordTaken, Done
<1>6. \A i \in 1..Len(Lines') : \E j \in 1..Len(Lines) : Lines'[i] = Lines[j]
  <2> TAKE i \in 1..Len(Lines')
  <2>1. ~(i < 1)
    OBVIOUS
  <2> QED BY <1>3, <2>1, WithoutPlaces
<1>7. \A E : SomeIn(Lines', E) => SomeIn(Lines, E)
  BY <1>6 DEF SomeIn
<1>8. \A E : OnlyOne(Lines, E) => OnlyOne(Lines', E)
  <2> TAKE E
  <2> QED BY <1>3, WithoutKeeps
<1>9. ~SomeIn(Lines, Answering) /\ ~SomeIn(toChild, Asking)
  <2>1. ASSUME NEW i \in 1..Len(Lines), Lines[i] \in Answering PROVE FALSE
    <3>1. Lines[i].to = "none"
      BY <1>5, <2>1 DEF Inv, Matched
    <3> QED BY <2>1, <3>1 DEF Answering, Questions
  <2>2. ASSUME NEW i \in 1..Len(toChild), toChild[i] \in Asking PROVE FALSE
    <3>1. toChild[i].command = "none"
      BY <1>5, <2>2 DEF Inv, Matched
    <3> QED BY <2>2, <3>1 DEF Asking, Questions
  <2> QED BY <2>1, <2>2 DEF SomeIn
<1> QED BY <1>1, <1>2, <1>3, <1>4, <1>5, <1>6, <1>7, <1>8, <1>9

\* Records that end no turn and no reply.
LEMMA TakenKeeps ==
  ASSUME NEW L \in Seq(Line), NEW M \in Seq(Line), Without(L, M, 1)
  PROVE  /\ Followed(L, Starts, Ends) => Followed(M, Starts, Ends)
         /\ Barred(L, Starts, Ends, Reboots) => Barred(M, Starts, Ends, Reboots)
         /\ Followed(L, PartialStarts, PartialEnds) => Followed(M, PartialStarts, PartialEnds)
         /\ Barred(L, PartialStarts, PartialEnds, PartialStarts) => Barred(M, PartialStarts, PartialEnds, PartialStarts)
         /\ L[1] \notin Ends /\ SomeIn(L, Ends) => SomeIn(M, Ends)
         /\ L[1] \notin Ends /\ Before(L, Ends, Reboots) => Before(M, Ends, Reboots)
         /\ L[1] \notin PartialEnds /\ SomeIn(L, PartialEnds) => SomeIn(M, PartialEnds)
         /\ L[1] \notin PartialEnds /\ Before(L, PartialEnds, PartialStarts) => Before(M, PartialEnds, PartialStarts)
<1>1. /\ Followed(L, Starts, Ends) => Followed(M, Starts, Ends)
      /\ Barred(L, Starts, Ends, Reboots) => Barred(M, Starts, Ends, Reboots)
      /\ L[1] \notin Ends /\ SomeIn(L, Ends) => SomeIn(M, Ends)
      /\ L[1] \notin Ends /\ Before(L, Ends, Reboots) => Before(M, Ends, Reboots)
  BY WithoutKeeps
<1>2. /\ Followed(L, PartialStarts, PartialEnds) => Followed(M, PartialStarts, PartialEnds)
      /\ Barred(L, PartialStarts, PartialEnds, PartialStarts) => Barred(M, PartialStarts, PartialEnds, PartialStarts)
      /\ L[1] \notin PartialEnds /\ SomeIn(L, PartialEnds) => SomeIn(M, PartialEnds)
      /\ L[1] \notin PartialEnds /\ Before(L, PartialEnds, PartialStarts) => Before(M, PartialEnds, PartialStarts)
  BY WithoutKeeps
<1> QED BY <1>1, <1>2

\* The queue after a record that refreshes nothing.
LEMMA TakenRest ==
  ASSUME Inv, RecordTaken, UNCHANGED <<work, toChild>>, messages' \in Seq(Message),
         streaming' \in BOOLEAN, told' \in BOOLEAN, misled' \in BOOLEAN
  PROVE  Typed' /\ Matched' /\ OneSession' /\ OfTheNew'
<1>1. /\ Typed /\ records' \in Seq(RecordLine) /\ work.task = "none"
      /\ \A E : SomeIn(Lines', E) => SomeIn(Lines, E)
      /\ \A E : OnlyOne(Lines, E) => OnlyOne(Lines', E)
      /\ ~SomeIn(Lines', Answering) /\ ~SomeIn(toChild, Asking)
  BY TakenFacts
<1>2. UNCHANGED <<completionEvent, failed, pc, newSession, fromChild, child, left>>
  BY DEF RecordTaken
<1>3. Typed'
  BY <1>1, <1>2 DEF Typed, WorkOK, child
<1>4. Matched'
  BY <1>1 DEF Matched, SomeIn, OnlyOne
<1>5. OneSession'
  <2>1. /\ OnlyOne(Lines', News) /\ (SomeIn(Lines', News) => SomeIn(Lines, News))
        /\ (SomeIn(Lines', AnsweredNew) => SomeIn(Lines, AnsweredNew))
        /\ (SomeIn(Lines', Rebootstrap) => SomeIn(Lines, Rebootstrap))
    BY <1>1 DEF Inv, OneSession
  <2> QED BY <1>2, <2>1 DEF Inv, OneSession
<1>6. OfTheNew'
  BY <1>1, <1>2 DEF Inv, OfTheNew, Clean, Unseen, child
<1> QED BY <1>3, <1>4, <1>5, <1>6

\* The queue after a record that has the child asked.
LEMMA TakenAsks ==
  ASSUME Inv, RecordTaken, NEW task \in {"turn", "compaction", "session"}, NEW c \in {"state", "messages"}, Asks(task, c),
         c = "state" => task = "session", task = "session" => Head(records).kind = "rebootstrap",
         UNCHANGED messages, streaming' \in BOOLEAN, told' \in BOOLEAN, misled' \in BOOLEAN
  PROVE  Typed' /\ Matched' /\ OneSession' /\ OfTheNew'
<1>1. /\ Typed /\ records' \in Seq(RecordLine) /\ work.task = "none" /\ Head(records) \in RecordLine
      /\ Lines \in Seq(Line) /\ Lines' \in Seq(Line) /\ Without(Lines, Lines', 1)
      /\ Lines[1] = Head(records) /\ 1 \in 1..Len(Lines)
      /\ \A i \in 1..Len(Lines') : \E j \in 1..Len(Lines) : Lines'[i] = Lines[j]
      /\ \A E : SomeIn(Lines', E) => SomeIn(Lines, E)
      /\ \A E : OnlyOne(Lines, E) => OnlyOne(Lines', E)
      /\ ~SomeIn(Lines', Answering) /\ ~SomeIn(toChild, Asking)
  BY TakenFacts
<1>2. UNCHANGED <<completionEvent, failed, pc, newSession, fromChild, child, left>>
  BY DEF RecordTaken
<1>3. /\ work' = [task |-> task, waits |-> c] /\ toChild' = Append(toChild, Ask(c)) /\ c \in Questions
      /\ work'.task = task /\ work'.waits = c
  BY DEF Asks, Sends, Questions
<1>4. /\ Matched' /\ toChild' \in Seq(CommandLine)
      /\ SomeIn(toChild', AskNew) => SomeIn(toChild, AskNew)
      /\ OnlyOne(toChild, AskNew) => OnlyOne(toChild', AskNew)
      /\ \A i \in 1..Len(toChild') : toChild'[i].command = "prompt" => i \in 1..Len(toChild) /\ toChild'[i] = toChild[i]
  BY <1>1, <1>3, NextAsked
<1>5. WorkOK'
  BY <1>3 DEF WorkOK, Tasks, Questions
<1>6. Typed'
  BY <1>1, <1>2, <1>4, <1>5 DEF Typed, child
<1>7. OneSession'
  <2>1. /\ OnlyOne(Lines', News) /\ (SomeIn(Lines', News) => SomeIn(Lines, News))
        /\ (SomeIn(Lines', AnsweredNew) => SomeIn(Lines, AnsweredNew))
        /\ (SomeIn(Lines', Rebootstrap) => SomeIn(Lines, Rebootstrap))
    BY <1>1 DEF Inv, OneSession
  <2>2. task = "session" => newSession = "rebooting" /\ ~SomeIn(Lines', News)
    <3>1. task = "session" => Head(records) \in Rebootstrap /\ Head(records) \in News
      BY <1>1, RecordClasses
    <3>2. task = "session" => SomeIn(Lines, Rebootstrap)
      BY <1>1, <3>1 DEF SomeIn
    <3>3. OnlyOne(Lines, News) /\ Lines[1] \in News => ~SomeIn(Lines', News)
      <4>1. Lines \in Seq(Line) /\ Lines' \in Seq(Line) /\ Without(Lines, Lines', 1)
        BY <1>1
      <4> QED BY <4>1, WithoutKeeps
    <3> QED BY <1>1, <3>1, <3>2, <3>3 DEF Inv, OneSession
  <2> QED BY <1>2, <1>3, <1>4, <2>1, <2>2 DEF Inv, OneSession
<1>8. OfTheNew'
  <2>1. UNCHANGED <<history, prompts, abandoned, pc, messages>>
    BY <1>2 DEF child
  <2>2. ASSUME NEW i \in 1..Len(Lines'), Lines'[i] \in MessagesAnswers PROVE FALSE
    <3>1. Lines'[i] \in Answering
      BY <2>2 DEF MessagesAnswers, Answering, Questions
    <3> QED BY <1>1, <3>1 DEF SomeIn
  <2>3. work'.task = "session" /\ work'.waits = "rest" => FALSE
    BY <1>3
  <2>4. /\ Clean(history)' /\ \A i \in 1..Len(prompts') : prompts'[i] \notin abandoned'
        /\ \A p \in Prompt : pc'[p] = "new" => Unseen(p)'
    BY <2>1 DEF Inv, OfTheNew, Clean, Unseen
  <2>5. \A i \in 1..Len(toChild') : toChild'[i].command = "prompt" =>
          Unseen(toChild[i].of)' /\ pc'[toChild'[i].of] # "new"
    <3>1. ASSUME NEW i \in 1..Len(toChild'), toChild'[i].command = "prompt"
          PROVE  Unseen(toChild[i].of) /\ pc[toChild[i].of] # "new" /\ toChild'[i] = toChild[i]
      BY <1>4, <3>1 DEF Inv, OfTheNew
    <3> QED BY <2>1, <3>1 DEF Unseen
  <2>6. \A i, j \in 1..Len(toChild') :
          toChild'[i].command = "prompt" /\ toChild'[j].command = "prompt" /\ toChild'[i].of = toChild'[j].of
            => i = j
    BY <1>4 DEF Inv, OfTheNew
  <2>7. \A i \in 1..Len(Lines') : Lines'[i] \in MessagesAnswers' => Clean(Lines[i].data)'
    BY <2>2 DEF MessagesAnswers
  <2> QED BY <2>3, <2>4, <2>5, <2>6, <2>7 DEF OfTheNew
<1> QED BY <1>4, <1>6, <1>7, <1>8

\* A record that is no end, no start of a turn, and leaves what the browsers were told.
LEMMA TakenEnds ==
  ASSUME Inv, RecordTaken, UNCHANGED <<streaming, told, misled>>, work'.task # "session" \/ Head(records).kind = "rebootstrap",
         Head(records) \notin Ends \/ ~streaming
  PROVE  EndsComing'
<1>1. /\ Typed /\ Head(records) \in RecordLine /\ Lines \in Seq(Line) /\ Lines' \in Seq(Line)
        /\ Without(Lines, Lines', 1)
      /\ Lines[1] = Head(records) /\ 1 \in 1..Len(Lines) /\ Ends' = Ends /\ work.task = "none"
  BY TakenFacts
<1>2. turn' = turn
  BY DEF RecordTaken, child
<1>3. /\ Followed(Lines, Starts, Ends) => Followed(Lines', Starts, Ends)
      /\ Barred(Lines, Starts, Ends, Reboots) => Barred(Lines', Starts, Ends, Reboots)
      /\ Lines[1] \notin Ends /\ SomeIn(Lines, Ends) => SomeIn(Lines', Ends)
      /\ Lines[1] \notin Ends /\ Before(Lines, Ends, Reboots) => Before(Lines', Ends, Reboots)
  BY <1>1, TakenKeeps
<1>4. misled \/ (told => streaming)
  BY <1>1 DEF Inv, EndsComing, EndsAt
<1>5. Head(records).kind = "rebootstrap" => misled \/ ~told
  <2>1. Head(records).kind = "rebootstrap" => Lines[1] \in Reboots
    BY <1>1, RecordClasses
  <2>2. Head(records).kind = "rebootstrap" => ~Before(Lines, Ends, Reboots)
    BY <1>1, <2>1, FirstHad
  <2> QED BY <1>1, <2>2 DEF Inv, EndsComing, EndsAt
<1>6. CASE Head(records) \notin Ends
  BY <1>1, <1>2, <1>3, <1>5, <1>6 DEF Inv, EndsComing, EndsAt
<1>7. CASE ~streaming
  BY <1>1, <1>2, <1>3, <1>4, <1>7 DEF Inv, EndsComing, EndsAt
<1> QED BY <1>6, <1>7

\* A record that is no part of a reply.
LEMMA TakenPartial ==
  ASSUME Inv, RecordTaken, UNCHANGED messages, Head(records) \notin PartialStarts,
         Head(records) \notin PartialEnds \/ work'.waits \in {"state", "messages"}
  PROVE  OnePartial'
<1>1. /\ Typed /\ Head(records) \in RecordLine /\ Lines \in Seq(Line) /\ Lines' \in Seq(Line)
        /\ Without(Lines, Lines', 1)
      /\ Lines[1] = Head(records) /\ 1 \in 1..Len(Lines) /\ PartialEnds' = PartialEnds /\ work.waits = "none"
  BY TakenFacts
<1>2. turn' = turn /\ HasPartial' = HasPartial
  BY DEF RecordTaken, child, HasPartial
<1>3. /\ Followed(Lines, PartialStarts, PartialEnds) => Followed(Lines', PartialStarts, PartialEnds)
      /\ Barred(Lines, PartialStarts, PartialEnds, PartialStarts) => Barred(Lines', PartialStarts, PartialEnds, PartialStarts)
      /\ Lines[1] \notin PartialEnds /\ SomeIn(Lines, PartialEnds) => SomeIn(Lines', PartialEnds)
      /\ Lines[1] \notin PartialEnds /\ Before(Lines, PartialEnds, PartialStarts) => Before(Lines', PartialEnds, PartialStarts)
  BY <1>1, TakenKeeps
<1>4. ~Replacing /\ (work'.waits \in {"state", "messages"} => Replacing')
  BY <1>1 DEF Replacing
<1> QED BY <1>1, <1>2, <1>3, <1>4 DEF Inv, OnePartial, PartialAt

\* The end of a turn: the server stops streaming and asks for the messages.
LEMMA CompletesKeeps ==
  ASSUME Inv, RecordTaken, CompleteTurn, Head(records).kind # "message_start" PROVE Inv'
<1>1. /\ Typed /\ Head(records) \in RecordLine /\ Lines \in Seq(Line) /\ Lines' \in Seq(Line)
        /\ Without(Lines, Lines', 1)
      /\ Ends' = Ends
  BY TakenFacts
<1>2. streaming' = FALSE /\ Asks("turn", "messages") /\ UNCHANGED <<messages, told>> /\ told \in BOOLEAN
        /\ misled' = FALSE
  BY <1>1 DEF CompleteTurn, Typed
<1>3. work'.task = "turn" /\ work'.waits = "messages" /\ turn' = turn
  BY <1>2 DEF Asks, RecordTaken, child
<1>4. Typed' /\ Matched' /\ OneSession' /\ OfTheNew'
  BY <1>2, TakenAsks
<1>5. EndsComing'
  <2>1. /\ Followed(Lines, Starts, Ends) => Followed(Lines', Starts, Ends)
        /\ Barred(Lines, Starts, Ends, Reboots) => Barred(Lines', Starts, Ends, Reboots)
    BY <1>1, TakenKeeps
  <2> QED BY <1>1, <1>2, <1>3, <2>1 DEF Inv, EndsComing, EndsAt
<1>6. OnePartial'
  BY <1>1, <1>2, <1>3, RecordClasses, TakenPartial
<1> QED BY <1>4, <1>5, <1>6 DEF Inv

\* A record that changes nothing but the queue: no end of a turn the server knows of.
LEMMA IgnoredKeeps ==
  ASSUME Inv, RecordTaken, Ignored, Head(records).kind # "message_start",
         Head(records) \notin PartialEnds, Head(records) \notin Ends \/ ~streaming
  PROVE  Inv'
<1>1. Typed /\ Head(records) \in RecordLine /\ work.task = "none"
  BY TakenFacts
<1>2. UNCHANGED <<streaming, told, misled, messages, work, toChild>> /\ messages' \in Seq(Message)
        /\ streaming' \in BOOLEAN /\ told' \in BOOLEAN /\ misled' \in BOOLEAN
  BY <1>1 DEF Ignored, Typed
<1>3. Typed' /\ Matched' /\ OneSession' /\ OfTheNew'
  BY <1>2, TakenRest
<1>4. EndsComing'
  BY <1>1, <1>2, TakenEnds
<1>5. OnePartial'
  BY <1>1, <1>2, RecordClasses, TakenPartial
<1> QED BY <1>3, <1>4, <1>5 DEF Inv

\* A turn runs: its end is behind the record that says so.
LEMMA RunsKeeps ==
  ASSUME Inv, RecordTaken, Runs, Head(records).kind \in {"agent_start", "auto_retry_start"} PROVE Inv'
<1>1. /\ Typed /\ Head(records) \in RecordLine /\ Lines \in Seq(Line) /\ Lines' \in Seq(Line)
        /\ Without(Lines, Lines', 1)
      /\ Lines[1] = Head(records) /\ 1 \in 1..Len(Lines) /\ Ends' = Ends /\ work.task = "none"
  BY TakenFacts
<1>2. streaming' = TRUE /\ told' = TRUE /\ UNCHANGED <<messages, work, toChild>> /\ messages' \in Seq(Message)
        /\ misled' = misled /\ misled \in BOOLEAN
  BY <1>1 DEF Runs, Typed
<1>3. Typed' /\ Matched' /\ OneSession' /\ OfTheNew'
  BY <1>2, TakenRest
<1>4. completionEvent \in {"agent_settled", "agent_end"}
  BY <1>1 DEF Typed
<1>5. Lines[1] \in Starts /\ Lines[1] \notin Ends /\ Lines[1] \notin PartialStarts /\ Lines[1] \notin PartialEnds
  BY <1>1, <1>4, RecordClasses
<1>6. EndsComing'
  <2>1. /\ Followed(Lines, Starts, Ends) => Followed(Lines', Starts, Ends)
        /\ Barred(Lines, Starts, Ends, Reboots) => Barred(Lines', Starts, Ends, Reboots)
        /\ Lines[1] \notin Ends /\ SomeIn(Lines, Ends) => SomeIn(Lines', Ends)
    BY <1>1, TakenKeeps
  <2>2. Followed(Lines, Starts, Ends) => SomeIn(Lines, Ends)
    BY <1>1, <1>5, FirstHad
  <2>3. Barred(Lines, Starts, Ends, Reboots) => Before(Lines', Ends, Reboots)
    BY <1>1, <1>5, FirstHad
  <2>4. turn' = turn
    BY DEF RecordTaken, child
  <2> QED BY <1>1, <1>2, <1>5, <2>1, <2>2, <2>3, <2>4 DEF Inv, EndsComing, EndsAt
<1>7. OnePartial'
  BY <1>1, <1>2, <1>5, TakenPartial
<1> QED BY <1>3, <1>6, <1>7 DEF Inv

\* A reply starts: no partial message is left, and the end of this one is behind.
LEMMA MessageStartKeeps ==
  ASSUME Inv, RecordTaken, MessageStart, Head(records).kind = "message_start" PROVE Inv'
<1>1. /\ Typed /\ Head(records) \in RecordLine /\ Lines \in Seq(Line) /\ Lines' \in Seq(Line)
        /\ Without(Lines, Lines', 1)
      /\ Lines[1] = Head(records) /\ 1 \in 1..Len(Lines) /\ PartialEnds' = PartialEnds
      /\ work.task = "none" /\ work.waits = "none"
  BY TakenFacts
<1>2. messages' = Append(messages, Partial) /\ UNCHANGED <<streaming, told, misled, work, toChild>>
      /\ messages \in Seq(Message) /\ streaming \in BOOLEAN /\ told \in BOOLEAN /\ misled \in BOOLEAN
  BY <1>1 DEF MessageStart, Typed
<1>3. Partial \in Message
  BY DEF Partial, Said, Message
<1>4. /\ messages' \in Seq(Message) /\ Len(messages') = Len(messages) + 1 /\ Len(messages) \in Nat
      /\ \A i \in 1..Len(messages) : messages'[i] = messages[i]
      /\ \A i \in 1..Len(messages') : i \in 1..Len(messages) \/ i = Len(messages) + 1
  BY <1>2, <1>3
<1>5. Typed' /\ Matched' /\ OneSession' /\ OfTheNew'
  BY <1>2, <1>4, TakenRest
<1>6. completionEvent \in {"agent_settled", "agent_end"}
  BY <1>1 DEF Typed
<1>7. Lines[1] \in PartialStarts /\ Lines[1] \notin Ends /\ Lines[1] \notin PartialEnds
  BY <1>1, <1>6, RecordClasses
<1>8. EndsComing'
  BY <1>1, <1>2, <1>7, TakenEnds
<1>9. OnePartial'
  <2>1. ~Replacing
    BY <1>1 DEF Replacing
  <2>2. ~HasPartial
    <3>1. ~Before(Lines, PartialEnds, PartialStarts)
      BY <1>1, <1>7, FirstHad
    <3> QED BY <2>1, <3>1 DEF Inv, OnePartial, PartialAt
  <2>3. \A i, j \in 1..Len(messages') : messages'[i] = Partial /\ messages'[j] = Partial => i = j
    BY <1>4, <2>2 DEF HasPartial
  <2>4. /\ Followed(Lines, PartialStarts, PartialEnds) => Followed(Lines', PartialStarts, PartialEnds)
        /\ Barred(Lines, PartialStarts, PartialEnds, PartialStarts) => Barred(Lines', PartialStarts, PartialEnds, PartialStarts)
        /\ SomeIn(Lines, PartialEnds) => SomeIn(Lines', PartialEnds)
    BY <1>1, <1>7, TakenKeeps
  <2>5. Followed(Lines, PartialStarts, PartialEnds) => SomeIn(Lines, PartialEnds)
    BY <1>1, <1>7, FirstHad
  <2>6. Barred(Lines, PartialStarts, PartialEnds, PartialStarts) => Before(Lines', PartialEnds, PartialStarts)
    BY <1>1, <1>7, FirstHad
  <2>7. turn' = turn
    BY DEF RecordTaken, child
  <2> QED BY <1>1, <2>3, <2>4, <2>5, <2>6, <2>7 DEF Inv, OnePartial, PartialAt
<1> QED BY <1>5, <1>8, <1>9 DEF Inv

\* A message ends: the assistant's takes the place of the partial one.
LEMMA MessageEndKeeps ==
  ASSUME Inv, RecordTaken, MessageEnd(Head(records).message), Head(records).kind = "message_end" PROVE Inv'
<1> DEFINE m == Head(records).message
<1>1. /\ Typed /\ Head(records) \in RecordLine /\ Lines \in Seq(Line) /\ Lines' \in Seq(Line)
        /\ Without(Lines, Lines', 1)
      /\ Lines[1] = Head(records) /\ 1 \in 1..Len(Lines) /\ PartialEnds' = PartialEnds
      /\ work.task = "none" /\ work.waits = "none"
  BY TakenFacts
<1>2. /\ UNCHANGED <<streaming, told, misled, work, toChild>> /\ messages \in Seq(Message)
      /\ streaming \in BOOLEAN /\ told \in BOOLEAN /\ misled \in BOOLEAN
      /\ messages' = IF m.role = "assistant" /\ Contains(messages, Partial)
                     THEN [messages EXCEPT ![CHOOSE i \in DOMAIN messages : messages[i] = Partial] = m]
                     ELSE Append(messages, m)
  BY <1>1 DEF MessageEnd, Typed
<1>3. completionEvent \in {"agent_settled", "agent_end"}
  BY <1>1 DEF Typed
<1>4. /\ m \in Spoken /\ Lines[1] \notin PartialStarts /\ Lines[1] \notin Ends
      /\ Lines[1] \in PartialEnds <=> m.role = "assistant"
  BY <1>1, <1>3, RecordClasses
<1> HIDE DEF m
<1>5. m \in Message /\ m # Partial
  BY <1>4 DEF Spoken, Partial, Said
<1>6. Contains(messages, Partial) <=> HasPartial
  BY <1>2 DEF Contains, HasPartial
<1>7. \A i, j \in 1..Len(messages) : messages[i] = Partial /\ messages[j] = Partial => i = j
  BY DEF Inv, OnePartial, PartialAt
<1>8. /\ messages' \in Seq(Message)
      /\ \A i, j \in 1..Len(messages') : messages'[i] = Partial /\ messages'[j] = Partial => i = j
      /\ HasPartial' => HasPartial /\ m.role # "assistant"
  <2>1. CASE m.role = "assistant" /\ Contains(messages, Partial)
    <3> DEFINE k == CHOOSE i \in DOMAIN messages : messages[i] = Partial
    <3>1. k \in 1..Len(messages) /\ messages[k] = Partial /\ DOMAIN messages = 1..Len(messages)
      BY <1>2, <1>6, <2>1 DEF HasPartial
    <3>2. messages' = [messages EXCEPT ![k] = m]
      BY <1>2, <2>1
    <3> HIDE DEF k
    <3>3. /\ messages' \in Seq(Message) /\ Len(messages') = Len(messages)
          /\ \A i \in 1..Len(messages) : messages'[i] = IF i = k THEN m ELSE messages[i]
      <4>1. PICK n \in Nat : n = Len(messages) /\ DOMAIN messages = 1..n /\ messages \in [1..n -> Message]
        BY <1>2
      <4>2. messages' \in [1..n -> Message] /\ \A i \in 1..n : messages'[i] = IF i = k THEN m ELSE messages[i]
        BY <1>5, <3>1, <3>2, <4>1
      <4>3. messages' \in Seq(Message) /\ Len(messages') = n
        BY <4>1, <4>2
      <4> QED BY <4>1, <4>2, <4>3
    <3>4. \A i \in 1..Len(messages') : messages'[i] # Partial
      BY <1>5, <1>7, <3>1, <3>3
    <3> QED BY <3>3, <3>4 DEF HasPartial
  <2>2. CASE ~(m.role = "assistant" /\ Contains(messages, Partial))
    <3>1. /\ messages' \in Seq(Message)
          /\ \A i \in 1..Len(messages') : messages'[i] = m \/ (i \in 1..Len(messages) /\ messages'[i] = messages[i])
      BY <1>2, <1>5, <2>2, OneMore
    <3>2. \A i \in 1..Len(messages') : messages'[i] = Partial => i \in 1..Len(messages) /\ messages[i] = Partial
      BY <1>5, <3>1
    <3> QED BY <1>6, <1>7, <2>2, <3>1, <3>2 DEF HasPartial
  <2> QED BY <2>1, <2>2
<1>9. Typed' /\ Matched' /\ OneSession' /\ OfTheNew'
  BY <1>2, <1>8, TakenRest
<1>10. EndsComing'
  BY <1>1, <1>2, <1>4, TakenEnds
<1>11. OnePartial'
  <2>1. /\ Followed(Lines, PartialStarts, PartialEnds) => Followed(Lines', PartialStarts, PartialEnds)
        /\ Barred(Lines, PartialStarts, PartialEnds, PartialStarts) => Barred(Lines', PartialStarts, PartialEnds, PartialStarts)
        /\ Lines[1] \notin PartialEnds /\ SomeIn(Lines, PartialEnds) => SomeIn(Lines', PartialEnds)
        /\ Lines[1] \notin PartialEnds /\ Before(Lines, PartialEnds, PartialStarts) => Before(Lines', PartialEnds, PartialStarts)
    BY <1>1, TakenKeeps
  <2>2. turn' = turn /\ ~Replacing
    BY <1>1 DEF RecordTaken, child, Replacing
  <2> QED BY <1>1, <1>4, <1>8, <2>1, <2>2 DEF Inv, OnePartial, PartialAt
<1> QED BY <1>9, <1>10, <1>11 DEF Inv

\* A compaction or a new session has the child asked.
LEMMA RefreshKeeps ==
  ASSUME Inv, RecordTaken, UNCHANGED <<streaming, told, misled, messages>>,
         \/ Head(records).kind = "compaction_end" /\ Asks("compaction", "messages")
         \/ Head(records).kind = "rebootstrap" /\ Asks("session", "state")
  PROVE  Inv'
<1>1. Typed /\ Head(records) \in RecordLine
  BY TakenFacts
<1>2. completionEvent \in {"agent_settled", "agent_end"} /\ streaming' \in BOOLEAN /\ told' \in BOOLEAN
        /\ misled' \in BOOLEAN
  BY <1>1 DEF Typed
<1>3. Head(records) \notin Ends /\ Head(records) \notin PartialStarts /\ Head(records) \notin PartialEnds
  BY <1>1, <1>2, RecordClasses
<1>4. Typed' /\ Matched' /\ OneSession' /\ OfTheNew'
  BY <1>2, TakenAsks
<1>5. work'.task # "session" \/ Head(records).kind = "rebootstrap"
  BY DEF Asks
<1>6. EndsComing'
  BY <1>3, <1>5, TakenEnds
<1>7. OnePartial'
  BY <1>3, TakenPartial
<1> QED BY <1>4, <1>6, <1>7 DEF Inv

\* Whatever record is handled.
LEMMA HandleKeeps == ASSUME Inv, HandleRecord PROVE Inv'
<1> DEFINE r == Head(records)
<1>1. RecordTaken /\ Handles(r)
  BY DEF HandleRecord, RecordTaken
<1>2. r \in RecordLine /\ Typed
  BY <1>1, TakenFacts
<1>3. r.kind \in RecordKinds /\ completionEvent \in {"agent_settled", "agent_end"}
  BY <1>2, RecordClasses DEF Typed
<1>4. /\ r \in Ends <=> r.kind = completionEvent \/ (r.kind = "auto_retry_failed" /\ completionEvent = "agent_end")
      /\ r \in PartialEnds <=> r.kind = completionEvent \/ (r.kind = "message_end" /\ r.message.role = "assistant")
  BY <1>2, RecordClasses
<1>5. CASE r.kind = "agent_start"
  BY <1>1, <1>5, RunsKeeps DEF Handles
<1>6. CASE r.kind \in {"agent_end", "agent_settled"}
  <2>1. IF r.kind = completionEvent THEN CompleteTurn ELSE Ignored
    BY <1>1, <1>6 DEF Handles
  <2> QED BY <1>1, <1>3, <1>4, <1>6, <2>1, CompletesKeeps, IgnoredKeeps
<1>7. CASE r.kind = "message_start"
  BY <1>1, <1>7, MessageStartKeeps DEF Handles
<1>8. CASE r.kind = "message_end"
  BY <1>1, <1>8, MessageEndKeeps DEF Handles
<1>9. CASE r.kind = "auto_retry_start"
  <2>1. IF streaming THEN Ignored ELSE Runs
    BY <1>1, <1>9 DEF Handles
  <2> QED BY <1>1, <1>3, <1>4, <1>9, <2>1, RunsKeeps, IgnoredKeeps
<1>10. CASE r.kind = "auto_retry_failed"
  <2>1. IF streaming /\ completionEvent = "agent_end" THEN CompleteTurn ELSE Ignored
    BY <1>1, <1>10 DEF Handles
  <2> QED BY <1>1, <1>3, <1>4, <1>10, <2>1, CompletesKeeps, IgnoredKeeps
<1>11. CASE r.kind = "compaction_end"
  BY <1>1, <1>11, RefreshKeeps DEF Handles
<1>12. CASE r.kind = "rebootstrap"
  BY <1>1, <1>12, RefreshKeeps DEF Handles
<1> QED BY <1>3, <1>5, <1>6, <1>7, <1>8, <1>9, <1>10, <1>11, <1>12 DEF RecordKinds

-----------------------------------------------------------------------------
(* Commands of the server                                                  *)

\* A command that asks nothing and starts no session: the lines are as they were.
LEMMA CommandKeeps ==
  ASSUME Typed, Matched, NEW c \in CommandLine, c \notin Asking, toChild' = Append(toChild, c),
         UNCHANGED <<completionEvent, streaming, messages, records, work, told, misled, fromChild, child>>
  PROVE  /\ Matched' /\ toChild' \in Seq(CommandLine)
         /\ (EndsComing => EndsComing') /\ (OnePartial => OnePartial')
         /\ \A E : SomeIn(toChild', E) <=> SomeIn(toChild, E) \/ c \in E
         /\ \A E : OnlyOne(toChild, E) /\ (c \notin E \/ ~SomeIn(toChild, E)) => OnlyOne(toChild', E)
         /\ \A i \in 1..Len(toChild') : toChild'[i] = c \/ (i \in 1..Len(toChild) /\ toChild'[i] = toChild[i])
         /\ Lines' = Lines
<1>1. toChild \in Seq(CommandLine) /\ Lines' = Lines
  BY DEF Typed, Lines
<1>2. /\ toChild' \in Seq(CommandLine)
      /\ \A i \in 1..Len(toChild') : toChild'[i] = c \/ (i \in 1..Len(toChild) /\ toChild'[i] = toChild[i])
  BY <1>1, OneMore
<1>3. /\ \A E : SomeIn(toChild', E) <=> SomeIn(toChild, E) \/ c \in E
      /\ \A E : OnlyOne(toChild, E) /\ (c \notin E \/ ~SomeIn(toChild, E)) => OnlyOne(toChild', E)
  BY <1>1, OneMore
<1>4. Matched'
  <2>1. (SomeIn(toChild', Asking) <=> SomeIn(toChild, Asking))
          /\ (OnlyOne(toChild, Asking) => OnlyOne(toChild', Asking))
    BY <1>3
  <2>2. \A i \in 1..Len(toChild') : toChild'[i] \in Asking => toChild'[i].command = work.waits
    BY <1>2 DEF Matched
  <2> QED BY <1>1, <2>1, <2>2 DEF Matched
<1>5. Ends' = Ends /\ PartialEnds' = PartialEnds /\ HasPartial' = HasPartial /\ Replacing' = Replacing
  BY DEF Ends, PartialEnds, HasPartial, Replacing
<1>6. EndsComing => EndsComing'
  BY <1>1, <1>5 DEF EndsComing, EndsAt, child
<1>7. OnePartial => OnePartial'
  BY <1>1, <1>5 DEF OnePartial, PartialAt, child
<1> QED BY <1>1, <1>2, <1>3, <1>4, <1>6, <1>7

\* A prompt that goes is one the child has not seen.
LEMMA SendKeeps == ASSUME Inv, NEW p \in Prompt, SendPrompt(p) PROVE Inv'
<1>1. /\ pc[p] = "new"
      /\ UNCHANGED <<completionEvent, streaming, messages, records, work, failed, told, misled, newSession, fromChild, child,
                     left>>
  BY DEF SendPrompt
<1>2. Typed /\ Lines' = Lines /\ pc \in [Prompt -> {"new", "sent", "accepted", "refused"}]
  BY <1>1 DEF Inv, Typed, Lines
<1>3. Ends' = Ends /\ PartialEnds' = PartialEnds /\ HasPartial' = HasPartial /\ Replacing' = Replacing
  BY <1>1 DEF Ends, PartialEnds, HasPartial, Replacing
<1>4. Unseen(p)
  BY <1>1 DEF Inv, OfTheNew
<1>5. \A i \in 1..Len(toChild) : toChild[i].command = "prompt" => toChild[i].of \in Prompt /\ toChild[i].of # p
  <2>1. \A i \in 1..Len(toChild) : toChild[i] \in CommandLine
    BY <1>2 DEF Typed
  <2>2. \A i \in 1..Len(toChild) : toChild[i].command = "prompt" => pc[toChild[i].of] # "new"
    BY DEF Inv, OfTheNew
  <2> QED BY <1>1, <2>1, <2>2 DEF CommandLine
<1>6. CASE failed
  <2>1. pc' = [pc EXCEPT ![p] = "refused"] /\ toChild' = toChild
    BY <1>6 DEF SendPrompt
  <2>2. /\ pc' \in [Prompt -> {"new", "sent", "accepted", "refused"}]
        /\ \A q \in Prompt : (pc'[q] = "new" => pc[q] = "new") /\ (pc[q] # "new" => pc'[q] # "new")
    BY <1>2, <2>1
  <2>3. Typed' /\ Matched' /\ OneSession'
    BY <1>1, <1>2, <2>1, <2>2 DEF Inv, Typed, WorkOK, Matched, OneSession, child
  <2>4. EndsComing' /\ OnePartial'
    BY <1>1, <1>2, <1>3 DEF Inv, EndsComing, EndsAt, OnePartial, PartialAt, child
  <2>5. OfTheNew'
    BY <1>1, <1>2, <1>5, <2>1, <2>2 DEF Inv, OfTheNew, Clean, Unseen, child
  <2> QED BY <2>3, <2>4, <2>5 DEF Inv
<1>7. CASE ~failed
  <2> DEFINE c == Command("prompt", p, streaming)
  <2>1. pc' = [pc EXCEPT ![p] = "sent"] /\ toChild' = Append(toChild, c)
    BY <1>7 DEF SendPrompt, Sends
  <2>2. c \in CommandLine /\ c.command = "prompt" /\ c.of = p /\ c \notin Asking /\ c \notin AskNew
    <3>1. streaming \in BOOLEAN
      BY <1>2 DEF Typed
    <3> QED BY <3>1 DEF Command, CommandLine, Asking, AskNew, Questions
  <2> HIDE DEF c
  <2>3. /\ pc' \in [Prompt -> {"new", "sent", "accepted", "refused"}] /\ pc'[p] = "sent"
        /\ \A q \in Prompt : (pc'[q] = "new" => pc[q] = "new") /\ (pc[q] # "new" => pc'[q] # "new")
    BY <1>2, <2>1
  <2>4. /\ Matched' /\ toChild' \in Seq(CommandLine)
        /\ EndsComing' /\ OnePartial'
        /\ \A E : SomeIn(toChild', E) <=> SomeIn(toChild, E) \/ c \in E
        /\ \A E : OnlyOne(toChild, E) /\ (c \notin E \/ ~SomeIn(toChild, E)) => OnlyOne(toChild', E)
        /\ \A i \in 1..Len(toChild') : toChild'[i] = c \/ (i \in 1..Len(toChild) /\ toChild'[i] = toChild[i])
    BY <1>1, <2>1, <2>2, CommandKeeps DEF Inv
  <2>5. Typed'
    BY <1>1, <1>2, <2>3, <2>4 DEF Typed, WorkOK, child
  <2>6. OneSession'
    <3>1. (SomeIn(toChild', AskNew) <=> SomeIn(toChild, AskNew))
            /\ (OnlyOne(toChild, AskNew) => OnlyOne(toChild', AskNew))
      BY <2>2, <2>4
    <3> QED BY <1>1, <1>2, <3>1 DEF Inv, OneSession
  <2>7. OfTheNew'
    <3>1. UNCHANGED <<history, prompts, abandoned, messages, work>>
      BY <1>1 DEF child
    <3>2. \A i \in 1..Len(toChild') : toChild'[i].command = "prompt" =>
            /\ toChild'[i].of \in Prompt /\ Unseen(toChild'[i].of) /\ pc'[toChild'[i].of] # "new"
      BY <1>4, <1>5, <2>2, <2>3, <2>4 DEF Inv, OfTheNew
    <3>3. ASSUME NEW i \in 1..Len(toChild'), NEW j \in 1..Len(toChild'), toChild'[i].command = "prompt",
                 toChild'[j].command = "prompt", toChild'[i].of = toChild'[j].of
          PROVE  i = j
      <4>1. toChild \in Seq(CommandLine) /\ Len(toChild) \in Nat
        BY <1>2 DEF Typed
      <4>2. Len(toChild') = Len(toChild) + 1 /\ \A n \in 1..Len(toChild) : toChild'[n] = toChild[n]
        BY <2>1, <2>2, <4>1
      <4>3. \A n \in 1..Len(toChild') : n \in 1..Len(toChild) \/ n = Len(toChild) + 1
        BY <4>1, <4>2
      <4>4. toChild'[Len(toChild) + 1] = c
        BY <2>1, <2>2, <4>1
      <4>5. CASE i \in 1..Len(toChild) /\ j \in 1..Len(toChild)
        BY <3>3, <4>2, <4>5 DEF Inv, OfTheNew
      <4>6. CASE i = Len(toChild) + 1 /\ j \in 1..Len(toChild)
        BY <1>5, <2>2, <3>3, <4>2, <4>4, <4>6
      <4>7. CASE i \in 1..Len(toChild) /\ j = Len(toChild) + 1
        BY <1>5, <2>2, <3>3, <4>2, <4>4, <4>7
      <4>8. CASE i = Len(toChild) + 1 /\ j = Len(toChild) + 1
        BY <4>8
      <4> QED BY <4>3, <4>5, <4>6, <4>7, <4>8
    <3>4. \A q \in Prompt : pc'[q] = "new" => Unseen(q)
      BY <2>3 DEF Inv, OfTheNew
    <3> QED BY <1>2, <3>1, <3>2, <3>3, <3>4 DEF Inv, OfTheNew, Clean, Unseen
  <2> QED BY <2>4, <2>5, <2>6, <2>7 DEF Inv
<1> QED BY <1>6, <1>7

\* A new session is asked for once; an abort asks nothing.
LEMMA AskKeeps == ASSUME Inv, AskNewSession \/ Abort PROVE Inv'
<1>1. PICK c : /\ toChild' = Append(toChild, c) /\ c \in {Ask("new"), Ask("abort")}
               /\ c = Ask("new") => "new" \in left /\ newSession' = "sent" /\ left' = left \ {"new"}
               /\ c = Ask("abort") => newSession' = newSession /\ left' \subseteq left
               /\ UNCHANGED <<completionEvent, streaming, messages, records, work, failed, told, misled, pc, fromChild, child>>
  <2>1. CASE AskNewSession
    <3>1. Ask("new") # Ask("abort")
      BY DEF Ask, Command
    <3> QED BY <2>1, <3>1 DEF AskNewSession, Sends
  <2>2. CASE Abort
    <3>1. Ask("new") # Ask("abort")
      BY DEF Ask, Command
    <3> QED BY <2>2, <3>1 DEF Abort, Sends, server
  <2> QED BY <2>1, <2>2
<1>2. /\ c \in CommandLine /\ c \notin Asking /\ c.command # "prompt"
      /\ c \in AskNew <=> c = Ask("new")
  <2>1. /\ Ask("new").command = "new" /\ Ask("abort").command = "abort"
        /\ Ask("new") \in CommandLine /\ Ask("abort") \in CommandLine
    BY DEF Ask, Command, CommandLine
  <2>2. c \in CommandLine /\ c.command \in {"new", "abort"} /\ (c.command = "new" <=> c = Ask("new"))
    BY <1>1, <2>1
  <2>3. c \notin Asking
    BY <2>2 DEF Asking, Questions
  <2> QED BY <2>2, <2>3 DEF AskNew
<1>3. /\ Matched' /\ toChild' \in Seq(CommandLine)
      /\ EndsComing' /\ OnePartial'
      /\ \A E : SomeIn(toChild', E) <=> SomeIn(toChild, E) \/ c \in E
      /\ \A E : OnlyOne(toChild, E) /\ (c \notin E \/ ~SomeIn(toChild, E)) => OnlyOne(toChild', E)
      /\ \A i \in 1..Len(toChild') : toChild'[i] = c \/ (i \in 1..Len(toChild) /\ toChild'[i] = toChild[i])
      /\ Lines' = Lines
  BY <1>1, <1>2, CommandKeeps DEF Inv
<1>4. Typed'
  BY <1>1, <1>3 DEF Inv, Typed, WorkOK, child
<1>5. OneSession'
  <2>1. /\ SomeIn(toChild', AskNew) <=> SomeIn(toChild, AskNew) \/ c \in AskNew
        /\ OnlyOne(toChild, AskNew) /\ (c \notin AskNew \/ ~SomeIn(toChild, AskNew)) => OnlyOne(toChild', AskNew)
    BY <1>3
  <2>2. CASE c = Ask("new")
    <3>1. newSession = "no" /\ "new" \notin left' /\ newSession' = "sent"
      BY <1>1, <2>2 DEF Inv, OneSession
    <3>2. /\ ~SomeIn(toChild, AskNew) /\ ~SomeIn(Lines, AnsweredNew) /\ ~SomeIn(Lines, Rebootstrap)
          /\ work.task # "session"
      BY <3>1 DEF Inv, OneSession
    <3>3. ~SomeIn(Lines, News)
      BY <3>2 DEF SomeIn, News
    <3> QED BY <1>1, <1>3, <2>1, <3>1, <3>2, <3>3 DEF Inv, OneSession
  <2>3. CASE c = Ask("abort")
    <3>1. c \notin AskNew
      BY <1>2, <2>3 DEF Ask, Command
    <3> QED BY <1>1, <1>3, <2>1, <2>3, <3>1 DEF Inv, OneSession
  <2> QED BY <1>1, <2>2, <2>3
<1>6. OfTheNew'
  <2>1. UNCHANGED <<history, prompts, abandoned, messages, work, pc>>
    BY <1>1 DEF child
  <2>2. \A i \in 1..Len(toChild') : toChild'[i].command = "prompt" => i \in 1..Len(toChild)
          /\ toChild'[i] = toChild[i]
    BY <1>2, <1>3
  <2> QED BY <1>3, <2>1, <2>2 DEF Inv, OfTheNew, Clean, Unseen
<1> QED BY <1>3, <1>4, <1>5, <1>6 DEF Inv

-----------------------------------------------------------------------------
(* One prompt at a time                                                    *)

\* No prompt is on its way that was not, nor an answer to one.
CommandsStay ==
  /\ OnlyOne(toChild', PromptCommands)
  /\ \A i \in 1..Len(toChild') : toChild'[i] \in PromptCommands => \E j \in 1..Len(toChild) : toChild'[i] = toChild[j]
AnswersStay ==
  /\ OnlyOne(Lines', PromptAnswers)
  /\ \A i \in 1..Len(Lines') : Lines'[i] \in PromptAnswers => \E j \in 1..Len(Lines) : Lines'[i] = Lines[j]
\* The only prompt.
LEMMA OneCommand ==
  ASSUME OnePrompt, toChild \in Seq(CommandLine), NEW c \in CommandLine, ~SomeIn(toChild, PromptCommands)
  PROVE  /\ OnlyOne(Append(toChild, c), PromptCommands)
         /\ \A i \in 1..Len(Append(toChild, c)) :
              Append(toChild, c)[i] = c \/ (i \in 1..Len(toChild) /\ Append(toChild, c)[i] = toChild[i])
<1>1. \A i \in 1..Len(Append(toChild, c)) :
        Append(toChild, c)[i] = c \/ (i \in 1..Len(toChild) /\ Append(toChild, c)[i] = toChild[i])
  BY OneMore
<1>2. OnlyOne(toChild, PromptCommands) => OnlyOne(Append(toChild, c), PromptCommands)
  BY OneMore
<1> QED BY <1>1, <1>2 DEF OnePrompt
\* Nor does the child see one that it had not.
UnseenNext(p) ==
  /\ p \notin abandoned' /\ (\A i \in 1..Len(prompts') : prompts'[i] # p)
  /\ \A i \in 1..Len(history') : history'[i].of # p
UnseenStay == \A p \in Prompt : Unseen(p) => UnseenNext(p)
\* Then what is known of them stays.
LEMMA PromptsStay ==
  ASSUME OnePrompt, UNCHANGED pc, CommandsStay, AnswersStay, UnseenStay PROVE OnePrompt'
<1>1. (SomeIn(toChild', PromptCommands) => SomeIn(toChild, PromptCommands))
        /\ (SomeIn(Lines', PromptAnswers) => SomeIn(Lines, PromptAnswers))
  BY DEF SomeIn, CommandsStay, AnswersStay
<1>2. \A i \in 1..Len(toChild') : toChild'[i] \in PromptCommands => pc[toChild'[i].of] = "sent"
  BY DEF CommandsStay, OnePrompt
<1>3. ASSUME NEW i \in 1..Len(Lines'), Lines'[i] \in PromptAnswers
      PROVE  pc[Lines'[i].of] = "sent" /\ (Lines'[i].says = "suspended" => UnseenNext(Lines'[i].of))
  <2>1. PICK j \in 1..Len(Lines) : Lines'[i] = Lines[j]
    BY <1>3 DEF AnswersStay
  <2>2. pc[Lines[j].of] = "sent" /\ (Lines[j].says = "suspended" => Unseen(Lines[j].of)) /\ Lines[j].of \in Prompt
    BY <1>3, <2>1 DEF OnePrompt, PromptAnswers, AnswerLine
  <2> QED BY <2>1, <2>2 DEF UnseenStay
<1> QED BY <1>1, <1>2, <1>3 DEF OnePrompt, CommandsStay, AnswersStay, Unseen, UnseenNext

\* Where none is left, there is nothing to know.
LEMMA NoPrompt ==
  ASSUME ~SomeIn(toChild', PromptCommands), ~SomeIn(Lines', PromptAnswers) PROVE OnePrompt'
BY DEF OnePrompt, SomeIn, OnlyOne

\* The commands go one after the other, and what is asked besides is no prompt.
LEMMA CommandsGone == ASSUME Typed, OnePrompt, CommandsGo PROVE CommandsStay
BY CommandsKeep DEF Typed, OnePrompt, CommandsStay
\* A command that is no prompt may come behind.
LEMMA CommandsMore ==
  ASSUME Typed, OnePrompt, NEW c \in CommandLine, c.command # "prompt", toChild' = Append(toChild, c) PROVE CommandsStay
<1>1. c \notin PromptCommands /\ toChild \in Seq(CommandLine)
  BY DEF PromptCommands, Typed
<1>2. /\ OnlyOne(toChild, PromptCommands) => OnlyOne(toChild', PromptCommands)
      /\ \A i \in 1..Len(toChild') : toChild'[i] = c \/ (i \in 1..Len(toChild) /\ toChild'[i] = toChild[i])
  BY <1>1, OneMore
<1> QED BY <1>1, <1>2 DEF OnePrompt, CommandsStay

\* The child sees nothing besides what it saw.
LEMMA NothingSeen ==
  ASSUME NEW X, Sees(X), X \cap Prompt = {}, \A p \in abandoned' : p \in abandoned \/ p \in Seen PROVE UnseenStay
<1> SUFFICES ASSUME NEW p \in Prompt, Unseen(p) PROVE UnseenNext(p)
  BY DEF UnseenStay
<1>1. p \notin Seen
  BY DEF Unseen, Seen
<1>2. p \notin abandoned'
  BY <1>1 DEF Unseen
<1> QED BY <1>1, <1>2 DEF Sees, UnseenNext

\* The child says something that answers no prompt.
LEMMA PromptsTold ==
  ASSUME Inv, OnePrompt, UNCHANGED server, NEW lines \in Seq(Line), fromChild' = fromChild \o lines,
         ~SomeIn(lines, PromptAnswers), CommandsGo, UnseenStay
  PROVE  OnePrompt'
<1>1. Typed /\ records \in Seq(Line) /\ fromChild \in Seq(Line) /\ records' = records /\ pc' = pc
  BY DEF Inv, Typed, Line, server
<1>2. Lines \in Seq(Line) /\ Lines' = Lines \o lines
  BY <1>1, LinesGrow
<1>3. AnswersStay
  BY <1>2, NoneMore DEF OnePrompt, AnswersStay
<1> QED BY <1>1, <1>3, CommandsGone, PromptsStay

\* Records answer no prompt.
LEMMA RecordsTold == ASSUME NEW lines, Tells(lines) PROVE lines \in Seq(Line) /\ ~SomeIn(lines, PromptAnswers)
<1>1. lines \in Seq(RecordLine) /\ lines \in Seq(Line)
  BY DEF Tells
<1>2. \A i \in 1..Len(lines) : lines[i] \notin AnswerLine
  BY <1>1, RecordClasses
<1> QED BY <1>1, <1>2 DEF SomeIn, PromptAnswers

\* The turn goes on.
LEMMA WorksPrompt == ASSUME Inv, OnePrompt, ChildWorks PROVE OnePrompt'
<1>1. Typed /\ UNCHANGED server /\ CommandsGo /\ UNCHANGED abandoned
  BY DEF Inv, ChildWorks, CommandsGo
<1>2. PICK lines : Tells(lines)
  BY <1>1, WorksTells
<1>3. fromChild' = fromChild \o lines
  BY <1>2 DEF Tells
<1>4. {None} \cap Prompt = {}
  BY RpcAssumption
<1>5. UnseenStay
  BY <1>1, <1>4, WorksSees, NothingSeen
<1> QED BY <1>1, <1>2, <1>3, <1>5, RecordsTold, PromptsTold

\* A prompt is read: it was the only one, and its answer is; one that asks for it again leaves it unseen.
LEMMA PromptReadOne ==
  ASSUME Inv, OnePrompt, UNCHANGED server, toChild # <<>>, toChild' = Tail(toChild), ReadsPrompt(Head(toChild))
  PROVE  OnePrompt'
<1> DEFINE c == Head(toChild)
<1>1. /\ c \in CommandLine /\ c = toChild[1] /\ 1 \in 1..Len(toChild) /\ toChild' \in Seq(CommandLine)
      /\ Without(toChild, toChild', 1) /\ Typed /\ toChild \in Seq(CommandLine)
  BY CommandRead DEF Inv, Typed
<1>2. ReadsPrompt(c)
  OBVIOUS
<1> HIDE DEF c
<1>3. c \in PromptCommands /\ UNCHANGED <<history, abandoned>>
  BY <1>1, <1>2 DEF ReadsPrompt, PromptCommands
<1>4. ~SomeIn(toChild', PromptCommands)
  BY <1>1, <1>3, WithoutKeeps DEF OnePrompt
<1>5. pc[c.of] = "sent" /\ Unseen(c.of) /\ ~SomeIn(Lines, PromptAnswers)
  BY <1>1, <1>3 DEF OnePrompt, SomeIn, Inv, OfTheNew, PromptCommands
<1>6. PICK a : Replies(a) /\ a.to = "prompt" /\ a.of = c.of /\ (a.says = "suspended" => prompts' = prompts)
  BY <1>1, <1>2, PromptReplies
<1>7. a \in AnswerLine /\ a \in Line /\ fromChild' = fromChild \o <<a>>
  BY <1>6 DEF Replies, Line
<1>8. records \in Seq(Line) /\ fromChild \in Seq(Line) /\ records' = records /\ pc' = pc
  BY <1>1 DEF Typed, Line, server
<1>9. Lines \in Seq(Line) /\ Lines' = Append(Lines, a)
  <2>1. <<a>> \in Seq(Line)
    BY <1>7
  <2>2. Lines \in Seq(Line) /\ Lines' = Lines \o <<a>>
    BY <1>7, <1>8, <2>1, LinesGrow
  <2> QED BY <1>7, <2>2, OneMore
<1>10. OnlyOne(Lines', PromptAnswers) /\ \A i \in 1..Len(Lines') : Lines'[i] = a \/ Lines'[i] \notin PromptAnswers
  <2>1. \A i \in 1..Len(Lines') : Lines'[i] = a \/ (i \in 1..Len(Lines) /\ Lines'[i] = Lines[i])
    BY <1>7, <1>9, OneMore
  <2>2. OnlyOne(Lines, PromptAnswers)
    BY DEF OnePrompt
  <2> QED BY <1>5, <1>7, <1>9, <2>1, <2>2, OneMore DEF SomeIn
<1>11. a.says = "suspended" => UnseenNext(c.of)
  BY <1>3, <1>5, <1>6 DEF Unseen, UnseenNext
<1>12. \A i \in 1..Len(Lines') : Lines'[i] \in PromptAnswers =>
         pc'[Lines'[i].of] = "sent" /\ (Lines'[i].says = "suspended" => UnseenNext(Lines'[i].of))
  BY <1>5, <1>6, <1>8, <1>10, <1>11
<1> QED BY <1>4, <1>10, <1>12 DEF OnePrompt, SomeIn, OnlyOne, Unseen, UnseenNext

\* A question, an abort and a new session are no prompts, and are answered.
LEMMA OthersReadOne ==
  ASSUME Inv, OnePrompt, UNCHANGED server, toChild # <<>>, toChild' = Tail(toChild),
         ReadsQuestion(Head(toChild)) \/ ReadsNew(Head(toChild)) \/ ReadsAbort(Head(toChild))
  PROVE  OnePrompt'
<1> DEFINE c == Head(toChild)
<1>1. c \in CommandLine /\ CommandsGo /\ Typed
  BY CommandRead DEF Inv
<1>2. \A a \in AnswerLine : a.to # "prompt" =>
        <<a>> \in Seq(Line) /\ a \in Line /\ ~SomeIn(<<a>>, PromptAnswers)
  BY OneLine DEF PromptAnswers, Line
<1> HIDE DEF c
<1>3. CASE ReadsQuestion(c)
  <2>1. c \in Asking /\ \E a : Replies(a) /\ a.to = c.command
    BY <1>1, <1>3, QuestionReplies
  <2>2. PICK a : Replies(a) /\ a.to = c.command
    BY <2>1
  <2>3. a \in AnswerLine /\ a.to # "prompt" /\ fromChild' = fromChild \o <<a>>
    BY <2>1, <2>2 DEF Replies, Asking, Questions
  <2>4. UnseenStay
    BY <1>3 DEF ReadsQuestion, child, UnseenStay, Unseen, UnseenNext
  <2> QED BY <1>1, <1>2, <2>3, <2>4, PromptsTold
<1>4. CASE ReadsAbort(c)
  <2>1. Sees({}) /\ \E lines : Tells(lines)
    BY <1>1, <1>4, AbortSays
  <2>2. PICK lines : Tells(lines)
    BY <2>1
  <2>3. abandoned' = abandoned /\ {} \cap Prompt = {}
    BY <1>4 DEF ReadsAbort
  <2>4. UnseenStay
    BY <2>1, <2>3, NothingSeen
  <2>5. fromChild' = fromChild \o lines
    BY <2>2 DEF Tells
  <2> QED BY <1>1, <2>2, <2>4, <2>5, RecordsTold, PromptsTold
<1>5. CASE ReadsNew(c)
  <2>1. PICK lines, a : /\ lines \in Seq(RecordLine) /\ lines \in Seq(Line) /\ a \in AnswerLine /\ a.to = "new"
                        /\ fromChild' = fromChild \o (lines \o <<a>>)
    BY <1>1, <1>5, NewReplies
  <2>2. ~SomeIn(lines, PromptAnswers)
    <3>1. \A i \in 1..Len(lines) : lines[i] \notin AnswerLine
      BY <2>1, RecordClasses
    <3> QED BY <3>1 DEF SomeIn, PromptAnswers
  <2>3. lines \o <<a>> \in Seq(Line) /\ ~SomeIn(lines \o <<a>>, PromptAnswers)
    BY <1>2, <2>1, <2>2, EmitSome
  <2>4. UnseenStay
    <3>1. CASE UNCHANGED child
      BY <3>1 DEF child, UnseenStay, Unseen, UnseenNext
    <3>2. CASE /\ history' = <<>> /\ prompts' = <<>>
               /\ abandoned' = {m.of : m \in {n \in ToSet(history) : n.of # None}} \cup ToSet(prompts)
      <4>1. Sees({})
        BY <3>2 DEF Sees
      <4>2. prompts \in Seq(Prompt) /\ history \in Seq(Spoken)
        BY <1>1 DEF Typed
      <4>3. DOMAIN prompts = 1..Len(prompts) /\ DOMAIN history = 1..Len(history)
        BY <4>2
      <4>4. \A p \in abandoned' : p \in Seen
        BY <3>2, <4>3 DEF Seen, ToSet
      <4>5. {} \cap Prompt = {}
        OBVIOUS
      <4> QED BY <4>1, <4>4, <4>5, NothingSeen
    <3> QED BY <1>5, <3>1, <3>2 DEF ReadsNew
  <2> QED BY <1>1, <2>1, <2>3, <2>4, PromptsTold
<1> QED BY <1>3, <1>4, <1>5 DEF c

\* A line is read: a record keeps its place, and an answer goes.
LEMMA LineReadOne == ASSUME Inv, OnePrompt, ReadLine PROVE OnePrompt'
<1>1. /\ fromChild # <<>> /\ fromChild' = Tail(fromChild) /\ UNCHANGED <<completionEvent, child, left>>
      /\ Typed /\ records \in Seq(Line) /\ fromChild \in Seq(Line) /\ toChild \in Seq(CommandLine)
  BY DEF ReadLine, Inv, Typed, Line
<1>2. Head(fromChild) \in Line
  BY <1>1, HeadGoes
<1>3. UnseenStay
  BY <1>1 DEF UnseenStay, Unseen, UnseenNext, child
<1>4. toChild' = toChild => CommandsStay
  BY <1>1, CommandsGone DEF CommandsGo
<1>5. \A q \in Questions : toChild' = Append(toChild, Ask(q)) => CommandsStay
  <2> TAKE q \in Questions
  <2>1. Ask(q) \in CommandLine /\ Ask(q).command # "prompt"
    BY DEF Ask, Command, CommandLine, Questions
  <2> QED BY <1>1, <2>1, CommandsMore
<1>6. CASE Head(fromChild).kind # "answer"
  <2>1. records' = Append(records, Head(fromChild)) /\ pc' = pc /\ toChild' = toChild
    BY <1>6 DEF ReadLine
  <2>2. Lines' = Lines
    BY <1>1, <2>1, LinesStay
  <2>3. AnswersStay
    BY <2>2 DEF AnswersStay, OnePrompt
  <2> QED BY <1>3, <1>4, <2>1, <2>3, PromptsStay
<1>7. CASE Head(fromChild).kind = "answer"
  <2> DEFINE l == Head(fromChild)
  <2>1. AnswerRead /\ l \in AnswerLine
    BY <1>1, <1>2, <1>7, RecordClasses DEF AnswerRead, Line, RecordKinds
  <2>2. Accepted(l) \/ Resent(l) \/ SessionAnswered(l) \/ StateAnswered(l) \/ MessagesAnswered(l) \/ RestAnswered(l)
    BY <1>7 DEF ReadLine
  <2>3. records' = records => AnswersStay
    BY <2>1, AnswerWithout DEF AnswersStay, OnePrompt
  <2> HIDE DEF l
  <2>4. CASE Accepted(l)
    <3>1. l.to = "prompt" /\ records' = records /\ toChild' = toChild
      BY <2>4 DEF Accepted
    <3> QED BY <2>1, <3>1, PromptAnswered, NoPrompt DEF l
  <2>5. CASE Resent(l)
    <3>1. l.to = "prompt" /\ l.says = "suspended" /\ records' = records
      BY <2>5 DEF Resent
    <3>2. ~SomeIn(Lines', PromptAnswers) /\ ~SomeIn(toChild, PromptCommands) /\ l.of \in Prompt /\ pc[l.of] = "sent"
      BY <2>1, <3>1, PromptAnswered DEF l
    <3>3. CASE toChild' = toChild
      BY <3>2, <3>3, NoPrompt
    <3>4. CASE toChild' # toChild
      <4> DEFINE c == Command("prompt", l.of, TRUE)
      <4>1. toChild' = Append(toChild, c) /\ pc' = pc
        BY <2>5, <3>4 DEF Resent, Sends
      <4>2. c \in CommandLine /\ c.of = l.of
        BY <3>2 DEF Command, CommandLine
      <4> HIDE DEF c
      <4>3. /\ OnlyOne(toChild', PromptCommands)
            /\ \A i \in 1..Len(toChild') : toChild'[i] = c \/ (i \in 1..Len(toChild) /\ toChild'[i] = toChild[i])
        BY <1>1, <3>2, <4>1, <4>2, OneCommand
      <4>4. \A i \in 1..Len(toChild') : toChild'[i] \in PromptCommands => pc'[toChild'[i].of] = "sent"
        BY <3>2, <4>1, <4>2, <4>3 DEF SomeIn
      <4> QED BY <3>2, <4>3, <4>4 DEF OnePrompt, SomeIn, OnlyOne
    <3> QED BY <3>3, <3>4
  <2>6. CASE SessionAnswered(l)
    <3>1. /\ l.to = "new" /\ pc' = pc /\ toChild' = toChild
          /\ records' = records \/ records' = Append(records, Record("rebootstrap"))
      BY <2>6 DEF SessionAnswered
    <3>2. CASE records' = Append(records, Record("rebootstrap"))
      <4> DEFINE r == Record("rebootstrap")
                 k == Len(records) + 1
      <4>1. r \in Line /\ r \notin PromptAnswers
        BY RecordTyped, RecordClasses DEF RecordKinds, PromptAnswers
      <4> HIDE DEF r
      <4>2. Lines \in Seq(Line) /\ Lines' \in Seq(Line) /\ Instead(Lines, Lines', k) /\ Lines'[k] = r
        BY <1>1, <3>2, <4>1, AnswerChanges DEF r
      <4> HIDE DEF k
      <4>3. OnlyOne(Lines', PromptAnswers)
        BY <4>1, <4>2, InsteadKeeps DEF OnePrompt
      <4>4. \A i \in 1..Len(Lines') : Lines'[i] \in PromptAnswers => i \in 1..Len(Lines) /\ Lines'[i] = Lines[i]
        BY <4>1, <4>2 DEF Instead
      <4>5. AnswersStay
        BY <4>3, <4>4 DEF AnswersStay
      <4> QED BY <1>3, <1>4, <3>1, <4>5, PromptsStay
    <3> QED BY <1>3, <1>4, <2>3, <3>1, <3>2, PromptsStay
  <2>7. CASE StateAnswered(l)
    <3>1. pc' = pc /\ records' = records /\ toChild' = Append(toChild, Ask("messages"))
      BY <2>7 DEF StateAnswered, Asks, Sends
    <3> QED BY <1>3, <1>5, <2>3, <3>1, PromptsStay DEF Questions
  <2>8. CASE MessagesAnswered(l)
    <3>1. pc' = pc /\ records' = records /\ toChild' = Append(toChild, Ask("rest"))
      BY <2>8 DEF MessagesAnswered, Asks, Sends
    <3> QED BY <1>3, <1>5, <2>3, <3>1, PromptsStay DEF Questions
  <2>9. CASE RestAnswered(l)
    <3>1. pc' = pc /\ records' = records /\ toChild' = toChild
      BY <2>9 DEF RestAnswered
    <3> QED BY <1>3, <1>4, <2>3, <3>1, PromptsStay
  <2> QED BY <2>2, <2>4, <2>5, <2>6, <2>7, <2>8, <2>9
<1> QED BY <1>6, <1>7

\* A record is handled: it answered nothing, and the child is asked at most for its history.
LEMMA HandleOne == ASSUME Inv, OnePrompt, HandleRecord PROVE OnePrompt'
<1>1. RecordTaken /\ Handles(Head(records))
  BY DEF HandleRecord, RecordTaken
<1>2. /\ Typed /\ \A i \in 1..Len(Lines') : \E j \in 1..Len(Lines) : Lines'[i] = Lines[j]
      /\ \A E : OnlyOne(Lines, E) => OnlyOne(Lines', E)
  BY <1>1, TakenFacts
<1>3. AnswersStay
  BY <1>2 DEF AnswersStay, OnePrompt
<1>4. UnseenStay /\ pc' = pc
  BY <1>1 DEF RecordTaken, UnseenStay, Unseen, UnseenNext, child
<1>5. toChild' = toChild \/ \E q \in {"state", "messages"} : toChild' = Append(toChild, Ask(q))
  <2>1. Head(records).kind \in RecordKinds
    BY <1>1, TakenFacts, RecordClasses
  <2> QED BY <1>1, <2>1 DEF Handles, RecordKinds, CompleteTurn, Runs, Ignored, MessageStart, MessageEnd, Asks, Sends
<1>6. CommandsStay
  <2>1. CASE toChild' = toChild
    BY <1>2, <2>1, CommandsGone DEF CommandsGo
  <2>2. ASSUME NEW q \in {"state", "messages"}, toChild' = Append(toChild, Ask(q)) PROVE CommandsStay
    <3>1. Ask(q) \in CommandLine /\ Ask(q).command # "prompt"
      BY DEF Ask, Command, CommandLine, Questions
    <3> QED BY <1>2, <2>2, <3>1, CommandsMore
  <2> QED BY <1>5, <2>1, <2>2
<1> QED BY <1>3, <1>4, <1>6, PromptsStay

\* A prompt is sent where none is unanswered.
LEMMA SendOne == ASSUME Inv, OnePrompt, NEW p \in Prompt, SendPrompt(p) PROVE OnePrompt'
<1>1. Typed /\ toChild \in Seq(CommandLine) /\ streaming \in BOOLEAN
        /\ pc \in [Prompt -> {"new", "sent", "accepted", "refused"}]
  BY DEF Inv, Typed
<1>2. Lines' = Lines /\ (\A q \in Prompt : pc[q] # "sent")
  BY DEF SendPrompt, Lines
<1>3. ~SomeIn(toChild, PromptCommands) /\ ~SomeIn(Lines, PromptAnswers)
  <2>1. \A i \in 1..Len(toChild) : toChild[i] \notin PromptCommands
    BY <1>2 DEF OnePrompt, PromptCommands, CommandLine
  <2>2. \A i \in 1..Len(Lines) : Lines[i] \notin PromptAnswers
    BY <1>2 DEF OnePrompt, PromptAnswers, AnswerLine
  <2> QED BY <2>1, <2>2 DEF SomeIn
<1>4. CASE failed
  <2>1. toChild' = toChild
    BY <1>4 DEF SendPrompt
  <2> QED BY <1>2, <1>3, <2>1, NoPrompt
<1>5. CASE ~failed
  <2> DEFINE c == Command("prompt", p, streaming)
  <2>1. toChild' = Append(toChild, c) /\ pc'[p] = "sent"
    BY <1>1, <1>5 DEF SendPrompt, Sends
  <2>2. c \in CommandLine /\ c.of = p
    BY <1>1 DEF Command, CommandLine
  <2> HIDE DEF c
  <2>3. /\ OnlyOne(toChild', PromptCommands)
        /\ \A i \in 1..Len(toChild') : toChild'[i] = c \/ (i \in 1..Len(toChild) /\ toChild'[i] = toChild[i])
    BY <1>1, <1>3, <2>1, <2>2, OneCommand
  <2>4. \A i \in 1..Len(toChild') : toChild'[i] \in PromptCommands => pc'[toChild'[i].of] = "sent"
    BY <1>3, <2>1, <2>2, <2>3 DEF SomeIn
  <2> QED BY <1>2, <1>3, <2>3, <2>4 DEF OnePrompt, SomeIn, OnlyOne
<1> QED BY <1>4, <1>5

\* A new session and an abort are asked for.
LEMMA AskOne == ASSUME Inv, OnePrompt, AskNewSession \/ Abort PROVE OnePrompt'
<1>1. PICK q \in {"new", "abort"} : toChild' = Append(toChild, Ask(q))
  BY DEF AskNewSession, Abort, Sends
<1>2. UNCHANGED <<pc, history, prompts, abandoned>> /\ Lines' = Lines
  BY DEF AskNewSession, Abort, server, child, Lines
<1>3. Ask(q) \in CommandLine /\ Ask(q).command # "prompt" /\ Typed
  BY DEF Ask, Command, CommandLine, Inv
<1>4. CommandsStay
  BY <1>1, <1>3, CommandsMore
<1>5. AnswersStay /\ UnseenStay
  BY <1>2 DEF AnswersStay, OnePrompt, UnseenStay, Unseen, UnseenNext
<1> QED BY <1>2, <1>4, <1>5, PromptsStay

\* Every step keeps it.
LEMMA NextOne == ASSUME Inv, OnePrompt, [Next]_vars PROVE OnePrompt'
<1>1. CASE UNCHANGED vars
  <2>1. UNCHANGED <<pc, toChild, records, fromChild, history, prompts, abandoned>>
    BY <1>1 DEF vars, server, child
  <2>2. Lines' = Lines
    BY <2>1 DEF Lines
  <2> QED BY <2>1, <2>2 DEF OnePrompt, Unseen
<1>2. CASE Terminating
  BY <1>1, <1>2 DEF Terminating
<1>3. CASE ChildReads
  BY <1>3, PromptReadOne, OthersReadOne DEF ChildReads
<1>4. ASSUME NEW p \in Prompt, SendPrompt(p) PROVE OnePrompt'
  BY <1>4, SendOne
<1> QED BY <1>1, <1>2, <1>3, <1>4, WorksPrompt, LineReadOne, HandleOne, AskOne DEF Next

-----------------------------------------------------------------------------
(* The theorems                                                            *)

\* At first nothing is said or known.
LEMMA InitInv == Init => Inv
<1> SUFFICES ASSUME Init PROVE Inv
  OBVIOUS
<1>1. Pools \subseteq SUBSET Extras
  BY RpcAssumption
<1>2. toChild = <<>> /\ fromChild = <<>> /\ records = <<>> /\ messages = <<>> /\ history = <<>> /\ prompts = <<>>
  BY DEF Init
<1>3. Lines = <<>>
  BY <1>2 DEF Lines
<1>4. work.task = "none" /\ work.waits = "none" /\ work \in Tasks
  BY DEF Init, Tasks
<1>5. Typed
  <2>1. /\ messages \in Seq(Message) /\ history \in Seq(Spoken) /\ prompts \in Seq(Prompt)
        /\ toChild \in Seq(CommandLine) /\ fromChild \in Seq(Line) /\ records \in Seq(RecordLine)
    BY <1>2
  <2>2. WorkOK
    BY <1>4 DEF WorkOK
  <2> QED BY <1>1, <2>1, <2>2 DEF Init, Typed
<1>6. \A E : ~SomeIn(<<>>, E) /\ OnlyOne(<<>>, E)
  BY DEF SomeIn, OnlyOne
<1>7. Matched /\ OneSession
  BY <1>2, <1>3, <1>4, <1>6 DEF Init, Matched, OneSession
<1>8. \A S, E, B : Followed(<<>>, S, E) /\ Barred(<<>>, S, E, B)
  BY DEF Followed, Barred
<1>9. EndsComing
  BY <1>3, <1>8 DEF Init, EndsComing, EndsAt
<1>10. OnePartial
  BY <1>2, <1>3, <1>8 DEF OnePartial, PartialAt, HasPartial
<1>11. OfTheNew
  BY <1>2, <1>4 DEF Init, OfTheNew, Clean, Unseen
<1> QED BY <1>5, <1>7, <1>9, <1>10, <1>11 DEF Inv

\* Nothing changes.
LEMMA StutterKeeps == ASSUME Inv, UNCHANGED vars PROVE Inv'
<1>1. UNCHANGED <<completionEvent, streaming, messages, records, work, failed, told, misled, pc, newSession, toChild, fromChild,
                  history, turn, prompts, suspended, abandoned, left>>
  BY DEF vars, server, child
<1>2. Lines' = Lines /\ Ends' = Ends /\ PartialEnds' = PartialEnds /\ HasPartial' = HasPartial
        /\ Replacing' = Replacing
  BY <1>1 DEF Lines, Ends, PartialEnds, HasPartial, Replacing
<1>3. Typed' /\ Matched' /\ OneSession'
  BY <1>1, <1>2 DEF Inv, Typed, WorkOK, Matched, OneSession
<1>4. EndsComing' /\ OnePartial' /\ OfTheNew'
  BY <1>1, <1>2 DEF Inv, EndsComing, EndsAt, OnePartial, PartialAt, OfTheNew, Clean, Unseen
<1> QED BY <1>3, <1>4 DEF Inv

\* Every step keeps what is known.
LEMMA NextInv == ASSUME Inv, OnePrompt, [Next]_vars PROVE Inv' /\ OnePrompt'
<1>1. ASSUME NEW p \in Prompt, SendPrompt(p) PROVE Inv'
  BY <1>1, SendKeeps
<1>2. Terminating => UNCHANGED vars
  BY DEF Terminating
<1>3. Inv'
  BY <1>1, <1>2, ReadsKeep, WorksKeep, LineReadKeeps, HandleKeeps, AskKeeps, StutterKeeps DEF Next
<1> QED BY <1>3, NextOne

\* So it is known in every state.
LEMMA InvAlways == Spec => []Inv
<1>1. Init => Inv /\ OnePrompt
  <2>1. Init => toChild = <<>> /\ Lines = <<>>
    BY DEF Init, Lines
  <2> QED BY <2>1, InitInv DEF OnePrompt, SomeIn, OnlyOne
<1>2. (Inv /\ OnePrompt) /\ [Next]_vars => (Inv /\ OnePrompt)'
  BY NextInv
<1> QED BY <1>1, <1>2, PTL DEF Spec

\* At most one position of the messages is in a set of positions: it has at most one element.
LEMMA AtMostOne ==
  ASSUME NEW S, \A i, j \in S : i = j PROVE IsFiniteSet(S) /\ Cardinality(S) <= 1
<1>1. CASE S = {}
  BY <1>1, FS_EmptySet
<1>2. CASE S # {}
  <2>1. PICK i \in S : TRUE
    BY <1>2
  <2>2. S = {i}
    BY <2>1
  <2>3. IsFiniteSet({i}) /\ Cardinality({i}) = 1
    BY FS_Singleton
  <2> QED BY <2>2, <2>3
<1> QED BY <1>1, <1>2

\* Every state of the runtime is well typed, and the mirror has at most one message that is being
\* assembled: a reply's end, a turn's end or the refresh takes it away before the next reply
\* starts (server/src/rpcRuntime.ts:573-592).
THEOREM RpcTypeCorrect == Spec => []TypeOK
<1>1. Inv => TypeOK
  <2> SUFFICES ASSUME Inv PROVE TypeOK
    OBVIOUS
  <2>1. Typed
    BY DEF Inv
  <2> DEFINE S == {i \in DOMAIN messages : messages[i] = Partial}
  <2>2. \A i, j \in S : i = j
    BY <2>1, SMTT(30) DEF Inv, OnePartial, PartialAt, Typed
  <2>3. Cardinality(S) <= 1
    <3> HIDE DEF S
    <3> QED BY <2>2, AtMostOne
  <2>4. history \in Seq(Message)
    <3>1. Spoken \subseteq Message
      BY DEF Spoken
    <3> QED BY <2>1, <3>1 DEF Typed
  <2>5. work \in [task : {"none", "turn", "compaction", "session"}, waits : {"none", "state", "messages", "rest"}]
    BY <2>1 DEF Typed, WorkOK, Tasks, Questions
  <2>6. turn \in {"asking", "replying", "waiting"} => prompts # <<>>
    BY <2>1 DEF Typed
  <2> HIDE DEF S
  <2>7. Cardinality({i \in DOMAIN messages : messages[i] = Partial}) <= 1
    BY <2>3 DEF S
  <2> QED BY <2>1, <2>4, <2>5, <2>6, <2>7 DEF Typed, TypeOK
<1> QED BY <1>1, InvAlways, PTL

\* Once nothing is on its way, the browsers are told that no agent runs, and the next prompt goes
\* as no steer, whether agent_settled or agent_end ends a turn (server/src/rpcRuntime.ts:462, 502,
\* 729), unless since the last turn was completed an extension's command was accepted by an answer
\* without a disposition (server/src/rpcRuntime.ts:732, 942): every line that has the server say a
\* turn runs, but for such an answer, has the end of that turn behind it.
THEOREM IdleIsTold == Spec => []IdleAtRest
<1>1. Inv => IdleAtRest
  <2> SUFFICES ASSUME Inv, AtRest PROVE misled \/ (~told /\ ~streaming)
    BY DEF IdleAtRest
  <2>1. Lines = <<>> /\ turn = "idle" /\ work.task = "none"
    BY DEF AtRest, Lines, Done
  <2>2. ~SomeIn(Lines, Ends)
    BY <2>1 DEF SomeIn
  <2> QED BY <2>1, <2>2 DEF Inv, EndsComing, EndsAt, Typed
<1> QED BY <1>1, InvAlways, PTL

\* A new session is announced with nothing of the conversation it replaced
\* (server/src/rpcRuntime.ts:322-332): the messages that are announced were answered after the
\* child had left the old one, for its refresh has a place of its own in the queue.
THEOREM NewSessionIsItsOwn == Spec => AnnouncedIsTheNew
<1> DEFINE Announces == newSession = "rebooting" /\ newSession' = "over" /\ ~failed' =>
                          \A m \in ToSet(messages') : m.of \notin abandoned
<1>1. ASSUME Inv, [Next]_vars PROVE Announces
  <2> SUFFICES ASSUME newSession = "rebooting", newSession' = "over" PROVE \A m \in ToSet(messages') : m.of \notin abandoned
    OBVIOUS
  <2>1. newSession' # newSession
    OBVIOUS
  <2>2. ReadLine
    BY <1>1, <2>1
      DEF Next, ChildReads, ChildWorks, HandleRecord, AskNewSession, Abort, SendPrompt, Terminating, vars,
          server
  <2>3. fromChild # <<>> /\ Head(fromChild) \in Line
    BY <1>1, <2>2, HeadGoes DEF ReadLine, Inv, Typed
  <2>4. CASE Head(fromChild).kind # "answer"
    BY <2>1, <2>2, <2>4 DEF ReadLine
  <2>5. CASE Head(fromChild).kind = "answer"
    <3> DEFINE l == Head(fromChild)
    <3>1. AnswerRead
      BY <2>2, <2>3, <2>5, RecordClasses DEF AnswerRead, ReadLine, Line, RecordKinds
    <3>2. SessionAnswered(l) \/ RestAnswered(l)
      BY <2>1, <2>2, <2>5 DEF ReadLine, Accepted, Resent, StateAnswered, MessagesAnswered
    <3>3. Lines[Len(records) + 1] = l /\ Len(records) + 1 \in 1..Len(Lines)
      BY <1>1, <3>1, AnswerFacts
    <3>4. ~SessionAnswered(l)
      <4>1. SUFFICES ASSUME SessionAnswered(l) PROVE FALSE
        OBVIOUS
      <4>2. l \in AnsweredNew
        BY <3>1, <4>1 DEF SessionAnswered, AnsweredNew, AnswerRead
      <4>3. SomeIn(Lines, AnsweredNew)
        BY <3>3, <4>2 DEF SomeIn
      <4> QED BY <1>1, <4>3 DEF Inv, OneSession
    <3>5. work.task = "session" /\ messages' = messages /\ records' = records /\ l.to = "rest"
      BY <2>1, <3>2, <3>4 DEF RestAnswered
    <3>6. work.waits = "rest"
      BY <1>1, <3>1, <3>5, QuestionAnswered DEF Questions
    <3>7. Clean(messages) /\ messages \in Seq(Message)
      BY <1>1, <3>5, <3>6 DEF Inv, OfTheNew, Typed
    <3> QED BY <3>5, <3>7 DEF Clean, ToSet
  <2> QED BY <2>4, <2>5
<1>2. Inv /\ [Next]_vars => [Announces]_vars
  BY <1>1
<1>3. Spec => [][Announces]_vars
  BY <1>2, InvAlways, PTL DEF Spec
<1> QED BY <1>3 DEF AnnouncedIsTheNew

-----------------------------------------------------------------------------
(* The prompts and replies in a sequence of messages                      *)

\* A set of natural numbers that is not empty has a least element.
LEMMA Least ==
  ASSUME NEW T \in SUBSET Nat, T # {}
  PROVE  \E n \in T : \A k \in T : n <= k
<1> DEFINE R == OpToRel(<, Nat)
<1>1. PICK n \in T : \A k \in T : <<k, n>> \notin R
  <2>1. IsWellFoundedOn(R, Nat)
    BY NatLessThanWellFounded
  <2> HIDE DEF R
  <2> QED BY <2>1, WFMin
<1>2. \A k \in T : ~(k < n)
  BY <1>1 DEF OpToRel
<1> HIDE DEF R
<1> QED BY <1>2

\* Induction on the natural numbers, stated of a set: the library states it of an operator.
LEMMA FromZero ==
  ASSUME NEW S, 0 \in S, \A n \in Nat : n \in S => n + 1 \in S
  PROVE  Nat \subseteq S
<1> DEFINE T == Nat \ S
<1> SUFFICES ASSUME T # {} PROVE FALSE
  OBVIOUS
<1>1. PICK n \in T : \A k \in T : n <= k
  BY Least
<1>2. n \in Nat /\ n # 0 /\ n - 1 \in Nat /\ ~(n <= n - 1) /\ (n - 1) + 1 = n
  BY <1>1
<1>3. n - 1 \in T
  BY <1>1, <1>2
<1> QED BY <1>1, <1>2, <1>3

\* The greatest number of a set that has its bound.
LEMMA MaxOf ==
  ASSUME NEW n \in Nat, NEW t \in SUBSET (1..n), n \in t
  PROVE  Max(t) = n
<1>1. \A x \in t : n >= x
  OBVIOUS
<1>2. \A x \in t : (\A y \in t : x >= y) => x = n
  BY <1>1
<1> QED BY <1>1, <1>2 DEF Max

\* f keeps the written among the messages of s at the places of a set: the function FoldLeft chooses.
KeepsTo(f, s, S) ==
  f = [t \in SUBSET S |-> IF t = {} THEN <<>> ELSE Keeps(f[t \ {Max(t)}], s[Max(t)])]

\* There is such a function, for as many messages as one likes.
LEMMA KeptExists ==
  ASSUME NEW s
  PROVE  \A n \in Nat : \E f : KeepsTo(f, s, 1..n)
<1> DEFINE S == {n \in Nat : \E f : KeepsTo(f, s, 1..n)}
<1>1. 0 \in S
  <2> DEFINE f == [t \in SUBSET (1..0) |-> <<>>]
  <2>1. 1..0 = {} /\ \A t \in SUBSET (1..0) : t = {}
    OBVIOUS
  <2>2. KeepsTo(f, s, 1..0)
    BY <2>1 DEF KeepsTo
  <2> QED BY <2>2
<1>2. ASSUME NEW n \in Nat, n \in S PROVE n + 1 \in S
  <2>1. PICK f : KeepsTo(f, s, 1..n)
    BY <1>2
  <2> DEFINE m == n + 1
             g == [t \in SUBSET (1..m) |->
                     IF m \in t THEN Keeps(f[t \ {m}], s[m]) ELSE f[t]]
             h == [t \in SUBSET (1..m) |->
                     IF t = {} THEN <<>> ELSE Keeps(g[t \ {Max(t)}], s[Max(t)])]
  <2>2. ASSUME NEW t \in SUBSET (1..m) PROVE g[t] = h[t]
    <3>1. CASE m \in t
      <4>1. Max(t) = m /\ t # {} /\ m \in Nat
        BY <3>1, MaxOf
      <4>2. t \ {m} \in SUBSET (1..m) /\ m \notin t \ {m}
        OBVIOUS
      <4>3. g[t \ {m}] = f[t \ {m}]
        BY <4>2
      <4> QED BY <3>1, <4>1, <4>3
    <3>2. CASE m \notin t
      <4>1. t \in SUBSET (1..n)
        BY <3>2
      <4>2. g[t] = f[t]
        BY <3>2
      <4>3. CASE t = {}
        BY <2>1, <4>1, <4>2, <4>3 DEF KeepsTo
      <4>4. CASE t # {}
        <5>1. f[t] = Keeps(f[t \ {Max(t)}], s[Max(t)])
          BY <2>1, <4>1, <4>4 DEF KeepsTo
        <5>2. t \ {Max(t)} \in SUBSET (1..m) /\ m \notin t \ {Max(t)}
          BY <3>2
        <5>3. g[t \ {Max(t)}] = f[t \ {Max(t)}]
          BY <5>2
        <5> QED BY <4>2, <4>4, <5>1, <5>3
      <4> QED BY <4>3, <4>4
    <3> QED BY <3>1, <3>2
  <2>3. g = h
    BY <2>2
  <2>4. KeepsTo(g, s, 1..m)
    BY <2>3 DEF KeepsTo
  <2> HIDE DEF g
  <2> QED BY <2>4
<1> HIDE DEF S
<1>3. Nat \subseteq S
  BY <1>1, <1>2, FromZero
<1> QED BY <1>3 DEF S

\* What is kept of the first messages, one after the other.
LEMMA KeptStep ==
  ASSUME NEW s, NEW n \in Nat, NEW f, KeepsTo(f, s, 1..n), NEW i \in Nat, i + 1 <= n
  PROVE  f[1..(i + 1)] = Keeps(f[1..i], s[i + 1])
<1>1. Max(1..(i + 1)) = i + 1
  BY MaxOf
<1>2. 1..(i + 1) \in SUBSET (1..n) /\ 1..(i + 1) # {}
  <2>1. i + 1 \in 1..(i + 1) /\ \A j \in 1..(i + 1) : j \in 1..n
    OBVIOUS
  <2> QED BY <2>1
<1>3. (1..(i + 1)) \ {i + 1} = 1..i
  OBVIOUS
<1> QED BY <1>1, <1>2, <1>3 DEF KeepsTo

\* The written messages of a sequence are what such a function keeps of all of it.
LEMMA WrittenIsKept ==
  ASSUME NEW T, NEW s \in Seq(T)
  PROVE  \E f : KeepsTo(f, s, 1..Len(s)) /\ WrittenIn(s) = f[1..Len(s)]
<1> DEFINE f == CHOOSE f : KeepsTo(f, s, 1..Len(s))
<1>1. DOMAIN s = 1..Len(s) /\ Len(s) \in Nat
  OBVIOUS
<1>2. WrittenIn(s) = f[1..Len(s)]
  BY <1>1 DEF WrittenIn, FoldLeft, MapThenFoldSet, KeepsTo
<1>3. KeepsTo(f, s, 1..Len(s))
  BY <1>1, KeptExists
<1> HIDE DEF f
<1> QED BY <1>2, <1>3

\* A message that an extension put there is not among the written ones.
LEMMA WrittenStays ==
  ASSUME NEW T, NEW s \in Seq(T), NEW m \in T, ~Written(m)
  PROVE  WrittenIn(Append(s, m)) = WrittenIn(s)
<1> DEFINE l == Append(s, m)
<1>1. /\ l \in Seq(T) /\ Len(l) = Len(s) + 1 /\ Len(s) \in Nat /\ l[Len(s) + 1] = m
      /\ \A i \in 1..Len(s) : l[i] = s[i]
  OBVIOUS
<1> HIDE DEF l
<1>2. PICK n \in Nat : n = Len(s)
  BY <1>1
<1>3. PICK f : KeepsTo(f, s, 1..n) /\ WrittenIn(s) = f[1..n]
  BY <1>2, WrittenIsKept
<1>4. PICK g : KeepsTo(g, l, 1..(n + 1)) /\ WrittenIn(l) = g[1..(n + 1)]
  BY <1>1, <1>2, WrittenIsKept
<1> DEFINE S == {i \in Nat : i <= n => f[1..i] = g[1..i]}
<1>5. 0 \in S
  <2>1. 1..0 = {} /\ {} \in SUBSET (1..n) /\ {} \in SUBSET (1..(n + 1))
    OBVIOUS
  <2>2. f[{}] = <<>> /\ g[{}] = <<>>
    BY <1>3, <1>4, <2>1 DEF KeepsTo
  <2> QED BY <2>1, <2>2
<1>6. ASSUME NEW i \in Nat, i \in S PROVE i + 1 \in S
  <2> SUFFICES ASSUME i + 1 <= n PROVE f[1..(i + 1)] = g[1..(i + 1)]
    OBVIOUS
  <2>1. f[1..(i + 1)] = Keeps(f[1..i], s[i + 1])
    BY <1>3, KeptStep
  <2>2. g[1..(i + 1)] = Keeps(g[1..i], l[i + 1])
    <3>1. i + 1 <= n + 1 /\ n + 1 \in Nat
      OBVIOUS
    <3> QED BY <1>4, <3>1, KeptStep
  <2>3. l[i + 1] = s[i + 1] /\ f[1..i] = g[1..i]
    <3>1. i + 1 \in 1..n /\ i <= n
      OBVIOUS
    <3> QED BY <1>1, <1>2, <1>6, <3>1
  <2> QED BY <2>1, <2>2, <2>3
<1> HIDE DEF S
<1>7. Nat \subseteq S
  BY <1>5, <1>6, FromZero
<1>8. f[1..n] = g[1..n]
  BY <1>7 DEF S
<1>9. g[1..(n + 1)] = Keeps(g[1..n], l[n + 1])
  <2>1. n + 1 <= n + 1 /\ n + 1 \in Nat
    OBVIOUS
  <2> QED BY <1>4, <2>1, KeptStep
<1>10. Keeps(g[1..n], m) = g[1..n]
  BY DEF Keeps
<1> QED BY <1>1, <1>2, <1>3, <1>4, <1>8, <1>9, <1>10 DEF l

-----------------------------------------------------------------------------
(* The mirror                                                              *)

\* Lines that have the server ask the child for its messages: the end of a turn, a summary, and a
\* new session, as an answer or as its refresh in the queue.
Refreshes == {l \in RecordLine : l.kind \in {completionEvent, "compaction_end"}} \cup Reboots
\* The ends of the prompts and replies, and of the messages of extensions.
Writings == {l \in RecordLine : l.kind = "message_end" /\ Written(l.message)}
Others == {l \in RecordLine : l.kind = "message_end" /\ ~Written(l.message)}
\* Those of a message that the child has no more.
Missing == {l \in Others : l.message \notin ToSet(history)}
\* The child writes no prompt and no reply until it leaves this, and a refresh is behind those it wrote.
Calm == turn = "idle" \/ (turn = "waiting" /\ completionEvent = "agent_end")
\* The child is still to be asked, or to answer, for its messages.
AskMessages == {c \in CommandLine : c.command = "messages"}
Refreshing == SomeIn(Lines, Refreshes) \/ work.waits = "state" \/ SomeIn(toChild, AskMessages)
\* What is to be put into the mirror: the messages of extensions, and the history that was asked for.
Coming == {l.message : l \in ToSet(Lines) \cap Others}
Refreshed == {l.data : l \in ToSet(Lines) \cap MessagesAnswers}
\* What the mirror is, or will be when the answer is read.
Bases == IF Refreshed = {} THEN {messages} ELSE Refreshed
Mirrored == \A b \in Bases : WrittenIn(b) = WrittenIn(history) /\ ToSet(b) \cup Coming = ToSet(history)
\* Once the child writes nothing, what it wrote is in the mirror but for the messages of extensions,
\* or a refresh is to come; and no message that the child has lost stays without one.
Mirror ==
  /\ Calm => Followed(Lines, Writings, Refreshes)
  /\ Followed(Lines, Missing, Refreshes)
  /\ Calm /\ ~Refreshing => Mirrored

\* What is in two sequences, one after the other.
LEMMA SetConcat ==
  ASSUME NEW T, NEW A \in Seq(T), NEW B \in Seq(T)
  PROVE  ToSet(A \o B) = ToSet(A) \cup ToSet(B)
<1> DEFINE M == A \o B
<1>1. /\ M \in Seq(T) /\ Len(M) = Len(A) + Len(B) /\ Len(A) \in Nat /\ Len(B) \in Nat
      /\ DOMAIN M = 1..Len(M) /\ DOMAIN A = 1..Len(A) /\ DOMAIN B = 1..Len(B)
      /\ \A i \in 1..Len(A) : M[i] = A[i]
      /\ \A i \in 1..Len(B) : M[Len(A) + i] = B[i]
  OBVIOUS
<1> HIDE DEF M
<1>2. ASSUME NEW j \in 1..Len(M) PROVE M[j] \in ToSet(A) \cup ToSet(B)
  <2>1. CASE j \in 1..Len(A)
    BY <1>1, <2>1 DEF ToSet
  <2>2. CASE j \notin 1..Len(A)
    <3>1. PICK i \in 1..Len(B) : j = Len(A) + i
      <4>1. j - Len(A) \in 1..Len(B) /\ j = Len(A) + (j - Len(A))
        BY <1>1, <2>2
      <4> QED BY <4>1
    <3> QED BY <1>1, <3>1 DEF ToSet
  <2> QED BY <2>1, <2>2
<1>3. ASSUME NEW i \in 1..Len(A) PROVE A[i] \in ToSet(M)
  <2>1. i \in 1..Len(M)
    BY <1>1
  <2> QED BY <1>1, <2>1 DEF ToSet
<1>4. ASSUME NEW i \in 1..Len(B) PROVE B[i] \in ToSet(M)
  <2>1. Len(A) + i \in 1..Len(M)
    BY <1>1
  <2> QED BY <1>1, <2>1 DEF ToSet
<1>5. ToSet(M) \subseteq ToSet(A) \cup ToSet(B)
  BY <1>1, <1>2 DEF ToSet
<1>6. ToSet(A) \subseteq ToSet(M) /\ ToSet(B) \subseteq ToSet(M)
  BY <1>1, <1>3, <1>4 DEF ToSet
<1> QED BY <1>5, <1>6 DEF M

\* What is in a sequence, and in it without a line.
LEMMA SetWithout ==
  ASSUME NEW T, NEW L \in Seq(T), NEW M \in Seq(T), NEW k, Without(L, M, k)
  PROVE  ToSet(L) = ToSet(M) \cup {L[k]}
<1>1. /\ \A j \in 1..Len(L) : j < k => j \in 1..Len(M) /\ M[j] = L[j]
      /\ \A j \in 1..Len(L) : k < j => j - 1 \in 1..Len(M) /\ M[j - 1] = L[j]
      /\ \A i \in 1..Len(M) : i < k => i \in 1..Len(L) /\ M[i] = L[i]
      /\ \A i \in 1..Len(M) : ~(i < k) => i + 1 \in 1..Len(L) /\ M[i] = L[i + 1]
  BY WithoutPlaces
<1>2. k \in 1..Len(L) /\ DOMAIN L = 1..Len(L) /\ DOMAIN M = 1..Len(M)
  BY DEF Without
<1>3. ASSUME NEW j \in 1..Len(L) PROVE L[j] \in ToSet(M) \cup {L[k]}
  <2>1. j < k \/ k < j \/ j = k
    BY <1>2
  <2> QED BY <1>1, <1>2, <2>1 DEF ToSet
<1>4. ASSUME NEW i \in 1..Len(M) PROVE M[i] \in ToSet(L)
  BY <1>1, <1>2 DEF ToSet
<1>5. L[k] \in ToSet(L)
  BY <1>2 DEF ToSet
<1> QED BY <1>2, <1>3, <1>4, <1>5 DEF ToSet

\* Some line of a sequence is one of those in it.
LEMMA SetSome ==
  ASSUME NEW T, NEW L \in Seq(T), NEW E
  PROVE  SomeIn(L, E) <=> \E l \in ToSet(L) : l \in E
BY DEF SomeIn, ToSet

\* What a line is to the mirror.
LEMMA MirrorClasses ==
  ASSUME NEW l \in Line
  PROVE  /\ l \in RecordLine =>
              /\ l \in Refreshes <=> l.kind \in {completionEvent, "compaction_end", "rebootstrap"}
              /\ l \in Writings <=> l.kind = "message_end" /\ Written(l.message)
              /\ l \in Others <=> l.kind = "message_end" /\ ~Written(l.message)
              /\ l \notin MessagesAnswers
         /\ l \in AnswerLine =>
              /\ l \in Refreshes <=> l.to = "new" /\ l.says # "cancelled"
              /\ l \notin Writings /\ l \notin Others
              /\ l \in MessagesAnswers <=> l.to = "messages"
         /\ l \in Missing => l \in Others
<1>1. CASE l \in RecordLine
  BY <1>1, RecordClasses DEF Refreshes, Writings, Others, Missing
<1>2. CASE l \in AnswerLine
  BY <1>2, AnswerClasses DEF Refreshes, Writings, Others, Missing
<1> QED BY <1>1, <1>2 DEF Line

\* Fewer lines have what they are followed by.
LEMMA FollowedFewer ==
  ASSUME NEW L, NEW S, NEW F, NEW E, Followed(L, S, E), F \subseteq S
  PROVE  Followed(L, F, E)
BY DEF Followed

\* Lines that the child wrote have a refresh behind them: the mirror is to be replaced.
LEMMA RefreshTold ==
  ASSUME Typed, NEW lines \in Seq(Line), records' = records, fromChild' = fromChild \o lines,
         completionEvent' = completionEvent, NEW e \in 1..Len(lines), lines[e] \in Refreshes,
         \A i \in 1..Len(lines) : lines[i] \in Writings \/ lines[i] \in Others => i < e
  PROVE  Mirror'
<1>1. records \in Seq(Line) /\ fromChild \in Seq(Line)
  BY DEF Typed, Line
<1>2. Lines \in Seq(Line) /\ Lines' = Lines \o lines
  BY <1>1, LinesGrow
<1>3. Refreshes' = Refreshes
  BY DEF Refreshes
<1>4. \A i \in 1..Len(lines) : lines[i] \in Missing' => i < e
  BY DEF Missing
<1>5. Followed(Lines', Writings, Refreshes)
  <2>1. \E f \in 1..Len(lines) : lines[f] \in Refreshes /\ \A i \in 1..Len(lines) : lines[i] \in Writings => i < f
    OBVIOUS
  <2> QED BY <1>2, <2>1, EmitFollowed
<1>6. Followed(Lines', Missing', Refreshes)
  <2>1. \E f \in 1..Len(lines) : lines[f] \in Refreshes /\ \A i \in 1..Len(lines) : lines[i] \in Missing' => i < f
    BY <1>4
  <2> QED BY <1>2, <2>1, EmitFollowed
<1>7. SomeIn(Lines', Refreshes)
  <2>1. SomeIn(lines, Refreshes)
    BY DEF SomeIn
  <2> QED BY <1>2, <2>1, EmitSome
<1> QED BY <1>3, <1>5, <1>6, <1>7 DEF Mirror, Refreshing

\* The turn runs on: nothing is promised of what it wrote.
LEMMA BusyTold ==
  ASSUME Mirror, Typed, NEW lines \in Seq(Line), records' = records, fromChild' = fromChild \o lines,
         completionEvent' = completionEvent, ~Calm', ToSet(history) \subseteq ToSet(history'),
         ~SomeIn(lines, Missing')
  PROVE  Mirror'
<1>1. records \in Seq(Line) /\ fromChild \in Seq(Line)
  BY DEF Typed, Line
<1>2. Lines \in Seq(Line) /\ Lines' = Lines \o lines
  BY <1>1, LinesGrow
<1>3. Refreshes' = Refreshes /\ Missing' \subseteq Missing
  BY DEF Refreshes, Missing
<1>4. Followed(Lines, Missing', Refreshes)
  BY <1>3, FollowedFewer DEF Mirror
<1>5. Followed(Lines', Missing', Refreshes)
  BY <1>2, <1>4, EmitFollowed
<1> QED BY <1>3, <1>5 DEF Mirror

\* The child says something that is no message, and keeps those it has.
LEMMA QuietTold ==
  ASSUME Mirror, Typed, NEW lines \in Seq(Line), records' = records, fromChild' = fromChild \o lines,
         UNCHANGED <<completionEvent, messages, history, work>>, Calm' => Calm,
         ~SomeIn(lines, Writings), ~SomeIn(lines, Others), ~SomeIn(lines, MessagesAnswers),
         SomeIn(toChild, AskMessages) => SomeIn(toChild', AskMessages)
  PROVE  Mirror'
<1>1. records \in Seq(Line) /\ fromChild \in Seq(Line)
  BY DEF Typed, Line
<1>2. Lines \in Seq(Line) /\ Lines' = Lines \o lines
  BY <1>1, LinesGrow
<1>3. Refreshes' = Refreshes /\ Missing' = Missing
  BY DEF Refreshes, Missing
<1>4. ~SomeIn(lines, Missing)
  BY DEF SomeIn, Missing
<1>5. Calm' => Followed(Lines', Writings, Refreshes)
  BY <1>2, EmitFollowed DEF Mirror
<1>6. Followed(Lines', Missing, Refreshes)
  BY <1>2, <1>4, EmitFollowed DEF Mirror
<1>7. ToSet(Lines') = ToSet(Lines) \cup ToSet(lines)
  BY <1>2, SetConcat
<1>8. Coming' = Coming /\ Refreshed' = Refreshed
  <2>1. (\A l \in ToSet(lines) : l \notin Others) /\ (\A l \in ToSet(lines) : l \notin MessagesAnswers)
    BY SetSome
  <2> QED BY <1>7, <2>1 DEF Coming, Refreshed
<1>9. Refreshing => Refreshing'
  <2>1. SomeIn(Lines, Refreshes) => SomeIn(Lines', Refreshes)
    BY <1>2, EmitSome
  <2> QED BY <1>3, <2>1 DEF Refreshing
<1>10. Mirrored => Mirrored'
  BY <1>8 DEF Mirrored, Bases
<1> QED BY <1>3, <1>5, <1>6, <1>9, <1>10 DEF Mirror

\* The lines stay, and so does what they are put into.
LEMMA MirrorStays ==
  ASSUME Mirror, Lines' = Lines, UNCHANGED <<completionEvent, messages, history, turn>>, Refreshing => Refreshing'
  PROVE  Mirror'
<1>1. Refreshes' = Refreshes /\ Missing' = Missing /\ Calm' = Calm
  BY DEF Refreshes, Missing, Calm
<1>2. Coming' = Coming /\ Refreshed' = Refreshed
  BY DEF Coming, Refreshed
<1>3. Mirrored => Mirrored'
  BY <1>2 DEF Mirrored, Bases
<1> QED BY <1>1, <1>3 DEF Mirror

\* A line goes that is the first, or asks for nothing: the others are still followed.
LEMMA FollowedGone ==
  ASSUME Mirror, UNCHANGED <<completionEvent, history, turn>>, Lines \in Seq(Line), Lines' \in Seq(Line),
         NEW k, Without(Lines, Lines', k), k = 1 \/ Lines[k] \notin Refreshes
  PROVE  /\ Refreshes' = Refreshes /\ Calm' = Calm /\ Missing' = Missing
         /\ Calm => Followed(Lines', Writings, Refreshes)
         /\ Followed(Lines', Missing, Refreshes)
         /\ ToSet(Lines) = ToSet(Lines') \cup {Lines[k]}
<1>1. Refreshes' = Refreshes /\ Missing' = Missing /\ Calm' = Calm
  BY DEF Refreshes, Missing, Calm
<1>2. Followed(Lines, Writings, Refreshes) => Followed(Lines', Writings, Refreshes)
  BY WithoutKeeps
<1>3. Followed(Lines, Missing, Refreshes) => Followed(Lines', Missing, Refreshes)
  BY WithoutKeeps
<1>4. ToSet(Lines) = ToSet(Lines') \cup {Lines[k]}
  BY SetWithout
<1> QED BY <1>1, <1>2, <1>3, <1>4 DEF Mirror

\* The mirror is to be replaced after it, or the line has nothing to do with it.
LEMMA LineGone ==
  ASSUME Mirror, UNCHANGED <<completionEvent, history, turn>>, Lines \in Seq(Line), Lines' \in Seq(Line),
         NEW k, Without(Lines, Lines', k), k = 1 \/ Lines[k] \notin Refreshes,
         \/ Refreshing'
         \/ /\ Lines[k] \notin Others /\ Lines[k] \notin MessagesAnswers /\ messages' = messages
            /\ Refreshing => Refreshing'
  PROVE  Mirror'
<1>1. /\ Refreshes' = Refreshes /\ Calm' = Calm /\ Missing' = Missing
      /\ Calm => Followed(Lines', Writings, Refreshes)
      /\ Followed(Lines', Missing, Refreshes)
      /\ ToSet(Lines) = ToSet(Lines') \cup {Lines[k]}
  BY FollowedGone
<1>2. CASE Refreshing'
  BY <1>1, <1>2 DEF Mirror
<1>3. CASE /\ Lines[k] \notin Others /\ Lines[k] \notin MessagesAnswers /\ messages' = messages
           /\ Refreshing => Refreshing'
  <2>1. Coming' = Coming /\ Refreshed' = Refreshed
    BY <1>1, <1>3 DEF Coming, Refreshed
  <2>2. Mirrored => Mirrored'
    BY <1>3, <2>1 DEF Mirrored, Bases
  <2> QED BY <1>1, <1>3, <2>2 DEF Mirror
<1> QED BY <1>2, <1>3

\* What is said when a turn is stopped: its end, or that the wait for a retry was cut short.
LEMMA StoppedRefreshes ==
  ASSUME completionEvent \in {"agent_settled", "agent_end"}
  PROVE  /\ Stopped \in Seq(Line)
         /\ turn = "waiting" /\ completionEvent = "agent_end" =>
              ~SomeIn(Stopped, Writings) /\ ~SomeIn(Stopped, Others) /\ ~SomeIn(Stopped, MessagesAnswers)
         /\ ~(turn = "waiting" /\ completionEvent = "agent_end") =>
              \E e \in 1..Len(Stopped) :
                 /\ Stopped[e] \in Refreshes
                 /\ \A i \in 1..Len(Stopped) : Stopped[i] \in Writings \/ Stopped[i] \in Others => i < e
<1>1. /\ Stopped \in Seq(Closing) /\ Len(Stopped) \in Nat \ {0}
      /\ Stopped[Len(Stopped)] \in Ends
  BY StoppedSays
<1>2. Ending[Len(Ending)].kind = completionEvent
  BY EndingSays
<1>3. turn = "waiting" /\ completionEvent = "agent_end" => Stopped = <<Record("auto_retry_failed")>> \o <<>>
  BY DEF Stopped
<1>4. turn # "waiting" => Stopped = Ending
  BY DEF Stopped
<1> HIDE DEF Stopped
<1>5. Stopped \in Seq(Line) /\ ~SomeIn(Stopped, MessagesAnswers)
  BY <1>1, ClosingSaid
<1>6. ASSUME turn = "waiting" /\ completionEvent = "agent_end"
      PROVE  ~SomeIn(Stopped, Writings) /\ ~SomeIn(Stopped, Others)
  <2>1. Stopped = <<Record("auto_retry_failed")>>
    BY <1>3, <1>6
  <2>2. Record("auto_retry_failed") \in RecordLine /\ Record("auto_retry_failed").kind = "auto_retry_failed"
    BY RecordTyped DEF RecordKinds
  <2> QED BY <2>1, <2>2, OneLine, MirrorClasses DEF Line
<1>7. ASSUME ~(turn = "waiting" /\ completionEvent = "agent_end")
      PROVE  \E e \in 1..Len(Stopped) :
                /\ Stopped[e] \in Refreshes
                /\ \A i \in 1..Len(Stopped) : Stopped[i] \in Writings \/ Stopped[i] \in Others => i < e
  <2>1. PICK n \in Nat : n = Len(Stopped) /\ n # 0 /\ n \in 1..n
    BY <1>1
  <2>2. Stopped[n] \in RecordLine /\ Stopped[n].kind = completionEvent
    <3>1. CASE turn # "waiting"
      BY <1>1, <1>2, <1>4, <2>1, <3>1 DEF Ends
    <3>2. CASE turn = "waiting"
      BY <1>1, <1>7, <2>1, <3>2 DEF Ends
    <3> QED BY <3>1, <3>2
  <2>3. Stopped[n] \in Refreshes /\ Stopped[n] \notin Writings /\ Stopped[n] \notin Others
    BY <2>2, MirrorClasses DEF Line
  <2>4. \A i \in 1..n : i = n \/ i < n
    OBVIOUS
  <2> QED BY <2>1, <2>3, <2>4
<1> QED BY <1>5, <1>6, <1>7

\* One more message, or two.
LEMMA HistoryGrows ==
  ASSUME history \in Seq(Spoken), NEW a \in Spoken, NEW b \in Spoken
  PROVE  /\ ToSet(Append(history, a)) = ToSet(history) \cup {a}
         /\ ToSet(history) \subseteq ToSet(history \o <<a, b>>)
<1> DEFINE one == <<a>>
           two == <<a, b>>
<1>1. one \in Seq(Spoken) /\ two \in Seq(Spoken) /\ Append(history, a) = history \o one
  OBVIOUS
<1>2. ToSet(one) = {a}
  BY DEF ToSet
<1> HIDE DEF one, two
<1>3. ToSet(history \o one) = ToSet(history) \cup ToSet(one)
  BY <1>1, SetConcat
<1>4. ToSet(history \o two) = ToSet(history) \cup ToSet(two)
  BY <1>1, SetConcat
<1> QED BY <1>1, <1>2, <1>3, <1>4 DEF two

\* The child works at its turn.
LEMMA WorksMirror == ASSUME Inv, Mirror, ChildWorks PROVE Mirror'
<1>1. /\ Typed /\ history \in Seq(Spoken) /\ prompts \in Seq(Prompt) /\ (turn # "idle" => prompts # <<>>)
      /\ completionEvent \in {"agent_settled", "agent_end"}
  BY DEF Inv, Typed
<1>2. UNCHANGED <<completionEvent, messages, records, work, toChild>>
  BY DEF ChildWorks, server
<1>3. ASSUME NEW kind \in RecordKinds \ {"message_end"}
      PROVE  /\ Record(kind) \in RecordLine /\ Record(kind) \in Line /\ Record(kind).kind = kind
             /\ Record(kind) \notin Writings /\ Record(kind) \notin Others /\ Record(kind) \notin Missing'
             /\ kind \in {completionEvent, "compaction_end"} => Record(kind) \in Refreshes
  <2>1. Record(kind) \in RecordLine /\ Record(kind).kind = kind
    BY RecordTyped
  <2>2. Record(kind) \in Line
    BY <2>1 DEF Line
  <2>3. Record(kind) \notin Others
    BY <2>1, <2>2, MirrorClasses
  <2> QED BY <2>1, <2>2, <2>3, MirrorClasses DEF Missing
<1>4. ASSUME NEW m \in Spoken, Written(m)
      PROVE  /\ Ended(m) \in RecordLine /\ Ended(m) \in Line /\ Ended(m).kind = "message_end"
             /\ Ended(m) \notin Others /\ Ended(m) \notin Missing'
  <2>1. Ended(m) \in RecordLine /\ Ended(m) \in Line /\ Ended(m).kind = "message_end" /\ Ended(m).message = m
    BY EndedTyped DEF Line
  <2>2. Ended(m) \notin Others
    BY <1>4, <2>1 DEF Others
  <2> QED BY <2>1, <2>2 DEF Missing
<1>5. CASE TurnStarts
  <2>1. Head(prompts) \in Prompt /\ turn' = "asking" /\ history' = Append(history, Receives)
    BY <1>1, <1>5 DEF TurnStarts
  <2>2. Receives \in Spoken /\ Written(Receives)
    BY <2>1, SaidTyped DEF Receives, Written
  <2>3. fromChild' = fromChild \o <<Record("agent_start"), Ended(Receives)>>
    BY <1>5 DEF TurnStarts, Emits
  <2>4. /\ <<Record("agent_start"), Ended(Receives)>> \in Seq(Line)
        /\ ~SomeIn(<<Record("agent_start"), Ended(Receives)>>, Missing')
    BY <1>3, <1>4, <2>2, TwoLines DEF RecordKinds
  <2>5. ToSet(history) \subseteq ToSet(history')
    BY <1>1, <2>1, <2>2, HistoryGrows
  <2> QED BY <1>1, <1>2, <2>1, <2>3, <2>4, <2>5, BusyTold DEF Calm
<1>6. CASE ReplyStarts
  <2>1. /\ <<Record("message_start")>> \in Seq(Line)
        /\ ~SomeIn(<<Record("message_start")>>, Missing')
    BY <1>3, OneLine DEF RecordKinds
  <2>2. fromChild' = fromChild \o <<Record("message_start")>> /\ turn' = "replying" /\ history' = history
    BY <1>6 DEF ReplyStarts, Emits
  <2> QED BY <1>1, <1>2, <2>1, <2>2, BusyTold DEF Calm
<1>7. CASE ReplyEnds
  <2> DEFINE reply == Said(Head(prompts), "assistant")
  <2>1. Head(prompts) \in Prompt /\ prompts # <<>>
    BY <1>1, <1>7 DEF ReplyEnds
  <2>2. reply \in Spoken /\ Written(reply)
    BY <2>1, SaidTyped DEF Written
  <2> HIDE DEF reply
  <2>3. CASE Len(prompts) = 1
    <3> DEFINE lines == <<Ended(reply)>> \o Ending
    <3>1. fromChild' = fromChild \o lines
      BY <1>7, <2>3 DEF ReplyEnds, Emits, reply
    <3>2. Ending \in Seq(Closing) /\ Len(Ending) \in 1..2 /\ Ending[Len(Ending)].kind = completionEvent
      BY <1>1, EndingSays
    <3>3. Closing \subseteq RecordLine /\ RecordLine \subseteq Line
      BY DEF Closing, Line
    <3>4. Ending \in Seq(Line) /\ Ending[Len(Ending)] \in RecordLine
      <4>1. \A i \in 1..Len(Ending) : Ending[i] \in Closing
        BY <3>2
      <4>2. Len(Ending) \in 1..Len(Ending)
        BY <3>2
      <4> QED BY <3>2, <3>3, <4>1, <4>2
    <3>5. lines \in Seq(Line) /\ Len(lines) = 1 + Len(Ending) /\ lines[1 + Len(Ending)] = Ending[Len(Ending)]
      BY <1>4, <2>2, <3>2, <3>4, OneBefore
    <3>6. PICK e \in Nat : e = Len(lines) /\ e = 1 + Len(Ending) /\ e \in 1..e
      BY <3>2, <3>5
    <3> HIDE DEF lines
    <3>7. lines[e] \in RecordLine /\ lines[e].kind = completionEvent
      BY <3>2, <3>4, <3>5, <3>6
    <3>8. lines[e] \in Refreshes /\ lines[e] \notin Writings /\ lines[e] \notin Others
      BY <1>1, <3>3, <3>7, MirrorClasses
    <3>9. \A i \in 1..Len(lines) : lines[i] \in Writings \/ lines[i] \in Others => i < e
      <4>1. \A i \in 1..e : i = e \/ i < e
        OBVIOUS
      <4> QED BY <3>6, <3>8, <4>1
    <3> QED BY <1>1, <1>2, <3>1, <3>5, <3>6, <3>8, <3>9, RefreshTold
  <2>4. CASE Len(prompts) # 1
    <3> DEFINE next == Said(prompts[2], "user")
    <3>1. prompts[2] \in Prompt
      <4>0. Len(prompts) \in Nat /\ Len(prompts) # 0
        BY <1>1, <2>1
      <4>1. PICK n \in Nat : n = Len(prompts) /\ n # 0 /\ n # 1
        BY <2>4, <4>0
      <4>2. 2 \in 1..n
        BY <4>1
      <4> QED BY <1>1, <4>1, <4>2
    <3>2. next \in Spoken /\ Written(next)
      BY <3>1, SaidTyped DEF Written
    <3>3. /\ turn' = "asking" /\ history' = history \o <<reply, next>>
          /\ fromChild' = fromChild \o <<Ended(reply), Ended(next)>>
      BY <1>7, <2>4 DEF ReplyEnds, Emits, reply
    <3> HIDE DEF next
    <3>4. <<Ended(reply), Ended(next)>> \in Seq(Line) /\ ~SomeIn(<<Ended(reply), Ended(next)>>, Missing')
      BY <1>4, <2>2, <3>2, TwoLines
    <3>5. ToSet(history) \subseteq ToSet(history')
      BY <1>1, <2>2, <3>2, <3>3, HistoryGrows
    <3> QED BY <1>1, <1>2, <3>3, <3>4, <3>5, BusyTold DEF Calm
  <2> QED BY <2>3, <2>4
<1>8. CASE AttemptFails
  <2> DEFINE lines == <<Record("agent_end"), Record("auto_retry_start")>>
  <2>1. fromChild' = fromChild \o lines /\ turn' = "waiting" /\ history' = history
    BY <1>8 DEF AttemptFails, Emits
  <2>2. lines \in Seq(Line) /\ Len(lines) = 2 /\ lines[1] = Record("agent_end") /\ lines[2] = Record("auto_retry_start")
    BY <1>3 DEF RecordKinds
  <2>3. ~SomeIn(lines, Missing') /\ \A i \in 1..Len(lines) : lines[i] \notin Writings /\ lines[i] \notin Others
    <3>1. 1..2 = {1, 2}
      OBVIOUS
    <3> HIDE DEF lines
    <3> QED BY <1>3, <2>2, <3>1 DEF RecordKinds, SomeIn
  <2>4. 1 \in 1..Len(lines) /\ (completionEvent = "agent_end" => lines[1] \in Refreshes)
    <3> HIDE DEF lines
    <3> QED BY <1>3, <2>2 DEF RecordKinds
  <2> HIDE DEF lines
  <2>5. CASE completionEvent = "agent_end"
    BY <1>1, <1>2, <2>1, <2>2, <2>3, <2>4, <2>5, RefreshTold
  <2>6. CASE completionEvent # "agent_end"
    BY <1>1, <1>2, <2>1, <2>2, <2>3, <2>6, BusyTold DEF Calm
  <2> QED BY <2>5, <2>6
<1>9. CASE Retries
  <2>1. <<Record("agent_start")>> \in Seq(Line) /\ ~SomeIn(<<Record("agent_start")>>, Missing')
    BY <1>3, OneLine DEF RecordKinds
  <2>2. fromChild' = fromChild \o <<Record("agent_start")>> /\ turn' = "asking" /\ history' = history
    BY <1>9 DEF Retries, Emits
  <2> QED BY <1>1, <1>2, <2>1, <2>2, BusyTold DEF Calm
<1>10. CASE CustomMessage
  <2> DEFINE m == Said(None, "custom")
             lines == <<Ended(m)>>
  <2>1. m \in Spoken /\ ~Written(m)
    BY SaidTyped DEF Written
  <2>2. history' = Append(history, m) /\ fromChild' = fromChild \o lines /\ turn' = turn
    BY <1>10 DEF CustomMessage, Emits
  <2> HIDE DEF m
  <2>3. Ended(m) \in RecordLine /\ Ended(m) \in Line /\ Ended(m).kind = "message_end" /\ Ended(m).message = m
    BY <2>1, EndedTyped DEF Line
  <2>4. ToSet(history') = ToSet(history) \cup {m}
    BY <1>1, <2>1, <2>2, HistoryGrows
  <2>5. /\ Ended(m) \in Others /\ Ended(m) \notin Writings /\ Ended(m) \notin Missing'
        /\ Ended(m) \notin MessagesAnswers /\ Ended(m) \notin Refreshes
    <3>1. Ended(m) \in Others /\ Ended(m) \notin Writings /\ Ended(m) \notin MessagesAnswers
      BY <2>1, <2>3, MirrorClasses
    <3>2. Ended(m) \notin Refreshes
      BY <1>1, <2>3, MirrorClasses
    <3> QED BY <2>3, <2>4, <3>1, <3>2 DEF Missing
  <2>6. lines \in Seq(Line) /\ \A E : SomeIn(lines, E) <=> Ended(m) \in E
    BY <2>3, OneLine
  <2>7. records \in Seq(Line) /\ fromChild \in Seq(Line)
    BY <1>1 DEF Typed, Line
  <2>8. ToSet(lines) = {Ended(m)}
    BY DEF ToSet
  <2> HIDE DEF lines
  <2>9. Lines \in Seq(Line) /\ Lines' = Lines \o lines
    BY <1>2, <2>2, <2>6, <2>7, LinesGrow
  <2>10. Refreshes' = Refreshes /\ Missing' \subseteq Missing /\ Calm' = Calm
    BY <1>2, <2>2, <2>4 DEF Refreshes, Missing, Calm
  <2>11. Calm => Followed(Lines', Writings, Refreshes)
    BY <2>5, <2>6, <2>9, EmitFollowed DEF Mirror
  <2>12. Followed(Lines, Missing', Refreshes)
    BY <2>10, FollowedFewer DEF Mirror
  <2>13. Followed(Lines', Missing', Refreshes)
    BY <2>5, <2>6, <2>9, <2>12, EmitFollowed
  <2>14. ToSet(Lines') = ToSet(Lines) \cup {Ended(m)}
    BY <2>6, <2>8, <2>9, SetConcat
  <2>15. Coming' = Coming \cup {m} /\ Refreshed' = Refreshed
    BY <2>3, <2>5, <2>14 DEF Coming, Refreshed
  <2>16. WrittenIn(history') = WrittenIn(history)
    BY <1>1, <2>1, <2>2, WrittenStays
  <2>17. Mirrored => Mirrored'
    BY <1>2, <2>4, <2>15, <2>16 DEF Mirrored, Bases
  <2>18. Refreshing => Refreshing'
    <3>1. SomeIn(Lines, Refreshes) => SomeIn(Lines', Refreshes)
      BY <2>6, <2>9, EmitSome
    <3> QED BY <1>2, <2>10, <3>1 DEF Refreshing
  <2> QED BY <2>10, <2>11, <2>13, <2>17, <2>18 DEF Mirror
<1>11. CASE Compacts
  <2> DEFINE lines == <<Record("compaction_end")>>
  <2>1. fromChild' = fromChild \o lines
    BY <1>11 DEF Compacts, Emits
  <2>2. lines \in Seq(Line) /\ Len(lines) = 1 /\ lines[1] = Record("compaction_end")
    BY <1>3 DEF RecordKinds
  <2> HIDE DEF lines
  <2>3. /\ 1 \in 1..Len(lines) /\ lines[1] \in Refreshes
        /\ \A i \in 1..Len(lines) : lines[i] \notin Writings /\ lines[i] \notin Others
    BY <1>3, <2>2 DEF RecordKinds
  <2> QED BY <1>1, <1>2, <2>1, <2>2, <2>3, RefreshTold
<1> QED BY <1>5, <1>6, <1>7, <1>8, <1>9, <1>10, <1>11 DEF ChildWorks

\* The child answers a question about anything but its messages, or a prompt.
LEMMA PlainAnswer ==
  ASSUME NEW a \in AnswerLine, a.to \notin {"new", "messages"}
  PROVE  /\ <<a>> \in Seq(Line) /\ a \in Line
         /\ ~SomeIn(<<a>>, Writings) /\ ~SomeIn(<<a>>, Others) /\ ~SomeIn(<<a>>, MessagesAnswers)
         /\ a \notin Refreshes
<1>1. a \in Line
  BY DEF Line
<1> QED BY <1>1, OneLine, MirrorClasses

\* The child reads a command.
LEMMA ReadsMirror == ASSUME Inv, Mirror, ChildReads PROVE Mirror'
<1> DEFINE c == Head(toChild)
<1>1. /\ Typed /\ history \in Seq(Spoken) /\ completionEvent \in {"agent_settled", "agent_end"}
      /\ records \in Seq(Line) /\ fromChild \in Seq(Line)
  BY DEF Inv, Typed, Line
<1>2. UNCHANGED <<completionEvent, messages, records, work>> /\ toChild # <<>> /\ toChild' = Tail(toChild)
  BY DEF ChildReads, server
<1>3. /\ c \in CommandLine /\ c = toChild[1] /\ 1 \in 1..Len(toChild)
      /\ toChild \in Seq(CommandLine) /\ toChild' \in Seq(CommandLine) /\ Without(toChild, toChild', 1)
  BY <1>1, <1>2, CommandRead DEF Typed
<1>4. ReadsPrompt(c) \/ ReadsQuestion(c) \/ ReadsNew(c) \/ ReadsAbort(c)
  BY DEF ChildReads
<1> HIDE DEF c
<1>5. c.command # "messages" /\ SomeIn(toChild, AskMessages) => SomeIn(toChild', AskMessages)
  <2>1. c.command # "messages" => toChild[1] \notin AskMessages
    BY <1>3 DEF AskMessages
  <2> QED BY <1>3, <2>1, WithoutKeeps
<1>6. CASE ReadsPrompt(c)
  <2>1. PICK a : Replies(a) /\ a.to = "prompt"
    BY <1>1, <1>3, <1>6, PromptReplies
  <2>2. a \in AnswerLine /\ fromChild' = fromChild \o <<a>>
    BY <2>1 DEF Replies
  <2>3. history' = history /\ c.command = "prompt" /\ (turn' = turn \/ turn' = "begun")
    BY <1>6 DEF ReadsPrompt, Refuses
  <2>4. Calm' => Calm
    BY <1>2, <2>3 DEF Calm
  <2> QED BY <1>1, <1>2, <1>5, <2>1, <2>2, <2>3, <2>4, PlainAnswer, QuietTold
<1>7. CASE ReadsQuestion(c)
  <2>1. PICK a : Replies(a) /\ a.to = c.command /\ (a.to = "messages" => a.data = history)
    BY <1>1, <1>3, <1>7, QuestionReplies
  <2>2. c \in Asking
    BY <1>1, <1>3, <1>7, QuestionReplies
  <2>3. a \in AnswerLine /\ fromChild' = fromChild \o <<a>> /\ a.to # "new"
    BY <2>1 DEF Replies
  <2>4. history' = history /\ turn' = turn
    BY <1>7 DEF ReadsQuestion, child
  <2>5. Calm' = Calm
    BY <1>2, <2>4 DEF Calm
  <2>6. CASE c.command # "messages"
    BY <1>1, <1>2, <1>5, <2>1, <2>3, <2>4, <2>5, <2>6, PlainAnswer, QuietTold
  <2>7. CASE c.command = "messages"
    <3>1. a \in Line /\ a.data = history /\ a \in MessagesAnswers
      BY <2>1, <2>3, <2>7 DEF Line, MessagesAnswers
    <3>2. a \notin Writings /\ a \notin Others /\ a \notin Missing /\ a \notin Refreshes
      BY <2>3, <3>1, MirrorClasses
    <3> DEFINE lines == <<a>>
    <3>3. lines \in Seq(Line) /\ \A E : SomeIn(lines, E) <=> a \in E
      BY <3>1, OneLine
    <3>4. ToSet(lines) = {a}
      BY DEF ToSet
    <3>5. fromChild' = fromChild \o lines
      BY <2>3
    <3> HIDE DEF lines
    <3>6. Lines \in Seq(Line) /\ Lines' = Lines \o lines
      BY <1>1, <1>2, <3>3, <3>5, LinesGrow
    <3>7. Refreshes' = Refreshes /\ Missing' = Missing
      BY <1>2, <2>4 DEF Refreshes, Missing
    <3>8. Calm => Followed(Lines', Writings, Refreshes)
      BY <3>2, <3>3, <3>6, EmitFollowed DEF Mirror
    <3>9. Followed(Lines', Missing, Refreshes)
      BY <3>2, <3>3, <3>6, EmitFollowed DEF Mirror
    <3>10. ToSet(Lines') = ToSet(Lines) \cup {a}
      BY <3>3, <3>4, <3>6, SetConcat
    <3>11. Coming' = Coming
      BY <3>2, <3>10 DEF Coming
    <3>12. Refreshed' = {history}
      <4>1. SomeIn(toChild, Asking)
        BY <1>3, <2>2 DEF SomeIn
      <4>2. ~SomeIn(Lines, Answering)
        BY <4>1 DEF Inv, Matched
      <4>3. MessagesAnswers \subseteq Answering
        BY DEF MessagesAnswers, Answering, Questions
      <4>4. \A l \in ToSet(Lines) : l \notin MessagesAnswers
        BY <3>6, <4>2, <4>3, SetSome
      <4> QED BY <3>1, <3>10, <4>4 DEF Refreshed
    <3>13. ~SomeIn(Lines', Refreshes) => Coming \subseteq ToSet(history)
      <4> SUFFICES ASSUME ~SomeIn(Lines', Refreshes), NEW l \in ToSet(Lines), l \in Others
                   PROVE  l.message \in ToSet(history)
        BY DEF Coming
      <4>1. ~SomeIn(Lines, Refreshes)
        BY <3>3, <3>6, EmitSome
      <4>2. ~SomeIn(Lines, Missing)
        BY <4>1 DEF Mirror, Followed, SomeIn
      <4>3. l \notin Missing
        BY <3>6, <4>2, SetSome
      <4> QED BY <4>3 DEF Missing
    <3>14. ~Refreshing' => Mirrored'
      <4>1. Bases' = {history}
        BY <3>12 DEF Bases
      <4>2. ~Refreshing' => Coming \subseteq ToSet(history)
        BY <3>7, <3>13 DEF Refreshing
      <4> QED BY <2>4, <3>11, <4>1, <4>2 DEF Mirrored
    <3> QED BY <2>5, <3>7, <3>8, <3>9, <3>14 DEF Mirror
  <2> QED BY <2>6, <2>7
<1>8. CASE ReadsNew(c)
  <2>0. c.command = "new" /\ <<>> \in Seq(Spoken)
    BY <1>8 DEF ReadsNew
  <2>1. \A says \in {"ok", "cancelled"} : /\ Answer("new", None, says, <<>>) \in AnswerLine
                                          /\ Answer("new", None, says, <<>>).to = "new"
                                          /\ Answer("new", None, says, <<>>).says = says
    BY <2>0 DEF Answer, AnswerLine, Sayings, Outcomes
  <2>2. CASE Emits(<<Answer("new", None, "cancelled", <<>>)>>) /\ UNCHANGED child
    <3> DEFINE a == Answer("new", None, "cancelled", <<>>)
    <3>1. a \in AnswerLine /\ a.to = "new" /\ a.says = "cancelled" /\ a \in Line
      BY <2>1 DEF Line
    <3>2. fromChild' = fromChild \o <<a>> /\ turn' = turn /\ history' = history
      BY <2>2 DEF Emits, child
    <3> HIDE DEF a
    <3>3. a \notin Writings /\ a \notin Others /\ a \notin MessagesAnswers
      BY <3>1, MirrorClasses
    <3>4. /\ <<a>> \in Seq(Line) /\ ~SomeIn(<<a>>, Writings) /\ ~SomeIn(<<a>>, Others)
          /\ ~SomeIn(<<a>>, MessagesAnswers)
      BY <3>1, <3>3, OneLine
    <3>5. Calm' => Calm
      BY <1>2, <3>2 DEF Calm
    <3> QED BY <1>1, <1>2, <1>5, <2>0, <3>2, <3>4, <3>5, QuietTold
  <2>3. CASE Emits((IF turn = "idle" THEN <<>> ELSE Stopped) \o <<Answer("new", None, "ok", <<>>)>>)
    <3> DEFINE a == Answer("new", None, "ok", <<>>)
               ends == IF turn = "idle" THEN <<>> ELSE Stopped
               lines == ends \o <<a>>
    <3>1. a \in AnswerLine /\ a.to = "new" /\ a.says # "cancelled" /\ a \in Line
      BY <2>1 DEF Line
    <3>2. ends \in Seq(Line)
      BY <1>1, StoppedRefreshes
    <3>3. fromChild' = fromChild \o lines
      BY <2>3 DEF Emits
    <3> HIDE DEF a, ends
    <3>4. lines \in Seq(Line) /\ Len(lines) = Len(ends) + 1 /\ lines[Len(ends) + 1] = a /\ Len(ends) \in Nat
      BY <3>1, <3>2
    <3> HIDE DEF lines
    <3>5. PICK e \in Nat : e = Len(ends) + 1 /\ e = Len(lines) /\ e \in 1..e
      BY <3>4
    <3>6. lines[e] = a /\ lines[e] \in Refreshes /\ lines[e] \notin Writings /\ lines[e] \notin Others
      BY <3>1, <3>4, <3>5, MirrorClasses
    <3>7. \A i \in 1..Len(lines) : lines[i] \in Writings \/ lines[i] \in Others => i < e
      <4>1. \A i \in 1..e : i = e \/ i < e
        OBVIOUS
      <4> QED BY <3>5, <3>6, <4>1
    <3> QED BY <1>1, <1>2, <3>3, <3>4, <3>5, <3>6, <3>7, RefreshTold
  <2> QED BY <1>8, <2>2, <2>3 DEF ReadsNew
<1>9. CASE ReadsAbort(c)
  <2>1. c.command = "abort" /\ history' = history
    BY <1>9 DEF ReadsAbort
  <2>2. CASE turn = "idle"
    <3>1. fromChild' = fromChild /\ turn' = turn
      BY <1>9, <2>2 DEF ReadsAbort
    <3>2. Lines' = Lines /\ Refreshes' = Refreshes
      BY <1>2, <3>1 DEF Lines, Refreshes
    <3>3. Refreshing => Refreshing'
      BY <1>2, <1>5, <2>1, <3>2 DEF Refreshing
    <3> QED BY <1>2, <2>1, <3>1, <3>2, <3>3, MirrorStays
  <2>3. CASE turn # "idle"
    <3>1. fromChild' = fromChild \o Stopped /\ turn' = "idle"
      BY <1>9, <2>3 DEF ReadsAbort, Emits
    <3>2. CASE turn = "waiting" /\ completionEvent = "agent_end"
      <4>1. Calm
        BY <3>2 DEF Calm
      <4>2. /\ Stopped \in Seq(Line) /\ ~SomeIn(Stopped, Writings) /\ ~SomeIn(Stopped, Others)
            /\ ~SomeIn(Stopped, MessagesAnswers)
        BY <1>1, <3>2, StoppedRefreshes
      <4> QED BY <1>1, <1>2, <1>5, <2>1, <3>1, <4>1, <4>2, QuietTold
    <3>3. CASE ~(turn = "waiting" /\ completionEvent = "agent_end")
      <4>1. Stopped \in Seq(Line)
        BY <1>1, StoppedRefreshes
      <4>2. PICK e \in 1..Len(Stopped) :
               /\ Stopped[e] \in Refreshes
               /\ \A i \in 1..Len(Stopped) : Stopped[i] \in Writings \/ Stopped[i] \in Others => i < e
        BY <1>1, <3>3, StoppedRefreshes
      <4> QED BY <1>1, <1>2, <3>1, <4>1, <4>2, RefreshTold
    <3> QED BY <3>2, <3>3
  <2> QED BY <2>2, <2>3
<1> QED BY <1>4, <1>6, <1>7, <1>8, <1>9

\* What is to be asked is still to be asked when a line goes that asks for nothing.
LEMMA RefreshingKept ==
  ASSUME UNCHANGED completionEvent, Lines \in Seq(Line), Lines' \in Seq(Line), NEW k, Without(Lines, Lines', k),
         Lines[k] \notin Refreshes, work.waits = "state" => work'.waits = "state",
         SomeIn(toChild, AskMessages) => SomeIn(toChild', AskMessages)
  PROVE  Refreshing => Refreshing'
<1>1. Refreshes' = Refreshes
  BY DEF Refreshes
<1>2. SomeIn(Lines, Refreshes) => SomeIn(Lines', Refreshes)
  BY WithoutKeeps
<1> QED BY <1>1, <1>2 DEF Refreshing

\* The child is asked for its state and then its messages.
LEMMA AskedRefreshes ==
  ASSUME Typed, NEW c \in {"state", "messages"}, toChild' = Append(toChild, Ask(c)), work'.waits = c
  PROVE  Refreshing'
<1>1. CASE c = "state"
  BY <1>1 DEF Refreshing
<1>2. CASE c = "messages"
  <2> DEFINE x == Ask(c)
  <2>1. x \in CommandLine /\ x \in AskMessages
    BY <1>2 DEF Ask, Command, CommandLine, AskMessages, Questions
  <2>2. toChild \in Seq(CommandLine) /\ toChild' = Append(toChild, x)
    BY DEF Typed
  <2> HIDE DEF x
  <2>3. SomeIn(Append(toChild, x), AskMessages) <=> SomeIn(toChild, AskMessages) \/ x \in AskMessages
    BY <2>1, <2>2, OneMore
  <2> QED BY <2>1, <2>2, <2>3 DEF Refreshing
<1> QED BY <1>1, <1>2

\* A line becomes one that its own followers may wait for.
LEMMA InsteadFollowed ==
  ASSUME NEW L, NEW M, NEW k, Instead(L, M, k), NEW S, NEW E, M[k] \in E, M[k] \notin S
  PROVE  SomeIn(M, E) /\ (Followed(L, S, E) => Followed(M, S, E))
<1>1. Len(M) = Len(L) /\ k \in 1..Len(L) /\ \A i \in 1..Len(L) : i # k => M[i] = L[i]
  BY DEF Instead
<1> QED BY <1>1 DEF SomeIn, Followed

\* The server reads an answer.
LEMMA AnswerMirror ==
  ASSUME Inv, Mirror, AnswerRead, NEW l, l = Head(fromChild),
         Accepted(l) \/ Resent(l) \/ SessionAnswered(l) \/ StateAnswered(l) \/ MessagesAnswered(l) \/ RestAnswered(l)
  PROVE  Mirror'
<1> DEFINE k == Len(records) + 1
<1>1. /\ Typed /\ records \in Seq(Line) /\ fromChild \in Seq(Line)
      /\ Lines[k] = l /\ Lines \in Seq(Line) /\ k \in 1..Len(Lines)
  BY AnswerFacts
<1>2. /\ l \in AnswerLine /\ UNCHANGED <<completionEvent, history, turn>>
      /\ fromChild # <<>> /\ fromChild' = Tail(fromChild)
  BY DEF AnswerRead, child
<1>3. records' = records => Lines' \in Seq(Line) /\ Without(Lines, Lines', k)
  BY AnswerWithout
<1>4. l.to \in Questions /\ records' = records =>
        l.to = work.waits /\ ~SomeIn(toChild, Asking) /\ ~SomeIn(Lines', Answering)
  BY QuestionAnswered
<1>5. Record("rebootstrap") \in RecordLine /\ Record("rebootstrap").kind = "rebootstrap"
      /\ Record("rebootstrap") \in Line
  BY RecordTyped DEF RecordKinds, Line
<1>6. records' = Append(records, Record("rebootstrap")) =>
        Lines' \in Seq(Line) /\ Instead(Lines, Lines', k) /\ Lines'[k] = Record("rebootstrap")
  BY <1>1, <1>2, <1>5, AnswerChanges
<1> HIDE DEF k
<1>7. /\ l \in Refreshes <=> l.to = "new" /\ l.says # "cancelled"
      /\ l \notin Others /\ (l \in MessagesAnswers <=> l.to = "messages")
  BY <1>2, MirrorClasses DEF Line
<1>8. CASE Accepted(l) \/ Resent(l)
  <2>0. SomeIn(toChild, AskMessages) => SomeIn(toChild', AskMessages)
    <3> DEFINE c == Command("prompt", l.of, TRUE)
    <3>1. toChild' = toChild \/ (l.to = "prompt" /\ toChild' = Append(toChild, c))
      BY <1>8 DEF Accepted, Resent, Sends
    <3>2. l.to = "prompt" => c \in CommandLine
      BY <1>2 DEF Command, CommandLine, AnswerLine
    <3>3. toChild \in Seq(CommandLine)
      BY <1>1 DEF Typed
    <3> HIDE DEF c
    <3>4. ASSUME c \in CommandLine
          PROVE  SomeIn(Append(toChild, c), AskMessages) <=> SomeIn(toChild, AskMessages) \/ c \in AskMessages
      BY <3>3, <3>4, OneMore
    <3> QED BY <3>1, <3>2, <3>4
  <2>1. l.to = "prompt" /\ UNCHANGED <<messages, records, work>>
    BY <1>8 DEF Accepted, Resent
  <2>2. Lines' \in Seq(Line) /\ Without(Lines, Lines', k) /\ l \notin Refreshes /\ l \notin MessagesAnswers
    BY <1>3, <1>7, <2>1
  <2>3. Refreshing => Refreshing'
    BY <1>1, <1>2, <2>0, <2>1, <2>2, RefreshingKept
  <2> QED BY <1>1, <1>2, <1>7, <2>1, <2>2, <2>3, LineGone
<1>9. CASE SessionAnswered(l)
  <2>1. /\ l.to = "new" /\ UNCHANGED <<messages, work, toChild>>
        /\ IF l.says = "cancelled" THEN records' = records ELSE records' = Append(records, Record("rebootstrap"))
    BY <1>9 DEF SessionAnswered
  <2>2. CASE l.says = "cancelled"
    <3>1. Lines' \in Seq(Line) /\ Without(Lines, Lines', k) /\ l \notin Refreshes /\ l \notin MessagesAnswers
      BY <1>3, <1>7, <2>1, <2>2
    <3>2. Refreshing => Refreshing'
      BY <1>1, <1>2, <2>1, <3>1, RefreshingKept
    <3> QED BY <1>1, <1>2, <1>7, <2>1, <3>1, <3>2, LineGone
  <2>3. CASE l.says # "cancelled"
    <3> DEFINE r == Record("rebootstrap")
    <3>1. Instead(Lines, Lines', k) /\ Lines'[k] = r
      BY <1>6, <2>1, <2>3
    <3>2. r \in Refreshes /\ r \notin Writings /\ r \notin Others
      BY <1>5, MirrorClasses
    <3> HIDE DEF r
    <3>3. r \notin Missing
      BY <3>2 DEF Missing
    <3>4. SomeIn(Lines', Refreshes) /\ (Followed(Lines, Writings, Refreshes) => Followed(Lines', Writings, Refreshes))
      BY <3>1, <3>2, InsteadFollowed
    <3>5. Followed(Lines, Missing, Refreshes) => Followed(Lines', Missing, Refreshes)
      BY <3>1, <3>2, <3>3, InsteadFollowed
    <3>6. Refreshes' = Refreshes /\ Missing' = Missing /\ Calm' = Calm
      BY <1>2 DEF Refreshes, Missing, Calm
    <3> QED BY <3>4, <3>5, <3>6 DEF Mirror, Refreshing
  <2> QED BY <2>2, <2>3
<1>10. CASE StateAnswered(l)
  <2>1. /\ l.to = "state" /\ UNCHANGED <<messages, records>>
        /\ toChild' = Append(toChild, Ask("messages")) /\ work'.waits = "messages"
    BY <1>10 DEF StateAnswered, Asks, Sends
  <2>2. Refreshing'
    BY <1>1, <2>1, AskedRefreshes
  <2> QED BY <1>1, <1>2, <1>3, <1>7, <2>1, <2>2, LineGone
<1>11. CASE MessagesAnswered(l)
  <2>1. /\ l.to = "messages" /\ records' = records /\ messages' = l.data
        /\ toChild' = Append(toChild, Ask("rest"))
    BY <1>11 DEF MessagesAnswered, Asks, Sends
  <2>2. /\ Lines' \in Seq(Line) /\ Without(Lines, Lines', k) /\ l \notin Refreshes /\ l \in MessagesAnswers
        /\ work.waits = "messages" /\ ~SomeIn(toChild, Asking) /\ ~SomeIn(Lines', Answering)
    BY <1>3, <1>4, <1>7, <2>1 DEF Questions
  <2>3. /\ Refreshes' = Refreshes /\ Calm' = Calm /\ Missing' = Missing
        /\ Calm => Followed(Lines', Writings, Refreshes)
        /\ Followed(Lines', Missing, Refreshes)
        /\ ToSet(Lines) = ToSet(Lines') \cup {l}
    BY <1>1, <1>2, <2>2, FollowedGone
  <2>4. \A x \in ToSet(Lines') : x \notin MessagesAnswers
    <3>1. \A x \in ToSet(Lines') : x \notin Answering
      BY <2>2, SetSome
    <3> QED BY <3>1 DEF MessagesAnswers, Answering, Questions
  <2>5. Refreshed = {l.data} /\ Refreshed' = {}
    BY <2>2, <2>3, <2>4 DEF Refreshed
  <2>6. Bases = {l.data} /\ Bases' = {l.data}
    BY <2>1, <2>5 DEF Bases
  <2>7. Coming' = Coming
    BY <1>7, <2>3 DEF Coming
  <2>8. Refreshing => Refreshing'
    <3>1. ~SomeIn(toChild, AskMessages)
      BY <2>2 DEF SomeIn, AskMessages, Asking, Questions
    <3> QED BY <1>1, <1>2, <2>2, <3>1, RefreshingKept
  <2>9. Mirrored => Mirrored'
    BY <1>2, <2>6, <2>7 DEF Mirrored
  <2> QED BY <2>3, <2>8, <2>9 DEF Mirror
<1>12. CASE RestAnswered(l)
  <2>1. l.to = "rest" /\ UNCHANGED <<messages, records, toChild>>
    BY <1>12 DEF RestAnswered
  <2>2. /\ Lines' \in Seq(Line) /\ Without(Lines, Lines', k) /\ l \notin Refreshes /\ l \notin MessagesAnswers
        /\ work.waits = "rest"
    BY <1>3, <1>4, <1>7, <2>1 DEF Questions
  <2>3. Refreshing => Refreshing'
    BY <1>1, <1>2, <2>1, <2>2, RefreshingKept
  <2> QED BY <1>1, <1>2, <1>7, <2>1, <2>2, <2>3, LineGone
<1> QED BY <1>8, <1>9, <1>10, <1>11, <1>12

\* Whatever the server reads.
LEMMA LineReadMirror == ASSUME Inv, Mirror, ReadLine PROVE Mirror'
<1>1. fromChild # <<>> /\ fromChild' = Tail(fromChild) /\ UNCHANGED <<completionEvent, child, left>>
  BY DEF ReadLine
<1>2. Head(fromChild) \in Line /\ records \in Seq(Line) /\ fromChild \in Seq(Line)
  BY <1>1, HeadGoes DEF Inv, Typed, Line
<1>3. CASE Head(fromChild).kind = "answer"
  <2>1. AnswerRead
    BY <1>1, <1>2, <1>3, RecordClasses DEF AnswerRead, Line, RecordKinds
  <2> QED BY <1>3, <2>1, AnswerMirror DEF ReadLine
<1>4. CASE Head(fromChild).kind # "answer"
  <2>1. records' = Append(records, Head(fromChild)) /\ UNCHANGED <<messages, work, toChild>>
    BY <1>4 DEF ReadLine
  <2>2. Lines' = Lines
    BY <1>1, <1>2, <2>1, LinesStay
  <2>3. Refreshing => Refreshing'
    BY <1>1, <2>1, <2>2 DEF Refreshing, Refreshes
  <2> QED BY <1>1, <2>1, <2>2, <2>3, MirrorStays DEF child
<1> QED BY <1>3, <1>4

\* The record that is handled was the first of the lines, and no answer is on its way.
LEMMA TakenMirror ==
  ASSUME Inv, Mirror, RecordTaken
  PROVE  /\ UNCHANGED <<completionEvent, history, turn>> /\ Lines \in Seq(Line) /\ Lines' \in Seq(Line)
         /\ Without(Lines, Lines', 1) /\ Lines[1] = Head(records) /\ Head(records) \in RecordLine
         /\ Typed /\ Lines[1] \notin MessagesAnswers /\ 1 \in 1..Len(Lines)
<1>1. Head(records) \in RecordLine /\ Lines[1] = Head(records)
  BY TakenFacts
<1> QED BY <1>1, TakenFacts, RecordClasses DEF RecordTaken, child

\* A record that has nothing to do with the mirror.
LEMMA QuietTaken ==
  ASSUME Inv, Mirror, RecordTaken, UNCHANGED <<messages, work, toChild>>,
         Head(records).kind \notin {completionEvent, "compaction_end", "rebootstrap", "message_end"}
  PROVE  Mirror'
<1>1. /\ UNCHANGED <<completionEvent, history, turn>> /\ Lines \in Seq(Line) /\ Lines' \in Seq(Line)
      /\ Without(Lines, Lines', 1) /\ Lines[1] = Head(records) /\ Head(records) \in RecordLine
      /\ Lines[1] \notin MessagesAnswers
  BY TakenMirror
<1>2. Lines[1] \notin Refreshes /\ Lines[1] \notin Others
  BY <1>1, MirrorClasses DEF Line
<1>3. Refreshing => Refreshing'
  BY <1>1, <1>2, RefreshingKept
<1> QED BY <1>1, <1>2, <1>3, LineGone

\* A record that has the child asked for its messages.
LEMMA AskingTaken ==
  ASSUME Inv, Mirror, RecordTaken, NEW task, NEW c \in {"state", "messages"}, Asks(task, c)
  PROVE  Mirror'
<1>1. /\ UNCHANGED <<completionEvent, history, turn>> /\ Lines \in Seq(Line) /\ Lines' \in Seq(Line)
      /\ Without(Lines, Lines', 1) /\ Typed
  BY TakenMirror
<1>2. Refreshing'
  BY <1>1, AskedRefreshes DEF Asks, Sends
<1> QED BY <1>1, <1>2, LineGone

\* A record that is taken with one of its like still to be refreshed: the end of its reply or turn.
LEMMA RefreshBehind ==
  ASSUME Inv, Mirror, RecordTaken, NEW j \in 1..Len(Lines), 1 < j, Lines[j] \in Refreshes
  PROVE  Mirror'
<1>1. /\ UNCHANGED <<completionEvent, history, turn>> /\ Lines \in Seq(Line) /\ Lines' \in Seq(Line)
      /\ Without(Lines, Lines', 1)
  BY TakenMirror
<1>2. j - 1 \in 1..Len(Lines') /\ Lines'[j - 1] = Lines[j]
  BY <1>1, WithoutPlaces
<1>3. SomeIn(Lines', Refreshes) /\ Refreshes' = Refreshes
  BY <1>1, <1>2 DEF SomeIn, Refreshes
<1>4. Refreshing'
  BY <1>3 DEF Refreshing
<1> QED BY <1>1, <1>4, LineGone

\* A turn that runs promises nothing of the mirror.
LEMMA BusyTaken == ASSUME Inv, Mirror, RecordTaken, ~Calm PROVE Mirror'
<1>1. /\ UNCHANGED <<completionEvent, history, turn>> /\ Lines \in Seq(Line) /\ Lines' \in Seq(Line)
      /\ Without(Lines, Lines', 1)
  BY TakenMirror
<1>2. Calm' = Calm /\ Refreshes' = Refreshes /\ Followed(Lines', Missing', Refreshes)
  BY <1>1, FollowedGone
<1> QED BY <1>2 DEF Mirror

\* A reply starts: once the child is calm, the refresh that its end or its turn's is followed by is
\* behind it.
LEMMA MessageStartMirror ==
  ASSUME Inv, Mirror, RecordTaken, Head(records).kind = "message_start" PROVE Mirror'
<1>1. /\ Lines \in Seq(Line) /\ Lines[1] = Head(records) /\ Head(records) \in RecordLine /\ 1 \in 1..Len(Lines)
  BY TakenMirror
<1>2. CASE Calm
  <2>1. turn # "replying"
    BY <1>2 DEF Calm
  <2>2. Followed(Lines, PartialStarts, PartialEnds)
    BY <2>1 DEF Inv, OnePartial, PartialAt
  <2>3. Lines[1] \in PartialStarts
    BY <1>1 DEF PartialStarts
  <2>4. PICK j \in 1..Len(Lines) : 1 < j /\ Lines[j] \in PartialEnds
    BY <1>1, <2>2, <2>3 DEF Followed
  <2>5. CASE Lines[j].kind = completionEvent
    <3>1. Lines[j] \in Refreshes
      BY <2>4, <2>5 DEF Refreshes, PartialEnds
    <3> QED BY <2>4, <3>1, RefreshBehind
  <2>6. CASE Lines[j].kind # completionEvent
    <3>1. Lines[j] \in Writings
      BY <2>4, <2>6 DEF Writings, PartialEnds, Written
    <3>2. PICK e \in 1..Len(Lines) : j < e /\ Lines[e] \in Refreshes
      BY <1>2, <3>1 DEF Mirror, Followed
    <3>3. 1 < e
      BY <2>4, <3>2
    <3> QED BY <3>2, <3>3, RefreshBehind
  <2> QED BY <2>5, <2>6
<1>3. CASE ~Calm
  BY <1>3, BusyTaken
<1> QED BY <1>2, <1>3

\* A message ends: a prompt's or a reply's has a refresh behind it once the child is calm, and an
\* extension's is put at the end of the mirror.
LEMMA MessageEndMirror ==
  ASSUME Inv, Mirror, RecordTaken, MessageEnd(Head(records).message), Head(records).kind = "message_end" PROVE Mirror'
<1> DEFINE m == Head(records).message
<1>1. /\ UNCHANGED <<completionEvent, history, turn>> /\ Lines \in Seq(Line) /\ Lines' \in Seq(Line)
      /\ Without(Lines, Lines', 1) /\ Lines[1] = Head(records) /\ Head(records) \in RecordLine
      /\ Typed /\ Lines[1] \notin MessagesAnswers /\ 1 \in 1..Len(Lines)
  BY TakenMirror
<1>2. m \in Spoken /\ m \in Message /\ Lines[1].message = m
  BY <1>1, RecordClasses DEF Spoken
<1>3. CASE ~Calm
  BY <1>3, BusyTaken
<1>4. CASE Calm /\ Written(m)
  <2>1. Lines[1] \in Writings
    BY <1>1, <1>4 DEF Writings
  <2>2. PICK e \in 1..Len(Lines) : 1 < e /\ Lines[e] \in Refreshes
    BY <1>1, <1>4, <2>1 DEF Mirror, Followed
  <2> QED BY <2>2, RefreshBehind
<1>5. CASE ~Written(m)
  <2>1. /\ messages' = Append(messages, m) /\ UNCHANGED <<work, toChild>> /\ messages \in Seq(Message)
    BY <1>1, <1>5 DEF MessageEnd, Written, Typed
  <2> HIDE DEF m
  <2>2. Lines[1] \notin Refreshes /\ Lines[1] \in Others
    <3>1. Lines[1] \in Others
      BY <1>1, <1>2, <1>5 DEF Others
    <3>2. completionEvent \in {"agent_settled", "agent_end"}
      BY <1>1 DEF Typed
    <3> QED BY <1>1, <3>1, <3>2, MirrorClasses DEF Line
  <2>3. /\ Refreshes' = Refreshes /\ Calm' = Calm /\ Missing' = Missing
        /\ Calm => Followed(Lines', Writings, Refreshes)
        /\ Followed(Lines', Missing, Refreshes)
        /\ ToSet(Lines) = ToSet(Lines') \cup {Lines[1]}
    BY <1>1, FollowedGone
  <2>4. Coming = Coming' \cup {m}
    BY <1>2, <2>2, <2>3 DEF Coming
  <2>5. Refreshed = {} /\ Refreshed' = {}
    <3>1. ~SomeIn(Lines', Answering)
      BY TakenFacts
    <3>2. \A x \in ToSet(Lines') : x \notin Answering
      BY <1>1, <3>1, SetSome
    <3>3. \A x \in ToSet(Lines') : x \notin MessagesAnswers
      BY <3>2 DEF MessagesAnswers, Answering, Questions
    <3> QED BY <1>1, <2>3, <3>3 DEF Refreshed
  <2>6. ToSet(messages') = ToSet(messages) \cup {m}
    <3> DEFINE one == <<m>>
    <3>1. one \in Seq(Message) /\ messages' = messages \o one
      BY <1>2, <2>1
    <3>2. ToSet(one) = {m}
      BY DEF ToSet
    <3> HIDE DEF one
    <3>3. ToSet(messages \o one) = ToSet(messages) \cup ToSet(one)
      BY <2>1, <3>1, SetConcat
    <3> QED BY <3>1, <3>2, <3>3
  <2>7. WrittenIn(messages') = WrittenIn(messages)
    BY <1>2, <1>5, <2>1, WrittenStays
  <2>8. Bases = {messages} /\ Bases' = {messages'}
    BY <2>5 DEF Bases
  <2>9. Mirrored => Mirrored'
    BY <1>1, <2>4, <2>6, <2>7, <2>8 DEF Mirrored
  <2>10. Refreshing => Refreshing'
    BY <1>1, <2>1, <2>2, RefreshingKept
  <2> QED BY <2>3, <2>9, <2>10 DEF Mirror
<1> QED BY <1>3, <1>4, <1>5

\* Whatever record is handled.
LEMMA HandleMirror == ASSUME Inv, Mirror, HandleRecord PROVE Mirror'
<1> DEFINE r == Head(records)
<1>1. RecordTaken /\ Handles(r)
  BY DEF HandleRecord, RecordTaken
<1>2. r.kind \in RecordKinds /\ completionEvent \in {"agent_settled", "agent_end"}
  BY <1>1, TakenMirror, RecordClasses DEF Typed
<1>3. ASSUME Ignored \/ Runs, r.kind \notin {completionEvent, "compaction_end", "rebootstrap", "message_end"}
      PROVE  Mirror'
  BY <1>1, <1>3, QuietTaken DEF Ignored, Runs
<1>4. ASSUME CompleteTurn PROVE Mirror'
  BY <1>1, <1>4, AskingTaken DEF CompleteTurn
<1>5. CASE r.kind = "agent_start"
  BY <1>1, <1>2, <1>3, <1>5 DEF Handles
<1>6. CASE r.kind \in {"agent_end", "agent_settled"}
  <2>1. IF r.kind = completionEvent THEN CompleteTurn ELSE Ignored
    BY <1>1, <1>6 DEF Handles
  <2> QED BY <1>3, <1>4, <1>6, <2>1
<1>7. CASE r.kind = "message_start"
  BY <1>1, <1>7, MessageStartMirror
<1>8. CASE r.kind = "message_end"
  BY <1>1, <1>8, MessageEndMirror DEF Handles
<1>9. CASE r.kind = "auto_retry_start"
  <2>1. Ignored \/ Runs
    BY <1>1, <1>9 DEF Handles
  <2> QED BY <1>2, <1>3, <1>9, <2>1
<1>10. CASE r.kind = "auto_retry_failed"
  <2>1. CompleteTurn \/ Ignored
    BY <1>1, <1>10 DEF Handles
  <2> QED BY <1>2, <1>3, <1>4, <1>10, <2>1
<1>11. CASE r.kind = "compaction_end"
  <2>1. Asks("compaction", "messages")
    BY <1>1, <1>11 DEF Handles
  <2> QED BY <1>1, <2>1, AskingTaken
<1>12. CASE r.kind = "rebootstrap"
  <2>1. Asks("session", "state")
    BY <1>1, <1>12 DEF Handles
  <2> QED BY <1>1, <2>1, AskingTaken
<1> QED BY <1>2, <1>5, <1>6, <1>7, <1>8, <1>9, <1>10, <1>11, <1>12 DEF RecordKinds

\* A command changes nothing of what is said, nor does a step that changes nothing.
LEMMA CommandMirror ==
  ASSUME Inv, Mirror, AskNewSession \/ Abort \/ (\E p \in Prompt : SendPrompt(p)) \/ UNCHANGED vars
  PROVE  Mirror'
<1>1. UNCHANGED <<completionEvent, messages, records, work, fromChild, history, turn>>
  BY DEF AskNewSession, Abort, SendPrompt, vars, server, child
<1>2. Lines' = Lines /\ Refreshes' = Refreshes
  BY <1>1 DEF Lines, Refreshes
<1>3. toChild' = toChild \/ \E c \in CommandLine : toChild' = Append(toChild, c)
  <2>1. Ask("new") \in CommandLine /\ Ask("abort") \in CommandLine
    BY DEF Ask, Command, CommandLine
  <2>2. \A p \in Prompt : Command("prompt", p, streaming) \in CommandLine
    BY DEF Command, CommandLine, Inv, Typed
  <2> QED BY <2>1, <2>2 DEF AskNewSession, Abort, SendPrompt, vars, server, Sends
<1>4. SomeIn(toChild, AskMessages) => SomeIn(toChild', AskMessages)
  <2>1. toChild \in Seq(CommandLine)
    BY DEF Inv, Typed
  <2>2. ASSUME NEW c \in CommandLine, toChild' = Append(toChild, c)
        PROVE  SomeIn(toChild, AskMessages) => SomeIn(toChild', AskMessages)
    <3>1. SomeIn(Append(toChild, c), AskMessages) <=> SomeIn(toChild, AskMessages) \/ c \in AskMessages
      BY <2>1, OneMore
    <3> QED BY <2>2, <3>1
  <2>3. toChild' = toChild => (SomeIn(toChild, AskMessages) => SomeIn(toChild', AskMessages))
    OBVIOUS
  <2> QED BY <1>3, <2>2, <2>3
<1>5. Refreshing => Refreshing'
  BY <1>1, <1>2, <1>4 DEF Refreshing
<1> QED BY <1>1, <1>2, <1>5, MirrorStays

\* At first neither has a message.
LEMMA InitMirror == Init => Mirror
<1> SUFFICES ASSUME Init PROVE Mirror
  OBVIOUS
<1>1. Lines = <<>> /\ messages = <<>> /\ history = <<>>
  BY DEF Init, Lines
<1>2. Followed(<<>>, Writings, Refreshes) /\ Followed(<<>>, Missing, Refreshes)
  BY DEF Followed
<1>3. ToSet(<<>>) = {}
  BY DEF ToSet
<1>4. Coming = {} /\ Refreshed = {}
  BY <1>1, <1>3 DEF Coming, Refreshed
<1>5. Mirrored
  BY <1>1, <1>3, <1>4 DEF Mirrored, Bases
<1> QED BY <1>1, <1>2, <1>5 DEF Mirror

\* Every step keeps the mirror.
LEMMA NextMirror == ASSUME Inv, Mirror, [Next]_vars PROVE Mirror'
<1>1. CASE Terminating
  BY <1>1, CommandMirror DEF Terminating
<1> QED BY <1>1, ReadsMirror, WorksMirror, LineReadMirror, HandleMirror, CommandMirror DEF Next

\* Once nothing is on its way, the mirror holds the child's messages: every prompt and reply once
\* and in order, and no message but the child's (server/src/rpcRuntime.ts:265, 578), after any
\* refreshes, aborts, retries, compactions and new sessions, with the messages of extensions
\* wherever they came.
THEOREM MirrorIsTheChilds == Spec => []MirrorAtRest
<1>1. Init => Mirror
  BY InitMirror
<1>2. Inv /\ Mirror /\ [Next]_vars => Mirror'
  BY NextMirror
<1>3. Inv /\ Mirror => MirrorAtRest
  <2> SUFFICES ASSUME Inv, Mirror, AtRest
               PROVE  WrittenIn(messages) = WrittenIn(history) /\ ToSet(messages) = ToSet(history)
    BY DEF MirrorAtRest
  <2>1. Lines = <<>> /\ toChild = <<>> /\ turn = "idle" /\ work.waits = "none"
    BY DEF AtRest, Lines, Done
  <2>2. Calm /\ ~Refreshing
    <3>1. \A E : ~SomeIn(<<>>, E)
      BY DEF SomeIn
    <3> QED BY <2>1, <3>1 DEF Calm, Refreshing
  <2>3. Mirrored
    BY <2>2 DEF Mirror
  <2>4. ToSet(Lines) = {}
    BY <2>1 DEF ToSet
  <2>5. Coming = {} /\ Bases = {messages}
    BY <2>4 DEF Coming, Refreshed, Bases
  <2> QED BY <2>3, <2>5 DEF Mirrored
<1> QED BY <1>1, <1>2, <1>3, InvAlways, PTL DEF Spec

===============================================================================
