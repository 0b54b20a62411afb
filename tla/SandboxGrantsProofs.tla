------------------------ MODULE SandboxGrantsProofs ------------------------
(***************************************************************************)
(* Theorems about SandboxGrants, for every set of clients, requests, hosts *)
(* and directories and every assignment of grants to requests.             *)
(***************************************************************************)
EXTENDS SandboxGrants, FiniteSetTheorems, SequenceTheorems, TLAPS

USE DEF Decisions, Outcomes, Approved, Status

\* Merging two grants (sandboxGrants.ts, mergeGrants) gives a grant.
LEMMA MergeIsGrant ==
  ASSUME NEW g \in Grant, NEW h \in Grant
  PROVE  MergeGrants(g, h) \in Grant
BY DEF MergeGrants, Wider, Grant, Access

LEMMA EmptyIsGrant == EmptyGrant \in Grant
BY DEF EmptyGrant, Grant, Access

\* The three kinds of message the broker announces.
LEMMA MessagesTyped ==
  ASSUME NEW r \in Requests, NEW g \in Grant
  PROVE  /\ [type |-> "request", id |-> r] \in Message
         /\ Resolved(r) \in Message
         /\ Grants(g) \in Message
BY DEF Message, Resolved, Grants

\* A function on 1..n is a sequence.
LEMMA FunctionIsSeq ==
  ASSUME NEW S, NEW n \in Nat, NEW f \in [1..n -> S]
  PROVE  f \in Seq(S)
BY SeqDef, Zenon

\* Announcing messages (index.ts, broadcast) keeps every inbox a sequence of messages.
LEMMA AnnounceTyped ==
  ASSUME TypeOK, NEW messages \in Seq(Message), Announce(messages)
  PROVE  inbox' \in [Clients -> Seq(Message)]
BY DEF TypeOK, Announce

\* A settlement keeps the broker's variables typed, whatever the outcome.
LEMMA SettleTyped ==
  ASSUME GrantsAssumption, TypeOK, NEW r \in Requests, NEW o \in Outcomes, Settle(r, o)
  PROVE  /\ status' \in [Requests -> Status]
         /\ active' \in Grant
         /\ inbox' \in [Clients -> Seq(Message)]
         /\ kept' \in SUBSET Requests
<1>1. GrantOf[r] \in Grant
  BY DEF GrantsAssumption
<1>2. status' \in [Requests -> Status] /\ kept' \in SUBSET Requests
  BY DEF TypeOK, Settle
<1>3. Resolved(r) \in Message
  BY MessagesTyped, EmptyIsGrant
<1>4. CASE o = "approved-session"
  <2>1. active' \in Grant
    BY <1>1, <1>4, MergeIsGrant DEF TypeOK, Settle
  <2>2. <<Grants(active'), Resolved(r)>> \in Seq(Message)
    BY <2>1, <1>3 DEF Grants, Message
  <2> QED
    BY <1>2, <1>4, <2>1, <2>2, AnnounceTyped DEF Settle
<1>5. CASE o # "approved-session"
  <2>1. <<Resolved(r)>> \in Seq(Message)
    BY <1>3
  <2> QED
    BY <1>2, <1>5, <2>1, AnnounceTyped DEF Settle, TypeOK
<1> QED
  BY <1>4, <1>5

\* Every reachable state is typed.
THEOREM GrantsTypeCorrect == GrantsAssumption => (Spec => []TypeOK)
<1> SUFFICES ASSUME GrantsAssumption PROVE Spec => []TypeOK
  OBVIOUS
<1>1. Init => TypeOK
  BY EmptyIsGrant DEF Init, TypeOK, NoView, GrantsAssumption
<1>2. TypeOK /\ [Next]_vars => TypeOK'
  <2> SUFFICES ASSUME TypeOK, [Next]_vars PROVE TypeOK'
    OBVIOUS
  <2>1. ASSUME NEW r \in Requests, Ask(r) PROVE TypeOK'
    <3>1. <<[type |-> "request", id |-> r]>> \in Seq(Message)
      BY MessagesTyped, EmptyIsGrant
    <3>2. inbox' \in [Clients -> Seq(Message)]
      <4>1. CASE status'[r] = "pending"
        BY <2>1, <3>1, <4>1, AnnounceTyped DEF Ask
      <4>2. CASE status'[r] # "pending"
        BY <2>1, <4>2 DEF Ask, TypeOK
      <4> QED
        BY <4>1, <4>2
    <3> QED
      BY <2>1, <3>2 DEF Ask, TypeOK
  <2>2. ASSUME NEW r \in Requests, Expire(r) PROVE TypeOK'
    <3>1. Settle(r, "expired")
      BY <2>2 DEF Expire
    <3> QED
      BY <2>2, <3>1, SettleTyped DEF Expire, TypeOK
  <2>3. ASSUME NEW r \in Requests, Abort(r) PROVE TypeOK'
    <3>1. CASE r \in Pending
      <4>1. Settle(r, "aborted")
        BY <2>3, <3>1 DEF Abort
      <4> QED
        BY <2>3, <4>1, SettleTyped DEF Abort, TypeOK
    <3>2. CASE r \notin Pending
      BY <2>3, <3>2 DEF Abort, TypeOK
    <3> QED
      BY <3>1, <3>2
  <2>4. ASSUME NEW c \in Clients, AnswerArrives(c) PROVE TypeOK'
    <3>1. Head(answers[c]) \in Answer /\ Tail(answers[c]) \in Seq(Answer)
      BY <2>4 DEF AnswerArrives, TypeOK
    <3>2. OutcomeOf(Head(answers[c]).decision) \in Outcomes
      BY <3>1 DEF OutcomeOf, Answer
    <3>3. answers' \in [Clients -> Seq(Answer)]
      BY <2>4, <3>1 DEF AnswerArrives, TypeOK
    <3> DEFINE a == Head(answers[c])
    <3>4. a.id \in Requests
      BY <3>1 DEF Answer
    <3>5. CASE a.id \in Pending
      <4>1. Settle(a.id, OutcomeOf(a.decision))
        BY <2>4, <3>5 DEF AnswerArrives
      <4> QED
        BY <2>4, <3>2, <3>3, <3>4, <4>1, SettleTyped DEF AnswerArrives, TypeOK
    <3>6. CASE a.id \notin Pending
      BY <2>4, <3>3, <3>6 DEF AnswerArrives, TypeOK
    <3> QED
      BY <3>5, <3>6
  <2>5. ASSUME NEW c \in Clients, Connect(c) PROVE TypeOK'
    BY <2>5 DEF Connect, TypeOK, State, Pending
  <2>6. ASSUME NEW c \in Clients, Disconnect(c) PROVE TypeOK'
    BY <2>6, EmptyIsGrant DEF Disconnect, TypeOK, NoView
  <2>7. ASSUME NEW c \in Clients, ClientReceives(c) PROVE TypeOK'
    <3> DEFINE msg == Head(inbox[c])
    <3>1. msg \in Message /\ Tail(inbox[c]) \in Seq(Message)
      BY <2>7 DEF ClientReceives, TypeOK
    <3>2. view[c] \in [pending: SUBSET Requests, active: Grant]
      BY DEF TypeOK
    <3>3. Apply(view[c], msg) \in [pending: SUBSET Requests, active: Grant]
      <4>1. CASE msg \in [type: {"request"}, id: Requests]
        BY <3>2, <4>1 DEF Apply
      <4>2. CASE msg \in [type: {"resolved"}, id: Requests]
        BY <3>2, <4>2 DEF Apply
      <4>3. CASE msg \in [type: {"grants"}, active: Grant]
        BY <3>2, <4>3 DEF Apply
      <4> QED
        BY <3>1, <4>1, <4>2, <4>3 DEF Message
    <3> HIDE DEF msg
    <3>4. view' = [view EXCEPT ![c] = Apply(@, msg)]
      BY <2>7 DEF ClientReceives, msg
    <3>5. view' \in [Clients -> [pending: SUBSET Requests, active: Grant]]
      BY <3>3, <3>4 DEF TypeOK
    <3>6. inbox' \in [Clients -> Seq(Message)]
      BY <2>7, <3>1 DEF ClientReceives, TypeOK
    <3> QED
      BY <2>7, <3>5, <3>6 DEF ClientReceives, TypeOK
  <2>8. ASSUME NEW c \in Clients, NEW r \in Requests, NEW d \in Decisions, Respond(c, r, d) PROVE TypeOK'
    <3>1. [id |-> r, decision |-> d] \in Answer
      BY DEF Answer
    <3>2. answers' \in [Clients -> Seq(Answer)]
      BY <2>8, <3>1 DEF Respond, TypeOK
    <3> QED
      BY <2>8, <3>2 DEF Respond, TypeOK
  <2>9. CASE EndSession
    <3>1. status' \in [Requests -> Status] /\ active' \in Grant /\ kept' \in SUBSET Requests
      BY <2>9, EmptyIsGrant DEF EndSession, TypeOK
    <3>2. session' \in 1..MaxSessions
      BY <2>9 DEF EndSession, TypeOK, GrantsAssumption
    <3>3. inbox' \in [Clients -> Seq(Message)]
      <4>1. Cardinality(Pending) \in Nat
        BY FS_Subset, FS_CardinalityType DEF Pending, GrantsAssumption
      <4>2. PICK order \in SetToSeqs(Pending) :
              Announce([i \in 1..Len(order) |-> Resolved(order[i])]
                       \o IF active # EmptyGrant THEN <<Grants(EmptyGrant)>> ELSE <<>>)
        BY <2>9 DEF EndSession
      <4>3. order \in Seq(Requests)
        <5>1. order \in [1..Cardinality(Pending) -> Pending]
          BY DEF SetToSeqs
        <5>2. Pending \subseteq Requests
          BY DEF Pending
        <5>3. order \in [1..Cardinality(Pending) -> Requests]
          BY <5>1, <5>2
        <5> QED
          BY <4>1, <5>3, FunctionIsSeq
      <4>4. [i \in 1..Len(order) |-> Resolved(order[i])] \in Seq(Message)
        <5>1. \A i \in 1..Len(order) : Resolved(order[i]) \in Message
          BY <4>3, ElementOfSeq DEF Resolved, Message
        <5>2. Len(order) \in Nat
          BY <4>3
        <5>3. [i \in 1..Len(order) |-> Resolved(order[i])] \in [1..Len(order) -> Message]
          BY <5>1
        <5> QED
          BY <5>2, <5>3, FunctionIsSeq
      <4>5. (IF active # EmptyGrant THEN <<Grants(EmptyGrant)>> ELSE <<>>) \in Seq(Message)
        <5>1. Grants(EmptyGrant) \in Message
          BY EmptyIsGrant DEF Grants, Message
        <5> QED
          BY <5>1
      <4> QED
        <5> DEFINE settled == [i \in 1..Len(order) |-> Resolved(order[i])]
                   ended == IF active # EmptyGrant THEN <<Grants(EmptyGrant)>> ELSE <<>>
        <5>1. settled \o ended \in Seq(Message)
          BY <4>4, <4>5
        <5>2. Announce(settled \o ended)
          BY <4>2
        <5> QED
          BY <5>1, <5>2, AnnounceTyped
    <3> QED
      BY <2>9, <3>1, <3>2, <3>3 DEF EndSession, TypeOK
  <2>10. CASE UNCHANGED vars
    BY <2>10 DEF vars, TypeOK
  <2> QED
    BY <2>1, <2>2, <2>3, <2>4, <2>5, <2>6, <2>7, <2>8, <2>9, <2>10 DEF Next
<1> QED
  BY <1>1, <1>2, PTL DEF Spec

\* A settlement keeps the session's grants equal to what was approved in it.
LEMMA SettleApproved ==
  ASSUME GrantsAssumption, TypeOK, ActiveIsWhatWasApproved,
         NEW r \in Pending, NEW o \in Outcomes, Settle(r, o)
  PROVE  ActiveIsWhatWasApproved'
<1>1. r \in Requests /\ r \notin kept /\ status[r] = "pending"
  BY DEF Pending, ActiveIsWhatWasApproved
<1>2. \A q \in Requests : GrantOf[q] \in Grant
  BY DEF GrantsAssumption
<1>3. \A q \in kept' : status'[q] = "approved-session"
  BY <1>1 DEF Settle, TypeOK, ActiveIsWhatWasApproved
<1>4. CASE o = "approved-session"
  <2>1. active' = MergeGrants(active, GrantOf[r]) /\ kept' = kept \cup {r}
    BY <1>4 DEF Settle
  <2>2. active'.hosts = UNION {GrantOf[q].hosts : q \in kept'}
    <3>1. active'.hosts = active.hosts \cup GrantOf[r].hosts
      BY <2>1 DEF MergeGrants
    <3> QED
      BY <2>1, <3>1 DEF ActiveIsWhatWasApproved
  <2>3. ASSUME NEW d \in Dirs
        PROVE  /\ active'.dirs[d] = "write" <=> \E q \in kept' : GrantOf[q].dirs[d] = "write"
               /\ active'.dirs[d] = "none" <=> \A q \in kept' : GrantOf[q].dirs[d] = "none"
    <3>1. active'.dirs[d] = Wider(active.dirs[d], GrantOf[r].dirs[d])
      BY <2>1 DEF MergeGrants
    <3>2. active.dirs[d] \in Access /\ GrantOf[r].dirs[d] \in Access
      BY <1>1, <1>2 DEF TypeOK, Grant
    <3> QED
      BY <2>1, <3>1, <3>2 DEF ActiveIsWhatWasApproved, Wider, Access
  <2> QED
    BY <1>3, <2>2, <2>3 DEF ActiveIsWhatWasApproved
<1>5. CASE o # "approved-session"
  BY <1>3, <1>5 DEF Settle, ActiveIsWhatWasApproved
<1> QED
  BY <1>4, <1>5

\* A step that leaves statuses, grants and history alone keeps the invariant, and so does one that
\* changes only the status of a request not yet asked.
LEMMA OthersApproved ==
  ASSUME TypeOK, ActiveIsWhatWasApproved, UNCHANGED <<active, kept>>,
         \A q \in Requests : status[q] = "approved-session" => status'[q] = status[q]
  PROVE  ActiveIsWhatWasApproved'
BY DEF ActiveIsWhatWasApproved, TypeOK

\* What every command of a session launches with is what the user approved for that session: the
\* grants of the sandbox (sandboxGrantBroker.ts:67) in every reachable state.
THEOREM GrantsAreWhatWasApproved == GrantsAssumption => (Spec => []ActiveIsWhatWasApproved)
<1> SUFFICES ASSUME GrantsAssumption PROVE Spec => []ActiveIsWhatWasApproved
  OBVIOUS
<1>1. Init => ActiveIsWhatWasApproved
  BY DEF Init, ActiveIsWhatWasApproved, EmptyGrant
<1>2. TypeOK /\ ActiveIsWhatWasApproved /\ [Next]_vars => ActiveIsWhatWasApproved'
  <2> SUFFICES ASSUME TypeOK, ActiveIsWhatWasApproved, [Next]_vars PROVE ActiveIsWhatWasApproved'
    OBVIOUS
  <2>1. ASSUME NEW r \in Requests, Ask(r) PROVE ActiveIsWhatWasApproved'
    BY <2>1, OthersApproved DEF Ask, TypeOK
  <2>2. ASSUME NEW r \in Requests, Expire(r) PROVE ActiveIsWhatWasApproved'
    BY <2>2, SettleApproved DEF Expire
  <2>3. ASSUME NEW r \in Requests, Abort(r) PROVE ActiveIsWhatWasApproved'
    <3>1. CASE r \in Pending
      BY <2>3, <3>1, SettleApproved DEF Abort
    <3>2. CASE r \notin Pending
      BY <2>3, <3>2, OthersApproved DEF Abort
    <3> QED
      BY <3>1, <3>2
  <2>4. ASSUME NEW c \in Clients, AnswerArrives(c) PROVE ActiveIsWhatWasApproved'
    <3> DEFINE a == Head(answers[c])
    <3>1. a \in Answer
      BY <2>4 DEF AnswerArrives, TypeOK
    <3>2. OutcomeOf(a.decision) \in Outcomes
      BY <3>1 DEF OutcomeOf, Answer
    <3>3. CASE a.id \in Pending
      <4>1. Settle(a.id, OutcomeOf(a.decision))
        BY <2>4, <3>3 DEF AnswerArrives
      <4> QED
        BY <3>2, <3>3, <4>1, SettleApproved
    <3>4. CASE a.id \notin Pending
      BY <2>4, <3>4, OthersApproved DEF AnswerArrives
    <3> QED
      BY <3>3, <3>4
  <2>5. ASSUME NEW c \in Clients, Connect(c) \/ Disconnect(c) \/ ClientReceives(c)
        PROVE  ActiveIsWhatWasApproved'
    BY <2>5, OthersApproved DEF Connect, Disconnect, ClientReceives
  <2>6. ASSUME NEW c \in Clients, NEW r \in Requests, NEW d \in Decisions, Respond(c, r, d)
        PROVE  ActiveIsWhatWasApproved'
    BY <2>6, OthersApproved DEF Respond
  <2>7. CASE EndSession
    BY <2>7 DEF EndSession, ActiveIsWhatWasApproved, EmptyGrant
  <2>8. CASE UNCHANGED vars
    BY <2>8, OthersApproved DEF vars
  <2> QED
    BY <2>1, <2>2, <2>3, <2>4, <2>5, <2>6, <2>7, <2>8 DEF Next
<1> QED
  BY <1>1, <1>2, GrantsTypeCorrect, PTL DEF Spec

-----------------------------------------------------------------------------
(* What the browsers show                                                  *)

\* A set of natural numbers that is not empty has a least element.
LEMMA Least ==
  ASSUME NEW T \in SUBSET Nat, T # {}
  PROVE  \E n \in T : \A k \in T : n <= k
<1> DEFINE R == OpToRel(<, Nat)
<1>1. PICK n \in T : \A k \in T : <<k, n>> \notin R
  <2>1. IsWellFoundedOn(R, Nat)
    BY NatLessThanWellFounded
  <2> HIDE DEF R
  <2> QED BY <2>1, WFMin
<1>2. \A k \in T : ~(k < n)
  BY <1>1 DEF OpToRel
<1> HIDE DEF R
<1> QED BY <1>2

\* Induction on the natural numbers, stated of a set: the library states it of an operator.
LEMMA FromZero ==
  ASSUME NEW S, 0 \in S, \A n \in Nat : n \in S => n + 1 \in S
  PROVE  Nat \subseteq S
<1> DEFINE T == Nat \ S
<1> SUFFICES ASSUME T # {} PROVE FALSE
  OBVIOUS
<1>1. PICK n \in T : \A k \in T : n <= k
  BY Least
<1>2. n \in Nat /\ n # 0 /\ n - 1 \in Nat /\ ~(n <= n - 1) /\ (n - 1) + 1 = n
  BY <1>1
<1>3. n - 1 \in T
  BY <1>1, <1>2
<1> QED BY <1>1, <1>2, <1>3

\* The greatest number of a set that has its bound.
LEMMA MaxOf ==
  ASSUME NEW n \in Nat, NEW t \in SUBSET (1..n), n \in t
  PROVE  Max(t) = n
<1>1. \A x \in t : n >= x
  OBVIOUS
<1>2. \A x \in t : (\A y \in t : x >= y) => x = n
  BY <1>1
<1> QED BY <1>1, <1>2 DEF Max

\* f folds Apply over the first elements of s that are in a set: the function FoldLeft chooses.
FoldsTo(f, v, s, S) ==
  f = [t \in SUBSET S |-> IF t = {} THEN v ELSE Apply(f[t \ {Max(t)}], s[Max(t)])]

\* There is such a function, for as many messages as one likes.
LEMMA FoldExists ==
  ASSUME NEW v, NEW s
  PROVE  \A n \in Nat : \E f : FoldsTo(f, v, s, 1..n)
<1> DEFINE S == {n \in Nat : \E f : FoldsTo(f, v, s, 1..n)}
<1>1. 0 \in S
  <2> DEFINE f == [t \in SUBSET (1..0) |-> v]
  <2>1. 1..0 = {} /\ \A t \in SUBSET (1..0) : t = {}
    OBVIOUS
  <2>2. FoldsTo(f, v, s, 1..0)
    BY <2>1 DEF FoldsTo
  <2> QED BY <2>2
<1>2. ASSUME NEW n \in Nat, n \in S PROVE n + 1 \in S
  <2>1. PICK f : FoldsTo(f, v, s, 1..n)
    BY <1>2
  <2> DEFINE m == n + 1
             g == [t \in SUBSET (1..m) |->
                     IF m \in t THEN Apply(f[t \ {m}], s[m]) ELSE f[t]]
             h == [t \in SUBSET (1..m) |->
                     IF t = {} THEN v ELSE Apply(g[t \ {Max(t)}], s[Max(t)])]
  <2>2. ASSUME NEW t \in SUBSET (1..m) PROVE g[t] = h[t]
    <3>1. CASE m \in t
      <4>1. Max(t) = m /\ t # {} /\ m \in Nat
        BY <3>1, MaxOf
      <4>2. t \ {m} \in SUBSET (1..m) /\ m \notin t \ {m}
        OBVIOUS
      <4>3. g[t \ {m}] = f[t \ {m}]
        BY <4>2
      <4> QED BY <3>1, <4>1, <4>3
    <3>2. CASE m \notin t
      <4>1. t \in SUBSET (1..n)
        BY <3>2
      <4>2. g[t] = f[t]
        BY <3>2
      <4>3. CASE t = {}
        BY <2>1, <4>1, <4>2, <4>3 DEF FoldsTo
      <4>4. CASE t # {}
        <5>1. f[t] = Apply(f[t \ {Max(t)}], s[Max(t)])
          BY <2>1, <4>1, <4>4 DEF FoldsTo
        <5>2. t \ {Max(t)} \in SUBSET (1..m) /\ m \notin t \ {Max(t)}
          BY <3>2
        <5>3. g[t \ {Max(t)}] = f[t \ {Max(t)}]
          BY <5>2
        <5> QED BY <4>2, <4>4, <5>1, <5>3
      <4> QED BY <4>3, <4>4
    <3> QED BY <3>1, <3>2
  <2>3. g = h
    BY <2>2
  <2>4. FoldsTo(g, v, s, 1..m)
    BY <2>3 DEF FoldsTo
  <2> HIDE DEF g
  <2> QED BY <2>4
<1> HIDE DEF S
<1>3. Nat \subseteq S
  BY <1>1, <1>2, FromZero
<1> QED BY <1>3 DEF S

\* g lists what a client shows while it receives the messages of s one by one.
Trace(g, v, s) ==
  /\ g[0] = v
  /\ \A i \in 1..Len(s) : g[i] = Apply(g[i - 1], s[i])

\* What a client shows after the messages on their way (useAgent.ts) is the last of such a list.
LEMMA FoldIsTrace ==
  ASSUME NEW v, NEW M, NEW s \in Seq(M), NEW g, Trace(g, v, s)
  PROVE  FoldLeft(Apply, v, s) = g[Len(s)]
<1> DEFINE f == CHOOSE f : FoldsTo(f, v, s, 1..Len(s))
<1>1. DOMAIN s = 1..Len(s) /\ Len(s) \in Nat
  OBVIOUS
<1>2. FoldLeft(Apply, v, s) = f[DOMAIN s]
  BY <1>1 DEF FoldLeft, MapThenFoldSet, FoldsTo
<1>3. FoldsTo(f, v, s, 1..Len(s))
  BY <1>1, FoldExists
<1> HIDE DEF f
<1> DEFINE S == {n \in Nat : n <= Len(s) => f[1..n] = g[n]}
<1>4. 0 \in S
  <2>1. 1..0 = {} /\ 1..0 \in SUBSET (1..Len(s))
    BY <1>1
  <2> QED BY <1>3, <2>1 DEF FoldsTo, Trace
<1>5. ASSUME NEW n \in Nat, n \in S PROVE n + 1 \in S
  <2> SUFFICES ASSUME n + 1 <= Len(s) PROVE f[1..(n + 1)] = g[n + 1]
    OBVIOUS
  <2>1. Max(1..(n + 1)) = n + 1
    BY MaxOf
  <2>2. 1..(n + 1) \in SUBSET (1..Len(s)) /\ 1..(n + 1) # {}
    <3>1. n + 1 \in 1..(n + 1) /\ \A i \in 1..(n + 1) : i \in 1..Len(s)
      BY <1>1
    <3> QED BY <3>1
  <2>3. (1..(n + 1)) \ {n + 1} = 1..n
    OBVIOUS
  <2>4. f[1..(n + 1)] = Apply(f[1..n], s[n + 1])
    BY <1>3, <2>1, <2>2, <2>3 DEF FoldsTo
  <2>5. f[1..n] = g[n] /\ n + 1 \in 1..Len(s) /\ (n + 1) - 1 = n
    BY <1>1, <1>5
  <2> QED BY <2>4, <2>5 DEF Trace
<1> HIDE DEF S
<1>6. Nat \subseteq S
  BY <1>4, <1>5, FromZero
<1> QED BY <1>1, <1>2, <1>6 DEF S

\* One list after the other.
LEMMA TraceConcat ==
  ASSUME NEW M, NEW s \in Seq(M), NEW t \in Seq(M), NEW v, NEW g, NEW h,
         Trace(g, v, s), Trace(h, g[Len(s)], t)
  PROVE  \E k : Trace(k, v, s \o t) /\ k[Len(s \o t)] = h[Len(t)]
<1> DEFINE k == [i \in 0..(Len(s) + Len(t)) |-> IF i <= Len(s) THEN g[i] ELSE h[i - Len(s)]]
<1>1. /\ Len(s) \in Nat /\ Len(t) \in Nat /\ Len(s \o t) = Len(s) + Len(t)
      /\ \A i \in 1..Len(s) : (s \o t)[i] = s[i]
      /\ \A i \in 1..Len(s \o t) : i \notin 1..Len(s) =>
           i - Len(s) \in 1..Len(t) /\ (s \o t)[i] = t[i - Len(s)]
  OBVIOUS
<1>2. \A i \in 1..Len(s) : k[i] = Apply(k[i - 1], (s \o t)[i])
  BY <1>1 DEF Trace
<1>3. \A i \in 0..Len(t) : k[Len(s) + i] = h[i]
  <2>1. k[Len(s) + 0] = h[0]
    BY <1>1 DEF Trace
  <2>2. ASSUME NEW i \in 1..Len(t) PROVE k[Len(s) + i] = h[i]
    <3>1. Len(s) + i \in 0..(Len(s) + Len(t)) /\ ~(Len(s) + i <= Len(s)) /\ (Len(s) + i) - Len(s) = i
      BY <1>1
    <3> QED BY <3>1
  <2>3. \A i \in 0..Len(t) : i = 0 \/ i \in 1..Len(t)
    BY <1>1
  <2> HIDE DEF k
  <2> QED BY <2>1, <2>2, <2>3
<1>4. k[0] = v
  BY <1>1 DEF Trace
<1> HIDE DEF k
<1>5. ASSUME NEW i \in 1..Len(s \o t), i \notin 1..Len(s)
      PROVE  k[i] = Apply(k[i - 1], (s \o t)[i])
  <2>1. PICK j \in 1..Len(t) : i = Len(s) + j /\ j - 1 \in 0..Len(t) /\ j \in 0..Len(t)
    <3>1. i - Len(s) \in 1..Len(t) /\ i = Len(s) + (i - Len(s))
      BY <1>1, <1>5
    <3> QED BY <1>1, <3>1
  <2>2. (s \o t)[i] = t[j] /\ i - 1 = Len(s) + (j - 1)
    BY <1>1, <1>5, <2>1
  <2>3. h[j] = Apply(h[j - 1], t[j])
    BY <2>1 DEF Trace
  <2> QED BY <1>3, <2>1, <2>2, <2>3
<1>6. Trace(k, v, s \o t)
  BY <1>2, <1>4, <1>5 DEF Trace
<1>7. k[Len(s \o t)] = h[Len(t)]
  BY <1>1, <1>3
<1> QED BY <1>6, <1>7

\* The first message is received.
LEMMA TraceTail ==
  ASSUME NEW M, NEW s \in Seq(M), s # <<>>, NEW v, NEW g, Trace(g, v, s)
  PROVE  \E k : Trace(k, Apply(v, Head(s)), Tail(s)) /\ k[Len(Tail(s))] = g[Len(s)]
<1> DEFINE k == [i \in 0..Len(Tail(s)) |-> g[i + 1]]
<1>1. /\ Len(s) \in Nat /\ Len(s) # 0 /\ Len(Tail(s)) = Len(s) - 1 /\ Head(s) = s[1]
      /\ \A i \in 1..Len(Tail(s)) : Tail(s)[i] = s[i + 1] /\ i + 1 \in 1..Len(s)
  OBVIOUS
<1>2. g[1] = Apply(v, s[1])
  BY <1>1 DEF Trace
<1>3. \A i \in 1..Len(Tail(s)) : g[i + 1] = Apply(g[i], s[i + 1])
  BY <1>1 DEF Trace
<1>4. k[0] = g[1] /\ k[Len(Tail(s))] = g[Len(s)]
  BY <1>1
<1>5. \A i \in 1..Len(Tail(s)) : k[i] = g[i + 1] /\ k[i - 1] = g[i]
  BY <1>1
<1> HIDE DEF k
<1>6. Trace(k, Apply(v, Head(s)), Tail(s))
  BY <1>1, <1>2, <1>3, <1>4, <1>5 DEF Trace
<1> QED BY <1>4, <1>6

\* A request that is settled is taken out of what is shown.
LEMMA ApplyResolved ==
  ASSUME NEW P, NEW a, NEW r
  PROVE  Apply([pending |-> P, active |-> a], Resolved(r)) = [pending |-> P \ {r}, active |-> a]
BY DEF Apply, Resolved

\* Every client is about to show the broker's state, and nothing is on its way to one that left.
Converges ==
  /\ \A c \in connected :
       \E g : Trace(g, view[c], inbox[c]) /\ g[Len(inbox[c])] = State
  /\ \A c \in Clients \ connected : inbox[c] = <<>>

\* What is announced leads from the broker's state to its next one.
LEMMA AnnounceConverges ==
  ASSUME TypeOK, Converges, NEW messages \in Seq(Message), Announce(messages),
         UNCHANGED <<connected, view>>, NEW h, Trace(h, State, messages),
         h[Len(messages)] = State'
  PROVE  Converges'
<1>1. ASSUME NEW c \in connected
      PROVE  \E k : Trace(k, view'[c], inbox'[c]) /\ k[Len(inbox'[c])] = State'
  <2>1. inbox'[c] = inbox[c] \o messages /\ view'[c] = view[c] /\ inbox[c] \in Seq(Message)
    BY <1>1 DEF Announce, TypeOK
  <2>2. PICK g : Trace(g, view[c], inbox[c]) /\ g[Len(inbox[c])] = State
    BY DEF Converges
  <2>3. Trace(h, g[Len(inbox[c])], messages)
    BY <2>2
  <2>4. \E k : /\ Trace(k, view[c], inbox[c] \o messages)
               /\ k[Len(inbox[c] \o messages)] = h[Len(messages)]
    <3> DEFINE s == inbox[c]
               v == view[c]
    <3>1. s \in Seq(Message) /\ Trace(g, v, s) /\ Trace(h, g[Len(s)], messages)
      BY <2>1, <2>2, <2>3
    <3> HIDE DEF s, v
    <3>2. \E k : Trace(k, v, s \o messages) /\ k[Len(s \o messages)] = h[Len(messages)]
      BY <3>1, TraceConcat
    <3> QED BY <3>2 DEF s, v
  <2> QED BY <2>1, <2>4
<1>2. \A c \in Clients \ connected : inbox'[c] = <<>>
  BY DEF Announce, Converges
<1> QED BY <1>1, <1>2 DEF Converges

\* A step that changes nothing a client shows.
LEMMA SameConverges ==
  ASSUME Converges, UNCHANGED <<connected, view, inbox, active>>, Pending' = Pending
  PROVE  Converges'
BY DEF Converges, State

\* A settlement tells the clients of all it changes.
LEMMA SettleConverges ==
  ASSUME GrantsAssumption, TypeOK, Converges, NEW r \in Pending, NEW o \in Outcomes,
         Settle(r, o), UNCHANGED <<connected, view>>
  PROVE  Converges'
<1>0. r \in Requests /\ GrantOf[r] \in Grant /\ active \in Grant
  BY DEF Pending, GrantsAssumption, TypeOK
<1>1. Pending' = Pending \ {r}
  BY DEF Pending, Settle, TypeOK
<1>2. Apply([pending |-> Pending, active |-> active'], Resolved(r)) = State'
  BY <1>1 DEF Apply, Resolved, State
<1>3. Apply(State, Grants(active')) = [pending |-> Pending, active |-> active']
  BY DEF Apply, Grants, State
<1>4. CASE o = "approved-session"
  <2> DEFINE messages == <<Grants(active'), Resolved(r)>>
             h == [i \in 0..2 |-> IF i = 0 THEN State ELSE
                                  IF i = 1 THEN [pending |-> Pending, active |-> active'] ELSE State']
  <2>1. active' \in Grant
    BY <1>0, <1>4, MergeIsGrant DEF Settle
  <2>2. messages \in Seq(Message) /\ Announce(messages)
    <3>1. Grants(active') \in Message /\ Resolved(r) \in Message
      BY <1>0, <2>1 DEF Grants, Resolved, Message
    <3> QED BY <1>4, <3>1 DEF Settle
  <2>3. Len(messages) = 2 /\ messages[1] = Grants(active') /\ messages[2] = Resolved(r)
    OBVIOUS
  <2>4. h[0] = State /\ h[1] = [pending |-> Pending, active |-> active'] /\ h[2] = State'
    OBVIOUS
  <2> HIDE DEF messages, h
  <2>5. \A i \in 1..2 : h[i] = Apply(h[i - 1], messages[i])
    <3>1. h[1] = Apply(h[0], messages[1]) /\ h[2] = Apply(h[1], messages[2])
      BY <1>2, <1>3, <2>3, <2>4
    <3>2. \A i \in 1..2 : i = 1 \/ i = 2
      OBVIOUS
    <3>3. 1 - 1 = 0 /\ 2 - 1 = 1
      OBVIOUS
    <3> QED BY <3>1, <3>2, <3>3
  <2>6. Trace(h, State, messages)
    BY <2>3, <2>4, <2>5 DEF Trace
  <2> QED BY <2>2, <2>3, <2>4, <2>6, AnnounceConverges
<1>5. CASE o # "approved-session"
  <2> DEFINE messages == <<Resolved(r)>>
             h == [i \in 0..1 |-> IF i = 0 THEN State ELSE State']
  <2>1. Announce(messages) /\ active' = active
    BY <1>5 DEF Settle
  <2>2. messages \in Seq(Message)
    <3>1. Resolved(r) \in Message
      BY <1>0 DEF Resolved, Message
    <3> QED BY <3>1
  <2>3. Len(messages) = 1 /\ messages[1] = Resolved(r) /\ h[0] = State /\ h[1] = State'
    OBVIOUS
  <2> HIDE DEF messages, h
  <2>4. h[1] = Apply(h[0], messages[1])
    BY <1>2, <2>1, <2>3 DEF State
  <2>5. \A i \in 1..1 : i = 1 /\ i - 1 = 0
    OBVIOUS
  <2>6. Trace(h, State, messages)
    BY <2>3, <2>4, <2>5 DEF Trace
  <2> QED BY <2>1, <2>2, <2>3, <2>6, AnnounceConverges
<1> QED BY <1>4, <1>5

\* A question tells the clients of itself.
LEMMA AskConverges ==
  ASSUME TypeOK, Converges, NEW r \in Requests, Ask(r)
  PROVE  Converges'
<1>1. CASE status'[r] # "pending"
  <2>1. Pending' = Pending
    BY <1>1 DEF Pending, Ask, TypeOK
  <2> QED BY <1>1, <2>1, SameConverges DEF Ask
<1>2. CASE status'[r] = "pending"
  <2> DEFINE messages == <<[type |-> "request", id |-> r]>>
             h == [i \in 0..1 |-> IF i = 0 THEN State ELSE State']
  <2>1. Announce(messages) /\ UNCHANGED <<connected, view, active>>
    BY <1>2 DEF Ask
  <2>2. messages \in Seq(Message)
    BY MessagesTyped, EmptyIsGrant
  <2>3. /\ Len(messages) = 1 /\ messages[1] = [type |-> "request", id |-> r]
        /\ h[0] = State /\ h[1] = State'
    OBVIOUS
  <2> HIDE DEF messages, h
  <2>4. Pending' = Pending \cup {r}
    BY <1>2 DEF Pending, Ask, TypeOK
  <2>5. h[1] = Apply(h[0], messages[1])
    BY <2>1, <2>3, <2>4 DEF State, Apply
  <2>6. \A i \in 1..1 : i = 1 /\ i - 1 = 0
    OBVIOUS
  <2>7. Trace(h, State, messages)
    BY <2>3, <2>5, <2>6 DEF Trace
  <2> QED BY <2>1, <2>2, <2>3, <2>7, AnnounceConverges
<1> QED BY <1>1, <1>2

\* The pending requests put in an order: each of them is in it.
LEMMA OrderIsAll ==
  ASSUME GrantsAssumption, NEW order \in SetToSeqs(Pending)
  PROVE  /\ order \in Seq(Requests)
         /\ {order[i] : i \in 1..Len(order)} = Pending
<1> DEFINE n == Cardinality(Pending)
<1>1. n \in Nat /\ IsFiniteSet(Pending) /\ Pending \subseteq Requests
  BY FS_Subset, FS_CardinalityType DEF Pending, GrantsAssumption
<1>2. order \in [1..n -> Pending] /\ IsInjective(order)
  <2>1. order \in [1..n -> Pending] /\ \A i, j \in 1..n : i # j => order[i] # order[j]
    BY DEF SetToSeqs
  <2> HIDE DEF n
  <2> QED BY <2>1 DEF IsInjective
<1>3. order \in Injection(1..n, Pending)
  BY <1>2 DEF Injection
<1>4. Cardinality(1..n) = n /\ IsFiniteSet(1..n)
  BY <1>1, FS_Interval
<1> HIDE DEF n
<1>5. order \in Surjection(1..n, Pending)
  BY <1>1, <1>3, <1>4, FS_Injection DEF n
<1>6. order \in [1..n -> Requests]
  BY <1>1, <1>2
<1>7. order \in Seq(Requests)
  BY <1>1, <1>6, FunctionIsSeq
<1>8. Len(order) = n
  BY <1>1, <1>6, <1>7, LenProperties
<1> QED BY <1>2, <1>5, <1>7, <1>8 DEF Surjection

\* The end of a session takes the requests back one by one, then the grants.
LEMMA EndConverges ==
  ASSUME GrantsAssumption, TypeOK, Converges, EndSession
  PROVE  Converges'
<1> DEFINE settled(order) == [i \in 1..Len(order) |-> Resolved(order[i])]
           ended == IF active # EmptyGrant THEN <<Grants(EmptyGrant)>> ELSE <<>>
<1>1. PICK order \in SetToSeqs(Pending) : Announce(settled(order) \o ended)
  BY DEF EndSession
<1> DEFINE s == settled(order)
           n == Len(order)
           g == [i \in 0..n |-> [pending |-> Pending \ {order[j] : j \in 1..i}, active |-> active]]
<1>2. /\ n \in Nat /\ order \in Seq(Requests) /\ {order[i] : i \in 1..n} = Pending
  BY OrderIsAll
<1>3. /\ s \in Seq(Message) /\ Len(s) = n
      /\ \A i \in 1..n : s[i] = Resolved(order[i]) /\ order[i] \in Requests
  <2>1. \A i \in 1..n : order[i] \in Requests
    BY <1>2, ElementOfSeq
  <2>2. s \in [1..n -> Message]
    BY <2>1, MessagesTyped, EmptyIsGrant
  <2>3. s \in Seq(Message)
    BY <1>2, <2>2, FunctionIsSeq
  <2>4. Len(s) = n
    BY <1>2, <2>2, <2>3, LenProperties
  <2> QED BY <2>1, <2>3, <2>4
<1>4. Pending' = {} /\ active' = EmptyGrant /\ UNCHANGED <<connected, view>>
  BY DEF EndSession, Pending, TypeOK
<1>5. Trace(g, State, s)
  <2>1. g[0] = State
    <3>1. 0 \in 0..n /\ {order[j] : j \in 1..0} = {}
      BY <1>2
    <3> QED BY <3>1 DEF State
  <2>2. ASSUME NEW i \in 1..n PROVE g[i] = Apply(g[i - 1], Resolved(order[i]))
    <3>1. i \in 0..n /\ i - 1 \in 0..n
      BY <1>2
    <3>2. {order[j] : j \in 1..i} = {order[j] : j \in 1..(i - 1)} \cup {order[i]}
      <4>1. \A j : j \in 1..i <=> j \in 1..(i - 1) \/ j = i
        BY <1>2
      <4> QED BY <4>1
    <3>3. g[i] = [pending |-> Pending \ {order[j] : j \in 1..i}, active |-> active]
      BY <3>1
    <3>4. g[i - 1] = [pending |-> Pending \ {order[j] : j \in 1..(i - 1)}, active |-> active]
      BY <3>1
    <3> HIDE DEF g
    <3>5. Apply(g[i - 1], Resolved(order[i]))
            = [pending |-> (Pending \ {order[j] : j \in 1..(i - 1)}) \ {order[i]}, active |-> active]
      BY <3>4, ApplyResolved
    <3> QED BY <3>2, <3>3, <3>5
  <2> HIDE DEF g, s
  <2> QED BY <1>3, <2>1, <2>2 DEF Trace
<1>6. g[n] = [pending |-> {}, active |-> active]
  <2>1. n \in 0..n
    BY <1>2
  <2> QED BY <1>2, <2>1
<1> HIDE DEF g, s, n
<1>7. \E h : Trace(h, g[n], ended) /\ h[Len(ended)] = State' /\ ended \in Seq(Message)
  <2>1. CASE active = EmptyGrant
    <3> DEFINE h == [i \in 0..0 |-> g[n]]
    <3>1. ended = <<>> /\ Len(ended) = 0 /\ h[0] = g[n]
      BY <2>1
    <3>2. Trace(h, g[n], ended) /\ ended \in Seq(Message)
      BY <3>1 DEF Trace
    <3>3. g[n] = State'
      BY <1>4, <1>6, <2>1 DEF State
    <3> QED BY <3>1, <3>2, <3>3
  <2>2. CASE active # EmptyGrant
    <3> DEFINE h == [i \in 0..1 |-> IF i = 0 THEN g[n] ELSE State']
    <3>1. /\ ended = <<Grants(EmptyGrant)>> /\ Len(ended) = 1 /\ ended[1] = Grants(EmptyGrant)
          /\ h[0] = g[n] /\ h[1] = State'
      BY <2>2
    <3>2. Apply(g[n], Grants(EmptyGrant)) = State'
      BY <1>4, <1>6 DEF State, Apply, Grants
    <3>3. ended \in Seq(Message)
      <4>1. Grants(EmptyGrant) \in Message
        BY EmptyIsGrant DEF Grants, Message
      <4> QED BY <3>1, <4>1
    <3> HIDE DEF h, ended
    <3>4. \A i \in 1..1 : i = 1 /\ i - 1 = 0
      OBVIOUS
    <3>5. Trace(h, g[n], ended)
      BY <3>1, <3>2, <3>4 DEF Trace
    <3> QED BY <3>1, <3>3, <3>5
  <2> QED BY <2>1, <2>2
<1>8. PICK h : Trace(h, g[n], ended) /\ h[Len(ended)] = State' /\ ended \in Seq(Message)
  BY <1>7
<1>9. \E k : Trace(k, State, s \o ended) /\ k[Len(s \o ended)] = State'
  <2> HIDE DEF ended
  <2> QED BY <1>3, <1>5, <1>8, TraceConcat
<1>10. s \o ended \in Seq(Message) /\ Announce(s \o ended)
  BY <1>1, <1>3, <1>8 DEF s
<1> HIDE DEF ended
<1> QED BY <1>4, <1>9, <1>10, AnnounceConverges

LEMMA ConvergesStep ==
  ASSUME GrantsAssumption, TypeOK, Converges, [Next]_vars
  PROVE  Converges'
<1>1. ASSUME NEW r \in Requests, Ask(r) PROVE Converges'
  BY <1>1, AskConverges
<1>2. ASSUME NEW r \in Requests, Expire(r) PROVE Converges'
  BY <1>2, SettleConverges DEF Expire
<1>3. ASSUME NEW r \in Requests, Abort(r) PROVE Converges'
  <2>1. CASE r \in Pending
    BY <1>3, <2>1, SettleConverges DEF Abort
  <2>2. CASE r \notin Pending
    BY <1>3, <2>2, SameConverges DEF Abort, Pending
  <2> QED BY <2>1, <2>2
<1>4. ASSUME NEW c \in Clients, AnswerArrives(c) PROVE Converges'
  <2> DEFINE a == Head(answers[c])
  <2>1. a \in Answer
    BY <1>4 DEF AnswerArrives, TypeOK
  <2>2. OutcomeOf(a.decision) \in Outcomes
    BY <2>1 DEF OutcomeOf, Answer
  <2>3. CASE a.id \in Pending
    <3>1. Settle(a.id, OutcomeOf(a.decision)) /\ UNCHANGED <<connected, view>>
      BY <1>4, <2>3 DEF AnswerArrives
    <3> QED BY <2>2, <2>3, <3>1, SettleConverges
  <2>4. CASE a.id \notin Pending
    BY <1>4, <2>4, SameConverges DEF AnswerArrives, Pending
  <2> QED BY <2>3, <2>4
<1>5. ASSUME NEW c \in Clients, Connect(c) PROVE Converges'
  <2>0. State' = State
    BY <1>5 DEF Connect, State, Pending
  <2>1. ASSUME NEW b \in connected', b # c
        PROVE  \E g : Trace(g, view'[b], inbox'[b]) /\ g[Len(inbox'[b])] = State'
    BY <1>5, <2>0, <2>1 DEF Connect, Converges, TypeOK
  <2>2. \E g : Trace(g, view'[c], inbox'[c]) /\ g[Len(inbox'[c])] = State'
    <3> DEFINE g == [i \in 0..0 |-> State]
    <3>1. inbox'[c] = <<>> /\ view'[c] = State /\ Len(<<>>) = 0 /\ g[0] = State
      BY <1>5 DEF Connect, Converges, TypeOK
    <3>2. Trace(g, view'[c], inbox'[c])
      BY <3>1 DEF Trace
    <3> QED BY <2>0, <3>1, <3>2
  <2>3. \A b \in Clients \ connected' : inbox'[b] = <<>>
    BY <1>5 DEF Connect, Converges
  <2> QED BY <2>1, <2>2, <2>3 DEF Converges
<1>6. ASSUME NEW c \in Clients, Disconnect(c) PROVE Converges'
  BY <1>6 DEF Disconnect, Converges, TypeOK, State, Pending
<1>7. ASSUME NEW c \in Clients, ClientReceives(c) PROVE Converges'
  <2>0. State' = State /\ connected' = connected
    BY <1>7 DEF ClientReceives, State, Pending
  <2>1. ASSUME NEW b \in connected, b # c
        PROVE  \E g : Trace(g, view'[b], inbox'[b]) /\ g[Len(inbox'[b])] = State'
    BY <1>7, <2>0, <2>1 DEF ClientReceives, Converges, TypeOK
  <2>2. ASSUME c \in connected
        PROVE  \E g : Trace(g, view'[c], inbox'[c]) /\ g[Len(inbox'[c])] = State'
    <3>1. /\ inbox[c] \in Seq(Message) /\ inbox[c] # <<>> /\ inbox'[c] = Tail(inbox[c])
          /\ view'[c] = Apply(view[c], Head(inbox[c]))
      BY <1>7 DEF ClientReceives, TypeOK
    <3>2. PICK g : Trace(g, view[c], inbox[c]) /\ g[Len(inbox[c])] = State
      BY <2>2 DEF Converges
    <3> QED BY <2>0, <3>1, <3>2, TraceTail
  <2>3. \A b \in Clients \ connected : inbox'[b] = <<>>
    <3>1. c \in connected
      BY <1>7 DEF ClientReceives, Converges
    <3> QED BY <1>7, <3>1 DEF ClientReceives, Converges
  <2> QED BY <2>0, <2>1, <2>2, <2>3 DEF Converges
<1>8. ASSUME NEW c \in Clients, NEW r \in Requests, NEW d \in Decisions, Respond(c, r, d)
      PROVE  Converges'
  BY <1>8, SameConverges DEF Respond, Pending
<1>9. CASE EndSession
  BY <1>9, EndConverges
<1>10. CASE UNCHANGED vars
  BY <1>10, SameConverges DEF vars, Pending
<1> QED
  BY <1>1, <1>2, <1>3, <1>4, <1>5, <1>6, <1>7, <1>8, <1>9, <1>10 DEF Next

\* What a browser shows, once the messages on their way to it are applied, is the broker's own
\* state: whatever the order of answers, expiries, session ends and reconnections, and for every
\* number of browsers and requests, no dialog stays open on a settled request and none is missing
\* (the announcements of sandboxGrantBroker.ts, applied by useAgent.ts).
THEOREM BrowsersShowTheBroker == GrantsAssumption => (Spec => []ViewsConverge)
<1> SUFFICES ASSUME GrantsAssumption PROVE Spec => []ViewsConverge
  OBVIOUS
<1>1. Init => Converges
  BY DEF Init, Converges
<1>2. TypeOK /\ Converges /\ [Next]_vars => Converges'
  BY ConvergesStep
<1>3. TypeOK /\ Converges => ViewsConverge
  <2> SUFFICES ASSUME TypeOK, Converges, NEW c \in connected
               PROVE  FoldLeft(Apply, view[c], inbox[c]) = State
    BY DEF ViewsConverge
  <2>1. PICK g : Trace(g, view[c], inbox[c]) /\ g[Len(inbox[c])] = State
    BY DEF Converges
  <2>2. inbox[c] \in Seq(Message)
    BY DEF TypeOK
  <2> QED BY <2>1, <2>2, FoldIsTrace
<1> QED BY <1>1, <1>2, <1>3, GrantsTypeCorrect, PTL DEF Spec
============================================================================
