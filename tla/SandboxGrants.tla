--------------------------- MODULE SandboxGrants ---------------------------
(***************************************************************************)
(* The approval of sandbox grants in one project: sandboxGrantBroker.ts,   *)
(* the merge of sandboxGrants.ts, the dispatch of sandbox_grant_response   *)
(* in index.ts, and the copy of the broker's state every browser keeps     *)
(* (useAgent.ts).                                                          *)
(*                                                                         *)
(* Every operation of the broker is synchronous: one action is one whole   *)
(* call.  What interleaves is the calls, and the messages in flight        *)
(* between the server and its browsers.                                    *)
(***************************************************************************)
EXTENDS Naturals, Sequences, SequencesExt, FiniteSets

CONSTANTS Clients,    \* browser connections
          Requests,   \* grant requests, one per tool call or connection asking
          Hosts,      \* hosts a grant may name
          Dirs,       \* directories a grant may name
          GrantOf,    \* what each request asks for
          MaxSessions \* bound: the sessions the project goes through

Access == {"none", "read", "write"}
Grant  == [hosts: SUBSET Hosts, dirs: [Dirs -> Access]]
EmptyGrant == [hosts |-> {}, dirs |-> [d \in Dirs |-> "none"]]

ASSUME GrantsAssumption ==
  /\ IsFiniteSet(Requests)
  /\ GrantOf \in [Requests -> Grant \ {EmptyGrant}]
  /\ MaxSessions \in Nat \ {0}

Decisions == {"once", "session", "refuse"}
Approved  == {"approved-once", "approved-session"}
Outcomes  == Approved \cup {"refused", "expired", "aborted", "unattended"}
Status    == {"unasked", "pending"} \cup Outcomes

Message == [type: {"request"}, id: Requests]
             \cup [type: {"resolved"}, id: Requests]
             \cup [type: {"grants"}, active: Grant]
Answer == [id: Requests, decision: Decisions]

VARIABLES
  status,     \* per request: not raised, in `pending`, or its outcome
  cancelled,  \* requests whose AbortSignal has fired
  active,     \* the session's grants
  session,    \* how many sessions the project has had
  connected,  \* the clients bound to the project
  view,       \* per client: the copy of the broker's state it shows
  inbox,      \* per client: messages sent to it and not yet received
  answers,    \* per client: answers it sent and the server has not yet read
  kept        \* history: the requests approved for the session now running

vars == <<status, cancelled, active, session, connected, view, inbox, answers, kept>>

NoView == [pending |-> {}, active |-> EmptyGrant]
Pending == {r \in Requests : status[r] = "pending"}
State == [pending |-> Pending, active |-> active]

(***************************************************************************)
(* Two grants together; a directory asked twice keeps the wider access.    *)
(***************************************************************************)
Wider(a, b) == IF a = "write" \/ b = "none" THEN a ELSE b
MergeGrants(g, h) ==
  [hosts |-> g.hosts \cup h.hosts,
   dirs  |-> [d \in Dirs |-> Wider(g.dirs[d], h.dirs[d])]]

(***************************************************************************)
(* What a client makes of one message.                                     *)
(***************************************************************************)
Apply(v, m) ==
  CASE m.type = "request"  -> [v EXCEPT !.pending = @ \cup {m.id}]
    [] m.type = "resolved" -> [v EXCEPT !.pending = @ \ {m.id}]
    [] m.type = "grants"   -> [v EXCEPT !.active = m.active]

Announce(messages) ==
  inbox' = [c \in Clients |-> IF c \in connected THEN inbox[c] \o messages ELSE inbox[c]]

Resolved(r) == [type |-> "resolved", id |-> r]
Grants(g)   == [type |-> "grants", active |-> g]

Init ==
  /\ status = [r \in Requests |-> "unasked"]
  /\ cancelled = {}
  /\ active = EmptyGrant
  /\ session = 1
  /\ connected = {}
  /\ view = [c \in Clients |-> NoView]
  /\ inbox = [c \in Clients |-> <<>>]
  /\ answers = [c \in Clients |-> <<>>]
  /\ kept = {}

(***************************************************************************)
(* Asking: refused at once when the turn is already aborted, then when     *)
(* nobody is there to answer.                                              *)
(***************************************************************************)
Ask(r) ==
  /\ status[r] = "unasked"
  /\ status' = [status EXCEPT ![r] = IF r \in cancelled THEN "aborted"
                                     ELSE IF connected = {} THEN "unattended"
                                     ELSE "pending"]
  /\ IF status'[r] = "pending"
     THEN Announce(<<[type |-> "request", id |-> r]>>)
     ELSE UNCHANGED inbox
  /\ UNCHANGED <<cancelled, active, session, connected, view, answers, kept>>

(***************************************************************************)
(* `settle`: the first call for a request decides, the others find its     *)
(* entry gone.                                                             *)
(***************************************************************************)
Settle(r, outcome) ==
  /\ status' = [status EXCEPT ![r] = outcome]
  /\ IF outcome = "approved-session"
     THEN /\ active' = MergeGrants(active, GrantOf[r])
          /\ kept' = kept \cup {r}
          /\ Announce(<<Grants(active'), Resolved(r)>>)
     ELSE /\ Announce(<<Resolved(r)>>)
          /\ UNCHANGED <<active, kept>>

\* Mutant: the timer lives with the dialog, and a project nobody watches keeps waiting.
Expire_OnlyWatched(r) ==
  /\ r \in Pending /\ connected # {}
  /\ Settle(r, "expired")
  /\ UNCHANGED <<cancelled, session, connected, view, answers>>

Expire(r) ==
  /\ r \in Pending
  /\ Settle(r, "expired")
  /\ UNCHANGED <<cancelled, session, connected, view, answers>>

\* The turn's AbortSignal fires: it settles what waits, and stays aborted for what asks later.
Abort(r) ==
  /\ r \notin cancelled
  /\ cancelled' = cancelled \cup {r}
  /\ IF r \in Pending
     THEN Settle(r, "aborted")
     ELSE UNCHANGED <<status, active, kept, inbox>>
  /\ UNCHANGED <<session, connected, view, answers>>

OutcomeOf(decision) ==
  CASE decision = "once"    -> "approved-once"
    [] decision = "session" -> "approved-session"
    [] decision = "refuse"  -> "refused"

\* Mutant: an answer settles its request without looking it up in `pending`.
AnswerArrives_NoLookup(c) ==
  /\ answers[c] # <<>>
  /\ answers' = [answers EXCEPT ![c] = Tail(@)]
  /\ Settle(Head(answers[c]).id, OutcomeOf(Head(answers[c]).decision))
  /\ UNCHANGED <<cancelled, session, connected, view>>

\* The server reads a client's sandbox_grant_response.
AnswerArrives(c) ==
  /\ answers[c] # <<>>
  /\ answers' = [answers EXCEPT ![c] = Tail(@)]
  /\ LET a == Head(answers[c])
     IN  IF a.id \in Pending
         THEN Settle(a.id, OutcomeOf(a.decision))
         ELSE UNCHANGED <<status, active, kept, inbox>>
  /\ UNCHANGED <<cancelled, session, connected, view>>

\* Mutant: the map is cleared without settling its entries towards the clients.
EndSession_Silent ==
  /\ session < MaxSessions
  /\ session' = session + 1
  /\ status' = [r \in Requests |-> IF r \in Pending THEN "aborted" ELSE status[r]]
  /\ active' = EmptyGrant
  /\ kept' = {}
  /\ Announce(<<Grants(EmptyGrant)>>)
  /\ UNCHANGED <<cancelled, connected, view, answers>>

(***************************************************************************)
(* The session is replaced, retired or stopped, or its sandbox changed.    *)
(***************************************************************************)
EndSession ==
  /\ session < MaxSessions
  /\ session' = session + 1
  /\ status' = [r \in Requests |-> IF r \in Pending THEN "aborted" ELSE status[r]]
  /\ active' = EmptyGrant
  /\ kept' = {}
  /\ \E order \in SetToSeqs(Pending) :
       Announce([i \in 1..Len(order) |-> Resolved(order[i])]
                \o IF active # EmptyGrant THEN <<Grants(EmptyGrant)>> ELSE <<>>)
  /\ UNCHANGED <<cancelled, connected, view, answers>>

(***************************************************************************)
(* A connection is bound: its snapshot carries the broker's state.         *)
(***************************************************************************)
Connect(c) ==
  /\ c \notin connected
  /\ connected' = connected \cup {c}
  /\ view' = [view EXCEPT ![c] = State]
  /\ UNCHANGED <<status, cancelled, active, session, inbox, answers, kept>>

Disconnect(c) ==
  /\ c \in connected
  /\ connected' = connected \ {c}
  /\ view' = [view EXCEPT ![c] = NoView]
  /\ inbox' = [inbox EXCEPT ![c] = <<>>]
  /\ answers' = [answers EXCEPT ![c] = <<>>]
  /\ UNCHANGED <<status, cancelled, active, session, kept>>

ClientReceives(c) ==
  /\ inbox[c] # <<>>
  /\ view' = [view EXCEPT ![c] = Apply(@, Head(inbox[c]))]
  /\ inbox' = [inbox EXCEPT ![c] = Tail(@)]
  /\ UNCHANGED <<status, cancelled, active, session, connected, answers, kept>>

\* The user answers a dialog the client shows; it stays on screen until the server resolves it.
Respond(c, r, d) ==
  /\ c \in connected
  /\ r \in view[c].pending
  /\ answers[c] = <<>>
  /\ answers' = [answers EXCEPT ![c] = Append(@, [id |-> r, decision |-> d])]
  /\ UNCHANGED <<status, cancelled, active, session, connected, view, inbox, kept>>

Next ==
  \/ \E r \in Requests : Ask(r) \/ Expire(r) \/ Abort(r)
  \/ \E c \in Clients : AnswerArrives(c) \/ Connect(c) \/ Disconnect(c) \/ ClientReceives(c)
  \/ \E c \in Clients, r \in Requests, d \in Decisions : Respond(c, r, d)
  \/ EndSession

\* A request's timer fires if nothing settled it first.  No user is made to answer.
Fairness == \A r \in Requests : WF_vars(Expire(r))

Spec == Init /\ [][Next]_vars /\ Fairness
----------------------------------------------------------------------------
\* Every variable has its type; the requests kept are requests approved for the session.
TypeOK ==
  /\ status \in [Requests -> Status]
  /\ cancelled \in SUBSET Requests
  /\ active \in Grant
  /\ session \in 1..MaxSessions
  /\ connected \in SUBSET Clients
  /\ view \in [Clients -> [pending: SUBSET Requests, active: Grant]]
  /\ inbox \in [Clients -> Seq(Message)]
  /\ answers \in [Clients -> Seq(Answer)]
  /\ kept \in SUBSET Requests

\* The session's grants (what every command launches with, sandboxGrantBroker.ts:67) are exactly
\* what the user approved for the session now running: nothing of a request that was refused,
\* expired, aborted or approved once, nothing of an earlier session, and the wider access where
\* two approvals name one directory.
ActiveIsWhatWasApproved ==
  /\ \A r \in kept : status[r] = "approved-session"
  /\ active.hosts = UNION {GrantOf[r].hosts : r \in kept}
  /\ \A d \in Dirs :
       /\ active.dirs[d] = "write" <=> \E r \in kept : GrantOf[r].dirs[d] = "write"
       /\ active.dirs[d] = "none" <=> \A r \in kept : GrantOf[r].dirs[d] = "none"

\* Once the messages on their way to a browser are applied, it shows the broker's own state: no
\* dialog left open on a settled request, none missing, and the grants in force, whatever the
\* order of answers, expiries, session ends and reconnections.
ViewsConverge ==
  \A c \in connected : FoldLeft(Apply, view[c], inbox[c]) = State

\* No tool call waits for ever on a dialog: every pending request is settled, though no user ever
\* answers and every browser leaves (the five-minute timer, sandboxGrantBroker.ts:108).
EveryRequestSettles ==
  \A r \in Requests : status[r] = "pending" ~> status[r] \in Outcomes
============================================================================
