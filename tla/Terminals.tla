----------------------------- MODULE Terminals -----------------------------
(***************************************************************************)
(* The shells of the terminal panel: TerminalManager of                    *)
(* server/src/terminalManager.ts, with the messages index.ts gives it.     *)
(*                                                                         *)
(* open() awaits up to three times: an earlier open of the same tab, the   *)
(* pty binding, and, for a confined terminal, its private directory.  The  *)
(* maps it works on are objects: it keeps the ones it found before an      *)
(* await, also when the manager has dropped them since.  A map is named    *)
(* here by the open that made it.                                          *)
(***************************************************************************)
EXTENDS FiniteSets

CONSTANTS Socket,    \* connections of browsers
          Id,        \* terminal ids
          Open,      \* calls of open()
          SocketOf,  \* the connection each is for
          IdOf,      \* the terminal id each is for
          None       \* no map, no session, no open

ASSUME TerminalsAssumption ==
  /\ None \notin Open
  /\ SocketOf \in [Open -> Socket] /\ IdOf \in [Open -> Id]

VARIABLES
  connected,      \* connections that are open
  confined,       \* terminal.sandbox is set: terminals run inside a runner
  binding,        \* node-pty: "unknown", "loaded" or "missing"
  pc,             \* per open(): where it is
  waitsFor,       \* per open(): the open it found under way
  flightOf,       \* per open(): the map of opens under way it holds
  tableOf,        \* per open(): the map of sessions it holds
  inFlightOpens,  \* per connection: its map of opens under way
  flight,         \* the contents of those maps
  socketSessions, \* per connection: its map of sessions
  table,          \* the contents of those maps
  shell,          \* per open(): its shell
  private,        \* opens whose private directory exists
  overlapped      \* opens something got in the way of (history)

opening == <<pc, waitsFor, flightOf, tableOf, inFlightOpens, flight>>
sessions == <<socketSessions, table, shell, private>>
vars == <<connected, confined, binding, opening, sessions, overlapped>>

Map == [Id -> Open \cup {None}]

TypeOK ==
  /\ connected \subseteq Socket /\ confined \in BOOLEAN
  /\ binding \in {"unknown", "loaded", "missing"}
  /\ pc \in [Open -> {"new", "waiting", "loading", "preparing", "opened", "failed"}]
  /\ waitsFor \in [Open -> Open \cup {None}]
  /\ flightOf \in [Open -> Open \cup {None}] /\ tableOf \in [Open -> Open \cup {None}]
  /\ inFlightOpens \in [Socket -> Open \cup {None}] /\ flight \in [Open -> Map]
  /\ socketSessions \in [Socket -> Open \cup {None}] /\ table \in [Open -> Map]
  /\ shell \in [Open -> {"none", "running", "ending", "gone"}]
  /\ private \subseteq Open /\ overlapped \subseteq Open
  /\ \A o \in Open : pc[o] = "opened" <=> shell[o] # "none"

Empty == [i \in Id |-> None]

(* The binding is looked for at startup, which may not be over.            *)
Init ==
  /\ connected = Socket /\ confined \in BOOLEAN /\ binding \in {"unknown", "loaded"}
  /\ pc = [o \in Open |-> "new"]
  /\ waitsFor = [o \in Open |-> None]
  /\ flightOf = [o \in Open |-> None] /\ tableOf = [o \in Open |-> None]
  /\ inFlightOpens = [s \in Socket |-> None] /\ flight = [o \in Open |-> Empty]
  /\ socketSessions = [s \in Socket |-> None] /\ table = [o \in Open |-> Empty]
  /\ shell = [o \in Open |-> "none"]
  /\ private = {} /\ overlapped = {}

(* The session a message for this terminal of this connection reaches.     *)
Entry(s, i) == IF socketSessions[s] = None THEN None ELSE table[socketSessions[s]][i]

SameTab(o, p) == SocketOf[o] = SocketOf[p] /\ IdOf[o] = IdOf[p]
Settled(o) == pc[o] \in {"opened", "failed"}

(* A continuation that is ready runs before the next message, file or exit.*)
Ready(o) == \/ pc[o] = "waiting" /\ Settled(waitsFor[o])
            \/ pc[o] = "loading" /\ binding # "unknown"
            \/ pc[o] = "preparing" /\ ~confined
Quiet == \A o \in Open : ~Ready(o)

(* Those that hold a map of sessions they are about to write to.           *)
Holding(m) == {o \in Open : pc[o] = "preparing" /\ tableOf[o] = m}

-----------------------------------------------------------------------------
(* open(): the promise of this call replaces what the map held.            *)
Begin(o, m) ==
  /\ pc' = [pc EXCEPT ![o] = "loading"]
  /\ flight' = [flight EXCEPT ![m][IdOf[o]] = o]

(* terminal_open: the connection's map of opens, made when it has none; an *)
(* open of the same tab under way is waited for.                           *)
TerminalOpen(o) ==
  LET s == SocketOf[o]
      m == IF inFlightOpens[s] = None THEN o ELSE inFlightOpens[s]
      pending == flight[m][IdOf[o]] IN
  /\ pc[o] = "new" /\ s \in connected /\ Quiet
  /\ inFlightOpens' = [inFlightOpens EXCEPT ![s] = m]
  /\ flightOf' = [flightOf EXCEPT ![o] = m]
  /\ \/ /\ pending = None
        /\ Begin(o, m)
        /\ UNCHANGED waitsFor
     \/ /\ pending # None
        /\ pc' = [pc EXCEPT ![o] = "waiting"]
        /\ waitsFor' = [waitsFor EXCEPT ![o] = pending]
        /\ UNCHANGED flight
  /\ UNCHANGED <<connected, confined, binding, tableOf, sessions, overlapped>>

X_Resume(o) ==
  /\ pc[o] = "waiting" /\ pc[waitsFor[o]] = "opened"
  /\ Begin(o, flightOf[o])
  /\ UNCHANGED <<connected, confined, binding, waitsFor, flightOf, tableOf, inFlightOpens,
                 sessions, overlapped>>

(* The open it waited for is over, one way or the other.                   *)
Resume(o) ==
  /\ pc[o] = "waiting" /\ Settled(waitsFor[o])
  /\ Begin(o, flightOf[o])
  /\ UNCHANGED <<connected, confined, binding, waitsFor, flightOf, tableOf, inFlightOpens,
                 sessions, overlapped>>

(* The first getPty() to end, here or in the probe at startup.             *)
PtyLoads ==
  /\ binding = "unknown"
  /\ binding' \in {"loaded", "missing"}
  /\ UNCHANGED <<connected, confined, opening, sessions, overlapped>>

(* The `finally' of open(): its entry goes, and the connection's map with  *)
(* the last entry of the map it holds.                                     *)
Finish(o, how) ==
  LET m == flightOf[o] IN
  /\ pc' = [pc EXCEPT ![o] = how]
  /\ flight' = [flight EXCEPT ![m][IdOf[o]] = None]
  /\ inFlightOpens' = IF flight'[m] = Empty
                        THEN [inFlightOpens EXCEPT ![SocketOf[o]] = None]
                        ELSE inFlightOpens

LoadFails(o) ==
  /\ pc[o] = "loading" /\ binding = "missing"
  /\ Finish(o, "failed")
  /\ UNCHANGED <<connected, confined, binding, waitsFor, flightOf, tableOf, sessions, overlapped>>

X_EndSessions(S) ==
  /\ shell' = [o \in Open |-> IF o \in S THEN "ending" ELSE shell[o]]
  /\ private' = private

(* endSession: the listeners are taken off, then the shell is hung up.     *)
EndSessions(S) ==
  /\ shell' = [o \in Open |-> IF o \in S THEN "ending" ELSE shell[o]]
  /\ private' = private \ S

(* What is left of the sessions of s once terminal i is taken out.         *)
TableWithout(s, i) ==
  IF socketSessions[s] = None THEN table ELSE [table EXCEPT ![socketSessions[s]][i] = None]
SessionsWithout(s, i) ==
  IF socketSessions[s] # None /\ TableWithout(s, i)[socketSessions[s]] = Empty
    THEN None ELSE socketSessions[s]

(* With the binding at hand: the tab's earlier session is closed, and the  *)
(* map of sessions found, or made.                                         *)
Prepare(o) ==
  LET s == SocketOf[o]
      i == IdOf[o]
      old == Entry(s, i)
      left == IF old = None THEN socketSessions[s] ELSE SessionsWithout(s, i)
      m == IF left = None THEN o ELSE left
      others == {p \in Open \ {o} : pc[p] = "preparing" /\ SameTab(o, p)} IN
  /\ pc[o] = "loading" /\ binding = "loaded"
  /\ pc' = [pc EXCEPT ![o] = "preparing"]
  /\ tableOf' = [tableOf EXCEPT ![o] = m]
  /\ table' = TableWithout(s, i)
  /\ socketSessions' = [socketSessions EXCEPT ![s] = m]
  /\ EndSessions({old} \ {None})
  /\ overlapped' = overlapped
       \cup (IF others = {} THEN {} ELSE others \cup {o})
       \cup (IF left = socketSessions[s] THEN {} ELSE Holding(socketSessions[s]))
  /\ UNCHANGED <<connected, confined, binding, waitsFor, flightOf, inFlightOpens, flight>>

(* confinedLaunch has made the private directory, or there is none to be   *)
(* made: the shell is spawned and put into the map held since Prepare.     *)
Spawn(o) ==
  /\ pc[o] = "preparing" /\ (confined => Quiet)
  /\ shell' = [shell EXCEPT ![o] = "running"]
  /\ table' = [table EXCEPT ![tableOf[o]][IdOf[o]] = o]
  /\ private' = IF confined THEN private \cup {o} ELSE private
  /\ Finish(o, "opened")
  /\ UNCHANGED <<connected, confined, binding, waitsFor, flightOf, tableOf, socketSessions,
                 overlapped>>

(* The directory cannot be made, or the shell not spawned.                 *)
SpawnFails(o) ==
  /\ pc[o] = "preparing" /\ (confined => Quiet)
  /\ Finish(o, "failed")
  /\ UNCHANGED <<connected, confined, binding, waitsFor, flightOf, tableOf, sessions, overlapped>>

-----------------------------------------------------------------------------
(* A session is taken out of its connection's map, and the map goes with   *)
(* its last session.                                                       *)
TakeOut(s, i) ==
  /\ table' = TableWithout(s, i)
  /\ socketSessions' = [socketSessions EXCEPT ![s] = SessionsWithout(s, i)]
  /\ overlapped' = IF SessionsWithout(s, i) = None
                     THEN overlapped \cup Holding(socketSessions[s]) ELSE overlapped

(* terminal_close.                                                         *)
TerminalClose(s, i) ==
  /\ s \in connected /\ Entry(s, i) # None /\ Quiet
  /\ EndSessions({Entry(s, i)})
  /\ TakeOut(s, i)
  /\ UNCHANGED <<connected, confined, binding, opening>>

(* The connection ends: closeAllForSocket.                                 *)
Disconnect(s) ==
  /\ s \in connected /\ Quiet
  /\ connected' = connected \ {s}
  /\ EndSessions({Entry(s, i) : i \in Id} \ {None})
  /\ socketSessions' = [socketSessions EXCEPT ![s] = None]
  /\ overlapped' = overlapped \cup
       {o \in Open : SocketOf[o] = s /\ pc[o] \in {"waiting", "loading", "preparing"}}
  /\ UNCHANGED <<confined, binding, opening, table>>

X_ShellExits(o) ==
  /\ shell[o] = "running" /\ Quiet
  /\ shell' = [shell EXCEPT ![o] = "gone"]
  /\ private' = private \ {o}
  /\ TakeOut(SocketOf[o], IdOf[o])
  /\ UNCHANGED <<connected, confined, binding, opening>>

(* The shell ends by itself, and its listener is still there: its session  *)
(* goes, when it is the one the map names.                                 *)
ShellExits(o) ==
  /\ shell[o] = "running" /\ Quiet
  /\ shell' = [shell EXCEPT ![o] = "gone"]
  /\ private' = private \ {o}
  /\ \/ /\ Entry(SocketOf[o], IdOf[o]) = o
        /\ TakeOut(SocketOf[o], IdOf[o])
     \/ /\ Entry(SocketOf[o], IdOf[o]) # o
        /\ UNCHANGED <<table, socketSessions, overlapped>>
  /\ UNCHANGED <<connected, confined, binding, opening>>

(* A shell that was hung up may end, or ignore it.                         *)
HungUp(o) ==
  /\ shell[o] = "ending"
  /\ shell' = [shell EXCEPT ![o] = "gone"]
  /\ UNCHANGED <<connected, confined, binding, opening, socketSessions, table, private, overlapped>>

(* killIfStillAlive: the grace is over, and it is killed outright.         *)
KillAfterGrace(o) == HungUp(o)

-----------------------------------------------------------------------------
Next ==
  \/ \E o \in Open : \/ TerminalOpen(o) \/ Resume(o) \/ LoadFails(o) \/ Prepare(o)
                     \/ Spawn(o) \/ SpawnFails(o) \/ ShellExits(o) \/ HungUp(o)
  \/ \E s \in Socket : Disconnect(s) \/ \E i \in Id : TerminalClose(s, i)
  \/ PtyLoads

(* Continuations run, files and spawns end one way or the other, and the   *)
(* timer of killIfStillAlive fires.                                        *)
Fairness ==
  /\ WF_vars(PtyLoads)
  /\ \A o \in Open : /\ WF_vars(Resume(o)) /\ WF_vars(LoadFails(o)) /\ WF_vars(Prepare(o))
                     /\ WF_vars(Spawn(o) \/ SpawnFails(o)) /\ WF_vars(KillAfterGrace(o))

Spec == Init /\ [][Next]_vars /\ Fairness

-----------------------------------------------------------------------------
(* A shell that runs, and was not told to end, is the one its tab's        *)
(* messages reach, over a connection that is still there; unless, while it *)
(* was being opened, the last other session of its connection went, its    *)
(* tab was opened once more, or its connection ended.                      *)
HeldUnlessOverlapped ==
  \A o \in Open :
    shell[o] = "running" /\ o \notin overlapped =>
      SocketOf[o] \in connected /\ Entry(SocketOf[o], IdOf[o]) = o

(* The private directory of a confined terminal lives as long as a shell   *)
(* that was not told to end, whichever way the terminal goes.              *)
PrivateWhileRunning == \A o \in private : shell[o] = "running"

(* Once no open is under way, the manager remembers none, however many     *)
(* maps of them there were.                                                *)
NothingInFlightAtRest ==
  \A s \in Socket :
    (\A o \in Open : SocketOf[o] = s => pc[o] = "new" \/ Settled(o)) => inFlightOpens[s] = None

(* Every open comes to an end: those that wait for each other do not do so *)
(* in a circle.                                                            *)
OpensEnd == \A o \in Open : pc[o] # "new" ~> Settled(o)
=============================================================================
