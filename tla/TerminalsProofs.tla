-------------------------- MODULE TerminalsProofs --------------------------
(***************************************************************************)
(* Theorems about Terminals, for any number of connections, terminal ids   *)
(* and calls of open(): the state is typed, no private directory outlives  *)
(* its shell, no open is remembered once none is under way, and a shell    *)
(* that no message reaches was opening when something got in the way.      *)
(***************************************************************************)
EXTENDS Terminals, TLAPS

-----------------------------------------------------------------------------
(* The maps of sessions                                                    *)

\* What a map names has a shell.
EntriesAreOpened == \A m \in Open, i \in Id : table[m][i] # None => shell[table[m][i]] # "none"

\* A map is named by the open that made it, belongs to its connection, and is not there before.
MapsAreOwned ==
  /\ \A s \in Socket : socketSessions[s] # None => SocketOf[socketSessions[s]] = s
  /\ \A o \in Open : tableOf[o] # None => SocketOf[tableOf[o]] = SocketOf[o]
  /\ \A o \in Open : pc[o] = "preparing" => tableOf[o] # None
  /\ \A m \in Open : pc[m] \in {"new", "waiting", "loading"} =>
       /\ table[m] = Empty
       /\ \A s \in Socket : socketSessions[s] # m
       /\ \A o \in Open : tableOf[o] # m

Typed == TypeOK /\ EntriesAreOpened /\ MapsAreOwned

LEMMA EntryPut ==
  ASSUME NEW f \in [Open -> Map], NEW m, NEW i \in Id, NEW v \in Open \cup {None}
  PROVE  [f EXCEPT ![m][i] = v] \in [Open -> Map]
BY DEF Map

LEMMA TableWithoutIs ==
  ASSUME TypeOK, NEW s \in Socket, NEW i \in Id
  PROVE  /\ TableWithout(s, i) \in [Open -> Map]
         /\ \A m \in Open, j \in Id : TableWithout(s, i)[m][j] =
              IF m = socketSessions[s] /\ j = i THEN None ELSE table[m][j]
BY TerminalsAssumption DEF TypeOK, TableWithout, Map, TerminalsAssumption

\* The map goes only with its last session.
LEMMA SessionsWithoutIs ==
  ASSUME TypeOK, NEW s \in Socket, NEW i \in Id
  PROVE  /\ SessionsWithout(s, i) \in {None, socketSessions[s]}
         /\ \A j \in Id : j # i /\ Entry(s, j) # None => SessionsWithout(s, i) = socketSessions[s]
<1>1. SessionsWithout(s, i) \in {None, socketSessions[s]}
  BY DEF SessionsWithout
<1>2. ASSUME NEW j \in Id, j # i, Entry(s, j) # None PROVE SessionsWithout(s, i) = socketSessions[s]
  <2>1. socketSessions[s] \in Open
    BY <1>2 DEF Entry, TypeOK
  <2>2. TableWithout(s, i)[socketSessions[s]][j] # None
    BY <1>2, <2>1, TableWithoutIs DEF Entry
  <2>3. TableWithout(s, i)[socketSessions[s]] # Empty
    BY <2>2 DEF Empty
  <2> QED BY <2>3 DEF SessionsWithout
<1> QED BY <1>1, <1>2

\* Hanging up sessions that were opened leaves them opened.
LEMMA EndingTyped ==
  ASSUME TypeOK, NEW S, \A o \in S \cap Open : shell[o] # "none", EndSessions(S)
  PROVE  /\ shell' \in [Open -> {"none", "running", "ending", "gone"}]
         /\ private' \subseteq Open
         /\ \A o \in Open : shell'[o] = "none" <=> shell[o] = "none"
BY DEF TypeOK, EndSessions

\* The end of an open keeps the maps of opens typed.
LEMMA FinishTyped ==
  ASSUME TypeOK, NEW o \in Open, NEW how \in {"opened", "failed"}, Finish(o, how)
  PROVE  /\ pc' = [pc EXCEPT ![o] = how]
         /\ inFlightOpens' \in [Socket -> Open \cup {None}] /\ flight' \in [Open -> Map]
BY TerminalsAssumption DEF TypeOK, Finish, Map, TerminalsAssumption

LEMMA TypedInit == Init => Typed
BY TerminalsAssumption
   DEF Init, Typed, TypeOK, EntriesAreOpened, MapsAreOwned, Empty, Map, TerminalsAssumption

LEMMA TypedStep ==
  ASSUME Typed, [Next]_vars
  PROVE  Typed'
<1> USE TerminalsAssumption DEF TerminalsAssumption
<1>0. TypeOK BY DEF Typed
\* Steps that leave the sessions and their shells alone.
<1>1. ASSUME UNCHANGED sessions, UNCHANGED <<confined, tableOf>>,
             connected' \subseteq Socket, binding' \in {"unknown", "loaded", "missing"},
             overlapped' \subseteq Open,
             waitsFor' \in [Open -> Open \cup {None}], flightOf' \in [Open -> Open \cup {None}],
             inFlightOpens' \in [Socket -> Open \cup {None}], flight' \in [Open -> Map],
             pc' \in [Open -> {"new", "waiting", "loading", "preparing", "opened", "failed"}],
             \A o \in Open :
               \/ pc'[o] = pc[o]
               \/ pc[o] \in {"new", "waiting"} /\ pc'[o] \in {"waiting", "loading"}
               \/ pc[o] \in {"loading", "preparing"} /\ pc'[o] = "failed"
      PROVE  Typed'
  <2>1. TypeOK'
    BY <1>0, <1>1 DEF TypeOK, sessions
  <2>2. EntriesAreOpened' /\ MapsAreOwned'
    BY <1>0, <1>1 DEF Typed, EntriesAreOpened, MapsAreOwned, sessions, TypeOK, Empty
  <2> QED BY <2>1, <2>2 DEF Typed
<1>2. ASSUME NEW o \in Open, TerminalOpen(o) PROVE Typed'
  <2>1. PICK m : m = IF inFlightOpens[SocketOf[o]] = None THEN o ELSE inFlightOpens[SocketOf[o]]
    OBVIOUS
  <2>2. m \in Open /\ flight[m][IdOf[o]] \in Open \cup {None}
    BY <1>0, <2>1 DEF TypeOK, Map
  <2>3. /\ pc[o] = "new"
        /\ inFlightOpens' = [inFlightOpens EXCEPT ![SocketOf[o]] = m]
        /\ flightOf' = [flightOf EXCEPT ![o] = m]
        /\ \/ /\ pc' = [pc EXCEPT ![o] = "loading"]
              /\ flight' = [flight EXCEPT ![m][IdOf[o]] = o]
              /\ waitsFor' = waitsFor
           \/ /\ pc' = [pc EXCEPT ![o] = "waiting"]
              /\ flight' = flight
              /\ waitsFor' = [waitsFor EXCEPT ![o] = flight[m][IdOf[o]]]
        /\ UNCHANGED <<connected, confined, binding, tableOf, sessions, overlapped>>
    BY <1>2, <2>1 DEF TerminalOpen, Begin
  <2>4. flight' \in [Open -> Map]
    BY <1>0, <2>3, EntryPut DEF TypeOK
  <2>5. /\ inFlightOpens' \in [Socket -> Open \cup {None}]
        /\ flightOf' \in [Open -> Open \cup {None}] /\ waitsFor' \in [Open -> Open \cup {None}]
    BY <1>0, <2>2, <2>3 DEF TypeOK
  <2>6. /\ pc' \in [Open -> {"new", "waiting", "loading", "preparing", "opened", "failed"}]
        /\ \A x \in Open :
             \/ pc'[x] = pc[x]
             \/ pc[x] \in {"new", "waiting"} /\ pc'[x] \in {"waiting", "loading"}
    <3>1. PICK place \in {"waiting", "loading"} : pc' = [pc EXCEPT ![o] = place]
      BY <2>3
    <3> QED BY <1>0, <2>3, <3>1 DEF TypeOK
  <2>7. /\ UNCHANGED sessions /\ UNCHANGED <<confined, tableOf>> /\ connected' \subseteq Socket
        /\ binding' \in {"unknown", "loaded", "missing"} /\ overlapped' \subseteq Open
    BY <1>0, <2>3 DEF TypeOK
  <2> QED BY <1>1, <2>4, <2>5, <2>6, <2>7
<1>3. ASSUME NEW o \in Open, Resume(o) PROVE Typed'
  <2>1. /\ pc[o] = "waiting" /\ pc' = [pc EXCEPT ![o] = "loading"]
        /\ flight' = [flight EXCEPT ![flightOf[o]][IdOf[o]] = o]
    BY <1>3 DEF Resume, Begin
  <2>2. flight' \in [Open -> Map]
    BY <1>0, <2>1, EntryPut DEF TypeOK
  <2> QED BY <1>0, <1>1, <1>3, <2>1, <2>2 DEF TypeOK, Resume
<1>4. CASE PtyLoads
  BY <1>0, <1>1, <1>4 DEF TypeOK, PtyLoads, opening
<1>5. ASSUME NEW o \in Open, LoadFails(o) \/ SpawnFails(o) PROVE Typed'
  <2>1. Finish(o, "failed") /\ pc[o] \in {"loading", "preparing"}
    BY <1>5 DEF LoadFails, SpawnFails
  <2>2. /\ pc' = [pc EXCEPT ![o] = "failed"]
        /\ inFlightOpens' \in [Socket -> Open \cup {None}] /\ flight' \in [Open -> Map]
    BY <1>0, <2>1, FinishTyped
  <2> QED BY <1>0, <1>1, <1>5, <2>1, <2>2 DEF TypeOK, LoadFails, SpawnFails
<1>6. ASSUME NEW o \in Open, Prepare(o) PROVE Typed'
  <2>1. PICK s, i, old, left, m :
          /\ s = SocketOf[o] /\ i = IdOf[o] /\ s \in Socket /\ i \in Id /\ old = Entry(s, i)
          /\ left = IF old = None THEN socketSessions[s] ELSE SessionsWithout(s, i)
          /\ m = IF left = None THEN o ELSE left
    OBVIOUS
  <2>2. /\ pc[o] = "loading" /\ pc' = [pc EXCEPT ![o] = "preparing"]
        /\ tableOf' = [tableOf EXCEPT ![o] = m]
        /\ table' = TableWithout(s, i)
        /\ socketSessions' = [socketSessions EXCEPT ![s] = m]
        /\ EndSessions({old} \ {None})
        /\ overlapped' \subseteq Open
        /\ UNCHANGED <<connected, confined, binding, waitsFor, flightOf, inFlightOpens, flight>>
    BY <1>0, <1>6, <2>1 DEF Prepare, Holding, TypeOK
  <2>3. left \in {None, socketSessions[s]}
    BY <1>0, <2>1, SessionsWithoutIs
  <2>4. m \in Open /\ SocketOf[m] = s /\ (m = o \/ m = socketSessions[s])
    BY <1>0, <2>1, <2>3 DEF Typed, MapsAreOwned, TypeOK
  <2>5. /\ shell' \in [Open -> {"none", "running", "ending", "gone"}] /\ private' \subseteq Open
        /\ \A p \in Open : shell'[p] = "none" <=> shell[p] = "none"
    <3>1. \A p \in ({old} \ {None}) \cap Open : shell[p] # "none"
      BY <1>0, <2>1 DEF Typed, EntriesAreOpened, Entry, TypeOK
    <3> QED BY <1>0, <2>2, <3>1, EndingTyped
  <2>6. TypeOK'
    BY <1>0, <2>1, <2>2, <2>4, <2>5, TableWithoutIs, ZenonT(60) DEF TypeOK
  <2>7. EntriesAreOpened'
    BY <1>0, <2>1, <2>2, <2>5, TableWithoutIs DEF Typed, EntriesAreOpened, TypeOK, Map
  <2>8. \A x \in Open : x # o /\ pc[x] \in {"new", "waiting", "loading"} => table'[x] = table[x]
    BY <1>0, <2>1, <2>2 DEF Typed, MapsAreOwned, TableWithout, TypeOK
  <2>9. MapsAreOwned'
    BY <1>0, <2>1, <2>2, <2>4, <2>8 DEF Typed, MapsAreOwned, TypeOK, Empty
  <2> QED BY <2>6, <2>7, <2>9 DEF Typed
<1>7. ASSUME NEW o \in Open, Spawn(o) PROVE Typed'
  <2>1. /\ pc[o] = "preparing" /\ shell' = [shell EXCEPT ![o] = "running"]
        /\ table' = [table EXCEPT ![tableOf[o]][IdOf[o]] = o]
        /\ private' \subseteq Open /\ Finish(o, "opened")
        /\ UNCHANGED <<connected, confined, binding, waitsFor, flightOf, tableOf, socketSessions,
                       overlapped>>
    BY <1>0, <1>7 DEF Spawn, TypeOK
  <2>2. /\ pc' = [pc EXCEPT ![o] = "opened"]
        /\ inFlightOpens' \in [Socket -> Open \cup {None}] /\ flight' \in [Open -> Map]
    BY <1>0, <2>1, FinishTyped
  <2>3. /\ table' \in [Open -> Map]
        /\ \A m \in Open, i \in Id :
             table'[m][i] = IF m = tableOf[o] /\ i = IdOf[o] THEN o ELSE table[m][i]
    BY <1>0, <2>1, ZenonT(60) DEF TypeOK, Map
  <2>4. TypeOK'
    BY <1>0, <2>1, <2>2, <2>3 DEF TypeOK
  <2>5. EntriesAreOpened'
    BY <1>0, <2>1, <2>3 DEF Typed, EntriesAreOpened, TypeOK, Map
  <2>6. \A m \in Open : pc[m] \in {"new", "waiting", "loading"} => table'[m] = table[m]
    BY <1>0, <2>1 DEF Typed, MapsAreOwned, TypeOK
  <2>7. MapsAreOwned'
    BY <1>0, <2>1, <2>2, <2>6 DEF Typed, MapsAreOwned, TypeOK, Empty
  <2> QED BY <2>4, <2>5, <2>7 DEF Typed
\* A session goes, and the map with it if it was the last.
<1>8. ASSUME NEW s \in Socket, NEW i \in Id, TakeOut(s, i), UNCHANGED <<confined, binding, opening>>,
             connected' = connected,
             shell' \in [Open -> {"none", "running", "ending", "gone"}], private' \subseteq Open,
             \A o \in Open : shell'[o] = "none" <=> shell[o] = "none"
      PROVE  Typed'
  <2>1. /\ table' = TableWithout(s, i)
        /\ socketSessions' = [socketSessions EXCEPT ![s] = SessionsWithout(s, i)]
        /\ SessionsWithout(s, i) \in {None, socketSessions[s]}
        /\ overlapped' \subseteq Open
    BY <1>0, <1>8, SessionsWithoutIs DEF TakeOut, Holding, TypeOK
  <2>2. TypeOK'
    BY <1>0, <1>8, <2>1, TableWithoutIs DEF TypeOK, opening
  <2>3. EntriesAreOpened'
    BY <1>0, <1>8, <2>1, TableWithoutIs DEF Typed, EntriesAreOpened, TypeOK, Map
  <2>4. \A m \in Open : pc[m] \in {"new", "waiting", "loading"} => table'[m] = table[m]
    BY <1>0, <2>1 DEF Typed, MapsAreOwned, TableWithout, TypeOK
  <2>5. MapsAreOwned'
    BY <1>0, <1>8, <2>1, <2>4 DEF Typed, MapsAreOwned, TypeOK, opening, Empty
  <2> QED BY <2>2, <2>3, <2>5 DEF Typed
<1>9. ASSUME NEW s \in Socket, NEW i \in Id, TerminalClose(s, i) PROVE Typed'
  <2>1. EndSessions({Entry(s, i)}) /\ Entry(s, i) # None
    BY <1>9 DEF TerminalClose
  <2>2. \A o \in {Entry(s, i)} \cap Open : shell[o] # "none"
    BY <1>0, <2>1 DEF Typed, EntriesAreOpened, Entry, TypeOK
  <2> QED BY <1>0, <1>8, <1>9, <2>1, <2>2, EndingTyped DEF TerminalClose
<1>10. ASSUME NEW s \in Socket, Disconnect(s) PROVE Typed'
  <2>1. /\ connected' = connected \ {s}
        /\ EndSessions({Entry(s, i) : i \in Id} \ {None})
        /\ socketSessions' = [socketSessions EXCEPT ![s] = None]
        /\ overlapped' \subseteq Open
        /\ UNCHANGED <<confined, binding, opening, table>>
    BY <1>0, <1>10 DEF Disconnect, TypeOK
  <2>2. \A o \in ({Entry(s, i) : i \in Id} \ {None}) \cap Open : shell[o] # "none"
    BY <1>0 DEF Typed, EntriesAreOpened, Entry, TypeOK
  <2>3. /\ shell' \in [Open -> {"none", "running", "ending", "gone"}] /\ private' \subseteq Open
        /\ \A o \in Open : shell'[o] = "none" <=> shell[o] = "none"
    BY <1>0, <2>1, <2>2, EndingTyped
  <2>4. TypeOK'
    BY <1>0, <2>1, <2>3 DEF TypeOK, opening
  <2>5. EntriesAreOpened' /\ MapsAreOwned'
    BY <1>0, <2>1, <2>3 DEF Typed, EntriesAreOpened, MapsAreOwned, TypeOK, opening, Empty, Map
  <2> QED BY <2>4, <2>5 DEF Typed
<1>11. ASSUME NEW o \in Open, ShellExits(o) PROVE Typed'
  <2>1. /\ shell' \in [Open -> {"none", "running", "ending", "gone"}] /\ private' \subseteq Open
        /\ \A p \in Open : shell'[p] = "none" <=> shell[p] = "none"
        /\ UNCHANGED <<connected, confined, binding, opening>>
    BY <1>0, <1>11 DEF ShellExits, TypeOK
  <2>2. CASE TakeOut(SocketOf[o], IdOf[o])
    BY <1>8, <2>1, <2>2
  <2>3. CASE UNCHANGED <<table, socketSessions, overlapped>>
    BY <1>0, <2>1, <2>3 DEF Typed, TypeOK, EntriesAreOpened, MapsAreOwned, opening, Empty, Map
  <2> QED BY <1>11, <2>2, <2>3 DEF ShellExits
<1>12. ASSUME NEW o \in Open, HungUp(o) PROVE Typed'
  <2>1. /\ shell' = [shell EXCEPT ![o] = "gone"] /\ shell[o] = "ending"
        /\ UNCHANGED <<connected, confined, binding, opening, socketSessions, table, private,
                       overlapped>>
    BY <1>12 DEF HungUp
  <2> QED BY <1>0, <2>1 DEF Typed, TypeOK, EntriesAreOpened, MapsAreOwned, opening, Empty, Map
<1>13. CASE UNCHANGED vars
  BY <1>0, <1>1, <1>13 DEF vars, opening, TypeOK
<1> QED
  BY <1>2, <1>3, <1>4, <1>5, <1>6, <1>7, <1>9, <1>10, <1>11, <1>12, <1>13 DEF Next

LEMMA AlwaysTyped == Spec => []Typed
<1>1. Typed /\ [Next]_vars => Typed'
  BY TypedStep
<1> QED BY TypedInit, <1>1, PTL DEF Spec

\* The maps keep their type, and an open has a shell from when it says so (open).
THEOREM TerminalsTypeCorrect == Spec => []TypeOK
<1>1. Typed => TypeOK
  BY DEF Typed
<1> QED BY <1>1, AlwaysTyped, PTL

-----------------------------------------------------------------------------
(* Private directories                                                     *)

LEMMA PrivateStep ==
  ASSUME Typed, PrivateWhileRunning, [Next]_vars
  PROVE  PrivateWhileRunning'
<1>0. TypeOK BY DEF Typed
<1>1. CASE UNCHANGED <<shell, private>>
  BY <1>1 DEF PrivateWhileRunning
<1>2. ASSUME NEW S, EndSessions(S) PROVE PrivateWhileRunning'
  BY <1>0, <1>2 DEF PrivateWhileRunning, EndSessions, TypeOK
<1>3. ASSUME NEW o \in Open, Spawn(o) PROVE PrivateWhileRunning'
  BY <1>0, <1>3 DEF PrivateWhileRunning, Spawn, TypeOK
<1>4. ASSUME NEW o \in Open, ShellExits(o) PROVE PrivateWhileRunning'
  BY <1>0, <1>4 DEF PrivateWhileRunning, ShellExits, TypeOK
<1>5. ASSUME NEW o \in Open, HungUp(o) PROVE PrivateWhileRunning'
  BY <1>0, <1>5 DEF PrivateWhileRunning, HungUp, TypeOK
<1>6. CASE \/ \E o \in Open : Prepare(o)
           \/ \E s \in Socket : Disconnect(s) \/ \E i \in Id : TerminalClose(s, i)
  BY <1>2, <1>6 DEF Prepare, Disconnect, TerminalClose
<1>7. CASE \/ \E o \in Open : TerminalOpen(o) \/ Resume(o) \/ LoadFails(o) \/ SpawnFails(o)
           \/ PtyLoads \/ UNCHANGED vars
  BY <1>1, <1>7 DEF TerminalOpen, Resume, LoadFails, SpawnFails, PtyLoads, vars, sessions
<1> QED BY <1>3, <1>4, <1>5, <1>6, <1>7 DEF Next

\* The private directory of a confined terminal goes with its shell on every path: a close, a
\* reopened tab, the end of the connection, the shell's own exit (endSession, onExit).
THEOREM PrivateGoesWithTheShell == Spec => []PrivateWhileRunning
<1>1. Init => PrivateWhileRunning
  BY DEF Init, PrivateWhileRunning
<1>2. Typed /\ PrivateWhileRunning /\ [Next]_vars => PrivateWhileRunning'
  BY PrivateStep
<1> QED BY <1>1, <1>2, AlwaysTyped, PTL DEF Spec

-----------------------------------------------------------------------------
(* Opens under way                                                         *)

\* NothingInFlightAtRest is inductive with: a map of opens names opens under way that hold it, it
\* belongs to their connection, and the one a connection has names some.
InFlight ==
  /\ \A m \in Open, i \in Id : flight[m][i] # None =>
       /\ pc[flight[m][i]] \in {"loading", "preparing"}
       /\ flightOf[flight[m][i]] = m /\ IdOf[flight[m][i]] = i
  /\ \A o \in Open : flightOf[o] # None => SocketOf[flightOf[o]] = SocketOf[o]
  /\ \A o \in Open : flightOf[o] = None <=> pc[o] = "new"
  /\ \A s \in Socket : inFlightOpens[s] # None =>
       /\ SocketOf[inFlightOpens[s]] = s
       /\ \E i \in Id : flight[inFlightOpens[s]][i] # None

LEMMA InFlightInit == Init => InFlight
BY TerminalsAssumption DEF Init, InFlight, Empty, TerminalsAssumption

LEMMA OnlyUnderWay ==
  ASSUME TypeOK, InFlight, NEW o \in Open, pc[o] \notin {"loading", "preparing"}
  PROVE  \A n \in Open, i \in Id : flight[n][i] # o
<1> SUFFICES ASSUME NEW n \in Open, NEW i \in Id, flight[n][i] = o PROVE FALSE
  OBVIOUS
<1>1. flight[n][i] # None
  BY TerminalsAssumption DEF TerminalsAssumption
<1> QED BY <1>1 DEF InFlight

LEMMA InFlightFinish ==
  ASSUME TypeOK, InFlight, NEW o \in Open, NEW how \in {"opened", "failed"}, Finish(o, how),
         flightOf' = flightOf, pc[o] # "new"
  PROVE  InFlight'
<1> USE TerminalsAssumption DEF TerminalsAssumption
<1>1. PICK m \in Open : m = flightOf[o]
  BY DEF TypeOK, InFlight
<1>2. /\ pc' = [pc EXCEPT ![o] = how]
      /\ flight' = [flight EXCEPT ![m][IdOf[o]] = None]
      /\ inFlightOpens' = IF flight'[m] = Empty
                            THEN [inFlightOpens EXCEPT ![SocketOf[o]] = None]
                            ELSE inFlightOpens
  BY <1>1 DEF Finish
<1>3. /\ flight' \in [Open -> Map]
      /\ \A n \in Open, i \in Id :
           flight'[n][i] = IF n = m /\ i = IdOf[o] THEN None ELSE flight[n][i]
  BY <1>2, EntryPut DEF TypeOK, Map
<1>4. \A n \in Open, i \in Id : flight'[n][i] # None =>
        /\ flight'[n][i] # o /\ flight'[n][i] = flight[n][i] /\ flight[n][i] \in Open
  BY <1>1, <1>3 DEF InFlight, TypeOK, Map
<1>5. \A s \in Socket : inFlightOpens'[s] # None =>
        /\ inFlightOpens'[s] = inFlightOpens[s]
        /\ \E i \in Id : flight'[inFlightOpens[s]][i] # None
  <2>1. TAKE s \in Socket
  <2>2. HAVE inFlightOpens'[s] # None
  <2>3. inFlightOpens'[s] = inFlightOpens[s] /\ inFlightOpens[s] \in Open
    BY <1>2, <2>2 DEF TypeOK
  <2>4. CASE inFlightOpens[s] = m
    <3>1. s = SocketOf[o]
      BY <1>1, <2>4 DEF InFlight
    <3>2. flight'[m] # Empty
      BY <1>2, <2>2, <3>1 DEF TypeOK
    <3>3. \E i \in Id : flight'[m][i] # None
      BY <1>3, <3>2 DEF Empty, Map
    <3> QED BY <2>3, <2>4, <3>3
  <2>5. CASE inFlightOpens[s] # m
    BY <1>3, <2>3, <2>5 DEF InFlight
  <2> QED BY <2>4, <2>5
<1>6. \A s \in Socket : inFlightOpens'[s] # None => SocketOf[inFlightOpens'[s]] = s
  BY <1>5 DEF InFlight
<1> QED BY <1>2, <1>4, <1>5, <1>6 DEF InFlight, TypeOK

LEMMA InFlightStep ==
  ASSUME Typed, InFlight, [Next]_vars
  PROVE  InFlight'
<1> USE TerminalsAssumption DEF TerminalsAssumption
<1>0. TypeOK BY DEF Typed
<1>1. CASE UNCHANGED opening
  BY <1>1 DEF InFlight, opening
<1>2. ASSUME NEW o \in Open, TerminalOpen(o) PROVE InFlight'
  <2>1. PICK m : m = IF inFlightOpens[SocketOf[o]] = None THEN o ELSE inFlightOpens[SocketOf[o]]
    OBVIOUS
  <2>2. m \in Open /\ SocketOf[m] = SocketOf[o]
    BY <1>0, <2>1 DEF TypeOK, InFlight
  <2>3. /\ pc[o] = "new"
        /\ inFlightOpens' = [inFlightOpens EXCEPT ![SocketOf[o]] = m]
        /\ flightOf' = [flightOf EXCEPT ![o] = m]
        /\ \/ /\ pc' = [pc EXCEPT ![o] = "loading"]
              /\ flight' = [flight EXCEPT ![m][IdOf[o]] = o]
           \/ /\ flight[m][IdOf[o]] # None
              /\ pc' = [pc EXCEPT ![o] = "waiting"]
              /\ flight' = flight
    BY <1>2, <2>1 DEF TerminalOpen, Begin
  <2>4. \A n \in Open, i \in Id : flight[n][i] # o
    BY <1>0, <2>3, OnlyUnderWay
  <2>5. CASE flight' = flight
    BY <1>0, <2>2, <2>3, <2>4, <2>5 DEF InFlight, TypeOK, Map
  <2>6. CASE pc' = [pc EXCEPT ![o] = "loading"] /\ flight' = [flight EXCEPT ![m][IdOf[o]] = o]
    <3>1. \A n \in Open, i \in Id :
            flight'[n][i] = IF n = m /\ i = IdOf[o] THEN o ELSE flight[n][i]
      BY <1>0, <2>2, <2>6 DEF TypeOK, Map
    <3>2. \A n \in Open, i \in Id : flight[n][i] \in Open \cup {None}
      BY <1>0 DEF TypeOK, Map
    <3> QED BY <1>0, <2>2, <2>3, <2>4, <2>6, <3>1, <3>2 DEF InFlight, TypeOK
  <2> QED BY <2>3, <2>5, <2>6
<1>3. ASSUME NEW o \in Open, Resume(o) PROVE InFlight'
  <2>1. PICK m \in Open : m = flightOf[o]
    BY <1>0, <1>3 DEF Resume, InFlight, TypeOK
  <2>2. /\ pc[o] = "waiting" /\ pc' = [pc EXCEPT ![o] = "loading"]
        /\ flight' = [flight EXCEPT ![m][IdOf[o]] = o]
        /\ UNCHANGED <<flightOf, inFlightOpens>>
    BY <1>3, <2>1 DEF Resume, Begin
  <2>3. \A n \in Open, i \in Id : flight[n][i] # o /\ flight[n][i] \in Open \cup {None}
    <3>1. \A n \in Open, i \in Id : flight[n][i] # o
      BY <1>0, <2>2, OnlyUnderWay
    <3> QED BY <1>0, <3>1 DEF TypeOK, Map
  <2>4. \A n \in Open, i \in Id :
          flight'[n][i] = IF n = m /\ i = IdOf[o] THEN o ELSE flight[n][i]
    BY <1>0, <2>1, <2>2 DEF TypeOK, Map
  <2> QED BY <1>0, <2>1, <2>2, <2>3, <2>4 DEF InFlight, TypeOK
<1>4. ASSUME NEW o \in Open, LoadFails(o) \/ SpawnFails(o) \/ Spawn(o) PROVE InFlight'
  BY <1>0, <1>4, InFlightFinish DEF LoadFails, SpawnFails, Spawn
<1>5. ASSUME NEW o \in Open, Prepare(o) PROVE InFlight'
  <2>1. /\ pc[o] = "loading" /\ pc' = [pc EXCEPT ![o] = "preparing"]
        /\ UNCHANGED <<flightOf, inFlightOpens, flight>>
    BY <1>5 DEF Prepare
  <2> QED BY <1>0, <2>1 DEF InFlight, TypeOK, Map
<1>6. CASE \/ \E o \in Open : ShellExits(o) \/ HungUp(o)
           \/ \E s \in Socket : Disconnect(s) \/ \E i \in Id : TerminalClose(s, i)
           \/ PtyLoads \/ UNCHANGED vars
  BY <1>1, <1>6 DEF ShellExits, HungUp, Disconnect, TerminalClose, PtyLoads, vars
<1> QED BY <1>2, <1>3, <1>4, <1>5, <1>6 DEF Next

\* The manager remembers no open once none is under way, also when an open that waited entered
\* itself into a map that had been dropped meanwhile (open, inFlightOpens).
THEOREM NoOpenIsRemembered == Spec => []NothingInFlightAtRest
<1>1. Typed /\ InFlight /\ [Next]_vars => InFlight'
  BY InFlightStep
<1>2. Typed /\ InFlight => NothingInFlightAtRest
  <2> SUFFICES ASSUME Typed, InFlight, NEW s \in Socket, inFlightOpens[s] # None,
                      \A o \in Open : SocketOf[o] = s => pc[o] = "new" \/ Settled(o)
               PROVE  FALSE
    BY DEF NothingInFlightAtRest
  <2>1. PICK m \in Open, i \in Id : m = inFlightOpens[s] /\ SocketOf[m] = s /\ flight[m][i] # None
    BY DEF Typed, TypeOK, InFlight
  <2>2. PICK o \in Open : o = flight[m][i]
    BY <2>1 DEF Typed, TypeOK, Map
  <2>3. pc[o] \in {"loading", "preparing"} /\ flightOf[o] = m
    BY <2>1, <2>2 DEF InFlight
  <2>4. SocketOf[o] = s
    BY <2>1, <2>3, TerminalsAssumption DEF InFlight, TerminalsAssumption
  <2> QED BY <2>3, <2>4 DEF Settled
<1> QED BY InFlightInit, <1>1, <1>2, AlwaysTyped, PTL DEF Spec

-----------------------------------------------------------------------------
(* Shells and the messages of their tabs                                   *)

\* HeldUnlessOverlapped is inductive with what holds while the shell is being opened: its
\* connection is there, the map it holds is the connection's, its tab is free, and nobody else
\* is about to take it.
Held ==
  /\ HeldUnlessOverlapped
  /\ \A o \in Open : pc[o] \in {"waiting", "loading", "preparing"} /\ o \notin overlapped =>
       SocketOf[o] \in connected
  /\ \A o \in Open : pc[o] = "preparing" /\ o \notin overlapped =>
       /\ tableOf[o] = socketSessions[SocketOf[o]]
       /\ Entry(SocketOf[o], IdOf[o]) = None
  /\ \A o, p \in Open :
       pc[o] = "preparing" /\ o # p /\ SameTab(o, p) /\ (pc[p] = "preparing" \/ shell[p] = "running")
         => p \in overlapped

LEMMA HeldInit == Init => Held
BY TerminalsAssumption DEF Init, Held, HeldUnlessOverlapped, TerminalsAssumption

\* A session goes, which is the one its tab named: the others of the connection keep their map.
LEMMA HeldTakeOut ==
  ASSUME Typed, Held, NEW s \in Socket, NEW i \in Id, TakeOut(s, i),
         UNCHANGED <<connected, opening>>,
         \A o \in Open : shell'[o] = "running" => shell[o] = "running" /\ o # Entry(s, i)
  PROVE  Held'
<1> USE TerminalsAssumption DEF TerminalsAssumption
<1>0. TypeOK BY DEF Typed
<1>1. /\ table' = TableWithout(s, i)
      /\ socketSessions' = [socketSessions EXCEPT ![s] = SessionsWithout(s, i)]
      /\ overlapped' = IF SessionsWithout(s, i) = None
                         THEN overlapped \cup Holding(socketSessions[s]) ELSE overlapped
      /\ SessionsWithout(s, i) \in {None, socketSessions[s]}
      /\ UNCHANGED <<connected, pc, tableOf>>
  BY <1>0, SessionsWithoutIs DEF TakeOut, opening
<1>2. ASSUME NEW t \in Socket, NEW j \in Id, socketSessions'[t] = socketSessions[t]
      PROVE  Entry(t, j)' = IF t = s /\ j = i THEN None ELSE Entry(t, j)
  <2>1. CASE socketSessions[t] = None
    BY <1>2, <2>1 DEF Entry
  <2>2. CASE socketSessions[t] # None
    <3>1. socketSessions[t] \in Open /\ (socketSessions[t] = socketSessions[s] => t = s)
      BY <1>0, <2>2 DEF Typed, MapsAreOwned, TypeOK
    <3> QED BY <1>0, <1>1, <1>2, <2>2, <3>1, TableWithoutIs DEF Entry
  <2> QED BY <2>1, <2>2
<1>3. \A t \in Socket : socketSessions'[t] = socketSessions[t] \/ (t = s /\ SessionsWithout(s, i) = None)
  <2>1. TAKE t \in Socket
  <2>2. CASE t = s
    BY <1>0, <1>1, <2>2 DEF TypeOK
  <2>3. CASE t # s
    BY <1>0, <1>1, <2>3 DEF TypeOK
  <2> QED BY <2>2, <2>3
<1>4. ASSUME NEW o \in Open, shell'[o] = "running", o \notin overlapped'
      PROVE  SocketOf[o] \in connected' /\ Entry(SocketOf[o], IdOf[o])' = o
  <2>1. /\ shell[o] = "running" /\ o \notin overlapped /\ o # Entry(s, i)
        /\ SocketOf[o] \in connected /\ Entry(SocketOf[o], IdOf[o]) = o
    BY <1>1, <1>4 DEF Held, HeldUnlessOverlapped
  <2>2. SocketOf[o] = s => IdOf[o] # i /\ SessionsWithout(s, i) = socketSessions[s]
    BY <1>0, <2>1, SessionsWithoutIs
  <2>3. socketSessions'[SocketOf[o]] = socketSessions[SocketOf[o]]
    BY <1>0, <1>1, <2>2 DEF TypeOK
  <2> QED BY <1>1, <1>2, <2>1, <2>2, <2>3
<1>5. ASSUME NEW o \in Open, pc'[o] = "preparing", o \notin overlapped'
      PROVE  /\ tableOf'[o] = socketSessions'[SocketOf[o]]
             /\ Entry(SocketOf[o], IdOf[o])' = None
  <2>1. /\ pc[o] = "preparing" /\ o \notin overlapped
        /\ tableOf[o] = socketSessions[SocketOf[o]] /\ Entry(SocketOf[o], IdOf[o]) = None
    BY <1>1, <1>5 DEF Held
  <2>2. socketSessions'[SocketOf[o]] = socketSessions[SocketOf[o]]
    BY <1>1, <1>3, <1>5, <2>1 DEF Holding
  <2> QED BY <1>1, <1>2, <2>1, <2>2
<1>6. HeldUnlessOverlapped'
  BY <1>4 DEF HeldUnlessOverlapped
<1>7. overlapped \subseteq overlapped'
  BY <1>1
<1> QED BY <1>1, <1>5, <1>6, <1>7 DEF Held, SameTab

\* An open finds its map: a session of its tab goes, another open of the tab is overlapped.
LEMMA HeldPrepare ==
  ASSUME Typed, Held, NEW o \in Open, Prepare(o)
  PROVE  Held'
<1> USE TerminalsAssumption DEF TerminalsAssumption
<1>0. TypeOK BY DEF Typed
<1>1. PICK s, i, old, left, m, others :
        /\ s = SocketOf[o] /\ i = IdOf[o] /\ s \in Socket /\ i \in Id /\ old = Entry(s, i)
        /\ left = IF old = None THEN socketSessions[s] ELSE SessionsWithout(s, i)
        /\ m = IF left = None THEN o ELSE left
        /\ others = {p \in Open \ {o} : pc[p] = "preparing" /\ SameTab(o, p)}
  OBVIOUS
<1>2. /\ pc[o] = "loading" /\ pc' = [pc EXCEPT ![o] = "preparing"]
      /\ tableOf' = [tableOf EXCEPT ![o] = m]
      /\ table' = TableWithout(s, i)
      /\ socketSessions' = [socketSessions EXCEPT ![s] = m]
      /\ EndSessions({old} \ {None})
      /\ overlapped' = overlapped
           \cup (IF others = {} THEN {} ELSE others \cup {o})
           \cup (IF left = socketSessions[s] THEN {} ELSE Holding(socketSessions[s]))
      /\ connected' = connected
  BY <1>1 DEF Prepare
<1>3. left \in {None, socketSessions[s]}
  BY <1>0, <1>1, SessionsWithoutIs
<1>4. \A p \in Open : shell'[p] = "running" => shell[p] = "running" /\ p # old
  BY <1>0, <1>2 DEF EndSessions, TypeOK
<1>5. /\ \A p \in Open : pc'[p] = IF p = o THEN "preparing" ELSE pc[p]
      /\ \A p \in Open : tableOf'[p] = IF p = o THEN m ELSE tableOf[p]
      /\ \A t \in Socket : socketSessions'[t] = IF t = s THEN m ELSE socketSessions[t]
  BY <1>0, <1>2 DEF TypeOK
<1>6. /\ table[o] = Empty /\ \A t \in Socket : socketSessions[t] # o
      /\ \A t \in Socket : socketSessions[t] # None /\ socketSessions[t] = socketSessions[s] => t = s
      /\ socketSessions[s] \in Open \cup {None}
  BY <1>0, <1>1, <1>2 DEF Typed, MapsAreOwned, TypeOK
\* Where the connection keeps its map, only this tab's entry changes.
<1>7. ASSUME NEW t \in Socket, NEW j \in Id, t # s \/ (m = socketSessions[s] /\ m # None)
      PROVE  Entry(t, j)' = IF t = s /\ j = i THEN None ELSE Entry(t, j)
  <2>1. socketSessions'[t] = socketSessions[t]
    BY <1>5, <1>7
  <2>2. CASE socketSessions[t] = None
    BY <1>7, <2>1, <2>2 DEF Entry
  <2>3. CASE socketSessions[t] # None
    <3>1. socketSessions[t] \in Open /\ (socketSessions[t] = socketSessions[s] <=> t = s)
      BY <1>0, <1>6, <2>3 DEF TypeOK
    <3> QED BY <1>0, <1>1, <1>2, <2>1, <2>3, <3>1, TableWithoutIs DEF Entry
  <2> QED BY <2>2, <2>3
<1>8. Entry(s, i)' = None
  <2>1. CASE left = None
    <3>1. socketSessions'[s] = o
      BY <1>1, <1>5, <2>1
    <3>2. table'[o][i] = None
      BY <1>0, <1>1, <1>2, <1>6, TableWithoutIs DEF Empty
    <3> QED BY <3>1, <3>2 DEF Entry
  <2>2. CASE left # None
    BY <1>1, <1>3, <1>7, <2>2
  <2> QED BY <2>1, <2>2
<1>9. ASSUME NEW p \in Open, shell'[p] = "running", p \notin overlapped'
      PROVE  SocketOf[p] \in connected' /\ Entry(SocketOf[p], IdOf[p])' = p
  <2>1. /\ shell[p] = "running" /\ p \notin overlapped /\ p # old
        /\ SocketOf[p] \in connected /\ Entry(SocketOf[p], IdOf[p]) = p
    BY <1>2, <1>4, <1>9 DEF Held, HeldUnlessOverlapped
  <2>2. CASE SocketOf[p] = s
    <3>1. IdOf[p] # i /\ Entry(s, IdOf[p]) # None /\ socketSessions[s] # None
      BY <1>1, <2>1, <2>2 DEF Entry
    <3>2. left = socketSessions[s]
      BY <1>0, <1>1, <3>1, SessionsWithoutIs
    <3> QED BY <1>1, <1>2, <1>7, <2>1, <2>2, <3>1, <3>2
  <2>3. CASE SocketOf[p] # s
    BY <1>2, <1>7, <2>1, <2>3
  <2> QED BY <2>2, <2>3
<1>10. ASSUME NEW p \in Open, pc'[p] = "preparing", p \notin overlapped'
       PROVE  /\ tableOf'[p] = socketSessions'[SocketOf[p]]
              /\ Entry(SocketOf[p], IdOf[p])' = None
  <2>1. CASE p = o
    BY <1>1, <1>5, <1>8, <2>1
  <2>2. CASE p # o
    <3>1. /\ pc[p] = "preparing" /\ p \notin overlapped /\ tableOf[p] # None
          /\ tableOf[p] = socketSessions[SocketOf[p]] /\ Entry(SocketOf[p], IdOf[p]) = None
      BY <1>2, <1>5, <1>10, <2>2 DEF Held, Typed, MapsAreOwned
    <3>2. CASE SocketOf[p] = s
      <4>1. left = socketSessions[s]
        BY <1>2, <1>10, <3>1, <3>2 DEF Holding
      <4> QED BY <1>1, <1>5, <1>7, <2>2, <3>1, <3>2, <4>1
    <3>3. CASE SocketOf[p] # s
      BY <1>5, <1>7, <2>2, <3>1, <3>3
    <3> QED BY <3>2, <3>3
  <2> QED BY <2>1, <2>2
<1>11. ASSUME NEW p \in Open, NEW q \in Open, pc'[p] = "preparing", p # q, SameTab(p, q),
              pc'[q] = "preparing" \/ shell'[q] = "running"
       PROVE  q \in overlapped'
  <2>1. CASE p # o /\ q # o
    BY <1>2, <1>4, <1>5, <1>11, <2>1 DEF Held
  <2>2. CASE q = o
    <3>1. p \in others
      BY <1>1, <1>5, <1>11, <2>2 DEF SameTab
    <3> QED BY <1>2, <2>2, <3>1
  <2>3. CASE p = o /\ pc'[q] = "preparing"
    <3>1. q \in others
      BY <1>1, <1>5, <1>11, <2>3 DEF SameTab
    <3> QED BY <1>2, <3>1
  <2>4. CASE p = o /\ shell'[q] = "running"
    <3>1. q # old /\ shell[q] = "running" /\ SocketOf[q] = s /\ IdOf[q] = i
      BY <1>1, <1>4, <1>11, <2>4 DEF SameTab
    <3>2. q \in overlapped
      BY <1>1, <3>1 DEF Held, HeldUnlessOverlapped
    <3> QED BY <1>2, <3>2
  <2> QED BY <1>11, <2>1, <2>2, <2>3, <2>4
<1>12. \A p \in Open : pc'[p] \in {"waiting", "loading", "preparing"} /\ p \notin overlapped' =>
         SocketOf[p] \in connected'
  BY <1>2, <1>5 DEF Held
<1> QED BY <1>9, <1>10, <1>11, <1>12 DEF Held, HeldUnlessOverlapped, SameTab

LEMMA HeldStep ==
  ASSUME Typed, Held, [Next]_vars
  PROVE  Held'
<1> USE TerminalsAssumption DEF TerminalsAssumption
<1>0. TypeOK BY DEF Typed
\* Steps of an open that is not about to spawn.
<1>1. ASSUME UNCHANGED <<connected, tableOf, sessions, overlapped>>,
             \A o \in Open :
               /\ pc'[o] = "preparing" => pc[o] = "preparing"
               /\ pc'[o] \in {"waiting", "loading"} =>
                    pc[o] \in {"waiting", "loading"} \/ SocketOf[o] \in connected
      PROVE  Held'
  BY <1>1 DEF Held, HeldUnlessOverlapped, sessions, Entry, SameTab
<1>2. ASSUME NEW o \in Open, TerminalOpen(o) PROVE Held'
  BY <1>0, <1>1, <1>2 DEF TerminalOpen, Begin, TypeOK
<1>3. ASSUME NEW o \in Open, Resume(o) PROVE Held'
  <2>1. /\ pc[o] = "waiting" /\ pc' = [pc EXCEPT ![o] = "loading"]
        /\ UNCHANGED <<connected, tableOf, sessions, overlapped>>
    BY <1>3 DEF Resume, Begin
  <2> QED BY <1>0, <1>1, <2>1 DEF TypeOK
<1>4. ASSUME NEW o \in Open, LoadFails(o) \/ SpawnFails(o) PROVE Held'
  <2>1. /\ pc' = [pc EXCEPT ![o] = "failed"]
        /\ UNCHANGED <<connected, tableOf, sessions, overlapped>>
    BY <1>4 DEF LoadFails, SpawnFails, Finish
  <2> QED BY <1>0, <1>1, <2>1 DEF TypeOK
<1>5. CASE PtyLoads \/ UNCHANGED vars
  BY <1>1, <1>5 DEF PtyLoads, vars, opening
<1>6. ASSUME NEW s \in Socket, NEW i \in Id, TerminalClose(s, i) PROVE Held'
  <2>1. \A o \in Open : shell'[o] = "running" => shell[o] = "running" /\ o # Entry(s, i)
    BY <1>0, <1>6 DEF TerminalClose, EndSessions, TypeOK
  <2> QED BY <1>6, <2>1, HeldTakeOut DEF TerminalClose
<1>7. ASSUME NEW o \in Open, ShellExits(o) PROVE Held'
  <2>1. /\ shell' = [shell EXCEPT ![o] = "gone"]
        /\ UNCHANGED <<connected, confined, binding, opening>>
    BY <1>7 DEF ShellExits
  <2>2. CASE Entry(SocketOf[o], IdOf[o]) = o /\ TakeOut(SocketOf[o], IdOf[o])
    <3>1. \A p \in Open : shell'[p] = "running" => shell[p] = "running" /\ p # o
      BY <1>0, <2>1 DEF TypeOK
    <3> QED BY <2>1, <2>2, <3>1, HeldTakeOut
  <2>3. CASE UNCHANGED <<table, socketSessions, overlapped>>
    BY <1>0, <2>1, <2>3 DEF Held, HeldUnlessOverlapped, TypeOK, opening, Entry, SameTab
  <2> QED BY <1>7, <2>2, <2>3 DEF ShellExits
<1>8. ASSUME NEW o \in Open, HungUp(o) PROVE Held'
  BY <1>0, <1>8 DEF HungUp, Held, HeldUnlessOverlapped, TypeOK, opening, Entry, SameTab
<1>9. ASSUME NEW s \in Socket, Disconnect(s) PROVE Held'
  <2>1. /\ connected' = connected \ {s}
        /\ \A o \in Open : shell'[o] = "running" =>
             shell[o] = "running" /\ o \notin {Entry(s, i) : i \in Id} \ {None}
        /\ socketSessions' = [socketSessions EXCEPT ![s] = None]
        /\ overlapped' = overlapped \cup
             {o \in Open : SocketOf[o] = s /\ pc[o] \in {"waiting", "loading", "preparing"}}
        /\ UNCHANGED <<pc, tableOf, table>>
    BY <1>0, <1>9 DEF Disconnect, EndSessions, TypeOK, opening
  <2>2. ASSUME NEW o \in Open, SocketOf[o] # s
        PROVE  socketSessions'[SocketOf[o]] = socketSessions[SocketOf[o]]
               /\ Entry(SocketOf[o], IdOf[o])' = Entry(SocketOf[o], IdOf[o])
    BY <1>0, <2>1, <2>2 DEF Entry, TypeOK
  <2>3. ASSUME NEW o \in Open, shell'[o] = "running", o \notin overlapped
        PROVE  SocketOf[o] # s
    BY <2>1, <2>3 DEF Held, HeldUnlessOverlapped
  <2> QED BY <2>1, <2>2, <2>3 DEF Held, HeldUnlessOverlapped, SameTab
<1>10. ASSUME NEW o \in Open, Spawn(o) PROVE Held'
  <2>1. /\ pc[o] = "preparing" /\ pc' = [pc EXCEPT ![o] = "opened"]
        /\ shell' = [shell EXCEPT ![o] = "running"]
        /\ table' = [table EXCEPT ![tableOf[o]][IdOf[o]] = o]
        /\ UNCHANGED <<connected, tableOf, socketSessions, overlapped>>
    BY <1>10 DEF Spawn, Finish
  <2>2. tableOf[o] \in Open /\ SocketOf[tableOf[o]] = SocketOf[o]
    BY <1>0, <2>1 DEF Typed, MapsAreOwned, TypeOK
  <2>3. \A m \in Open, j \in Id :
          table'[m][j] = IF m = tableOf[o] /\ j = IdOf[o] THEN o ELSE table[m][j]
    BY <1>0, <2>1, <2>2 DEF TypeOK, Map
  <2>4. ASSUME NEW p \in Open, ~SameTab(o, p)
        PROVE  Entry(SocketOf[p], IdOf[p])' = Entry(SocketOf[p], IdOf[p])
    BY <1>0, <2>1, <2>2, <2>3, <2>4 DEF Typed, MapsAreOwned, Entry, SameTab, TypeOK
  <2>5. ASSUME NEW p \in Open, p # o, pc[p] = "preparing" \/ shell[p] = "running", p \notin overlapped
        PROVE  ~SameTab(o, p)
    BY <2>1, <2>5 DEF Held
  <2>6. o \notin overlapped => SocketOf[o] \in connected /\ Entry(SocketOf[o], IdOf[o])' = o
    BY <1>0, <2>1, <2>2, <2>3 DEF Held, Entry
  <2>7. HeldUnlessOverlapped'
    BY <1>0, <2>1, <2>4, <2>5, <2>6 DEF Held, HeldUnlessOverlapped, TypeOK
  <2>8. \A p \in Open : pc'[p] = "preparing" => pc[p] = "preparing" /\ p # o
    BY <1>0, <2>1 DEF TypeOK
  <2>9. \A p \in Open : pc'[p] = "preparing" /\ p \notin overlapped' =>
          /\ tableOf'[p] = socketSessions'[SocketOf[p]]
          /\ Entry(SocketOf[p], IdOf[p])' = None
    BY <2>1, <2>4, <2>5, <2>8 DEF Held
  <2>10. \A p, q \in Open :
          pc'[p] = "preparing" /\ p # q /\ SameTab(p, q)
            /\ (pc'[q] = "preparing" \/ shell'[q] = "running")
            => q \in overlapped'
    BY <1>0, <2>1, <2>8 DEF Held, SameTab, TypeOK
  <2>11. \A p \in Open : pc'[p] \in {"waiting", "loading", "preparing"} /\ p \notin overlapped' =>
          SocketOf[p] \in connected'
    BY <1>0, <2>1 DEF Held, TypeOK
  <2> QED BY <2>7, <2>9, <2>10, <2>11 DEF Held, SameTab
<1>11. ASSUME NEW o \in Open, Prepare(o) PROVE Held'
  BY <1>11, HeldPrepare
<1> QED BY <1>2, <1>3, <1>4, <1>5, <1>6, <1>7, <1>8, <1>9, <1>10, <1>11 DEF Next

\* A shell that runs and was not told to end is reached by the messages of its tab, whatever
\* closes, exits and other tabs come between, unless something got in its way while it was being
\* opened (open, close, closeAllForSocket).
THEOREM ShellsAreReached == Spec => []HeldUnlessOverlapped
<1>1. Typed /\ Held /\ [Next]_vars => Held'
  BY HeldStep
<1>2. Held => HeldUnlessOverlapped
  BY DEF Held
<1> QED BY HeldInit, <1>1, <1>2, AlwaysTyped, PTL DEF Spec
=============================================================================
