# Verification of pi-outpost

TLA+ models of the parts of pi-outpost where several actors meet: browsers, projects, sessions, the
agent's queue and its process, terminals, the sandbox's grants, repositories of skills, and the
plannings a person and a server write in one folder. TLC checks each model on small instances; TLAPS
proves the most important invariants for every instance, and the steps of two refinements.

`docs/quality.md` excludes `server/src/index.ts` and `server/src/embeddedRuntime.ts` from coverage
figures: they are where connections, projects, queues and sessions meet, and most of what is modelled
here is in them. Line numbers below are of `server/src/index.ts` unless a file is named.

- [The system](#the-system): components, state, operations, what is hard
- [Conventions](#conventions) of the models
- The modules: [sandbox grants](#sandbox-grants), [prompt queue](#prompt-queue),
  [workspaces](#workspaces), [sessions](#sessions), [resources](#resources),
  [the agent's process](#the-agents-process), [the mirror of its conversation](#the-mirror),
  [terminals](#terminals), [planning store](#planning-store)
- [What is proved](#what-is-proved), [findings](#findings), [observations](#observations)
- [What is not modelled](#what-is-not-modelled), [the plan](#the-plan), [running](#running)

## The system

One Node process serves a browser application over WebSocket and runs one pi agent per open project
and per side session. Node runs one callback at a time: what lies between two `await`s is atomic, and
at every `await` any other handler may run.

```
 browsers  --WebSocket-->  index.ts  --->  workspace registry ---> workspace (project or side session)
     ^                       |  |                                     |  runtime: embedded pi, or pi over RPC
     |  broadcast            |  +--> prompt queue  <--- queue reports +
     +-----------------------+  +--> grant broker  <--- sandbox tools |
                                +--> sessions, work plan, terminals, dialogs, resource repositories
 MCP host  --stdio-->  mcp/src/server.ts  --->  planning store  <---  the person's folder
 Open WebUI --HTTP-->  openwebui/src      --->  a second planning store, posters
```

| Component | State | Operations | Hard because | Correct when |
|---|---|---|---|---|
| Workspaces and client binding (2600-2660, 3980-4380, 6700-6860, 7490-7690, `workspace.ts`, `workspaceRegistry.ts`): `Workspaces` | registry, default, the persisted set; per workspace: runtime, retired, stopped, the start in flight, held messages; per browser: its workspace, its last ask | connect, switch, open, close, open and close a side session, start, fail to start, sweep, stop | every operation awaits starts that finish in any order; two operations read the registry before an await and write it after | one project per directory, a browser ends where it last asked to be, nobody waits before a project that never starts, no turn is ended |
| Prompt queue (4550-4980, `queuedPrompts.ts`): `QueuedPrompts`, `PromptQueue` | the tracker's entries and expectations, the queue lock, pi's own queue | prompt, stop, send now, edit, remove, pi's queue report | pi only offers "clear the queue": every change takes all back and queues it again, while the agent reads | nothing lost, doubled, reordered, swallowed; an edit changes what its user saw |
| Sandbox grants (`sandboxGrantBroker.ts`, `sandboxGrants.ts`, `useAgent.ts`): `SandboxGrants` | pending requests, the session's grants, each browser's copy | ask, answer, expire, abort, end the session | five ways of settling one request race; browsers hold copies | what a session reaches is what was approved in it; copies converge |
| Planning store (`mcp/src/store.ts`): `Plannings`, `PlanningStore` | the folder's files, `.history`, `meta.json`, two locks | create, get, revise, list, reconcile | three files per change, any of which may be the last written; a person edits, renames and deletes meanwhile | no answered revision is undone, nothing the person wrote is lost |
| Sessions of a workspace (3501-3780, 3784-4050, 4980-5453, `sessions.ts`): `Sessions` | the live session file, `replacingSession`, the settings in memory, on disk and in each agent | new, switch, fork, navigate, edit, delete, restart, apply settings and rebuild the siblings | checks before awaits; siblings share a directory; a replacement may be vetoed or fail half way | a conversation has one writer, one operation holds a session, the tools obey the settings shown |
| Work plan (`workPlanStore.ts`, `workPlanTool.ts`, 2290-2330): `Sessions` | a file beside each session, the plan shown, the chain of loads | read, change, copy at a fork, load at a session change | loads are overtaken by replacements; what a load inherits from is decided late | a plan stays with its conversation and its forks |
| Resource repositories (`resourceRepositories.ts`, 6104-6663): `Resources` | clones, tokens, one lock per clone, inventories, what each session loaded | check, update, remove, start a session | what was confirmed may have moved; sessions of every project are rebuilt, others start | an updated repository is the one loaded; nothing loads what is deleted |
| Agent process (`piRpcProcess.ts`): `Commands`, `PiRpcProcess` | pending commands and their timers, the chain of writes, the questions that suspend timers | command, answer, time-out, stop, exit | answers race time-outs and the child's death | each command is told one outcome, its own; stopping is over when the child is |
| RPC runtime (`rpcRuntime.ts`): `RpcRuntime` | the mirror of messages, the turn's state, the chain of records | prompt, abort, new session, refresh, every record | an answer overtakes records; a refresh takes several round trips; two dialects | the mirror is the child's conversation, the state the child's |
| Terminals (`terminalManager.ts`): `Terminals` | per connection: shells, opens under way | open, close, end of the connection, exit | opening awaits three times, on maps the manager may have dropped | no shell without an owner, no private directory without a shell |
| Extension dialogs (`extensionUiBridge.ts`, 2840-2900) | dialogs waiting | ask, answer, cancel, replay to a browser that joins | any browser may answer; a time-out on the runtime's side | a question is answered once, none stays open |
| Sign-in relay (`loginRelay.ts`) | one flow per connection | start, prompt, answer, withdraw | a second flow waits for the first | one flow at a time, none after its connection |
| pi packages (`piPackages.ts`) | what is installed, one change at a time | look up, install, update, remove | guards asked before and after one lookup | a change finds nobody busy |
| File watching (`fileWatcher.ts`) | watchers, a pending window | watch, coalesce, evict | a burst at the bound | a change is told |
| Browser client (`ui/src/useAgent.ts`) | the socket, the state reduced from messages | connect, reconnect, reduce | superseded sockets still speak | the state shown is the server's |
| Configuration, files, git, documents, office and exchange libraries, posters, confinement profiles, entry points | none shared, or one request's own | read, convert, answer | formats, not interleavings | functional tests say it |

## Conventions

- One action is the code between two awaits. A conjunct is an `if` or an early return of the code, a
  primed variable one of its assignments; what a handler does synchronously, broadcasts included, is
  one action.
- An operation (a message, a request, a call) is a constant of the instance; `at[op]` is the await it
  is at and `op`, `req`, `mem` or `loc` its local variables across that await. Each is done once.
- An instance gives `Pools`, sets of operations: a behaviour has those of one pool, chosen in `Init`,
  and TLC explores all their interleavings. One run so asks one question of several small worlds, where
  one world with every operation would be out of reach; a race is between few operations.
- Texts, files and documents are members of small sets that keep what the properties tell apart: who
  sent a message, which changes a document holds.
- A definition named `X_Something` or `Something_How`, before `Something`, is a plausible mistake in it: put in its place it
  breaks the property it is listed with in `PROJECT.json`. It is used for nothing else.
- What is not in `src/` (the pi library's session, the child's own behaviour, the person, a remote, the
  death of the process) is marked external in `PROJECT.json`.
- Every module of the code with variables has a type invariant, and each is proved.

## Sandbox grants

`SandboxGrants.tla`: the broker of one workspace and every browser's copy of its state.

| Model | Code |
|---|---|
| `Ask`, `Settle`, `Expire`, `Abort`, `AnswerArrives` | `ask` and its `settle`, timer, abort listener, `answer` |
| `EndSession` | `endSession`: a new, retired or stopped session |
| `MergeGrants`, `Wider` | `mergeGrants` |
| `Announce`, `Connect`, `ClientReceives`, `Respond` | broadcast, the snapshot at binding, the reducer of `useAgent.ts`, `respondToGrant` |

Messages to a browser are a queue per browser, as a WebSocket keeps them; a browser that leaves loses
its queue. Run `sandbox_grants` (`SandboxGrants.cfg`): two browsers, two requests that name one
directory, first for reading and then for writing, two sessions. Two requests are enough for one to be
asked while the other is answered, and two sessions for an approval to outlive its own.

- `ActiveIsWhatWasApproved`: the grants in force are the merge of those approved for the session now
  running, and of nothing else.
- `ViewsConverge`: a browser that has received what is on its way shows the broker's state.
- `EveryRequestSettles`: no tool call waits for ever. Fair are the requests' own timers (five minutes,
  `setTimeout`); no user is assumed to answer, no browser to stay.

## Prompt queue

`QueuedPrompts.tla` is `queuedPrompts.ts`: an operator per method over a record
`[entries, expectations, suspended, ...]`. `PromptQueue.tla` composes it with the handlers and with pi.

| Model | Code |
|---|---|
| `PromptArrives`, `PromptSent`, `PiPrompts`, `PiRefuses` | `handlePrompt`, `promptOnce`, `embeddedRuntime.prompt` |
| `AbortArrives`, `AbortGivesUp`, `AbortFindsNothing`, `AbortTakes` | `abortTurn`, with and without the lock in time |
| `SendNowTakes`, `RemoveTakes`, `EditPrepares`, `EditTakes`, `RewriteRefused`, `ClearFails`, `TakenBack` | `sendQueueNow`, `changeQueuedPrompt`, `takeQueueBack` |
| `StopEnds`, `StopTimesOut`, `Requeues`, `PiQueues`, `RequeueFails`, `RequeueOver` | `stopTurn`, `requeue` with the await of each `queueMessage` |
| `NewSessionArrives`, `PiReplaces`, `SessionReplaced` | `replaceSession`, its event |
| `PiReads`, `PiEnds`, `PiForeign`, `PiBinds` | pi: reads its queue in a turn, ends it, lets an extension queue a message, binds its extensions |

pi is modelled from what `index.ts` and `queuedPrompts.ts` rely on: it keeps its queue when a turn is
aborted, reads its steering queue into the request it drops, and reports its whole queue at each change.

- `prompt_queue` (`PromptQueue.cfg`), three pools: two prompts of one text, an edit, a removal, Send now,
  Stop and one failure; a prompt, an edit, Send now and Stop around a message of an extension; two prompts,
  a removal and Send now around one. Two prompts of one text are what makes matching by text hard; with them
  every order of the operations and the agent's reads occurs. The extension's message may come at any
  moment, so also after an edit's or a Stop's checks and before its take-back, which then queues it again
  as if it were the user's. `NothingLostOrDoubled` counts where each message is, the extension's too;
  `ShownIsWhatPiHas` relates what browsers show, waiting or said, to pi's queue and to what the agent read;
  `QueueInOrder` is about order, of what was read as of what waits: only a prompt that starts a turn passes
  those that a stopped turn left in pi's queue, which "go with the next prompt" (4886);
  `StopSwallowsNothing` is about the queue a Stop finds; `ChangesHitWhatWasSeen` about ids after any number
  of take-backs.
- `prompt_queue_live`: `EveryOperationEnds` and `StopGetsThrough`. Fair are the server's continuations and
  timers, the one-second limit of a Stop that waits for the lock among them, and pi's answers to the calls
  made to it. That the extensions of a session ever bind is not assumed ("observed never to settle",
  `embeddedRuntime.ts` 553): a prompt that waits for them holds the lock for as long as it takes, which
  `EveryOperationEnds` allows and nothing else; `StopGetsThrough` says that a Stop gets past it all the same.
  Nothing is assumed of turns: one may refuse to stop, which is what the fifteen-second limit is for. A new
  session is among the operations: it replaces the session whose queue an operation has in its hands, and
  the prompt that follows waits for the new one's extensions. Its instance is smaller: a liveness check
  needs the whole graph of states and their edges.

The system stops when each operation was done: these runs do not look for deadlocks, and
`prompt_queue_live` says that no operation is stuck.

## Workspaces

`Workspaces.tla`: every open project and side session, every browser, every start. A workspace is a
member of a set given by the instance, since a directory closed and opened again is a new object in the
code too.

| Model | Code |
|---|---|
| `EnsureStarted`, `Starting`, `RuntimeAttached`, `BuildFinishes`, `BuildFails`, `Abandoned` | `ensureStarted`, `starting`, `abandonStart` |
| `ResourcesRebuilt`, `RebuildFails` | the awaits of `Workspace.rebuildResources` |
| `Connect`, `Switch`, `BoundEarly`, `Started`, `Ask`, `StillWanted` | the connection, `switch_workspace`, `askToBind` and `bindingAsks` |
| `Open`, `AlreadyOpen`, `Persist`, `CreatedFirst`, `CreatedSecond`, `CreateFails`, `DuplicateStopped` | `handleOpenProject` |
| `Close`, `Closed`, `Moved`, `Promoted` | `handleCloseProject`, `WorkspaceRegistry.remove` |
| `OpenSide`, `SideCreated`, `SideStarted`, `SideReady`, `CloseSide`, `SideClosed` | `handleOpenSideSession`, `closeSideSession` |
| `Arrives`, `Holds`, `Flush` | `handleClientMessage` while starting, `announceAgentStarted` |
| `Retire`, `SweepSide` | `sweepIdleWorkspaces` |

Promise continuations run before the next event: a step that is an event of its own waits until no
continuation is due (`Quiet`), and steps that are continuations do not.

- `workspaces` (`Workspaces.cfg`), three pools. Open: two browsers connect, both open one directory, one
  switches to a cold project, sends a message, the other leaves; starts finish, fail, and idle projects
  are retired. Close: both projects are closed, the default one with a cold one to fall back on, while a
  project is opened again. Side: a side session is started, closed and swept, and a turn runs in it or in
  its project, while projects close.
  `OneMainPerDirectory` is the race of two opens, `LatestAskWins` that only the last ask moves a browser,
  `HeldIsSettled` that a message held before a start is handled or let go, `NoTurnKilled` that nothing is closed or swept while it
  works, so that the one turn a close cuts off began after it (the exception, line 4153, is in the side
  pool, for a project and for its side session), `MovedBeforeTheStop` that who watched a session has been moved when it stops,
  `DefaultIsOpen` and `PersistedIsOpen` that the default and what a restart would restore are open.
  `PersistedIsOpen` excepts a directory two requests opened at once, and `HeldIsSettled` a session that
  was closed under its browser, or reopened as in the [finding](#findings): both fail there (see
  [observations](#observations)). The closes that break `LatestAskWins` are in the observations too, and
  in no pool.
- `workspaces_reopen`: a [finding](#findings).

Two browsers and two directories to race for suffice: every race here is of two operations on one
directory, or of one operation and a start. Fair, for `HeldIsSettled` only: the awaits of the server's
own operations and the starts (the file system and the model's runtime answer) and the flush; no turn is
assumed to end, no browser to do anything.

## Sessions

`Sessions.tla`: the sessions of two projects, on the embedded runtime: which conversation each shows,
what replaces it, the work plan kept beside every conversation, and the settings each session's tools
were built from. A call of the runtime that replaces a session has two waiting points: the extensions,
which may veto it, and their start in the new session, installed by then. Every handler makes that one
call, so it is modelled once (`Calls`, `Install`, `Bind`, `Fault`), and `then` names the handler its
outcome goes back to.

| Model | Code |
|---|---|
| `ReplaceSession`, `Replaced`, `Recovered`, `Releases` | `replaceSession`: the flag, the call, the new session asked for when it fails, the `finally` |
| `NewSession`, `Fork`, `SwitchArrives`, `SwitchFound`, `Elsewhere` | `new_session`, `fork_session`, `switch_session`, `liveElsewhere` |
| `DeleteArrives`, `DeleteFound`, `Unlinked`, `PlanDeleted` | `handleDeleteSession` |
| `Restart`, `Restarted`, `InventoryRead` | `handleRestartSession` |
| `Navigate`, `Navigated`, `Prompt`, `PromptSent` | `navigateTree`, `editPrompt`, `handlePrompt` as far as the flag goes; `prompt` of the runtime, which waits for the binding it found and for no later one |
| `Apply`, `Adopted`, `ResourcesRebuilt`, `Applied`, `RollsBack`, `Restored`, `RestoreFails`, `Retries`, `NextSibling`, `SiblingResources`, `SiblingRebuilt`, `SwitchedBack` | `handleUpdateConfig`, `rebuildSibling` |
| `PlanTool`, `PlanRead`, `PlanWritten` | the tool's read, change and write |
| `SyncBegins`, `CopyRead`, `CopyWritten`, `PlanLoaded`, `SyncLands` | the chain `workPlanSync`, one action per await of a step of it |

A work plan is the set of changes made to it, each named by the call that made it: enough to tell whose
plan is where. `lineage` is a history variable: what a conversation was forked from.

`sessions` (`Sessions.cfg`, of `MCResources`, below) has six pools of these operations, three to six at
a time: forks, new sessions, switches, a deletion, a restart, an edit, a change of settings and a turn
that writes its plan, in sessions `a` and `b` of one project and `c` of another; one veto or failure
(`MaxFaults`) at any replacement. A roll back is itself the answer to a failure, so its own
(`RestoreFails`: resources not rebuilt, or settings not saved) may come on top of that one; that the session
asked for after it fails too is left out.

- `OneReplacementAtATime`: no session is replaced, or moved in its tree, by two operations at once.
- `OneWriterPerConversation`: two sessions of a project come to one conversation only by two switches
  that each found it free, or by such a switch and the return of a session that had left it to be rebuilt
  for new settings (both are [observations](#observations)): by no fork, new session, deletion, recovery
  or restart.
- `NobodyElsesPlan`: no session shows, and no file keeps, a change made in a conversation that is
  neither its own nor one it was forked from, whatever loads and replacements came between, one of which
  may fail; of two that fail see the [observations](#observations).
- `PlanFollows`: at rest a session shows the plan of its conversation.
- `BoundaryIsObeyed`: when nothing is under way the settings in memory are those on disk, unless a roll
  back failed, and the boundary shown is the one the agent's tools obey, unless a rebuild was vetoed.
- `FlagIsReleased`: once the operations are over no session is left reserved. That each does end is the
  absence of deadlocks in the run (`ResourcesTerminating` is the only stop), as every step of an
  operation takes it further; as a temporal property it would cost hours and say the same.
- `sessions_settings`: a [finding](#findings).

## Resources

`Resources.tla` EXTENDS `Sessions` with one Git repository of skills that every session loads, because
updating and removing it replaces sessions of every project. A session is started or cold; `loaded` is
the revision its agent was built with. A revision is a number, its descendants are greater.

| Model | Code |
|---|---|
| `Queue`, `Locked`, `Unlock` | `withLock`: one operation at a time on a clone, in the order they came |
| `CheckArrives`, `Looks`, `Fetches`, `ReadsRevisions`, `Checked` | `refresh` and `assess`, one action per await that matters: the worktree, the fetch, the two revisions |
| `UpdateArrives`, `TakesToken`, `SameRevisions`, `Guards`, `Merges` | `handleUpdateAgentResourceRepository` to `git merge --ff-only`: token, second check, guard |
| `Reloads`, `Reloaded`, `Reassessed`, `ReloadSynced`, `RefreshesLast`, `Answers` | the sessions concerned, rebuilt one after the other; the answer |
| `RemoveArrives`, `Unregisters`, `Unregistered`, `RebuildsOther`, `OtherRebuilt`, `AllRebuilt`, `Deletes`, `Removed` | `handleRemoveAgentResourceRepository`, through `handleUpdateConfig` as in `Sessions`, and `deleteManagedClone` |
| `Starts`, `ReadsFiles`, `Attached`, `StartEnds` | `ensureStarted`, which reads the skills before the agent is attached |
| `Inventories`, `Affected`, `Busy` | `refreshResourceInventory` and its index, `affectedResourceWorkspaces`, `busyResourceConsumer` |
| `Pushes`, `WorksInClone`, `Expires` | external: a remote, the person, the ten minutes of a token |

- `sessions`, seven further pools: two updates with one token, an update beside a push and a check, a
  cold start, a prompt with work in the clone, an expiry; a removal beside a prompt and a new session,
  and beside a check and a cold start. `UpdatedMeansLoaded`: an update answered as done, and not as a
  failed reload, leaves no running session on an earlier revision. `NothingLoadsWhatIsDeleted`: no
  running session has loaded anything from a clone that was deleted. `FlagIsReleased`, above, is about
  these reservations too.
- `sessions_removal`: a [finding](#findings). The removals of `sessions` are in project `q`, which has a
  single session: the finding is that no other removal succeeds.

No pool has both a change of settings and a removal, or settings of two projects at once: those fail in
ways listed under [observations](#observations). Three sessions are needed: a requester, a session of
its project, one of another. Each session starts once.

## The agent's process

`PiRpcProcess.tla`: `piRpcProcess.ts`, and the questions of extensions as `rpcRuntime.ts` keeps them,
because they suspend the time-outs of commands. `Commands.tla` is what a caller may count on: one
outcome per command, none taken once the process is given up on, and every command but a prompt ends.

| Model | Code |
|---|---|
| `Issue`, `WriteStart`, `WriteDone`, `WriteFails`, `WriteRefused` | `command`, `send`, the chain of writes |
| `TimeOut`, `OnLine`, `Matches`, `IsSingle` | the timer; `handleLine`, `settle` with and without an id |
| `HandleAsk`, `AnswerDialog`, `ReleaseDialogs` | `extension_ui_request`, `suspendCommandTimeout`, `answerExtensionUI`, `releaseDialogs`, which times the prompts again at once |
| `Fail`, `RejectPending`, `Dispose`, `GraceOver`, `ExitEvent`, `Stopping` | `fail`, `stop`, `runStop`, the child's exit |
| `ChildAnswers`, `ChildAsks`, `ChildTalksNonsense`, `ChildEnds` | external: the child, which may leave ids out, answer late or never, or die |

`rpc_process` (`PiRpcProcess.cfg`): a prompt whose extension asks two questions and two commands of one
type, so that answers without an id are ambiguous; `MaxUnread` two lines waiting to be read. The writes
of the cancellations of one release are one entry of the chain (`NoCommand`): nobody waits for them, and
unlike an answer's their end times nothing. The questions of a prompt are named in the order they come.
`ImplementsCommands` is the refinement, fairness included: outcome is `Outcome(c)`, open is `~failed`.
`AnswersAreTheirOwn`: no command is given another's answer. `TimedUnlessAsked`: a command is untimed only
while somebody is asked. `StoppedIsGone`: stopping is over when the child is gone. `PromptsEnd`: a prompt
ends, or somebody is asked. Fair are the event loop and its timers, and that a child sent SIGKILL ends;
neither the child nor any person need do anything. A process that is idle stops: no deadlock check.

## The mirror

`RpcRuntime.tla`: the conversation of that child as the server mirrors it (`rpcRuntime.ts`). Answers and
records come on one stream; an answer goes to its caller at once, records are handled one at a time, and
one that ends a turn asks for the child's history over several round trips. The record that ends a turn,
`completionEvent`, is chosen in `Init`; with either, the answer to a prompt may carry a disposition or none
(`promptDisposition`, 942): "unsaid" is one for which a turn runs, "silent" one an extension's command
handled, and the server cannot tell them apart. An abort may leave the child's queue suspended (704): a
prompt is then refused, and sent once more with how to queue it.

| Model | Code |
|---|---|
| `ReadLine`, `HandleRecord`, `Handles`, `Runs`, `MessageStart`, `MessageEnd`, `CompleteTurn`, `Ignored` | the reader, the record chain, the handler of each record |
| `Asks`, `MessagesAnswered`, `StateAnswered`, `RestAnswered`, `SessionAnswered` | the refresh, one action per answer; the re-bootstrap after a new session |
| `SendPrompt`, `Accepted`, `Resent`, `Abort`, `AskNewSession` | `prompt` and its second sending, `abort`, `newSession` |
| `ReadsPrompt`, `Refuses`, `TurnStarts`, `ReplyStarts`, `ReplyEnds`, `AttemptFails`, `Retries`, `CustomMessage`, `Compacts`, ... | external: the child |

`rpc_runtime` (`RpcRuntime.cfg`): two prompts and, two at a time, a new session, an abort, a retry, a
compaction, an extension's message, a refresh that fails. Deadlock is checked. `MirrorAtRest`: once
nothing is on its way the mirror holds the child's messages. `IdleAtRest`: no browser is left with an
agent that runs, no prompt is sent as a steer to a turn that is over, and that whether or not a refresh
failed on the way; it excepts what line 732 does with a "silent" answer (`misled`, until a turn is next
completed; see the observations). `AnnouncedIsTheNew`: a new session is announced without the old one's
messages.

## Terminals

`Terminals.tla`: `TerminalManager`. `open` awaits up to three times, on maps it found before the await
and the manager may have dropped since; a map is named by the open that made it, which is how a dropped
one stays a value of its own.

| Model | Code |
|---|---|
| `TerminalOpen`, `Begin`, `Resume`, `PtyLoads`, `LoadFails`, `Prepare`, `Spawn`, `SpawnFails`, `Finish` | `open`: the open of the same tab it waits for, node-pty, the private directory, the shell |
| `TerminalClose`, `Disconnect`, `EndSessions`, `ShellExits`, `KillAfterGrace` | `close`, the end of a connection, the shell's exit, `killIfStillAlive` |

`terminals` (`Terminals.cfg`): one tab opened three times and a second tab, confined or not, node-pty
there or not, cut off at any moment. Nothing of one connection is looked at for another, so one
connection suffices. The three opens of the tab are alike; `InOrder` is a state constraint that keeps
the behaviours that use them in one order. Any other behaviour is one of those with the opens renamed,
and the properties speak of all opens alike, so none is lost.
`HeldUnlessOverlapped`: a shell that runs is the one its tab's messages reach, unless, while it opened,
its connection ended, its tab was opened again or the last other session went
([observations](#observations)). `PrivateWhileRunning`: no private directory outlives its shell.
`OpensEnd`: opens do not wait for each other in a circle. Fair are continuations, files, spawns and the
timer.

## Planning store

`PlanningStore.tla` is `LocalPlanningStore` over a file system, in a process that may die at any await,
beside a person who edits, spoils, adds, renames and deletes files. `Plannings.tla` is what it promises
whoever calls it: revisions that only grow, updates made on the revision they name and on everything in
it, answers that stay true.

| Model | Code |
|---|---|
| `Called`, `Locked`, `Joins`, `Without`, `Leaves` | `locked`, for "folder" and "planning:id" |
| `ReconcileStarts`, `ReconcileReadsMeta`, `ReconcileLooks`, `ReconcileLists`, `ReconcileReads`, `Refiled`, `Adopts`, `Adopted` | `allMetas` and `reconcile`, one action per await |
| `ReadsMeta`, `FileMissing`, `Gets` | `locate`, `get` |
| `CreateNamed`, `Revises`, `ReviseRefused`, `Keeps`, `Records`, `PlacesFile`, `Claims` | `create`, `revise`: the copy of what the person broke, `N.json` (flag `wx`), the working file, `meta.json` |
| `Fails`, `Crash`, `PersonMoves` | a write that throws; the death of the process; the person |

A document is the set of changes it holds, each named by the operation that made it: that is what
"nothing is lost" and "made on the current revision" need to tell apart. A temporary file and its
renaming are one step, the renaming: a crash before it leaves a file nobody reads.

`planning_store` (`PlanningStore.cfg`), three pools: a creation, two updates, a listing, an edit, a
spoiling; a creation, a dropped file, a renaming, a deletion, two listings, a read; and two creations of
one title, a spoiling, a renaming, a deletion, a listing. One crash and one failed write in each.

- `KeepsItsPromise` is the refinement: under the mapping "a planning's revisions are those its
  `meta.json` counts", every behaviour is one of `Plannings`.
- `NothingThePersonWroteIsLost`: excepted is what was saved after an update had read the file and before
  it replaced it, which the code cannot see, and what the person gave up: deleted, or renamed onto a name
  a call was about to write (`GivenUp`). The history variable `answer[op]` of a person's move says
  "unseen" then.
- `FilesMatchPlannings`: a listing that began after the folder last moved has taken in the whole folder:
  every file is some planning's, a renamed file keeps its history (but for renamings that fall inside a
  reconcile), and two plannings have one file only if the person had renamed or deleted a file of that
  name. That exception is the code's: a creation takes the name, free in the folder, which a `meta.json`
  still claims (see [observations](#observations)), and the pool of two creations has it. Nothing else
  leads there: not a creation beside a reconcile, not a file whose creation failed or died half way, not a
  broken file whose name is still taken.
- `EveryCallEnds`: fair is the file system, which answers each request made of it; an update holds its
  planning's lock while it waits for the folder's.

Bounds: `MaxCopies` four names per title, as deaths may leave a directory behind, `MaxRevision` three
(two updates), `MaxCrashes` and `MaxFaults` one each: a second crash meets only states a first one
leaves. Deadlock is not looked for: a server nobody calls is idle.

## What is proved

Eight modules of theorems, one per component, but for `Sessions` and `Resources`, which share one: the
first's lemmas are the second's. Each EXTENDS the module it is about and is checked from
that module's named assumptions on constants alone, and each theorem holds for every instance: any
number of browsers, requests, files, prompts, deaths or failures. An invariant below is a conjunction of
named parts; a proof has one step, or one lemma, per action, and under it one per part the action can
disturb.

`SandboxGrantsProofs.tla`, from `GrantsAssumption` (finitely many requests, each for something):

- `GrantsTypeCorrect`: `Spec => []TypeOK`. Each announcement is a sequence of messages.
- `GrantsAreWhatWasApproved`: `Spec => []ActiveIsWhatWasApproved`. It is inductive with `TypeOK`:
  `SettleApproved` says that merging a request's grant keeps it, for each of the ways a request may
  settle, and `OthersApproved` that a step that leaves `active`, `kept` and the approved requests alone
  does.
- `BrowsersShowTheBroker`: `Spec => []ViewsConverge`. What a browser shows after the messages on their way
  is a fold, so the invariant `Converges` speaks of the list of its intermediate states instead
  (`Trace`): there is one that starts at the browser's copy, each state the reducer's of the one before,
  and ends at the broker's. An announcement prolongs the list, a receipt takes its head off, and a
  snapshot or a settlement is a list of several messages. `FoldIsTrace` gets back to the fold.

`PromptQueueProofs.tla`, from `PromptQueueAssumption` (each prompt and edit says something; pi's string for
a text can be sent to pi again, as `requeue` does with a message that has no source, `index.ts` 4709):

- `PromptsTypeCorrect`: `Spec => []TypeOK`, the lock included. `Locking`: who waits for it waits once, and
  its holder alone is past it, where a Stop gives up waiting, lets go the prompt that holds it, or a
  replacement of the session takes no lock. So one operation at most has entries in its hands.
- `ChangesHit`: `Spec => ChangesHitWhatWasSeen`, whatever extensions queue and sessions replace: pools are
  not needed for it. `Apart` and `Separate`: in the entries, the expectations and an operation's hands an
  id is of one prompt, and below `nextId`. `Seen`: what a change names, wherever it now is, is what its
  user saw or an edit of it. `Follows` is what every method of the tracker keeps of that: it names by an
  old id only what had it. For `Reconcile` it is proved of the lists kept so far (`KeptSoFar`): of two
  equal texts, each is an entry of its own, as their ranks differ; an adopted expectation is gone, with
  its id; anything else has a new one.

`WorkspacesProofs.tla`, from `PoolAssumption` (boot is restored, restored workspaces have one directory
each, a finite set) and `OpAssumption` (what requests name exists):

- `WorkspacesTypeCorrect`, `OneProjectPerDirectory`, `ADefaultIsAlwaysOpen`.
- The inductive invariant is `Inv == Core /\ WaitingOK /\ FlushingHasHeld`. `OneMainPerDirectory` needs
  `SidePlaces`: the workspace a request creates is one that nobody registered since. `DefaultIsOpen`
  needs `OneMainPerDirectory`: a close promotes another project only if removing one leaves
  another, which the count of projects says of directories only when each has one. `FlushingHasHeld`
  (a workspace being flushed has something to flush) is what makes `Head` of its queue a request.
  `Core` is kept by each handler (`HandleKeeps`), whether its message arrives or is flushed, so those
  lemmas are stated of handlers.
- `WhatIsOpenIsRestored`: `Spec => []PersistedIsOpen`, with `Restorable`: a directory is in the persisted
  set exactly if it is open, or if a request that opens it has persisted it and not yet created it; in
  the second case it is not open. Two requests that open one directory are the exception of the
  property. It also needs that only requests that need an agent are held before a start, as a held open
  would become new again.

`ResourcesProofs.tla`, of `Sessions` and of `Resources`, which EXTENDS it, from `SessionsAssumption`
(sessions, operations and conversations exist; a conversation is a number):

- `SessionsTypeCorrect`, `ResourcesTypeCorrect`. Typed is what each operation remembers at each of its
  awaits (`Placed`, `JobPlaced`); the lemmas are stated of the call of the runtime, of the recovery and of
  the handlers, and used for both specifications.
- `OneInTheClone`: one operation at a time is past `withLock`, with the queue an injective one.
- `FlagsAreReleased`: `ResourcesSpec => []FlagIsReleased`, from `Flagged`: each flag set has an operation
  that is to clear it, one that replaces or moves the session (`Owns`) or reserved it (`Reserves`). Each
  step hands over what it does not clear (`Hands`), vetoes, failures and rollbacks included.
- `OneAtATime`: `[](NoneAdopted => OneReplacementAtATime)`: at most one operation keeps a session's flag,
  until changed settings are adopted (which no module takes back). The hypothesis is needed:
  `handleUpdateConfig` awaits the checks of its folders and sets the flag without looking again, as does
  `rebuildSibling` (see [observations](#observations)). In the run settings are applied in pools where
  nothing else sets the flag in those awaits, so there the property holds after them too.
- `OneWriter`: `ResourcesSpec => []OneWriterPerConversation`. A session claims the conversation it shows,
  the one an operation is about to put it on (`Heads`), and the one it left to be rebuilt and is to be put
  back on (`Returns`); a claim outlives the awaits the code does not look across. `Single`: two sessions
  of a project claim one conversation only in the two ways the property names. It is inductive with
  `Root`: a conversation that exists is headed for only by a switch that found no session showing it, or
  by a return. A step adds claims in one session alone (`Comes`): to a file that did not exist, or to one
  a switch has found. It needs that sessions start on different files, which `SessionManager.create`
  (`index.ts` 1915) gives them: a conjunct of `SessionsAssumption`.

`RpcRuntimeProofs.tla`, from `RpcAssumption` (`None` is no prompt):

- `RpcTypeCorrect`, `IdleIsTold` (`Spec => []IdleAtRest`), `NewSessionIsItsOwn`
  (`Spec => AnnouncedIsTheNew`) and `MirrorIsTheChilds` (`Spec => []MirrorAtRest`).
- The inductive invariant `Inv` speaks of the lines said and not yet handled, `Lines == records \o
  fromChild`: a record handled leaves the front, an answer is taken out of the middle (`Without`), a line
  said is added at the end. `Matched`: one question at a time, the one the record being handled waits
  for. `OneSession`: the command for a new session, its answer, its refresh in the queue and that refresh
  under way come one after another. `EndsComing`: whatever makes the server say that a turn runs is
  followed by a line that ends it, or the child is in that turn. It is what `IdleAtRest` follows from,
  once nothing is on its way and the server was not `misled`: a "silent" answer is the one thing after
  which `streaming` is true with no such line. `OnePrompt`: a prompt is answered before the next is sent,
  which is why the answer handled is about the turn the child began for it, and a prompt asked for again
  is one the child has not seen. `OnePartial`: the same of partial messages. `OfTheNew`: neither the child's
  history nor an answer to come is of the session replaced.
- `Mirror` is what `MirrorAtRest` follows from. Once the child is `Calm` (it writes no prompt and no reply
  until it leaves this) every end of one it wrote is followed, on the lines on their way, by a line that
  has the server ask for its messages (`Followed`); if none is, and nothing was asked for, the mirror, or
  the history just answered, holds the written messages of the child in order, and with what extensions'
  messages are on their way the same set. It rests on `Matched` and `OnePartial`. `WrittenIn` is a fold:
  what a message at its end does to it is proved by induction on how much of the list was folded
  (`KeptExists`, `WrittenStays`).

`PiRpcProcessProofs.tla`, from `CommandAssumption`:

- `ProcessTypeCorrect`, from `Typed`: `TypeOK`, every line typed, and
  something in the chain while a write is with the operating system.
- `TheKeptAreWhoWait`: a command is kept for its answer exactly while its caller waits for one. It needs
  that a failed process keeps none, that a new command has no result, and that the chain holds each
  command that is being written once.
- `StoppedMeansGone`: `StoppedIsGone`; a stop is over only by the exit event or by a child already gone.
- `OnlyTheAskedAreUntimed`: `TimedUnlessAsked`. With `Timing`: who is kept and untimed is a prompt, and a
  question is only ever posed for a prompt that was issued; so a prompt issued, and timed, while a question
  is open is not the one it is asked for.
- `AnswersGoWhereTheyBelong`: `AnswersAreTheirOwn`. The argument is `OnePlace`: while the process is in
  use a command is unwritten, in the child's hands, or answered by exactly one unread line, and is kept
  in all three. A line without an id is given to a command only when one of its type is kept, so when
  all others were answered: it is that one's.
- `ProcessImplementsCommands`: the steps of the refinement (initial states map to initial states, and
  every step to a step of `Commands` or a stutter: taken, settled, closed or the same). Its fairness is
  checked by TLC.

`TerminalsProofs.tla`, for any connections, tabs and opens:

- `TerminalsTypeCorrect`, from `Typed`: the entries of a map are opens that were opened, and a map has one
  owner.
- `NoOpenIsRemembered`: once no open of a connection is under way, no map of them is kept.
- `PrivateGoesWithTheShell`: `PrivateWhileRunning`.
- `ShellsAreReached`: `HeldUnlessOverlapped`. Inductive with `Held`: while an open that nothing got in
  the way of prepares, its connection is there, the map it holds is the connection's, the tab is free in
  it, and no other open is about to take it.

`PlanningStoreProofs.tla`, from `PlanningStoreAssumption` (each operation names a title or a file that
exists) and `NoneAssumption` (nothing is nobody's id, meta or text):

- `StoreTypeCorrect`: `TypeOK`, which includes that only the head of the folder's queue reconciles or
  creates, and only the head of a planning's updates it. The invariant is
  `Inv == Typed /\ Locks /\ Reconciled /\ Disk`. `Locks`: a queue holds whoever waits or works behind it
  once, and who works is first. `Disk`: a planning has a directory if it has a history, and a first revision
  if it has a meta.
- `WhatIsWrittenStays`: `NothingThePersonWroteIsLost`, with `Kept`: what the person wrote is in a revision
  or a copy, or in a file that nobody is about to replace except with a text that carries it (the document
  an update made of it, or a broken one that is being copied first).
- `StoreKeepsItsPromise`: `Spec /\ [][Undisturbed]_vars => KeepsItsPromise`, the refinement of `Plannings`,
  in which nothing is fair. Its hypothesis names the two ways the promise is broken (both are
  [observations](#observations), with behaviours TLC gives): `NotOvertaken`, a reconcile does not write
  back a `meta.json` an update has replaced since, and `ReadsItsOwn`, the file an update reads holds what
  the planning's current revision holds, as no other file was put in its place. `Promised` is the
  invariant: revisions up to the counted one exist, an update at work is made on the current one and
  carries all of it, who is not done was not answered.
- `UnmovedStoreKeepsItsPromise`: where the person renames and deletes nothing (they edit, break and add
  files), the promise is kept with no other condition, whatever dies or fails; with `FilesApart`, every
  planning has a file, no two the same one, and it holds what the current revision does.

What a recursive definition computes for every input cannot be proved with the theorems the library
states of operators: no module with a theorem reaches a RECURSIVE operator. Two things these proofs need
are got another way: that a set of numbers has a least element, from the well-foundedness of `<`, in the
form that speaks of sets (`Least`, `FromZero`); and what a fold over a list yields, from the list of its
intermediate values (`Trace`, `FoldIsTrace`), from the equations of the function that `SequencesExt`
defines a fold by, or, for a recursive function of the model, from a function that satisfies its equations
as far as the list goes (`AfterExists`).

Checked by TLC and not proved:

- everything liveness, and the fairness of `ImplementsCommands`: outside this prover's reach, as is
  `ENABLED`;
- `NothingLostOrDoubled`, `ShownIsWhatPiHas` and `QueueInOrder`: they are false where an extension's
  steering message meets a prompt, or a new session an edit or a Stop (see [observations](#observations)),
  which the pools keep apart, and each counts or orders messages over every queue and hand they may be in;
- `StopSwallowsNothing` besides holds for one Stop, which is what the pools have: of two that wait for the
  lock, one may become the plain stop the code documents (4747) and what the other guarded is then read;
- `NobodyElsesPlan`, `PlanFollows`, `BoundaryIsObeyed`, `UpdatedMeansLoaded` and
  `NothingLoadsWhatIsDeleted`: each needs an invariant over the chain of plan loads, the settings'
  rollback or the inventory, and the last three are false where settings and removals meet (see
  [observations](#observations)), which the pools keep apart;
- `FilesMatchPlannings` where files move, and the properties of `Workspaces` that pools are
  chosen for (`LatestAskWins`, `NoTurnKilled`, `MovedBeforeTheStop`).

## Findings

Each is a run TLC ends with a counterexample.

| Run | Property | What happens |
|---|---|---|
| `sessions_removal` | `RemovalWaitsForOthers` | A removal reserves every other session that loads the repository (6477-6480), those of its own project among them, then applies the settings through `handleUpdateConfig`, which refuses while a session of the project is reserved (3785-3790). With a second session open in its project, however idle, a repository cannot be removed; the comment at 6389 says reservations of the caller's own do not count. |
| `sessions_settings` | `TurnsSurviveSettings` | A change of settings looks for siblings at work before it awaits the checks of its folders and its own new session, and `rebuildSibling` (3654) does not look again: a prompt sent in a sibling meanwhile is killed with its session, against the comment at 3783. |
| `workspaces_reopen` | `NobodyWaitsForNothing` | `starting` is keyed by directory: a project closed while starting and opened again finds the closed one's start, awaits it, and never starts its own; its browser waits before a project with no agent, which the comment at 4367 names as what must not happen. |

## Observations

What the models, or the reading they took, show of the code and no run keeps. For those marked (M), the
named property of the module gives the behaviour in an instance with the named operations.

Workspaces:
- (M) A browser watching a side session switches away while its close waits for the project to start:
  who watches was read before the await (4257) and all are bound after it (4260). `LatestAskWins` with
  `c1boot`, `c2boot`, `c1sideOnR`, `c2toS`, `c2toR`, `c1closesS`, the workspaces `m0`, `m1`, `s1`, both
  projects open and "r" cold, as in the two that follow.
- (M) `handleCloseProject` looks for a running turn before it awaits the fallback's start and not after
  (4153-4159): a prompt sent meanwhile starts a turn, and the stop ends it. It is the exception of
  `NoTurnKilled`, which without `o \notin registry` gives the behaviour in the run's own pools.
- (M) The greeting of a connection binds it twice, before and after its workspace's start (7523); the
  second takes back a browser that switched in between. `LatestAskWins` with `c1atR`, `c1toBoot`.
- The same late binding, of a greeting or of a switch, may land on a project closed meanwhile; what its
  browser says there is then held for ever, which is why `HeldIsSettled` excepts closed directories.
- `started` is true from `attachRuntime` on, while the start still waits for the model, the resources or
  the work plan: a message sent then is handled before one held earlier (6791), against
  `openspec/specs/multi-project-workspaces/spec.md` 363.
- A workspace stopped while it starts gets its runtime afterwards (4301), and nothing stops it again.
- Of two opens of one directory, the one that fails may have the last word on the persisted set, which
  then lacks the project the other opened (4056): the exception of `PersistedIsOpen`.
- A side session whose project closes while it is being created is added without it (4213); one closed
  while being opened leaves its opener on the stopped session (4257), where what it says is held for ever;
  one whose start fails once its runtime is attached ends a turn begun on it (4222), and keeps its browsers
  if the server's own project is closed by then (4376).

Prompt queue:
- `sendQueueNow` starts a turn without `keepToAllowedModel` (4837), which only `handlePrompt` calls; an
  extension may have moved the session to another model (`openspec/specs/model/spec.md` 450).
- An extension's steering message queued while a prompt is in pi's input handlers is taken for that
  prompt (`queuedPrompts.ts` 176, 182): texts are all there is to compare.
- The checks of an edit come before it reads the files its text mentions (4891): an extension's message
  queued during that await is rewritten. So is one queued while a Stop waits for the lock (4763). Both
  queue it again as the user's: its bubble is the user's, and it may be edited.
- A prompt sent after a Stop starts a turn ahead of older prompts the Stop left queued: the order of
  `QueueInOrder`, and what a comment at 4559 ("in the order they arrived") does not say.
- A replacement of the session neither takes the queue lock nor waits for its holder: a prompt held
  until the extensions bind, or what a Stop took back, is handed to the new session, against the comment
  at 3407.

Sessions and work plans:
- Two sessions switch to one conversation, each having found it free before its `replaceSession` awaits
  (5019), and both write to it: an exception of `OneWriterPerConversation`. A deletion has the same
  gap to a switch (4987).
- `rebuildSibling` puts a session back on its conversation (3657-3660) without asking whether it is live
  elsewhere by then: another session may have switched to it while this one was in a new session. It is the
  other exception of `OneWriterPerConversation`; without it TLC gives the behaviour in three sessions of
  one project, of which the first changes its settings and the third switches to the second's conversation.
- `rebuildSibling` sets `replacingSession` over a navigation or replacement of the sibling under way, and
  a change of settings sets its own without looking again after its checks (3497-3498). Two overlapping
  changes, or the rollback of one, overwrite the other's settings.
- A sibling whose extension vetoes its rebuild keeps tools that obey the previous boundary, while the new
  one is shown: an exception of `BoundaryIsObeyed`. The other is a roll back that fails after it changed the
  settings in memory (3933-3944): those it meant to undo stay on disk, where the next start finds them, as
  the comment at 3929 accepts.
- (M) A step of the chain of plan loads has its session from when it was queued and its marker from when it
  runs (2299-2310). When two replacements fail one after the other, and a fork follows while the steps that
  their recoveries queued wait (3524-3526), the older conversation's step takes the fork's marker and its
  plan replaces the fork's. `NobodyElsesPlan` with `MaxFaults` two, in the run's own pools.
- A prompt passes the flag and then awaits (5399-5401): it is sent into a navigation that began since.
- When a replacement fails and the new session asked for in its place is accepted, nothing awaits the
  plan of that session before the flag goes (3524-3526). A replacement that fails while its extensions
  start leaves the browsers unannounced on a session already in place: the exception of `PlanFollows`.

Resources:
- The reservation an update makes again under the lock ignores the turns of sessions it had reserved
  (6562-6571): a prompt that had passed the flag by then starts a turn, and the reload kills it, against
  the comment at 6572.
- Settings are one for the server while the guards are a project's: two projects that apply or enrol at
  once lose one another's collections (3839-3917, 5985-6095), and a rollback undoes the other's. A
  change of settings that passed its checks before a removal registers again a repository whose clone is
  then deleted.
- A session opened after the index of inventories was last rebuilt is not reserved (4300, 6121).

The agent's process and its mirror:
- A message the child ends between the answer to a refresh and its settled record is in the mirror twice
  until the next refresh; an extension's own message stays doubled if no turn follows.
- An extension's command accepted by an answer without a disposition sets `streaming` (732), and no turn
  ends after it: at rest the runtime says that it runs, and the next prompt goes out as a steer to nothing,
  against the comment at 729. (M) `IdleAtRest` without `misled`.
- The settled record of a turn, handled after a newer prompt was accepted, clears `streaming`: the prompt
  after that is sent as a new one and refused by the child. `rpcRuntime.ts` 722-727 says there is no such
  window.

Terminals:
- An open of a tab that waited for another enters itself into a map the manager has dropped since
  (`terminalManager.ts` 502): a third open does not see it, and one of the two shells on the tab is
  unreachable, against the comment at 311.
- A shell that opens while the last other session of its connection closes is entered into a dropped map
  (473): no message reaches it, nor does the end of the connection.

Planning store:
- A planning's file is deleted, then a planning of the same title created: `create` (`mcp/src/store.ts`
  420) takes the name, free in the folder, which the first's `meta.json` still claims. Both are listed,
  with one file; an update of the first overwrites the second.
- The process dies, or a write fails, after `N.json` and before `meta.json` (476-479): every later update
  finds `N.json` there, flag `wx`, and fails with EEXIST, for ever. `openwebui/src/store.ts` has the same
  three steps.
- A reconcile writes back a `meta.json` it read before an update replaced it (349): with a renaming and
  a listing during an update, the answered revision is undone. (M) `KeepsItsPromise` with `newA`, `up1`,
  `rename`, `list`.
- A file renamed between the moment a reconcile looks for it and the moment it lists the folder is
  adopted as a new planning; the old one keeps its history and is not listed any more.
- A read between an update's working file and its `meta.json` answers `editedOutside` though nobody
  edited.
- What a person saves between an update's reading of the file and its replacement is overwritten, and
  not kept. So is a file they rename onto the name of a planning that is being created: the name was
  free when `create` chose it (420).
- A person puts one planning's file in the place of another's (deletes the second, renames the first to
  its name) and an update of the second is made on the first's text: the revision it answers lacks what
  the one before it holds. (M) `KeepsItsPromise` with two creations, an update of the second, that
  deletion and that renaming; the reason for `ReadsItsOwn` among the proofs.

## What is not modelled

`PROJECT.json` lists every component with its reason. Most of the repository's lines are user interface
(React components and what they draw), transformations of documents, builders of office files and
diagrams, protocol types and the parsing of settings: functions of one request over formats and paths,
which functional tests pin down and a model would transcribe. The map therefore covers a small share of
the lines, which are those where actors meet.

Concurrent code that is left: extension dialogs and the sign-in relay (the plan); file watching, trash,
arrangements and content search, each a few lines with one waiting point; the browser's own reducer but
for grants; self-update; pi packages, whose guards are asked twice around one lookup, in the way of
`Resources`.

Within the modules: the tools' texts and which grants may be asked (`SandboxGrants`); images and the RPC
runtime's delayed reports (`PromptQueue`); the workspace lock, the time a runtime takes to be disposed,
shutdown (`Workspaces`); names, listing, search, failing reads and writes of a plan (`Sessions`); cloning
and enrolling, extension code, submodules, branches (`Resources`); models, the catalogue, the tree's
entries (`RpcRuntime`); input, resizing, `closeAll`, which nothing calls (`Terminals`); `saveFigure`,
the listing's own reading and a `meta.json` edited by hand (`PlanningStore`).

## The plan

Done, in the order of what a failure costs a user: `SandboxGrants`, `QueuedPrompts` and `PromptQueue`,
`Workspaces`, `Plannings` and `PlanningStore`, `Commands` and `PiRpcProcess`, `RpcRuntime`, `Terminals`,
`Sessions`, `Resources`; proofs about all of them.

Next:
1. `NobodyElsesPlan`: whose plan each step of the chain of loads carries, and whose conversation each
   marker is of.
2. `NothingLostOrDoubled` of `PromptQueue`, where no extension queues and no session is replaced: how often
   a prompt is in the lists that `Reconcile` keeps.
3. `MovedBeforeTheStop` of `Workspaces`.
4. Extension dialogs and the sign-in relay, one question per flow, two browsers.

## Running

    tlc -config PlanningStore.cfg MCPlanningStore.tla      # any run of PROJECT.json: its module and cfg
    tlapm WorkspacesProofs.tla                             # the proofs

| Run | Module | Distinct states |
|---|---|---|
| `sandbox_grants` | `MCSandboxGrants` | 735 070 |
| `prompt_queue`, `prompt_queue_live` | `MCPromptQueue` | 312 217, 7 504 |
| `workspaces`, `workspaces_reopen` | `MCWorkspaces` | 161 705, a counterexample |
| `sessions`, `sessions_removal` | `MCResources` | 637 710, a counterexample |
| `sessions_settings` | `MCSessions` | a counterexample |
| `rpc_process` | `MCPiRpcProcess` | 543 187 |
| `rpc_runtime` | `MCRpcRuntime` | 2 835 278 |
| `terminals` | `MCTerminals` | 182 532 |
| `planning_store` | `MCPlanningStore` | 161 823 |
