# CLUI: TLA+ models, checks and proofs

CLUI runs coding agents (Claude Code, Codex, OMP, Pi) in PTYs on a Node
server and shows them in a web or desktop client. This directory models the
parts of it whose correctness depends on the order of events: on the server,
the managers that own the agents' and the shells' processes, the event-sourced
engine that owns everything the client remembers, the life of a thread, and
its checkpoints; between server and client, the transport, the store that
follows the log, the terminal that follows the output and the badge that
follows the hooks; and the desktop shell that owns the server's process.
Paths below are relative to `src/apps/server/src/` unless they start with `src/`.

## The system

| Component | State | Operations | Talks to | What is hard |
|---|---|---|---|---|
| ClaudeSessionManager (`terminal/Layers/ClaudeSessionManager.ts`) | sessions map, per-thread promise locks, SIGKILL timers, LRU times | start, hibernate, write, resize, destroy, purge, set cap, hibernateAll, dispose | PTY adapters, process registry files, wsServer (events) | a start awaits inside its lock; bulk loops work from snapshots; exits of replaced PTYs; shutdown races |
| PiSessionManager (`terminal/Layers/PiSessionManager.ts`, `PiSessionJsonlHook.ts`) | process, phase of the start, queued prompt, pending RPC requests, hook status | start, input, prompt, abort, hibernate, destroy, purge | PTY or child, session and sync files, wsServer | a start has two phases and several ways out; four sources tell the status, each late |
| TerminalManager (`terminal/Layers/Manager.ts`) | terminals by thread and id, history files, write queues | open, write, clear, restart, close, poll | PTY adapters, file system | eviction, debounced persistence, starts under locks |
| OrchestrationEngine (`orchestration/Layers/OrchestrationEngine.ts`) | command queue, read model in memory | dispatch, read events, stream events | event store, receipts, pipeline, all of wsServer | retries, rollbacks, crashes between commit and answer |
| ProjectionPipeline (`orchestration/Layers/ProjectionPipeline.ts`) | SQL projections, one cursor per projector | bootstrap, projectEvent | SQLite, attachment files | resuming after a crash or an upgrade; rows rebuilt against rows written live |
| Decider and projector (`orchestration/decider.ts`, `projector.ts`) | none: functions of the read model | decide, project | engine | lifecycle rules (settle, snooze, archive) against late events |
| ProjectionSnapshotQuery | none | getSnapshot | SQLite, client | a thread read back from rows against the thread in memory |
| CheckpointReactor, CheckpointStore, CheckpointDiffQuery | queue, git refs | baseline, capture, revert, diff | git, engine | captures, reverts and diffs read, await and then dispatch or answer |
| wsServer (`wsServer.ts`) | client sockets, subscriptions, pending approvals | request routing, hook routes, pushes, archiving sweep, shutdown | everything | persisted status against sessions; approvals forgotten or resolved twice |
| Web transport (`src/apps/web/src/wsTransport.ts`) | socket, outbound queue, pending requests | request, fire and forget, reconnect | wsServer | what a lost connection leaves waiting |
| Event router and store (`src/apps/web/src/routes/__root.tsx`, `store.ts`) | read model, fetch in flight, deferred and pending work | events, fetches, patches | wsServer | an event that no fetch accounts for; a snapshot older than a patch |
| Harness output (`src/apps/web/src/components/ThreadTerminalView.tsx` and its libraries) | cached terminals, subscriptions, offsets, gate | mount, catch up, go live, write, unmount | wsServer | text shown twice or never, over remounts, restarts and reconnects |
| Session event state (`src/apps/web/src/lib/sessionEventState.ts`) | badge, windows, timers | hook, output, visit, reset | wsServer | hooks that overtake each other and are told apart by age |
| Desktop shell (`src/apps/desktop/src`) | server child, update state, timers | start, restart, check, download, install, quit | server, installer | restarts against updates and the end of the app |
| Hook receiver, sleep preventer, process runner, workspace index, git, diff review, settings, telemetry | small | see PROJECT.json | wsServer | timeouts and shared in-flight work |

What makes each of the modelled components correct:

* **Session manager.** A PTY belongs to one entry; no child runs that nobody
  can reach; a child told to stop ends; registry files and persisted status
  agree with the PTYs; the cap on active sessions holds once things settle; a
  purge never takes a running or excluded session; no loop waits for itself.
* **Pi sessions.** A process belongs to the launch it was started for and is
  not left behind; the first thing a terminal is told is its prompt; status
  and answers stay with their launch; every request ends; when all sources are
  read, the server's status is what Pi does, and the client's badge is that status.
* **Terminal manager.** A running shell is reachable through the map until it is
  stopped, and a stopped one ends; the history of a terminal is neither lost,
  nor replaced by an older one, nor back after its deletion; every request is
  answered.
* **Orchestration engine.** A command takes effect at most once and as a whole;
  its answers agree over retries and restarts; decisions are taken on the full
  log; subscribers see every event once and in order; projections are complete
  once the worker runs; no failure stops the worker.
* **Threads.** The thread in memory and the thread read back from the tables
  are the same; what a client offers is what the server accepts; a thread is
  listed as what it is held to be; a session that stops leaves no request open.
* **Checkpoints.** A recorded turn keeps its refs and its diff is what the
  turn changed; a revert that is reported has restored what was recorded.
* **Client.** No event is forgotten and no patch is undone by an older
  snapshot; a terminal shows the output in order, nothing twice and nothing left
  out but what a compaction drops; the badge returns from working, does not
  return to it by a stale hook, and shows a blocked agent.
* **Desktop shell.** One backend, none under the installer; what the client
  offers the shell accepts; the app serves or ends.

PROJECT.json lists every component with its status and every hazard with its
line and the properties that cover it.


## Modules

| Module | What it is |
|---|---|
| `ClaudeSessionManager` | the session manager, its PTYs, timers, registry and shutdown |
| `PiSessionManager` | one thread's Pi sessions: starts in two phases, lifecycle, requests, exits |
| `PiStatus` | where the status of a Pi session comes from, and what the client shows of it, over `SessionEventState` |
| `TerminalManager` | shell terminals: locks, retention, write queues, activity polls, dispose |
| `OrchestrationCommands` | commands, their checks and the events they produce (decider, commandInvariants) |
| `CommandLog` | abstract specification: what `dispatch` promises |
| `OrchestrationEngine` | engine, event store, receipts, pipeline cursors, crash and restart; implements `CommandLog` |
| `ThreadReadModel` | a thread in memory and how `projector.ts` folds an event into it |
| `ThreadDecider` | `decider.ts` for a thread |
| `ThreadRows` | a thread in the tables: the projectors, and the thread that the snapshot query reads back |
| `ThreadLifecycleView` | what a client offers for a thread and how it lists it (`src/packages/shared/src/threadLifecycle.ts`) |
| `ThreadLifecycle` | composes the four with the clients, hooks, captures, titles, sweeps and restarts that issue commands |
| `CheckpointReactor` | baselines, captures, reverts and diffs over git refs and recorded turns |
| `WsTransport` | the client's socket, its queue and its pending requests: operators over one record |
| `SnapshotSync` | the client's store against the log, over `WsTransport` |
| `HarnessOutput` | a terminal view against a session's output, over `WsTransport` |
| `SessionEventState` | what the client keeps of one thread's session: the handlers of `sessionEventState.ts`, as operators |
| `HookStatus` | the badge of a thread against the hooks of its agent, over `SessionEventState` |
| `DesktopShell` | the backend process and the updates of the desktop app |
| `MC...` | model values, budgets and symmetry of each run |
| `...Proofs` | inductive invariants and theorems: `ClaudeSessionManagerProofs`, `PiSessionManagerProofs`, `TerminalManagerProofs`, `OrchestrationEngineProofs`, `CheckpointReactorProofs`, `SnapshotSyncProofs`, `StatusProofs` (of `HookStatus` and `PiStatus`), `ClientProofs` (of `ThreadLifecycle`, `HarnessOutput` and `DesktopShell`) |

How the parts compose: `OrchestrationEngine` is checked with commands reduced to
what serialization depends on, and shows that a command is decided, appended and
projected in one step; `ThreadLifecycle` takes that step as given and has the
full commands of one thread. `CheckpointReactor` has the refs and git commands
behind the captures and reverts that `ThreadLifecycle` treats as two steps each.
`SnapshotSync` starts where the engine publishes. `HarnessOutput` and
`SnapshotSync` share `WsTransport`, and `HookStatus` and `PiStatus` the handlers of
`SessionEventState`: one calls them for Claude's hooks, the other for Pi's statuses. `PiSessionManager` and `PiStatus` split Pi by
question: which launch owns what, and what a running one is shown to do.
`PiStatus`, `DesktopShell` and `ThreadLifecycle` prefix names that others use too
(`PiInit`, `ShellNext`, `ThreadSpec`), so that one proof module can extend several components.

In many modules a behaviour has a *budget*: `Init` picks one of a set of records
that say how often each thing the environment does may happen (`left`). Each
cfg's set has several small budgets, so that every pair of disturbances that
matters meets without all of them at once.

Operators named `X_Something` are variants of `X` with one error in them; no
other definition uses them. They are kept to see that the properties notice.

### ClaudeSessionManager

The sessions map is the set `sessions` with one function per field of an entry.
`locks[t]` is the promise chain of `runWithThreadLock`: the queue of tasks, the
head of which runs. Every locked task but `startSession` is synchronous, so it
is one action; `startSession` awaits the working directory, the proxy and the
PTY, so it is `BeginStart` and then `FinishStart` or `FailStart`. In between,
writes, exits, kill timers, other threads and shutdown run. Between tasks the
model lets anything else run, although the code sometimes reaches the next
await through microtasks alone: the model has more interleavings than the code,
never fewer.

`reconcileActiveSessions`, `hibernateActiveSessions` and `purgeInactiveSessions`
read the map once and then await one locked task per victim. Such a loop is a
`job`: its remaining victims, what it excludes, and whether it waits. Times of
last interaction are kept as ranks (`idle`), which is all the sort needs.
Children are `live`, `exited` (the exit event is still to come), `signalled`
(SIGTERM sent, nobody listens) or `free`. `persisted` is the terminal status
that wsServer's subscription writes to the thread. `hibernateAll` resolves when
all hibernations did or after five seconds, and its timer is not cancelled;
`dispose` follows. A rejected reconciliation that nobody awaits ends the Node
process (`crashed`).

`HasOneOwner`: no PTY in two entries, no entry with a stopped child, no running
child without an entry. `RecordsFollow`: registry files, statuses and the
persisted status agree with the PTYs. `CapAtRest`: when no task is left, the cap
holds. `PurgeSparesInUse` and `LoopsAndChildrenEnd` are temporal.

Codex session ids, sizes and command lines are left out.

### PiSessionManager and PiStatus

A launch is named by its position in `procs`, and so are its process, its sync
nonce and its session file. A start is `BeginStart` (reservation), the spawn
(`Spawned` or a failure), and for a terminal with an initial prompt the wait for
Pi's readiness, which a hook, an exit or a timer ends. `queue` is the thread
lock. Hibernation, removal and purge wait at the lock; exits, typed input, timers
and the answers to RPC requests do not. `persisted` is the read model's status;
`shown` says whether an entry may show a hook status (over-approximated).
`failed` marks a start that failed without an event that tells the read model. A
SIGTERM that throws arms no SIGKILL timer (`PiSessionManager.ts:2189`), and nothing
ends that process then; the same `return` in
`ClaudeSessionManager.ts:663` and `terminal/Layers/Manager.ts:757` is left out, and
SIGTERM taken as deliverable there.

`NoStrayProcess`: a running process that was not told to end is the entry's.
`PromptGoesFirst`: a start that answers ok has put its prompt first into its own
terminal, and one that fails has not. `StatusIsTrue`: what the manager, its
clients and the read model hold of a session is true of its process.
`RequestsEnd`: each start and RPC request is answered. One thread: the cap over
several threads works as in `ClaudeSessionManager`; `dispose`, `hibernateAll`, the
registry, scrollback and the migration of session files are left out.

`PiStatus` has what Pi does (`pi`), and the four sources with what of them is
unread: the session file's lines (`jsonl`), the sync file, which is overwritten
and read in two steps (`sync`; `BeginReadSync`, `ReadSync`), RPC lines, typed
lines and redraws. A typed line may start no turn, as a command of Pi's does
(`TypeCommand`). A session that is resumed has its file read from the start, while
the client may still hold it dormant. What the server tells goes through
`handleHookStatus` at the client, which refuses some of it, arms the idle timer,
and drops a completion that was seen; snapshots bring the server's status too
(`Hydrate`).

Both properties speak of the states in which all was read. `StatusIsWhatPiDoes`:
the server's status is what Pi does, unless it is of no turn (`stale`: a turn cut
short by a resume, a line that started none). `BadgeAgrees`: the client shows that
status, unless a completion was seen or an error came within `Grace` of one; a
question is neither missed nor left on show. `behind` exempts what the client
gives up: a turn silent for longer than the idle timer, and statuses that came
while it held the session dormant, until it takes the next. The model assumes
that the lock a typed prompt waits for is shorter than the provider, one tool at a
time, and RPC answers that follow their dialog's line.

### TerminalManager

A session object (`Session`) is apart from the map (`sessions`), because code
that awaits keeps its object when the map forgets it. A request occupies a
`Call`, whose `step` is the await it is at: the cwd check (`stat`), the write
queue (`flush`, `persist`), the file (`read`, `delete`) or the spawn. Promises
that have resolved continue before the next event of the event loop, so actions
that are events carry the guard `Settled`, and those that continue a call carry
`Continues`; a close's loop over the thread's sessions is one action per turn
that nothing can interrupt. `flushPersistQueue` waits for its own write and from
then on for the queue's alone (`wrote`), whatever is pending by then.

The text of a history is abstracted to the number of its last edit: `version`
counts the edits of a terminal's history, `buffer` and `file` say which edit is
in memory and on disk, and a queued write carries the edit it was made from.
`writes` keeps the unfinished writes of a key; `chained` is the promise chain of
`enqueuePersistWrite`, and `queued` the entries of `persistQueues`, which an
eviction removes without waiting. Times of last interaction are ranks without
ties. Fallback shells are one spawn that succeeds or fails; the legacy history
file is a file left from an earlier run; a write either lands or fails.

`NoLostShell` and `CloseStopsShells`: a running shell is the process of a
session in the map, and none is left when a close ends. `HistoryIsRestored`: a
terminal that was opened has the last edit of its history. `DeletedStaysDeleted`:
no file comes back. `NeverStuck`: a request in progress can go on, or waits for
one that can.

### OrchestrationEngine

`log` is the table of events, and an event's index is its sequence number. SQL
statements of other fibers wait for an open transaction, so append, projection
and receipt of one command are the single step `Commit`, or `Abort` if anything
in it fails. Everything after the commit is separate: `Adopt` (the read model),
`Publish` (one event each), `AnswerAccepted`. A failure goes through
`Reconcile`, and a refusal through `RecordRefusal`, a statement of its own
whose failure the code ignores. `Crash` may come anywhere and loses all but the
database; `ReplayEvent` and `NextProjector` are the pipeline's bootstrap, one
transaction per event and projector, and `StartWorker` rebuilds the read model.

Commands are reduced to what serialization depends on: creating a project,
creating a thread in it, and starting a turn, which appends two events. `rows`
records which events each projector has applied, not what it made of them.
Events of types that were retired are skipped by every read, as in the event
store.

The fault `escape` replaces SQLite by the non-transactional store of
`OrchestrationEngine.test.ts` ("reconciles in-memory state when append persists
but projection fails"), the only case in which reconciliation has work to do.

### Threads

An instant is the value of a logical clock that advances with each command whose
time the thread keeps; null is 0. A command goes through `Decide`, `Fold` into
the thread in memory (`mem`) and the projectors into its tables (`rows`), in one
step. `ThreadRows` writes the projectors in the order the pipeline runs them:
messages and activities are reverted with the turns as the events before left
them, since the turns' projector runs later.

Around them, `ThreadLifecycle` has what the server awaits: the hook routes, whose
commands the engine takes later (`queue`), the approvals that wsServer remembers
(`asked`), captures and reverts that have read a turn count, title generation,
and the sweep that archives a thread it chose from a snapshot. A restart rebuilds
memory from the tables, and forgets `asked` and which titles are being written.

Activities are kept sorted, and one replaces an older one of its id. Their ids are
given in the order of their instants: two hooks within one millisecond would be
ordered by random UUIDs. `provider.approval.respond.failed`, which closes a request
and which nothing emits at this commit, is left out. The client's side has its own
`derivePendingApprovals` and `derivePendingUserInputs` and its own reading of a
session in error.

`ViewsAgree`: the thread read back is the thread in memory. `GuardsMirror`: what
a client offers (`ThreadLifecycleView`) the decider accepts, and the reverse.
Both speak of captures that ran one after the other (`CapturedInOrder`) and
`ViewsAgree` says what is left when they overlapped. `ListedAsHeld`: a thread the
server holds as settled or snoozed is listed so, unless one of its messages waits.
`StopResolvesAsked`: once a turn has stopped no request that this server heard of
stays open.

Texts, models, branches and attachments are left out, as are proposed plans.
`thread.session.set`, `thread.message.assistant.*` and `thread.plan.upsert` have
a decider but no dispatcher at this commit; the scenario `Internal` has them.

### CheckpointReactor

A git command is a step and may fail. The content of the work tree is a model
value, and a diff is the two contents it compares. A prompt hook's
`ensureBaseline` and a stop hook's capture run in slots (`Prompts`, `Stops`), each
fired without waiting for the one before; turn starts and reverts go through the
worker's `queue`. `refs` are git's, `checkpoints` the read model's. A query for a
turn's diff resolves its refs and then runs git.

`RecordedKeepsRefs`: the refs of both ends of a recorded turn hold what it
recorded, but while a revert is dropping it. `DiffIsRecorded`: a diff over
several turns compares the trees of the snapshot it was asked on, however many
turns end meanwhile. `RevertRestores`: a revert gives back the work tree the turn
was recorded with.

One capture at a time (one slot in `Stops`): two captures that overlap read the
same count and share a target ref. The first baseline has the same race, a diff
query may race a revert, and a revert cut off between the deletion of refs and
the dispatch has no recovery; the properties name those cases as exceptions
(`RevertsDisturb`, `FirstBaselineMoves`).

### WsTransport and SnapshotSync

`WsTransport` defines the transport as one record with operators for `request`,
`sendFireAndForget`, the flush on open, the loss of a connection, answers and
timeouts; the queue has a limit and coalesces by key. Request ids grow, so the
queue and the wire are sets of messages, and what is first, oldest or next is
said by their ids.

A snapshot replaces the whole store, so the store is the number of events it
reflects (`view`); only `archived` flags, which events patch at once, are kept
apart, with the guard that protects them from older snapshots. `sync` is the
mutex of `syncSnapshot`, `throttled` the throttler's trailing call, `deferred`
the threads whose events wait until they are shown.

An event creates, archives, unarchives, renames or deletes a thread, or is any
other of it. `EventsAccountedFor`: every event is in the view or somebody will fetch it: a
request, a pending sync, the throttler, a deferred thread, an inbox.
`PendingIsCarriedHere`: a request that waits is in the queue or on the
connection. `ShownCatchesUp`: if the disturbances end, what is shown ends
current. `excused` and `ignored` delimit what the code is known to lose: events
before the first snapshot whose fetch failed
(`src/apps/web/src/routes/__root.tsx:411`), and events the client took for an archived
thread's when the thread was not (`Mistaken`). That happens if a thread is unarchived
while the client is disconnected: a rename pushed during the fetch that is to tell
it is deferred, and showing the thread before the fetch ends drops the deferral
(`src/apps/web/src/routes/__root.tsx:754`). A snapshot is taken to arrive within the five seconds of the archive
guard. `Sidebar.tsx`'s own fetch, which bypasses the mutex, is left out.

### HarnessOutput

A character is the session it belongs to and its place in it. The server keeps
the last `Retain` of them and an offset. A cached terminal (`entry`) has what
xterm parsed and what waits in its write queue; a view subscribes, catches up
from its offset behind a gate, and goes live. The gate is tried again while the
container is out of the document (`away`, `RetryGate`), up to `MaxRetries` times, and
then by whatever refits it (`Refit`). Text that waits is compacted above `CompactAt`;
what that drops is kept in `cut`, and the offset moves past it as in the code.

`ShownOnceInOrder`: from its first character on, a terminal shows the session's
output in order, no character twice and none left out but those in `cut`.
`SubscriptionFollows`: when everything sent is answered, the server's
subscription is what the client wants. `ShownCatchesUp`: in the end a mounted
view shows the output to its end.

`spoiled` exempts a terminal that met a restart of its session, a connection
lost under a view that did not wait for it, an unmount in the middle of a
reset, or a catch-up written while xterm has still to parse an earlier view's text
(`Overtakes`: that text then appears twice); the next reset heals it. The model
assumes that xterm's timer for a reset is due before the 120 ms of the gate, and
that the fence filter holds nothing back at a catch-up (`HeldAt`).

### HookStatus

Time is discrete; ages saturate at the longest window, and the windows keep the
code's order. A hook takes up to `HookDelay` to arrive, so hooks overtake each
other; output reaches only a client that shows the thread. `CompletionSticks`: an
idle agent is shown as working only while the end of its turn is on its way or
the timer waits for a turn that no hook confirmed. `BlockedIsShown`: a question or
an approval the agent waits for is shown once its hook has arrived, however late
the hook of the tool before it. `WorkingEnds`: an agent that rests is not shown
as working for ever.

`late`, `unheard` and `beside` delimit what the windows cannot tell apart: a tool of a
background subagent that ends after the turn (the second one confirms the badge
for ever), a turn's end that happened while the thread was not viewed and was
printed only, an approval within eight seconds after ninety of silence, or a tool
that runs beside the one the agent waits for and finishes a second later, which
takes the question off the badge.

### DesktopShell

`children` are all backends spawned; `backend` is the one `main.ts` holds. A
crash sets the restart timer with its back-off (`attempt`), which a backend that
stays up for a while resets (`stable`). Checks,
downloads and an installation move `update` as `updateMachine.ts` does;
an installation stops the backend (with its kill timer), then hands over, throws
or only emits an error. `NoStrayBackend`: a backend that was not told to end is the
shell's own, and none is there or to come when the installer takes over or the
app ends. `OfferIsAccepted`: what the client offers for the
update's state, the shell accepts. `ServesOrEnds`: the app keeps serving or ends;
the last two outcomes of an installation, after which the backend stays stopped,
are exempt and known. Versions, percentages and messages are abstracted.

## Runs

| Run | Properties | Shows |
|---|---|---|
| `claude_sessions` | `HasOneOwner` `RecordsFollow` `CapAtRest` `PurgeSparesInUse` `LoopsAndChildrenEnd` | four operations of clients on two threads under two harnesses, a cap that is lowered, exits, kill timers, `hibernateAll` with its late timeout, `dispose` |
| `pi_sessions` | `NoStrayProcess` `PromptGoesFirst` `StatusIsTrue` `RequestsEnd` | two starts in either mode crossed by lifecycle calls, exits, timers, input, an RPC request |
| `pi_status` | `StatusIsWhatPiDoes` `BadgeAgrees` | turns whose reports are overwritten, late or out of order, lines that start none, a resumed session file, and a client that refuses, times out and is sent snapshots |
| `terminals` | `NoLostShell` `HistoryIsRestored` `NeverStuck` `CloseStopsShells` `DeletedStaysDeleted` | four requests, outputs and touches at two terminals, slow writes, debounce and kill timers, polls, rejected cwds, failing spawns, `dispose` |
| `engine_exactly_once` | `AnswersAgree` `ProjectionsExact` `QueueServed` `Implements` | repeated and conflicting commands, failed lookups and reconciliations, rollbacks, crashes, interrupted replays; refinement of `CommandLog` |
| `engine_reconcile` | `CaughtUp` | read model and subscribers after appends that outlive a failed dispatch, and refusals whose receipt is lost |
| `threads_lifecycle` | `ViewsAgree` `GuardsMirror` `ListedAsHeld` `StopResolvesAsked` | a thread under its clients' commands, hooks, captures, reverts, titles, sweeps, restarts |
| `checkpoints_refs` | `RecordedKeepsRefs` `DiffIsRecorded` `RevertRestores` | baselines, captures and diffs with failing git and restarts; reverts one at a time; reverts against all else |
| `snapshot_sync` | `PendingIsCarriedHere` `EventsAccountedFor` `ShownCatchesUp` | a store against events, lost connections, failed fetches, moves between threads |
| `harness_output` | `ShownOnceInOrder` `SubscriptionFollows` `ShownCatchesUp` | views that come and go, in and out of the document, while output, compactions, restarts, evictions, lost connections and timeouts happen |
| `hook_status` | `CompletionSticks` `BlockedIsShown` `WorkingEnds` | hooks that overtake each other, tools side by side, late tools, unseen output, silence, exits |
| `desktop_shell` | `NoStrayBackend` `OfferIsAccepted` `ServesOrEnds` | crashes, failing spawns and downloads, two installations, the user quitting |

### Bounds

*Sessions.* Two threads are enough for one to be replaced, purged or counted
against the other; two PTYs let a thread's old child and its successor, or the
children of both threads, exist at once. `MaxAsked` counts what clients ask in a
behaviour: four contain two starts, something that stops one of them and a purge
or a lower cap. `MaxQueue` bounds only what clients add to a lock queue: one lets
an operation queue up behind a running start, with the tasks of loops before or
behind it. With three sessions a loop whose victim is deleted rejects and may
leave the cap exceeded; two sessions and one loop slot keep that out of reach.

*Terminals.* Two requests in progress let one wait at the lock; two terminals of
a thread, a close of the thread find a session at each step. `MaxVersion` bounds
the edits of a history: three let a debounced write, the reset of a restart and
its successor's output be unfinished together. Two shells let a stopped one
outlive its successor's start. `MaxRetained` stands for 128 and is as large as
the number of session objects, so nobody is evicted: a session evicted while it
starts keeps a shell that no close reaches. Writes do not fail in the run: the
properties of histories say what holds if the disk works.

*Engine.* `ReadLimit` stands for 1000; histories are no longer than it, since
bootstrap stops there. Four commands contain a parent and a child, two that
exclude each other, and a batch of two events. Two queued commands are enough
for a duplicate behind its original. `MaxLog` bounds the log only where appends
escape rollbacks; four is one batch of every kind.

*Threads.* A behaviour has one of eight sets of inputs (`MCThreadLifecycle`), each
the inputs one question is about, so that a clock of six instants is enough to
pass every window (`Grace`, `SettleAfter` and `InactiveFor` 2). Two captures in
progress overlap; two requests let one be answered while another is open. The
caps of the lists (500 and 2000) are out of reach of the run. A thread that meets
them differs from its tables, which have no caps: with a cap of one, TLC finds
`ViewsAgree` violated for each of the three lists.

*Checkpoints.* Two contents, three turn counts (0 to 2), a slot each for
baselines and captures, the worker, and two requests let a job of each kind
overlap every other one.

*Clients.* Budgets of one or two events, moves, mounts, lost connections and
failing requests each; two threads, of which one may be archived or not exist
yet; a queue of two that up to three other messages fill; a server that keeps two of
three or four characters, so that a catch-up meets trimmed text. `CompactAt` stands for 128 KiB and `MaxRetries` for 12: with two and
one, three characters behind a gate are compacted, and a view that is away for two
attempts runs out of them. Two of the three subscribe attempts: the third differs in nothing,
and after the last a view stays gated until the next connection. Ages of
`HookStatus` go to five, as the windows of the code are ordered, and those of
`PiStatus` to three: a tick there is longer than any status is on its way, so the
shorter windows fall together.

*Pi.* Two starts of every kind that may follow each other, with one or two of
what may cross them: eight budgets. Three turns with two replies and two redraws in one session, or two
with one redraw and a resume.

*Desktop.* Four backends are two crashes, two failing spawns; three checks and
two installations let a second one follow a failed first.

Deadlock is not checked anywhere: each of these systems rests when nobody acts.
`NeverStuck`, `QueueServed`, `RequestsEnd`, `LoopsAndChildrenEnd` and the
properties that something catches up are what rules out that it waits in vain.

### Fairness

The Node and browser event loops run settled promises and due timers, the Effect
runtime runs fibers that can run, and exits of processes that end are reported.
Clients, users, agents and faults are not obliged to do anything; budgets end
what disturbs.

* *Sessions.* Weak fairness of each thread's locked steps, each loop's
  continuation, each exit event and each kill timer.
* *Pi sessions.* Weak fairness of the lock's head, of each start's continuation,
  readiness timer, exit events and kill timers, and of the end of RPC requests.
* *Terminals.* None: `NeverStuck` is a state property, that whenever a request is
  in progress a continuation, write or timer is enabled.
* *Engine.* Weak fairness of startup and of the worker. A fault may recur for
  ever.
* *Client.* Weak fairness of the steps of server, sockets, timers and effects
  taken together (`System`), which ends since budgets do.
* *Badge.* Weak fairness of the clock, of the arrival of hooks and of the idle
  timer.
* *Desktop.* Weak fairness of the timers, settled promises and exits of children
  that were told to end, and of the quit that an installer's hand-over causes.

## What the code does not do

Met while modelling; the properties say what holds without them.

* Two divergences from comments: `clear`, `restart` and `open` of an existing
  session leave `lastInteractedAt` alone and `resize` bumps it, against
  `terminal/Services/Manager.ts:37`; a spawn in flight at `dispose` leaves a
  shell running, against `terminal/Services/Manager.ts:109`. The model has both
  (`Touched` is in `Touch` and the insertions only; `Spawned` has no guard on
  `disposed`).
* A reconciliation whose victim is deleted rejects as a whole
  (`ClaudeSessionManager.ts:371`), and a restart that fails to spawn leaves the
  thread's persisted status active (`wsServer.ts:1426`).
* The cap of terminals evicts sessions that are starting
  (`terminal/Layers/Manager.ts:790`). Bootstrap reads at most 1000 events.
* A restart forgets which approvals a session asked for, so its stop leaves them
  open (`wsServer.ts:728`, `wsServer.ts:884`). Automatic archiving judges by
  `lastInteractedAt`, which production never moves (`autoArchiveThreads.ts:29`),
  and archives on a snapshot that may be old.
* Memory keeps the newest 2000 messages and 500 checkpoints and activities of a
  thread and the tables keep all (`orchestration/projector.ts:473`), so a restart
  gives a long thread back longer than it was.
* Two captures that overlap may record the same count, of which the tables keep one
  and memory both (`persistence/Layers/ProjectionTurns.ts:242`); after a revert the
  two may name different latest turns, and a client may offer to settle what the
  server refuses until the grace of the newest message is over.
* A revert drops the turn that answered a message and may keep the message, which
  then waits again for as long as the grace lasts, also in a settled thread.
* Of a revert cut off between the deletion of refs and its event, nothing
  recovers; two captures of one thread may share a ref.
* An RPC dialog of Pi may be overridden by the session file
  (`PiSessionManager.ts:1708`, against `src/docs/CHANGELOG-DEV.md:221`); a failed
  start may stay active without a process (`PiSessionManager.ts:662`).
* Events that arrive before the first snapshot, if their thread is unknown, fetch
  nothing (`src/apps/web/src/routes/__root.tsx:411`).
* A view mounted after an eviction has no offset to compare with, so output of the
  session before a restart that is still on its way is shown in the new terminal.
* An offset is recorded for output that the fence filter holds back
  (`src/apps/web/src/components/ThreadTerminalView.tsx:1550`).
* A view whose catch-up is written before xterm has parsed the text of the view
  before it shows that text twice
  (`src/apps/web/src/components/ThreadTerminalView.tsx:1623`).
* The client refuses an error within eight seconds of a completion, and any status
  but a completion of a session it holds dormant, and nobody repeats them
  (`src/apps/web/src/lib/sessionEventState.ts:187`,
  `src/apps/web/src/lib/sessionEventState.ts:239`); its idle timer gives up a turn of
  Pi that is silent for ninety seconds and was not confirmed.
* A tool that finishes beside one that waits for an approval takes the approval off
  the badge (`src/apps/web/src/lib/sessionEventState.ts:201`).
* A revert that fails after the restore leaves the files restored and the thread as
  it was (`orchestration/Layers/CheckpointReactor.ts:199`).
* A change pushed while the client still believes the thread archived is deferred,
  and the deferral dropped when the user shows the thread too early
  (`src/apps/web/src/routes/__root.tsx:754`).
* A late tool of a background subagent can confirm "working" for ever
  (`src/apps/web/src/lib/sessionEventState.ts:229`); the computer is kept awake
  after an interruption that no hook reports (`wsServer.ts:767`).
* After an installer that throws or only emits an error the backend stays
  stopped (`src/apps/desktop/src/main.ts:795`).

## Proofs

Each proof module states an inductive invariant, proves that each action keeps
it, and derives the theorems. Assumptions are those of the modules' `ASSUME`s
(types and bounds of the constants) and those named here.

**`ClaudeSessionManagerProofs`** (`TypeOK`, `HasOneOwner`, `StartIsExclusive`,
`RecordsFollow`, `PurgeSparesInUse`, `CapAtRest`; any threads, harnesses, PTYs, loop
slots, caps and queue bounds). That a PTY has one
owner is not inductive: a PTY that comes up is given to an entry, so one must
know that the entry has none (`StartIsExclusive`), which relies on the lock's
head staying in place while other tasks queue up behind it (`EnqueuedType`,
`ReconcileType`, `AwaitLoopType`); and a start for a thread outside the map must
not find a PTY there (`HeldInMap`). Most actions only move tasks
(`QueueStepSafe`) or stop entries (`StopAndClearSafe`). The records need two facts
more: a start that awaits its PTY has given its entry the harness whose registry
file it will write (`SpawnsOwnHarness`), and the forced stop, which leaves the
statuses, comes only once the server closes (`CapturedOnClose`). What a purge
spares is decided long before the victim's lock is free: a loop has at most one
task in all the queues, the one it awaits, and its victims stay outside what it
spares (`LoopTasks`). `CapAtRest` needs to know what is under way while harnesses
are over the cap: of each one, a reconciliation with no higher cap has yet to
come by, or all that exceeds the cap is in a queue or in a loop's list to be put
to sleep (`CapFollows`). A snapshot leaves at most `cap` sessions because no two
are equally idle (`IdleDistinct`, `MostRecentFew`). The theorem speaks of
behaviours without the step `CutShort`, in which the deletion of a chosen session
ends its reconciliation; with it the cap may stay exceeded (see Bounds), and no
other step can do that.

**`PiSessionManagerProofs`** (`NoStrayProcess`, `PromptGoesFirst`, `StatusIsTrue`,
and `Exclusive`: a start between its stop and its spawn has the lock; any number
of starts and requests). The invariant adds that who submits or cleans up is in
the lock's queue once, that each launch is of one start, and that a terminal
whose prompt is to come accepts no input. `StatusIsTrue` speaks of rest; on the
way a session may be active without a process, or unknown to the read model, and
the invariant names the start that will change it (`Explained`), which is the
one with the lock (`Locked`). That a start finds its session as it left it
(`Underway`) and that a session reads the sync file of its own process
(`Linked`) is what the branches of a failing start need.

**`StatusProofs`**, of `PiStatus` (`PiTypeOK`, `StatusIsWhatPiDoes`; any
budgets, modes and windows). `StatusIsWhatPiDoes` speaks of states in which all
was read; the invariant says what each source holds on the way there: the file
ends with what Pi last did (`LinesFollow`), the sync file still carries the last
report or was read or is being read (`ReportsFollow`, `ReadingFollows`), a dialog
is open only while Pi asks (`OnTheWay`), news that the file's last line
contradicts is followed by that line's (`NewsEnds`), and the status is that of the file's last line or will
be once the file is read (`StatusFollows`).

**`TerminalManagerProofs`** (`NoLostShell`, `CloseStopsShells`; any threads,
terminals, configurations, shells and requests, with failing cwd checks, spawns
and writes), if there is room for every session (`Room`). A call relies on what
it saw while it awaits: that its session is still the one in the map and has no
process, that the sessions a close has passed are gone (`StepFits`). This is true
because it has the thread's lock: a lock's queue holds its calls once each, and
whoever is past the queue is its head (`LocksHeld`). A step of a call touches
only sessions of its own thread (`Effects`), so that what other calls hold stays
(`HoldsElsewhere`), and what happens outside locks at most takes processes away
(`OutsideLock`). With an exact map (`MapIn`) and processes that belong to one
session (`ShellsIn`), a close that has walked its keys leaves no process.

Its second part is about histories (`HistoryIsRestored`, `DeletedStaysDeleted`;
as above, the first if no write fails). On its way to the disk a history is in
the buffer of a session, in the text that is pending or in one of several
writes; the invariant says which of them is the newest (`Latest`) and that it
holds the last edit (`Saved`). To know that it lands last, the writes of a key
are chained and the queue's entry stands for the last of them (`Ordered`). To
know that an open reads it and that nothing lands after a deletion, what a
session leaves unsaved is in the hands of the close that took it out of the map
(`Entrusted`): a call of the same thread that does not flush has the lock, so
then there is no such close and nothing is unsaved (`AbsentSaved`). Eviction
breaks `Entrusted`, hence `Room`.

**`OrchestrationEngineProofs`** (`TypeOK`, `HistoryLegal`, `ReceiptsExact`,
`AppliedOnce`, `AnswersAgree`, `ProjectionsExact`, `CaughtUp` and the refinement
`Implements` of `CommandLog`; any commands, legal histories, projectors, queue
and read limits, with crashes, failed lookups and rolled back transactions).
`HistoryLegal` speaks of the log and the decider reads the model in memory, so
the invariant `IInv` relates the two through every step of the worker
(`KnownCurrent`, with the commit whose events are not yet adopted as its
exception). `ReceiptsSound` says where in the log the batch of an accepted
command is; `InHand` says that what the worker has still to do (adopt, refuse,
answer) agrees with the receipts and the log as they are now, which holds
because it is the only writer. On top of these, `Recorded` and `AnswersSound`
tie the answers to the receipts, and the refinement maps `Commit` to `Accept`, a
recorded refusal to `Refuse`, the three places that answer to `Answer`, and all
else to stuttering. `ProjectionsExact` relates each projector's rows to its
cursor (`RowsFollow`) and the cursors to what the reads of a bootstrap can still
reach (`Unread`).

All but `TypeOK` and `CaughtUp` assume that no append escapes a rollback
(`"escape"` is not among the faults; SQLite's transactions justify it).
`AnswersAgree` and `Implements` also assume that refusals can be recorded:
without it they are false, since a refused command whose receipt was lost is
decided afresh. `ProjectionsExact` assumes that a projector which a version adds
can read the log it finds in one read (`FitsOneRead`; the code reads 1000 events
and stops); projectors that resume need no such bound.

`CaughtUp` holds with appends that escape, and that is its point: it is what
reconciliation repairs. It assumes that reconciliation itself does not fail
(`"reconcile"` is not among the faults: the code only logs that failure) and
that a command's batch fits one read (`BatchesFit`). The invariant says how far
the subscribers have been told at each step of the worker, and that what they
lack is what the command in hand has appended (`MemoryFollows`), so each event
since the start is published once and in the log's order.

**`CheckpointReactorProofs`** (`RecordedKeepsRefs`, `DiffIsRecorded`,
`RevertRestores`; any contents, counts, prompts and requests) under `OneCapture`.
The properties speak of behaviours without reverts, or with reverts that wait
for what was asked before and do not fail; of those, at most one job works
on the refs of a count (`OneAtATime`), a job's refs are those it read
(`GoodJobs`), reverts only wait when allowed (`RevertsAllowed`), and what a query
saw stays in the refs (`SeenStays`).

**`StatusProofs`**, of `HookStatus` (`TypeOK`, `CompletionSticks`, `BlockedIsShown`; any windows in
the code's order, tools side by side, any delay of hooks below the shorter window, any budgets).
Both say that a tool's late hook does not undo what was shown, and the window
after a completion or a question can only do that if it is still open when the
hook comes. The invariant gives the reason: such a hook in flight was sent
before the Stop or the question, so it is no younger than that one, in flight or
arrived (`StopIsCloser`, `AskIsCloser`), and arrives within the delay. Around it:
what may be in flight at each point of a turn (`HooksFollow`), that a running
turn has no completion behind it (`TurnIsFresh`), and that the timer watches
every badge that says "working" (`BadgeFollows`).

**`ClientProofs`**, of `DesktopShell` (`TypeOK`, `NoStrayBackend`, `OfferIsAccepted`; any number
of backends and budgets). The invariant is two that do not meet: of the child, its
timers and who waits for it (`BackendIInv`), and of the update's status, task and
versions (`UpdateIInv`).

**`ClientProofs`**, of `HarnessOutput` (`SubscriptionFollows`; any threads, views,
outputs, attempts, queue limit and budgets). The server's record of who is
subscribed is what the last message it read says. The invariant says that once
the welcome is handled, the newest subscription message on the wire, or the
server if there is none, says what is wanted (`Says`); that what the client
thinks it has sent is what it wants (`SubscriptionIInv`); and that new messages
are newer than all under way (`Carries`). The server reads the oldest message,
which exists by the least-number principle (`OldestOnWire`), so the newest is
read last.

**`ClientProofs`**, of `ThreadLifecycle` (`ViewsAgree`, `GuardsMirror`, `ListedAsHeld`; any
requests, turns, captures, reverts and restarts, any windows and caps) under
`[]Room(mem)`: memory has dropped nothing from a list yet (below 2000 messages, 500
checkpoints and activities in the code). Beyond that `ViewsAgree` is false, as said
above. That the thread read back equals the thread in memory is not inductive: an
event reads what the snapshot does not show, such as a row that a later capture
took the count of, or the start of a turn that waits. `ThreadIInv` therefore relates the
thread to its rows (`Agree`): the same lists; for each row with a count a
checkpoint, and for each checkpoint a row of its count that is no older
(`CheckpointsMatch`); a latest row as late as the turn in memory, running only if
that runs (`TurnsMatch`); and a settled thread at rest (`AtRest`). Where no provider
reports turns, it adds that every row is of a capture and names the instant of it
(`OfCapture`), and that the last checkpoint's turn is the one in memory if captures
did not overlap (`CapturesOnly`). Every event keeps that, one lemma each
(`FieldsStep`, `UserMessageStep`, `AnswerAgrees`, `SessionAgrees`, `InterruptStep`,
`ActivityStep`, `CaptureStep`, `RevertStep`, `RestartStep`), every command is up to
four events (`Executed`), and every action one command or none. The lists that
reverts and snapshots select from are functions of ranks (`Nth`, `AtPlaces`), so
that what is kept follows from cardinalities and no induction is needed
(`NthElements`, `RetainedAlike`).

`StopResolvesAsked` needs no `Room`: its invariant (`AskedIInv`) says that each
request, in memory or in the queue, has an answer after it or is still remembered by
the session (`Outstanding`). Memory drops the oldest activities first, so a request
is gone before its answer is (`Trimmed`).

**`SnapshotSyncProofs`** (`TypeOK`, `PendingIsCarriedHere`, `EventsAccountedFor`; any
threads, events, moves between them, losses, faults and queue limit). `SyncInv`
says what the router, the transport and the server's reads expect of each other,
above all that one fetch at most is under way (`OneFetch`), and that the pending
fetch is carried by a loop, a timer or a request that still is to end
(`PendingIsCarriedHere`). `SyncIInv` adds what the store knows: no answer to come
is older than the store, and of what is later than the answer only the guarded
`archived` flags differ (`Answers`); an event that is skipped as old is in the
store (`Skipped`); and each event is reflected, or on its way, or to be fetched,
or belongs to a thread that is hidden or deferred (`AllKept`).

Only model-checked:

* All liveness, and `NeverStuck`, which has `ENABLED`: out of the prover's reach.
* `BadgeAgrees` and `ShownOnceInOrder`. The latter is not true of every budget: a
  restart together with an eviction shows, in the new terminal, a character of
  the old session that is still on its way when a fresh view mounts (TLC finds it
  with two mounts, a restart and an eviction). The run checks it with one kind of
  disturbance at a time.

## Not modelled, and the plan

Most of the repository renders, parses or calls: the user interface, git
plumbing, text generation, settings and telemetry have no protocol of their own,
and the models stay with the parts that have. Next, most important behaviour
first:

1. `PiTranscript` (`src/apps/web/src/components/PiHtmlThreadView.tsx`): a load of
   a session file in flight while the file changes or the thread is left; the old
   file's answer may land on the cleared view.
2. `ProcessRunner` and `WorkspaceEntries`: a timeout, an output cap and an exit
   that race to settle one promise; an index shared in flight and invalidated.
3. `Projectors` for plans, approvals and attachment files, which are deleted
   inside the engine's transaction and do not come back with a rollback.
4. `GitManager`'s stacked commit, push and pull request.
5. The rest of the store: optimistic threads, the dormant view and the memory
   budget of cached terminals.

Theorems worth proving next: `GuardsMirror` for captures that overlapped, after the
grace of the newest message, and `BadgeAgrees`.

Left out for good: native PTY bindings, git plumbing and output parsing, text
generation, rendering, telemetry, build scripts. They keep no state whose order
matters, or are external programs.
