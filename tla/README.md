# Formal model of the duet agent

TLA+ modules, TLC configurations and TLAPS proofs kept beside the duet agent
(TypeScript, `src/src`). The agent runs a conversation as *turns*: a parent
agent calls a model, the model calls tools and starts subagents, a relay state
machine selects the next state, and every turn ends in one terminal event. All
of it happens in one JavaScript thread, so nothing is torn in the middle of a
statement, and everything may be torn at an `await`. The models are about those
awaits: an action is the code between two of them, and every other action is
what another callback, the user or the model may do in between.

    tlc -workers 2 -config TaskManager_tree.cfg MCTaskManager      # a run
    tlapm TaskManager_proofs.tla                                   # the proofs

`PROJECT.json` lists the runs, the source lines of every definition, a mutant
for each property (a plausible bug that the property catches), the hazards, the
findings and the theorems.

## 1. Inventory

Paths are relative to `src/src`.

| component | state | operations | talks to |
|---|---|---|---|
| Task kernel: `tasks/task-manager.ts`, `tasks/types.ts`, `tasks/quiescence.ts`, executors in `turn-runner/task-tools.ts` | task records, scopes, reapers, queue of settlements, id counter | start, openScope/closeScope, stop, interruptAll, reapAll, raceForeground, nextSettled, recover | executors are callbacks; the turn runner hears events and pulls settlements |
| Settlement delivery: `turn-runner/turn-runner.ts` 1246-1354, `task-tools.ts` | `taskSettlementDelivery`, `heldSettlements`, `settlementDeliveryQueued`, `parentInputs` | handleTaskEvent, onTaskStarted, onForegroundResult, enqueueAvailableSettlements, processTaskSettlements, discardStaleTaskSettlements | pulls from the kernel, steers into the pi agent, feeds the turn loop |
| Turn loop: `turn-runner/turn-runner.ts` | `parentInputs`, `piQueuedInputs`, follow-up queue, interrupt and relay flags, the terminal | turn, interrupt, replaceFollowUpQueue, runTurnLoop, parent passes, enforceParentTransition, runStateMachineDecision | kernel, pi agent, state machine, memory, session |
| State machine: `turn-runner/state-machine-decisions.ts`, `state-machine-session.ts` | the session value (current state, history, progress) | planDecision, planWake, recordSettled | pure; called by the turn loop |
| Session and persistence: `session/session.ts`, `session-manager.ts` | status, start promise, coalescing writer, wake timer, waiters | start, prompt, interrupt, handleTurnEvent, persist, wake poll, dispose | runner, file system |
| Memory store: `memory/session.ts`, `memory/pglite.ts` | reference count, handle, idle timer, lock file of the process | withDb, relinquish, dispose, open lock, stale takeover, quarantine | file system, other processes |
| Observational memory: `memory/observational.ts` and helpers | rows of observations, reflections, the eviction horizon | update, observe, reflect, compact | store, model calls, turn loop |
| Embedding worker: `memory/embedding-worker.ts` | running loop, cooldowns | kick, run, stop | store, embedding service |
| File lock and providers: `file-lock.ts`, `connected-providers/` | lock file, token files | withFileLock, token refresh | other processes |
| Routing and advisor: `model-routing/` | milestones, pin, tier, advisor checkpoints | prepareTurn, trigger, consult, review | classifier model, turn loop |
| Transcript shaping: `turn-runner/wire-shaping.ts`, `state-compaction.ts`, `usage-accounting.ts` | none (pure over the message list) | shape, evict, compact | turn loop, memory |
| RPC: `cli/rpc.ts` | dispatch chain, event writer | read line, dispatch, write, flush, close | session, stdin and stdout |
| Subagents and tools: `turn-runner/subagent.ts`, `tools.ts`, ... | process handles | run, interrupt | kernel, operating system |
| Command line, TUI, auto-upgrade, model resolution, guardrails, helpers | presentation and one-shot state | - | session |

What makes each one hard, and what would make it correct:

* **Task kernel.** Stops, completions, foreground budgets and scope closings
  race; a stop waits for unwinding that itself stops and waits. Correct when a
  settled task leaves nothing behind, each settlement is published once, a stop
  wins over the executor's own outcome, terminal states are for ever (recovery
  included), and every stop and barrier ends.
* **Settlement delivery.** A settlement moves kernel -> buffer -> steer or
  input -> model, and three unrelated microtasks touch the map that decides
  which. Correct when every end is told exactly once, none is lost between the
  queues, and the loop neither spins on nor sleeps through one.
* **Turn loop.** A command may be in three queues at once; an interrupt may
  come at any await; a relay owes transitions across passes, retries and wakes.
  Correct when no accepted command is lost or read twice, the visible queue
  agrees with the real one, a terminal that was not forced is quiescent, and a
  turn does not report completion over something still due.
* **Session.** A terminal is persisted, published and armed for a wake in
  separate steps, each of which may fail; what is on disk must be a state that
  was written and the last one acknowledged.
* **Memory store.** One database, many processes and sessions: never two open
  handles, never a lock released by someone who does not hold it.
* **Observational memory.** Read, model call, write back over a store that
  others append to: no row may be lost, no message observed twice, and nothing
  evicted that was not observed.
* **Embedding worker.** No kick may be lost, no work after `stop()`.
* **File lock.** Mutual exclusion among live holders; a refresh token is spent
  once.
* **Routing.** A trigger raised while a classification is awaited must not be
  cleared by it; advisor reviews end.
* **Transcript shaping.** The list that is sent is never empty, no tool result
  on it is an orphan, and what an eviction takes off it is in the rendered pack.
* **RPC.** Events leave in order, once, and before the process ends; the process
  ends with its terminal whatever the host does to stdin.

The `hazards` of `PROJECT.json` give each of these its line.

## 2. Modules

| module | what it is |
|---|---|
| `TaskManager` | the kernel with the executors it is given |
| `TaskLifecycle` | the abstract promise of the kernel; `TaskManager` implements it (`LifecycleSpec`) |
| `SettlementDelivery` | how the end of a task reaches the parent agent in one turn |
| `TurnLoop` | turns, commands, interrupts, passes, relay transitions, terminals |
| `Session` | a session across restarts: start, dispatch, the coalescing writer of `state.json`, terminals, wakes, waiters |
| `StateRegister` | the abstract promise about `state.json`; `Session` implements it (`NeverOlder`) |
| `MemorySession` | the memory database shared by processes: handle and open lock |
| `ObservationalMemory` | observer, reflector, eviction horizon and prune over one table of rows |
| `EmbeddingWorker` | the background loop that fills missing embeddings |
| `ConnectedTokens` | the advisory file lock, the store under it, the refresh of provider tokens |
| `RpcEventWriter`, `Rpc` | `duet --rpc`: the writer of the event stream, and the loop, calls and exits above it |
| `TaskManager_proofs`, `SettlementDelivery_proofs`, `TurnLoop_proofs`, `Session_proofs`, `ObservationalMemory_proofs`, `ConnectedTokens_proofs`, `Rpc_proofs` | theorems about the module they name |
| `MemorySession_proofs` | theorems about `MemorySession`, and about `EmbeddingWorker`, the loop that uses the same database |
| `MC*` | instances for TLC: model values and symmetry |

The first three models and `Session`, `Rpc` are layers. Each takes the one below
by what it promises: `SettlementDelivery` has tasks that only run and settle
(`TaskLifecycle`), a spawned agent settles after its calls
(`SubagentLeavesNothing`); `TurnLoop` assumes that a stopped task settles
(`StopSettles`), and that settlements reach the loop's inputs (`EndIsKept`,
`HeldIsReleased`); `Session` and `Rpc` see of a runner only that it has at most
one turn, which a later call of `turn()` joins, and that a turn ends in one
terminal (`Rpc` also lets it throw). `Rpc` extends `RpcEventWriter`: its actions
are the writer's operations with what else happens in the same step.

The memory is also layered: `MemorySession` says when a database may be opened
and by whom, and `ObservationalMemory` and `EmbeddingWorker` take from it that a
`withDb` runs on an open database or is refused. `ConnectedTokens` stands alone.

Some modules have an assumption of the environment as a Boolean constant. The
run has the value under which the properties hold, section 5 says what TLC
finds with the other one:

| constant | excludes |
|---|---|
| `AnyStopTarget` (TaskManager) | FALSE: `task_stop` on the caller itself, its ancestors and siblings |
| `AtomicSign` (MemorySession) | TRUE: a reader between the creation of a lock file and its signing |
| `OneStarter` (Session) | TRUE: a call while the first call of a resumed session reads its file |

`task_tree` has `AnyStopTarget = TRUE` and `memory_peers` has `AtomicSign = FALSE`:
the safety they check does not need the assumption. Elsewhere nothing is assumed
away: where the code has an exception to what it promises, the model records its
cause in a history variable when it occurs (`orphaned`, `rejected`, `excused`,
`rewound`, `forgone`, `overlooked`, `robbed`), and the property excepts that cause
and nothing else.

### TaskManager

The number `N` is task `tN` and also its scope `task:tN`; 0 is the turn's root
scope. `run[t]` is where the executor's promise stands: queued (a microtask
after `start`), live, closing (inside `closeScope`), resolved or rejected,
gone. `closeCur/closeTodo/closeWait` are the locals of `closeScope`: it visits
the descendant scopes deepest first, stops what each owns, waits, marks it
closed, and its own scope last. `race[t]` is `raceForeground` with its second look
at the task after the budget fired. `stopping[a]` is an agent inside
`task_stop`, `host` the runner inside `interruptAll` or `reapAll`.

| action | code |
|---|---|
| `StartTool`, `Spawn`, `Schedule` | `start()` as the bash wrapper, `spawn_agent` and the relay call it |
| `BeginTool`, `EndTool` | the wrapped tool: registers its reaper, ends, unregisters |
| `BeginSubagent`, `AgentReturns`, `CloseAdvance` | `spawn_agent`: openScope, the prompt, closeScope in `finally` |
| `Settle`, `NextSettled` | the reaction attached to the executor, the consuming queue |
| `TaskStop`, `TaskStopReturns` | the `task_stop` tool: stop and wait |
| `BudgetElapses`, `RaceReturns` | the foreground race |
| `InterruptAll`, `ReapAll`, `BarrierPasses` | the runner's stop of everything |
| `Recover` | a crash, and `recover()` in the next process |

Left out: output buffers, listing, `waitForSettlement` watchers, names and
labels. `Recover` takes the descriptors as current; what a crash between two
writes of the envelope may lose belongs to the session module.

### SettlementDelivery

`posture` is `taskSettlementDelivery`; `kernel`, `held`, `inputs` and `steered`
are the four places an untold settlement may be in; `queued` is the pending
microtask. A foreground call goes waiting -> settled or converted -> answered
or background in the two microtasks the code takes (`RaceSettles` /
`BudgetElapses`, then `ForegroundResult` = `onForegroundResult`). The parent
pass follows the pi agent: the steering queue is read when a prompt starts and
after a batch of tools, not after a failed request and not when a control
result ended the batch. `told` and `cleared` are histories used by properties
only. The order within a batch of settlements tells no property apart, so
batches are sets. `Picked`, by which a selection filters the inputs, is the same
operator as in `TurnLoop`.

`HeldNow` is what `holdSettledTasks` takes: all of the kernel's queue, also when the
foreground call of another task keeps it from being delivered. What is left in
the kernel would make `nextSettled()`, the loop's wait (`turn-runner.ts:1260`),
resolve at once and again and again, in microtasks that let no timer fire. The
fairness has this: the timers run only while the loop is not `Busy`, so a loop
that spins starves the very budget it waits for, and `EndsAreDelivered` fails
(mutant `HoldsOnlyToDeliver`). `Spare` bounds the instance: a third task is there for
turns without steers and selections.

### TurnLoop

`inputs` is `parentInputs`, `inPi` the commands that are also in pi's queues,
`followUps` the durable queue the user sees. `pc` is where `runTurnLoop` stands:
`select` (on its way to its next await; the user cannot come in between),
`waiting`, `pass`, `deciding` (`runStateMachineDecision` awaits replaced
workers), `failing` (the catch), `exiting` and `memory` (the finally), `returning`
(the loop has returned, `turn()` has not yet cleared `activeTurnPromise`), `idle`.
`TurnCalled` / `TurnStarts` / `TurnJoins` split `turn()` at the awaits before it
looks for an active turn. `Interrupt` is the whole of `interrupt()` with the
synchronous part of `interruptTasks`; `cleaning` is what its promise still
waits for; `IdleInterruptReports` is the `.then` of an interrupt that found no
turn. `Pass*` are the outcomes of a pass, `Execute` is `executePlannedWork` per
kind of state, `Result*` are the branches at the end of the loop body. `TakeWake` is
`runWakeInput` with `planWake`: a timer is due, a poll runs again or has timed out,
anything else has nothing to wake. The finally stops what the loop left open and
fails the turn (`turn-runner.ts:1127`); `LoopCleansUp` has no such branch, because
`HonestTerminal` says, and `Honest` proves, that there is never anything left
(`Leftovers`).

Two actions that stand for more than they show: `Interrupt` between turns is
switched by `IdleInterrupts`, and a follow-up is identified by itself (the code
removes entries of the visible queue by their text, so two equal texts are
one entry here).

`Picked` is the filter of `runStateMachineDecision` over `parentInputs`, written
with the rank of the entries that stay. `orphaned` is a history: the end of the
current state's work was thrown away by `discardStaleTaskSettlements`
(`turn-runner/turn-runner.ts:1337`) or its timer stopped by `interruptAll`, and
nothing recorded it. Nobody comes back from such a state by himself, and
`OwedIsEnforced` excepts it.

Not in this module: recovery of a restarted process (`hydratedQueuedCommands`,
`recover_state`), the advisor's review, `compact()`, overflow recovery and
transport fallback inside `runAgentWorker`, wakes that arrive during a turn.

### MemorySession

Calls of `withDb` are numbered in the order they are made, and an open is named
by the call that starts it: `use[o]` is the open call `o` awaits or uses,
`opening[s]` and `db[s]` the open in those fields of the session. `stage[o]` is
where an open is, from the creation of the lock file to the release:

| stage | code |
|---|---|
| `create`, `write`, `read`, `unlink`, `recreate` | the file operations of `tryAcquireOpenLock` and `createLockFile` |
| `sleep`, `refused` | contention: `pollAcquireOpenLock` sleeps, `acquireOpenLock` throws |
| `open`, `ready`, `closing` | `PGlite.create`, the open handle, the awaited `db.close()` |
| `aside` | the lock is given up, the directory is about to be renamed |
| `over`, `failed` | released, timed out or gone; thrown with the lock file left |

Other processes act between any two file operations, the process itself does
not (`Free`): that code is synchronous. `signed` says that the pid is in the
file; a reader that comes before that takes the lock for a stale one
(`AtomicSign` excludes it). `robbed` and `opened` are histories used by the
properties and by the content of a restored backup, which is a copy of the
directory with the lock file in it.

| action | code |
|---|---|
| `WithDb`, `OpEnds` | `withDb` up to its first await, and its `finally` |
| `CreateLock`, `WriteLock`, `ReadLock`, `Unlink`, `Poll` | the lock file |
| `OpenSucceeds`, `TimesOut`, `OpenThrows` | the ends of `openWithPolling` |
| `OpenBreaks`, `MoveAside`, `NextBackup` | the recovery in `openPGliteHoldingLock` and `tryRestoreFromBackup` |
| `IdleCloses`, `Relinquish`, `Dispose`, `DisposeCloses`, `CloseEnds` | the callers and the two halves of `closeNow` |
| `Killed`, `Exits` | the end of a process, without and with the exit handler |

A call that threw and one that answered are both `returned`. Left out:
`openPGlite` and `openPGliteWaitingForLock` (the same lock without a session),
the pruning of backups, pids that are reused, a directory that vanishes between
two file operations, write listeners.

### Session

A caller (`Caller`) calls `hydrate` or `prompt` once; `call[c]` is where that call
stands, `read[c]` the envelope it found, `startPromise` the call whose promise is
in that field. The runner is a `state` with a version that grows with every
change, and `turn`, `stopped`. An envelope is the version, the status, how many
turns have ended in it and what it credits, so a stored one can be compared
with the turns it holds. `queuedEnvelope` and `writing` are the two slots of
`drainPersistence`; `waiting` are the continuations that await the drain, `ready`
those that run next, before anything that needs the event loop.

| action | code |
|---|---|
| `Call`, `HasRead`, `RunnerStarts`, `Joins` | `start`, `hydrate`, `ensureStarted` up to each await |
| `Dispatch`, `Enter`, `Rejects` | `dispatchTurn`, `runner.turn` after its awaits, and the `.catch` and `.finally` of a turn that rejects |
| `Event`, `TurnEnds`, `GoOn` | `handleTurnEvent`: usage and task events; a terminal before its write, and after |
| `Commits`, `CommitFails` | one iteration of `drainPersistence` |
| `Interrupt`, `WakeFires`, `WaitForTerminal` | the user, the poll of the wake timer, `waitForTerminal` |
| `Dispose`, `DisposePersists`, `Ends`, `Restart` | `dispose`, the end of the process, a new one with `resumeFromStorage` |

A turn that rejects emits a system error and no terminal, and nobody resolves the
waiters or keeps the timer of a wake; `rejected` names its dispatches, and
`SleepIsWoken` and `WaitersAnswered` except them.

Left out: `compact`, model and skill selection, a `runner.start` that throws, the
debounce of output writes (an `Event` writes at once), a recovered sleep with
nothing scheduled any more.

### EmbeddingWorker

`pc` is where the loop stands, `"off"` when there is no `runningPromise`. `rows`
and `embedded` are the two tables, `unsaid` the writes whose notification is on
its way, `attempts` the entries of `recentAttempts` that have not expired, `access`
who has the database open. `stopping` is the call of `stop()`, which awaits the
loop's promise; `overlooked` are the rows whose attempt expired after the select
and before the check that reads the clock again. The open, the select, the embed,
the write and the check may each throw (`DrainThrows`). Names that `MemorySession` has too carry the word
`Worker` here, so that one module can hold the theorems of both.
`Kick`, `Restart` and `Drained` are the three places that look at `pendingKick`. A
peer (`PeerOpens` to `PeerEmbeds`) holds the database, writes, embeds; `Delete` is
any process's reflection. The order in a batch, the vectors, the log and
`backfillNewestEmbeddings` (one call before the loop) are left out.

### ObservationalMemory

One session's transcript, pack and horizon, and the table of all sessions' rows.
What a text tells is a set of messages, so a reflection that condenses tells
what its sources told: whether the model's wording keeps it is out of reach.
`update[p]` holds the locals of an update under way for either party of the
runner, the passes of a turn and `/compact`, which may overlap. Messages are
stamped by a clock of milliseconds that may stand still between two of them, and
a steered message keeps the stamp of its queueing: the horizon is a stamp, and
what is stamped no later goes together.

| action | code |
|---|---|
| `Begin` | `updateObservationalMemory`: the unobserved tail after the progress marker |
| `ObserverFails`, `NothingToObserve`, `AppendObservation` | `observe` and `appendObservation` |
| `Reread`, `ReflectorFails`, `ReplaceSession` | the in-session reflector |
| `RefreshPack`, `Evict` | `ensureMemoryCoverageForCompaction`, then `findEvictionHorizon` |
| `PruneReads`, `ReplaceAll`, `PruneFails` | `reflectAllObservations` |
| `Resume`, `PeerAppends`, `Say` | `loadStoredMemory` of a new runner, other sessions, the agent |

`WireHead` is `applyEvictionHorizon`. Each `withDb` may be refused, and a prune may
give the lock up between its read and its write. The exceptions of the
properties are causes:

| property | excepts | because |
|---|---|---|
| `CoverageKept` | `Unread`, `forgone` | rows others wrote after the read of a prune or a reflector are deleted with the rest; so are the rows of a batch that gave nothing |
| `ObservedOnce` | `rewound` | an update read its progress marker while a read was refused or the other party was about to append, or after a replacement set the marker back |
| `DropsAreRendered` | `excused` | a message no row tells: the observer failed, saw nothing in it or never saw it, a replacement lost it, or it left the wire by itself |
| `WireIsValid` | a last message stamped no later than an earlier one | the horizon takes it along, and the wire is empty |

Left out: usage bumps and ranking, the advisor's own horizon, the
child memory of subagents, token heuristics (a budget is a choice, but for the
observer's and the reflector's threshold).

### ConnectedTokens

A client is one caller of `withLock`; `stage[c]` is its place in `acquireFileLock`
and in the operation under the lock. `acquireFileLock` does not await, so the
clients of one process do not run between its system calls (`MayRun`), other
processes do. Credentials are numbers the issuer hands out; `live` are the
refresh tokens it still takes, and a `Rotating` provider spends one by its use.
`Call` is every way to the lock (`ensureFreshToken`, a refused pass, connect,
disconnect), `FindStale` and `Reclaim` the two halves of a takeover, `Age` the
moment a lock file counts as stale, also of a holder at work while `overstays` is
below its bound. `Busy` is a poll. `robbed` records that a lock file was unlinked
under its holder, `without` the clients at work whose file is gone. A write of the
document fails before the rename or after it (`chmod`). Left out: eligibility, the model catalogue,
errors of the file system other than EEXIST, an unreadable document.

### RpcEventWriter and Rpc

`RpcEventWriter` is the class of that name. An event is its number; `wire` is what
the stream took, `losslessLines` the queue, `pump` the promise of `runPump`. A run
of the pump is one step up to where it awaits: at a line that fills the stream,
at a line whose write throws, or at the end. `path[c]` is where `close()` stands
for each of the three closers (the end of the loop, an uncaught error, a
signal). `Rpc` adds `driveRpcLoop` (`loop`, `stdin`), the calls of `turn()` with the
awaits before they enter one (`call`, `Enter`), the terminal (`terminalEmitted`,
`report` for an interrupt between turns) and the ends of the process. Commands
that only emit an event are `ReadNote`. That flush and `process.exit` of an error
or a signal are one step, and that a joined turn's promise does not reject
apart from the turn's, are simplifications.


## 3. Runs

| run | instance | shows |
|---|---|---|
| `task_tree` | 3 background tasks, scopes two deep, 1 request, 1 crash | nothing outlives its settlement or escapes its scope, refinement of `TaskLifecycle`: one settlement each, stops win, terminals and ids for ever |
| `task_live` | 2 tasks, foreground or background, 2 requests, fair | every foreground call is answered, every stop settles, `interruptAll` and `reapAll` return |
| `delivery` | 3 tasks of any lane and caller, or 2 with 1 steer or 1 selection, fair | each end told at most once, kept, released; the loop neither spins on one nor sleeps through it |
| `turn_commands` | 1 task, 2 commands, 1 interrupt (also between turns), 1 wake, 1 selection, fair | commands are kept and read once, queues agree, honest terminals, nothing left for the finally, steers and interrupts are heard |
| `turn_relay` | 3 tasks, 2 selections, 1 wake, 2 enforcement attempts | one worker, transitions are owed and enforced |
| `session_restarts` | 2 callers, 1 input, 1 sleep, 1 failed commit, rejected turn or ended process, fair | the file never goes back, each turn is credited once, sleepers are woken and only they, waiters are answered |
| `memory_peers` | 2 processes, 3 sessions, 2 calls, 1 broken directory, 1 refused backup, 1 ended process, fair | callbacks run on an open database, one open per session, dispose is final, the lock is its user's, calls return, locks are given up |
| `observation` | 3 messages in 2 milliseconds, 2 updates that may overlap, 3 rows, 1 prune, reflection from 2 rows on | what was told stays told, nothing is observed twice, what is evicted is rendered, the wire is valid, but for the causes above |
| `embedding` | 2 rows, batches of 2, attempts that expire at any time, fair | an idle worker owes nothing but what it overlooked, no loop runs once `stop()` has returned, what it was told of is embedded |
| `tokens` | 3 processes, 1 rotating provider, a refresh in each, 2 credentials, 1 crash, fair | one client in the store at a time and no connection lost until a lock file is unlinked under its holder, what that takes, calls return behind a dead holder |
| `rpc` | 2 turn commands, 3 other events, fair | events reach the host once, in order, before the end; the process ends |
| `memory_two_openers` | 2 processes, 2 sessions, 3 calls (violation) | the finding of section 5 |

A property that is a conjunction says in its module which of its parts is about
what; `PROJECT.json` has a mutant for each part where one could be told apart.

**Why these bounds.** `MAX_SCOPE_DEPTH` is 2 in the source, so three tasks are a
subagent, its subagent and a command, the deepest cascade there is. Only
`task_tree` goes that deep; liveness is checked on two tasks, which are enough
for a stop that waits for a cascade and for a stop that meets another. Two tasks
are also the least that race over one buffer and mix a state's end with
another's in one batch. Two commands are the least that may overtake each other
and two selections the least in which an old worker meets a new one; the third
task of `turn_relay` is the poll's next schedule. `PARENT_TRANSITION_RETRY_BUDGET`
is 3; two passes already have a retry and a last one. In `delivery` three tasks are
the least with one that has settled while another's foreground call is undecided
and a third that runs on. In `memory_peers` two calls
are an opener and one that joins it, comes after it, or comes from the peer or
the second session of the same process; the lock's taking over, moving aside and
restoring need two openers, and a third call is needed only for the second
rival of the finding.

Two callers are the least that may both start a session; one sleep with one
ended process is written, crashed over, replayed and woken; an input is an event
or an interrupt before or after any of these. Three messages are a call and its
result behind a user message, the shape in which a head of the wire has to be
looked for, or an observed part, an unobserved one and the last, which is never
evicted; three rows are two that are reflected on and the result, or a session's,
a peer's and the prune's. Two milliseconds for three messages make ties, two updates
an overlap. Two rows with batches of two give a full batch, a
partial one and an empty one. Three processes and one crash are the least in which
two reclaim one file: in `tokens` the second unlinks the fresh lock of the first. A
holder that outlives the limit (`MaxOverstays = 1`) was checked beside it with the
invariants only, 2.9 million states; the theorems have any number of either. Two
credentials are one that is stored and the one a refresh gets for it. With two turn commands one may run into the end of
the other's turn; three free events fill the stream before, during and after.

The theorems hold for any number. Counters that only bound a model are in the
guards: `MaxTasks`, `MaxRequests`, `MaxRestarts`, `MaxSteers`, `MaxSelects`,
`MaxInterrupts`, `MaxWakes`, `MaxOps`, `MaxExits`, `MaxBreaks`, `MaxRefusals`, `MaxInputs`,
`MaxSleeps`, `MaxFaults`, `MaxMessages`, `MaxClock`, `MaxRows`, `MaxPrunes`, `MaxUpdates`,
`MaxMinted`, `MaxCrashes`, `MaxOverstays`, `Commands`, `MaxEvents`, and `Spare`.

Every configuration says `CHECK_DEADLOCK FALSE`: a process whose tasks have
ended, or a turn that has emitted its terminal, stops, and so does a model
whose bounds are used up. The liveness properties are what rules out the
deadlocks that would matter. Symmetry is used in `turn_relay` only, which has
no liveness property.

**Fairness.** Weak fairness is given to what the JavaScript runtime guarantees:
promise reactions, microtasks, timers, the code's own continuations, and the
end of an executor that was aborted (`EndAborted`: the reaper kills the process
group, a prompt returns on abort). Beyond that:

* `SettlementDelivery` has strong fairness of `ModelAnswers`: a model does not
  call tools for ever. Timers are fair only while the loop is not `Busy`, see above.
  `TurnLoop` takes the end of a pass and of a stopped task
  from the layers below.
* `Session`: files, timers and the runner's start come back. A commit need not
  succeed, a turn need not end.
* `MemorySession`: each open, callback, timer and close ends, and strong fairness
  of `TimesOut`: the poller leaves `sleep` again and again, and a finite budget is
  spent during one of the sleeps, whatever the tries find.
* `EmbeddingWorker`: a loop that keeps asking finds the lock free and the service
  up at times (`[]<><<WithDb>>` and strong fairness of `EmbedAndPersist`), attempts
  expire.
* `ConnectedTokens`: an issuer answers or fails; strong fairness of
  `AcquireFileLock`, because a waiting client polls and there is no queue: one
  that finds the lock taken at every poll waits for ever in the code too.
* `Rpc`: the turn ends, `dispose()` returns, and the host reads what it is written;
  `close()` has no timeout, a host that never reads keeps the process.

Nothing is assumed of the user, of a task nobody stops, of the model's choices,
of a host's writes or of pulls by the runner.

## 4. Proofs

Eight modules hold theorems. Each is about any instance of its module's
constants; the assumptions on constants are the modules' own (`...Assumption`:
numbers are naturals, switches Booleans, model values distinct), and what a
theorem needs besides is an `ASSUME` in its statement. Every invariant and
every property of steps that a passing run checks is stated by one of them; a
property that joins liveness with such a part is named below.

### TaskManager

* `TypeCorrect`: `Spec => []TypeOK`
* `Unwound`: `Spec => []SettledIsUnwound`
* `TerminalStays`: `Spec => TerminalForever`
* `StopsWin`: `Spec => StopWins`
* `KernelRefinesLifecycle`: `Spec => LifecycleSpec`, the refinement of `TaskLifecycle`
* `Covered`: `Spec => []NothingEscapes`

`SettledIsUnwound` is not inductive: nothing in it says why a task that settles
now has no open scope. `IInv` adds what the code keeps in separate places and
always changes together. `RecordsAgree`: an executor exists exactly while the
status is running, the settlement agrees with the status, ids below `nextTask`
are exactly the ones in use, an owner is allocated before what it owns.
`ExecutorsAgree`: a reaper belongs to a live command, a subagent's scope is
absent before its executor runs, present while it runs and closed once its
promise is resolved, and `closeScope` only names scopes that exist. `IInv` is
proved by one lemma per group of actions (`CreateRecordIInv`, `ExecutorIInv`,
`CloseIInv`, `StopIInv`, `CallerIInv`, `RecoverIInv`), over two lemmas on the
shared helper (`StopNowEffect`, `CloseStopsEffect`). The action properties
follow from `IInv` and `TaskStep`, which says all that one step may do to one
task. For the refinement each step is shown to be a start, an end, a set of stop
requests, a restart or a stutter of `TaskLifecycle` under the mapping that keeps
statuses, stop requests and the published settlements.

`Covered` needs more, `EInv`. `ScopesAgree` says of a subagent of the parent agent
that nobody else's `closeScope` visits its scope, that the scope is open while
the agent lives, and that once its own `closeScope` has come to it, which is last,
it waits for every task the scope owns: so what is pending there is pending
under a live or closing executor. One level deeper the first of these is false
(section 5). `ProcessIsCovered` is inductive beside `IInv`.

### SettlementDelivery

* `TypeCorrect`: `Spec => []TypeOK`
* `Told`: `Spec => []EndsAreTold`

The invariant `DInv` follows a settlement through the places it may be in.
`ApartOK`: kernel or buffer, inputs and steered are disjoint. `PlacesOK`: who is in
one of them has settled and was not told, but for a duplicate in the buffer that
is marked `suppress`; a posture is `foreground_pending` exactly while the call is
undecided, and then the end waits in the buffer; an end that is in no place
was told or cleared. `BatchesOK`: no two entries of `parentInputs` carry the same
end. `TasksOK`, `StatesOK` and `LoopOK` tie calls, the table of state tasks and the
pass to that. The lemmas on sequences (`PushFact`, those on
taking an entry out, `Picked`) say what each edit of the queue does to the set it
carries; an action is then a move between places.

### TurnLoop

* `Types`: `Spec => []TypeOK`
* `Honest`: `Spec => []HonestTerminal`, with what the finally never finds
* `Relay`: `Spec => []RelayIsKept`
* `Owed`: `Spec => OwedIsEnforced`
* `Commanded`: `Spec => []CommandsAreKept`
* `Drained`: `Spec => CompletionDrains`, the part of `CommandsAreHeard` that is about
  safety

The invariants are nested. `TInv` has the types with what a pass's flags and the
entries of the queue imply. `QInv` adds for `Honest` that nothing runs under a
question, or under a loop that came to its end by itself. `RInv` adds for `Relay`
that at most one worker's end is still to be recorded, none while the next is
chosen or the session sleeps, and that no input names it (`WorkersOK`); a worker
whose end was discarded leaves nothing scheduled (`LostOK`), and after the loop's
last flush nothing settles any more (`DrainedOK`). `OInv` adds for `Owed` that the
current state of a live machine is driven: by a worker, a debt, a poll or a timer
(`Driven`), or it parks, was interrupted or is orphaned. `Commanded` has an
invariant of its own over `TInv`, `KInv`: a command is queued exactly while it is in
`parentInputs` or, between turns, in the queue the user sees, and follow-ups are
restored all or none. `RankFact` and what follows from it carry the queue through
the filter of a selection.

### MemorySession

* `TypeCorrect`: `Spec => []TypeOK`
* `HandlesKept`: `Spec => []HandlesAreKept`, from `CallbacksRunOpen`, `OpensOnce` and
  `DisposeIsFinal`, one for each of its parts
* `LockHolds`: `Spec => []LockIsTheUsers`

They hold with or without `AtomicSign`. `HandlesKept` rests on one invariant, `IInv`
(`Agreement`): that a callback's database is open follows only if a waiting call
awaits the open in `opening`, a running one uses the handle in `db`, and these
two are never both set. `CallsAgree` and `SessionsAgree` say that from either
side. They do not mention the lock file, so what a session promises its callers
holds even when another process has broken into the lock. The lemmas follow the
groups of actions over `AcquiringStep` and `CloseNowEffect`. `LockHolds` needs one
strengthening, `LockAgrees`: an open that has created its file and not yet
written its pid counts as a user. The condition `~robbed` cannot be dropped (the
finding).

### Session

All three under `ASSUME OneStarter`:

* `TypeCorrect`: `Spec => []TypeOK`
* `CreditsOnce`: `Spec => []CostOnce`
* `ImplementsRegister`: `Spec => NeverOlder`, the refinement of `StateRegister`

The invariant `IInv` is in the module, where TLC can check it; a turn that rejects may do so at any
point of it. `OneStart`: of all
calls that may start the runner one does, from an envelope that is still the
stored one, and before that there is no turn and nothing to write. `InOrder`:
stored, writing, queued and current versions grow in that order, and a
continuation awaits nothing newer than what the drain will write; this is what
makes an acknowledged envelope durable. `Credit`: every envelope credits what it
has seen end. A step then maps to `Commit`, to `Acknowledge` or to a stutter. With two
starters `OneStart` breaks, and with it `NeverOlder`.

### ObservationalMemory

* `MemoryTypes`: `Spec => []TypeOK`
* `WireStaysValid`: `Spec => []WireIsValid`
* `NothingForgotten`: `Spec => CoverageKept`
* `NeverTwice`: `Spec => []ObservedOnce`
* `EvictedIsRendered`: `Spec => []DropsAreRendered`

None of them assumes anything of the instance: updates overlap, prunes lose the
lock, batches give nothing, stamps tie. `TInv` says that a result follows its call
in the transcript, that ids grow, that what an update has in its locals exists, and
that the horizon is the stamp of a message that is not the last: with the call
before every result that gives a valid wire. `CoverageKept` is a fact about each
writer (`ReplaceKeeps`, `PruneKeeps`). For `NeverTwice`, `Fresh` says, until `rewound`, that
what an update is about to observe lies behind every row, that a message is in
one row, now and in the snapshot of a prune, and that one party observes at a
time. For `EvictedIsRendered`, `DInv` says that what the rows' ranges and an update's
tail have passed over is told by a row, and then by the pack, or excused: the
horizon `/compact` read before its drain is covered as well, since what is rendered
or excused stays so (`RenderedStays`).

### EmbeddingWorker

In `MemorySession_proofs`:

* `WorkerTypeCorrect`: `WorkerSpec => []WorkerTypeOK`
* `LeavesNothing`: `WorkerSpec => []IdleIsDrained`
* `StopIsFinal`: `WorkerSpec => []QuietAfterStop`

The strengthening, `Covered`, says what a loop that is about to leave knows: after
an empty select a kick is pending or all that is owed still cools or has cooled
since (`overlooked`), and from there to its end a kick is pending or nothing else is
owed. `StopInv` ties the call of `stop()` to the loop: it awaits only a loop that
runs, and neither a kick nor the loop's own finally starts another afterwards.

### ConnectedTokens

* `TypeCorrect`: `Spec => []TypeOK`
* `MutualExclusion`: `Spec => []OneHolder`
* `NoConnectionLost`: `Spec => []GrantKept`

For any number of processes, crashes and holders that outlive the limit. `Held`
says whom the lock file belongs to: whoever works has it or is in `without`; a file
that is stale has a dead owner or one that overstays; whoever is about to unlink one
found it so, from another process than its owner's. From that follows what it
takes to rob a holder: one that overstays, or a dead one and two reclaimers. Until
then one client works at a time (`Alone`), and `Carried` says what it knows of the
store: the document it read is the store, and what it will write is a token the
issuer takes, unless its own answer was lost.

### Rpc

* `TypeCorrect`: `Spec => []TypeOK`
* `NothingLost`: `Spec => []EventsReachHost`

`WInv` is the writer's part: what is on the wire and what is queued are the
accepted events in order (`Delivered`), an idle pump has an empty queue
(`IdleIsEmpty`), no checkpoint timer survives a terminal (`NothingLate`). Every
operation of the writer keeps it (`RunPumpFacts`, `EmitKeeps`, `WriterKeeps`, over
`LinesConcat` and `Cut` on the sequences of numbers), and every step of `Rpc` is
such an operation or leaves the writer alone (`StepMovesWriter`); `StepFlushes` says
that the step that ends the process finds the stream flushed.

### Only model-checked

Liveness (TLAPS has no fairness or ENABLED): `WaitsEnd`, `EndsAreDelivered`,
`CommandsAreHeard` but for `CompletionDrains`, `SleepIsWoken`, `WaitersAnswered`,
`ToldIsEmbedded`, `CallsReturn`, `ProcessEnds`. Of `SleepIsWoken` the part about
safety (only a sleeper is woken) is also left to TLC. There is no RECURSIVE operator and no induction over
data in the modules.

## 5. Findings

**Two processes can open one database** (`memory_two_openers`). A call that comes
while an idle close awaits `db.close()` finds the lock with the process's own pid
and takes it over; the close then removes the lock file of the new open, and a
peer opens the directory beside it.

The others below were seen with TLC on the present modules or while modelling.
They have no run; a switch in parentheses is the constant whose other value shows
them, a history variable the cause that a property excepts.

*Tasks and turns*

* `task_stop` awaits the unwinding of its target, which may be its own agent, an
  ancestor of it or a sibling that waits for it; `interruptAll` then never
  returns either (`AnyStopTarget = TRUE` under `FairSpec`).
* A steered notice can be cleared: a control tool in the same batch ends the pass
  before pi reads the notice, and `clearAllQueues` drops the only copy.
* A pass that awaits its reroute, or a selection that awaits the old worker,
  starts a task after `interruptAll` has run; the turn ends as interrupted with
  that task running. An enforcement pass that was interrupted asks again.
* `closeScope` snapshots what a descendant scope owns, waits, and closes it while
  that scope's agent is still live; what the agent starts during the wait runs
  on in a closed scope. For the parent's own subagents the later pass catches
  it (`SubagentLeavesNothing` holds); one level deeper it does not.
* An interrupt between two turns reports after an await and may set
  `terminalEmitted` of a turn that began meanwhile, whose own terminal is then
  swallowed (`turn-runner/turn-runner.ts:1481`).
* `replaceFollowUpQueue` drops an answer that started a turn behind retained
  follow-ups, which was never in the list the user edited
  (`turn-runner/turn-runner.ts:1377`).
* A command that comes in the microtasks between the end of the loop and the
  clearing of `activeTurnPromise` (`turn-runner/turn-runner.ts:933`) joins a turn that
  is over: its call gets that turn's terminal, the command waits for the next turn.

*Session*

* Two calls on a resumed session may each start the runner, and the second takes
  it back to the stored state (`OneStarter = FALSE`; `session/session.ts:227`).
* A waiter that comes while a terminal's write is pending may get the last
  turn's terminal; a replayed sleep may resolve the waiters of a running turn.
* A commit that fails ends `handleTurnEvent` by an exception: no wake, no waiter
  is resolved, nobody handles the rejection (`session/session.ts:530`).
* A `runner.turn()` that rejects ends the turn without a terminal
  (`session/session.ts:488`): waiters of a terminal get none until a later turn, and
  a sleep whose wake was rejected has lost its timer (`rejected`).
* The continuation of a sleep may arm the wake after `dispose()` or `interrupt()`;
  that it does not fire then is what `SleepIsWoken` says. An old deadline may fire
  between a new sleep and its publication.

*Memory*

* An open that throws keeps its lock file until the process exits
  (`memory/session.ts:203`); `LockGivenUp` excepts it.
* `dispose()` may return while an idle close still awaits `db.close()`, since
  `closeNow` has already forgotten the handle (`memory/session.ts:155`).
* A lock file that has been created and not yet signed is taken for a stale
  one (`AtomicSign = FALSE`; `memory/pglite.ts:769`).
* A backup holds a copy of the lock file of the open that made it, so a restore
  brings a lock nobody took (`memory/pglite.ts:653`).
* A prune deletes the rows others appended between its read and its write
  (`Unread`), and the rows of a batch for which the model gave nothing usable
  (`forgone`). The comment at `memory/observational.ts:1438-1441` speaks only of every
  batch being empty, where the rows do stay.
* A pass that starts while `/compact` drains observes a message twice (`rewound`),
  loses a row (`Unread`) or moves the horizon back (`turn-runner/turn-runner.ts:752`).
* A refused read of a session's rows looks like a session without any: all of it
  is observed again. So does a reflection whose range ends before its sources',
  for the messages after it (`rewound`).
* A message trimmed from the observer's tail is never shown to it. Off-wire
  messages are not rendered at all times: a tail kept for lack of a user message
  leaves the wire when one comes (`turn-runner/wire-shaping.ts:197`). A
  last message that shares its millisecond with the one before it, or was queued
  before that one was made, goes with it, and the wire is empty
  (`turn-runner/wire-shaping.ts:188`, `:221`); `:231` says that the tail is not trimmed.
* An attempt that expires between a select and the check after it leaves its row
  behind (`overlooked`; `memory/embedding-worker.ts:300`); a kick during a
  drain skips every pause of it, the pauses that let peers at the lock (`:314`).

*Tokens*

* Three processes and one crash: two find the same stale file, one reclaims it
  and takes the lock, the second unlinks the fresh file and takes it too, and
  both refresh with one token (`robbed`; `file-lock.ts:44`). The same with two
  when a holder without a request timeout works past the limit (`MaxOverstays`).
* An error other than EEXIST reads as a busy lock, and `withLock` polls for ever.
* A store that cannot be read is taken for an empty one and rewritten.
* A pass refused with an old token marks a record another process has just
  refreshed.

*RPC*

* A prompt read before the terminal may start a second turn after it, with a second
  terminal in one process; so may an interrupt between turns followed by a
  prompt, and an uncaught error while a turn runs. `RPC.md:69` and `:85` say one.
* An interrupt read during the awaits of `turn()` finds no turn and is lost.
* A `start` that rejects leaves stdin open: the process waits for the host to close
  it, with no terminal. A turn that throws ends the process without one.
* `dispose()` does not abort the parent agent, which may start tasks after
  `reapAll` (`cli/rpc.ts:295`).

## 6. Plan

Every component of the inventory with concurrent or durable state has a module,
but for routing. What is left, in this order:

1. `Routing` - milestones, interlock, advisor checkpoints: a trigger raised while a
   classification is awaited must survive it (`model-routing/router.ts:277`).
2. `TurnLoop` - recovery inputs, wakes during a turn, advisor reviews, `compact()`.
3. `StateMachine` - planDecision, planWake and recordSettled as operators against a
   reference definition, then used by `TurnLoop`.
4. `Transcript` - the pure functions of the wire shaping over bounded lists.

Proofs planned about the present modules: `IInv` of `Session`
weakened to what two starters keep; the part of `SleepIsWoken` that says that
only a sleeper is woken.

The number of runs is kept at twelve and the properties of the passing ones at
forty, so a run serves one module, parts that belong to one question are one
property, and a new one replaces a shallower one.

## 7. Not modelled, and why

Prompts, formatting, rendering, model catalogues, argument parsing and schema
migrations have no concurrent state and no property beyond their text. Tools
act on files, processes and the network; the kernel's view of them (a process
with a reaper, a prompt that returns) is what is modelled. The pi agent is not
in the repository; its queues are modelled from how the runner uses them and
are marked external. Pure I/O of memory packs and archives is left aside.

The repository has some 68 000 lines of implementation, tests of the evaluation
suite, examples, the terminal interface and static tables among them. The map
covers the part that runs concurrently or survives a restart, about seven per
cent of the lines; most of the rest is sequential and would be transcribed
rather than modelled.
