# Verification of the Dimi agent core

TLA+ models of the concurrent core of Dimi, the terminal coding agent: how one
agent accepts work, schedules it as prompts, turns and steps, cancels it, numbers it
in a journal that survives restarts, reports its background tasks, waits and wakes, and
how the log under the journal is written. The modules are translated from the
TypeScript under `src/packages/agent-core-v2/src` (called `core/` below) and from
the Rust engine under `src/crates`. TLC checks them on small instances; TLAPS
proves every safety property the passing runs check, and the refinement of the
append log, for every number of requests, leases, waiters, restarts, messages, prompts,
records, tasks, waits and crashes.

## 1. The system

Dimi is a monorepo. `apps/` holds user interfaces and a relay, `packages/` the
agent core, the session server (`kap-server`), transcript and remote packages,
and `crates/` the Rust engine with its binding. The program's own logic is in
`core/`: services bound to three nested scopes (app, session, agent), all
running on one JavaScript event loop. There is no preemption there; the concurrency
is between pieces of code separated by `await`. What a piece of code read
before an `await` may be stale after it, and every client - prompt input, steers,
background-task notifications, undo, removal of the agent - can act in
between.

An agent has **two runtimes for turns**. The prompts, steers and cancellations of the
user (`agent/rpc/rpcService.ts`) go to the engine turn runner, which runs each turn
in a session of the Rust engine, on a thread of its own; `DIMI_LEGACY=1` sends
them to the TypeScript loop instead. Skills, plugin commands, cron firings, waits,
shell output, notifications of TypeScript tasks and subagents use the loop in
either mode, and undo takes its lease from it. The two share the wire of the
agent, and with it the turn clock, and nothing else.

### Inventory

| Component | State it keeps | Operations | Interacts with | What makes it correct |
|---|---|---|---|---|
| Agent loop, `agent/loop/loopService.ts`, `stepRequest.ts`, `stepRequestQueue.ts` | the active turn, queued turns, per-turn and standalone request queues, held admissions, assignment promises, `settled()` waiters, lease depth | `enqueue`, `cancel`, `Step.cancel`, receipt `abort`, `tryAcquireQuiescence`, `settled`, `run`, `dispose` | prompts, steers, tasks, waits enqueue; undo leases; lifecycle waits for `settled()`; retry and compaction hook errors | one turn at a time; nothing accepted is lost, run twice or left hanging; no activity under a lease or after disposal; every turn ends |
| Engine turn runner, `agent/loop/rustEngineTurnRunner.ts` | queued turns, the executing one, the active session, open sessions, the Stop-hook latch | `runTurn`, `steer`, `cancel`, `deliverTaskNotification`, `handleEngineEvent`, `dispose` | rpc, the engine through its binding, the wire, hooks, approvals | a message is recorded once and its turn runs, in order; a cancelled turn stops; the clock agrees with the engine's turn ids |
| Rust engine session, `crates/dimi-engine/src/engine.rs`, `crates/dimi-bridge/src/engine.rs` | place in the turn, steer queue, cancel signal, step count, `finished` | `run`, `resume`, `steer`, `cancel`, `close` | the runner's calls from the other thread, events back to it | a cancelled session asks for nothing new; a steer is accepted only while somebody will read it |
| Turn clock, `agent/loop/turnOps.ts` | `nextTurnId`, `cancelledTurnIds` | reducers of `turn.prompt`, `turn.cancel`, `context.append_loop_event` | dispatched by the loop, replayed from the journal | replay gives a turn the id the live process gave it |
| Step retry, `agent/stepRetry/stepRetryService.ts` | attempts of the current step | error handler of the loop, back-off sleep | puts the driver back in the queue | a retry runs the same request once more; cancellation wins over it |
| Prompt queue, `agent/prompt/promptService.ts` | active, pending, launching and steered prompts | submit, steer, abort, start next, settle | loop `enqueue`/`cancel`, compaction, hooks | each prompt is settled once; a pending prompt is started |
| Background tasks, `agent/task/taskService.ts`, `app/task/` | entries, output, notification keys, pending reservations | start, detach, stop, settle, notify, restore, undo reconciliation | loop `enqueue`, task store, context | settled once; one notification for each terminal task, across restarts and undo |
| Durable wait, `agent/wait/waitService.ts` | the one wait, its timer | start, wake, expire, cancel, restore | wire, loop | a wait ends once and wakes the agent |
| Undo, `agent/undo/undoService.ts` | none of its own | cut the context under a lease, reconcile participants | loop lease, context, tasks | nothing runs meanwhile; the lease is always returned |
| Compaction, `agent/fullCompaction/` | the compacting flag and its promise | begin, apply, cancel | prompts, loop errors | a prompt waits for it, and it ends |
| Wire, `wire/wireService.ts` | models, journal position, restore phase | `dispatch`, `restore`, `flush`, `rewrite` | every service's records | models equal the replay of the journal |
| Append log, `persistence/backends/node-fs/appendLogStore.ts` | per-log pending records, the owned flush, sticky failure, cut-over epoch, reference count | `append`, `rewrite`, `flush`, `acquire`, `release`, `read` | wire, file storage | records durable in order, once, when `flush` resolves |
| Tool scheduler, `agent/toolExecutor/toolScheduler.ts` | running and waiting calls of a step | add, start, finish, abort | tools, loop | conflicting calls do not overlap; results keep call order |
| Interaction broker, `session/interaction/` | pending questions and approvals | ask, answer, cancel | approvals, clients | each is answered once |
| Swarm, `session/swarm/agentRunBatch.ts` | queued, running and finished runs | start, retry, suspend, cancel | subagents | concurrency bound kept, every run reported once |
| Lifecycle, `session/agentLifecycle/`, `app/sessionLifecycle/` | live sessions and agents | create, remove, archive, fork | loop `settled()`, append log | an agent is disposed only when quiet |
| Event broadcaster and journal, `packages/kap-server/src/transport/ws/v1/` | sequence number, epoch, subscribers | append, subscribe, replay | clients | a reconnecting client sees every event once, in order |
| Remote bridge and relay, `packages/remote`, `apps/relay` | pending requests, connection | request, respond, reconnect | remote clients | every request is answered or failed |

Left out for good: user interfaces (`apps/dimi`, `apps/dimi-web`,
`apps/mobile`), provider network I/O, permission rules over tool arguments,
SDK types, OAuth, telemetry and the TUI toolkit (rendering, types or I/O, with
little shared state), and of the Rust crates the tools, message shaping and
deduplication, the transcript store port, record types, host execution and TUI.

### What is hard here

* **Interleaving.** A turn is a chain of awaits; between any two of them a
  request can arrive, a step, a queued turn or the active turn be cancelled, a
  lease taken or released, the service disposed.
* **Two threads.** The engine goes on while the runner's JavaScript runs. A native
  call that reads the engine's state and then writes it is two steps, and so are
  the engine's own check of its steer queue and its setting of `finished`.
* **Two runtimes, one clock.** The loop reserves ids in memory before the clock
  moves; the runner takes the clock's next id at once.
* **Everyone waits for a pump.** A queued turn starts only when somebody calls
  `pumpTurns`, which has three early returns.
* **Ids assigned twice.** A turn is numbered in memory when it is queued
  (`reserveTurnId`) and again by the persisted clock when it starts; queued turns
  cancelled in between, in any order, must not make the two numberings differ.
* **Restart.** The journal keeps the clock; `nextReservedTurnId` is lost.
* **Queues that nobody looks at.** A prompt waits for the end of another prompt, of a
  launch or of a compaction, each reported by a different continuation.
* **Two journals.** A background task is in the wire's journal and in a document of its
  own; they reach the disk independently, and an undo takes back one of the two.
* **Hand-off.** A log buffer retires while the next one on the same file is already
  open; batches, rewrites, failures and crashes meet in the middle of a write.
* **Promises.** Every enqueued request carries an assignment promise and a
  step result, every turn a result, every `settled()` call a promise: each must be
  settled on every path, exactly once.

`PROJECT.json` lists the hazards at their lines with the properties that watch
each.

## 2. The modules

| Module | Models | Extends |
|---|---|---|
| `TurnClock` | `turnOps.ts`: the clock and its three reducers, as operators | - |
| `TurnLoop` | `loopService.ts`, `stepRequest.ts`, `stepRequestQueue.ts`, the retry handler, the lease of undo | `TurnClock` |
| `MCTurnLoop` | the kinds of request and their options, for TLC | `TurnLoop` |
| `TurnClockProofs` | what the reducers of the clock return; removal from a sequence | `TurnClock` |
| `TurnLoopProofs` | type correctness | `TurnLoop`, `TurnClockProofs` |
| `EngineTurns` | `rustEngineTurnRunner.ts`, the control of `engine.rs` in the engine and in its binding | `TurnClock` |
| `MCEngineTurns` | the senders of messages, for TLC | `EngineTurns` |
| `EngineTurnsProofs` | the safety properties of `EngineTurns` | `EngineTurns`, `TurnClockProofs` |
| `AgentTurns` | `rpcService.ts`: an agent with both runtimes | instances of `TurnLoop` and `EngineTurns` on one clock |
| `MCAgentTurns` | a cron firing, a skill and a prompt, for TLC | `AgentTurns` |
| `TurnOrderProofs` | turn order, ids, reservations, the clock; requests, leases, settling, disposal, cancellation | `TurnLoopProofs` |
| `LogContract` | what `IAppendLogStore` promises of one log: the abstract specification | - |
| `AppendLog` | `appendLogStore.ts` for one key over `fileStorageService.ts`; instance of `LogContract` as refinement | - |
| `AppendLogProofs` | the safety properties of `AppendLog`, and that it implements `LogContract` | `AppendLog` |
| `PromptQueue` | `promptService.ts`, with the loop's turns and the life of a compaction | - |
| `PromptQueueProofs` | the safety properties of `PromptQueue` | `PromptQueue`, `TurnClockProofs` |
| `TaskNotices` | `agent/task/taskService.ts`, `persist.ts`, `taskOps.ts`, the undo and its checkpoints | - |
| `TaskNoticesProofs` | the safety properties of `TaskNotices` | `TaskNotices` |
| `DurableWait` | `waitService.ts`, `wait.ts` | - |
| `DurableWaitProofs` | the safety properties of `DurableWait` | `DurableWait` |
| `MCAppendLog`, `MCPromptQueue`, `MCTaskNotices`, `MCDurableWait` | instances for TLC | the module they name |

### TurnClock

`Clock` is the persisted model. The code stores `cancelledTurnIds` as a sorted
array without duplicates and only tests membership: a set stands for it.
`LeastFree` is where the `while (pendingCancellations.delete(...))` loop stops,
written without recursion so that it can be proved about. `ApplyCancel` takes a
set of ids because disposal dispatches one `turn.cancel` for each queued turn with
nothing in between.

### TurnLoop

One action is the code from one `await` to the next. `phase` says at which
await the active turn stands:

| `phase` | the code is waiting in |
|---|---|
| `exec` | `executeLoopStep`: hooks, provider, tools, up to the abort check in `finishStep` |
| `after` | the `onDidFinishStep` hooks |
| `recover` | an error handler |
| `loop` | handled error; the next `while` iteration has not begun |
| `return` | `run()` has returned; `runTurn` has not resumed |

| Variable | In the code |
|---|---|
| `reqState`, `assignment`, `stepState`, `turnOutcome` | `StepRequest.state`, the promise in `pendingAssignments`, `Step.state`, `Turn.result`, for each request |
| `standalone`, `held`, `pendingTurns`, `active` | `standaloneStepQueue`, `heldAdmissions`, `pendingTurns`, `activeTurnJob` |
| `current`, `steps`, `result`, `turnAborted` | `runtime.current`, `runtime.steps`, the value of `run()`, the turn's abort signal |
| `quiescence`, `disposing`, `waiters` | `quiescenceDepth`, `disposing`, `settleWaiters.length` |
| `clock`, `nextReserved` | `TurnModel`, `nextReservedTurnId` (0 for undefined) |
| `drain`, `releasing` | the list `releaseQuiescence` iterates over, while it does |
| `durable`, `restored`, `restarts` | the clock in the flushed journal; history of the restart |

Actions carry the names of the methods. `Admit` is `admit` with its four admission
kinds; `Enqueue` is `enqueue` including the synchronous start of a turn when the
service is idle, down to the first await of its first step (`CreateAndQueueTurn`,
`PumpTurns`, `BeginLoopStep`). `EndTurn` is the `finally` block of `runTurn`:
`releaseActiveTurn`, which cancels the steps left open, and the pump that starts the
next turn in the same action. `Restart` throws away everything but the flushed
clock; `Flush` makes the current clock durable, so a restart may lose any suffix
of the journal.

Abstractions, and why they are sound for what is checked:

* A request is a model value enqueued at most once, so its step, its assignment
  promise and the turn it seeds are functions of the request. No caller enqueues
  a request object twice; the retry of a failed step re-queues the driver inside
  the turn and is modelled (`RetryStep`).
* The contents of a step (provider stream, tool calls, context messages, events)
  are reduced to its outcomes: it finishes, throws an abort error, or throws
  another error. Hooks may end the turn (`CompleteLoopStep`).
* An error always meets a handler (`recover`); giving up there has the effect of
  having no handler. The number of retries is not bounded by the model, which
  allows every number the code does.
* A `StepRequestQueue` is the set `queued` in the order of `steps`. `unshift` by a
  retry restores the place the driver had.
* An aborted standalone request is removed at once; the code leaves it in
  place and skips it at every read.
* The replay of held admissions is synchronous. It is one action per
  admission, and `releasing` forbids every other action but a restart meanwhile.
* `turn.ready` and the events emitted for clients are not modelled.

### EngineTurns

Two threads. On the JavaScript side one action is the code between two awaits, and
`runPhase` says where `startQueuedTurn` and `runTurnNow` stand:

| `runPhase` | the code is waiting in |
|---|---|
| `config` | `runTurnNow`, for the provider configuration and the next agent id: there is no session yet |
| `run` | `session.run()` or `session.resume()` |
| `approval` | the user's answer to an approval request |
| `over` | `runTurnNow` has returned or thrown; the `finally` of `startQueuedTurn` has not run |

The engine's thread has the places another thread can tell apart (`engine`):

| `engine` | in `engine.rs` |
|---|---|
| `boundary` | head of `run_loop`: cancellation, step limit, drain of the steers |
| `compacting` | in the compaction between the drain and the step, which does not look at the cancellation |
| `step`, `batch` | in `execute_step`, in `execute_batch` |
| `recovering` | in the compaction that answers a context overflow |
| `settling` | between the last look at the steer queue and `mark_finished` |
| `paused` | returned with a pending approval |
| `resuming`, `resumed` | at the head of `resume`, in the rest of its batch |
| `stopping` | between the step event of a resumed batch that stops the turn and `mark_finished` |
| `finished` | `mark_finished` has run |

`calling` is the native `steer` between its load of `finished` and its push to the
queue. While it is set the JavaScript thread does nothing else (`Idle`), and the engine
goes on. `events` are the engine events on their way to `handleEngineEvent`; they may be
handled after the turn they belong to is over.

| Variable | In the code |
|---|---|
| `queued`, `executing`, `activeSession`, `open`, `disposed` | the fields of the runner; `open` are the members of `sessions`, by turn id |
| `context` | the user messages appended to the context, in order |
| `steerQueue`, `cancelFlag`, `engineSteps`, `engineOutcome` | `steer_queue`, `CancelSignal`, `TurnSession.steps`, `TurnOutcome.status` of the current session |
| `stopUsed`, `hooks` | `stopHookContinuationUsed`, the Stop hooks in flight |
| `fate` | history: what became of each message |

Abstractions:

* A message (`Inputs`) is a model value used once; a turn is named by the message that
  launched it. A steer whose message has no text goes to `runTurn` and is a prompt here.
* A step of the engine has the outcomes of `execute_step`: no tool calls, tool calls,
  an error that is retried, answered by a compaction or fatal, cancellation. Which of these an
  error meets is left open; a retry counts as a step, as in the code. The back-off of a retry
  is part of `boundary`: a cancellation ends both in the same way.
* When a compaction is needed is left open; its summary and the retries of its request are left
  out, and so is the `context.compacted` event: its handler rewrites the conversation, and `context`
  here is the order in which messages were appended to it.
* All events of a session pass through one channel, in order. Those that change
  no modelled state (deltas, usage, tool progress) are left out.
* Once `run()` or `resume()` has resolved, nobody looks at the state of its session again, and it is
  forgotten (`EngineReturns`); that the session is still open is not.
* An entry of `queued` that was cancelled stays in the queue until the runner is
  disposed, as in the code.
* The mirror of engine tasks and of streamed content into the task service and
  the context is not modelled.

### AgentTurns

`TurnLoop` and `EngineTurns` as instances that share `clock`. A step of the agent is a
step of one of them that leaves the other's variables alone; the synchronous
pieces of either exclude those of the other, the engine's thread goes on.

### LogContract and AppendLog

`LogContract` has three variables: the content the log has for sure, the records each
buffer generation has accepted and storage has not acknowledged, and whether a rewrite
has been called and not carried out. Records move from the front of a tail to the end
of the log, the older generation first, never between the call of a rewrite and its
replacement; a crash, or a generation that retires after a failure, loses a tail but
for a prefix that had reached the file.

`AppendLog` is the store: `gen` are the `LogState` objects of the key, `op` the promises
made by `ownFlush`, and `pc` says at which await an operation stands (the module's head
lists them). A storage call is two steps, the effect on the file (`AppendLands`,
`WriteLands`) and the return or the error, so that an error may come after the effect.
`file` and `fringe` together are the lines of the file: `fringe` are those whose records are
still pending. The refinement maps `stored` to `file`, `tails` to the pending records and
`cutover` to a rewrite at `prior` or `write`.

Abstractions: a record is one line; `read` is modelled by the flush it makes (parsing
is `NeverCorrupted`); the promise of a settled operation nobody awaits is used again; one
scheduled microtask per generation, as the flag allows no second; logs of other keys share
nothing with this one. The storage writes in order and does not lose what it wrote; the
crash of the machine, as opposed to the process, is not modelled.

### PromptQueue

`launch` is the `startNext` in progress: at the submit hook, held by a lease, or with
its turn assigned and not resumed. `steering` are the `steer` calls between their enqueue
and their resumption, with the turn they were assigned `into`; one that was assigned to the turn of the
active prompt resumes before that prompt settles, as its continuation is queued first. `results` are turn results that have resolved and are not yet
delivered to `settle`: a turn may end, and the next one start, before. The loop is reduced
to its running turn, its queued turns and a lease; turns that are not prompts are
`System`. A compaction is `compacting`; one that was cancelled no longer counts as
compacting, but its worker returns later and fires the event too (`unwinding`).

Contents of messages, what a hook decides, and events are left out. `exhausted` stands
for the stack overflow described under the findings; what the process does after it
depends on the frame it happens in and is not modelled, so every step ends there.
`orphaned` is history: prompts whose steer was refused, or whose active prompt settled
before the steer resumed.

A steer under a lease is refused at once here; the loop holds it until the release and refuses it
then, because a launch that is held is younger than the steer. Only a request of another sender that
was held before it could give it a turn, which makes it one more steer that comes too late.

### TaskNotices

| Variable | In the code |
|---|---|
| `entry`, `stopping` | `tasks`, and the `terminateWithGrace` calls under way |
| `writes`, `doc` | `persistWriteQueue` and the document of a task |
| `ghosts`, `lost` | `ghosts`, the `lostTasks` of `reconcile` |
| `wire`, `flushed` | `TaskModel`, the context, the delivery model with its checkpoints; the same as the journal on disk has it |
| `building`, `scheduled`, `delivered`, `pending` | the key sets of the service and `pendingNotificationRequests` |
| `request` | where a `notifyAgentTask` call and its step request stand |
| `turn`, `undo`, `boot`, `pass` | the loop's active turn, the undo, the restore of the agent, the pass of `restoreAgentTaskNotifications` |

A task has two outcomes of its own (completed, and killed for everything a stop can
give) and `lost`. The context is a sequence of anchors (user messages, where the
delivery model takes a checkpoint) and notices. A notice that is materialized in a step, appended
by the pass of an undo, or appended by the pass of a restart goes through the same
`Deliver`. The notices of one batch may enter in any order, as their places in the queue are not
kept. Output and its snapshot, `wait()`, `sendInput`, limits and the contents
of a notice are left out. A write of a document may fail, and settling swallows the
error (`Settle` writes the document of every recorded task; the code does so once its output
persistence has started, that is for every recorded task and for a foreground one with much output,
which nobody reports; the second write of a tool task has the same content and is left out); the write of `markLoadedTasksLost` fails the restore, which is a crash here.
`early` and `missed` are history and name the two cases the properties except (see the
notes after the findings).

### DurableWait

`wire` is the journaled `WaitModel` with how each wait ended and which timeout messages
entered the context; `flushed` is what the disk would restore. A wait is a model value
started once. `expire` is two steps, because `end()` awaits a flush before the message is
enqueued (`TimerFires` or `Restore`, then `Post`). A message in the loop is taken by a step
(`Take`, which is also a wake, as the code takes every such message for one) or dropped with
its turn (`TurnEnds`). Time is reduced to whether a deadline is over. `dropped` is history:
the timeouts that a crash, a rejected flush or the end of a turn has cut off.

`wire.flush` flushes every log of the store and rejects when one of them has failed. `failing`
is that failure: of the journal's own log, where it is sticky and nothing more is written, or of
another agent's, which a rewrite or its retirement clears. A rejected flush makes `expire` throw
behind the end of the wait; a timer's call is only logged (`Expire`, `LogFails`), that of a
restore fails the restore and the agent is dropped (`RestoreRejected`, where the end of the wait still
reaches the disk, and `RestoreUndone`, where it does not).

## 3. Runs

`MCTurnLoop` gives the four kinds of request the options their senders use:
prompts and retries (`newTurn`, turn-scoped, alone in their step), task notifications
and wait timeouts (`activeOrNewTurn`, mergeable, agent-scoped), steers
(`activeTurnOnly`, mergeable, agent-scoped) and continuations (`activeOrNextTurn`,
turn-scoped).

| Run | Instance | Shows |
|---|---|---|
| `loop_turns` | 2 prompts, steer, continuation; 2 steps a turn, 1 lease, 1 waiter | nothing accepted is lost, run twice or stranded; no step or promise left open; leases and disposal respected |
| `loop_live` | 2 prompts, notification; 1 lease, 1 waiter, 1 restart; fairness | turns carry the journal's ids, across a restart too; every turn is settled, every `settled()` resolves |
| `engine_turns` | prompt, steer, notification, Stop continuation; 2 steps a turn, review from step 2; fairness | each message recorded once, none stranded, order kept, the clock counts the turns, a cancelled engine asks for nothing new, disposal records nothing and leaves at most one session open, every turn gets over |
| `append_log` | 2 records, 2 generations, 2 operations, 1 rewrite a generation; whole-line failures, crashes; fairness | the store implements `LogContract`; one operation at the storage; no silent loss; retired buffers hand over |
| `prompt_queue` | 3 prompts, 1 system turn, 1 unwinding compaction; fairness | one prompt turn at a time, no queue without somebody to start it, a steer finds the prompt whose turn took it, every prompt settled |
| `task_notices` | 1 task, 2 anchors, 2 undos, 2 crashes; fairness | one outcome, no notice twice, no suppressed notice, no key blocked, notices arrive |
| `durable_wait` | 2 waits, 2 crashes, own and other logs fail; fairness | the timer is the wait's, a timeout is told once, waits end, timeouts are told |
| `engine_latesteer`, `agent_undo`, `append_corrupt`, `prompt_compaction`, `task_completion` | small | the findings below (expected violations) |

**Bounds.** `Requests` is finite and each member is used once per process life;
three or four requests are enough for an active turn, turns queued behind it and a request
that joins, waits or is held, which are all the places a request can be. Two
steps per turn reach the step limit (`max_steps`) after a retry and after a
merge. `MaxLeases`, `MaxWaiters` and `MaxRestarts` bound
counters that the code does not bound; the proofs are for every value of them.
In `engine_turns` two steps per turn are one to be cancelled in and a later one for the cancel to
stop, with a compaction before either or behind the first; they reach the step limit, and a review from step 2
on lets a turn pass the boundary again. The notification or a refused steer waits behind
the prompt, and all of them race its end.
In `append_log` two generations are a buffer that retires and the one that replaces it;
two operations in use are a flush and the rewrite that takes it over, or the drains of
two generations; two pending records make a batch that can land in part; `MaxLines` stops
appends once the file is long enough to tell a lost, a repeated and a reordered line
apart. Process life and generations start again after a crash, so the number of crashes
needs no bound. Torn lines are a case of their own (`Tears`, only `append_corrupt`),
because with them the contract fails in the way the finding says.
In `prompt_queue` three prompts are one that is active, one that is launching or steered
and one that waits. In `task_notices` two anchors and two undos let a notice be taken back,
reported again by a pass and taken back again; two crashes let a restart find what a
restart wrote. One task suffices, as the keys of tasks are
independent but for the batch of a step; two tasks, one crash and no undo were
checked as well (1.7 million states, not kept as a run). In `durable_wait` two waits are one that
is replaced or reported late and one that is active; two crashes let a restore meet what a restore has
left behind. Three waits, one of each, were checked as well (0.9 million states, not kept as a run).
Symmetry is not used: liveness is checked in most runs, and prompts differ by position.
Deadlock is checked in the runs of `AppendLog`, whose clients may always act; elsewhere it
is off because the client may have nothing more to ask.

**Fairness** (`FairSpec` of each module). Weak fairness of continuations: the event loop
runs what is ready, and providers, tools, hooks, storage calls and timers answer or
fail. In `loop_live` the holder of a lease returns it, because the one holder, undo,
does so in a `finally` block; the step limit, which counts retries too, keeps a turn from
retrying for ever (the instance has it set, as a configuration may not). In `engine_turns`
nothing makes a user answer an approval request, so `TurnsGetOver` excepts a turn
that waits for one, and nothing makes a hook, a client or the channel of events
act. In `prompt_queue` turns and compactions end, which the loop and its step limit
give. In `task_notices` a turn takes its next step while notices wait, but nothing
makes it do so before it ends. In `durable_wait` time passes, a log that works is
flushed and a restore ends; nothing makes a log fail or recover. No fairness on clients, crashes
or failures anywhere.

**Properties.**

| Property | States |
|---|---|
| `TypeOK` | types: in no run, as it is proved for the loop, the engine runner, `AppendLog`, `TaskNotices` and `DurableWait`, and part of the proved invariant of `PromptQueue` |
| `NoStrandedTurn` | a queued turn has a running turn ahead of it, which will pump |
| `QuiescentWhileLeased` | under a lease nothing runs and nothing waits outside `heldAdmissions` |
| `ReservationsCovered` | every reservation the clock has not passed is a queued turn's or cancelled, so the clock can reach each queued turn |
| `StartsOnClock` | a turn starts exactly when the clock stands at its id |
| `SettleIsQuiet` | `settled()` resolves only when the service is idle |
| `DisposedStaysDown` | disposal leaves nothing queued or promised, and nothing starts after it |
| `NoStepAfterCancel` | a cancelled turn begins no step |
| `RequestsConserved` | an accepted, unsettled request waits in exactly one queue; its promise is open exactly while no turn owns it |
| `OpenStepsHaveTurns` | when a turn ends, every step of it is settled |
| `NoReuseOfStartedIds` | no turn gets the id of one the restored journal knows as started |
| `TurnsSettle`, `SettledResolves` | liveness |
| `RecordedOnce` | a message enters the context exactly once, whether the engine took the steer or a turn was launched instead |
| `NoStrandedInput` | a live queued turn has a turn ahead of it whose `finally` will start it |
| `TurnsInOrder` | turns run in the order their messages were recorded |
| `ClockCountsTurns` | the clock is the number of turns launched: cancelling queued turns and late step events never move it |
| `CancelledSessionStops` | an engine told to cancel asks for nothing new, neither the model for a step or a summary nor the user for an approval; only the step of a compaction under way still begins |
| `DisposedRecordsNothing` | after disposal, once no session is open, nothing is recorded |
| `OneLeftOpen` | disposal leaves one session open at most, that of the turn it met before its session |
| `TurnsGetOver` | liveness of engine turns |
| `ContractSpec` | refinement: every step of the store is a step of `LogContract` or none |
| `OneAtStorage` | of all drains and rewrites of all generations, at most one is at the storage |
| `NothingWrittenTwice` | an append starts only when no record of its batch is in the file |
| `NothingDroppedQuietly` | a buffer gives up records only after a failure it reported |
| `FlushMeansDurable` | a flush that fulfils leaves nothing queued, unless a rewrite has taken it over |
| `HandsOver` | liveness: a retired buffer settles and lets the next one work |
| `OnePromptTurn` | the loop never has the turns of two prompts |
| `NoIdleQueue` | a waiting prompt has a launch, an active prompt or a compaction that will start it |
| `NoPromptForgotten` | an unsettled prompt is in one of the places from which it gets settled |
| `SteerFindsItsPrompt` | a steer taken by the turn of a prompt resumes while that prompt is active |
| `PromptsGetOver` | liveness: every prompt is settled |
| `OneOutcome` | journal, document and notices agree on how a task ended |
| `NeverTwice` | a notice enters a conversation that has not got it, by one of its three ways |
| `Silenced` | a suppressed task is not reported, after a restart or an undo either |
| `NoStuckNotice` | a scheduled key has somebody who delivers the notice or takes the key back |
| `NoticesArrive` | liveness: every finished background task is reported, unless its turn was cut off |
| `TimerFollowsWait` | the armed timer is that of the journaled wait |
| `TimeoutToldOnce` | a timeout is reported once at most, and only when the disk has the wait as timed out |
| `WaitsEnd`, `TimeoutsTold` | liveness: no wait lasts for ever, a timeout is told unless a crash, a failed log or the end of a turn cuts it off |
| `LateSteerRefused`, `UndoRefusedWhileBusy`, `NeverCorrupted`, `DefersDuringCompaction`, `CompletionArrives` | what comments, documents and tests say and the code does not keep: the findings |

Each property of a passing run has a mutant in `PROJECT.json`: a plausible slip in the code (a guard dropped, an
id taken from the wrong source, a waiter forgotten) that TLC shows to violate it.

### Findings

Each is a sentence in the repository that the code does not keep, shown by a run.

1. `engine_latesteer`: `engine.rs` says a steer that races the end of the turn "must be
   refused". The native `steer` loads `finished` and pushes in two steps, the engine
   looks at its queue and sets `finished` in two others, and nothing joins the pairs: a
   steer can be accepted into a queue nobody reads. The message is in the context
   (`RecordedOnce`) but gets no answer until the next turn.
2. `agent_undo`: "Cannot undo while a turn is active or queued". The lease looks at the
   loop only, so undo goes ahead under a turn of the engine.
3. `append_corrupt`: "a torn final line is dropped; corruption anywhere else throws". A
   torn line is dropped by the reader and left in the file; the next append continues
   it, and the log then has a line in its middle that does not parse. `restore` rewrites a log
   only when its metadata or version asks for it.
4. `prompt_compaction`: "defers a prompt submitted mid-compaction". `startIfIdle` does; but
   when a prompt settles, or the worker of a cancelled compaction returns, while another
   compaction runs and no turn does, `startNext` puts its item back and its `finally` calls
   `startNext` again, without end.
5. `task_completion`: "completion arrives via automatic notification". A notice queued in
   the active turn is aborted when that turn ends (`releaseActiveTurn`), although
   `stepRequestQueue.ts` says agent-scoped requests "carry into the next turn"; the key
   is freed and nobody sends the notice again until an undo or a restart.

Five more sentences are not kept by the models either. They have no run of their own: the passing runs
state what does hold there.

* `engine.rs` says of the cancellation: "checked at every step boundary; the in-flight LLM/tool awaits race
  it too". The compaction before a step is such an await and does not race it, and nobody looks
  between the compaction and the step (`Compacted`): a turn cancelled during the summary still begins that
  step. No further one follows (`CancelledSessionStops`).
* `rustEngineTurnRunner.ts` says of the approval wait: "`cancel()` aborts it so the turn resolves as cancelled
  without waiting for the user". A cancel between the engine's pause and the runner's wait
  (`AskApproval` with `cancelFlag` set) finds nothing to abort; the approval is asked for, and the turn depends
  on the user or on a second cancel. `TurnsGetOver` excepts it.
* On `dispose` the same file says "every Rust session is closed". A turn in `config` at that moment opens its
  session afterwards and nobody closes it. It is the only one (`OneLeftOpen`); `DisposedRecordsNothing`
  asks for `open = {}` because of it.
* `coreEventMap.ts` (`kap-server`) says of steered prompts: "the engine marks them 'steered' and later settles
  them with the active prompt's outcome". A steer that is assigned to the turn that follows the active
  prompt's, before `settle` has run, resumes when no prompt is active any more: its prompts have been marked, are filed
  nowhere (`orphaned`), and their completion never resolves. The window is a few microtasks wide. A steer assigned to the
  prompt's own turn is safe (`SteerFindsItsPrompt`).
* `docs/async-tools-and-wait.md` says: "If the deadline wins, the runtime sends an explicit timeout
  notification". The end of the wait comes first, the message after a flush that may be rejected, or after
  which the process may end: the wait is then over and nothing is sent (`dropped`, excepted by `TimeoutsTold`).

Seen in the models, with no sentence in the repository to hold them against:

* After a restart `reserveTurnId` does not look at the inherited cancelled reservations and
  hands out a cancelled id; that turn starts on a clock that has skipped it. `StartsOnClock`
  and `QueuedAhead` carry the hypothesis that the process inherited none.
* A cancel of an engine turn in `config`, before its session exists, is lost.
* A turn queued in the loop and one launched in the engine can get the same id: the
  loop's reservation has not moved the clock.
* A step cancelled during the back-off of a retry fails its turn (`GiveUpStep`).
* A turn cancelled while it recovers from a context overflow may end as failed (`Recovered`).
* The second tool-free step of a steered or reviewed turn runs no Stop hook, because
  the latch is still set; a chain of continuations is not bounded across turns.
* A flush that a rewrite overtakes resolves before the records it was asked for are
  durable; the rewrite then drains them (`FlushMeansDurable` has the exception).
* A steer that is refused throws, and its prompts, still `pending`, are in no queue any more
  (`orphaned`): they are never settled.
* The pass of an undo reports a task whose `settleTask` still waits for its document; a
  crash then makes the restart report it again, as lost (`early`).
* A reconcile that runs between the return of `buildAgentTaskNotificationContext` and the
  resumption of `notifyAgentTask` drops the scheduled key, and the notice can enter twice
  (`missed`).
* The end of the turn that a timeout message waits in drops the message (`dropped`), as in
  `task_completion`. A timeout message taken late ends the wait that is
  active by then, which is another one than the message speaks of.
* A failing document write in `markLoadedTasksLost` fails the whole restore; a failing flush
  in an undo skips the reconciliation. Neither is recovered by the code.

## 4. Proofs

Assumptions: `LoopAssumption` (the options are functions on `Requests`, the bounds are
naturals, `None` is not a request) and `NoneAssumption` (`None` is not a job) for the
loop, `EngineAssumption` and `NoTurnAssumption` (the same for messages, turns and ids) for
the engine runner; `WaitAssumption` (`None` is not a wait or a reason, a log that fails is the own or another one) for the wait service;
`PromptAssumption` (`None` and `System` are values of their own) for the prompt queue;
`LogAssumption` (snapshots are sequences of records, a garbled line is no record, the bounds
are naturals) for the append log; `TaskAssumption` (finitely many tasks, natural bounds) and
`ValueAssumption` (an anchor is no notice, `None` is no object) for the tasks. TLC evaluates
each of them in the runs. Nothing bounds the number of requests, messages, turns, leases,
waiters, restarts, waits, crashes, failures, prompts, compactions, records, generations, operations,
owners, tasks, anchors or undos.

| Theorem | Property | For every instance |
|---|---|---|
| `TypeCorrect` | `TypeOK` | types are kept |
| `NeverStranded` | `NoStrandedTurn` | no turn is stranded |
| `IdsStayOrdered` | `TurnIdsOrdered` | ids are ordered and unique |
| `ReservationsStayCovered` | `ReservationsCovered` | the clock reaches every queued turn |
| `StartedIdsNotReused` | `NoReuseOfStartedIds` | started ids are not reused after a restart |
| `QueuedStayAhead` | `QueuedAhead` | the clock neither passes nor skips a queued turn |
| `TurnsStartOnClock` | `StartsOnClock` | live numbering equals the journal's |
| `EngineTypeCorrect` | `TypeOK` of `EngineTurns` | types are kept |
| `MessagesRecordedOnce` | `RecordedOnce` | a message is in the context exactly once |
| `NoInputStranded` | `NoStrandedInput` | no engine turn is stranded |
| `TurnsStayInOrder` | `TurnsInOrder` | turns run in order |
| `ClockIsTurnCount` | `ClockCountsTurns` | the clock is the number of turns launched |
| `CancelledTurnsNeverRun` | `CancelledNeverRuns` | a cancelled queued turn stays cancelled |
| `DisposedStaysSilent` | `DisposedRecordsNothing` | nothing is recorded after disposal, with every session closed |
| `OneSessionLeft` | `OneLeftOpen` | disposal leaves at most one session open |
| `CancelledSessionsStop` | `CancelledSessionStops` | nothing new is asked for after the cancel signal, but the step of a compaction |
| `WaitTypeCorrect` | `TypeOK` of `DurableWait` | types are kept |
| `TimerIsTheWaits` | `TimerFollowsWait` | the timer is the journaled wait's |
| `TimeoutReportedOnce` | `TimeoutToldOnce` | a timeout is told once at most, whatever crashes or fails |
| `OneTurnForPrompts` | `OnePromptTurn` | one prompt has a turn at a time |
| `QueueNeverIdle` | `NoIdleQueue` | something will look at a queue that waits |
| `PromptsAccountedFor` | `NoPromptForgotten` | every unsettled prompt has a place |
| `SteersFindTheirPrompt` | `SteerFindsItsPrompt` | a steer resumes while the prompt whose turn took it is active |
| `LeaseIsQuiet` | `QuiescentWhileLeased` | under a lease nothing runs, and nothing waits but the held admissions |
| `RequestsStayConserved` | `RequestsConserved` | an accepted request is at one place, its promise open exactly while no turn owns it |
| `StepsSettleWithTurns` | `OpenStepsHaveTurns` | no turn leaves an open step behind |
| `SettlesWhenQuiet` | `SettleIsQuiet` | `settled()` resolves only when idle |
| `StaysDisposed` | `DisposedStaysDown` | nothing is left by disposal or starts after it |
| `CancelStopsSteps` | `NoStepAfterCancel` | a cancelled turn begins no step |
| `LogTypes` | `TypeOK` of `AppendLog` | types are kept |
| `StorageIsExclusive` | `OneAtStorage` | one operation at the storage at a time |
| `NoDuplicateAppend` | `NothingWrittenTwice` | no record of a batch that starts is in the file |
| `RetiresDurable` | `NothingDroppedQuietly` | records are given up only after a reported failure |
| `FlushIsDurable` | `FlushMeansDurable` | a fulfilled flush leaves nothing queued |
| `KeepsContract` | `ContractSpec` | refinement of `LogContract`, where writes do not tear (`~Tears`) |
| `TaskTypes` | `TypeOK` of `TaskNotices` | types are kept |
| `OutcomesAgree` | `OneOutcome` | journal, document and notices agree on the outcome |
| `NoNoticeStuck` | `NoStuckNotice` | a scheduled key has a holder |
| `NoticesNeverRepeat` | `NeverTwice` | a notice enters once over its three ways |
| `SuppressedStaySilent` | `Silenced` | a suppressed task is never reported |

**Types** (`TurnLoopProofs`). `TypeOK` is not inductive: a step of the run uses
`active` as a job and `current` as one of its requests, and `LeastFree` has a value
only if finitely many ids are cancelled. The invariant is
`TypeInv = TypeOK /\ ControlOK /\ ClockOK(clock) /\ ClockOK(durable)`, where
`ControlOK` ties `phase` to `active`, `current` and the replay, and `ClockOK` says
the cancelled set is finite. There is one lemma per synchronous piece of code
(`Return`, `BeginLoopStep`, `PumpTurns`, `CreateAndQueueTurn`, `Admit`) and one
step per action.

**Order** (`TurnOrderProofs`). `OrderInv` adds to `TypeInv`: `NoStrandedTurn`; that a lease
excludes active and queued turns; and `IdInv`, the conjunction of the id properties,
which support each other - a reservation is above every live id because the ids are
ordered, the clock reaches the head of the queue because the reservations below it
are cancelled, and it stops there because queued ids are not cancelled. Every
action is shown to have one of seven effects on queue, active turn and clock -
leave them (or note a loop event), queue a turn, start a turn, end the active turn,
succeed it by the next, drop a queued one, empty the queue, restart - and `IdInv` is
preserved effect by effect.

**Requests** (`TurnOrderProofs`, second half). `RequestInv` adds to `OrderInv` where the requests
are. `WaitsOK`: held admissions, standalone queue and the list being replayed are disjoint and
without repetition, and hold exactly the requests whose assignment promise is open.
`TurnsOK`: the steps of two turns are disjoint, a pending request that is assigned is in the queue
of its turn with its step queued, and an open step is in some turn. `NothingWaits`: no standalone request
waits under a lease, and none anywhere after disposal. With the part of
`OrderInv` about leases the first half of this is `QuiescentWhileLeased`. `WaitsOK` and `TurnsOK` are stated of queues passed as
values, because one action (a cancel, an end of a turn with the pump behind it) changes
them several times. The action properties follow from the same invariant and the effect of
each action.

**The append log** (`AppendLogProofs`). One call of the store opens a generation, starts a flush on
it and retires it in one step, so the invariant `ObjectInv` is stated of the objects and
carried through the parts of a call. `GensOK`: generations come one after the other, only the
last is in use, and one that no longer waits for its predecessor has only settled
ones before it. `EpochsOK` and `ChainOK`: the operations in flight of a generation have
different epochs, the flush promise has the current one, and only the one with the least epoch is past
its predecessor; with the first part this gives `OneAtStorage` across generations. `SoundOK` and
`RetiredOK`: a drain that may still append has seen no failure, and a retired generation waits
for the flush of its retirement or has nothing that will reach the storage. `FringeOK`:
the lines in the file that nobody has acknowledged belong to the generation at work,
which a failure or a rewrite keeps from writing them again - this is `NothingWrittenTwice`. The
refinement adds `PrefixOK`, that these lines are the first pending records of that generation.
It is the part a torn line breaks, hence the hypothesis `~Tears`; the finding `append_corrupt`
is what happens without it.

**Tasks and notices** (`TaskNoticesProofs`). None of the four properties is inductive. `NoticeInv` has
three layers. `TaskOK` is about one task: the document follows the entry through the queue of its
writes (`Follows`: a suppression is never taken back, the outcome is the last write), the
journal knows an outcome only once `settleTask` is done (`JournalOK`), an outcome on disk is
final, and a ghost is as ended, and as suppressed, as its two sources (`GhostOK`). `RequestOK`,
`ScheduledOK` and `PassOK` say who holds a scheduled key - the request that is built, held, queued or
about to be cleared, or the pass that is about to append - and that a held key is in neither the conversation
nor the delivered set. `LedgerOK` and `Backed` are about the journal: its checkpoints grow
and never run ahead of the set in memory, so the cut of an undo only takes keys back; and
what it has as reported, the journal or the document has as the outcome. The steps of a task leave the
second layer alone (`TaskMoves`), those of a notice the first (`NoticeMoves`), so each action is
shown to preserve one layer and its own effect. For the action properties, `EntersFromHolder` shows
that a notice enters the conversation only from a waiting request or from the pass: every other
step leaves the number of its occurrences as it is or lowers it.

**The engine runner** (`EngineTurnsProofs`). `EngineInv` has two halves. `WorkInv` is about
what the runner holds: the clock has passed every id handed out and has no pending
cancellation (so cancelling a queued turn and handling a late event leave it alone);
the queue is sorted by id, and a live entry has a turn executing before it; the
history agrees with the places (the executing message is `running`, an entry is `queued`
or `cancelled` by its flag, no message is in two entries, the message of a steer in
progress is still `new`). The last part is what makes `RecordedOnce` inductive: a steer
records only a `new` message, and a new message is not in the context. The other half,
`ControlOK`, `SessionTypes` and `EventsOK`, ties `runPhase`, `activeSession` and the place of
the engine together, and keeps every event on its way behind the clock. The work
changes in six ways only (not at all, a steer in progress, a steer accepted, `runTurn`, the
end of a turn, a queued cancellation), one lemma each; the engine's steps are all of
the first kind. `ClockIsTurnCount` adds that a step launches one turn and moves the
clock by one, or does neither. `CancelledSessionsStop` needs no invariant: every place from which the
engine asks for something looks at the signal in the same step, and the compaction is the one that does not. `OneSessionLeft` adds
that a disposed runner with a turn in `config` has no session open: disposal closed them all, and no turn enters `config` after it.

**The wait** (`DurableWaitProofs`). `WaitInv` adds to the properties that no timer is armed
and no `expire` is under way while the agent is down, `JournalOK` (in the journal, and on disk, the active wait has not
ended; how a wait ended on disk is how it ended in the journal) and `ExpiringOK` (an `expire`
under way is for a wait that ended by timeout and was never posted). The last makes
`TimeoutToldOnce` inductive: a crash and a rejected restore forget every `expire`, and a wait that was
posted is durably ended, so no restore can arm it again.

**The prompt queue** (`PromptQueueProofs`). `OnePromptTurn` speaks of the loop, the code guards
the active slot, and a turn does not coincide with it: its result is delivered late, and the slot is
filled late. `PromptInv` bridges the two. `LaunchOK`: the flag `launching` is set exactly while
a launch is under way, and then no prompt is active. `PlacesOK`: a prompt has at most one of a
running turn, a queued turn and an undelivered result, and only while it is active or its launch
has its turn assigned. Every call of `startNext` is one lemma (`StartNextLooks`): it leaves the
queue empty, or something to wait for, and loses no prompt. `SteersFindTheirPrompt` uses both: with a prompt
active, the running turn of a prompt is its turn, and the active prompt changes only in `Settle`, behind the steers of its turn, and in
a launch, when none is active. Filtering the queue needs a lemma of
its own (`WithoutProps`); the operator counts positions because `SelectSeq` is
defined by recursion, which is out of the prover's reach.

Only model-checked: the liveness properties `TurnsSettle`, `SettledResolves`, `TurnsGetOver`,
`HandsOver`, `PromptsGetOver`, `NoticesArrive`, `WaitsEnd` and `TimeoutsTold`. They rest on fairness,
which is out of the prover's reach. The runs that show the findings have no theorem.

## 5. Not modelled

The components with status `not_modelled` in `PROJECT.json`, for the reasons given there.
The larger ones: user interfaces and their client stores (rendering over the event
stream), provider requests and message shaping (network I/O, contents), permission rules
(pure functions of tool arguments), the generated provider catalogue, session
lifecycle, cron, the event journal of the server, the transcript, and the remote bridge.
The models stop at the agent: what a client sees of it is not covered.

## 6. Plan

1. Proofs: the state part of the liveness properties - for each, that the state it must leave
   always has one of the fair actions to leave it by - and `AgentTurns`, that either runtime
   alone keeps its invariant when the other moves the clock.
2. **ToolScheduler**, **Interaction**, **AgentRunBatch**: admission under
   conflicts, answer-once, bounded concurrency with retries.
3. **EventJournal** (`kap-server`): sequence numbers and replay on reconnection, with
   an abstract "each subscriber sees each event once, in order".
4. The rest of the engine runner: the mirror of engine tasks and of streamed content
   into the task service and the context.
