----------------------------- MODULE EngineTurns -----------------------------
(***************************************************************************)
(* The default runtime of user prompts: RustEngineTurnRunner               *)
(* (agent/loop/rustEngineTurnRunner.ts), which queues turns and runs each  *)
(* in a session of the Rust engine (crates/dimi-engine/src/engine.rs       *)
(* behind the binding crates/dimi-bridge/src/engine.rs).                   *)
(*                                                                         *)
(* Two threads meet here.  The runner lives on the JavaScript event loop:  *)
(* a piece of its code between two awaits is one action.  The engine runs  *)
(* on a worker thread, and its actions interleave with all of these, even  *)
(* with the two halves of the one native call that reads state of the      *)
(* engine and then writes it, steer (calling).  runPhase is the await the  *)
(* executing turn is at:                                                   *)
(*    "config"    runTurnNow, before it has created its session;           *)
(*    "run"       session.run() or session.resume();                       *)
(*    "approval"  the user's answer to an approval request;                *)
(*    "over"      runTurnNow has returned, the finally has not run.        *)
(*                                                                         *)
(* An input is a user message that enters the agent: a prompt, a steer, a  *)
(* notification of a finished task or the continuation a Stop hook asked   *)
(* for.  A turn is named by the input that launched it.                    *)
(***************************************************************************)
EXTENDS TurnClock, Sequences, SequencesExt

CONSTANTS
  Inputs,          \* the user messages of an agent
  Kind,            \* who sends each
  MaxStepsPerTurn, \* input.max_steps_per_turn, 0 for no limit
  ReviewMinSteps,  \* completion_review.min_steps
  None             \* undefined

Kinds == {"prompt", "steer", "notification", "continuation"}

ASSUME EngineAssumption ==
  /\ Kind \in [Inputs -> Kinds]
  /\ MaxStepsPerTurn \in Nat /\ ReviewMinSteps \in Nat
  /\ None \notin Inputs

VARIABLES
  clock,           \* TurnModel
  context,         \* the inputs appended to the context, in order
  queued,          \* queued
  executing,       \* turnRunning and executingTurnId, with the turn's input
  runPhase,
  activeSession,   \* activeSession, as the id of its turn
  open,            \* the sessions that are not closed, by turn id
  calling,         \* the input of the steer call in progress
  disposed,        \* disposed
  engine,          \* where the engine of the current session is
  steerQueue,      \* steer_queue of the session
  cancelFlag,      \* CancelSignal of the session
  engineSteps,     \* TurnSession.steps
  engineOutcome,   \* TurnOutcome.status
  events,          \* engine events the JavaScript thread has not handled yet
  stopUsed,        \* stopHookContinuationUsed
  hooks,           \* the turns with a Stop hook in flight
  fate             \* what became of each input (history)

queueVars   == <<clock, context, queued>>
runVars     == <<executing, runPhase, activeSession, open, disposed>>
engineVars  == <<engine, steerQueue, cancelFlag, engineSteps, engineOutcome>>
hookVars    == <<stopUsed, hooks>>
vars == <<queueVars, runVars, calling, engineVars, events, hookVars, fate>>

Turn  == [id : Nat, input : Inputs]
Entry == [id : Nat, input : Inputs, cancelled : BOOLEAN]

ASSUME NoTurnAssumption == None \notin Turn /\ None \notin Nat

\* The places of run_loop, execute_batch and resume another thread can see:
\* "boundary" before a step, "compacting" in the compaction of a step that is
\* about to begin, "step" in execute_step, "recovering" in the compaction that
\* answers a context overflow, "settling" between has_pending_steer and
\* mark_finished, "batch" in execute_batch, "paused" with a pending approval,
\* "resuming" at the start of resume, "resumed" in the rest of its batch,
\* "stopping" between its step event and mark_finished.
EnginePlaces ==
  {"none", "boundary", "compacting", "step", "recovering", "settling", "batch", "paused",
   "resuming", "resumed", "stopping", "finished"}
Fates == {"new", "steered", "queued", "running", "over", "cancelled", "dropped"}

\* What the handler of a turn.step.completed does depends on its finish
\* reason: "stop" ones run the Stop hook, "tools" ones (tool_use, filtered)
\* do not.
Events == [type : {"stop", "tools", "ended"}, id : Nat, input : Inputs]

TypeOK ==
  /\ clock \in Clock
  /\ context \in Seq(Inputs)
  /\ queued \in Seq(Entry)
  /\ executing \in Turn \cup {None}
  /\ runPhase \in {"idle", "config", "run", "approval", "over"}
  /\ activeSession \in Nat \cup {None}
  /\ open \in SUBSET Nat
  /\ calling \in Inputs \cup {None}
  /\ disposed \in BOOLEAN
  /\ engine \in EnginePlaces
  /\ steerQueue \in SUBSET Inputs
  /\ cancelFlag \in BOOLEAN
  /\ engineSteps \in Nat
  /\ engineOutcome \in {"none", "completed", "failed", "cancelled"}
  /\ events \in Seq(Events)
  /\ stopUsed \in BOOLEAN
  /\ hooks \in SUBSET Inputs
  /\ fate \in [Inputs -> Fates]

Init ==
  /\ clock = InitialClock /\ context = <<>> /\ queued = <<>>
  /\ executing = None /\ runPhase = "idle" /\ activeSession = None
  /\ open = {} /\ disposed = FALSE /\ calling = None
  /\ engine = "none" /\ steerQueue = {} /\ cancelFlag = FALSE
  /\ engineSteps = 0 /\ engineOutcome = "none"
  /\ events = <<>> /\ stopUsed = FALSE /\ hooks = {}
  /\ fate = [i \in Inputs |-> "new"]
-----------------------------------------------------------------------------
(* Launching turns *)

\* startQueuedTurn, up to the first await of runTurnNow.
StartQueuedTurn(id, i) ==
  /\ executing' = [id |-> id, input |-> i]
  /\ runPhase' = "config"

\* Mutant: 1-based turn ids.
LaunchedIdFromOne(c) == c.next

\* The id of the turn a turn.prompt record has just started: ids are 0-based.
LaunchedId(c) == c.next - 1

\* runTurn past its check: the clock advances and the message is recorded at
\* once; the turn starts now or waits behind the running one.
Launch(i, messages) ==
  LET c == ApplyPrompt(clock)
  IN  /\ clock' = c
      /\ context' = context \o messages
      /\ \/ /\ executing # None
            /\ queued' = Append(queued, [id |-> LaunchedId(c), input |-> i, cancelled |-> FALSE])
            /\ fate' = [fate EXCEPT ![i] = "queued"]
            /\ UNCHANGED <<executing, runPhase>>
         \/ /\ executing = None
            /\ StartQueuedTurn(LaunchedId(c), i)
            /\ fate' = [fate EXCEPT ![i] = "running"]
            /\ UNCHANGED queued

\* Mutant: a disposed runner goes on launching turns.
RunTurnUnchecked(i) == Launch(i, <<i>>)

\* runTurn.
RunTurn(i) ==
  \/ /\ disposed
     /\ fate' = [fate EXCEPT ![i] = "dropped"]
     /\ UNCHANGED <<queueVars, executing, runPhase>>
  \/ /\ ~disposed
     /\ Launch(i, <<i>>)

\* The native steer refuses a finished turn and a closed session.
Steerable ==
  /\ activeSession # None /\ activeSession \in open
  /\ engine # "finished"

\* Mutant: the message is recorded before the engine is asked.
SteerOrRunRecordFirst(i, mayAsk) ==
  \/ mayAsk /\ Steerable /\ calling' = i
     /\ UNCHANGED <<queueVars, executing, runPhase, fate>>
  \/ ~(mayAsk /\ Steerable) /\ Launch(i, <<i, i>>) /\ UNCHANGED calling

\* What a steer, a notification and a continuation do with their message: ask
\* the engine, and launch a turn when it refuses.  An accepted message is on
\* its way (calling): the native call has read `finished` and goes on to the
\* queue, while the engine's thread is not stopped.
SteerOrRun(i, mayAsk) ==
  \/ mayAsk /\ Steerable /\ calling' = i
     /\ UNCHANGED <<queueVars, executing, runPhase, fate>>
  \/ ~(mayAsk /\ Steerable) /\ RunTurn(i) /\ UNCHANGED calling

\* The JavaScript thread can begin a new piece of code.
Idle == calling = None

\* rpcService.prompt.
Prompt(i) ==
  /\ Idle /\ Kind[i] = "prompt" /\ fate[i] = "new"
  /\ RunTurn(i)
  /\ UNCHANGED <<activeSession, open, disposed, calling, engineVars, events, hookVars>>

\* rpcService.steer: the runner's steer, then runTurn if it returned false.
Steer(i) ==
  /\ Idle /\ Kind[i] = "steer" /\ fate[i] = "new"
  /\ SteerOrRun(i, ~disposed)
  /\ UNCHANGED <<activeSession, open, disposed, engineVars, events, hookVars>>

\* deliverTaskNotification, for a task that a session of this agent launched.
\* A disposed runner ignores the event that would bring it here.
DeliverTaskNotification(i) ==
  /\ Idle /\ Kind[i] = "notification" /\ fate[i] = "new"
  /\ ~disposed /\ open # {}
  /\ SteerOrRun(i, TRUE)
  /\ UNCHANGED <<activeSession, open, disposed, engineVars, events, hookVars>>

\* The Stop hook of turn t returns a reason.
StopHookContinues(t, i) ==
  /\ Idle /\ Kind[i] = "continuation" /\ fate[i] = "new" /\ t \in hooks
  /\ SteerOrRun(i, TRUE)
  /\ hooks' = hooks \ {t}
  /\ UNCHANGED <<activeSession, open, disposed, engineVars, events, stopUsed>>

\* The Stop hook of turn t has nothing to say.
StopHookSilent(t) ==
  /\ Idle /\ t \in hooks
  /\ hooks' = hooks \ {t}
  /\ UNCHANGED <<queueVars, runVars, calling, engineVars, events, stopUsed, fate>>

\* The second half of the native steer, and what its callers do on true.
SteerAccepted ==
  /\ calling # None
  /\ steerQueue' = steerQueue \cup {calling}
  /\ context' = Append(context, calling)
  /\ fate' = [fate EXCEPT ![calling] = "steered"]
  /\ calling' = None
  /\ UNCHANGED <<clock, queued, runVars, engine, cancelFlag, engineSteps, engineOutcome,
                 events, hookVars>>
-----------------------------------------------------------------------------
(* The executing turn on the JavaScript side *)

\* runTurnNow after its awaits, down to session.run().
CreateSession ==
  /\ Idle /\ runPhase = "config"
  /\ activeSession' = executing.id
  /\ open' = open \cup {executing.id}
  /\ runPhase' = "run"
  /\ engine' = "boundary" /\ steerQueue' = {} /\ cancelFlag' = FALSE
  /\ engineSteps' = 0 /\ engineOutcome' = "none"
  /\ UNCHANGED <<queueVars, executing, disposed, calling, events, hookVars, fate>>

\* runTurnNow throws: the provider configuration, the constructor of the
\* session, or the registration of a native tool on the session created.
LaunchFails ==
  /\ Idle /\ runPhase = "config"
  /\ runPhase' = "over"
  /\ \/ UNCHANGED open
     \/ open' = open \cup {executing.id}
  /\ UNCHANGED <<queueVars, executing, activeSession, disposed, calling, engineVars,
                 events, hookVars, fate>>

\* run() or resume() resolves with needsApproval: the user is asked.
AskApproval ==
  /\ Idle /\ runPhase = "run" /\ engine = "paused"
  /\ runPhase' = "approval"
  /\ UNCHANGED <<queueVars, executing, activeSession, open, disposed, calling, engineVars,
                 events, hookVars, fate>>

\* The user decides, or the request fails: resume() is called.
AnswerApproval ==
  /\ Idle /\ runPhase = "approval"
  /\ runPhase' = "run"
  /\ engine' = "resuming"
  /\ UNCHANGED <<queueVars, executing, activeSession, open, disposed, calling, steerQueue,
                 cancelFlag, engineSteps, engineOutcome, events, hookVars, fate>>

\* run() or resume() resolves with an outcome: runTurnNow returns.  Nobody looks
\* at the state of its session again.
EngineReturns ==
  /\ Idle /\ runPhase = "run" /\ engine = "finished"
  /\ runPhase' = "over"
  /\ activeSession' = None
  /\ engine' = "none" /\ steerQueue' = {} /\ cancelFlag' = FALSE
  /\ engineSteps' = 0 /\ engineOutcome' = "none"
  /\ UNCHANGED <<queueVars, executing, open, disposed, calling, events, hookVars, fate>>

\* Mutant: the head of the queue is next, cancelled or not.
NextQueuedHead(q) == {k \in DOMAIN q : k = 1 /\ ~q[k].cancelled}

\* Mutant: the newest turn is next.
NextQueuedLast(q) ==
  {k \in DOMAIN q : ~q[k].cancelled /\ \A j \in DOMAIN q : j > k => q[j].cancelled}

\* queued.find((queued) => !queued.cancelled): its index, if there is one.
NextQueued(q) ==
  {k \in DOMAIN q : ~q[k].cancelled /\ \A j \in 1 .. (k - 1) : q[j].cancelled}

\* The inputs waiting in the queue.
Waiting == {queued[k].input : k \in {j \in DOMAIN queued : ~queued[j].cancelled}}

\* Mutant: a disposed runner leaves its queue alone.
DropQueueKept ==
  /\ fate' = [fate EXCEPT ![executing.input] = "over"]
  /\ executing' = None /\ runPhase' = "idle"
  /\ UNCHANGED queued

\* Mutant: the next turn starts on a disposed runner.
DropQueueStarts ==
  \E k \in NextQueued(queued) :
    /\ StartQueuedTurn(queued[k].id, queued[k].input)
    /\ queued' = RemoveAt(queued, k)
    /\ fate' = [fate EXCEPT ![executing.input] = "over", ![queued[k].input] = "running"]

\* The finally of startQueuedTurn, after disposal: the queue is dropped.
DropQueue ==
  /\ queued' = <<>>
  /\ fate' = [i \in Inputs |-> IF i = executing.input THEN "over"
                               ELSE IF i \in Waiting THEN "dropped" ELSE fate[i]]
  /\ executing' = None /\ runPhase' = "idle"

\* The finally of startQueuedTurn: the turn is over, the next one starts.
\* Cancelled entries that are passed over stay in the queue.
TurnOver ==
  /\ Idle /\ runPhase = "over"
  /\ \/ disposed /\ DropQueue
     \/ /\ ~disposed /\ NextQueued(queued) = {}
        /\ fate' = [fate EXCEPT ![executing.input] = "over"]
        /\ executing' = None /\ runPhase' = "idle"
        /\ UNCHANGED queued
     \/ /\ ~disposed
        /\ \E k \in NextQueued(queued) :
             /\ StartQueuedTurn(queued[k].id, queued[k].input)
             /\ queued' = RemoveAt(queued, k)
             /\ fate' = [fate EXCEPT ![executing.input] = "over", ![queued[k].input] = "running"]
  /\ UNCHANGED <<clock, context, activeSession, open, disposed, calling, engineVars,
                 events, hookVars>>
-----------------------------------------------------------------------------
(* Cancellation, disposal and engine events *)

\* Aborting the approval wait makes it answer "cancelled", which resumes the
\* engine.  There is nothing to abort outside that wait.
AbortApproval ==
  IF runPhase = "approval" THEN runPhase' = "run" /\ engine' = "resuming"
                           ELSE UNCHANGED <<runPhase, engine>>

\* The executing turn is meant by no id at all and by its own.
Targets(target) == target = None \/ (executing # None /\ target = executing.id)

\* cancel for the executing turn, once it has a session.
CancelSession(target) ==
  /\ Idle /\ activeSession # None /\ Targets(target)
  /\ AbortApproval
  /\ cancelFlag' = TRUE
  /\ UNCHANGED <<queueVars, executing, activeSession, open, disposed, calling, steerQueue,
                 engineSteps, engineOutcome, events, hookVars, fate>>

\* cancel otherwise: queued turns with that id are marked and a turn.cancel
\* is recorded for each.
CancelQueued(target) ==
  LET hit == {k \in DOMAIN queued : queued[k].id = target}
  IN  /\ Idle /\ ~(activeSession # None /\ Targets(target))
      /\ queued' = [k \in DOMAIN queued |->
                      IF k \in hit THEN [queued[k] EXCEPT !.cancelled = TRUE] ELSE queued[k]]
      /\ clock' = IF hit = {} THEN clock ELSE ApplyCancel(clock, {target})
      /\ fate' = [i \in Inputs |-> IF \E k \in hit : queued[k].input = i
                                   THEN "cancelled" ELSE fate[i]]
      /\ UNCHANGED <<context, runVars, calling, engineVars, events, hookVars>>

\* dispose: the sessions known now are closed, which cancels the turn of the
\* active one; events still to be handled will be ignored.
Dispose ==
  /\ Idle /\ ~disposed
  /\ disposed' = TRUE
  /\ AbortApproval
  /\ cancelFlag' = (cancelFlag \/ activeSession # None)
  /\ open' = {}
  /\ events' = <<>>
  /\ UNCHANGED <<queueVars, executing, activeSession, calling, steerQueue, engineSteps,
                 engineOutcome, hookVars, fate>>

\* handleEngineEvent: the loop events of the step reach the clock; a step
\* without tools runs the Stop hook unless the latch is set; turn.ended opens
\* the latch.
HandleEngineEvent ==
  /\ Idle /\ events # <<>>
  /\ events' = Tail(events)
  /\ LET e == Head(events)
     IN  IF e.type = "ended"
         THEN stopUsed' = FALSE /\ UNCHANGED <<clock, hooks>>
         ELSE /\ clock' = ApplyLoopEvent(clock, e.id)
              /\ IF e.type = "stop" /\ ~stopUsed
                 THEN stopUsed' = TRUE /\ hooks' = hooks \cup {e.input}
                 ELSE UNCHANGED <<stopUsed, hooks>>
  /\ UNCHANGED <<context, queued, runVars, calling, engineVars, fate>>
-----------------------------------------------------------------------------
(* The engine *)

\* emit: events go to the runner in order; a closed channel refuses them and a
\* disposed runner ignores them.
Emit(types) ==
  events' = IF disposed THEN events
            ELSE events \o [k \in DOMAIN types |->
                   [type |-> types[k], id |-> executing.id, input |-> executing.input]]

\* mark_finished and the turn.ended of every finish path.
Finish(outcome, types) ==
  /\ engine' = "finished"
  /\ engineOutcome' = outcome
  /\ Emit(Append(types, "ended"))

MaxStepsReached == MaxStepsPerTurn > 0 /\ engineSteps >= MaxStepsPerTurn

\* turn.step.started.
StartStep ==
  /\ engine' = "step" /\ engineSteps' = engineSteps + 1
  /\ UNCHANGED <<engineOutcome, events>>

\* The queued steers go into the request of the step, and the step begins, or
\* a compaction comes first because that request would be too large.
PrepareStep ==
  /\ steerQueue' = {}
  /\ \/ StartStep
     \/ engine' = "compacting" /\ UNCHANGED <<engineSteps, engineOutcome, events>>

\* Mutant: a cancellation is left to the awaits of the step.
BeginStepUnchecked ==
  /\ engine = "boundary"
  /\ \/ /\ MaxStepsReached
        /\ Finish("failed", <<>>) /\ UNCHANGED <<steerQueue, engineSteps>>
     \/ ~MaxStepsReached /\ PrepareStep

\* The head of run_loop: cancellation, the step limit, then the step.
BeginStep ==
  /\ engine = "boundary"
  /\ \/ cancelFlag /\ Finish("cancelled", <<>>) /\ UNCHANGED <<steerQueue, engineSteps>>
     \/ /\ ~cancelFlag /\ MaxStepsReached
        /\ Finish("failed", <<>>) /\ UNCHANGED <<steerQueue, engineSteps>>
     \/ ~cancelFlag /\ ~MaxStepsReached /\ PrepareStep

\* compact returns, with a summary or without: the step begins.  Neither the
\* request for the summary nor this looks at the cancellation.
Compacted ==
  /\ engine = "compacting"
  /\ StartStep
  /\ UNCHANGED steerQueue

\* A step ends without tool calls.  The turn goes on for a completion review,
\* which only a reviewable finish gets, or for a steer that arrived meanwhile;
\* otherwise it is about to end.
CompleteStep ==
  /\ engine = "step"
  /\ \/ /\ engineSteps >= ReviewMinSteps
        /\ engine' = "boundary" /\ Emit(<<"stop">>)
     \/ /\ steerQueue # {}
        /\ engine' = "boundary" /\ \E type \in {"stop", "tools"} : Emit(<<type>>)
     \/ /\ steerQueue = {}
        /\ engine' = "settling" /\ UNCHANGED events
  /\ UNCHANGED <<steerQueue, engineSteps, engineOutcome>>

\* mark_finished and the completion events: truncated and plain responses
\* complete the turn, filtered ones fail it.
MarkFinished ==
  /\ engine = "settling"
  /\ \/ Finish("completed", <<"stop">>)
     \/ \E type \in {"stop", "tools"} : Finish("failed", <<type>>)
  /\ UNCHANGED <<steerQueue, engineSteps>>

\* execute_step fails: retried as a new step after a back-off, which a
\* cancellation ends as the boundary would, answered by a compaction, or the
\* turn fails.
StepFails ==
  /\ engine = "step"
  /\ \/ /\ ~cancelFlag /\ engine' \in {"boundary", "recovering"}
        /\ UNCHANGED <<engineOutcome, events>>
     \/ Finish(IF cancelFlag THEN "cancelled" ELSE "failed", <<>>)
  /\ UNCHANGED <<steerQueue, engineSteps>>

\* compact returns after an overflow: retried as a new step, or the turn fails,
\* a cancelled one too.
Recovered ==
  /\ engine = "recovering"
  /\ \/ engine' = "boundary" /\ UNCHANGED <<engineOutcome, events>>
     \/ Finish("failed", <<>>)
  /\ UNCHANGED <<steerQueue, engineSteps>>

\* The awaits of a step and of its tools race the cancellation.
Interrupted ==
  /\ engine \in {"step", "batch", "resumed"} /\ cancelFlag
  /\ Finish("cancelled", <<>>)
  /\ UNCHANGED <<steerQueue, engineSteps>>

\* A step ends with tool calls.
CallTools ==
  /\ engine = "step"
  /\ engine' = "batch"
  /\ UNCHANGED <<steerQueue, engineSteps, engineOutcome, events>>

\* execute_batch: all calls done, one of them stopped the turn, or one of them
\* needs approval, which is not asked for once the turn is cancelled.  run_loop
\* marks a stopped turn finished before it emits the end of the step, resume
\* after.
ExecuteBatch ==
  /\ engine \in {"batch", "resumed"}
  /\ \/ engine' = "boundary" /\ Emit(<<"tools">>) /\ UNCHANGED engineOutcome
     \/ engine = "batch" /\ Finish("completed", <<"stop">>)
     \/ engine = "resumed" /\ engine' = "stopping" /\ Emit(<<"stop">>) /\ UNCHANGED engineOutcome
     \/ ~cancelFlag /\ engine' = "paused" /\ UNCHANGED <<engineOutcome, events>>
  /\ UNCHANGED <<steerQueue, engineSteps>>

\* finish_turn of a resumed batch that stopped the turn.
StopResumed ==
  /\ engine = "stopping"
  /\ Finish("completed", <<>>)
  /\ UNCHANGED <<steerQueue, engineSteps>>

\* resume: a turn cancelled meanwhile ends, otherwise the batch continues.
Resume ==
  /\ engine = "resuming"
  /\ \/ cancelFlag /\ Finish("cancelled", <<>>)
     \/ ~cancelFlag /\ engine' = "resumed" /\ UNCHANGED <<engineOutcome, events>>
  /\ UNCHANGED <<steerQueue, engineSteps>>

EngineStep ==
  /\ \/ BeginStep \/ Compacted \/ CompleteStep \/ MarkFinished \/ StepFails \/ Recovered
     \/ Interrupted \/ CallTools \/ ExecuteBatch \/ StopResumed \/ Resume
  /\ UNCHANGED <<queueVars, runVars, calling, cancelFlag, hookVars, fate>>
-----------------------------------------------------------------------------
Clients ==
  \/ \E i \in Inputs : Prompt(i) \/ Steer(i) \/ DeliverTaskNotification(i)
  \/ \E t, i \in Inputs : StopHookContinues(t, i)
  \/ \E t \in Inputs : StopHookSilent(t)
  \/ \E target \in {None} \cup 0 .. (clock.next - 1) : CancelSession(target) \/ CancelQueued(target)
  \/ Dispose
  \/ AnswerApproval

Runner ==
  SteerAccepted \/ CreateSession \/ LaunchFails \/ AskApproval \/ EngineReturns \/ TurnOver

Next == Clients \/ Runner \/ HandleEngineEvent \/ EngineStep

Spec == Init /\ [][Next]_vars

\* The event loop runs what is ready, configuration, provider and tools answer
\* or fail.  Nobody promises that a user answers an approval request.
FairSpec == Spec /\ WF_vars(Runner) /\ WF_vars(EngineStep)
-----------------------------------------------------------------------------
(* Properties *)

\* A message enters the context exactly once, however the engine's end races
\* the steer that carries it: a refused steer is recorded by the turn launched
\* instead, an accepted one by the steer (steer, deliverTaskNotification).
RecordedOnce ==
  /\ IsInjective(context)
  /\ \A i \in Inputs :
       /\ fate[i] = "new" => i \notin ToSet(context)
       /\ fate[i] \in {"steered", "queued", "running", "over", "cancelled"} => i \in ToSet(context)

\* A queued turn that is not cancelled has a turn ahead of it, whose finally
\* will start it: nothing else does (startQueuedTurn).
NoStrandedInput ==
  (\E k \in DOMAIN queued : ~queued[k].cancelled) => executing # None

\* Turns run in the order their messages were recorded: the queue is sorted,
\* and no turn that waits is older than the executing one.
TurnsInOrder ==
  /\ \A j, k \in DOMAIN queued : j < k => queued[j].id < queued[k].id
  /\ \A k \in DOMAIN queued :
       ~queued[k].cancelled /\ executing # None => executing.id < queued[k].id

\* The clock counts the turns this runner has launched and nothing else: a
\* cancelled turn and the events of running ones never move it, so a turn and
\* the records of its steps agree on its id (the comment in runTurn).
ClockCountsTurns ==
  clock = [next |-> Cardinality({i \in ToSet(context) : fate[i] # "steered"}), cancelled |-> {}]

\* A cancelled queued turn never runs.
CancelledNeverRuns ==
  [][\A i \in Inputs : fate[i] = "cancelled" => fate'[i] = "cancelled"]_vars

\* Once the engine has been told to cancel it asks for nothing new, neither the
\* model for a step or a summary nor the user for an approval, whatever
\* retries, approvals or steers the cancellation meets.  The one step that
\* still begins is that of a compaction under way, and none follows it.
CancelledSessionStops ==
  [][cancelFlag /\ cancelFlag' /\ engine' # engine
       /\ engine' \in {"compacting", "step", "recovering", "paused"}
     => engine = "compacting"]_vars

\* After disposal, with every session closed, nothing reaches the wire or the
\* context, neither from clients nor from hooks and events still in flight.
DisposedRecordsNothing ==
  [][disposed /\ open = {} => UNCHANGED <<clock, context>>]_vars

\* dispose closes the sessions it knows.  The turn that executes then may be
\* between its start and its session, and opens one afterwards; nothing else
\* does, neither queued turns nor steers, notifications or continuations.
OneLeftOpen == disposed => \A s, t \in open : s = t

\* Every turn that was launched is over some day, is cancelled in the queue or
\* dropped by disposal, unless a user leaves an approval request unanswered.
TurnsGetOver ==
  \A i \in Inputs :
    fate[i] \in {"queued", "running"} ~>
      (fate[i] \in {"over", "cancelled", "dropped"} \/ runPhase = "approval")

(* What a comment of the code says and the code does not keep *)

\* engine.rs on mark_finished: a steer "between the engine's final steer check
\* and the runner clearing its session must be refused instead of landing in a
\* queue that is never drained again".
LateSteerRefused ==
  [][(engine \in {"settling", "stopping", "finished"}) => steerQueue' \subseteq steerQueue]_vars
=============================================================================
