------------------------------ MODULE TurnLoop -------------------------------
(***************************************************************************)
(* The turn scheduler of one agent: AgentLoopService                       *)
(* (agent/loop/loopService.ts) with its StepRequest objects                *)
(* (stepRequest.ts), the queues they wait in (stepRequestQueue.ts) and the *)
(* persisted turn clock (turnOps.ts, module TurnClock).                    *)
(*                                                                         *)
(* The service runs on the JavaScript event loop, so a piece of code       *)
(* between two awaits is one action.  The awaits of a running turn are the *)
(* values of phase:                                                        *)
(*    "exec"     executeLoopStep, up to the abort check of finishStep;     *)
(*    "after"    the onDidFinishStep hooks of runAfterStep;                *)
(*    "recover"  an error handler (step retry, overflow compaction);       *)
(*    "loop"     an error was handled, the next iteration has not begun;   *)
(*    "return"   run() has returned, runTurn has not resumed yet.          *)
(* Every other action - clients, hooks, timers - may happen at any of them.*)
(* The one synchronous loop over a list, the replay of held admissions by  *)
(* releaseQuiescence, is a run of actions that nothing can interleave      *)
(* (releasing).                                                            *)
(*                                                                         *)
(* A request is a model value; Admission, Mergeable and TurnScoped give    *)
(* the options its sender constructed it with.  A request is enqueued at   *)
(* most once, so its Step, its assignment promise and the turn it seeds    *)
(* are functions of the request.                                           *)
(***************************************************************************)
EXTENDS TurnClock, Sequences, SequencesExt

CONSTANTS
  Requests,      \* StepRequest objects
  Admission,     \* request.admission
  Mergeable,     \* request.mergeable
  TurnScoped,    \* request.turnScoped
  MaxSteps,      \* loopControl.maxStepsPerTurn, 0 for no limit
  MaxLeases,     \* bound: quiescence leases held at the same time
  MaxWaiters,    \* bound: pending settled() promises
  MaxRestarts,   \* bound: process restarts
  None           \* undefined

Admissions == {"newTurn", "activeOrNewTurn", "activeOrNextTurn", "activeTurnOnly"}

ASSUME LoopAssumption ==
  /\ Admission \in [Requests -> Admissions]
  /\ Mergeable \in [Requests -> BOOLEAN]
  /\ TurnScoped \in [Requests -> BOOLEAN]
  /\ MaxSteps \in Nat /\ MaxLeases \in Nat /\ MaxWaiters \in Nat /\ MaxRestarts \in Nat
  /\ None \notin Requests

VARIABLES
  reqState,      \* StepRequest.state, "new" before it is enqueued
  assignment,    \* the promise of pendingAssignments
  stepState,     \* Step.state of the request's step
  turnOutcome,   \* Turn.result of the turn the request seeded
  standalone,    \* standaloneStepQueue
  held,          \* heldAdmissions
  drain,         \* the admissions releaseQuiescence still has to replay
  releasing,     \* releaseQuiescence is on the stack
  pendingTurns,  \* pendingTurns
  active,        \* activeTurnJob
  phase,         \* the await the running turn is at
  current,       \* runtime.current: the driver of the running step
  steps,         \* runtime.steps
  result,        \* the value run() returned
  turnAborted,   \* job.controller.signal.aborted of the active turn
  quiescence,    \* quiescenceDepth
  disposing,     \* disposing
  waiters,       \* settleWaiters.length
  clock,         \* TurnModel
  nextReserved,  \* nextReservedTurnId, 0 for undefined
  durable,       \* TurnModel as the flushed journal restores it
  restored,      \* the clock the process started with (history)
  restarts

requestVars == <<reqState, assignment, stepState, turnOutcome>>
waitingVars == <<standalone, held, drain, releasing>>
runVars     == <<active, phase, current, steps, result, turnAborted>>
controlVars == <<quiescence, disposing, waiters>>
journalVars == <<durable, restored, restarts>>
vars == <<requestVars, waitingVars, pendingTurns, runVars, controlVars,
          clock, nextReserved, journalVars>>

(***************************************************************************)
(* A TurnJob.  steps is the insertion-ordered Map of the job; queue is a   *)
(* StepRequestQueue: the members of queued in the order of steps.  A retry *)
(* puts a request back at the head, which is the place the order of steps  *)
(* gives it: it was the first of its kind when it was taken and everything *)
(* queued since is behind it.                                              *)
(***************************************************************************)
Job ==
  {job \in [id : Nat, request : Requests, steps : Seq(Requests), queued : SUBSET Requests] :
     job.queued \subseteq ToSet(job.steps)}

ASSUME NoneAssumption == None \notin Job

ReqStates == {"new", "pending", "materialized", "aborted"}
StepStates == {"none", "queued", "running", "completed", "cancelled"}
Results == {"none", "completed", "failed", "cancelled"}
Phases == {"idle", "exec", "after", "recover", "loop", "return"}

TypeOK ==
  /\ reqState \in [Requests -> ReqStates]
  /\ assignment \in [Requests -> {"none", "waiting", "assigned", "rejected"}]
  /\ stepState \in [Requests -> StepStates]
  /\ turnOutcome \in [Requests -> Results \cup {"open"}]
  /\ standalone \in Seq(Requests) /\ held \in Seq(Requests) /\ drain \in Seq(Requests)
  /\ releasing \in BOOLEAN
  /\ pendingTurns \in Seq(Job)
  /\ active \in Job \cup {None}
  /\ phase \in Phases
  /\ current \in Requests \cup {None}
  /\ steps \in Nat
  /\ result \in Results
  /\ turnAborted \in BOOLEAN
  /\ quiescence \in Nat /\ disposing \in BOOLEAN /\ waiters \in Nat
  /\ clock \in Clock /\ nextReserved \in Nat
  /\ durable \in Clock /\ restored \in Clock /\ restarts \in Nat

Init ==
  /\ reqState = [r \in Requests |-> "new"]
  /\ assignment = [r \in Requests |-> "none"]
  /\ stepState = [r \in Requests |-> "none"]
  /\ turnOutcome = [r \in Requests |-> "none"]
  /\ standalone = <<>> /\ held = <<>> /\ drain = <<>> /\ releasing = FALSE
  /\ pendingTurns = <<>>
  /\ active = None /\ phase = "idle" /\ current = None
  /\ steps = 0 /\ result = "none" /\ turnAborted = FALSE
  /\ quiescence = 0 /\ disposing = FALSE /\ waiters = 0
  /\ nextReserved = 0
  /\ clock = InitialClock /\ durable = InitialClock
  /\ restored = InitialClock /\ restarts = 0

-----------------------------------------------------------------------------
(* Requests and queues *)

\* StepRequest.abort: only a pending request can be aborted.
Abort(rs, S) == [r \in Requests |-> IF r \in S /\ rs[r] = "pending" THEN "aborted" ELSE rs[r]]

\* materializeBatch: the pending requests of the batch enter the context.
Materialize(rs, S) ==
  [r \in Requests |-> IF r \in S /\ rs[r] = "pending" THEN "materialized" ELSE rs[r]]

\* Step.cancel on the steps of S: terminal steps refuse.
CancelSteps(ss, S) ==
  [r \in Requests |-> IF r \in S /\ ss[r] \in {"queued", "running"} THEN "cancelled" ELSE ss[r]]

\* Mutant: only the running step is settled.
CancellableRunning(ss, S) == {r \in S : ss[r] = "running"}

Cancellable(ss, S) == {r \in S : ss[r] \in {"queued", "running"}}

\* The requests of a queue that are not aborted (discardAborted).
Live(S, rs) == {r \in S : rs[r] # "aborted"}

\* The member of S that comes first in the sequence s.
FirstOf(s, S) ==
  CHOOSE r \in S : \E i \in DOMAIN s : s[i] = r /\ \A j \in 1 .. (i - 1) : s[j] \notin S

\* takeNextBatch: the first non-mergeable request drives the step, the first
\* request if all are mergeable; the other mergeable ones are folded into it.
NonMergeable(S) == {r \in S : ~Mergeable[r]}

Driver(s, S) == FirstOf(s, IF NonMergeable(S) = {} THEN S ELSE NonMergeable(S))

Rest(s, S) == NonMergeable(S) \ {Driver(s, S)}

\* hasPendingRequests of the service.
HasPendingRequests ==
  \/ active # None /\ Live(active.queued, reqState) # {}
  \/ Live(ToSet(standalone), reqState) # {}
  \/ pendingTurns # <<>>
  \/ Live(ToSet(held), reqState) # {}

-----------------------------------------------------------------------------
(* The synchronous pieces of a run.  Each takes the request and step states *)
(* the code before it, in the same action, has produced.                    *)

\* run() returns: its finally block aborts the turn-scoped requests left.
Return(job, rs, ss, n, res) ==
  LET after == Abort(rs, {r \in job.queued : TurnScoped[r]})
  IN  /\ reqState' = after
      /\ stepState' = ss
      /\ active' = [job EXCEPT !.queued = Live(@, after)]
      /\ phase' = "return" /\ current' = None /\ steps' = n /\ result' = res

\* beginLoopStep: one iteration of run() up to its first await.
BeginLoopStep(job, rs, ss, n, aborted) ==
  LET live == Live(job.queued, rs)
      driver == Driver(job.steps, live)
      rest == Rest(job.steps, live)
  IN  IF aborted
        THEN Return(job, rs, ss, n, "cancelled")
      ELSE IF live = {}
        THEN Return(job, rs, ss, n, "completed")
      ELSE IF MaxSteps > 0 /\ n >= MaxSteps
        THEN Return(job, rs, ss, n, "failed")
      ELSE /\ active' = [job EXCEPT !.queued = rest]
           /\ reqState' = Materialize(rs, live \ rest)
           /\ stepState' = [ss EXCEPT ![driver] = "running"]
           /\ phase' = "exec" /\ current' = driver /\ steps' = n + 1 /\ result' = "none"

\* pumpTurns, with no turn active: startTurn on the head of the queue.
PumpTurns(queue, rs, ss) ==
  IF disposing \/ quiescence' > 0 \/ queue = <<>>
    THEN /\ pendingTurns' = queue /\ reqState' = rs /\ stepState' = ss
         /\ active' = None /\ phase' = "idle" /\ current' = None
         /\ steps' = 0 /\ result' = "none" /\ turnAborted' = FALSE
         /\ UNCHANGED clock
    ELSE /\ pendingTurns' = Tail(queue)
         /\ clock' = ApplyPrompt(clock)
         /\ turnAborted' = FALSE
         /\ BeginLoopStep(Head(queue), rs, ss, 0, FALSE)

\* Mutants: waiters are resolved without a look at the queues, or not by a
\* service that is being disposed.
SettleAlways(idle) == 0
SettleUnlessDisposing(idle) == IF idle /\ ~disposing THEN 0 ELSE waiters

\* maybeSettle: the settled() promises left when the given state is idle.
MaybeSettle(idle) == IF idle THEN 0 ELSE waiters

\* Mutant: an id taken from memory alone.
ReserveFromMemory == nextReserved

\* reserveTurnId
ReserveTurnId == IF nextReserved > clock.next THEN nextReserved ELSE clock.next

-----------------------------------------------------------------------------
(* enqueue and admit *)

\* createAndQueueTurn: a new job takes over the standalone requests.
CreateAndQueueTurn(r, rs) ==
  LET job == [id |-> ReserveTurnId, request |-> r, steps |-> <<r>> \o standalone,
              queued |-> {r} \cup ToSet(standalone)]
      ss == [x \in Requests |-> IF x \in job.queued THEN "queued" ELSE stepState[x]]
  IN  /\ assignment' = [x \in Requests |-> IF x \in job.queued THEN "assigned" ELSE assignment[x]]
      /\ turnOutcome' = [turnOutcome EXCEPT ![r] = "open"]
      /\ nextReserved' = job.id + 1
      /\ standalone' = <<>>
      /\ IF active = None
           THEN PumpTurns(Append(pendingTurns, job), rs, ss)
           ELSE /\ pendingTurns' = Append(pendingTurns, job)
                /\ reqState' = rs /\ stepState' = ss
                /\ UNCHANGED <<runVars, clock>>

\* assignStep to the active turn.
AssignToActive(r, rs) ==
  /\ active' = [active EXCEPT !.steps = Append(@, r), !.queued = @ \cup {r}]
  /\ reqState' = rs
  /\ stepState' = [stepState EXCEPT ![r] = "queued"]
  /\ assignment' = [assignment EXCEPT ![r] = "assigned"]
  /\ UNCHANGED <<turnOutcome, standalone, pendingTurns, phase, current, steps, result,
                 turnAborted, clock, nextReserved>>

\* admit.  rs is reqState with r pending; a request that needs an active turn
\* and finds none is refused and left in the state refused.
Admit(r, rs, as, refused) ==
  CASE Admission[r] = "newTurn" \/ (Admission[r] = "activeOrNewTurn" /\ active = None) ->
         CreateAndQueueTurn(r, rs)
    [] Admission[r] # "newTurn" /\ active # None ->
         AssignToActive(r, rs)
    [] Admission[r] = "activeOrNextTurn" /\ active = None ->
         /\ standalone' = Append(standalone, r)
         /\ reqState' = rs /\ assignment' = as
         /\ UNCHANGED <<stepState, turnOutcome, pendingTurns, runVars, clock, nextReserved>>
    [] Admission[r] = "activeTurnOnly" /\ active = None ->
         /\ reqState' = [rs EXCEPT ![r] = refused]
         /\ assignment' = [as EXCEPT ![r] = "rejected"]
         /\ UNCHANGED <<stepState, turnOutcome, standalone, pendingTurns, runVars, clock,
                        nextReserved>>

\* Mutant: enqueue does not look at disposing.
CanEnqueueDisposed(r) == ~releasing /\ reqState[r] = "new"

CanEnqueue(r) == ~releasing /\ ~disposing /\ reqState[r] = "new"

\* enqueue: held back while a quiescence lease is out, admitted at once
\* otherwise.
Enqueue(r) ==
  LET rs == [reqState EXCEPT ![r] = "pending"]
      as == [assignment EXCEPT ![r] = "waiting"]
  IN  /\ CanEnqueue(r)
      /\ UNCHANGED <<drain, releasing, controlVars, journalVars>>
      /\ \/ /\ quiescence > 0
            /\ held' = Append(held, r)
            /\ reqState' = rs /\ assignment' = as
            /\ UNCHANGED <<stepState, turnOutcome, standalone, pendingTurns, runVars, clock,
                           nextReserved>>
         \/ /\ quiescence = 0
            /\ UNCHANGED held
            /\ Admit(r, rs, as, "pending")

-----------------------------------------------------------------------------
(* Quiescence leases *)

\* Mutant: a lease is given without a look at what runs or waits.
AcquireUnchecked ==
  /\ ~releasing /\ ~disposing /\ quiescence < MaxLeases
  /\ quiescence' = quiescence + 1
  /\ UNCHANGED <<requestVars, waitingVars, pendingTurns, runVars, disposing, waiters,
                 clock, nextReserved, journalVars>>

TryAcquireQuiescence ==
  /\ ~releasing /\ ~disposing /\ active = None /\ ~HasPendingRequests
  /\ quiescence < MaxLeases
  /\ quiescence' = quiescence + 1
  /\ UNCHANGED <<requestVars, waitingVars, pendingTurns, runVars, disposing, waiters,
                 clock, nextReserved, journalVars>>

\* releaseQuiescence up to the replay of the held admissions.
ReleaseQuiescence ==
  /\ ~releasing /\ quiescence > 0
  /\ quiescence' = quiescence - 1
  /\ UNCHANGED <<assignment, turnOutcome, standalone, disposing, nextReserved, journalVars>>
  /\ IF quiescence > 1 \/ disposing
       THEN UNCHANGED <<reqState, stepState, held, drain, releasing, pendingTurns, runVars,
                        waiters, clock>>
       ELSE /\ PumpTurns(pendingTurns, reqState, stepState)
            /\ waiters' = MaybeSettle(pendingTurns = <<>> /\ held = <<>>)
            /\ drain' = held /\ held' = <<>> /\ releasing' = TRUE

\* Mutant: the replay stops after the first held admission.
ReplayFirstOnly ==
  /\ releasing /\ drain # <<>>
  /\ drain' = <<>>
  /\ UNCHANGED <<held, releasing, controlVars, journalVars>>
  /\ Admit(Head(drain), reqState, assignment, "aborted")

\* One held admission is replayed; one that cannot be admitted is aborted.
ReplayHeld ==
  /\ releasing /\ drain # <<>>
  /\ drain' = Tail(drain)
  /\ UNCHANGED <<held, releasing, controlVars, journalVars>>
  /\ Admit(Head(drain), reqState, assignment, "aborted")

\* The closing pumpTurns of releaseQuiescence.
ReplayDone ==
  /\ releasing /\ drain = <<>>
  /\ releasing' = FALSE
  /\ UNCHANGED <<assignment, turnOutcome, standalone, held, drain, quiescence, disposing,
                 nextReserved, journalVars>>
  /\ IF active = None
       THEN /\ PumpTurns(pendingTurns, reqState, stepState)
            /\ waiters' = MaybeSettle(pendingTurns = <<>> /\ held = <<>>)
       ELSE UNCHANGED <<reqState, stepState, pendingTurns, runVars, waiters, clock>>

-----------------------------------------------------------------------------
(* Cancellation *)

\* cancelActiveTurn: also reached through Turn.cancel of the active turn.
CancelActiveTurn ==
  /\ ~releasing /\ active # None
  /\ clock' = ApplyCancel(clock, {active.id})
  /\ turnAborted' = TRUE
  /\ UNCHANGED <<requestVars, waitingVars, pendingTurns, active, phase, current, steps, result,
                 controlVars, nextReserved, journalVars>>

\* Mutant: the result promise of a cancelled queued turn is left open.
DropUnsettled(i) ==
  LET job == pendingTurns[i]
      dropped == Cancellable(stepState, ToSet(job.steps))
      left == RemoveAt(pendingTurns, i)
  IN  /\ pendingTurns' = left
      /\ clock' = ApplyCancel(clock, {job.id})
      /\ stepState' = CancelSteps(stepState, dropped)
      /\ reqState' = Abort(reqState, dropped)
      /\ waiters' = MaybeSettle(active = None /\ left = <<>> /\ held = <<>>)
      /\ UNCHANGED <<turnOutcome, assignment, waitingVars, runVars, quiescence, disposing,
                     nextReserved, journalVars>>

\* The effect of cancelQueuedTurn on the turn at position i of pendingTurns.
DropQueuedTurn(i) ==
  LET job == pendingTurns[i]
      dropped == Cancellable(stepState, ToSet(job.steps))
      left == RemoveAt(pendingTurns, i)
  IN  /\ pendingTurns' = left
      /\ clock' = ApplyCancel(clock, {job.id})
      /\ stepState' = CancelSteps(stepState, dropped)
      /\ reqState' = Abort(reqState, dropped)
      /\ turnOutcome' = [turnOutcome EXCEPT ![job.request] = "cancelled"]
      /\ waiters' = MaybeSettle(active = None /\ left = <<>> /\ held = <<>>)
      /\ UNCHANGED <<assignment, waitingVars, runVars, quiescence, disposing, nextReserved,
                     journalVars>>

CancelQueuedTurn(i) ==
  /\ ~releasing
  /\ DropQueuedTurn(i)

\* Step.cancel, through the assignment of a request or abortRequest.
CancelStep(r) ==
  /\ ~releasing /\ stepState[r] \in {"queued", "running"}
  /\ stepState' = CancelSteps(stepState, {r})
  /\ reqState' = Abort(reqState, {r})
  /\ UNCHANGED <<assignment, turnOutcome, waitingVars, pendingTurns, runVars, controlVars,
                 clock, nextReserved, journalVars>>

\* EnqueueReceipt.abort of a held request.
AbortHeld(i) ==
  LET r == held[i]
      left == RemoveAt(held, i)
  IN  /\ ~releasing
      /\ held' = left
      /\ reqState' = Abort(reqState, {r})
      /\ assignment' = [assignment EXCEPT ![r] = "rejected"]
      /\ waiters' = MaybeSettle(active = None /\ pendingTurns = <<>> /\ left = <<>>)
      /\ UNCHANGED <<stepState, turnOutcome, standalone, drain, releasing, pendingTurns, runVars,
                     quiescence, disposing, clock, nextReserved, journalVars>>

\* EnqueueReceipt.abort of a standalone request.  The code leaves the aborted
\* entry in the queue, where every reader skips it.
AbortStandalone(i) ==
  LET r == standalone[i]
  IN  /\ ~releasing
      /\ standalone' = RemoveAt(standalone, i)
      /\ reqState' = Abort(reqState, {r})
      /\ assignment' = [assignment EXCEPT ![r] = "rejected"]
      /\ UNCHANGED <<stepState, turnOutcome, held, drain, releasing, pendingTurns, runVars,
                     controlVars, clock, nextReserved, journalVars>>

-----------------------------------------------------------------------------
(* The run of the active turn *)

\* handleLoopCancellation: a cancelled step goes on with the next one, a
\* cancelled turn returns.
HandleLoopCancellation ==
  IF ~turnAborted /\ stepState[current] = "cancelled"
    THEN /\ phase' = "loop" /\ current' = None
         /\ UNCHANGED <<reqState, stepState, active, steps, result>>
    ELSE Return(active, reqState, stepState, steps, "cancelled")

runFrame == <<assignment, turnOutcome, waitingVars, pendingTurns, turnAborted, controlVars,
              nextReserved, journalVars>>

\* The model answered and the tools ran: finishStep passed its abort check.
FinishStep ==
  /\ ~releasing /\ phase = "exec"
  /\ ~turnAborted /\ stepState[current] # "cancelled"
  /\ phase' = "after"
  /\ clock' = ApplyLoopEvent(clock, active.id)
  /\ UNCHANGED <<runFrame, reqState, stepState, active, current, steps, result>>

\* The step throws an abort error, its own or a cancellation's.
AbortedStep ==
  /\ ~releasing
  /\ phase = "exec" \/ (phase = "after" /\ (turnAborted \/ stepState[current] = "cancelled"))
  /\ HandleLoopCancellation
  /\ UNCHANGED <<runFrame, clock>>

\* The step throws any other error and an error handler takes it.
FailedStep ==
  /\ ~releasing /\ phase = "exec" /\ ~turnAborted /\ stepState[current] # "cancelled"
  /\ phase' = "recover"
  /\ clock' = ApplyLoopEvent(clock, active.id)
  /\ UNCHANGED <<runFrame, reqState, stepState, active, current, steps, result>>

\* The handler puts the failed driver back at the head of the queue; it checks
\* the signal of the step first.
RetryStep ==
  /\ ~releasing /\ phase = "recover" /\ stepState[current] # "cancelled"
  /\ active' = [active EXCEPT !.queued = @ \cup {current}]
  /\ stepState' = [stepState EXCEPT ![current] = "queued"]
  /\ phase' = "loop" /\ current' = None
  /\ UNCHANGED <<runFrame, reqState, steps, result, clock>>

\* The handler gives up, or finds its step cancelled: failLoopStep.
GiveUpStep ==
  /\ ~releasing /\ phase = "recover"
  /\ Return(active, reqState, stepState, steps, "failed")
  /\ UNCHANGED <<runFrame, clock>>

\* The handler throws after the turn (its wait is interrupted) or the step was
\* cancelled.
InterruptedRecovery ==
  /\ ~releasing /\ phase = "recover" /\ (turnAborted \/ stepState[current] = "cancelled")
  /\ HandleLoopCancellation
  /\ UNCHANGED <<runFrame, clock>>

\* Mutant: the next iteration does not look at the turn's signal.
IterateRegardless ==
  /\ ~releasing /\ phase = "loop"
  /\ BeginLoopStep(active, reqState, stepState, steps, FALSE)
  /\ UNCHANGED <<runFrame, clock>>

NextIteration ==
  /\ ~releasing /\ phase = "loop"
  /\ BeginLoopStep(active, reqState, stepState, steps, turnAborted)
  /\ UNCHANGED <<runFrame, clock>>

\* completeLoopStep: the next iteration, the end of the turn asked for by a
\* hook, or the failure of a filtered response.
CompleteLoopStep ==
  LET ss == [stepState EXCEPT ![current] = "completed"]
  IN  /\ ~releasing /\ phase = "after"
      /\ UNCHANGED <<runFrame, clock>>
      /\ \/ BeginLoopStep(active, reqState, ss, steps, turnAborted)
         \/ Return(active, reqState, ss, steps, "completed")
         \/ Return(active, reqState, ss, steps, IF turnAborted THEN "cancelled" ELSE "failed")

\* The finally block of runTurn: releaseActiveTurn, then pumpTurns.
EndTurn ==
  LET left == Cancellable(stepState, ToSet(active.steps))
  IN  /\ ~releasing /\ phase = "return"
      /\ turnOutcome' = [turnOutcome EXCEPT ![active.request] = result]
      /\ waiters' = MaybeSettle(pendingTurns = <<>> /\ held = <<>>)
      /\ UNCHANGED <<assignment, waitingVars, quiescence, disposing, nextReserved, journalVars>>
      /\ PumpTurns(pendingTurns, Abort(reqState, left), CancelSteps(stepState, left))

-----------------------------------------------------------------------------
(* Waiting for, and disposing of, the service *)

Settled ==
  /\ ~releasing /\ waiters < MaxWaiters
  /\ active # None \/ pendingTurns # <<>> \/ held # <<>>
  /\ waiters' = waiters + 1
  /\ UNCHANGED <<requestVars, waitingVars, pendingTurns, runVars, quiescence, disposing, clock,
                 nextReserved, journalVars>>

Dispose ==
  LET jobs == ToSet(pendingTurns)
      dropped == Cancellable(stepState, UNION {ToSet(job.steps) : job \in jobs})
      waiting == ToSet(standalone) \cup ToSet(held)
  IN  /\ ~releasing /\ ~disposing
      /\ disposing' = TRUE
      /\ pendingTurns' = <<>>
      /\ clock' = ApplyCancel(clock, {job.id : job \in jobs} \cup
                                   (IF active = None THEN {} ELSE {active.id}))
      /\ turnOutcome' = [r \in Requests |-> IF \E job \in jobs : job.request = r
                                              THEN "cancelled" ELSE turnOutcome[r]]
      /\ stepState' = CancelSteps(stepState, dropped)
      /\ reqState' = Abort(reqState, dropped \cup waiting)
      /\ assignment' = [r \in Requests |-> IF r \in waiting THEN "rejected" ELSE assignment[r]]
      /\ standalone' = <<>> /\ held' = <<>>
      /\ turnAborted' = (active # None)
      /\ waiters' = MaybeSettle(active = None)
      /\ UNCHANGED <<drain, releasing, active, phase, current, steps, result, quiescence,
                     nextReserved, journalVars>>

-----------------------------------------------------------------------------
(* The journal: records dispatched so far become durable; a restart keeps   *)
(* nothing else.                                                            *)

Flush ==
  /\ ~releasing /\ restarts < MaxRestarts /\ durable # clock
  /\ durable' = clock
  /\ UNCHANGED <<requestVars, waitingVars, pendingTurns, runVars, controlVars, clock,
                 nextReserved, restored, restarts>>

Restart ==
  /\ restarts < MaxRestarts
  /\ restarts' = restarts + 1
  /\ reqState' = [r \in Requests |-> "new"]
  /\ assignment' = [r \in Requests |-> "none"]
  /\ stepState' = [r \in Requests |-> "none"]
  /\ turnOutcome' = [r \in Requests |-> "none"]
  /\ standalone' = <<>> /\ held' = <<>> /\ drain' = <<>> /\ releasing' = FALSE
  /\ pendingTurns' = <<>>
  /\ active' = None /\ phase' = "idle" /\ current' = None
  /\ steps' = 0 /\ result' = "none" /\ turnAborted' = FALSE
  /\ quiescence' = 0 /\ disposing' = FALSE /\ waiters' = 0
  /\ nextReserved' = 0
  /\ clock' = durable /\ restored' = durable
  /\ UNCHANGED durable

-----------------------------------------------------------------------------
RunStep ==
  \/ FinishStep \/ AbortedStep \/ FailedStep \/ CompleteLoopStep
  \/ RetryStep \/ GiveUpStep \/ InterruptedRecovery
  \/ NextIteration \/ EndTurn

Replay == ReplayHeld \/ ReplayDone

Client ==
  \/ \E r \in Requests : Enqueue(r) \/ CancelStep(r)
  \/ TryAcquireQuiescence
  \/ CancelActiveTurn
  \/ \E i \in DOMAIN pendingTurns : CancelQueuedTurn(i)
  \/ \E i \in DOMAIN held : AbortHeld(i)
  \/ \E i \in DOMAIN standalone : AbortStandalone(i)
  \/ Settled
  \/ Dispose

Next == RunStep \/ Replay \/ ReleaseQuiescence \/ Client \/ Flush \/ Restart

Spec == Init /\ [][Next]_vars

\* The event loop runs what is ready, the provider and the hooks answer, and
\* the one holder of a lease (undo) releases it in a finally block.
Fairness == WF_vars(RunStep) /\ WF_vars(Replay) /\ WF_vars(ReleaseQuiescence)

FairSpec == Spec /\ Fairness
-----------------------------------------------------------------------------
(* Properties *)

LiveJobs == ToSet(pendingTurns) \cup (IF active = None THEN {} ELSE {active})

\* The control state of the service: a turn is active exactly while its run is
\* under way, and held admissions are replayed with no lease out and before any
\* disposal.
ControlOK ==
  /\ active = None <=> phase = "idle"
  /\ phase \in {"exec", "after", "recover"} => current \in ToSet(active.steps)
  /\ releasing => quiescence = 0 /\ ~disposing
  /\ drain # <<>> => releasing

\* A turn waits only behind a running turn.  Nothing but the end of a turn or
\* the release of a lease pumps the queue, so a turn queued while no turn runs
\* would never start (pumpTurns, tryAcquireQuiescence, dispose).
NoStrandedTurn == pendingTurns # <<>> => active # None

\* While a quiescence lease is out (undo rewrites the context) no turn runs, no
\* turn is queued and no request waits outside heldAdmissions.
QuiescentWhileLeased ==
  quiescence > 0 => active = None /\ pendingTurns = <<>> /\ standalone = <<>> /\ drain = <<>>

\* Turn ids increase along the queue, the running turn has the least, and
\* reserveTurnId never hands out an id a live turn has.
TurnIdsOrdered ==
  /\ \A i, j \in DOMAIN pendingTurns : i < j => pendingTurns[i].id < pendingTurns[j].id
  /\ active # None => /\ active.id < clock.next
                      /\ \A i \in DOMAIN pendingTurns : active.id < pendingTurns[i].id
  /\ \A job \in LiveJobs : job.id < nextReserved

\* Every id reserved and not yet passed by the clock is that of a queued turn
\* or of a cancelled one: the clock can reach each queued turn.
ReservationsCovered ==
  /\ clock.next \notin clock.cancelled
  /\ \A id \in clock.next .. (nextReserved - 1) :
       id \in clock.cancelled \/ \E i \in DOMAIN pendingTurns : pendingTurns[i].id = id

\* No queued turn has an id the clock has passed or will skip, unless the
\* process inherited cancelled reservations.
QueuedAhead ==
  restored.cancelled = {} =>
    /\ \A i \in DOMAIN pendingTurns : /\ pendingTurns[i].id >= clock.next
                                      /\ pendingTurns[i].id \notin clock.cancelled
    /\ \A id \in clock.cancelled : id < nextReserved

\* The id a turn runs under is the id the journal gives it: when its
\* turn.prompt record is dispatched the persisted clock stands at that id, in
\* whatever order queued turns were reserved and cancelled before.  Replaying
\* the journal then numbers the turns as the live process did.  The process
\* must not have inherited cancelled reservations from an earlier one.
StartsOnClock ==
  [][ restored.cancelled = {} /\ active' # None /\ (active = None \/ active.id # active'.id)
      => active'.id = clock.next ]_vars

\* No turn of this process has the id of a turn that an earlier process is
\* known to have started.
NoReuseOfStartedIds == \A job \in LiveJobs : job.id >= restored.next

\* The number of queues a request waits in.
Homes(r) ==
  Cardinality({i \in DOMAIN held : held[i] = r})
  + Cardinality({i \in DOMAIN standalone : standalone[i] = r})
  + Cardinality({i \in DOMAIN drain : drain[i] = r})
  + Cardinality({i \in DOMAIN pendingTurns : r \in pendingTurns[i].queued})
  + (IF active # None /\ r \in active.queued THEN 1 ELSE 0)

\* A request that was accepted and neither ran nor was aborted waits in exactly
\* one queue, and its assignment promise is open exactly while that queue
\* belongs to no turn: no request is lost or run twice, no promise is left
\* hanging.
RequestsConserved ==
  \A r \in Requests :
    /\ reqState[r] = "pending" /\ assignment[r] # "rejected" => Homes(r) = 1
    /\ assignment[r] = "waiting" <=> r \in ToSet(held) \cup ToSet(standalone) \cup ToSet(drain)

\* A step that is not settled belongs to a live turn: when a turn ends, the
\* result promise of every step of it has been resolved.
OpenStepsHaveTurns ==
  \A r \in Requests : stepState[r] \in {"queued", "running"} =>
    \E job \in LiveJobs : r \in ToSet(job.steps)

\* settled() resolves only when no turn is active, none is queued and no
\* admission is held: agentLifecycle.remove disposes the agent next.
SettleIsQuiet ==
  [][ waiters' < waiters => active' = None /\ pendingTurns' = <<>> /\ held' = <<>> ]_vars

\* Disposal leaves nothing queued or promised and no turn starts after it.
DisposedStaysDown ==
  [][ disposing' => /\ pendingTurns' = <<>> /\ held' = <<>> /\ standalone' = <<>>
                    /\ \A r \in Requests : assignment'[r] # "waiting"
                    /\ active = None => active' = None ]_vars

\* No step of a turn begins after the turn was cancelled.
NoStepAfterCancel ==
  [][ turnAborted /\ active # None /\ active' # None /\ active'.id = active.id
      => steps' = steps ]_vars

\* Every turn that was queued is eventually settled.
TurnsSettle == \A r \in Requests : turnOutcome[r] = "open" ~> turnOutcome[r] # "open"

\* Every settled() promise is eventually resolved.
SettledResolves == waiters > 0 ~> waiters = 0
=============================================================================
