------------------------------ MODULE AgentTurns ------------------------------
(***************************************************************************)
(* One agent with both of its runtimes, as rpcService wires them: prompts  *)
(* and steers of the user go to the engine turn runner (EngineTurns),      *)
(* while skills, cron firings, waits, shell output and the notifications   *)
(* of TypeScript tasks go through the loop (TurnLoop), and undo takes its  *)
(* lease from the loop.  The two run on one event loop and know nothing of *)
(* each other; what they share is the turn clock of the agent's wire.      *)
(***************************************************************************)
EXTENDS Naturals, Sequences

CONSTANTS
  Requests, Admission, Mergeable, TurnScoped, MaxSteps, MaxLeases, MaxWaiters, MaxRestarts,
  Inputs, Kind, MaxStepsPerTurn, ReviewMinSteps, None

VARIABLES
  clock,                                                        \* shared
  reqState, assignment, stepState, turnOutcome, standalone, held, drain, releasing,
  pendingTurns, active, phase, current, steps, result, turnAborted, quiescence,
  disposing, waiters, nextReserved, durable, restored, restarts, \* the loop
  context, queued, executing, runPhase, activeSession, open, calling, disposed,
  engine, steerQueue, cancelFlag, engineSteps, engineOutcome, events, stopUsed,
  hooks, fate                                                    \* the runner

Loop == INSTANCE TurnLoop
Runner == INSTANCE EngineTurns

\* The loop's variables but the clock, and the runner's.
loopOwn ==
  <<reqState, assignment, stepState, turnOutcome, standalone, held, drain, releasing,
    pendingTurns, active, phase, current, steps, result, turnAborted, quiescence,
    disposing, waiters, nextReserved, durable, restored, restarts>>
runnerOwn ==
  <<context, queued, executing, runPhase, activeSession, open, calling, disposed, engine,
    steerQueue, cancelFlag, engineSteps, engineOutcome, events, stopUsed, hooks, fate>>

Init == Loop!Init /\ Runner!Init

\* The synchronous pieces of each runtime exclude the other: the replay of held
\* admissions, and a native steer in progress.  The engine's thread goes on.
LoopStep == calling = None /\ Loop!Next /\ UNCHANGED runnerOwn

RunnerStep ==
  /\ \/ Runner!EngineStep
     \/ ~releasing /\ Runner!Next
  /\ UNCHANGED loopOwn

Next == LoopStep \/ RunnerStep

Spec == Init /\ [][Next]_<<clock, loopOwn, runnerOwn>>
-----------------------------------------------------------------------------
\* The live turns of each runtime, by id.
LoopTurnIds ==
  {pendingTurns[k].id : k \in DOMAIN pendingTurns} \cup (IF active = None THEN {} ELSE {active.id})
RunnerTurnIds ==
  {queued[k].id : k \in {j \in DOMAIN queued : ~queued[j].cancelled}}
    \cup (IF executing = None THEN {} ELSE {executing.id})

\* undoService: "Cannot undo while a turn is active or queued".  Its lease is
\* granted only when no turn of either runtime is live.
UndoRefusedWhileBusy ==
  [][quiescence' > quiescence => LoopTurnIds \cup RunnerTurnIds = {}]_<<clock, loopOwn, runnerOwn>>
=============================================================================
