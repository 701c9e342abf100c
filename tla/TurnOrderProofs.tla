--------------------------- MODULE TurnOrderProofs ---------------------------
(***************************************************************************)
(* The order of turns in TurnLoop: queued turns always get their chance,   *)
(* and each turn runs under the id the journal will give it; and what      *)
(* becomes of the requests: none is lost, run twice or left unanswered.    *)
(*                                                                         *)
(* The argument about turns has two halves.  The first reduces every       *)
(* action to its effect on the queue, the running turn and the clock:      *)
(* there are seven (Effect).  The second shows that the invariant of the   *)
(* ids survives each of the seven.                                         *)
(*                                                                         *)
(* The argument about requests (RequestInv) has an invariant for those     *)
(* that wait outside turns (WaitsOK) and one for those in turns (TurnsOK), *)
(* stated of the queues as values: one call changes them several times.    *)
(***************************************************************************)
EXTENDS TurnLoopProofs

\* Nothing is queued while a lease is out or after disposal.
LeaseOK ==
  /\ quiescence > 0 => active = None /\ pendingTurns = <<>> /\ drain = <<>>
  /\ disposing => pendingTurns = <<>>

\* The ids of live turns, spelled out by position.
IdsOrdered ==
  /\ \A i, j \in DOMAIN pendingTurns : i < j => pendingTurns[i].id < pendingTurns[j].id
  /\ \A i \in DOMAIN pendingTurns : /\ pendingTurns[i].id < nextReserved
                                    /\ pendingTurns[i].id >= restored.next
  /\ active # None => /\ active.id < clock.next /\ active.id < nextReserved
                      /\ active.id >= restored.next
                      /\ \A i \in DOMAIN pendingTurns : active.id < pendingTurns[i].id
  /\ clock.next >= restored.next

IdInv == IdsOrdered /\ ReservationsCovered /\ QueuedAhead

OrderInv == TypeInv /\ NoStrandedTurn /\ LeaseOK /\ IdInv

-----------------------------------------------------------------------------
(* The seven effects *)

Keeps ==
  /\ UNCHANGED <<pendingTurns, clock, nextReserved, restored>>
  /\ active = None => active' = None
  /\ active # None => active' \in Job /\ active'.id = active.id

Queues(job) ==
  /\ active # None /\ UNCHANGED <<active, clock, restored>>
  /\ pendingTurns' = Append(pendingTurns, job)
  /\ job.id = ReserveTurnId /\ nextReserved' = job.id + 1

Starts(job) ==
  /\ active = None /\ pendingTurns = <<>> /\ pendingTurns' = <<>>
  /\ active' \in Job /\ active'.id = job.id
  /\ clock' = ApplyPrompt(clock) /\ UNCHANGED restored
  /\ job.id = ReserveTurnId /\ nextReserved' = job.id + 1

Ends ==
  /\ active # None /\ pendingTurns = <<>> /\ active' = None
  /\ UNCHANGED <<pendingTurns, clock, nextReserved, restored>>

Succeeds ==
  /\ active # None /\ pendingTurns # <<>>
  /\ pendingTurns' = Tail(pendingTurns)
  /\ active' \in Job /\ active'.id = Head(pendingTurns).id
  /\ clock' = ApplyPrompt(clock) /\ UNCHANGED <<nextReserved, restored>>

Drops(i) ==
  /\ pendingTurns' = RemoveAt(pendingTurns, i)
  /\ clock' = ApplyCancel(clock, {pendingTurns[i].id})
  /\ UNCHANGED <<active, nextReserved, restored>>

Empties ==
  /\ pendingTurns' = <<>>
  /\ clock' = ApplyCancel(clock, {job.id : job \in ToSet(pendingTurns)} \cup
                               (IF active = None THEN {} ELSE {active.id}))
  /\ UNCHANGED <<active, nextReserved, restored>>

Effect ==
  \/ Keeps
  \/ \E job \in Job : Queues(job) \/ Starts(job)
  \/ Ends
  \/ Succeeds
  \/ \E i \in DOMAIN pendingTurns : Drops(i)
  \/ Empties
  \/ Restart

-----------------------------------------------------------------------------
(* Every action has one of the effects *)

\* The clock ignores records of the running turn: it has passed its id.
LEMMA RunningPassed ==
  ASSUME OrderInv, active # None
  PROVE  /\ ApplyCancel(clock, {active.id}) = clock
         /\ ApplyLoopEvent(clock, active.id) = clock
<1>1. active \in Job /\ active.id \in Nat
  BY TypeInvParts DEF OrderInv, runTypes, Job
<1>2. active.id < clock.next
  BY DEF OrderInv, IdInv, IdsOrdered
<1>3. ClockOK(clock) /\ clock.next \in Nat
  BY TypeInvParts DEF OrderInv, ClockOK, Clock
<1>4. ApplyLoopEvent(clock, active.id) = clock
  BY <1>1, <1>2, <1>3, LoopEventProps
<1>5. ApplyCancel(clock, {active.id}) = clock
  <2>1. {id \in {active.id} : id >= clock.next} = {}
    BY <1>1, <1>2, <1>3
  <2> QED BY <2>1 DEF ApplyCancel
<1> QED BY <1>4, <1>5

LEMMA AdmitEffect ==
  ASSUME OrderInv, NEW r \in Requests, NEW rs \in [Requests -> ReqStates],
         NEW as, NEW refused, Admit(r, rs, as, refused),
         quiescence = 0, ~disposing, quiescence' = quiescence, restored' = restored
  PROVE  Keeps \/ \E job \in Job : Queues(job) \/ Starts(job)
<1>0. Admission[r] \in Admissions /\ TypeInv
  BY LoopAssumption DEF OrderInv
<1>1. CASE Admission[r] = "newTurn" \/ (Admission[r] = "activeOrNewTurn" /\ active = None)
  <2> DEFINE job == NewJob(r)
             ss == [x \in Requests |-> IF x \in job.queued THEN "queued" ELSE stepState[x]]
  <2>1. CreateAndQueueTurn(r, rs)
    BY <1>1 DEF Admit
  <2>2. job \in Job
    BY <1>0, NewJobType
  <2>3. job.id = ReserveTurnId /\ nextReserved' = job.id + 1
    BY <2>1 DEF CreateAndQueueTurn, NewJob
  <2>4. IF active = None
          THEN PumpTurns(Append(pendingTurns, job), rs, ss)
          ELSE /\ pendingTurns' = Append(pendingTurns, job)
               /\ reqState' = rs /\ stepState' = ss
               /\ UNCHANGED <<runVars, clock>>
    BY <2>1 DEF CreateAndQueueTurn, NewJob
  <2>5. ss \in [Requests -> StepStates]
    BY <1>0, TypeInvParts DEF requestTypes, StepStates
  <2> HIDE DEF job, ss
  <2>6. CASE active # None
    <3>1. Queues(job)
      BY <2>3, <2>4, <2>6 DEF Queues, runVars
    <3> QED BY <2>2, <3>1
  <2>7. CASE active = None
    <3>1. pendingTurns = <<>>
      BY <2>7 DEF OrderInv, NoStrandedTurn
    <3>2. Append(pendingTurns, job) = <<job>>
      BY <3>1
    <3>3. <<job>> \in Seq(Job) /\ <<job>> # <<>> /\ Head(<<job>>) = job /\ Tail(<<job>>) = <<>>
      BY <2>2
    <3>4. PumpTurns(<<job>>, rs, ss)
      BY <2>4, <2>7, <3>2
    <3>5. PumpIdle(<<job>>, rs, ss) \/ PumpStart(<<job>>)
      BY <2>5, <3>3, <3>4, PumpShape
    <3>6. PumpStart(<<job>>)
      BY <3>3, <3>5 DEF PumpIdle
    <3>7. pendingTurns' = <<>> /\ clock' = ApplyPrompt(clock) /\ RunShape(job)
      BY <3>3, <3>6 DEF PumpStart
    <3>8. Starts(job)
      BY <2>3, <2>7, <3>1, <3>7 DEF Starts, RunShape
    <3> QED BY <2>2, <3>8
  <2> QED BY <2>6, <2>7
<1>2. CASE Admission[r] # "newTurn" /\ active # None
  <2>1. AssignToActive(r, rs)
    BY <1>2 DEF Admit
  <2>2. active' = [active EXCEPT !.steps = Append(@, r), !.queued = @ \cup {r}]
    BY <2>1 DEF AssignToActive
  <2>3. active \in Job
    BY <1>0, <1>2, TypeInvParts DEF runTypes
  <2>4. active'.id = active.id
    BY <2>2, <2>3 DEF Job
  <2>5. active' \in Job
    <3>1. admitTypes'
      BY <1>0, <1>2, <2>1, AssignTypes
    <3>2. phase' = phase /\ phase # "idle"
      BY <1>0, <1>2, <2>1, TypeInvParts DEF AssignToActive, runTypes
    <3> QED BY <3>1, <3>2 DEF admitTypes, runTypes
  <2> QED BY <1>2, <2>1, <2>4, <2>5 DEF AssignToActive, Keeps
<1>3. CASE Admission[r] \in {"activeOrNextTurn", "activeTurnOnly"} /\ active = None
  <2>1. UNCHANGED <<pendingTurns, active, clock, nextReserved>>
    BY <1>3 DEF Admit, runVars
  <2> QED BY <1>3, <2>1 DEF Keeps
<1> QED BY <1>0, <1>1, <1>2, <1>3 DEF Admissions

\* pumpTurns with nothing running: there is nothing to start then.
LEMMA PumpEmpty ==
  ASSUME TypeInv, PumpTurns(<<>>, reqState, stepState)
  PROVE  pendingTurns' = <<>> /\ active' = None /\ clock' = clock
BY DEF PumpTurns

LEMMA EndEffect ==
  ASSUME OrderInv, EndTurn
  PROVE  Ends \/ Succeeds
<1> DEFINE left == Cancellable(stepState, ToSet(active.steps))
           rs == Abort(reqState, left)
           ss == CancelSteps(stepState, left)
<1>1. TypeInv /\ phase = "return" /\ UNCHANGED <<nextReserved, restored, quiescence>>
  BY DEF EndTurn, OrderInv, journalVars
<1>2. active # None
  BY <1>1, TypeInvParts DEF runTypes
<1>3. PumpTurns(pendingTurns, rs, ss)
  BY DEF EndTurn
<1>4. rs \in [Requests -> ReqStates] /\ ss \in [Requests -> StepStates]
      /\ pendingTurns \in Seq(Job)
  BY <1>1, AbortType, CancelStepsType, TypeInvParts DEF requestTypes
<1> HIDE DEF rs, ss
<1>5. PumpIdle(pendingTurns, rs, ss) \/ PumpStart(pendingTurns)
  BY <1>3, <1>4, PumpShape
<1>6. quiescence' = 0
  BY <1>1, <1>2, TypeInvParts DEF OrderInv, LeaseOK, controlTypes
<1>7. CASE PumpIdle(pendingTurns, rs, ss)
  <2>1. pendingTurns = <<>>
    BY <1>6, <1>7 DEF PumpIdle, OrderInv, LeaseOK
  <2> QED BY <1>1, <1>2, <1>7, <2>1 DEF PumpIdle, Ends
<1>8. CASE PumpStart(pendingTurns)
  BY <1>1, <1>2, <1>8 DEF PumpStart, RunShape, Succeeds
<1> QED BY <1>5, <1>7, <1>8

\* The steps of the run keep the turn they are part of.
LEMMA RunEffect ==
  ASSUME OrderInv, RunStep, ~EndTurn
  PROVE  /\ Keeps
         /\ UNCHANGED <<quiescence, disposing, drain>>
         /\ active # None
<1>0. TypeInv
  BY DEF OrderInv
<1>1. UNCHANGED runFrame /\ phase # "idle"
  BY DEF RunStep, FinishStep, AbortedStep, FailedStep, CompleteLoopStep, RetryStep, GiveUpStep,
         InterruptedRecovery, NextIteration
<1>2. UNCHANGED <<pendingTurns, nextReserved, restored, quiescence, disposing, drain>>
  BY <1>1 DEF runFrame, journalVars, controlVars, waitingVars
<1>3. active \in Job /\ active # None
  BY <1>0, <1>1, RunningJob, NoneAssumption
<1>4. clock' = clock
  BY <1>3, RunningPassed DEF RunStep, FinishStep, AbortedStep, FailedStep, CompleteLoopStep,
         RetryStep, GiveUpStep, InterruptedRecovery, NextIteration
<1>5. active' \in Job /\ active'.id = active.id
  <2>1. CASE UNCHANGED active
    BY <1>3, <2>1
  <2>2. CASE RunShape(active)
    BY <2>2 DEF RunShape
  <2>3. CASE RetryStep
    <3>1. active' = [active EXCEPT !.queued = @ \cup {current}] /\ phase' = "loop"
      BY <2>3 DEF RetryStep
    <3>2. active' \in Job
      BY <1>0, <2>3, <3>1, RetryType, TypeInvPartsPrime DEF runTypes
    <3> QED BY <1>3, <3>1, <3>2 DEF Job
  <2>4. /\ reqState \in [Requests -> ReqStates] /\ stepState \in [Requests -> StepStates]
        /\ steps \in Nat /\ turnAborted \in BOOLEAN
    BY <1>0, TypeInvParts DEF requestTypes, runTypes
  <2>5. "cancelled" \in Results /\ "failed" \in Results /\ "completed" \in Results
    BY DEF Results
  <2>6. CASE AbortedStep \/ InterruptedRecovery
    <3>1. UNCHANGED active \/ Return(active, reqState, stepState, steps, "cancelled")
      BY <2>6 DEF AbortedStep, InterruptedRecovery, HandleLoopCancellation
    <3> QED BY <1>3, <2>1, <2>2, <2>4, <2>5, <3>1, ReturnShape
  <2>7. CASE GiveUpStep \/ NextIteration
    <3>1. \/ Return(active, reqState, stepState, steps, "failed")
          \/ BeginLoopStep(active, reqState, stepState, steps, turnAborted)
      BY <2>7 DEF GiveUpStep, NextIteration
    <3> QED BY <1>3, <2>2, <2>4, <2>5, <3>1, ReturnShape, BeginShape
  <2>8. CASE CompleteLoopStep
    <3> DEFINE ss == [stepState EXCEPT ![current] = "completed"]
               res == IF turnAborted THEN "cancelled" ELSE "failed"
    <3>1. \/ BeginLoopStep(active, reqState, ss, steps, turnAborted)
          \/ Return(active, reqState, ss, steps, "completed")
          \/ Return(active, reqState, ss, steps, res)
      BY <2>8 DEF CompleteLoopStep
    <3>2. ss \in [Requests -> StepStates] /\ res \in Results
      BY <2>4, <2>5 DEF StepStates
    <3> HIDE DEF ss, res
    <3> QED BY <1>3, <2>2, <2>4, <2>5, <3>1, <3>2, ReturnShape, BeginShape
  <2>9. CASE FinishStep \/ FailedStep
    BY <2>1, <2>9 DEF FinishStep, FailedStep
  <2> QED BY <2>3, <2>6, <2>7, <2>8, <2>9 DEF RunStep
<1> QED BY <1>2, <1>3, <1>4, <1>5 DEF Keeps

\* The actions of clients other than admissions.
LEMMA ClientEffect ==
  ASSUME OrderInv, Client, ~(\E r \in Requests : Enqueue(r))
  PROVE  Effect /\ LeaseOK'
<1>0. TypeInv
  BY DEF OrderInv
<1>1. ASSUME UNCHANGED <<pendingTurns, active, clock, nextReserved, restored>>
      PROVE  Keeps
  BY <1>0, <1>1, TypeInvParts DEF Keeps, runTypes
<1>2. ASSUME UNCHANGED <<pendingTurns, active, quiescence, disposing, drain>>
      PROVE  LeaseOK'
  BY <1>2 DEF OrderInv, LeaseOK
<1>3. CASE \/ \E r \in Requests : CancelStep(r)
           \/ \E i \in DOMAIN held : AbortHeld(i)
           \/ \E i \in DOMAIN standalone : AbortStandalone(i)
           \/ Settled
  <2>1. UNCHANGED <<pendingTurns, active, clock, nextReserved, restored, quiescence, disposing,
                    drain>>
    BY <1>3 DEF CancelStep, AbortHeld, AbortStandalone, Settled, runVars, journalVars,
                controlVars, waitingVars
  <2> QED BY <1>1, <1>2, <2>1 DEF Effect
<1>4. CASE TryAcquireQuiescence
  <2>1. /\ UNCHANGED <<pendingTurns, active, clock, nextReserved, restored, disposing, drain>>
        /\ ~releasing /\ ~disposing /\ active = None /\ ~HasPendingRequests
    BY <1>4 DEF TryAcquireQuiescence, runVars, journalVars, waitingVars
  <2>2. pendingTurns = <<>> /\ drain = <<>>
    BY <1>0, <2>1, TypeInvParts DEF HasPendingRequests, waitingTypes
  <2>3. LeaseOK'
    BY <2>1, <2>2 DEF LeaseOK
  <2> QED BY <1>1, <2>1, <2>3 DEF Effect
<1>5. CASE CancelActiveTurn
  <2>1. UNCHANGED <<pendingTurns, active, clock, nextReserved, restored, quiescence, disposing,
                    drain>>
    BY <1>5, RunningPassed DEF CancelActiveTurn, journalVars, controlVars, waitingVars
  <2> QED BY <1>1, <1>2, <2>1 DEF Effect
<1>6. CASE \E i \in DOMAIN pendingTurns : CancelQueuedTurn(i)
  <2>1. PICK i \in DOMAIN pendingTurns : CancelQueuedTurn(i)
    BY <1>6
  <2>2. Drops(i) /\ UNCHANGED <<active, quiescence, disposing, drain>>
    BY <2>1 DEF CancelQueuedTurn, DropQueuedTurn, Drops, runVars, journalVars, waitingVars
  <2>3. pendingTurns # <<>>
    BY <2>1
  <2>4. LeaseOK'
    BY <2>2, <2>3 DEF OrderInv, LeaseOK
  <2> QED BY <2>2, <2>4 DEF Effect
<1>7. CASE Dispose
  <2>1. Empties /\ UNCHANGED <<active, quiescence, drain>>
    BY <1>7 DEF Dispose, Empties, journalVars
  <2>2. LeaseOK'
    BY <2>1 DEF OrderInv, LeaseOK, Empties
  <2> QED BY <2>1, <2>2 DEF Effect
<1> QED BY <1>3, <1>4, <1>5, <1>6, <1>7 DEF Client

LEMMA NextEffect ==
  ASSUME OrderInv, [Next]_vars
  PROVE  Effect /\ LeaseOK'
<1>0. TypeInv
  BY DEF OrderInv
<1>1. CASE \E r \in Requests : Enqueue(r)
  <2>1. PICK r \in Requests : Enqueue(r)
    BY <1>1
  <2> DEFINE rs == [reqState EXCEPT ![r] = "pending"]
             as == [assignment EXCEPT ![r] = "waiting"]
  <2>2. UNCHANGED <<drain, releasing, quiescence, disposing, restored>> /\ ~disposing
    BY <2>1 DEF Enqueue, CanEnqueue, controlVars, journalVars
  <2>3. CASE UNCHANGED <<pendingTurns, runVars, clock, nextReserved>>
    <3>1. Keeps
      BY <1>0, <2>2, <2>3, TypeInvParts DEF Keeps, runVars, runTypes
    <3>2. LeaseOK'
      BY <2>2, <2>3 DEF OrderInv, LeaseOK, runVars
    <3> QED BY <3>1, <3>2 DEF Effect
  <2>4. CASE quiescence = 0 /\ Admit(r, rs, as, "pending")
    <3>1. rs \in [Requests -> ReqStates]
      BY <1>0, TypeInvParts DEF requestTypes, ReqStates
    <3> HIDE DEF rs, as
    <3>2. Keeps \/ \E job \in Job : Queues(job) \/ Starts(job)
      BY <2>2, <2>4, <3>1, AdmitEffect
    <3>3. LeaseOK'
      BY <2>2, <2>4 DEF LeaseOK
    <3> QED BY <3>2, <3>3 DEF Effect
  <2> QED BY <2>1, <2>3, <2>4 DEF Enqueue
<1>2. CASE ReplayHeld
  <2>1. /\ UNCHANGED <<quiescence, disposing, restored>> /\ quiescence = 0 /\ ~disposing
        /\ drain # <<>>
    BY <1>0, <1>2, TypeInvParts DEF ReplayHeld, controlVars, journalVars, controlTypes
  <2>2. Head(drain) \in Requests /\ reqState \in [Requests -> ReqStates]
    BY <1>0, <2>1, TypeInvParts DEF waitingTypes, requestTypes
  <2>3. Keeps \/ \E job \in Job : Queues(job) \/ Starts(job)
    BY <1>2, <2>1, <2>2, AdmitEffect DEF ReplayHeld
  <2>4. LeaseOK'
    BY <2>1 DEF LeaseOK
  <2> QED BY <2>3, <2>4 DEF Effect
<1>3. CASE ReplayDone
  <2>1. /\ UNCHANGED <<nextReserved, restored, quiescence, disposing>>
        /\ quiescence = 0 /\ ~disposing
    BY <1>0, <1>3, TypeInvParts DEF ReplayDone, journalVars, controlTypes
  <2>2. LeaseOK'
    BY <2>1 DEF LeaseOK
  <2>3. CASE active = None
    <3>1. pendingTurns = <<>>
      BY <2>3 DEF OrderInv, NoStrandedTurn
    <3>2. pendingTurns' = <<>> /\ active' = None /\ clock' = clock
      BY <1>0, <1>3, <2>3, <3>1, PumpEmpty DEF ReplayDone
    <3> QED BY <2>1, <2>2, <2>3, <3>1, <3>2 DEF Keeps, Effect
  <2>4. CASE active # None
    <3>1. UNCHANGED <<pendingTurns, active, clock>>
      BY <1>3, <2>4 DEF ReplayDone, runVars
    <3>2. Keeps
      BY <1>0, <2>1, <2>4, <3>1, TypeInvParts DEF Keeps, runTypes
    <3> QED BY <2>2, <3>2 DEF Effect
  <2> QED BY <2>3, <2>4
<1>4. CASE ReleaseQuiescence
  <2>1. /\ UNCHANGED <<nextReserved, restored, disposing>>
        /\ quiescence > 0 /\ quiescence' = quiescence - 1
    BY <1>4 DEF ReleaseQuiescence, journalVars
  <2>2. active = None /\ pendingTurns = <<>> /\ drain = <<>>
    BY <2>1 DEF OrderInv, LeaseOK
  <2>3. CASE UNCHANGED <<pendingTurns, runVars, drain, clock>>
    <3>1. Keeps
      BY <2>1, <2>2, <2>3 DEF Keeps, runVars
    <3>2. LeaseOK'
      BY <2>1, <2>2, <2>3 DEF LeaseOK, runVars
    <3> QED BY <3>1, <3>2 DEF Effect
  <2>4. CASE /\ ~(quiescence > 1 \/ disposing)
             /\ PumpTurns(pendingTurns, reqState, stepState)
    <3>1. pendingTurns' = <<>> /\ active' = None /\ clock' = clock
      BY <1>0, <2>2, <2>4, PumpEmpty
    <3>2. quiescence' = 0
      BY <1>0, <2>1, <2>4, TypeInvParts DEF controlTypes
    <3>3. LeaseOK'
      BY <3>1, <3>2 DEF LeaseOK
    <3> QED BY <2>1, <2>2, <3>1, <3>3 DEF Keeps, Effect
  <2> QED BY <1>4, <2>3, <2>4 DEF ReleaseQuiescence
<1>5. CASE EndTurn
  <2>1. UNCHANGED <<quiescence, disposing>> /\ phase = "return"
    BY <1>5 DEF EndTurn
  <2>2. active # None
    BY <1>0, <2>1, TypeInvParts DEF runTypes
  <2>3. quiescence' = 0
    BY <1>0, <2>1, <2>2, TypeInvParts DEF OrderInv, LeaseOK, controlTypes
  <2>4. Ends \/ Succeeds
    BY <1>5, EndEffect
  <2>5. LeaseOK'
    BY <2>1, <2>3, <2>4 DEF OrderInv, LeaseOK, Ends, Succeeds
  <2> QED BY <2>4, <2>5 DEF Effect
<1>6. CASE RunStep /\ ~EndTurn
  <2>1. Keeps /\ UNCHANGED <<quiescence, disposing, drain>> /\ active # None
    BY <1>6, RunEffect
  <2>2. LeaseOK'
    BY <2>1 DEF OrderInv, LeaseOK, Keeps
  <2> QED BY <2>1, <2>2 DEF Effect
<1>7. CASE Client /\ ~(\E r \in Requests : Enqueue(r))
  BY <1>7, ClientEffect
<1>8. CASE Flush \/ UNCHANGED vars
  <2>1. UNCHANGED <<pendingTurns, active, clock, nextReserved, restored, quiescence, disposing,
                    drain>>
    BY <1>8 DEF Flush, vars, runVars, controlVars, waitingVars, journalVars
  <2>2. Keeps
    BY <1>0, <2>1, TypeInvParts DEF Keeps, runTypes
  <2>3. LeaseOK'
    BY <2>1 DEF OrderInv, LeaseOK
  <2> QED BY <2>2, <2>3 DEF Effect
<1>9. CASE Restart
  <2>1. LeaseOK'
    BY <1>9 DEF Restart, LeaseOK
  <2> QED BY <1>9, <2>1 DEF Effect
<1> QED BY <1>1, <1>2, <1>3, <1>4, <1>5, <1>6, <1>7, <1>8, <1>9 DEF Next, Replay, Client
-----------------------------------------------------------------------------
(* The ids survive every effect *)

\* The types the arguments about ids need.
LEMMA IdTypes ==
  ASSUME TypeInv
  PROVE  /\ clock \in Clock /\ IsFiniteSet(clock.cancelled) /\ clock.next \in Nat
         /\ clock.cancelled \in SUBSET Nat
         /\ clock.next \notin clock.cancelled
         /\ nextReserved \in Nat /\ restored.next \in Nat
         /\ pendingTurns \in Seq(Job) /\ Len(pendingTurns) \in Nat
         /\ DOMAIN pendingTurns = 1 .. Len(pendingTurns)
         /\ \A i \in DOMAIN pendingTurns : pendingTurns[i].id \in Nat
         /\ active # None => active.id \in Nat
<1>1. /\ clock \in Clock /\ IsFiniteSet(clock.cancelled) /\ clock.next \in Nat
      /\ clock.cancelled \in SUBSET Nat /\ clock.next \notin clock.cancelled
      /\ nextReserved \in Nat /\ restored.next \in Nat
  BY TypeInvParts DEF ClockOK, Clock, journalTypes
<1>2. pendingTurns \in Seq(Job)
  BY TypeInvParts
<1>3. Len(pendingTurns) \in Nat /\ DOMAIN pendingTurns = 1 .. Len(pendingTurns)
      /\ \A i \in DOMAIN pendingTurns : pendingTurns[i] \in Job
  BY <1>2
<1>4. \A i \in DOMAIN pendingTurns : pendingTurns[i].id \in Nat
  BY <1>3 DEF Job
<1>5. active # None => active.id \in Nat
  BY TypeInvParts DEF runTypes, Job
<1> QED BY <1>1, <1>2, <1>3, <1>4, <1>5

LEMMA KeepsIds ==
  ASSUME OrderInv, Keeps
  PROVE  IdInv'
<1>1. IdsOrdered'
  BY DEF OrderInv, IdInv, IdsOrdered, Keeps
<1>2. ReservationsCovered' /\ QueuedAhead'
  BY DEF OrderInv, IdInv, ReservationsCovered, QueuedAhead, Keeps
<1> QED BY <1>1, <1>2 DEF IdInv

LEMMA EndsIds ==
  ASSUME OrderInv, Ends
  PROVE  IdInv'
<1>1. IdsOrdered'
  BY DEF OrderInv, IdInv, IdsOrdered, Ends
<1>2. ReservationsCovered' /\ QueuedAhead'
  BY DEF OrderInv, IdInv, ReservationsCovered, QueuedAhead, Ends
<1> QED BY <1>1, <1>2 DEF IdInv

\* The positions of a queue with a turn appended.
LEMMA QueuesIds ==
  ASSUME OrderInv, NEW job \in Job, Queues(job)
  PROVE  IdInv'
<1>0. TypeInv /\ IdsOrdered /\ ReservationsCovered /\ QueuedAhead
  BY DEF OrderInv, IdInv
<1> DEFINE n == Len(pendingTurns)
<1>1. /\ clock.next \in Nat /\ clock.cancelled \in SUBSET Nat /\ nextReserved \in Nat
      /\ restored.next \in Nat /\ n \in Nat /\ DOMAIN pendingTurns = 1 .. n
      /\ \A i \in 1 .. n : pendingTurns[i].id \in Nat
      /\ active # None => active.id \in Nat
  BY <1>0, IdTypes
<1>2. /\ job.id \in Nat /\ job.id >= nextReserved /\ job.id >= clock.next
      /\ job.id = nextReserved \/ job.id = clock.next
      /\ nextReserved' = job.id + 1
  BY <1>0, <1>1, ReserveType DEF Queues, ReserveTurnId
<1>3. active # None /\ active' = active /\ clock' = clock /\ restored' = restored
  BY DEF Queues
<1>4. /\ DOMAIN pendingTurns' = 1 .. (n + 1)
      /\ \A i \in 1 .. n : pendingTurns'[i] = pendingTurns[i]
      /\ pendingTurns'[n + 1] = job
  <2>1. pendingTurns \in Seq(Job) /\ pendingTurns' = Append(pendingTurns, job)
    BY <1>0, IdTypes DEF Queues
  <2> QED BY <2>1
<1> HIDE DEF n
<1>5. IdsOrdered'
  <2>1. /\ \A i, j \in 1 .. n : i < j => pendingTurns[i].id < pendingTurns[j].id
        /\ \A i \in 1 .. n : /\ pendingTurns[i].id < nextReserved
                             /\ pendingTurns[i].id >= restored.next
        /\ active.id < clock.next /\ active.id < nextReserved /\ active.id >= restored.next
        /\ \A i \in 1 .. n : active.id < pendingTurns[i].id
        /\ clock.next >= restored.next
    BY <1>0, <1>1, <1>3 DEF IdsOrdered
  <2>2. job.id >= restored.next
    BY <1>1, <1>2, <2>1
  <2>3. \A i \in 1 .. n : pendingTurns'[i].id < job.id
    BY <1>1, <1>2, <1>4, <2>1
  <2>4. \A i, j \in 1 .. (n + 1) : i < j => pendingTurns'[i].id < pendingTurns'[j].id
    <3> SUFFICES ASSUME NEW i \in 1 .. (n + 1), NEW j \in 1 .. (n + 1), i < j
                 PROVE  pendingTurns'[i].id < pendingTurns'[j].id
      OBVIOUS
    <3>1. i \in 1 .. n /\ (j = n + 1 \/ j \in 1 .. n)
      BY <1>1
    <3> QED BY <1>4, <2>1, <2>3, <3>1
  <2>5. \A i \in 1 .. (n + 1) : /\ pendingTurns'[i].id < nextReserved'
                                /\ pendingTurns'[i].id >= restored.next
                                /\ active.id < pendingTurns'[i].id
    <3> SUFFICES ASSUME NEW i \in 1 .. (n + 1)
                 PROVE  /\ pendingTurns'[i].id < nextReserved'
                        /\ pendingTurns'[i].id >= restored.next
                        /\ active.id < pendingTurns'[i].id
      OBVIOUS
    <3>1. i = n + 1 \/ i \in 1 .. n
      BY <1>1
    <3>2. active.id < job.id /\ active.id < nextReserved'
      BY <1>1, <1>2, <1>3, <2>1
    <3>3. CASE i = n + 1
      BY <1>2, <1>4, <2>2, <3>2, <3>3
    <3>4. CASE i \in 1 .. n
      BY <1>1, <1>2, <1>4, <2>1, <3>4
    <3> QED BY <3>1, <3>3, <3>4
  <2>6. active.id < nextReserved'
    BY <1>1, <1>2, <1>3, <2>1
  <2> QED BY <1>3, <1>4, <2>1, <2>4, <2>5, <2>6 DEF IdsOrdered
<1>6. ReservationsCovered'
  <2>1. ASSUME NEW id \in clock'.next .. (nextReserved' - 1)
        PROVE  id \in clock'.cancelled \/ \E i \in DOMAIN pendingTurns' : pendingTurns'[i].id = id
    <3>1. id = job.id \/ id \in clock.next .. (nextReserved - 1)
      BY <1>1, <1>2, <1>3
    <3>2. CASE id = job.id
      <4>1. n + 1 \in DOMAIN pendingTurns'
        BY <1>1, <1>4
      <4> QED BY <1>4, <3>2, <4>1
    <3>3. CASE id \in clock.next .. (nextReserved - 1)
      <4>1. id \in clock.cancelled \/ \E i \in 1 .. n : pendingTurns[i].id = id
        BY <1>0, <1>1, <3>3 DEF ReservationsCovered
      <4>2. \A i \in 1 .. n : i \in DOMAIN pendingTurns' /\ pendingTurns'[i] = pendingTurns[i]
        BY <1>1, <1>4
      <4> QED BY <1>3, <4>1, <4>2
    <3> QED BY <3>1, <3>2, <3>3
  <2>2. clock'.next \notin clock'.cancelled
    BY <1>0, <1>3 DEF ReservationsCovered
  <2> QED BY <2>1, <2>2 DEF ReservationsCovered
<1>7. QueuedAhead'
  <2> SUFFICES ASSUME restored.cancelled = {}
               PROVE  /\ \A i \in 1 .. (n + 1) : /\ pendingTurns'[i].id >= clock.next
                                                 /\ pendingTurns'[i].id \notin clock.cancelled
                      /\ \A id \in clock.cancelled : id < nextReserved'
    BY <1>3, <1>4 DEF QueuedAhead
  <2>1. /\ \A i \in 1 .. n : /\ pendingTurns[i].id >= clock.next
                             /\ pendingTurns[i].id \notin clock.cancelled
        /\ \A id \in clock.cancelled : id < nextReserved
    BY <1>0, <1>1 DEF QueuedAhead
  <2>2. job.id \notin clock.cancelled
    BY <1>1, <1>2, <2>1
  <2>3. \A id \in clock.cancelled : id < nextReserved'
    BY <1>1, <1>2, <2>1
  <2>4. ASSUME NEW i \in 1 .. (n + 1)
        PROVE  pendingTurns'[i].id >= clock.next /\ pendingTurns'[i].id \notin clock.cancelled
    <3>1. i = n + 1 \/ i \in 1 .. n
      BY <1>1
    <3> QED BY <1>2, <1>4, <2>1, <2>2, <3>1
  <2> QED BY <2>3, <2>4
<1> QED BY <1>5, <1>6, <1>7 DEF IdInv

\* With nothing queued every reservation has been passed: a turn that starts at
\* once starts on the clock.
LEMMA StartsAtClock ==
  ASSUME OrderInv, NEW job \in Job, Starts(job)
  PROVE  job.id = clock.next /\ nextReserved <= clock.next
<1>1. /\ clock.next \in Nat /\ nextReserved \in Nat /\ pendingTurns = <<>>
      /\ job.id = ReserveTurnId
  BY IdTypes DEF OrderInv, Starts
<1>2. ~(clock.next < nextReserved)
  <2> SUFFICES ASSUME clock.next < nextReserved PROVE FALSE
    OBVIOUS
  <2>1. clock.next \in clock.next .. (nextReserved - 1)
    BY <1>1
  <2>2. DOMAIN pendingTurns = {}
    BY <1>1
  <2> QED BY <2>1, <2>2 DEF OrderInv, IdInv, ReservationsCovered
<1> QED BY <1>1, <1>2 DEF ReserveTurnId

LEMMA StartsIds ==
  ASSUME OrderInv, NEW job \in Job, Starts(job)
  PROVE  IdInv'
<1>0. TypeInv /\ IdsOrdered /\ ReservationsCovered /\ QueuedAhead
  BY DEF OrderInv, IdInv
<1>1. /\ clock \in Clock /\ IsFiniteSet(clock.cancelled)
      /\ clock.next \in Nat /\ clock.cancelled \in SUBSET Nat /\ nextReserved \in Nat
      /\ restored.next \in Nat
  BY <1>0, IdTypes
<1>2. job.id = clock.next /\ nextReserved <= clock.next
  BY StartsAtClock
<1>3. /\ active' \in Job /\ active'.id = job.id /\ pendingTurns' = <<>>
      /\ clock' = ApplyPrompt(clock) /\ restored' = restored
      /\ nextReserved' = job.id + 1
  BY DEF Starts
<1>4. /\ clock' \in Clock /\ clock'.next > clock.next
      /\ clock'.next \notin clock'.cancelled /\ clock'.cancelled \subseteq clock.cancelled
  BY <1>1, <1>3, PromptProps
<1>5. clock'.next \in Nat
  BY <1>4 DEF Clock
<1>6. DOMAIN pendingTurns' = {}
  BY <1>3
<1>7. clock.next >= restored.next
  BY <1>0 DEF IdsOrdered
<1>8. IdsOrdered'
  <2>1. active'.id < clock'.next /\ active'.id < nextReserved' /\ active'.id >= restored.next
    BY <1>1, <1>2, <1>3, <1>4, <1>5, <1>7
  <2>2. clock'.next >= restored.next
    BY <1>1, <1>4, <1>5, <1>7
  <2> QED BY <1>3, <1>6, <2>1, <2>2 DEF IdsOrdered
<1>9. ReservationsCovered'
  <2>1. clock'.next .. (nextReserved' - 1) = {}
    BY <1>1, <1>2, <1>3, <1>4, <1>5
  <2> QED BY <1>4, <2>1 DEF ReservationsCovered
<1>10. QueuedAhead'
  <2> SUFFICES ASSUME restored.cancelled = {}
               PROVE  \A id \in clock'.cancelled : id < nextReserved'
    BY <1>3, <1>6 DEF QueuedAhead
  <2>1. \A id \in clock.cancelled : id < nextReserved
    BY <1>0 DEF QueuedAhead
  <2> QED BY <1>1, <1>2, <1>3, <1>4, <2>1
<1> QED BY <1>8, <1>9, <1>10 DEF IdInv
\* The clock has reached the head of the queue when a turn ends, and stands
\* exactly at it unless the process inherited cancelled reservations.
LEMMA SucceedsAtClock ==
  ASSUME OrderInv, Succeeds
  PROVE  /\ Head(pendingTurns).id <= clock.next
         /\ restored.cancelled = {} => Head(pendingTurns).id = clock.next
<1>0. TypeInv /\ IdsOrdered /\ ReservationsCovered /\ QueuedAhead /\ pendingTurns # <<>>
  BY DEF OrderInv, IdInv, Succeeds
<1> DEFINE n == Len(pendingTurns)
<1>1. /\ clock.next \in Nat /\ nextReserved \in Nat
      /\ pendingTurns \in Seq(Job) /\ n \in Nat /\ DOMAIN pendingTurns = 1 .. n
      /\ \A i \in 1 .. n : pendingTurns[i].id \in Nat
  BY <1>0, IdTypes
<1>2. 1 \in 1 .. n /\ Head(pendingTurns) = pendingTurns[1]
  BY <1>0, <1>1
<1> HIDE DEF n
<1>3. /\ \A i, j \in 1 .. n : i < j => pendingTurns[i].id < pendingTurns[j].id
      /\ pendingTurns[1].id < nextReserved
  BY <1>0, <1>1, <1>2 DEF IdsOrdered
<1>4. \A i \in 1 .. n : pendingTurns[1].id <= pendingTurns[i].id
  <2> SUFFICES ASSUME NEW i \in 1 .. n PROVE pendingTurns[1].id <= pendingTurns[i].id
    OBVIOUS
  <2>1. i = 1 \/ 1 < i
    BY <1>1
  <2>2. CASE 1 < i
    <3>1. pendingTurns[1].id < pendingTurns[i].id
      BY <1>2, <1>3, <2>2
    <3> QED BY <1>1, <1>2, <3>1
  <2> QED BY <1>1, <1>2, <2>1, <2>2
<1>5. pendingTurns[1].id <= clock.next
  <2> SUFFICES ASSUME clock.next < pendingTurns[1].id PROVE FALSE
    BY <1>1, <1>2
  <2>1. clock.next \in clock.next .. (nextReserved - 1)
    BY <1>1, <1>2, <1>3
  <2>2. PICK i \in 1 .. n : pendingTurns[i].id = clock.next
    BY <1>0, <1>1, <2>1 DEF ReservationsCovered
  <2>3. pendingTurns[1].id <= clock.next
    BY <1>4, <2>2
  <2> QED BY <1>1, <1>2, <2>3
<1>6. restored.cancelled = {} => pendingTurns[1].id >= clock.next
  BY <1>0, <1>1, <1>2 DEF QueuedAhead
<1> QED BY <1>1, <1>2, <1>5, <1>6

LEMMA SucceedsIds ==
  ASSUME OrderInv, Succeeds
  PROVE  IdInv'
<1>0. TypeInv /\ IdsOrdered /\ ReservationsCovered /\ QueuedAhead /\ pendingTurns # <<>>
  BY DEF OrderInv, IdInv, Succeeds
<1> DEFINE n == Len(pendingTurns)
           k == pendingTurns[1].id
<1>1. /\ clock \in Clock /\ IsFiniteSet(clock.cancelled)
      /\ clock.next \in Nat /\ clock.cancelled \in SUBSET Nat /\ nextReserved \in Nat
      /\ restored.next \in Nat
      /\ pendingTurns \in Seq(Job) /\ n \in Nat /\ DOMAIN pendingTurns = 1 .. n
      /\ \A i \in 1 .. n : pendingTurns[i].id \in Nat
  BY <1>0, IdTypes
<1>2. 1 \in 1 .. n /\ Head(pendingTurns) = pendingTurns[1] /\ k \in Nat
  BY <1>0, <1>1
<1>3. /\ DOMAIN pendingTurns' = 1 .. (n - 1)
      /\ \A i \in 1 .. (n - 1) : i + 1 \in 1 .. n /\ pendingTurns'[i] = pendingTurns[i + 1]
  <2>1. pendingTurns' = Tail(pendingTurns)
    BY DEF Succeeds
  <2> QED BY <1>0, <1>1, <2>1
<1>4. /\ active' \in Job /\ active'.id = k
      /\ clock' = ApplyPrompt(clock) /\ UNCHANGED <<nextReserved, restored>>
  BY <1>2 DEF Succeeds
<1>5. /\ clock' \in Clock /\ clock'.next > clock.next
      /\ clock'.next \notin clock'.cancelled /\ clock'.cancelled \subseteq clock.cancelled
      /\ \A id \in Nat : clock.next < id /\ id < clock'.next => id \in clock.cancelled
      /\ \A id \in clock.cancelled : id >= clock'.next => id \in clock'.cancelled
  BY <1>1, <1>4, PromptProps
<1>6. clock'.next \in Nat
  BY <1>5 DEF Clock
<1>7. k <= clock.next /\ (restored.cancelled = {} => k = clock.next)
  BY <1>2, SucceedsAtClock
<1> HIDE DEF n, k
<1>8. /\ \A i, j \in 1 .. n : i < j => pendingTurns[i].id < pendingTurns[j].id
      /\ \A i \in 1 .. n : /\ pendingTurns[i].id < nextReserved
                           /\ pendingTurns[i].id >= restored.next
      /\ clock.next >= restored.next
  BY <1>0, <1>1 DEF IdsOrdered
<1>9. \A i \in 1 .. (n - 1) : k < pendingTurns'[i].id
  <2> SUFFICES ASSUME NEW i \in 1 .. (n - 1) PROVE k < pendingTurns'[i].id
    OBVIOUS
  <2>1. i + 1 \in 1 .. n /\ 1 < i + 1 /\ pendingTurns'[i] = pendingTurns[i + 1]
    BY <1>1, <1>3
  <2> QED BY <1>2, <1>8, <2>1 DEF k
<1>10. IdsOrdered'
  <2>1. k < clock'.next /\ clock'.next >= restored.next
    BY <1>1, <1>2, <1>5, <1>6, <1>7, <1>8
  <2>2. k < nextReserved /\ k >= restored.next
    BY <1>2, <1>8 DEF k
  <2>3. \A i, j \in 1 .. (n - 1) : i < j => pendingTurns'[i].id < pendingTurns'[j].id
    <3> SUFFICES ASSUME NEW i \in 1 .. (n - 1), NEW j \in 1 .. (n - 1), i < j
                 PROVE  pendingTurns'[i].id < pendingTurns'[j].id
      OBVIOUS
    <3>1. i + 1 \in 1 .. n /\ j + 1 \in 1 .. n /\ i + 1 < j + 1
      BY <1>1
    <3> QED BY <1>3, <1>8, <3>1
  <2>4. \A i \in 1 .. (n - 1) : /\ pendingTurns'[i].id < nextReserved
                                /\ pendingTurns'[i].id >= restored.next
    BY <1>3, <1>8
  <2> QED BY <1>3, <1>4, <1>9, <2>1, <2>2, <2>3, <2>4 DEF IdsOrdered
<1>11. ReservationsCovered'
  <2>1. ASSUME NEW id \in clock'.next .. (nextReserved' - 1)
        PROVE  id \in clock'.cancelled \/ \E i \in DOMAIN pendingTurns' : pendingTurns'[i].id = id
    <3>1. id \in clock.next .. (nextReserved - 1) /\ id > clock.next /\ id >= clock'.next
      BY <1>1, <1>4, <1>5, <1>6
    <3>2. CASE id \in clock.cancelled
      BY <1>5, <3>1, <3>2
    <3>3. CASE \E i \in 1 .. n : pendingTurns[i].id = id
      <4>1. PICK i \in 1 .. n : pendingTurns[i].id = id
        BY <3>3
      <4>2. i # 1
        BY <1>1, <1>2, <1>7, <3>1, <4>1 DEF k
      <4>3. i - 1 \in 1 .. (n - 1) /\ (i - 1) + 1 = i
        BY <1>1, <4>1, <4>2
      <4>4. pendingTurns'[i - 1].id = id
        BY <1>3, <4>1, <4>3
      <4> QED BY <1>3, <4>3, <4>4
    <3> QED BY <1>0, <1>1, <3>1, <3>2, <3>3 DEF ReservationsCovered
  <2> QED BY <1>5, <2>1 DEF ReservationsCovered
<1>12. QueuedAhead'
  <2> SUFFICES ASSUME restored.cancelled = {}
               PROVE  /\ \A i \in 1 .. (n - 1) : /\ pendingTurns'[i].id >= clock'.next
                                                 /\ pendingTurns'[i].id \notin clock'.cancelled
                      /\ \A id \in clock'.cancelled : id < nextReserved
    BY <1>3, <1>4 DEF QueuedAhead
  <2>1. /\ \A i \in 1 .. n : pendingTurns[i].id \notin clock.cancelled
        /\ \A id \in clock.cancelled : id < nextReserved
    BY <1>0, <1>1 DEF QueuedAhead
  <2>2. ASSUME NEW i \in 1 .. (n - 1)
        PROVE  pendingTurns'[i].id >= clock'.next /\ pendingTurns'[i].id \notin clock'.cancelled
    <3>1. pendingTurns'[i].id \notin clock.cancelled /\ pendingTurns'[i].id \in Nat
      BY <1>1, <1>3, <2>1
    <3>2. pendingTurns'[i].id > clock.next
      BY <1>2, <1>7, <1>9, <3>1
    <3> QED BY <1>5, <1>6, <3>1, <3>2
  <2> QED BY <1>5, <2>1, <2>2
<1> QED BY <1>10, <1>11, <1>12 DEF IdInv

LEMMA DropsIds ==
  ASSUME OrderInv, NEW x \in DOMAIN pendingTurns, Drops(x)
  PROVE  IdInv'
<1>0. TypeInv /\ IdsOrdered /\ ReservationsCovered /\ QueuedAhead
  BY DEF OrderInv, IdInv
<1> DEFINE n == Len(pendingTurns)
           k == pendingTurns[x].id
<1>1. /\ clock \in Clock /\ IsFiniteSet(clock.cancelled) /\ clock.next \notin clock.cancelled
      /\ clock.next \in Nat /\ clock.cancelled \in SUBSET Nat /\ nextReserved \in Nat
      /\ restored.next \in Nat
      /\ pendingTurns \in Seq(Job) /\ n \in Nat /\ DOMAIN pendingTurns = 1 .. n
      /\ \A i \in 1 .. n : pendingTurns[i].id \in Nat
      /\ active # None => active.id \in Nat
  BY <1>0, IdTypes
<1>2. x \in 1 .. n /\ k \in Nat
  BY <1>1
<1> DEFINE at(i) == IF i < x THEN i ELSE i + 1
<1>3. /\ DOMAIN pendingTurns' = 1 .. (n - 1)
      /\ \A i \in 1 .. (n - 1) : pendingTurns'[i] = pendingTurns[at(i)]
  <2>1. pendingTurns' = RemoveAt(pendingTurns, x)
    BY DEF Drops
  <2>2. /\ pendingTurns' \in Seq(Job) /\ Len(pendingTurns') = n - 1
        /\ \A i \in 1 .. (n - 1) :
             pendingTurns'[i] = IF i < x THEN pendingTurns[i] ELSE pendingTurns[i + 1]
    BY <1>1, <1>2, <2>1, RemoveAtProps
  <2>3. DOMAIN pendingTurns' = 1 .. (n - 1)
    BY <2>2
  <2> QED BY <2>2, <2>3
<1>4. /\ clock' = ApplyCancel(clock, {k}) /\ UNCHANGED <<active, nextReserved, restored>>
  BY DEF Drops
<1>5. /\ clock' \in Clock /\ clock'.next >= clock.next /\ clock'.next \notin clock'.cancelled
      /\ clock'.cancelled \subseteq clock.cancelled \cup {k}
      /\ \A id \in Nat : clock.next <= id /\ id < clock'.next => id \in clock.cancelled \cup {k}
      /\ \A id \in clock.cancelled \cup {k} : id >= clock'.next => id \in clock'.cancelled
  <2>1. {k} \in SUBSET Nat /\ IsFiniteSet({k})
    BY <1>2, FS_Singleton
  <2> HIDE DEF k
  <2> QED BY <1>1, <1>4, <2>1, CancelProps
<1>6. clock'.next \in Nat
  BY <1>5 DEF Clock
<1> HIDE DEF n, k
<1>7. /\ \A i \in 1 .. (n - 1) : at(i) \in 1 .. n /\ at(i) # x
      /\ \A i, j \in 1 .. (n - 1) : i < j => at(i) < at(j)
  BY <1>1, <1>2
<1>8. \A i \in 1 .. n : i = x \/ \E j \in 1 .. (n - 1) : at(j) = i
  <2> SUFFICES ASSUME NEW i \in 1 .. n, i # x PROVE \E j \in 1 .. (n - 1) : at(j) = i
    OBVIOUS
  <2>1. CASE i < x
    <3>1. i \in 1 .. (n - 1) /\ at(i) = i
      BY <1>1, <1>2, <2>1
    <3> QED BY <3>1
  <2>2. CASE i > x
    <3>1. i - 1 \in 1 .. (n - 1) /\ at(i - 1) = i
      BY <1>1, <1>2, <2>2
    <3> QED BY <3>1
  <2> QED BY <1>1, <1>2, <2>1, <2>2
<1> HIDE DEF at
<1>9. /\ \A i, j \in 1 .. n : i < j => pendingTurns[i].id < pendingTurns[j].id
      /\ \A i \in 1 .. n : /\ pendingTurns[i].id < nextReserved
                           /\ pendingTurns[i].id >= restored.next
      /\ active # None => /\ active.id < clock.next /\ active.id < nextReserved
                          /\ active.id >= restored.next
                          /\ \A i \in 1 .. n : active.id < pendingTurns[i].id
      /\ clock.next >= restored.next
  BY <1>0, <1>1 DEF IdsOrdered
<1>10. IdsOrdered'
  <2>1. \A i, j \in 1 .. (n - 1) : i < j => pendingTurns'[i].id < pendingTurns'[j].id
    BY <1>3, <1>7, <1>9
  <2>2. \A i \in 1 .. (n - 1) : /\ pendingTurns'[i].id < nextReserved
                                /\ pendingTurns'[i].id >= restored.next
                                /\ active # None => active.id < pendingTurns'[i].id
    BY <1>3, <1>7, <1>9
  <2>3. clock'.next >= restored.next /\ (active # None => active.id < clock'.next)
    BY <1>1, <1>5, <1>6, <1>9
  <2> QED BY <1>3, <1>4, <1>9, <2>1, <2>2, <2>3 DEF IdsOrdered
<1>11. ReservationsCovered'
  <2>1. ASSUME NEW id \in clock'.next .. (nextReserved' - 1)
        PROVE  id \in clock'.cancelled \/ \E i \in DOMAIN pendingTurns' : pendingTurns'[i].id = id
    <3>1. id \in clock.next .. (nextReserved - 1) /\ id >= clock'.next
      BY <1>1, <1>4, <1>5, <1>6
    <3>2. CASE id \in clock.cancelled
      BY <1>5, <3>1, <3>2
    <3>3. CASE \E i \in 1 .. n : pendingTurns[i].id = id
      <4>1. PICK i \in 1 .. n : pendingTurns[i].id = id
        BY <3>3
      <4>2. CASE i = x
        BY <1>5, <3>1, <4>1, <4>2 DEF k
      <4>3. CASE i # x
        <5>1. PICK j \in 1 .. (n - 1) : at(j) = i
          BY <1>8, <4>3
        <5> QED BY <1>3, <4>1, <5>1
      <4> QED BY <4>2, <4>3
    <3> QED BY <1>0, <1>1, <3>1, <3>2, <3>3 DEF ReservationsCovered
  <2> QED BY <1>5, <2>1 DEF ReservationsCovered
<1>12. QueuedAhead'
  <2> SUFFICES ASSUME restored.cancelled = {}
               PROVE  /\ \A i \in 1 .. (n - 1) : /\ pendingTurns'[i].id >= clock'.next
                                                 /\ pendingTurns'[i].id \notin clock'.cancelled
                      /\ \A id \in clock'.cancelled : id < nextReserved
    BY <1>3, <1>4 DEF QueuedAhead
  <2>1. /\ \A i \in 1 .. n : /\ pendingTurns[i].id >= clock.next
                             /\ pendingTurns[i].id \notin clock.cancelled
        /\ \A id \in clock.cancelled : id < nextReserved
    BY <1>0, <1>1 DEF QueuedAhead
  <2>2. k < nextReserved
    BY <1>2, <1>9 DEF k
  <2>3. ASSUME NEW i \in 1 .. (n - 1)
        PROVE  pendingTurns'[i].id >= clock'.next /\ pendingTurns'[i].id \notin clock'.cancelled
    <3> DEFINE p == pendingTurns[at(i)].id
    <3>1. at(i) \in 1 .. n /\ at(i) # x
      BY <1>7
    <3>2. p \in Nat /\ p >= clock.next /\ p \notin clock.cancelled
      BY <1>1, <2>1, <3>1
    <3>3. p # k
      <4>1. at(i) < x \/ x < at(i)
        BY <1>1, <1>2, <3>1
      <4>2. p < k \/ k < p
        BY <1>2, <1>9, <3>1, <4>1 DEF k
      <4> QED BY <1>2, <3>2, <4>2
    <3>4. pendingTurns'[i].id = p
      BY <1>3
    <3> HIDE DEF p
    <3>5. p \notin clock.cancelled \cup {k}
      BY <3>2, <3>3
    <3> QED BY <1>1, <1>5, <1>6, <3>2, <3>4, <3>5
  <2> QED BY <1>5, <2>1, <2>2, <2>3
<1> QED BY <1>10, <1>11, <1>12 DEF IdInv

LEMMA EmptiesIds ==
  ASSUME OrderInv, Empties
  PROVE  IdInv'
<1>0. TypeInv /\ IdsOrdered /\ ReservationsCovered /\ QueuedAhead
  BY DEF OrderInv, IdInv
<1> DEFINE queued == {job.id : job \in ToSet(pendingTurns)}
           last == IF active = None THEN {} ELSE {active.id}
           ids == queued \cup last
<1>1. /\ clock \in Clock /\ IsFiniteSet(clock.cancelled) /\ clock.next \notin clock.cancelled
      /\ clock.next \in Nat /\ clock.cancelled \in SUBSET Nat /\ nextReserved \in Nat
      /\ restored.next \in Nat /\ pendingTurns \in Seq(Job)
      /\ \A i \in DOMAIN pendingTurns : pendingTurns[i].id \in Nat
      /\ active # None => active.id \in Nat
  BY <1>0, IdTypes
<1>2. /\ \A id \in queued : \E i \in DOMAIN pendingTurns : pendingTurns[i].id = id
      /\ \A i \in DOMAIN pendingTurns : pendingTurns[i].id \in queued
  <2>1. /\ \A job \in ToSet(pendingTurns) : \E i \in DOMAIN pendingTurns : pendingTurns[i] = job
        /\ \A i \in DOMAIN pendingTurns : pendingTurns[i] \in ToSet(pendingTurns)
    BY DEF ToSet
  <2> QED BY <2>1
<1>3. IsFiniteSet(queued)
  BY <1>1, QueuedIdsFinite
<1>4. /\ clock' = ApplyCancel(clock, ids) /\ pendingTurns' = <<>>
      /\ UNCHANGED <<active, nextReserved, restored>>
  BY DEF Empties
<1> HIDE DEF queued
<1>5. IsFiniteSet(last) /\ last \in SUBSET Nat
  BY <1>1, FS_EmptySet, FS_Singleton
<1>6. \A id \in last : active # None /\ id = active.id
  OBVIOUS
<1> HIDE DEF last
<1>7. ids \in SUBSET Nat /\ IsFiniteSet(ids)
  <2>1. queued \in SUBSET Nat
    BY <1>1, <1>2
  <2>2. IsFiniteSet(ids)
    BY <1>3, <1>5, FS_Union
  <2> QED BY <1>5, <2>1, <2>2
<1>8. \A id \in ids : id < nextReserved
  BY <1>0, <1>2, <1>6 DEF IdsOrdered
<1>9. \A i \in DOMAIN pendingTurns : pendingTurns[i].id \in ids
  BY <1>2
<1> HIDE DEF ids
<1>10. /\ clock' \in Clock /\ clock'.next >= clock.next /\ clock'.next \notin clock'.cancelled
       /\ clock'.cancelled \subseteq clock.cancelled \cup ids
       /\ \A id \in clock.cancelled \cup ids : id >= clock'.next => id \in clock'.cancelled
  BY <1>1, <1>4, <1>7, CancelProps
<1>11. clock'.next \in Nat /\ DOMAIN pendingTurns' = {}
  BY <1>4, <1>10 DEF Clock
<1>12. IdsOrdered'
  <2>1. /\ active # None => /\ active.id < clock.next /\ active.id < nextReserved
                            /\ active.id >= restored.next
        /\ clock.next >= restored.next
    BY <1>0 DEF IdsOrdered
  <2>2. clock'.next >= restored.next /\ (active # None => active.id < clock'.next)
    BY <1>1, <1>10, <1>11, <2>1
  <2> QED BY <1>4, <1>11, <2>1, <2>2 DEF IdsOrdered
<1>13. ReservationsCovered'
  <2>1. ASSUME NEW id \in clock'.next .. (nextReserved' - 1)
        PROVE  id \in clock'.cancelled
    <3>1. id \in clock.next .. (nextReserved - 1) /\ id >= clock'.next
      BY <1>1, <1>4, <1>10, <1>11
    <3>2. id \in clock.cancelled \cup ids
      BY <1>0, <1>9, <3>1 DEF ReservationsCovered
    <3> QED BY <1>10, <3>1, <3>2
  <2> QED BY <1>10, <2>1 DEF ReservationsCovered
<1>14. QueuedAhead'
  <2> SUFFICES ASSUME restored.cancelled = {}
               PROVE  \A id \in clock'.cancelled : id < nextReserved
    BY <1>4, <1>11 DEF QueuedAhead
  <2>1. \A id \in clock.cancelled : id < nextReserved
    BY <1>0 DEF QueuedAhead
  <2> QED BY <1>8, <1>10, <2>1
<1> QED BY <1>12, <1>13, <1>14 DEF IdInv

LEMMA RestartIds ==
  ASSUME OrderInv, Restart
  PROVE  IdInv'
<1>1. /\ active' = None /\ pendingTurns' = <<>> /\ nextReserved' = 0
      /\ clock' = durable /\ restored' = durable
  BY DEF Restart
<1>2. durable.next \in Nat /\ durable.next \notin durable.cancelled
  BY TypeInvParts DEF OrderInv, journalTypes, ClockOK, Clock
<1>3. DOMAIN pendingTurns' = {} /\ clock'.next .. (nextReserved' - 1) = {}
  BY <1>1, <1>2
<1>4. IdsOrdered'
  BY <1>1, <1>2, <1>3 DEF IdsOrdered
<1>5. ReservationsCovered'
  BY <1>1, <1>2, <1>3 DEF ReservationsCovered
<1>6. QueuedAhead'
  BY <1>1, <1>3 DEF QueuedAhead
<1> QED BY <1>4, <1>5, <1>6 DEF IdInv
-----------------------------------------------------------------------------
(* The theorems *)

LEMMA OrderInit == Init => OrderInv
<1> SUFFICES ASSUME Init PROVE OrderInv
  OBVIOUS
<1>1. TypeInv
  BY InitType
<1>2. /\ active = None /\ pendingTurns = <<>> /\ drain = <<>> /\ quiescence = 0
      /\ disposing = FALSE /\ nextReserved = 0
      /\ clock.next = 0 /\ clock.cancelled = {} /\ restored.next = 0
  BY DEF Init, InitialClock
<1>3. NoStrandedTurn /\ LeaseOK
  BY <1>2 DEF NoStrandedTurn, LeaseOK
<1>4. DOMAIN pendingTurns = {}
  BY <1>2
<1>5. IdsOrdered
  BY <1>2, <1>4 DEF IdsOrdered
<1>6. ReservationsCovered
  BY <1>2 DEF ReservationsCovered
<1>7. QueuedAhead
  BY <1>2, <1>4 DEF QueuedAhead
<1> QED BY <1>1, <1>3, <1>5, <1>6, <1>7 DEF OrderInv, IdInv

\* Whatever the effect, a turn that waits has a running turn ahead of it.
LEMMA EffectNotStranded ==
  ASSUME OrderInv, Effect
  PROVE  NoStrandedTurn'
<1>1. CASE Keeps
  BY <1>1, NoneAssumption DEF Keeps, OrderInv, NoStrandedTurn
<1>2. CASE \E job \in Job : Queues(job) \/ Starts(job)
  BY <1>2 DEF Queues, Starts, NoStrandedTurn
<1>3. CASE Ends \/ Empties \/ Restart
  BY <1>3 DEF Ends, Empties, Restart, NoStrandedTurn
<1>4. CASE Succeeds
  BY <1>4, NoneAssumption DEF Succeeds, NoStrandedTurn
<1>5. CASE \E i \in DOMAIN pendingTurns : Drops(i)
  <2>1. pendingTurns # <<>> /\ active' = active
    BY <1>5 DEF Drops
  <2> QED BY <2>1 DEF OrderInv, NoStrandedTurn
<1> QED BY <1>1, <1>2, <1>3, <1>4, <1>5 DEF Effect

LEMMA OrderNext == OrderInv /\ [Next]_vars => OrderInv'
<1> SUFFICES ASSUME OrderInv, [Next]_vars PROVE OrderInv'
  OBVIOUS
<1>1. TypeInv'
  BY NextType DEF OrderInv
<1>2. Effect /\ LeaseOK'
  BY NextEffect
<1>3. NoStrandedTurn'
  BY <1>2, EffectNotStranded
<1>4. IdInv'
  BY <1>2, KeepsIds, EndsIds, QueuesIds, StartsIds, SucceedsIds, DropsIds, EmptiesIds, RestartIds
     DEF Effect
<1> QED BY <1>1, <1>2, <1>3, <1>4 DEF OrderInv

LEMMA OrderInvariant == Spec => []OrderInv
BY OrderInit, OrderNext, PTL DEF Spec

\* No turn is ever queued with nothing ahead of it that will start it, for any
\* number of requests, leases and restarts.
THEOREM NeverStranded == Spec => []NoStrandedTurn
<1>1. OrderInv => NoStrandedTurn
  BY DEF OrderInv
<1> QED BY <1>1, OrderInvariant, PTL

\* The ids of live turns increase along the queue and reserveTurnId hands out
\* no id twice in a process.
THEOREM IdsStayOrdered == Spec => []TurnIdsOrdered
<1>1. OrderInv => TurnIdsOrdered
  <2> SUFFICES ASSUME OrderInv PROVE TurnIdsOrdered
    OBVIOUS
  <2>1. IdsOrdered
    BY DEF OrderInv, IdInv
  <2>2. \A job \in LiveJobs :
          (active # None /\ job = active) \/ \E i \in DOMAIN pendingTurns : job = pendingTurns[i]
    BY DEF LiveJobs, ToSet
  <2> QED BY <2>1, <2>2 DEF IdsOrdered, TurnIdsOrdered
<1> QED BY <1>1, OrderInvariant, PTL

\* Every reservation the clock has not passed is that of a queued turn or is
\* marked cancelled.
THEOREM ReservationsStayCovered == Spec => []ReservationsCovered
<1>1. OrderInv => ReservationsCovered
  BY DEF OrderInv, IdInv
<1> QED BY <1>1, OrderInvariant, PTL

\* A restart never leads to a turn with the id of one the journal knows to have
\* started.
THEOREM StartedIdsNotReused == Spec => []NoReuseOfStartedIds
<1>1. OrderInv => NoReuseOfStartedIds
  <2> SUFFICES ASSUME OrderInv PROVE NoReuseOfStartedIds
    OBVIOUS
  <2>1. IdsOrdered
    BY DEF OrderInv, IdInv
  <2>2. \A job \in LiveJobs :
          (active # None /\ job = active) \/ \E i \in DOMAIN pendingTurns : job = pendingTurns[i]
    BY DEF LiveJobs, ToSet
  <2> QED BY <2>1, <2>2 DEF IdsOrdered, NoReuseOfStartedIds
<1> QED BY <1>1, OrderInvariant, PTL

\* The clock neither passes nor skips the id of a turn that is still queued, in a process
\* that inherited no cancelled reservation.
THEOREM QueuedStayAhead == Spec => []QueuedAhead
<1>1. OrderInv => QueuedAhead
  BY DEF OrderInv, IdInv
<1> QED BY <1>1, OrderInvariant, PTL

\* A turn starts under the id at which the persisted clock stands.
THEOREM TurnsStartOnClock == Spec => StartsOnClock
<1> DEFINE Aligned ==
      restored.cancelled = {} /\ active' # None /\ (active = None \/ active.id # active'.id)
      => active'.id = clock.next
<1>1. ASSUME OrderInv, [Next]_vars
      PROVE  [Aligned]_vars
  <2>1. Effect
    BY <1>1, NextEffect
  <2>2. CASE Keeps \/ Ends \/ Empties \/ Restart \/ \E i \in DOMAIN pendingTurns : Drops(i)
    BY <2>2 DEF Keeps, Ends, Empties, Restart, Drops
  <2>3. CASE Succeeds
    BY <1>1, <2>3, SucceedsAtClock DEF Succeeds
  <2>4. CASE \E job \in Job : Queues(job) \/ Starts(job)
    <3>1. PICK job \in Job : Queues(job) \/ Starts(job)
      BY <2>4
    <3>2. CASE Queues(job)
      BY <3>2 DEF Queues
    <3>3. CASE Starts(job)
      BY <1>1, <3>3, StartsAtClock DEF Starts
    <3> QED BY <3>1, <3>2, <3>3
  <2> QED BY <2>1, <2>2, <2>3, <2>4 DEF Effect
<1>2. [][Aligned]_vars <=> StartsOnClock
  BY DEF StartsOnClock
<1> HIDE DEF Aligned
<1> QED BY <1>1, <1>2, OrderInvariant, PTL DEF Spec
-----------------------------------------------------------------------------
(* What becomes of a request *)

Distinct(s) == \A i, j \in DOMAIN s : s[i] = s[j] => i = j

\* The requests that wait in no turn, each at one place: exactly the ones whose assignment
\* promise is open.
WaitsOK(H, S, D, as, rs) ==
  /\ Distinct(H) /\ Distinct(S) /\ Distinct(D)
  /\ ToSet(H) \cap ToSet(S) = {} /\ ToSet(H) \cap ToSet(D) = {} /\ ToSet(S) \cap ToSet(D) = {}
  /\ \A r \in Requests :
       /\ as[r] = "waiting" <=> r \in ToSet(H) \cup ToSet(S) \cup ToSet(D)
       /\ as[r] = "waiting" => rs[r] = "pending"
       /\ rs[r] = "pending" => as[r] # "none"
       /\ rs[r] = "new" => as[r] = "none"

InSteps(Q, A, r) ==
  (A # None /\ r \in ToSet(A.steps)) \/ \E i \in DOMAIN Q : r \in ToSet(Q[i].steps)
InQueue(Q, A, r) == (A # None /\ r \in A.queued) \/ \E i \in DOMAIN Q : r \in Q[i].queued

\* The requests of the turns: a request is in the steps of one turn at most, a pending one is
\* in the queue of its turn with its step queued, and a step that is not settled is in a turn.
TurnsOK(Q, A, as, rs, ss) ==
  /\ \A i, j \in DOMAIN Q : i # j => ToSet(Q[i].steps) \cap ToSet(Q[j].steps) = {}
  /\ A # None => \A i \in DOMAIN Q : ToSet(A.steps) \cap ToSet(Q[i].steps) = {}
  /\ \A r \in Requests :
       /\ InSteps(Q, A, r) => as[r] = "assigned"
       /\ rs[r] = "pending" /\ as[r] = "assigned" => ss[r] = "queued" /\ InQueue(Q, A, r)
       /\ ss[r] \in {"queued", "running"} => InSteps(Q, A, r)

\* The driver of the running step has been taken.
DriverOK == phase \in {"exec", "after", "recover"} => reqState[current] # "pending"

\* Nothing waits outside heldAdmissions under a lease, or anywhere after disposal.
NothingWaits ==
  /\ quiescence > 0 => standalone = <<>>
  /\ disposing => standalone = <<>> /\ held = <<>>

RequestInv ==
  /\ WaitsOK(held, standalone, drain, assignment, reqState)
  /\ TurnsOK(pendingTurns, active, assignment, reqState, stepState)
  /\ DriverOK /\ NothingWaits
-----------------------------------------------------------------------------
(* Sequences without repetition *)

LEMMA AppendSet ==
  ASSUME NEW R, NEW s \in Seq(R), NEW x \in R
  PROVE  /\ Append(s, x) \in Seq(R) /\ ToSet(Append(s, x)) = ToSet(s) \cup {x}
         /\ Distinct(s) /\ x \notin ToSet(s) => Distinct(Append(s, x))
<1> DEFINE t == Append(s, x)
<1>1. /\ t \in Seq(R) /\ Len(t) = Len(s) + 1 /\ Len(s) \in Nat
      /\ \A i \in 1 .. Len(s) : t[i] = s[i]
      /\ t[Len(s) + 1] = x
  OBVIOUS
<1>2. DOMAIN t = 1 .. (Len(s) + 1) /\ DOMAIN s = 1 .. Len(s)
  BY <1>1
<1> HIDE DEF t
<1>3. \A i \in DOMAIN t : i \in DOMAIN s \/ i = Len(s) + 1
  BY <1>1, <1>2
<1>4. \A i \in DOMAIN s : i \in DOMAIN t
  BY <1>1, <1>2
<1>5. Len(s) + 1 \in DOMAIN t
  BY <1>1, <1>2
<1>6. ToSet(t) = ToSet(s) \cup {x}
  BY <1>1, <1>2, <1>3, <1>4, <1>5 DEF ToSet
<1>7. ASSUME Distinct(s), x \notin ToSet(s) PROVE Distinct(t)
  <2>1. \A i \in DOMAIN s : s[i] # x
    BY <1>7 DEF ToSet
  <2> QED BY <1>1, <1>2, <1>3, <1>7, <2>1 DEF Distinct
<1> QED BY <1>1, <1>6, <1>7 DEF t

LEMMA TailSet ==
  ASSUME NEW R, NEW s \in Seq(R), s # <<>>
  PROVE  /\ Head(s) \in ToSet(s) /\ Head(s) \in R /\ Tail(s) \in Seq(R)
         /\ Distinct(s) => Distinct(Tail(s)) /\ ToSet(Tail(s)) = ToSet(s) \ {Head(s)}
<1> DEFINE t == Tail(s)
<1>1. /\ t \in Seq(R) /\ Len(t) = Len(s) - 1 /\ Len(s) \in Nat /\ Len(s) > 0
      /\ \A i \in 1 .. (Len(s) - 1) : t[i] = s[i + 1]
      /\ Head(s) = s[1]
  OBVIOUS
<1>2. DOMAIN t = 1 .. (Len(s) - 1) /\ DOMAIN s = 1 .. Len(s) /\ 1 \in DOMAIN s
  BY <1>1
<1> HIDE DEF t
<1>3. Head(s) \in ToSet(s) /\ Head(s) \in R
  BY <1>1, <1>2 DEF ToSet
<1>4. \A i \in DOMAIN t : i + 1 \in DOMAIN s /\ i + 1 # 1 /\ i \in Nat /\ t[i] = s[i + 1]
  BY <1>1, <1>2
<1>5. \A i \in DOMAIN s : i # 1 => i - 1 \in DOMAIN t /\ t[i - 1] = s[i]
  BY <1>1, <1>2
<1>6. ASSUME Distinct(s) PROVE Distinct(t) /\ ToSet(t) = ToSet(s) \ {Head(s)}
  <2>1. Distinct(t)
    BY <1>4, <1>6 DEF Distinct
  <2>2. \A i \in DOMAIN s : i # 1 => s[i] # s[1]
    BY <1>2, <1>6 DEF Distinct
  <2>3. ASSUME NEW x \in ToSet(t) PROVE x \in ToSet(s) \ {Head(s)}
    BY <1>1, <1>4, <2>2 DEF ToSet
  <2>4. ASSUME NEW x \in ToSet(s), x # Head(s) PROVE x \in ToSet(t)
    BY <1>1, <1>5, <2>4 DEF ToSet
  <2> QED BY <2>1, <2>3, <2>4
<1> QED BY <1>1, <1>3, <1>6 DEF t

LEMMA RemoveSet ==
  ASSUME NEW R, NEW s \in Seq(R), NEW k \in DOMAIN s
  PROVE  /\ RemoveAt(s, k) \in Seq(R) /\ s[k] \in ToSet(s) /\ s[k] \in R
         /\ Distinct(s) => /\ Distinct(RemoveAt(s, k))
                           /\ ToSet(RemoveAt(s, k)) = ToSet(s) \ {s[k]}
<1> DEFINE t == RemoveAt(s, k)
<1>1. /\ t \in Seq(R) /\ Len(t) = Len(s) - 1 /\ Len(s) \in Nat /\ k \in 1 .. Len(s)
      /\ \A i \in 1 .. (Len(s) - 1) : t[i] = IF i < k THEN s[i] ELSE s[i + 1]
  <2>1. k \in 1 .. Len(s) /\ Len(s) \in Nat
    OBVIOUS
  <2> QED BY <2>1, RemoveAtProps
<1>2. DOMAIN t = 1 .. (Len(s) - 1) /\ DOMAIN s = 1 .. Len(s)
  BY <1>1
<1> HIDE DEF t
<1> DEFINE up(i) == IF i < k THEN i ELSE i + 1
           down(i) == IF i < k THEN i ELSE i - 1
<1>3. \A i \in DOMAIN t : up(i) \in DOMAIN s /\ up(i) # k /\ t[i] = s[up(i)]
  BY <1>1, <1>2
<1>4. \A i, j \in DOMAIN t : up(i) = up(j) => i = j
  BY <1>1, <1>2
<1>5. \A i \in DOMAIN s : i # k => down(i) \in DOMAIN t /\ t[down(i)] = s[i]
  BY <1>1, <1>2
<1>6. s[k] \in ToSet(s) /\ s[k] \in R
  BY <1>1, <1>2 DEF ToSet
<1> HIDE DEF up, down
<1>7. ASSUME Distinct(s) PROVE Distinct(t) /\ ToSet(t) = ToSet(s) \ {s[k]}
  <2>1. Distinct(t)
    BY <1>3, <1>4, <1>7 DEF Distinct
  <2>2. \A i \in DOMAIN s : i # k => s[i] # s[k]
    BY <1>7 DEF Distinct
  <2>3. ASSUME NEW x \in ToSet(t) PROVE x \in ToSet(s) \ {s[k]}
    BY <1>3, <2>2 DEF ToSet
  <2>4. ASSUME NEW x \in ToSet(s), x # s[k] PROVE x \in ToSet(t)
    BY <1>5, <2>4 DEF ToSet
  <2> QED BY <2>1, <2>3, <2>4
<1> QED BY <1>1, <1>6, <1>7 DEF t
-----------------------------------------------------------------------------
(* The waiting requests *)

\* The requests X leave the waiting ones: their promises are settled.
Settles(as, rs, as2, rs2, X) ==
  \A r \in Requests : /\ IF r \in X THEN as2[r] \in {"assigned", "rejected"}
                                   ELSE as2[r] = as[r]
                      /\ rs2[r] = "new" => rs[r] = "new" /\ r \notin X
                      /\ rs2[r] = "pending" => r \in X \/ rs[r] = "pending"
                      /\ as2[r] = "waiting" => rs2[r] = "pending"

Without(s, s2, X) == Distinct(s2) /\ ToSet(s2) = ToSet(s) \ X

LEMMA WaitsSettle ==
  ASSUME NEW H, NEW S, NEW D, NEW as, NEW rs, WaitsOK(H, S, D, as, rs),
         NEW H2, NEW S2, NEW D2, NEW as2, NEW rs2, NEW X,
         Without(H, H2, X), Without(S, S2, X), Without(D, D2, X), Settles(as, rs, as2, rs2, X)
  PROVE  WaitsOK(H2, S2, D2, as2, rs2)
<1> USE DEF Without, Settles
<1>1. ToSet(H2) \cap ToSet(S2) = {} /\ ToSet(H2) \cap ToSet(D2) = {}
      /\ ToSet(S2) \cap ToSet(D2) = {}
  BY DEF WaitsOK
<1>2. ASSUME NEW r \in Requests
      PROVE  /\ as2[r] = "waiting" <=> r \in ToSet(H2) \cup ToSet(S2) \cup ToSet(D2)
             /\ as2[r] = "waiting" => rs2[r] = "pending"
             /\ rs2[r] = "pending" => as2[r] # "none"
             /\ rs2[r] = "new" => as2[r] = "none"
  BY DEF WaitsOK
<1> QED BY <1>1, <1>2 DEF WaitsOK

\* The states of requests change, but not of the waiting ones.
LEMMA WaitsKeep ==
  ASSUME NEW H, NEW S, NEW D, NEW as, NEW rs, WaitsOK(H, S, D, as, rs), NEW rs2,
         \A r \in Requests : /\ rs2[r] = "new" => rs[r] = "new"
                             /\ rs2[r] = "pending" => rs[r] = "pending"
                             /\ as[r] = "waiting" => rs2[r] = rs[r]
  PROVE  WaitsOK(H, S, D, as, rs2)
BY DEF WaitsOK

\* A new request is held, or waits for the next turn.
Awaits(r, as, rs, as2, rs2) ==
  /\ rs[r] = "new" /\ as2[r] = "waiting" /\ rs2[r] = "pending"
  /\ \A x \in Requests : x # r => as2[x] = as[x] /\ rs2[x] = rs[x]

LEMMA WaitsAdd ==
  ASSUME NEW H \in Seq(Requests), NEW S \in Seq(Requests), NEW D, NEW as, NEW rs,
         WaitsOK(H, S, D, as, rs), NEW r \in Requests, NEW as2, NEW rs2,
         Awaits(r, as, rs, as2, rs2)
  PROVE  WaitsOK(Append(H, r), S, D, as2, rs2) /\ WaitsOK(H, Append(S, r), D, as2, rs2)
<1> USE DEF Awaits
<1>1. as[r] = "none" /\ r \notin ToSet(H) \cup ToSet(S) \cup ToSet(D)
  BY DEF WaitsOK
<1>2. /\ ToSet(Append(H, r)) = ToSet(H) \cup {r} /\ ToSet(Append(S, r)) = ToSet(S) \cup {r}
      /\ Distinct(Append(H, r)) /\ Distinct(Append(S, r))
  BY <1>1, AppendSet DEF WaitsOK
<1>3. ASSUME NEW x \in Requests
      PROVE  /\ as2[x] = "waiting" <=> x \in ToSet(H) \cup ToSet(S) \cup ToSet(D) \cup {r}
             /\ as2[x] = "waiting" => rs2[x] = "pending"
             /\ rs2[x] = "pending" => as2[x] # "none"
             /\ rs2[x] = "new" => as2[x] = "none"
  BY <1>1 DEF WaitsOK
<1> DEFINE H2 == Append(H, r)
           S2 == Append(S, r)
<1> HIDE DEF H2, S2
<1>4. WaitsOK(H2, S, D, as2, rs2)
  <2>1. ToSet(H2) = ToSet(H) \cup {r} /\ Distinct(H2)
    BY <1>2 DEF H2
  <2> QED BY <1>1, <1>3, <2>1 DEF WaitsOK
<1>5. WaitsOK(H, S2, D, as2, rs2)
  <2>1. ToSet(S2) = ToSet(S) \cup {r} /\ Distinct(S2)
    BY <1>2 DEF S2
  <2> QED BY <1>1, <1>3, <2>1 DEF WaitsOK
<1> QED BY <1>4, <1>5 DEF H2, S2

\* releaseQuiescence takes the held admissions over, and the replay of one puts it with the
\* requests that wait for the next turn.
LEMMA WaitsMove ==
  ASSUME NEW H \in Seq(Requests), NEW S \in Seq(Requests), NEW D \in Seq(Requests),
         NEW as, NEW rs, WaitsOK(H, S, D, as, rs)
  PROVE  /\ D = <<>> => WaitsOK(<<>>, S, H, as, rs)
         /\ D # <<>> => WaitsOK(H, Append(S, Head(D)), Tail(D), as, rs)
<1>1. ASSUME D = <<>> PROVE WaitsOK(<<>>, S, H, as, rs)
  <2>1. ToSet(<<>>) = {} /\ Distinct(<<>>)
    BY DEF ToSet, Distinct
  <2> DEFINE E == <<>>
  <2>2. ToSet(E) = {} /\ Distinct(E) /\ WaitsOK(H, S, E, as, rs)
    BY <1>1, <2>1
  <2> HIDE DEF E
  <2>3. WaitsOK(E, S, H, as, rs)
    BY <2>2 DEF WaitsOK
  <2> QED BY <2>3 DEF E
<1>2. ASSUME D # <<>> PROVE WaitsOK(H, Append(S, Head(D)), Tail(D), as, rs)
  <2> DEFINE r == Head(D)
             S2 == Append(S, r)
             D2 == Tail(D)
  <2>1. r \in ToSet(D) /\ r \in Requests /\ Distinct(D2) /\ ToSet(D2) = ToSet(D) \ {r}
    BY <1>2, TailSet DEF WaitsOK
  <2>2. r \notin ToSet(S)
    BY <2>1 DEF WaitsOK
  <2> HIDE DEF r
  <2>3. ToSet(S2) = ToSet(S) \cup {r} /\ Distinct(S2)
    BY <2>1, <2>2, AppendSet DEF WaitsOK
  <2> HIDE DEF S2, D2
  <2>4. WaitsOK(H, S2, D2, as, rs)
    BY <2>1, <2>2, <2>3 DEF WaitsOK
  <2> QED BY <2>4 DEF S2, D2, r
<1> QED BY <1>1, <1>2
-----------------------------------------------------------------------------
(* The requests of the turns *)

Open(s) == s \in {"queued", "running"}

SameTurns(as, as2) == \A r \in Requests : as2[r] = "assigned" <=> as[r] = "assigned"

\* The active turn A goes on as A2: it keeps its steps, what leaves its queue is not pending
\* any more, and only steps of turns open.
GoesOn(Q, A, A2, as, rs, ss, rs2, ss2) ==
  /\ A2 = None <=> A = None
  /\ A # None => A2.steps = A.steps
  /\ \A r \in Requests : rs2[r] = "pending" /\ as[r] = "assigned" =>
       /\ rs[r] = "pending" /\ ss2[r] = ss[r]
       /\ A # None /\ r \in A.queued => r \in A2.queued
  /\ \A r \in Requests : Open(ss2[r]) => Open(ss[r]) \/ InSteps(Q, A, r)

LEMMA TurnsKeep ==
  ASSUME NEW Q, NEW A, NEW as, NEW rs, NEW ss, TurnsOK(Q, A, as, rs, ss),
         NEW A2, NEW as2, NEW rs2, NEW ss2, SameTurns(as, as2),
         GoesOn(Q, A, A2, as, rs, ss, rs2, ss2)
  PROVE  TurnsOK(Q, A2, as2, rs2, ss2)
<1> USE DEF SameTurns, GoesOn
<1>1. \A r \in Requests : InSteps(Q, A2, r) <=> InSteps(Q, A, r)
  BY DEF InSteps
<1>2. \A r \in Requests : rs2[r] = "pending" /\ as[r] = "assigned" /\ InQueue(Q, A, r)
        => InQueue(Q, A2, r)
  BY DEF InQueue
<1>3. A2 # None => \A i \in DOMAIN Q : ToSet(A2.steps) \cap ToSet(Q[i].steps) = {}
  BY DEF TurnsOK
<1>4. ASSUME NEW r \in Requests
      PROVE  /\ InSteps(Q, A2, r) => as2[r] = "assigned"
             /\ rs2[r] = "pending" /\ as2[r] = "assigned" => ss2[r] = "queued" /\ InQueue(Q, A2, r)
             /\ ss2[r] \in {"queued", "running"} => InSteps(Q, A2, r)
  BY <1>1, <1>2 DEF TurnsOK, Open
<1>5. \A i, j \in DOMAIN Q : i # j => ToSet(Q[i].steps) \cap ToSet(Q[j].steps) = {}
  BY DEF TurnsOK
<1> QED BY <1>3, <1>4, <1>5 DEF TurnsOK

\* The head of the queue becomes the active turn.
LEMMA TurnsStart ==
  ASSUME NEW Q \in Seq(Job), Q # <<>>, NEW as, NEW rs, NEW ss, TurnsOK(Q, None, as, rs, ss)
  PROVE  TurnsOK(Tail(Q), Head(Q), as, rs, ss)
<1> DEFINE T == Tail(Q)
           A == Head(Q)
<1>1. /\ Len(T) = Len(Q) - 1 /\ Len(Q) \in Nat /\ Len(Q) > 0 /\ T \in Seq(Job)
      /\ \A i \in 1 .. (Len(Q) - 1) : T[i] = Q[i + 1]
      /\ A = Q[1] /\ A \in Job
  OBVIOUS
<1>2. A # None
  BY <1>1, NoneAssumption
<1>3. DOMAIN T = 1 .. (Len(Q) - 1) /\ DOMAIN Q = 1 .. Len(Q) /\ 1 \in DOMAIN Q
  BY <1>1
<1> HIDE DEF T, A
<1>4. \A i \in DOMAIN T : i + 1 \in DOMAIN Q /\ i + 1 # 1 /\ i \in Nat /\ T[i] = Q[i + 1]
  BY <1>1, <1>3
<1>5. \A i \in DOMAIN Q : i = 1 \/ (i - 1 \in DOMAIN T /\ T[i - 1] = Q[i])
  BY <1>1, <1>3
<1>6. \A r \in Requests : InSteps(T, A, r) <=> InSteps(Q, None, r)
  BY <1>1, <1>2, <1>3, <1>4, <1>5 DEF InSteps
<1>7. \A r \in Requests : InQueue(T, A, r) <=> InQueue(Q, None, r)
  BY <1>1, <1>2, <1>3, <1>4, <1>5 DEF InQueue
<1>8. \A i, j \in DOMAIN T : i # j => ToSet(T[i].steps) \cap ToSet(T[j].steps) = {}
  <2> SUFFICES ASSUME NEW i \in DOMAIN T, NEW j \in DOMAIN T, i # j
               PROVE  ToSet(T[i].steps) \cap ToSet(T[j].steps) = {}
    OBVIOUS
  <2>1. i + 1 \in DOMAIN Q /\ j + 1 \in DOMAIN Q /\ i + 1 # j + 1
    BY <1>4
  <2>2. ToSet(Q[i + 1].steps) \cap ToSet(Q[j + 1].steps) = {}
    BY <2>1 DEF TurnsOK
  <2> QED BY <1>4, <2>2
<1>9. \A i \in DOMAIN T : ToSet(A.steps) \cap ToSet(T[i].steps) = {}
  <2> SUFFICES ASSUME NEW i \in DOMAIN T PROVE ToSet(A.steps) \cap ToSet(T[i].steps) = {}
    OBVIOUS
  <2>1. ToSet(Q[1].steps) \cap ToSet(Q[i + 1].steps) = {}
    BY <1>3, <1>4 DEF TurnsOK
  <2> QED BY <1>1, <1>4, <2>1
<1>10. TurnsOK(T, A, as, rs, ss)
  BY <1>6, <1>7, <1>8, <1>9 DEF TurnsOK
<1> QED BY <1>10 DEF T, A

\* What is left of the turns when those whose steps are S go.
Leaves(Q, A, Q2, A2, S) ==
  /\ \A i, j \in DOMAIN Q2 : i # j => ToSet(Q2[i].steps) \cap ToSet(Q2[j].steps) = {}
  /\ A2 # None => \A i \in DOMAIN Q2 : ToSet(A2.steps) \cap ToSet(Q2[i].steps) = {}
  /\ \A r \in Requests : /\ InSteps(Q2, A2, r) => InSteps(Q, A, r)
                         /\ InSteps(Q, A, r) => r \in S \/ InSteps(Q2, A2, r)
                         /\ InQueue(Q, A, r) => r \in S \/ InQueue(Q2, A2, r)

\* The steps S are cancelled, which aborts their pending requests.
Cancels(rs, ss, rs2, ss2, S) ==
  \A r \in Requests : /\ rs2[r] = "pending" => rs[r] = "pending" /\ (r \in S => ~Open(ss[r]))
                      /\ rs2[r] = "new" => rs[r] = "new"
                      /\ r \notin S => ss2[r] = ss[r]
                      /\ Open(ss2[r]) => Open(ss[r]) /\ r \notin S

LEMMA CancelEffect ==
  ASSUME NEW rs \in [Requests -> ReqStates], NEW ss \in [Requests -> StepStates], NEW S, NEW W
  PROVE  /\ Cancels(rs, ss, Abort(rs, Cancellable(ss, S) \cup W),
                    CancelSteps(ss, Cancellable(ss, S)), S)
         /\ Cancels(rs, ss, Abort(rs, Cancellable(ss, S)), CancelSteps(ss, Cancellable(ss, S)), S)
BY DEF Cancellable, Abort, CancelSteps, Open, Cancels

LEMMA TurnsGo ==
  ASSUME NEW Q, NEW A, NEW as, NEW rs, NEW ss, TurnsOK(Q, A, as, rs, ss),
         NEW Q2, NEW A2, NEW as2, NEW rs2, NEW ss2, NEW S,
         Leaves(Q, A, Q2, A2, S), SameTurns(as, as2), Cancels(rs, ss, rs2, ss2, S)
  PROVE  TurnsOK(Q2, A2, as2, rs2, ss2)
<1>1. ASSUME NEW r \in Requests
      PROVE  /\ InSteps(Q2, A2, r) => as2[r] = "assigned"
             /\ rs2[r] = "pending" /\ as2[r] = "assigned"
                  => ss2[r] = "queued" /\ InQueue(Q2, A2, r)
             /\ ss2[r] \in {"queued", "running"} => InSteps(Q2, A2, r)
  BY DEF TurnsOK, Open, Leaves, SameTurns, Cancels
<1> QED BY <1>1 DEF TurnsOK, Leaves

\* releaseActiveTurn
LEMMA TurnsEnd ==
  ASSUME NEW Q, NEW A \in Job, NEW as, NEW rs \in [Requests -> ReqStates],
         NEW ss \in [Requests -> StepStates], TurnsOK(Q, A, as, rs, ss)
  PROVE  LET left == Cancellable(ss, ToSet(A.steps))
         IN TurnsOK(Q, None, as, Abort(rs, left), CancelSteps(ss, left))
<1> DEFINE S == ToSet(A.steps)
           left == Cancellable(ss, S)
           rs2 == Abort(rs, left)
           ss2 == CancelSteps(ss, left)
<1>1. Cancels(rs, ss, rs2, ss2, S)
  BY CancelEffect
<1>2. A.queued \subseteq S /\ A # None
  BY NoneAssumption DEF Job
<1> HIDE DEF S, rs2, ss2
<1>3. \A r \in Requests : /\ InSteps(Q, None, r) => InSteps(Q, A, r)
                          /\ InSteps(Q, A, r) => r \in S \/ InSteps(Q, None, r)
                          /\ InQueue(Q, A, r) => r \in S \/ InQueue(Q, None, r)
  BY <1>2 DEF InSteps, InQueue, S
<1>4. \A i, j \in DOMAIN Q : i # j => ToSet(Q[i].steps) \cap ToSet(Q[j].steps) = {}
  BY DEF TurnsOK
<1>5. TurnsOK(Q, None, as, rs2, ss2)
  <2>1. Leaves(Q, A, Q, None, S) /\ SameTurns(as, as)
    BY <1>3, <1>4 DEF Leaves, SameTurns
  <2> QED BY <1>1, <2>1, TurnsGo
<1> QED BY <1>5 DEF S, rs2, ss2

\* cancelQueuedTurn
LEMMA TurnsDrop ==
  ASSUME NEW Q \in Seq(Job), NEW A, NEW k \in DOMAIN Q, NEW as,
         NEW rs \in [Requests -> ReqStates], NEW ss \in [Requests -> StepStates],
         TurnsOK(Q, A, as, rs, ss)
  PROVE  LET left == Cancellable(ss, ToSet(Q[k].steps))
         IN TurnsOK(RemoveAt(Q, k), A, as, Abort(rs, left), CancelSteps(ss, left))
<1> DEFINE S == ToSet(Q[k].steps)
           left == Cancellable(ss, S)
           rs2 == Abort(rs, left)
           ss2 == CancelSteps(ss, left)
           T == RemoveAt(Q, k)
           up(i) == IF i < k THEN i ELSE i + 1
           down(i) == IF i < k THEN i ELSE i - 1
<1>1. Cancels(rs, ss, rs2, ss2, S)
  BY CancelEffect
<1>2. Q[k].queued \subseteq S /\ k \in 1 .. Len(Q)
  BY DEF Job
<1> HIDE DEF rs2, ss2
<1>3. /\ T \in Seq(Job) /\ Len(T) = Len(Q) - 1 /\ Len(Q) \in Nat
      /\ \A i \in 1 .. (Len(Q) - 1) : T[i] = IF i < k THEN Q[i] ELSE Q[i + 1]
  <2>1. Len(Q) \in Nat
    OBVIOUS
  <2> QED BY <1>2, <2>1, RemoveAtProps
<1>4. DOMAIN T = 1 .. (Len(Q) - 1) /\ DOMAIN Q = 1 .. Len(Q)
  BY <1>3
<1> HIDE DEF T
<1>5. \A i \in DOMAIN T : up(i) \in DOMAIN Q /\ up(i) # k /\ T[i] = Q[up(i)]
  BY <1>2, <1>3, <1>4
<1>6. \A i, j \in DOMAIN T : up(i) = up(j) => i = j
  BY <1>2, <1>3, <1>4
<1>7. \A i \in DOMAIN Q : i # k => down(i) \in DOMAIN T /\ T[down(i)] = Q[i]
  BY <1>2, <1>3, <1>4
<1> HIDE DEF up, down, S
<1>8. \A r \in Requests : InSteps(T, A, r) => InSteps(Q, A, r)
  BY <1>5 DEF InSteps
<1>9. \A r \in Requests : InSteps(Q, A, r) => r \in S \/ InSteps(T, A, r)
  BY <1>7 DEF InSteps, S
<1>10. \A r \in Requests : InQueue(Q, A, r) => r \in S \/ InQueue(T, A, r)
  BY <1>2, <1>7 DEF InQueue
<1>11. \A i, j \in DOMAIN T : i # j => ToSet(T[i].steps) \cap ToSet(T[j].steps) = {}
  BY <1>5, <1>6 DEF TurnsOK
<1>12. A # None => \A i \in DOMAIN T : ToSet(A.steps) \cap ToSet(T[i].steps) = {}
  BY <1>5 DEF TurnsOK
<1>13. TurnsOK(T, A, as, rs2, ss2)
  <2>1. Leaves(Q, A, T, A, S) /\ SameTurns(as, as)
    BY <1>8, <1>9, <1>10, <1>11, <1>12 DEF Leaves, SameTurns
  <2> QED BY <1>1, <2>1, TurnsGo
<1> QED BY <1>13 DEF S, rs2, ss2, T

\* dispose
LEMMA TurnsEmpty ==
  ASSUME NEW Q \in Seq(Job), NEW A, NEW as, NEW rs \in [Requests -> ReqStates],
         NEW ss \in [Requests -> StepStates], TurnsOK(Q, A, as, rs, ss), NEW as2, NEW W,
         SameTurns(as, as2)
  PROVE  LET left == Cancellable(ss, UNION {ToSet(job.steps) : job \in ToSet(Q)})
         IN TurnsOK(<<>>, A, as2, Abort(rs, left \cup W), CancelSteps(ss, left))
<1> DEFINE S == UNION {ToSet(job.steps) : job \in ToSet(Q)}
           left == Cancellable(ss, S)
           rs2 == Abort(rs, left \cup W)
           ss2 == CancelSteps(ss, left)
           E == <<>>
<1>1. Cancels(rs, ss, rs2, ss2, S)
  BY CancelEffect
<1>2. \A i \in DOMAIN Q : Q[i] \in Job /\ Q[i] \in ToSet(Q)
  BY DEF ToSet
<1>3. \A i \in DOMAIN Q : ToSet(Q[i].steps) \subseteq S /\ Q[i].queued \subseteq S
  <2>1. \A i \in DOMAIN Q : ToSet(Q[i].steps) \subseteq S
    BY <1>2
  <2>2. \A i \in DOMAIN Q : Q[i].queued \subseteq ToSet(Q[i].steps)
    BY <1>2 DEF Job
  <2> HIDE DEF S
  <2> QED BY <2>1, <2>2
<1>4. DOMAIN E = {}
  OBVIOUS
<1> HIDE DEF S, rs2, ss2, E
<1>5. \A r \in Requests : /\ InSteps(E, A, r) => InSteps(Q, A, r)
                          /\ InSteps(Q, A, r) => r \in S \/ InSteps(E, A, r)
                          /\ InQueue(Q, A, r) => r \in S \/ InQueue(E, A, r)
  BY <1>3, <1>4 DEF InSteps, InQueue
<1>6. TurnsOK(E, A, as2, rs2, ss2)
  <2>1. Leaves(Q, A, E, A, S)
    BY <1>4, <1>5 DEF Leaves
  <2> QED BY <1>1, <2>1, TurnsGo
<1> QED BY <1>6 DEF S, rs2, ss2, E

\* What a step of a run may do to the states of requests: the ones outside turns keep theirs.
Fades(as, rs, rs2) ==
  \A r \in Requests : /\ rs2[r] = "new" => rs[r] = "new"
                      /\ rs2[r] = "pending" => rs[r] = "pending"
                      /\ as[r] # "assigned" => rs2[r] = rs[r]

\* The requests S, which had no turn, get one.
Assigns(S, as, rs, ss, as2, rs2, ss2) ==
  \A r \in Requests :
    IF r \in S THEN as[r] # "assigned" /\ as2[r] = "assigned" /\ ss2[r] = "queued"
               ELSE as2[r] = as[r] /\ rs2[r] = rs[r] /\ ss2[r] = ss[r]

\* createAndQueueTurn
LEMMA TurnsAdd ==
  ASSUME NEW Q \in Seq(Job), NEW A \in Job \cup {None}, NEW job \in Job,
         job.queued = ToSet(job.steps), NEW as, NEW rs, NEW ss, TurnsOK(Q, A, as, rs, ss),
         NEW as2, NEW rs2, NEW ss2, Assigns(job.queued, as, rs, ss, as2, rs2, ss2)
  PROVE  TurnsOK(Append(Q, job), A, as2, rs2, ss2)
<1> DEFINE T == Append(Q, job)
           S == job.queued
<1>1. /\ Len(T) = Len(Q) + 1 /\ Len(Q) \in Nat /\ \A i \in 1 .. Len(Q) : T[i] = Q[i]
      /\ T[Len(Q) + 1] = job
  OBVIOUS
<1>2. DOMAIN T = 1 .. (Len(Q) + 1) /\ DOMAIN Q = 1 .. Len(Q)
  BY <1>1
<1> HIDE DEF T
<1>3. \A i \in DOMAIN T : \/ i \in DOMAIN Q /\ T[i] = Q[i]
                          \/ i = Len(Q) + 1 /\ T[i] = job
  <2>1. \A i \in 1 .. (Len(Q) + 1) : i \in 1 .. Len(Q) \/ i = Len(Q) + 1
    BY <1>1
  <2> QED BY <1>1, <1>2, <2>1
<1>4. \A i \in DOMAIN Q : i \in DOMAIN T /\ T[i] = Q[i] /\ i # Len(Q) + 1
  BY <1>1, <1>2
<1>5. Len(Q) + 1 \in DOMAIN T /\ T[Len(Q) + 1] = job
  BY <1>1, <1>2
<1>6. \A r \in Requests : InSteps(T, A, r) <=> InSteps(Q, A, r) \/ r \in S
  BY <1>3, <1>4, <1>5 DEF InSteps
<1>7. \A r \in Requests : InQueue(T, A, r) <=> InQueue(Q, A, r) \/ r \in S
  BY <1>3, <1>4, <1>5 DEF InQueue
<1>8. \A r \in Requests : InSteps(Q, A, r) => r \notin S
  BY DEF TurnsOK, Assigns
<1>9. S \subseteq Requests /\ \A i \in DOMAIN Q : ToSet(Q[i].steps) \subseteq Requests
  <2>1. \A J \in Job : ToSet(J.steps) \subseteq Requests
    BY DEF Job, ToSet
  <2>2. \A i \in DOMAIN Q : Q[i] \in Job
    OBVIOUS
  <2> QED BY <2>1, <2>2
<1>10. \A i \in DOMAIN Q : ToSet(Q[i].steps) \cap S = {}
  BY <1>8, <1>9 DEF InSteps
<1>11. A # None => ToSet(A.steps) \cap S = {}
  BY <1>8, <1>9 DEF InSteps
<1>12. ASSUME NEW i \in DOMAIN T, NEW j \in DOMAIN T, i # j
       PROVE  ToSet(T[i].steps) \cap ToSet(T[j].steps) = {}
  <2>1. CASE i \in DOMAIN Q /\ T[i] = Q[i] /\ j \in DOMAIN Q /\ T[j] = Q[j]
    BY <1>12, <2>1 DEF TurnsOK
  <2>2. CASE T[i] = job /\ j \in DOMAIN Q /\ T[j] = Q[j]
    BY <1>10, <2>2
  <2>3. CASE T[j] = job /\ i \in DOMAIN Q /\ T[i] = Q[i]
    BY <1>10, <2>3
  <2> QED BY <1>3, <1>12, <2>1, <2>2, <2>3
<1>13. A # None => \A i \in DOMAIN T : ToSet(A.steps) \cap ToSet(T[i].steps) = {}
  BY <1>3, <1>11 DEF TurnsOK
<1>14. ASSUME NEW r \in Requests
       PROVE  /\ InSteps(T, A, r) => as2[r] = "assigned"
              /\ rs2[r] = "pending" /\ as2[r] = "assigned"
                   => ss2[r] = "queued" /\ InQueue(T, A, r)
              /\ ss2[r] \in {"queued", "running"} => InSteps(T, A, r)
  <2>1. CASE r \in S
    BY <1>6, <1>7, <2>1 DEF Assigns
  <2>2. CASE r \notin S
    <3>1. as2[r] = as[r] /\ ss2[r] = ss[r] /\ rs2[r] = rs[r]
      BY <2>2 DEF Assigns
    <3>2. (InSteps(T, A, r) <=> InSteps(Q, A, r)) /\ (InQueue(T, A, r) <=> InQueue(Q, A, r))
      BY <1>6, <1>7, <2>2
    <3> QED BY <3>1, <3>2 DEF TurnsOK
  <2> QED BY <2>1, <2>2
<1>15. TurnsOK(T, A, as2, rs2, ss2)
  BY <1>12, <1>13, <1>14 DEF TurnsOK
<1> QED BY <1>15 DEF T

\* assignStep
LEMMA TurnsAssign ==
  ASSUME NEW Q \in Seq(Job), NEW A \in Job, NEW as, NEW rs, NEW ss, TurnsOK(Q, A, as, rs, ss),
         NEW r \in Requests, NEW as2, NEW rs2, NEW ss2, Assigns({r}, as, rs, ss, as2, rs2, ss2)
  PROVE  TurnsOK(Q, [A EXCEPT !.steps = Append(@, r), !.queued = @ \cup {r}], as2, rs2, ss2)
<1> DEFINE B == [A EXCEPT !.steps = Append(@, r), !.queued = @ \cup {r}]
<1>1. A.steps \in Seq(Requests) /\ A # None
  BY NoneAssumption DEF Job
<1>2. ToSet(Append(A.steps, r)) = ToSet(A.steps) \cup {r}
  BY <1>1, AppendSet
<1>3. B.steps = Append(A.steps, r) /\ B.queued = A.queued \cup {r}
  BY DEF Job
<1>4. B # None
  <2>1. Append(A.steps, r) \in Seq(Requests) /\ A.queued \subseteq ToSet(A.steps)
    BY <1>1 DEF Job
  <2>2. B \in [id : Nat, request : Requests, steps : Seq(Requests), queued : SUBSET Requests]
    BY <2>1 DEF Job
  <2>3. B.queued \subseteq ToSet(B.steps)
    BY <1>2, <1>3, <2>1
  <2>4. B \in Job
    BY <2>2, <2>3 DEF Job
  <2> QED BY <2>4, NoneAssumption
<1> HIDE DEF B
<1>5. \A x \in Requests : InSteps(Q, B, x) <=> InSteps(Q, A, x) \/ x = r
  BY <1>1, <1>2, <1>3, <1>4 DEF InSteps
<1>6. \A x \in Requests : InQueue(Q, B, x) <=> InQueue(Q, A, x) \/ x = r
  BY <1>1, <1>3, <1>4 DEF InQueue
<1>7. ~InSteps(Q, A, r)
  BY DEF TurnsOK, Assigns
<1>8. \A i \in DOMAIN Q : ToSet(B.steps) \cap ToSet(Q[i].steps) = {}
  BY <1>1, <1>2, <1>3, <1>7 DEF InSteps, TurnsOK
<1>9. ASSUME NEW x \in Requests
      PROVE  /\ InSteps(Q, B, x) => as2[x] = "assigned"
             /\ rs2[x] = "pending" /\ as2[x] = "assigned"
                  => ss2[x] = "queued" /\ InQueue(Q, B, x)
             /\ ss2[x] \in {"queued", "running"} => InSteps(Q, B, x)
  <2>1. CASE x = r
    BY <1>5, <1>6, <2>1 DEF Assigns
  <2>2. CASE x # r
    <3>1. as2[x] = as[x] /\ ss2[x] = ss[x] /\ rs2[x] = rs[x]
      BY <2>2 DEF Assigns
    <3> QED BY <1>5, <1>6, <2>2, <3>1 DEF TurnsOK
  <2> QED BY <2>1, <2>2
<1>10. TurnsOK(Q, B, as2, rs2, ss2)
  BY <1>8, <1>9 DEF TurnsOK
<1> QED BY <1>10 DEF B
-----------------------------------------------------------------------------
(* The synchronous pieces of a run and the requests *)

LEMMA ReturnTurns ==
  ASSUME NEW Q, NEW job \in Job, NEW as, NEW rs \in [Requests -> ReqStates],
         NEW ss \in [Requests -> StepStates], NEW n, NEW res,
         TurnsOK(Q, job, as, rs, ss), Return(job, rs, ss, n, res)
  PROVE  /\ TurnsOK(Q, active', as, reqState', stepState')
         /\ Fades(as, rs, reqState') /\ DriverOK'
<1> DEFINE scoped == {r \in job.queued : TurnScoped[r]}
           after == Abort(rs, scoped)
           left == Live(job.queued, after)
<1>1. /\ reqState' = after /\ stepState' = ss /\ phase' = "return"
      /\ active' = [job EXCEPT !.queued = left]
  BY DEF Return, Job
<1>2. left \in SUBSET job.queued
  BY DEF Live
<1>3. active' \in Job /\ active'.steps = job.steps /\ active'.queued = left
  BY <1>1, <1>2, JobQueue DEF Job
<1>4. active' # None /\ job # None /\ job.queued \subseteq ToSet(job.steps)
      /\ job.queued \subseteq Requests
  BY <1>3, NoneAssumption DEF Job
<1>5. \A r \in Requests : r \in job.queued => as[r] = "assigned"
  BY <1>4 DEF TurnsOK, InSteps
<1>6. Fades(as, rs, after)
  BY <1>5 DEF Fades, Abort
<1>7. \A r \in Requests : after[r] = "pending" => rs[r] = "pending" /\ (r \in job.queued => r \in left)
  BY DEF Abort, Live
<1>8. SameTurns(as, as)
  BY DEF SameTurns
<1> HIDE DEF after, left
<1>9. TurnsOK(Q, active', as, after, ss)
  <2>1. GoesOn(Q, job, active', as, rs, ss, after, ss)
    BY <1>3, <1>4, <1>7 DEF GoesOn
  <2> QED BY <1>8, <2>1, TurnsKeep
<1> QED BY <1>1, <1>6, <1>9 DEF DriverOK

LEMMA BeginTurns ==
  ASSUME NEW Q, NEW job \in Job, NEW as, NEW rs \in [Requests -> ReqStates],
         NEW ss \in [Requests -> StepStates], NEW n, NEW aborted \in BOOLEAN,
         TurnsOK(Q, job, as, rs, ss), BeginLoopStep(job, rs, ss, n, aborted)
  PROVE  /\ TurnsOK(Q, active', as, reqState', stepState')
         /\ Fades(as, rs, reqState') /\ DriverOK'
<1> DEFINE live == Live(job.queued, rs)
           driver == Driver(job.steps, live)
           rest == Rest(job.steps, live)
<1>1. CASE \E res : Return(job, rs, ss, n, res)
  BY <1>1, ReturnTurns
<1>2. CASE /\ live # {} /\ active' = [job EXCEPT !.queued = rest]
           /\ reqState' = Materialize(rs, live \ rest)
           /\ stepState' = [ss EXCEPT ![driver] = "running"]
           /\ current' = driver
  <2>1. live \in SUBSET job.queued /\ rest \in SUBSET job.queued /\ driver \notin rest
    BY DEF Live, Rest, NonMergeable
  <2>2. active' \in Job /\ active'.steps = job.steps /\ active'.queued = rest
    BY <1>2, <2>1, JobQueue DEF Job
  <2>3. /\ active' # None /\ job # None /\ job.queued \subseteq ToSet(job.steps)
        /\ job.queued \subseteq Requests /\ job.steps \in Seq(Requests)
    BY <2>2, NoneAssumption DEF Job
  <2>4. driver \in live
    <3> DEFINE T == IF NonMergeable(live) = {} THEN live ELSE NonMergeable(live)
    <3>1. T # {} /\ T \subseteq live
      BY <1>2 DEF NonMergeable
    <3>2. driver = FirstOf(job.steps, T)
      BY DEF Driver
    <3>3. T \subseteq ToSet(job.steps)
      BY <2>1, <2>3, <3>1
    <3> HIDE DEF T
    <3>4. FirstOf(job.steps, T) \in T
      BY <2>3, <3>1, <3>3, FirstOfProps
    <3> QED BY <3>1, <3>2, <3>4
  <2>5. \A r \in Requests : r \in job.queued => as[r] = "assigned"
    BY <2>3 DEF TurnsOK, InSteps
  <2>6. \A r \in Requests : rs[r] = "pending" /\ r \in job.queued => r \in live
    BY DEF Live
  <2> DEFINE rs2 == Materialize(rs, live \ rest)
             ss2 == [ss EXCEPT ![driver] = "running"]
  <2> HIDE DEF live, driver, rest
  <2>7. driver \in Requests /\ driver \in job.queued /\ driver \in live \ rest
    BY <2>1, <2>3, <2>4
  <2>8. Fades(as, rs, rs2)
    BY <2>1, <2>3, <2>5 DEF Fades, Materialize
  <2>9. \A r \in Requests : rs2[r] = "pending" =>
          rs[r] = "pending" /\ r # driver /\ (r \in job.queued => r \in rest)
    BY <2>6, <2>7 DEF Materialize
  <2>10. \A r \in Requests : r # driver => ss2[r] = ss[r]
    OBVIOUS
  <2>11. InSteps(Q, job, driver)
    BY <2>3, <2>7 DEF InSteps
  <2>12. rs2[driver] # "pending"
    BY <2>7, <2>9
  <2> HIDE DEF rs2, ss2
  <2>13. TurnsOK(Q, active', as, rs2, ss2)
    <3>1. GoesOn(Q, job, active', as, rs, ss, rs2, ss2)
      BY <2>2, <2>3, <2>9, <2>10, <2>11 DEF GoesOn
    <3>2. SameTurns(as, as)
      BY DEF SameTurns
    <3> QED BY <3>1, <3>2, TurnsKeep
  <2>14. reqState' = rs2 /\ stepState' = ss2 /\ current' = driver
    BY <1>2 DEF rs2, ss2
  <2> QED BY <2>8, <2>12, <2>13, <2>14 DEF DriverOK
<1> QED BY <1>1, <1>2 DEF BeginLoopStep

LEMMA PumpRequests ==
  ASSUME NEW Q \in Seq(Job), NEW as, NEW rs \in [Requests -> ReqStates],
         NEW ss \in [Requests -> StepStates], TurnsOK(Q, None, as, rs, ss),
         PumpTurns(Q, rs, ss)
  PROVE  /\ TurnsOK(pendingTurns', active', as, reqState', stepState')
         /\ Fades(as, rs, reqState') /\ DriverOK'
<1>1. CASE disposing \/ quiescence' > 0 \/ Q = <<>>
  <2>1. /\ pendingTurns' = Q /\ reqState' = rs /\ stepState' = ss /\ active' = None
        /\ phase' = "idle"
    BY <1>1 DEF PumpTurns
  <2> QED BY <2>1 DEF Fades, DriverOK
<1>2. CASE ~(disposing \/ quiescence' > 0 \/ Q = <<>>)
  <2>1. pendingTurns' = Tail(Q) /\ BeginLoopStep(Head(Q), rs, ss, 0, FALSE)
    BY <1>2 DEF PumpTurns
  <2>2. Head(Q) \in Job
    BY <1>2
  <2>3. TurnsOK(Tail(Q), Head(Q), as, rs, ss)
    BY <1>2, TurnsStart
  <2> QED BY <2>1, <2>2, <2>3, BeginTurns
<1> QED BY <1>1, <1>2
-----------------------------------------------------------------------------
(* The actions and the requests *)

LEMMA RequestTypes ==
  ASSUME TypeInv
  PROVE  /\ reqState \in [Requests -> ReqStates] /\ stepState \in [Requests -> StepStates]
         /\ assignment \in [Requests -> {"none", "waiting", "assigned", "rejected"}]
         /\ held \in Seq(Requests) /\ standalone \in Seq(Requests) /\ drain \in Seq(Requests)
         /\ pendingTurns \in Seq(Job) /\ active \in Job \cup {None}
BY TypeInvParts DEF requestTypes, waitingTypes, runTypes

\* The driver of the running step is a request of the active turn.
LEMMA DriverAssigned ==
  ASSUME TypeInv, RequestInv, phase \in {"exec", "after", "recover"}
  PROVE  current \in Requests /\ assignment[current] = "assigned" /\ reqState[current] # "pending"
<1>1. active \in Job /\ current \in ToSet(active.steps)
  BY TypeInvParts DEF runTypes
<1>2. current \in Requests
  BY <1>1 DEF Job, ToSet
<1>3. InSteps(pendingTurns, active, current)
  BY <1>1, NoneAssumption DEF InSteps
<1> QED BY <1>2, <1>3 DEF RequestInv, TurnsOK, DriverOK

\* A request with a turn does not become pending again.
LEMMA DriverKept ==
  ASSUME TypeInv, RequestInv, UNCHANGED <<phase, current>>,
         \A r \in Requests : assignment[r] = "assigned" /\ reqState'[r] = "pending"
                               => reqState[r] = "pending"
  PROVE  DriverOK'
BY DriverAssigned DEF DriverOK

\* A step that leaves alone what waits outside turns.
LEMMA WaitingKept ==
  ASSUME RequestInv, UNCHANGED <<held, standalone, drain, assignment, quiescence, disposing>>,
         TurnsOK(pendingTurns', active', assignment, reqState', stepState'),
         Fades(assignment, reqState, reqState'), DriverOK'
  PROVE  RequestInv'
<1>1. WaitsOK(held, standalone, drain, assignment, reqState')
  BY WaitsKeep DEF Fades, RequestInv
<1>2. NothingWaits'
  BY DEF RequestInv, NothingWaits
<1> QED BY <1>1, <1>2 DEF RequestInv

\* admit, where r waits as the last of the standalone requests would.
LEMMA AdmitRequests ==
  ASSUME OrderInv, RequestInv, NEW r \in Requests, NEW rs \in [Requests -> ReqStates],
         NEW as \in [Requests -> {"none", "waiting", "assigned", "rejected"}],
         NEW refused \in {"pending", "aborted"}, Admit(r, rs, as, refused),
         WaitsOK(held, Append(standalone, r), drain', as, rs),
         assignment[r] # "assigned",
         \A x \in Requests : x = r \/ (rs[x] = reqState[x] /\ as[x] = assignment[x]),
         UNCHANGED <<held, quiescence, disposing>>, quiescence = 0, ~disposing
  PROVE  RequestInv'
<1>0. TypeInv /\ Admission[r] \in Admissions
  BY LoopAssumption DEF OrderInv
<1> DEFINE S == Append(standalone, r)
<1>1. /\ ToSet(S) = ToSet(standalone) \cup {r} /\ as[r] = "waiting" /\ rs[r] = "pending"
      /\ Distinct(standalone) /\ r \notin ToSet(standalone)
  <2>1. ToSet(S) = ToSet(standalone) \cup {r}
    BY <1>0, RequestTypes, AppendSet
  <2>2. Distinct(standalone)
    BY DEF RequestInv, WaitsOK
  <2>3. r \notin ToSet(standalone)
    <3> SUFFICES ASSUME NEW i \in DOMAIN standalone, standalone[i] = r PROVE FALSE
      BY DEF ToSet
    <3>1. /\ i \in DOMAIN S /\ Len(standalone) + 1 \in DOMAIN S /\ i # Len(standalone) + 1
          /\ S[i] = r /\ S[Len(standalone) + 1] = r
      BY <1>0, RequestTypes
    <3> QED BY <3>1 DEF WaitsOK, Distinct
  <2> QED BY <2>1, <2>2, <2>3 DEF WaitsOK
<1> HIDE DEF S
<1>w. WaitsOK(held, S, drain', as, rs)
  BY DEF S
<1>2. \A x \in Requests : x \in ToSet(S) => assignment[x] # "assigned"
  BY <1>1, <1>w DEF WaitsOK
<1>3. NothingWaits'
  BY DEF NothingWaits
<1>d. Distinct(held) /\ Distinct(drain')
  BY <1>w DEF WaitsOK
<1>4. CASE CreateAndQueueTurn(r, rs)
  <2> DEFINE job == NewJob(r)
             X == job.queued
             as2 == [x \in Requests |-> IF x \in X THEN "assigned" ELSE assignment[x]]
             ss2 == [x \in Requests |-> IF x \in X THEN "queued" ELSE stepState[x]]
             Q2 == Append(pendingTurns, job)
  <2>1. job \in Job /\ X = {r} \cup ToSet(standalone) /\ job.steps = <<r>> \o standalone
    BY <1>0, NewJobType DEF NewJob
  <2>2. X = ToSet(job.steps)
    <3>1. X \subseteq ToSet(job.steps)
      BY <2>1 DEF Job
    <3>2. ToSet(<<r>> \o standalone) \subseteq {r} \cup ToSet(standalone)
      <4>1. standalone \in Seq(Requests)
        BY <1>0, RequestTypes
      <4>2. ASSUME NEW i \in DOMAIN (<<r>> \o standalone)
            PROVE  (<<r>> \o standalone)[i] = r \/ (i - 1 \in DOMAIN standalone
                                                   /\ (<<r>> \o standalone)[i] = standalone[i - 1])
        BY <4>1, <4>2
      <4> QED BY <4>2 DEF ToSet
    <3> QED BY <2>1, <3>1, <3>2
  <2>3. /\ assignment' = as2 /\ standalone' = <<>>
        /\ IF active = None
             THEN PumpTurns(Q2, rs, ss2)
             ELSE /\ pendingTurns' = Q2 /\ reqState' = rs /\ stepState' = ss2
                  /\ UNCHANGED <<runVars, clock>>
    BY <1>4 DEF CreateAndQueueTurn, NewJob
  <2>4. TurnsOK(Q2, active, as2, rs, ss2)
    <3>1. Assigns(X, assignment, reqState, stepState, as2, rs, ss2)
      BY <1>1, <1>2, <2>1 DEF Assigns
    <3>3. TurnsOK(pendingTurns, active, assignment, reqState, stepState)
      BY DEF RequestInv
    <3>4. pendingTurns \in Seq(Job) /\ active \in Job \cup {None}
      BY <1>0, RequestTypes
    <3> HIDE DEF job, as2, ss2
    <3> QED BY <2>1, <2>2, <3>1, <3>3, <3>4, TurnsAdd
  <2>5. ss2 \in [Requests -> StepStates] /\ Q2 \in Seq(Job)
    <3>1. ss2 \in [Requests -> StepStates]
      BY <1>0, RequestTypes DEF StepStates
    <3> HIDE DEF job
    <3> QED BY <1>0, <2>1, <3>1, RequestTypes
  <2>6. X \subseteq Requests
    BY <2>1 DEF Job
  <2> HIDE DEF job
  <2>7. /\ TurnsOK(pendingTurns', active', as2, reqState', stepState')
        /\ Fades(as2, rs, reqState') /\ DriverOK'
    <3>1. CASE active = None
      BY <2>3, <2>4, <2>5, <3>1, PumpRequests
    <3>2. CASE active # None
      <4>1. /\ pendingTurns' = Q2 /\ reqState' = rs /\ stepState' = ss2
            /\ UNCHANGED <<active, phase, current>>
        BY <2>3, <3>2 DEF runVars
      <4>2. DriverOK'
        BY <1>0, <4>1, DriverKept
      <4>3. Fades(as2, rs, rs)
        BY DEF Fades
      <4> QED BY <2>4, <4>1, <4>2, <4>3
    <3> QED BY <3>1, <3>2
  <2>8. \A x \in Requests : IF x \in X THEN as2[x] \in {"assigned", "rejected"}
                                       ELSE as2[x] = as[x]
    BY <2>1
  <2>9. X = ToSet(S)
    BY <1>1, <2>1
  <2>10. \A x \in X : x \in Requests /\ as[x] = "waiting" /\ rs[x] = "pending"
    BY <1>w, <2>6, <2>9 DEF WaitsOK
  <2> HIDE DEF as2, X
  <2>11. Settles(as, rs, as2, reqState', X)
    BY <1>w, <2>7, <2>8, <2>10 DEF Fades, WaitsOK, Settles
  <2>12. Without(held, held, X) /\ Without(drain', drain', X) /\ Without(S, <<>>, X)
    <3>1. ToSet(<<>>) = {} /\ Distinct(<<>>)
      BY DEF ToSet, Distinct
    <3> DEFINE E == <<>>
    <3>2. ToSet(E) = {} /\ Distinct(E)
      BY <3>1
    <3> HIDE DEF E
    <3>3. Without(held, held, X) /\ Without(drain', drain', X) /\ Without(S, E, X)
      BY <1>w, <2>9, <3>2 DEF WaitsOK, Without
    <3> QED BY <3>3 DEF E
  <2>13. WaitsOK(held, <<>>, drain', as2, reqState')
    BY <1>w, <2>11, <2>12, WaitsSettle
  <2> QED BY <1>3, <2>3, <2>7, <2>13 DEF RequestInv
<1>5. ASSUME NEW as2, NEW rs2, Settles(as, rs, as2, rs2, {r})
      PROVE  WaitsOK(held, standalone, drain', as2, rs2)
  <2>1. /\ Without(held, held, {r}) /\ Without(drain', drain', {r})
        /\ Without(S, standalone, {r})
    BY <1>1, <1>w DEF WaitsOK, Without
  <2> QED BY <1>w, <1>5, <2>1, WaitsSettle
<1>6. CASE Admission[r] # "newTurn" /\ active # None
  <2>1. AssignToActive(r, rs)
    BY <1>6 DEF Admit
  <2> DEFINE A2 == [active EXCEPT !.steps = Append(@, r), !.queued = @ \cup {r}]
  <2>2. /\ active' = A2 /\ reqState' = rs
        /\ stepState' = [stepState EXCEPT ![r] = "queued"]
        /\ assignment' = [assignment EXCEPT ![r] = "assigned"]
        /\ UNCHANGED <<standalone, pendingTurns, phase, current>>
    BY <2>1 DEF AssignToActive
  <2>3. Assigns({r}, assignment, reqState, stepState, assignment', rs, stepState')
    BY <1>0, <2>2, RequestTypes DEF Assigns
  <2>4. Settles(as, rs, assignment', rs, {r})
    BY <1>0, <1>1, <1>w, <2>2, RequestTypes DEF Settles, WaitsOK
  <2>5. active \in Job /\ pendingTurns \in Seq(Job)
    BY <1>0, <1>6, RequestTypes
  <2>6. TurnsOK(pendingTurns, A2, assignment', rs, stepState')
    BY <2>3, <2>5, TurnsAssign DEF RequestInv
  <2>7. WaitsOK(held, standalone, drain', assignment', rs)
    BY <1>5, <2>4
  <2>8. DriverOK'
    BY <1>0, <2>2, DriverKept
  <2> HIDE DEF A2
  <2> QED BY <1>3, <2>2, <2>6, <2>7, <2>8 DEF RequestInv
<1>7. ASSUME NEW as2, NEW rs2, active = None, SameTurns(assignment, as2),
             \A x \in Requests : x = r \/ rs2[x] = reqState[x],
             UNCHANGED <<stepState, pendingTurns, runVars>>,
             assignment' = as2, reqState' = rs2, WaitsOK(held, standalone', drain', as2, rs2)
      PROVE  RequestInv'
  <2>1. GoesOn(pendingTurns, None, None, assignment, reqState, stepState, rs2, stepState)
    BY <1>7 DEF GoesOn
  <2>2. TurnsOK(pendingTurns, None, as2, rs2, stepState)
    BY <1>7, <2>1, TurnsKeep DEF RequestInv
  <2>3. DriverOK'
    BY <1>0, <1>7, DriverKept DEF runVars
  <2> QED BY <1>3, <1>7, <2>2, <2>3 DEF RequestInv, runVars
<1>8. CASE Admission[r] = "activeOrNextTurn" /\ active = None
  <2>1. /\ standalone' = S /\ reqState' = rs /\ assignment' = as
        /\ UNCHANGED <<stepState, pendingTurns, runVars>>
    BY <1>8 DEF Admit, S
  <2>2. SameTurns(assignment, as)
    BY <1>1 DEF SameTurns
  <2> QED BY <1>7, <1>8, <1>w, <2>1, <2>2
<1>9. CASE Admission[r] = "activeTurnOnly" /\ active = None
  <2> DEFINE rs2 == [rs EXCEPT ![r] = refused]
             as2 == [as EXCEPT ![r] = "rejected"]
  <2>1. /\ reqState' = rs2 /\ assignment' = as2
        /\ UNCHANGED <<stepState, standalone, pendingTurns, runVars>>
    BY <1>9 DEF Admit
  <2>2. SameTurns(assignment, as2)
    BY DEF SameTurns
  <2>3. Settles(as, rs, as2, rs2, {r})
    BY <1>w DEF Settles, WaitsOK
  <2>4. \A x \in Requests : x = r \/ rs2[x] = reqState[x]
    OBVIOUS
  <2> HIDE DEF rs2, as2
  <2>5. WaitsOK(held, standalone', drain', as2, rs2)
    BY <1>5, <2>1, <2>3
  <2> QED BY <1>7, <1>9, <2>1, <2>2, <2>4, <2>5
<1>10. CASE Admission[r] = "newTurn" \/ (Admission[r] = "activeOrNewTurn" /\ active = None)
  BY <1>4, <1>10 DEF Admit
<1> QED BY <1>0, <1>6, <1>8, <1>9, <1>10 DEF Admissions

LEMMA EnqueueRequests ==
  ASSUME OrderInv, RequestInv, NEW r \in Requests, Enqueue(r)
  PROVE  RequestInv'
<1> DEFINE rs == [reqState EXCEPT ![r] = "pending"]
           as == [assignment EXCEPT ![r] = "waiting"]
<1>0. TypeInv
  BY DEF OrderInv
<1>1. /\ reqState[r] = "new" /\ ~disposing
      /\ UNCHANGED <<drain, quiescence, disposing>>
  BY DEF Enqueue, CanEnqueue, controlVars
<1>2. /\ rs \in [Requests -> ReqStates]
      /\ as \in [Requests -> {"none", "waiting", "assigned", "rejected"}]
      /\ rs[r] = "pending" /\ as[r] = "waiting"
      /\ \A x \in Requests : x # r => rs[x] = reqState[x] /\ as[x] = assignment[x]
  BY <1>0, RequestTypes DEF ReqStates
<1>3. assignment[r] = "none"
  BY <1>1 DEF RequestInv, WaitsOK
<1> HIDE DEF rs, as
<1>4. WaitsOK(Append(held, r), standalone, drain, as, rs)
      /\ WaitsOK(held, Append(standalone, r), drain, as, rs)
  <2>1. /\ held \in Seq(Requests) /\ standalone \in Seq(Requests)
        /\ WaitsOK(held, standalone, drain, assignment, reqState)
    BY <1>0, RequestTypes DEF RequestInv
  <2>2. Awaits(r, assignment, reqState, as, rs)
    BY <1>1, <1>2 DEF Awaits
  <2> QED BY <2>1, <2>2, WaitsAdd
<1>5. CASE /\ quiescence > 0 /\ held' = Append(held, r) /\ reqState' = rs /\ assignment' = as
           /\ UNCHANGED <<stepState, standalone, pendingTurns, runVars>>
  <2>1. SameTurns(assignment, as)
    BY <1>2, <1>3 DEF SameTurns
  <2>2. GoesOn(pendingTurns, active, active, assignment, reqState, stepState, rs, stepState)
    BY <1>2, <1>3 DEF GoesOn
  <2>3. TurnsOK(pendingTurns, active, as, rs, stepState)
    BY <2>1, <2>2, TurnsKeep DEF RequestInv
  <2>4. DriverOK'
    BY <1>0, <1>2, <1>3, <1>5, DriverKept DEF runVars
  <2>5. NothingWaits'
    BY <1>1, <1>5 DEF RequestInv, NothingWaits
  <2> QED BY <1>1, <1>4, <1>5, <2>3, <2>4, <2>5 DEF RequestInv, runVars
<1>6. CASE quiescence = 0 /\ held' = held /\ Admit(r, rs, as, "pending")
  BY <1>1, <1>2, <1>3, <1>4, <1>6, AdmitRequests
<1> QED BY <1>5, <1>6 DEF Enqueue, rs, as

LEMMA ReplayRequests ==
  ASSUME OrderInv, RequestInv, ReplayHeld
  PROVE  RequestInv'
<1> DEFINE r == Head(drain)
<1>0. TypeInv
  BY DEF OrderInv
<1>1. /\ drain # <<>> /\ drain' = Tail(drain) /\ Admit(r, reqState, assignment, "aborted")
      /\ UNCHANGED <<held, quiescence, disposing>> /\ releasing
  BY DEF ReplayHeld, controlVars
<1>2. quiescence = 0 /\ ~disposing
  BY <1>0, <1>1, TypeInvParts DEF controlTypes
<1>3. r \in Requests /\ r \in ToSet(drain)
  BY <1>0, <1>1, RequestTypes, TailSet
<1>4. assignment[r] = "waiting"
  BY <1>3 DEF RequestInv, WaitsOK
<1>5. WaitsOK(held, Append(standalone, r), drain', assignment, reqState)
  BY <1>0, <1>1, RequestTypes, WaitsMove DEF RequestInv
<1> HIDE DEF r
<1> QED BY <1>0, <1>1, <1>2, <1>3, <1>4, <1>5, RequestTypes, AdmitRequests

\* A synchronous pumpTurns when no turn is active, or none of it.
LEMMA PumpKeeps ==
  ASSUME OrderInv, RequestInv, active = None, PumpTurns(pendingTurns, reqState, stepState)
  PROVE  /\ TurnsOK(pendingTurns', active', assignment, reqState', stepState')
         /\ Fades(assignment, reqState, reqState') /\ DriverOK'
<1>1. TypeInv /\ TurnsOK(pendingTurns, None, assignment, reqState, stepState)
  BY DEF OrderInv, RequestInv
<1> QED BY <1>1, RequestTypes, PumpRequests

LEMMA ReplayDoneRequests ==
  ASSUME OrderInv, RequestInv, ReplayDone
  PROVE  RequestInv'
<1>1. UNCHANGED <<assignment, standalone, held, drain, quiescence, disposing>>
  BY DEF ReplayDone
<1>2. CASE active = None
  <2>1. PumpTurns(pendingTurns, reqState, stepState)
    BY <1>2 DEF ReplayDone
  <2> QED BY <1>1, <1>2, <2>1, PumpKeeps, WaitingKept
<1>3. CASE active # None
  <2>1. UNCHANGED <<reqState, stepState, pendingTurns, active, phase, current>>
    BY <1>3 DEF ReplayDone, runVars
  <2> QED BY <1>1, <2>1 DEF RequestInv, DriverOK, NothingWaits
<1> QED BY <1>2, <1>3

LEMMA ReleaseRequests ==
  ASSUME OrderInv, RequestInv, ReleaseQuiescence
  PROVE  RequestInv'
<1>0. TypeInv
  BY DEF OrderInv
<1>1. /\ quiescence > 0 /\ quiescence' = quiescence - 1
      /\ UNCHANGED <<assignment, standalone, disposing>>
  BY DEF ReleaseQuiescence
<1>2. active = None /\ drain = <<>> /\ standalone = <<>>
  BY <1>1 DEF OrderInv, LeaseOK, RequestInv, NothingWaits
<1>3. CASE UNCHANGED <<reqState, stepState, held, drain, releasing, pendingTurns, runVars,
                       waiters, clock>>
  <2>1. NothingWaits'
    BY <1>1, <1>2, <1>3 DEF RequestInv, NothingWaits
  <2> QED BY <1>1, <1>3, <2>1 DEF RequestInv, DriverOK, runVars
<1>4. CASE /\ PumpTurns(pendingTurns, reqState, stepState) /\ drain' = held /\ held' = <<>>
           /\ ~disposing
  <2>1. /\ TurnsOK(pendingTurns', active', assignment, reqState', stepState')
        /\ Fades(assignment, reqState, reqState') /\ DriverOK'
    BY <1>2, <1>4, PumpKeeps
  <2>2. WaitsOK(held, standalone, drain, assignment, reqState')
    BY <2>1, WaitsKeep DEF Fades, RequestInv
  <2>3. WaitsOK(<<>>, standalone, held, assignment, reqState')
    BY <1>0, <1>2, <2>2, RequestTypes, WaitsMove
  <2>4. NothingWaits'
    BY <1>1, <1>2, <1>4 DEF NothingWaits
  <2> QED BY <1>1, <1>4, <2>1, <2>3, <2>4 DEF RequestInv
<1> QED BY <1>3, <1>4 DEF ReleaseQuiescence

LEMMA RunRequests ==
  ASSUME OrderInv, RequestInv, RunStep, ~EndTurn
  PROVE  RequestInv'
<1>0. /\ TypeInv /\ TurnsOK(pendingTurns, active, assignment, reqState, stepState)
      /\ reqState \in [Requests -> ReqStates] /\ stepState \in [Requests -> StepStates]
  BY RequestTypes DEF OrderInv, RequestInv
<1>1. UNCHANGED runFrame /\ phase # "idle"
  BY DEF RunStep, FinishStep, AbortedStep, FailedStep, CompleteLoopStep, RetryStep, GiveUpStep,
         InterruptedRecovery, NextIteration
<1>2. UNCHANGED <<held, standalone, drain, assignment, pendingTurns, quiescence, disposing>>
  BY <1>1 DEF runFrame, waitingVars, controlVars
<1>3. active \in Job /\ active # None
  BY <1>0, <1>1, RunningJob, NoneAssumption
<1>4. ASSUME /\ TurnsOK(pendingTurns, active', assignment, reqState', stepState')
             /\ Fades(assignment, reqState, reqState') /\ DriverOK'
      PROVE  RequestInv'
  BY <1>2, <1>4, WaitingKept
<1>5. ASSUME UNCHANGED <<reqState, stepState, active>>, DriverOK' PROVE RequestInv'
  <2>1. Fades(assignment, reqState, reqState')
    BY <1>5 DEF Fades
  <2> QED BY <1>0, <1>4, <1>5, <2>1
<1>6. SameTurns(assignment, assignment)
  BY DEF SameTurns
<1>7. CASE FinishStep \/ FailedStep
  <2>1. UNCHANGED <<reqState, stepState, active, current>> /\ phase = "exec"
    BY <1>7 DEF FinishStep, FailedStep
  <2>2. DriverOK'
    BY <2>1 DEF RequestInv, DriverOK
  <2> QED BY <1>5, <2>1, <2>2
<1>8. CASE AbortedStep \/ InterruptedRecovery
  <2>1. \/ phase' = "loop" /\ UNCHANGED <<reqState, stepState, active>>
        \/ Return(active, reqState, stepState, steps, "cancelled")
    BY <1>8 DEF AbortedStep, InterruptedRecovery, HandleLoopCancellation
  <2>2. ASSUME phase' = "loop" PROVE DriverOK'
    BY <2>2 DEF DriverOK
  <2> QED BY <1>0, <1>3, <1>4, <1>5, <2>1, <2>2, ReturnTurns
<1>9. CASE GiveUpStep
  <2>1. Return(active, reqState, stepState, steps, "failed")
    BY <1>9 DEF GiveUpStep
  <2> QED BY <1>0, <1>3, <1>4, <2>1, ReturnTurns
<1>10. CASE NextIteration
  <2>1. BeginLoopStep(active, reqState, stepState, steps, turnAborted)
    BY <1>10 DEF NextIteration
  <2>2. turnAborted \in BOOLEAN
    BY <1>0, TypeInvParts DEF runTypes
  <2> QED BY <1>0, <1>3, <1>4, <2>1, <2>2, BeginTurns
<1>11. CASE CompleteLoopStep
  <2> DEFINE ss == [stepState EXCEPT ![current] = "completed"]
             res == IF turnAborted THEN "cancelled" ELSE "failed"
  <2>1. \/ BeginLoopStep(active, reqState, ss, steps, turnAborted)
        \/ Return(active, reqState, ss, steps, "completed")
        \/ Return(active, reqState, ss, steps, res)
    BY <1>11 DEF CompleteLoopStep
  <2>2. turnAborted \in BOOLEAN /\ ss \in [Requests -> StepStates]
    BY <1>0, TypeInvParts DEF runTypes, StepStates
  <2>3. current \in Requests /\ assignment[current] = "assigned" /\ reqState[current] # "pending"
    BY <1>0, <1>11, DriverAssigned DEF CompleteLoopStep
  <2>4. GoesOn(pendingTurns, active, active, assignment, reqState, stepState, reqState, ss)
    BY <1>0, <2>3 DEF GoesOn, Open
  <2> HIDE DEF ss, res
  <2>5. TurnsOK(pendingTurns, active, assignment, reqState, ss)
    BY <1>0, <1>6, <2>4, TurnsKeep
  <2> QED BY <1>0, <1>3, <1>4, <2>1, <2>2, <2>5, BeginTurns, ReturnTurns
<1>12. CASE RetryStep
  <2> DEFINE ss == [stepState EXCEPT ![current] = "queued"]
             A2 == [active EXCEPT !.queued = @ \cup {current}]
  <2>1. /\ active' = A2 /\ stepState' = ss /\ phase' = "loop" /\ reqState' = reqState
    BY <1>12 DEF RetryStep
  <2>2. current \in Requests /\ assignment[current] = "assigned" /\ reqState[current] # "pending"
    BY <1>0, <1>12, DriverAssigned DEF RetryStep
  <2>3. current \in ToSet(active.steps)
    BY <1>0, <1>12, TypeInvParts DEF RetryStep, runTypes
  <2>4. A2.steps = active.steps /\ A2.queued = active.queued \cup {current}
    BY <1>3 DEF Job
  <2>5. A2 # None
    <3>1. active' \in Job
      BY <1>0, <1>12, RetryType, TypeInvPartsPrime, <2>1 DEF runTypes
    <3> QED BY <2>1, <3>1, NoneAssumption
  <2>6. InSteps(pendingTurns, active, current)
    BY <1>3, <2>3 DEF InSteps
  <2>7. \A r \in Requests : r # current => ss[r] = stepState[r]
    BY <1>0
  <2> HIDE DEF ss, A2
  <2>8. GoesOn(pendingTurns, active, A2, assignment, reqState, stepState, reqState, ss)
    BY <1>3, <2>2, <2>4, <2>5, <2>6, <2>7 DEF GoesOn
  <2>9. TurnsOK(pendingTurns, A2, assignment, reqState, ss)
    BY <1>0, <1>6, <2>8, TurnsKeep
  <2>10. DriverOK' /\ Fades(assignment, reqState, reqState')
    BY <2>1 DEF DriverOK, Fades
  <2> QED BY <1>4, <2>1, <2>9, <2>10
<1> QED BY <1>7, <1>8, <1>9, <1>10, <1>11, <1>12 DEF RunStep

LEMMA EndRequests ==
  ASSUME OrderInv, RequestInv, EndTurn
  PROVE  RequestInv'
<1> DEFINE left == Cancellable(stepState, ToSet(active.steps))
           rs == Abort(reqState, left)
           ss == CancelSteps(stepState, left)
<1>0. /\ TypeInv /\ TurnsOK(pendingTurns, active, assignment, reqState, stepState)
      /\ reqState \in [Requests -> ReqStates] /\ stepState \in [Requests -> StepStates]
      /\ pendingTurns \in Seq(Job)
  BY RequestTypes DEF OrderInv, RequestInv
<1>1. /\ phase = "return" /\ PumpTurns(pendingTurns, rs, ss)
      /\ UNCHANGED <<assignment, held, standalone, drain, quiescence, disposing>>
  BY DEF EndTurn, waitingVars
<1>2. active \in Job /\ active # None
  BY <1>0, <1>1, RunningJob, NoneAssumption
<1>3. TurnsOK(pendingTurns, None, assignment, rs, ss)
  BY <1>0, <1>2, TurnsEnd
<1>4. rs \in [Requests -> ReqStates] /\ ss \in [Requests -> StepStates]
  BY <1>0, AbortType, CancelStepsType
<1>5. Fades(assignment, reqState, rs)
  <2>1. \A r \in Requests : r \in left => assignment[r] = "assigned"
    BY <1>0, <1>2 DEF TurnsOK, InSteps, Cancellable
  <2> HIDE DEF left
  <2> QED BY <2>1 DEF Fades, Abort
<1> HIDE DEF rs, ss
<1>6. /\ TurnsOK(pendingTurns', active', assignment, reqState', stepState')
      /\ Fades(assignment, rs, reqState') /\ DriverOK'
  BY <1>0, <1>1, <1>3, <1>4, PumpRequests
<1>7. Fades(assignment, reqState, reqState')
  BY <1>5, <1>6 DEF Fades
<1> QED BY <1>1, <1>6, <1>7, WaitingKept

LEMMA DropRequests ==
  ASSUME OrderInv, RequestInv, NEW i \in DOMAIN pendingTurns, CancelQueuedTurn(i)
  PROVE  RequestInv'
<1> DEFINE left == Cancellable(stepState, ToSet(pendingTurns[i].steps))
           rs == Abort(reqState, left)
           ss == CancelSteps(stepState, left)
<1>0. /\ TypeInv /\ TurnsOK(pendingTurns, active, assignment, reqState, stepState)
      /\ reqState \in [Requests -> ReqStates] /\ stepState \in [Requests -> StepStates]
      /\ pendingTurns \in Seq(Job)
  BY RequestTypes DEF OrderInv, RequestInv
<1>1. /\ pendingTurns' = RemoveAt(pendingTurns, i) /\ reqState' = rs /\ stepState' = ss
      /\ UNCHANGED <<active, phase, current, assignment, held, standalone, drain, quiescence,
                     disposing>>
  BY DEF CancelQueuedTurn, DropQueuedTurn, waitingVars, runVars
<1>2. TurnsOK(RemoveAt(pendingTurns, i), active, assignment, rs, ss)
  BY <1>0, TurnsDrop
<1>3. Fades(assignment, reqState, rs)
  <2>1. \A r \in Requests : r \in left => assignment[r] = "assigned"
    BY <1>0 DEF TurnsOK, InSteps, Cancellable
  <2> HIDE DEF left
  <2> QED BY <2>1 DEF Fades, Abort
<1> HIDE DEF rs, ss
<1>4. DriverOK'
  BY <1>0, <1>1, <1>3, DriverKept DEF Fades
<1> QED BY <1>1, <1>2, <1>3, <1>4, WaitingKept

LEMMA CancelStepRequests ==
  ASSUME OrderInv, RequestInv, NEW r \in Requests, CancelStep(r)
  PROVE  RequestInv'
<1> DEFINE rs == Abort(reqState, {r})
           ss == CancelSteps(stepState, {r})
<1>0. TypeInv /\ TurnsOK(pendingTurns, active, assignment, reqState, stepState)
  BY DEF OrderInv, RequestInv
<1>1. /\ stepState[r] \in {"queued", "running"} /\ reqState' = rs /\ stepState' = ss
      /\ UNCHANGED <<active, phase, current, assignment, held, standalone, drain, quiescence,
                     disposing, pendingTurns>>
  BY DEF CancelStep, waitingVars, runVars, controlVars
<1>2. assignment[r] = "assigned"
  BY <1>0, <1>1 DEF TurnsOK
<1>3. Fades(assignment, reqState, rs)
  BY <1>2 DEF Fades, Abort
<1>4. GoesOn(pendingTurns, active, active, assignment, reqState, stepState, rs, ss)
  BY DEF GoesOn, Abort, CancelSteps, Open
<1>5. SameTurns(assignment, assignment)
  BY DEF SameTurns
<1> HIDE DEF rs, ss
<1>6. TurnsOK(pendingTurns, active, assignment, rs, ss)
  BY <1>0, <1>4, <1>5, TurnsKeep
<1>7. DriverOK'
  BY <1>0, <1>1, <1>3, DriverKept DEF Fades
<1> QED BY <1>1, <1>3, <1>6, <1>7, WaitingKept

\* EnqueueReceipt.abort: one waiting request goes.
LEMMA AbortRequests ==
  ASSUME OrderInv, RequestInv, NEW r \in Requests, assignment[r] = "waiting",
         reqState' = Abort(reqState, {r}), assignment' = [assignment EXCEPT ![r] = "rejected"],
         Without(held, held', {r}), Without(standalone, standalone', {r}),
         UNCHANGED <<drain, stepState, pendingTurns, active, phase, current, quiescence, disposing>>,
         r \notin ToSet(drain), NothingWaits'
  PROVE  RequestInv'
<1>0. /\ TypeInv /\ TurnsOK(pendingTurns, active, assignment, reqState, stepState)
      /\ assignment \in [Requests -> {"none", "waiting", "assigned", "rejected"}]
      /\ WaitsOK(held, standalone, drain, assignment, reqState)
  BY RequestTypes DEF OrderInv, RequestInv
<1>1. SameTurns(assignment, assignment')
  BY <1>0 DEF SameTurns
<1>2. GoesOn(pendingTurns, active, active, assignment, reqState, stepState, reqState', stepState)
  BY DEF GoesOn, Abort
<1>3. Settles(assignment, reqState, assignment', reqState', {r})
  BY <1>0 DEF Settles, Abort, WaitsOK
<1>4. Without(drain, drain, {r})
  BY <1>0 DEF Without, WaitsOK
<1>5. DriverOK'
  BY <1>0, DriverKept DEF Abort
<1>6. WaitsOK(held', standalone', drain, assignment', reqState')
  BY <1>0, <1>3, <1>4, WaitsSettle
<1>7. TurnsOK(pendingTurns, active, assignment', reqState', stepState)
  BY <1>0, <1>1, <1>2, TurnsKeep
<1> QED BY <1>5, <1>6, <1>7 DEF RequestInv

LEMMA ReceiptRequests ==
  ASSUME OrderInv, RequestInv,
         \/ \E i \in DOMAIN held : AbortHeld(i)
         \/ \E i \in DOMAIN standalone : AbortStandalone(i)
  PROVE  RequestInv'
<1>0. /\ TypeInv /\ WaitsOK(held, standalone, drain, assignment, reqState)
      /\ held \in Seq(Requests) /\ standalone \in Seq(Requests)
  BY RequestTypes DEF OrderInv, RequestInv
<1>1. CASE \E i \in DOMAIN held : AbortHeld(i)
  <2>1. PICK i \in DOMAIN held : AbortHeld(i)
    BY <1>1
  <2> DEFINE r == held[i]
  <2>2. /\ held' = RemoveAt(held, i) /\ reqState' = Abort(reqState, {r})
        /\ assignment' = [assignment EXCEPT ![r] = "rejected"]
        /\ UNCHANGED <<standalone, drain, stepState, pendingTurns, active, phase, current,
                       quiescence, disposing>>
    BY <2>1 DEF AbortHeld, runVars
  <2>3. r \in ToSet(held) /\ r \in Requests /\ Without(held, held', {r})
    BY <1>0, <2>2, RemoveSet DEF Without, WaitsOK
  <2> HIDE DEF r
  <2>4. /\ assignment[r] = "waiting" /\ r \notin ToSet(drain)
        /\ Without(standalone, standalone', {r})
    BY <1>0, <2>2, <2>3 DEF WaitsOK, Without
  <2>5. NothingWaits'
    <3>1. disposing => ToSet(held) = {}
      BY DEF RequestInv, NothingWaits, ToSet
    <3> QED BY <2>2, <2>3, <3>1 DEF RequestInv, NothingWaits
  <2> QED BY <2>2, <2>3, <2>4, <2>5, AbortRequests
<1>2. CASE \E i \in DOMAIN standalone : AbortStandalone(i)
  <2>1. PICK i \in DOMAIN standalone : AbortStandalone(i)
    BY <1>2
  <2> DEFINE r == standalone[i]
  <2>2. /\ standalone' = RemoveAt(standalone, i) /\ reqState' = Abort(reqState, {r})
        /\ assignment' = [assignment EXCEPT ![r] = "rejected"]
        /\ UNCHANGED <<held, drain, stepState, pendingTurns, active, phase, current, quiescence,
                       disposing>>
    BY <2>1 DEF AbortStandalone, runVars, controlVars
  <2>3. r \in ToSet(standalone) /\ r \in Requests /\ Without(standalone, standalone', {r})
    BY <1>0, <2>2, RemoveSet DEF Without, WaitsOK
  <2> HIDE DEF r
  <2>4. /\ assignment[r] = "waiting" /\ r \notin ToSet(drain) /\ Without(held, held', {r})
    BY <1>0, <2>2, <2>3 DEF WaitsOK, Without
  <2>5. NothingWaits'
    <3>1. quiescence > 0 \/ disposing => ToSet(standalone) = {}
      BY DEF RequestInv, NothingWaits, ToSet
    <3> QED BY <2>2, <2>3, <3>1 DEF RequestInv, NothingWaits
  <2> QED BY <2>2, <2>3, <2>4, <2>5, AbortRequests
<1> QED BY <1>1, <1>2

LEMMA DisposeRequests ==
  ASSUME OrderInv, RequestInv, Dispose
  PROVE  RequestInv'
<1> DEFINE left == Cancellable(stepState, UNION {ToSet(job.steps) : job \in ToSet(pendingTurns)})
           X == ToSet(standalone) \cup ToSet(held)
           rs == Abort(reqState, left \cup X)
           ss == CancelSteps(stepState, left)
           as == [r \in Requests |-> IF r \in X THEN "rejected" ELSE assignment[r]]
<1>0. /\ TypeInv /\ TurnsOK(pendingTurns, active, assignment, reqState, stepState)
      /\ reqState \in [Requests -> ReqStates] /\ stepState \in [Requests -> StepStates]
      /\ pendingTurns \in Seq(Job) /\ WaitsOK(held, standalone, drain, assignment, reqState)
  BY RequestTypes DEF OrderInv, RequestInv
<1>1. /\ ~releasing /\ disposing' = TRUE /\ pendingTurns' = <<>> /\ standalone' = <<>>
      /\ held' = <<>> /\ reqState' = rs /\ stepState' = ss /\ assignment' = as
      /\ UNCHANGED <<drain, active, phase, current, quiescence>>
  BY DEF Dispose
<1>2. drain = <<>>
  BY <1>0, <1>1, TypeInvParts DEF waitingTypes
<1>3. ToSet(<<>>) = {} /\ Distinct(<<>>)
  BY DEF ToSet, Distinct
<1>4. \A r \in Requests : r \in X <=> assignment[r] = "waiting"
  BY <1>0, <1>2, <1>3 DEF WaitsOK
<1>5. \A r \in Requests : as[r] = IF r \in X THEN "rejected" ELSE assignment[r]
  OBVIOUS
<1>6. \A r \in Requests : /\ rs[r] = "new" => reqState[r] = "new"
                          /\ rs[r] = "pending" => reqState[r] = "pending"
  BY DEF Abort
<1> HIDE DEF as
<1>7. SameTurns(assignment, as)
  BY <1>4, <1>5 DEF SameTurns
<1>8. TurnsOK(<<>>, active, as, rs, ss)
  BY <1>0, <1>7, TurnsEmpty
<1> HIDE DEF X, rs, ss
<1>9. \A r \in Requests : as[r] # "waiting" /\ (rs[r] = "pending" => as[r] # "none")
                          /\ (rs[r] = "new" => as[r] = "none")
  BY <1>0, <1>4, <1>5, <1>6 DEF WaitsOK
<1>10. WaitsOK(<<>>, <<>>, <<>>, as, rs)
  <2> DEFINE E == <<>>
  <2>1. ToSet(E) = {} /\ Distinct(E)
    BY <1>3
  <2> HIDE DEF E
  <2>2. WaitsOK(E, E, E, as, rs)
    BY <1>9, <2>1 DEF WaitsOK
  <2> QED BY <2>2 DEF E
<1>11. DriverOK'
  BY <1>0, <1>1, <1>6, DriverKept
<1>12. NothingWaits'
  BY <1>1 DEF NothingWaits
<1> QED BY <1>1, <1>2, <1>8, <1>10, <1>11, <1>12 DEF RequestInv

LEMMA AcquireRequests ==
  ASSUME OrderInv, RequestInv, TryAcquireQuiescence
  PROVE  RequestInv'
<1>1. /\ ~disposing /\ ~HasPendingRequests
      /\ UNCHANGED <<reqState, stepState, assignment, held, standalone, drain, pendingTurns, active,
                     phase, current, disposing>>
  BY DEF TryAcquireQuiescence, requestVars, waitingVars, runVars
<1>2. standalone = <<>>
  <2>1. standalone \in Seq(Requests) /\ WaitsOK(held, standalone, drain, assignment, reqState)
    BY RequestTypes DEF OrderInv, RequestInv
  <2>2. \A r \in ToSet(standalone) : r \in Requests /\ reqState[r] = "pending"
    BY <2>1 DEF ToSet, WaitsOK
  <2>3. ToSet(standalone) = {}
    BY <1>1, <2>2 DEF HasPendingRequests, Live
  <2> QED BY <2>1, <2>3, TailSet
<1>3. NothingWaits'
  BY <1>1, <1>2 DEF NothingWaits
<1> QED BY <1>1, <1>3 DEF RequestInv, DriverOK

LEMMA FreshRequests ==
  ASSUME NEW as, NEW rs, NEW ss, as = [r \in Requests |-> "none"],
         rs = [r \in Requests |-> "new"], ss = [r \in Requests |-> "none"]
  PROVE  WaitsOK(<<>>, <<>>, <<>>, as, rs) /\ TurnsOK(<<>>, None, as, rs, ss)
<1> DEFINE E == <<>>
<1>1. ToSet(E) = {} /\ Distinct(E) /\ DOMAIN E = {}
  BY DEF ToSet, Distinct
<1> HIDE DEF E
<1>2. WaitsOK(E, E, E, as, rs)
  BY <1>1 DEF WaitsOK
<1>3. TurnsOK(E, None, as, rs, ss)
  BY <1>1 DEF TurnsOK, InSteps, InQueue
<1> QED BY <1>2, <1>3 DEF E

LEMMA RequestInit == Init => RequestInv
<1> SUFFICES ASSUME Init PROVE RequestInv
  OBVIOUS
<1>1. DriverOK /\ NothingWaits
  BY DEF Init, DriverOK, NothingWaits
<1> QED BY <1>1, FreshRequests DEF Init, RequestInv

LEMMA RestartRequests ==
  ASSUME Restart
  PROVE  RequestInv'
<1>1. DriverOK' /\ NothingWaits'
  BY DEF Restart, DriverOK, NothingWaits
<1> QED BY <1>1, FreshRequests DEF Restart, RequestInv

LEMMA RequestNext == OrderInv /\ RequestInv /\ [Next]_vars => RequestInv'
<1> SUFFICES ASSUME OrderInv, RequestInv, [Next]_vars PROVE RequestInv'
  OBVIOUS
<1>1. ASSUME UNCHANGED <<reqState, stepState, assignment, held, standalone, drain, pendingTurns,
                         active, phase, current, quiescence, disposing>>
      PROVE  RequestInv'
  BY <1>1 DEF RequestInv, DriverOK, NothingWaits
<1>2. CASE CancelActiveTurn \/ Settled \/ Flush \/ UNCHANGED vars
  BY <1>1, <1>2 DEF CancelActiveTurn, Settled, Flush, vars, requestVars, waitingVars, runVars,
                    controlVars
<1>3. CASE Client
  BY <1>2, <1>3, EnqueueRequests, CancelStepRequests, AcquireRequests, DropRequests,
     ReceiptRequests, DisposeRequests DEF Client
<1>4. CASE RunStep
  BY <1>4, RunRequests, EndRequests
<1> QED BY <1>2, <1>3, <1>4, ReplayRequests, ReplayDoneRequests, ReleaseRequests, RestartRequests
        DEF Next, Replay

LEMMA RequestInvariant == Spec => [](OrderInv /\ RequestInv)
<1> QED BY OrderInit, OrderNext, RequestInit, RequestNext, PTL DEF Spec

\* While undo holds its lease the loop is still: no turn runs or is queued, and nothing waits
\* but in heldAdmissions.  tryAcquireQuiescence asks for no pending request, and a standalone
\* request is always pending.
THEOREM LeaseIsQuiet == Spec => []QuiescentWhileLeased
<1>1. OrderInv /\ RequestInv => QuiescentWhileLeased
  BY DEF OrderInv, LeaseOK, RequestInv, NothingWaits, QuiescentWhileLeased
<1> QED BY <1>1, RequestInvariant, PTL

\* When a turn ends - by its run, by cancelQueuedTurn or by dispose - every step of it is
\* settled.
THEOREM StepsSettleWithTurns == Spec => []OpenStepsHaveTurns
<1>1. OrderInv /\ RequestInv => OpenStepsHaveTurns
  <2> SUFFICES ASSUME OrderInv, RequestInv, NEW r \in Requests,
                      stepState[r] \in {"queued", "running"}
               PROVE  \E job \in LiveJobs : r \in ToSet(job.steps)
    BY DEF OpenStepsHaveTurns
  <2>1. InSteps(pendingTurns, active, r)
    BY DEF RequestInv, TurnsOK
  <2>2. \A i \in DOMAIN pendingTurns : pendingTurns[i] \in ToSet(pendingTurns)
    BY DEF ToSet
  <2> QED BY <2>1, <2>2 DEF InSteps, LiveJobs
<1> QED BY <1>1, RequestInvariant, PTL

\* A set of at most one member.
LEMMA AtMostOne ==
  ASSUME NEW K, \A i, j \in K : i = j
  PROVE  Cardinality(K) = IF K = {} THEN 0 ELSE 1
<1>1. CASE K = {}
  BY <1>1, FS_EmptySet
<1>2. CASE K # {}
  <2>1. PICK i \in K : TRUE
    BY <1>2
  <2>2. K = {i}
    BY <2>1
  <2> QED BY <1>2, <2>2, FS_Singleton
<1> QED BY <1>1, <1>2

LEMMA DistinctCount ==
  ASSUME NEW s, Distinct(s), NEW r
  PROVE  Cardinality({i \in DOMAIN s : s[i] = r}) = IF r \in ToSet(s) THEN 1 ELSE 0
<1> DEFINE K == {i \in DOMAIN s : s[i] = r}
<1>1. \A i, j \in K : i = j
  BY DEF Distinct
<1>2. K = {} <=> r \notin ToSet(s)
  BY DEF ToSet
<1> HIDE DEF K
<1>3. Cardinality(K) = IF K = {} THEN 0 ELSE 1
  BY <1>1, AtMostOne
<1>4. Cardinality(K) = IF r \in ToSet(s) THEN 1 ELSE 0
  BY <1>2, <1>3
<1> QED BY <1>4 DEF K

\* A request that was accepted, and neither ran nor was refused, waits at exactly one place,
\* and its promise is open exactly while that place belongs to no turn - through leases,
\* replays, retries, cancellations and disposal.
THEOREM RequestsStayConserved == Spec => []RequestsConserved
<1>1. OrderInv /\ RequestInv => RequestsConserved
  <2> SUFFICES ASSUME OrderInv, RequestInv, NEW r \in Requests
               PROVE  /\ reqState[r] = "pending" /\ assignment[r] # "rejected" => Homes(r) = 1
                      /\ assignment[r] = "waiting" <=>
                           r \in ToSet(held) \cup ToSet(standalone) \cup ToSet(drain)
    BY DEF RequestsConserved
  <2> DEFINE K == {i \in DOMAIN pendingTurns : r \in pendingTurns[i].queued}
             h == Cardinality({i \in DOMAIN held : held[i] = r})
             s == Cardinality({i \in DOMAIN standalone : standalone[i] = r})
             d == Cardinality({i \in DOMAIN drain : drain[i] = r})
             a == IF active # None /\ r \in active.queued THEN 1 ELSE 0
  <2>1. /\ WaitsOK(held, standalone, drain, assignment, reqState)
        /\ TurnsOK(pendingTurns, active, assignment, reqState, stepState)
        /\ pendingTurns \in Seq(Job) /\ active \in Job \cup {None}
        /\ assignment[r] \in {"none", "waiting", "assigned", "rejected"}
    BY RequestTypes DEF OrderInv, RequestInv
  <2>2. /\ h = IF r \in ToSet(held) THEN 1 ELSE 0
        /\ s = IF r \in ToSet(standalone) THEN 1 ELSE 0
        /\ d = IF r \in ToSet(drain) THEN 1 ELSE 0
    BY <2>1, DistinctCount DEF WaitsOK
  <2>3. \A i \in DOMAIN pendingTurns :
          pendingTurns[i].queued \subseteq ToSet(pendingTurns[i].steps)
    BY <2>1 DEF Job
  <2>4. active # None => active.queued \subseteq ToSet(active.steps)
    BY <2>1 DEF Job
  <2>5. \A i, j \in K : i = j
    BY <2>1, <2>3 DEF TurnsOK
  <2>6. a = 1 => K = {}
    BY <2>1, <2>3, <2>4 DEF TurnsOK
  <2>7. K # {} \/ a = 1 => assignment[r] = "assigned"
    BY <2>1, <2>3, <2>4 DEF TurnsOK, InSteps
  <2>8. reqState[r] = "pending" /\ assignment[r] = "assigned" => K # {} \/ a = 1
    BY <2>1 DEF TurnsOK, InQueue
  <2>9. Homes(r) = h + s + d + Cardinality(K) + a
    BY DEF Homes
  <2>10. a \in {0, 1}
    OBVIOUS
  <2> HIDE DEF K, h, s, d, a
  <2>11. Cardinality(K) = IF K = {} THEN 0 ELSE 1
    BY <2>5, AtMostOne
  <2>12. ASSUME reqState[r] = "pending", assignment[r] # "rejected" PROVE Homes(r) = 1
    <3>1. assignment[r] \in {"waiting", "assigned"}
      BY <2>1, <2>12 DEF WaitsOK
    <3>2. CASE assignment[r] = "waiting"
      <4>1. K = {} /\ a = 0
        BY <2>7, <2>10, <3>2
      <4>2. h + s + d = 1
        BY <2>1, <2>2, <3>2 DEF WaitsOK
      <4>3. h \in Nat /\ s \in Nat /\ d \in Nat
        BY <2>2
      <4> QED BY <2>9, <2>11, <4>1, <4>2, <4>3
    <3>3. CASE assignment[r] = "assigned"
      <4>1. h = 0 /\ s = 0 /\ d = 0
        BY <2>1, <2>2, <3>3 DEF WaitsOK
      <4> QED BY <2>6, <2>8, <2>9, <2>10, <2>11, <2>12, <3>3, <4>1
    <3> QED BY <3>1, <3>2, <3>3
  <2> QED BY <2>1, <2>12 DEF WaitsOK
<1> QED BY <1>1, RequestInvariant, PTL

\* settled() resolves only when no turn is active, none is queued and none is held back.
THEOREM SettlesWhenQuiet == Spec => SettleIsQuiet
<1> DEFINE Quiet == waiters' < waiters => active' = None /\ pendingTurns' = <<>> /\ held' = <<>>
<1>1. TypeInv /\ [Next]_vars => Quiet
  <2> SUFFICES ASSUME TypeInv, [Next]_vars, waiters' < waiters
               PROVE  active' = None /\ pendingTurns' = <<>> /\ held' = <<>>
    OBVIOUS
  <2>0. waiters \in Nat
    BY TypeInvParts DEF controlTypes
  <2>1. waiters' # waiters /\ waiters' # waiters + 1
    BY <2>0
  <2>2. \A idle : MaybeSettle(idle) # waiters => idle
    BY DEF MaybeSettle
  <2>3. CASE ReleaseQuiescence
    <3>1. /\ PumpTurns(pendingTurns, reqState, stepState) /\ held' = <<>>
          /\ waiters' = MaybeSettle(pendingTurns = <<>> /\ held = <<>>)
      BY <2>1, <2>3 DEF ReleaseQuiescence
    <3>2. pendingTurns = <<>>
      BY <2>1, <3>1 DEF MaybeSettle
    <3> QED BY <3>1, <3>2, PumpEmpty
  <2>4. CASE ReplayDone
    <3>1. /\ PumpTurns(pendingTurns, reqState, stepState) /\ held' = held
          /\ waiters' = MaybeSettle(pendingTurns = <<>> /\ held = <<>>)
      BY <2>1, <2>4 DEF ReplayDone
    <3>2. pendingTurns = <<>> /\ held = <<>>
      BY <2>1, <3>1 DEF MaybeSettle
    <3> QED BY <3>1, <3>2, PumpEmpty
  <2>5. CASE EndTurn
    <3> DEFINE left == Cancellable(stepState, ToSet(active.steps))
    <3>1. /\ PumpTurns(pendingTurns, Abort(reqState, left), CancelSteps(stepState, left))
          /\ held' = held /\ waiters' = MaybeSettle(pendingTurns = <<>> /\ held = <<>>)
      BY <2>5 DEF EndTurn, waitingVars
    <3>2. pendingTurns = <<>> /\ held = <<>>
      BY <2>1, <3>1 DEF MaybeSettle
    <3> QED BY <3>1, <3>2 DEF PumpTurns
  <2>6. CASE \E i \in DOMAIN pendingTurns : CancelQueuedTurn(i)
    BY <2>1, <2>6 DEF CancelQueuedTurn, DropQueuedTurn, MaybeSettle, waitingVars, runVars
  <2>7. CASE \E i \in DOMAIN held : AbortHeld(i)
    BY <2>1, <2>7 DEF AbortHeld, MaybeSettle, runVars
  <2>8. CASE Dispose
    BY <2>1, <2>8 DEF Dispose, MaybeSettle
  <2>9. CASE Restart
    BY <2>9 DEF Restart
  <2>10. CASE RunStep /\ ~EndTurn
    <3>1. UNCHANGED runFrame
      BY <2>10 DEF RunStep, FinishStep, AbortedStep, FailedStep, CompleteLoopStep, RetryStep,
                   GiveUpStep, InterruptedRecovery, NextIteration
    <3> QED BY <2>1, <3>1 DEF runFrame, controlVars
  <2>11. CASE ReplayHeld \/ Flush \/ UNCHANGED vars
    BY <2>1, <2>11 DEF ReplayHeld, Flush, vars, controlVars
  <2>12. CASE \/ \E r \in Requests : Enqueue(r) \/ CancelStep(r)
              \/ TryAcquireQuiescence \/ CancelActiveTurn \/ Settled
              \/ \E i \in DOMAIN standalone : AbortStandalone(i)
    BY <2>1, <2>12 DEF Enqueue, CancelStep, TryAcquireQuiescence, CancelActiveTurn, Settled,
                       AbortStandalone, controlVars
  <2> QED BY <2>3, <2>4, <2>5, <2>6, <2>7, <2>8, <2>9, <2>10, <2>11, <2>12
          DEF Next, Client, Replay
<1> QED BY <1>1, InitType, NextType, PTL DEF Spec, SettleIsQuiet

\* After disposal nothing is queued, held or promised, and no turn starts any more: what was
\* waiting is rejected, enqueue and the replay are refused, and pumpTurns looks at disposing.
THEOREM StaysDisposed == Spec => DisposedStaysDown
<1> DEFINE Down == disposing' => /\ pendingTurns' = <<>> /\ held' = <<>> /\ standalone' = <<>>
                                 /\ \A r \in Requests : assignment'[r] # "waiting"
                                 /\ active = None => active' = None
<1>1. /\ OrderInv /\ RequestInv /\ [Next]_vars /\ (OrderInv /\ RequestInv)' => Down
  <2> SUFFICES ASSUME OrderInv, RequestInv, [Next]_vars, OrderInv', RequestInv', disposing'
               PROVE  /\ pendingTurns' = <<>> /\ held' = <<>> /\ standalone' = <<>>
                      /\ \A r \in Requests : assignment'[r] # "waiting"
                      /\ active = None => active' = None
    OBVIOUS
  <2>0. TypeInv /\ TypeInv'
    BY DEF OrderInv
  <2>1. pendingTurns' = <<>> /\ held' = <<>> /\ standalone' = <<>>
    BY DEF OrderInv, LeaseOK, RequestInv, NothingWaits
  <2>2. drain' = <<>>
    BY <2>0, TypeInvPartsPrime DEF waitingTypes, controlTypes
  <2>3. \A r \in Requests : assignment'[r] # "waiting"
    <3>1. ToSet(<<>>) = {}
      BY DEF ToSet
    <3> QED BY <2>1, <2>2, <3>1 DEF RequestInv, WaitsOK
  <2>4. ASSUME active = None PROVE active' = None
    <3>1. Effect
      BY NextEffect
    <3>2. CASE \E job \in Job : Starts(job)
      <4>1. disposing
        <5>1. CASE disposing' = disposing
          BY <5>1
        <5>2. CASE disposing' # disposing
          <6>1. Dispose
            BY <5>2 DEF Next, RunStep, FinishStep, AbortedStep, FailedStep, CompleteLoopStep,
               RetryStep, GiveUpStep, InterruptedRecovery, NextIteration, EndTurn, Replay, ReplayHeld,
               ReplayDone, ReleaseQuiescence, Client, Enqueue, CancelStep, TryAcquireQuiescence,
               CancelActiveTurn, CancelQueuedTurn, DropQueuedTurn, AbortHeld, AbortStandalone,
               Settled, Flush, Restart, runFrame, controlVars, vars
          <6>2. active' = active
            BY <6>1 DEF Dispose
          <6> QED BY <2>4, <3>2, <6>2, NoneAssumption DEF Starts
        <5> QED BY <5>1, <5>2
      <4>2. phase = "idle" /\ ~releasing
        BY <2>0, <2>4, <4>1, TypeInvParts DEF runTypes, controlTypes
      <4>3. active' = active
        BY <2>4, <4>1, <4>2 DEF Next, RunStep, FinishStep, AbortedStep, FailedStep, CompleteLoopStep,
           RetryStep, GiveUpStep, InterruptedRecovery, NextIteration, EndTurn, Replay, ReplayHeld,
           ReplayDone, ReleaseQuiescence, Client, Enqueue, CanEnqueue, CancelStep,
           TryAcquireQuiescence, CancelActiveTurn, CancelQueuedTurn, DropQueuedTurn, AbortHeld,
           AbortStandalone, Settled, Dispose, Flush, Restart, runVars, vars
      <4> QED BY <2>4, <4>3
    <3>3. CASE ~\E job \in Job : Starts(job)
      BY <2>4, <3>1, <3>3 DEF Effect, Keeps, Queues, Ends, Succeeds, Drops, Empties, Restart
    <3> QED BY <3>2, <3>3
  <2> QED BY <2>1, <2>3, <2>4
<1> QED BY <1>1, RequestInvariant, PTL DEF Spec, DisposedStaysDown

\* A cancelled turn begins no further step: every iteration looks at the signal, and a turn
\* that follows it has another id.
THEOREM CancelStopsSteps == Spec => NoStepAfterCancel
<1> DEFINE Stops == turnAborted /\ active # None /\ active' # None /\ active'.id = active.id
                    => steps' = steps
<1>1. OrderInv /\ [Next]_vars => Stops
  <2> SUFFICES ASSUME OrderInv, [Next]_vars, turnAborted, active # None, active' # None,
                      active'.id = active.id
               PROVE  steps' = steps
    OBVIOUS
  <2>0. TypeInv /\ active \in Job
    BY TypeInvParts DEF OrderInv, runTypes
  <2>1. CASE RunStep /\ ~EndTurn
    <3>1. \A job, rs, ss, res : Return(job, rs, ss, steps, res) => steps' = steps
      BY DEF Return
    <3>2. \A job, rs, ss : BeginLoopStep(job, rs, ss, steps, turnAborted) => steps' = steps
      BY <3>1 DEF BeginLoopStep
    <3> QED BY <2>1, <3>1, <3>2 DEF RunStep, FinishStep, AbortedStep, FailedStep,
               CompleteLoopStep, RetryStep, GiveUpStep, InterruptedRecovery, NextIteration,
               HandleLoopCancellation
  <2>2. CASE EndTurn
    <3>1. Ends \/ Succeeds
      BY <2>2, EndEffect
    <3>2. CASE Succeeds
      <4>1. pendingTurns # <<>> /\ active'.id = Head(pendingTurns).id
        BY <3>2 DEF Succeeds
      <4>2. 1 \in DOMAIN pendingTurns /\ Head(pendingTurns) = pendingTurns[1]
            /\ pendingTurns[1] \in Job
        BY <2>0, <4>1, TypeInvParts
      <4>3. active.id < pendingTurns[1].id
        BY <4>2 DEF OrderInv, IdInv, IdsOrdered
      <4>4. active.id \in Nat
        BY <2>0 DEF Job
      <4> QED BY <4>1, <4>2, <4>3, <4>4
    <3> QED BY <3>1, <3>2 DEF Ends
  <2>3. CASE ReplayHeld \/ \E r \in Requests : Enqueue(r)
    <3>1. ASSUME NEW r \in Requests, NEW rs, NEW as, NEW refused, Admit(r, rs, as, refused)
          PROVE  steps' = steps
      <4>1. Admission[r] \in Admissions
        BY LoopAssumption
      <4>2. CreateAndQueueTurn(r, rs) => steps' = steps
        BY DEF CreateAndQueueTurn, runVars
      <4> QED BY <3>1, <4>1, <4>2 DEF Admit, AssignToActive, Admissions
    <3>2. CASE ReplayHeld
      <4>1. Head(drain) \in Requests
        BY <2>0, <3>2, RequestTypes, TailSet DEF ReplayHeld
      <4> QED BY <3>1, <3>2, <4>1 DEF ReplayHeld
    <3>3. ASSUME NEW r \in Requests, Enqueue(r) PROVE steps' = steps
      BY <3>1, <3>3 DEF Enqueue, runVars
    <3> QED BY <2>3, <3>2, <3>3
  <2>4. CASE ReleaseQuiescence
    BY <2>4 DEF ReleaseQuiescence, OrderInv, LeaseOK
  <2>5. CASE ReplayDone \/ Restart \/ Flush \/ UNCHANGED vars
    BY <2>5 DEF ReplayDone, Restart, Flush, vars, runVars
  <2>6. CASE Client /\ ~\E r \in Requests : Enqueue(r)
    BY <2>6 DEF Client, CancelStep, TryAcquireQuiescence, CancelActiveTurn, CancelQueuedTurn,
                DropQueuedTurn, AbortHeld, AbortStandalone, Settled, Dispose, runVars
  <2> QED BY <2>1, <2>2, <2>3, <2>4, <2>5, <2>6 DEF Next, Replay
<1> QED BY <1>1, OrderInit, OrderNext, PTL DEF Spec, NoStepAfterCancel
=============================================================================
