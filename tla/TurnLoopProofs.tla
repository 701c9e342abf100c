--------------------------- MODULE TurnLoopProofs ----------------------------
(***************************************************************************)
(* Theorems about TurnLoop, for every set of requests and every value of   *)
(* the bounds.                                                             *)
(***************************************************************************)
EXTENDS TurnLoop, TurnClockProofs
-----------------------------------------------------------------------------
(* Sequences *)

\* FirstOf finds a member when the sequence has one.
LEMMA FirstOfProps ==
  ASSUME NEW R, NEW s \in Seq(R), NEW S, S # {}, S \subseteq ToSet(s)
  PROVE  FirstOf(s, S) \in S
<1> DEFINE at == {i \in 1 .. Len(s) : s[i] \in S}
<1>1. at \subseteq Nat /\ at # {}
  BY DEF ToSet
<1>2. PICK i \in at : \A j \in at : ~(<<j, i>> \in OpToRel(<, Nat))
  BY <1>1, NatLessThanWellFounded, WFMin
<1>3. \A j \in 1 .. (i - 1) : s[j] \notin S
  <2> SUFFICES ASSUME NEW j \in 1 .. (i - 1), s[j] \in S PROVE FALSE
    OBVIOUS
  <2>1. j \in at /\ j < i /\ j \in Nat /\ i \in Nat
    OBVIOUS
  <2> QED BY <1>2, <2>1, NatOrder
<1>4. s[i] \in S /\ i \in DOMAIN s
  OBVIOUS
<1> QED BY <1>3, <1>4 DEF FirstOf
-----------------------------------------------------------------------------
(* The synchronous pieces *)

LEMMA AbortType ==
  ASSUME NEW rs \in [Requests -> ReqStates], NEW S
  PROVE  Abort(rs, S) \in [Requests -> ReqStates]
BY DEF Abort, ReqStates

LEMMA CancelStepsType ==
  ASSUME NEW ss \in [Requests -> StepStates], NEW S
  PROVE  CancelSteps(ss, S) \in [Requests -> StepStates]
BY DEF CancelSteps, StepStates

\* The state of a run after one of its synchronous pieces.
RunShape(job) ==
  /\ reqState' \in [Requests -> ReqStates]
  /\ stepState' \in [Requests -> StepStates]
  /\ active' \in Job /\ active'.id = job.id
  /\ phase' \in {"exec", "return"}
  /\ current' \in Requests \cup {None}
  /\ phase' = "exec" => current' \in ToSet(active'.steps)
  /\ steps' \in Nat /\ result' \in Results

LEMMA JobQueue ==
  ASSUME NEW job \in Job, NEW Q \in SUBSET job.queued
  PROVE  /\ [job EXCEPT !.queued = Q] \in Job
         /\ [job EXCEPT !.queued = Q].id = job.id
         /\ [job EXCEPT !.queued = Q].steps = job.steps
BY DEF Job

LEMMA ReturnShape ==
  ASSUME NEW job \in Job, NEW rs \in [Requests -> ReqStates],
         NEW ss \in [Requests -> StepStates], NEW n \in Nat, NEW res \in Results,
         Return(job, rs, ss, n, res)
  PROVE  RunShape(job) /\ phase' = "return"
<1> DEFINE after == Abort(rs, {r \in job.queued : TurnScoped[r]})
<1>1. after \in [Requests -> ReqStates]
  BY AbortType
<1>2. Live(job.queued, after) \in SUBSET job.queued
  BY DEF Live
<1>3. active' = [job EXCEPT !.queued = Live(job.queued, after)]
  BY DEF Return, Job
<1>4. active' \in Job /\ active'.id = job.id
  BY <1>2, <1>3, JobQueue
<1>5. /\ reqState' = after /\ stepState' = ss /\ phase' = "return" /\ current' = None
      /\ steps' = n /\ result' = res
  BY DEF Return
<1> QED BY <1>1, <1>4, <1>5 DEF RunShape

LEMMA BeginShape ==
  ASSUME NEW job \in Job, NEW rs \in [Requests -> ReqStates],
         NEW ss \in [Requests -> StepStates], NEW n \in Nat, NEW aborted \in BOOLEAN,
         BeginLoopStep(job, rs, ss, n, aborted)
  PROVE  RunShape(job)
<1> DEFINE live == Live(job.queued, rs)
           driver == Driver(job.steps, live)
           rest == Rest(job.steps, live)
<1>0. "cancelled" \in Results /\ "completed" \in Results /\ "failed" \in Results
  BY DEF Results
<1>1. CASE aborted
  <2>1. Return(job, rs, ss, n, "cancelled")
    BY <1>1 DEF BeginLoopStep
  <2> QED BY <2>1, <1>0, ReturnShape
<1>2. CASE ~aborted /\ live = {}
  <2>1. Return(job, rs, ss, n, "completed")
    BY <1>2 DEF BeginLoopStep
  <2> QED BY <2>1, <1>0, ReturnShape
<1>3. CASE ~aborted /\ live # {} /\ MaxSteps > 0 /\ n >= MaxSteps
  <2>1. Return(job, rs, ss, n, "failed")
    BY <1>3 DEF BeginLoopStep
  <2> QED BY <2>1, <1>0, ReturnShape
<1>4. CASE ~aborted /\ live # {} /\ ~(MaxSteps > 0 /\ n >= MaxSteps)
  <2>1. /\ active' = [job EXCEPT !.queued = rest]
        /\ reqState' = Materialize(rs, live \ rest)
        /\ stepState' = [ss EXCEPT ![driver] = "running"]
        /\ phase' = "exec" /\ current' = driver /\ steps' = n + 1 /\ result' = "none"
    BY <1>4 DEF BeginLoopStep
  <2>2. live \in SUBSET job.queued
    BY DEF Live
  <2>3. rest \in SUBSET job.queued
    BY <2>2 DEF Rest, NonMergeable
  <2>4. job.steps \in Seq(Requests) /\ job.queued \in SUBSET Requests
        /\ job.queued \subseteq ToSet(job.steps)
    BY DEF Job
  <2>5. driver \in live
    <3> DEFINE T == IF NonMergeable(live) = {} THEN live ELSE NonMergeable(live)
    <3>1. NonMergeable(live) \subseteq live
      BY DEF NonMergeable
    <3>2. T # {} /\ T \subseteq live
      BY <1>4, <3>1
    <3>3. driver = FirstOf(job.steps, T)
      BY DEF Driver
    <3>4. T \subseteq ToSet(job.steps)
      BY <2>2, <2>4, <3>2
    <3> HIDE DEF T
    <3>5. FirstOf(job.steps, T) \in T
      BY <2>4, <3>2, <3>4, FirstOfProps
    <3> QED BY <3>2, <3>3, <3>5
  <2>6. driver \in Requests
    BY <2>2, <2>4, <2>5
  <2>7. reqState' \in [Requests -> ReqStates]
    BY <2>1 DEF Materialize, ReqStates
  <2>8. stepState' \in [Requests -> StepStates]
    BY <2>1 DEF StepStates
  <2>9. active' \in Job /\ active'.id = job.id
    BY <2>1, <2>3, JobQueue
  <2>10. active'.steps = job.steps
    BY <2>1, <2>3, JobQueue
  <2> HIDE DEF driver
  <2>11. phase' = "exec" /\ current' \in Requests /\ current' \in ToSet(job.steps)
    BY <2>1, <2>2, <2>4, <2>5, <2>6
  <2>12. steps' \in Nat /\ result' \in Results
    BY <2>1 DEF Results
  <2> HIDE DEF live, rest
  <2> QED BY <2>7, <2>8, <2>9, <2>10, <2>11, <2>12 DEF RunShape
<1> QED BY <1>1, <1>2, <1>3, <1>4

\* pumpTurns either leaves the queue as it is, with no turn running, or starts
\* the turn at its head.
PumpIdle(queue, rs, ss) ==
  /\ disposing \/ quiescence' > 0 \/ queue = <<>>
  /\ pendingTurns' = queue /\ reqState' = rs /\ stepState' = ss
  /\ active' = None /\ phase' = "idle" /\ current' = None
  /\ steps' = 0 /\ result' = "none" /\ turnAborted' = FALSE /\ clock' = clock

PumpStart(queue) ==
  /\ ~disposing /\ ~(quiescence' > 0) /\ queue # <<>>
  /\ pendingTurns' = Tail(queue)
  /\ clock' = ApplyPrompt(clock) /\ turnAborted' = FALSE
  /\ RunShape(Head(queue))

LEMMA PumpShape ==
  ASSUME NEW queue \in Seq(Job), NEW rs \in [Requests -> ReqStates],
         NEW ss \in [Requests -> StepStates], PumpTurns(queue, rs, ss)
  PROVE  PumpIdle(queue, rs, ss) \/ PumpStart(queue)
<1>1. CASE disposing \/ quiescence' > 0 \/ queue = <<>>
  BY <1>1 DEF PumpTurns, PumpIdle
<1>2. CASE ~(disposing \/ quiescence' > 0 \/ queue = <<>>)
  <2>1. Head(queue) \in Job
    BY <1>2
  <2>2. BeginLoopStep(Head(queue), rs, ss, 0, FALSE)
    BY <1>2 DEF PumpTurns
  <2>3. RunShape(Head(queue))
    BY <2>1, <2>2, BeginShape
  <2> QED BY <1>2, <2>3 DEF PumpTurns, PumpStart
<1> QED BY <1>1, <1>2
-----------------------------------------------------------------------------
(* Types and control *)

\* A clock as the records leave it: finitely many cancelled ids, and the next
\* id is not one of them.
ClockOK(c) == c \in Clock /\ IsFiniteSet(c.cancelled) /\ c.next \notin c.cancelled

\* TypeOK is not inductive: a run that goes on needs an active turn and a
\* driver among its steps (ControlOK), and advanceTurnClock stops only when
\* the cancelled ids are finitely many.
TypeInv == TypeOK /\ ControlOK /\ ClockOK(clock) /\ ClockOK(durable)

\* What a client or a hook changes at most outside the run and the queues.
requestTypes ==
  /\ reqState \in [Requests -> ReqStates]
  /\ assignment \in [Requests -> {"none", "waiting", "assigned", "rejected"}]
  /\ stepState \in [Requests -> StepStates]
  /\ turnOutcome \in [Requests -> Results \cup {"open"}]

waitingTypes ==
  /\ standalone \in Seq(Requests) /\ held \in Seq(Requests) /\ drain \in Seq(Requests)
  /\ releasing \in BOOLEAN /\ (drain # <<>> => releasing)

runTypes ==
  /\ active \in Job \cup {None}
  /\ phase \in Phases
  /\ current \in Requests \cup {None}
  /\ steps \in Nat /\ result \in Results /\ turnAborted \in BOOLEAN
  /\ active = None <=> phase = "idle"
  /\ phase \in {"exec", "after", "recover"} => current \in ToSet(active.steps)

controlTypes ==
  /\ quiescence \in Nat /\ disposing \in BOOLEAN /\ waiters \in Nat
  /\ releasing => quiescence = 0 /\ ~disposing

journalTypes == ClockOK(durable) /\ restored \in Clock /\ restarts \in Nat

LEMMA TypeInvParts ==
  TypeInv <=> /\ requestTypes /\ waitingTypes /\ runTypes /\ controlTypes /\ journalTypes
              /\ pendingTurns \in Seq(Job) /\ ClockOK(clock) /\ nextReserved \in Nat
BY DEF TypeInv, TypeOK, ControlOK, ClockOK, requestTypes, waitingTypes, runTypes, controlTypes,
       journalTypes

LEMMA TypeInvPartsPrime ==
  TypeInv' <=> /\ requestTypes' /\ waitingTypes' /\ runTypes' /\ controlTypes' /\ journalTypes'
               /\ pendingTurns' \in Seq(Job) /\ ClockOK(clock') /\ nextReserved' \in Nat
BY DEF TypeInv, TypeOK, ControlOK, ClockOK, requestTypes, waitingTypes, runTypes, controlTypes,
       journalTypes
LEMMA RunShapeTypes ==
  ASSUME NEW job \in Job, RunShape(job), turnAborted' \in BOOLEAN
  PROVE  /\ runTypes'
         /\ reqState' \in [Requests -> ReqStates] /\ stepState' \in [Requests -> StepStates]
<1>1. active' # None
  BY NoneAssumption DEF RunShape
<1> QED BY <1>1 DEF RunShape, runTypes, Phases

LEMMA PumpTypes ==
  ASSUME TypeInv, NEW queue \in Seq(Job), NEW rs \in [Requests -> ReqStates],
         NEW ss \in [Requests -> StepStates], PumpTurns(queue, rs, ss)
  PROVE  /\ runTypes'
         /\ reqState' \in [Requests -> ReqStates] /\ stepState' \in [Requests -> StepStates]
         /\ pendingTurns' \in Seq(Job) /\ ClockOK(clock')
<1>1. CASE PumpIdle(queue, rs, ss)
  <2>1. /\ active' = None /\ phase' = "idle" /\ current' = None
        /\ steps' = 0 /\ result' = "none" /\ turnAborted' = FALSE
    BY <1>1 DEF PumpIdle
  <2>2. runTypes'
    BY <2>1 DEF runTypes, Phases, Results
  <2> QED BY <1>1, <2>2, TypeInvParts DEF PumpIdle
<1>2. CASE PumpStart(queue)
  <2>1. Head(queue) \in Job /\ Tail(queue) \in Seq(Job)
    BY <1>2 DEF PumpStart
  <2>2. ClockOK(clock')
    BY <1>2, TypeInvParts, PromptProps DEF PumpStart, ClockOK
  <2> QED BY <1>2, <2>1, <2>2, RunShapeTypes DEF PumpStart
<1> QED BY <1>1, <1>2, PumpShape

LEMMA ClockCancel ==
  ASSUME NEW c, ClockOK(c), NEW ids \in SUBSET Nat, IsFiniteSet(ids)
  PROVE  ClockOK(ApplyCancel(c, ids))
BY CancelProps DEF ClockOK

LEMMA ReserveType ==
  ASSUME TypeInv
  PROVE  /\ ReserveTurnId \in Nat
         /\ ReserveTurnId >= nextReserved /\ ReserveTurnId >= clock.next
BY TypeInvParts DEF ReserveTurnId, ClockOK, Clock

\* The job createAndQueueTurn builds for the request r.
NewJob(r) ==
  [id |-> ReserveTurnId, request |-> r, steps |-> <<r>> \o standalone,
   queued |-> {r} \cup ToSet(standalone)]

LEMMA NewJobType ==
  ASSUME TypeInv, NEW r \in Requests
  PROVE  NewJob(r) \in Job
<1>1. standalone \in Seq(Requests)
  BY TypeInvParts DEF waitingTypes
<1>2. <<r>> \o standalone \in Seq(Requests)
  BY <1>1
<1>3. ToSet(<<r>> \o standalone) = {r} \cup ToSet(standalone)
  <2> DEFINE s == <<r>> \o standalone
  <2>1. Len(s) = 1 + Len(standalone) /\ s[1] = r
        /\ \A i \in 1 .. Len(standalone) : s[i + 1] = standalone[i]
    BY <1>1
  <2>2. Len(standalone) \in Nat /\ DOMAIN s = 1 .. Len(s)
        /\ DOMAIN standalone = 1 .. Len(standalone)
    BY <1>1, <1>2
  <2> HIDE DEF s
  <2>3. \A i \in 1 .. Len(s) : i = 1 \/ (i - 1 \in 1 .. Len(standalone) /\ s[i] = standalone[i - 1])
    BY <2>1, <2>2
  <2>4. ToSet(s) \subseteq {r} \cup ToSet(standalone)
    BY <2>1, <2>2, <2>3 DEF ToSet
  <2>5. \A i \in 1 .. Len(standalone) : i + 1 \in 1 .. Len(s)
    BY <2>1, <2>2
  <2>6. 1 \in 1 .. Len(s)
    BY <2>1, <2>2
  <2>7. {r} \cup ToSet(standalone) \subseteq ToSet(s)
    BY <2>1, <2>2, <2>5, <2>6 DEF ToSet
  <2> QED BY <2>4, <2>7 DEF s
<1>4. ToSet(standalone) \subseteq Requests
  BY <1>1 DEF ToSet
<1> QED BY <1>2, <1>3, <1>4, ReserveType DEF NewJob, Job
\* The types of everything admit assigns.
admitTypes ==
  /\ requestTypes /\ standalone \in Seq(Requests) /\ runTypes
  /\ pendingTurns \in Seq(Job) /\ ClockOK(clock) /\ nextReserved \in Nat

LEMMA CreateTypes ==
  ASSUME TypeInv, NEW r \in Requests, NEW rs \in [Requests -> ReqStates],
         CreateAndQueueTurn(r, rs)
  PROVE  admitTypes'
<1> DEFINE job == NewJob(r)
           ss == [x \in Requests |-> IF x \in job.queued THEN "queued" ELSE stepState[x]]
           as == [x \in Requests |-> IF x \in job.queued THEN "assigned" ELSE assignment[x]]
<1>1. job \in Job /\ job.id \in Nat
  BY NewJobType DEF Job
<1>2. /\ assignment' = as
      /\ turnOutcome' = [turnOutcome EXCEPT ![r] = "open"]
      /\ nextReserved' = job.id + 1
      /\ standalone' = <<>>
  BY DEF CreateAndQueueTurn, NewJob
<1>8. IF active = None
        THEN PumpTurns(Append(pendingTurns, job), rs, ss)
        ELSE /\ pendingTurns' = Append(pendingTurns, job)
             /\ reqState' = rs /\ stepState' = ss
             /\ UNCHANGED <<runVars, clock>>
  BY DEF CreateAndQueueTurn, NewJob
<1> HIDE DEF job
<1>3. /\ as \in [Requests -> {"none", "waiting", "assigned", "rejected"}]
      /\ ss \in [Requests -> StepStates]
      /\ [turnOutcome EXCEPT ![r] = "open"] \in [Requests -> Results \cup {"open"}]
  BY TypeInvParts DEF requestTypes, StepStates
<1> HIDE DEF ss, as
<1>4. Append(pendingTurns, job) \in Seq(Job)
  BY <1>1, TypeInvParts
<1>5. /\ assignment' \in [Requests -> {"none", "waiting", "assigned", "rejected"}]
      /\ turnOutcome' \in [Requests -> Results \cup {"open"}]
      /\ nextReserved' \in Nat /\ standalone' \in Seq(Requests)
  <2>1. nextReserved' \in Nat /\ standalone' \in Seq(Requests)
    BY <1>1, <1>2
  <2>2. turnOutcome' \in [Requests -> Results \cup {"open"}]
    BY <1>2, TypeInvParts DEF requestTypes
  <2> QED BY <1>2, <1>3, <2>1, <2>2
<1>6. CASE active = None
  <2>1. PumpTurns(Append(pendingTurns, job), rs, ss)
    BY <1>8, <1>6
  <2> QED BY <1>3, <1>4, <1>5, <2>1, PumpTypes DEF admitTypes, requestTypes
<1>7. CASE active # None
  <2>1. /\ pendingTurns' = Append(pendingTurns, job)
        /\ reqState' = rs /\ stepState' = ss
        /\ UNCHANGED <<runVars, clock>>
    BY <1>8, <1>7
  <2>2. runTypes'
    BY <2>1, TypeInvParts DEF runTypes, runVars
  <2> QED BY <1>3, <1>4, <1>5, <2>1, <2>2, TypeInvParts DEF admitTypes, requestTypes
<1> QED BY <1>6, <1>7

LEMMA AssignTypes ==
  ASSUME TypeInv, active # None, NEW r \in Requests, NEW rs \in [Requests -> ReqStates],
         AssignToActive(r, rs)
  PROVE  admitTypes'
<1>1. active \in Job
  BY TypeInvParts DEF runTypes
<1>2. active' = [active EXCEPT !.steps = Append(@, r), !.queued = @ \cup {r}]
  BY DEF AssignToActive
<1>3. active.steps \in Seq(Requests) /\ active.queued \in SUBSET Requests
      /\ active.queued \subseteq ToSet(active.steps)
  BY <1>1 DEF Job
<1>4. ToSet(Append(active.steps, r)) = ToSet(active.steps) \cup {r}
  <2> DEFINE s == active.steps
             t == Append(s, r)
  <2>1. Len(t) = Len(s) + 1 /\ t[Len(s) + 1] = r /\ DOMAIN t = 1 .. Len(t)
        /\ DOMAIN s = 1 .. Len(s) /\ Len(s) \in Nat
        /\ \A i \in 1 .. Len(s) : t[i] = s[i]
    BY <1>3
  <2> HIDE DEF s, t
  <2> QED BY <2>1 DEF ToSet, s, t
<1>5. Append(active.steps, r) \in Seq(Requests)
  BY <1>3
<1>6. active' \in Job /\ active'.steps = Append(active.steps, r)
  <2> DEFINE a == [active EXCEPT !.steps = Append(@, r), !.queued = @ \cup {r}]
  <2>1. a.id = active.id /\ a.request = active.request
        /\ a.steps = Append(active.steps, r) /\ a.queued = active.queued \cup {r}
    BY <1>1 DEF Job
  <2>2. a \in [id : Nat, request : Requests, steps : Seq(Requests), queued : SUBSET Requests]
    BY <1>1, <1>3, <1>5 DEF Job
  <2>3. a.queued \subseteq ToSet(a.steps)
    BY <2>1, <1>3, <1>4
  <2>4. a \in Job
    BY <2>2, <2>3 DEF Job
  <2> QED BY <1>2, <2>1, <2>4
<1>7. /\ reqState' = rs
      /\ stepState' = [stepState EXCEPT ![r] = "queued"]
      /\ assignment' = [assignment EXCEPT ![r] = "assigned"]
      /\ UNCHANGED <<turnOutcome, standalone, pendingTurns, phase, current, steps, result,
                     turnAborted, clock, nextReserved>>
  BY DEF AssignToActive
<1>8. requestTypes'
  BY <1>7, TypeInvParts DEF requestTypes, StepStates
<1>9. runTypes'
  <2>1. current \in ToSet(active.steps) => current \in ToSet(active'.steps)
    BY <1>4, <1>6
  <2>2. active' # None
    BY <1>6, NoneAssumption
  <2> QED BY <1>6, <1>7, <2>1, <2>2, TypeInvParts DEF runTypes
<1> QED BY <1>7, <1>8, <1>9, TypeInvParts DEF admitTypes, waitingTypes

LEMMA AdmitTypes ==
  ASSUME TypeInv, NEW r \in Requests, NEW rs \in [Requests -> ReqStates],
         NEW as \in [Requests -> {"none", "waiting", "assigned", "rejected"}],
         NEW refused \in ReqStates, Admit(r, rs, as, refused)
  PROVE  admitTypes'
<1>0. Admission[r] \in Admissions
  BY LoopAssumption
<1>1. CASE Admission[r] = "newTurn" \/ (Admission[r] = "activeOrNewTurn" /\ active = None)
  <2>1. CreateAndQueueTurn(r, rs)
    BY <1>1 DEF Admit
  <2> QED BY <2>1, CreateTypes
<1>2. CASE Admission[r] # "newTurn" /\ active # None
  <2>1. AssignToActive(r, rs)
    BY <1>2 DEF Admit
  <2> QED BY <1>2, <2>1, AssignTypes
<1>3. CASE Admission[r] = "activeOrNextTurn" /\ active = None
  <2>1. /\ standalone' = Append(standalone, r)
        /\ reqState' = rs /\ assignment' = as
        /\ UNCHANGED <<stepState, turnOutcome, pendingTurns, runVars, clock, nextReserved>>
    BY <1>3 DEF Admit
  <2>2. requestTypes'
    BY <2>1, TypeInvParts DEF requestTypes
  <2>3. runTypes'
    BY <2>1, TypeInvParts DEF runTypes, runVars
  <2> QED BY <2>1, <2>2, <2>3, TypeInvParts DEF admitTypes, waitingTypes
<1>4. CASE Admission[r] = "activeTurnOnly" /\ active = None
  <2>1. /\ reqState' = [rs EXCEPT ![r] = refused]
        /\ assignment' = [as EXCEPT ![r] = "rejected"]
        /\ UNCHANGED <<stepState, turnOutcome, standalone, pendingTurns, runVars, clock,
                       nextReserved>>
    BY <1>4 DEF Admit
  <2>2. requestTypes'
    BY <2>1, TypeInvParts DEF requestTypes
  <2>3. runTypes'
    BY <2>1, TypeInvParts DEF runTypes, runVars
  <2> QED BY <2>1, <2>2, <2>3, TypeInvParts DEF admitTypes, waitingTypes
<1> QED BY <1>0, <1>1, <1>2, <1>3, <1>4 DEF Admissions
LEMMA InitType == Init => TypeInv
<1> SUFFICES ASSUME Init PROVE TypeInv
  OBVIOUS
<1>1. ClockOK(InitialClock)
  BY FS_EmptySet DEF ClockOK, InitialClock, Clock
<1>2. requestTypes
  BY DEF Init, requestTypes, ReqStates, StepStates, Results
<1>3. waitingTypes /\ controlTypes
  <2>1. standalone = <<>> /\ held = <<>> /\ drain = <<>> /\ releasing = FALSE
    BY DEF Init
  <2>2. waitingTypes
    <3>1. <<>> \in Seq(Requests)
      OBVIOUS
    <3>2. standalone \in Seq(Requests) /\ held \in Seq(Requests) /\ drain \in Seq(Requests)
      BY <2>1, <3>1, Zenon
    <3>3. releasing \in BOOLEAN /\ (drain # <<>> => releasing)
      BY <2>1, Zenon
    <3> QED BY <3>2, <3>3, Zenon DEF waitingTypes
  <2>3. quiescence = 0 /\ disposing = FALSE /\ waiters = 0
    BY DEF Init
  <2>4. controlTypes
    BY <2>1, <2>3 DEF controlTypes
  <2> QED BY <2>2, <2>4
<1>4. runTypes
  BY DEF Init, runTypes, Phases, Results
<1>5. clock = InitialClock /\ durable = InitialClock /\ restored = InitialClock
  BY DEF Init
<1>6. journalTypes /\ ClockOK(clock)
  BY <1>1, <1>5 DEF Init, journalTypes, ClockOK
<1>7. pendingTurns \in Seq(Job) /\ nextReserved \in Nat
  BY DEF Init
<1> QED BY <1>2, <1>3, <1>4, <1>6, <1>7, TypeInvParts

LEMMA EnqueueType ==
  ASSUME TypeInv, NEW r \in Requests, Enqueue(r)
  PROVE  TypeInv'
<1> DEFINE rs == [reqState EXCEPT ![r] = "pending"]
           as == [assignment EXCEPT ![r] = "waiting"]
<1>1. /\ rs \in [Requests -> ReqStates]
      /\ as \in [Requests -> {"none", "waiting", "assigned", "rejected"}]
  BY TypeInvParts DEF requestTypes, ReqStates
<1>2. UNCHANGED <<drain, releasing, quiescence, disposing, waiters, durable, restored, restarts>>
  BY DEF Enqueue, controlVars, journalVars
<1>3. controlTypes' /\ journalTypes'
  BY <1>2, TypeInvParts DEF controlTypes, journalTypes
<1>4. CASE /\ held' = Append(held, r)
           /\ reqState' = rs /\ assignment' = as
           /\ UNCHANGED <<stepState, turnOutcome, standalone, pendingTurns, runVars, clock,
                          nextReserved>>
  <2>1. requestTypes'
    BY <1>1, <1>4, TypeInvParts DEF requestTypes
  <2>2. runTypes'
    BY <1>4, TypeInvParts DEF runTypes, runVars
  <2>3. waitingTypes'
    BY <1>2, <1>4, TypeInvParts DEF waitingTypes
  <2> QED BY <1>3, <1>4, <2>1, <2>2, <2>3, TypeInvParts, TypeInvPartsPrime
<1>5. CASE held' = held /\ Admit(r, rs, as, "pending")
  <2>1. "pending" \in ReqStates
    BY DEF ReqStates
  <2> HIDE DEF rs, as
  <2>2. admitTypes'
    BY <1>1, <1>5, <2>1, AdmitTypes
  <2>3. waitingTypes'
    BY <1>2, <1>5, <2>2, TypeInvParts DEF waitingTypes, admitTypes
  <2> QED BY <1>3, <2>2, <2>3, TypeInvPartsPrime DEF admitTypes
<1> QED BY <1>4, <1>5 DEF Enqueue

LEMMA ReplayHeldType ==
  ASSUME TypeInv, ReplayHeld
  PROVE  TypeInv'
<1>1. /\ drain # <<>> /\ drain' = Tail(drain)
      /\ UNCHANGED <<held, releasing, quiescence, disposing, waiters, durable, restored, restarts>>
      /\ releasing
  BY DEF ReplayHeld, controlVars, journalVars
<1>2. Head(drain) \in Requests /\ Tail(drain) \in Seq(Requests)
  BY <1>1, TypeInvParts DEF waitingTypes
<1>3. admitTypes'
  BY <1>2, AdmitTypes, TypeInvParts DEF ReplayHeld, requestTypes, ReqStates
<1>4. waitingTypes'
  BY <1>1, <1>2, <1>3, TypeInvParts DEF waitingTypes, admitTypes
<1>5. controlTypes' /\ journalTypes'
  BY <1>1, TypeInvParts DEF controlTypes, journalTypes
<1> QED BY <1>3, <1>4, <1>5, TypeInvPartsPrime DEF admitTypes

LEMMA ReplayDoneType ==
  ASSUME TypeInv, ReplayDone
  PROVE  TypeInv'
<1>1. /\ drain = <<>> /\ releasing' = FALSE
      /\ UNCHANGED <<assignment, turnOutcome, standalone, held, drain, quiescence, disposing,
                     nextReserved, durable, restored, restarts>>
  BY DEF ReplayDone, journalVars
<1>2. waitingTypes' /\ journalTypes' /\ nextReserved' \in Nat
  BY <1>1, TypeInvParts DEF waitingTypes, journalTypes
<1>3. CASE /\ PumpTurns(pendingTurns, reqState, stepState)
           /\ waiters' = MaybeSettle(pendingTurns = <<>> /\ held = <<>>)
  <2>1. waiters' \in Nat
    BY <1>3, TypeInvParts DEF MaybeSettle, controlTypes
  <2>2. controlTypes'
    BY <1>1, <2>1, TypeInvParts DEF controlTypes
  <2>3. /\ runTypes' /\ pendingTurns' \in Seq(Job) /\ ClockOK(clock')
        /\ reqState' \in [Requests -> ReqStates] /\ stepState' \in [Requests -> StepStates]
    BY <1>3, PumpTypes, TypeInvParts DEF requestTypes
  <2>4. requestTypes'
    BY <1>1, <2>3, TypeInvParts DEF requestTypes
  <2> QED BY <1>2, <2>2, <2>3, <2>4, TypeInvPartsPrime
<1>4. CASE UNCHANGED <<reqState, stepState, pendingTurns, runVars, waiters, clock>>
  <2>1. controlTypes'
    BY <1>1, <1>4, TypeInvParts DEF controlTypes
  <2>2. requestTypes'
    BY <1>1, <1>4, TypeInvParts DEF requestTypes
  <2>3. runTypes'
    BY <1>4, TypeInvParts DEF runTypes, runVars
  <2> QED BY <1>2, <1>4, <2>1, <2>2, <2>3, TypeInvParts, TypeInvPartsPrime
<1> QED BY <1>3, <1>4 DEF ReplayDone

LEMMA ReleaseType ==
  ASSUME TypeInv, ReleaseQuiescence
  PROVE  TypeInv'
<1>1. /\ ~releasing /\ quiescence > 0 /\ quiescence' = quiescence - 1
      /\ UNCHANGED <<assignment, turnOutcome, standalone, disposing, nextReserved,
                     durable, restored, restarts>>
  BY DEF ReleaseQuiescence, journalVars
<1>2. journalTypes' /\ nextReserved' \in Nat
  BY <1>1, TypeInvParts DEF journalTypes
<1>3. CASE UNCHANGED <<reqState, stepState, held, drain, releasing, pendingTurns, runVars,
                       waiters, clock>>
  <2>1. controlTypes'
    BY <1>1, <1>3, TypeInvParts DEF controlTypes
  <2>2. requestTypes' /\ waitingTypes'
    BY <1>1, <1>3, TypeInvParts DEF requestTypes, waitingTypes
  <2>3. runTypes'
    BY <1>3, TypeInvParts DEF runTypes, runVars
  <2> QED BY <1>2, <1>3, <2>1, <2>2, <2>3, TypeInvParts, TypeInvPartsPrime
<1>4. CASE /\ ~(quiescence > 1 \/ disposing)
           /\ PumpTurns(pendingTurns, reqState, stepState)
           /\ waiters' = MaybeSettle(pendingTurns = <<>> /\ held = <<>>)
           /\ drain' = held /\ held' = <<>> /\ releasing' = TRUE
  <2>1. waiters' \in Nat
    BY <1>4, TypeInvParts DEF MaybeSettle, controlTypes
  <2>2. controlTypes'
    BY <1>1, <1>4, <2>1, TypeInvParts DEF controlTypes
  <2>3. /\ runTypes' /\ pendingTurns' \in Seq(Job) /\ ClockOK(clock')
        /\ reqState' \in [Requests -> ReqStates] /\ stepState' \in [Requests -> StepStates]
    BY <1>4, PumpTypes, TypeInvParts DEF requestTypes
  <2>4. requestTypes'
    BY <1>1, <2>3, TypeInvParts DEF requestTypes
  <2>5. waitingTypes'
    BY <1>1, <1>4, TypeInvParts DEF waitingTypes
  <2> QED BY <1>2, <2>2, <2>3, <2>4, <2>5, TypeInvPartsPrime
<1> QED BY <1>3, <1>4 DEF ReleaseQuiescence
\* A step of the run leaves everything but the run, its requests and the clock
\* alone.
LEMMA RunFrameTypes ==
  ASSUME TypeInv, UNCHANGED runFrame, runTypes', ClockOK(clock'),
         reqState' \in [Requests -> ReqStates], stepState' \in [Requests -> StepStates]
  PROVE  TypeInv'
<1>1. UNCHANGED <<assignment, turnOutcome, standalone, held, drain, releasing, pendingTurns,
                  quiescence, disposing, waiters, nextReserved, durable, restored, restarts>>
  BY DEF runFrame, waitingVars, controlVars, journalVars
<1>2. requestTypes'
  BY <1>1, TypeInvParts DEF requestTypes
<1>3. waitingTypes' /\ controlTypes'
  BY <1>1, TypeInvParts DEF waitingTypes, controlTypes
<1>4. journalTypes' /\ pendingTurns' \in Seq(Job) /\ nextReserved' \in Nat
  BY <1>1, TypeInvParts DEF journalTypes
<1> QED BY <1>2, <1>3, <1>4, TypeInvPartsPrime

LEMMA RunShapeKeeps ==
  ASSUME TypeInv, UNCHANGED runFrame, active \in Job, RunShape(active), ClockOK(clock')
  PROVE  TypeInv'
<1>1. turnAborted' \in BOOLEAN
  BY TypeInvParts DEF runFrame, runTypes
<1> QED BY <1>1, RunShapeTypes, RunFrameTypes

\* While the run is under way there is an active turn.
LEMMA RunningJob ==
  ASSUME TypeInv, phase # "idle"
  PROVE  active \in Job /\ active.id \in Nat
BY TypeInvParts DEF runTypes, Job

LEMMA EventClock ==
  ASSUME TypeInv, phase # "idle"
  PROVE  ClockOK(ApplyLoopEvent(clock, active.id))
<1>1. active.id \in Nat /\ ClockOK(clock)
  BY RunningJob, TypeInvParts
<1>2. CASE active.id >= clock.next
  <2>1. ApplyLoopEvent(clock, active.id) = AdvanceTurnClock(active.id + 1, clock.cancelled)
    BY <1>2 DEF ApplyLoopEvent
  <2>2. active.id + 1 \in Nat /\ clock.cancelled \in SUBSET Nat /\ IsFiniteSet(clock.cancelled)
    BY <1>1 DEF ClockOK, Clock
  <2> DEFINE d == AdvanceTurnClock(active.id + 1, clock.cancelled)
  <2>3. /\ d \in Clock /\ IsFiniteSet(d.cancelled) /\ d.next \notin clock.cancelled
        /\ d.cancelled = {id \in clock.cancelled : id >= d.next}
    BY <2>2, AdvanceProps
  <2> HIDE DEF d
  <2>4. ClockOK(d)
    BY <2>3 DEF ClockOK
  <2> QED BY <2>1, <2>4 DEF d
<1>3. CASE ~(active.id >= clock.next)
  BY <1>1, <1>3 DEF ApplyLoopEvent
<1> QED BY <1>2, <1>3

LEMMA FinishType ==
  ASSUME TypeInv, FinishStep \/ FailedStep
  PROVE  TypeInv'
<1>1. /\ phase = "exec" /\ phase' \in {"after", "recover"}
      /\ clock' = ApplyLoopEvent(clock, active.id)
      /\ UNCHANGED runFrame /\ UNCHANGED <<reqState, stepState, active, current, steps, result>>
  BY DEF FinishStep, FailedStep
<1>2. turnAborted' = turnAborted
  BY <1>1 DEF runFrame
<1>3. runTypes'
  BY <1>1, <1>2, TypeInvParts DEF runTypes, Phases
<1>4. ClockOK(clock')
  BY <1>1, EventClock
<1> QED BY <1>1, <1>3, <1>4, RunFrameTypes, TypeInvParts DEF requestTypes

LEMMA HandleCancellationType ==
  ASSUME TypeInv, phase # "idle", HandleLoopCancellation, UNCHANGED <<runFrame, clock>>
  PROVE  TypeInv'
<1>1. active \in Job /\ UNCHANGED runFrame /\ ClockOK(clock')
  BY RunningJob, TypeInvParts
<1>2. CASE /\ phase' = "loop" /\ current' = None
           /\ UNCHANGED <<reqState, stepState, active, steps, result>>
  <2>1. turnAborted' = turnAborted
    BY DEF runFrame
  <2>2. runTypes'
    BY <1>2, <2>1, TypeInvParts DEF runTypes, Phases
  <2> QED BY <1>1, <1>2, <2>2, RunFrameTypes, TypeInvParts DEF requestTypes
<1>3. CASE Return(active, reqState, stepState, steps, "cancelled")
  <2>1. RunShape(active)
    BY <1>1, <1>3, ReturnShape, TypeInvParts DEF requestTypes, runTypes, Results
  <2> QED BY <1>1, <2>1, RunShapeKeeps
<1> QED BY <1>2, <1>3 DEF HandleLoopCancellation

LEMMA RetryType ==
  ASSUME TypeInv, RetryStep
  PROVE  TypeInv'
<1>1. /\ phase = "recover" /\ phase' = "loop" /\ current' = None
      /\ active' = [active EXCEPT !.queued = @ \cup {current}]
      /\ stepState' = [stepState EXCEPT ![current] = "queued"]
      /\ UNCHANGED runFrame /\ UNCHANGED <<reqState, steps, result, clock>>
  BY DEF RetryStep
<1>2. active \in Job /\ current \in ToSet(active.steps)
  BY <1>1, TypeInvParts DEF runTypes
<1>3. active' \in Job
  <2>1. ToSet(active.steps) \subseteq Requests
    BY <1>2 DEF Job, ToSet
  <2> QED BY <1>1, <1>2, <2>1 DEF Job
<1>4. stepState' \in [Requests -> StepStates]
  BY <1>1, TypeInvParts DEF requestTypes, StepStates
<1>5. turnAborted' = turnAborted
  BY <1>1 DEF runFrame
<1>6. active' # None
  BY <1>3, NoneAssumption
<1>7. phase' = "loop" /\ current' = None /\ steps' = steps /\ result' = result
  BY <1>1
<1>8. runTypes'
  BY <1>3, <1>5, <1>6, <1>7, TypeInvParts DEF runTypes, Phases
<1> QED BY <1>1, <1>4, <1>8, RunFrameTypes, TypeInvParts DEF requestTypes

LEMMA GiveUpType ==
  ASSUME TypeInv, GiveUpStep
  PROVE  TypeInv'
<1>1. /\ phase = "recover" /\ Return(active, reqState, stepState, steps, "failed")
      /\ UNCHANGED runFrame /\ clock' = clock
  BY DEF GiveUpStep
<1>2. active \in Job
  BY <1>1, RunningJob
<1>3. RunShape(active)
  BY <1>1, <1>2, ReturnShape, TypeInvParts DEF requestTypes, runTypes, Results
<1> QED BY <1>1, <1>2, <1>3, RunShapeKeeps, TypeInvParts

LEMMA NextIterationType ==
  ASSUME TypeInv, NextIteration
  PROVE  TypeInv'
<1>1. /\ phase = "loop" /\ BeginLoopStep(active, reqState, stepState, steps, turnAborted)
      /\ UNCHANGED runFrame /\ clock' = clock
  BY DEF NextIteration
<1>2. active \in Job
  BY <1>1, RunningJob
<1>3. RunShape(active)
  BY <1>1, <1>2, BeginShape, TypeInvParts DEF requestTypes, runTypes
<1> QED BY <1>1, <1>2, <1>3, RunShapeKeeps, TypeInvParts

LEMMA CompleteType ==
  ASSUME TypeInv, CompleteLoopStep
  PROVE  TypeInv'
<1> DEFINE ss == [stepState EXCEPT ![current] = "completed"]
<1>1. phase = "after" /\ UNCHANGED runFrame /\ clock' = clock
  BY DEF CompleteLoopStep
<1>2. \/ BeginLoopStep(active, reqState, ss, steps, turnAborted)
      \/ Return(active, reqState, ss, steps, "completed")
      \/ Return(active, reqState, ss, steps, IF turnAborted THEN "cancelled" ELSE "failed")
  BY DEF CompleteLoopStep
<1>3. active \in Job
  BY <1>1, RunningJob
<1>4. ss \in [Requests -> StepStates] /\ reqState \in [Requests -> ReqStates]
  BY TypeInvParts DEF requestTypes, StepStates
<1>5. steps \in Nat /\ turnAborted \in BOOLEAN
  BY TypeInvParts DEF runTypes
<1>6. /\ (IF turnAborted THEN "cancelled" ELSE "failed") \in Results
      /\ "completed" \in Results
  BY DEF Results
<1> HIDE DEF ss
<1>7. RunShape(active)
  <2>1. CASE BeginLoopStep(active, reqState, ss, steps, turnAborted)
    BY <1>3, <1>4, <1>5, <2>1, BeginShape
  <2>2. CASE Return(active, reqState, ss, steps, "completed")
    BY <1>3, <1>4, <1>5, <1>6, <2>2, ReturnShape
  <2>3. CASE Return(active, reqState, ss, steps, IF turnAborted THEN "cancelled" ELSE "failed")
    BY <1>3, <1>4, <1>5, <1>6, <2>3, ReturnShape
  <2> QED BY <1>2, <2>1, <2>2, <2>3
<1> QED BY <1>1, <1>3, <1>7, RunShapeKeeps, TypeInvParts

LEMMA EndTurnType ==
  ASSUME TypeInv, EndTurn
  PROVE  TypeInv'
<1> DEFINE left == Cancellable(stepState, ToSet(active.steps))
<1>1. /\ turnOutcome' = [turnOutcome EXCEPT ![active.request] = result]
      /\ waiters' = MaybeSettle(pendingTurns = <<>> /\ held = <<>>)
      /\ UNCHANGED <<assignment, standalone, held, drain, releasing, quiescence, disposing,
                     nextReserved, durable, restored, restarts>>
  BY DEF EndTurn, waitingVars, journalVars
<1>2. PumpTurns(pendingTurns, Abort(reqState, left), CancelSteps(stepState, left))
  BY DEF EndTurn
<1> HIDE DEF left
<1>3. /\ Abort(reqState, left) \in [Requests -> ReqStates]
      /\ CancelSteps(stepState, left) \in [Requests -> StepStates]
  BY AbortType, CancelStepsType, TypeInvParts DEF requestTypes
<1>4. /\ runTypes' /\ pendingTurns' \in Seq(Job) /\ ClockOK(clock')
      /\ reqState' \in [Requests -> ReqStates] /\ stepState' \in [Requests -> StepStates]
  BY <1>2, <1>3, PumpTypes, TypeInvParts
<1>5. turnOutcome' \in [Requests -> Results \cup {"open"}]
  BY <1>1, TypeInvParts DEF requestTypes, runTypes
<1>6. requestTypes'
  BY <1>1, <1>4, <1>5, TypeInvParts DEF requestTypes
<1>7. waiters' \in Nat
  BY <1>1, TypeInvParts DEF MaybeSettle, controlTypes
<1>8. controlTypes'
  BY <1>1, <1>7, TypeInvParts DEF controlTypes
<1>9. waitingTypes' /\ journalTypes' /\ nextReserved' \in Nat
  BY <1>1, TypeInvParts DEF waitingTypes, journalTypes
<1> QED BY <1>4, <1>6, <1>8, <1>9, TypeInvPartsPrime
LEMMA AcquireType ==
  ASSUME TypeInv, TryAcquireQuiescence
  PROVE  TypeInv'
<1>1. /\ ~releasing /\ quiescence' = quiescence + 1
      /\ UNCHANGED <<requestVars, waitingVars, pendingTurns, runVars, disposing, waiters,
                     clock, nextReserved, journalVars>>
  BY DEF TryAcquireQuiescence
<1>2. requestTypes' /\ waitingTypes'
  BY <1>1, TypeInvParts DEF requestTypes, waitingTypes, requestVars, waitingVars
<1>3. runTypes' /\ journalTypes'
  BY <1>1, TypeInvParts DEF runTypes, journalTypes, runVars, journalVars
<1>4. controlTypes'
  BY <1>1, TypeInvParts DEF controlTypes, waitingVars
<1> QED BY <1>1, <1>2, <1>3, <1>4, TypeInvParts, TypeInvPartsPrime

LEMMA CancelActiveType ==
  ASSUME TypeInv, CancelActiveTurn
  PROVE  TypeInv'
<1>1. /\ active # None /\ clock' = ApplyCancel(clock, {active.id}) /\ turnAborted' = TRUE
      /\ UNCHANGED <<requestVars, waitingVars, pendingTurns, active, phase, current, steps,
                     result, controlVars, nextReserved, journalVars>>
  BY DEF CancelActiveTurn
<1>2. {active.id} \in SUBSET Nat /\ IsFiniteSet({active.id})
  BY <1>1, TypeInvParts, FS_Singleton DEF runTypes, Job
<1>3. ClockOK(clock')
  BY <1>1, <1>2, ClockCancel, TypeInvParts
<1>4. requestTypes' /\ waitingTypes'
  BY <1>1, TypeInvParts DEF requestTypes, waitingTypes, requestVars, waitingVars
<1>5. runTypes' /\ journalTypes'
  BY <1>1, TypeInvParts DEF runTypes, journalTypes, journalVars
<1>6. controlTypes'
  BY <1>1, TypeInvParts DEF controlTypes, controlVars, waitingVars
<1> QED BY <1>1, <1>3, <1>4, <1>5, <1>6, TypeInvParts, TypeInvPartsPrime

LEMMA CancelQueuedType ==
  ASSUME TypeInv, NEW i \in DOMAIN pendingTurns, CancelQueuedTurn(i)
  PROVE  TypeInv'
<1> DEFINE job == pendingTurns[i]
           dropped == Cancellable(stepState, ToSet(job.steps))
           left == RemoveAt(pendingTurns, i)
<1>1. /\ pendingTurns' = left
      /\ clock' = ApplyCancel(clock, {job.id})
      /\ stepState' = CancelSteps(stepState, dropped)
      /\ reqState' = Abort(reqState, dropped)
  BY DEF CancelQueuedTurn, DropQueuedTurn
<1>2. /\ turnOutcome' = [turnOutcome EXCEPT ![job.request] = "cancelled"]
      /\ waiters' = MaybeSettle(active = None /\ left = <<>> /\ held = <<>>)
      /\ UNCHANGED <<assignment, waitingVars, runVars, quiescence, disposing, nextReserved,
                     journalVars>>
  BY DEF CancelQueuedTurn, DropQueuedTurn
<1>3. pendingTurns \in Seq(Job) /\ i \in 1 .. Len(pendingTurns)
  BY TypeInvParts
<1>4. job \in Job
  BY <1>3
<1>5. left \in Seq(Job)
  BY <1>3, RemoveAtProps
<1>6. {job.id} \in SUBSET Nat /\ IsFiniteSet({job.id})
  BY <1>4, FS_Singleton DEF Job
<1> HIDE DEF left, dropped, job
<1>7. ClockOK(clock')
  BY <1>1, <1>6, ClockCancel, TypeInvParts
<1>8. /\ reqState' \in [Requests -> ReqStates] /\ stepState' \in [Requests -> StepStates]
  BY <1>1, AbortType, CancelStepsType, TypeInvParts DEF requestTypes
<1>9. turnOutcome' \in [Requests -> Results \cup {"open"}]
  BY <1>2, TypeInvParts DEF requestTypes, Results
<1>10. requestTypes'
  BY <1>2, <1>8, <1>9, TypeInvParts DEF requestTypes
<1>11. waiters' \in Nat
  BY <1>2, TypeInvParts DEF controlTypes, MaybeSettle
<1>12. controlTypes' /\ waitingTypes'
  BY <1>2, <1>11, TypeInvParts DEF controlTypes, waitingTypes, waitingVars
<1>13. runTypes' /\ journalTypes'
  BY <1>2, TypeInvParts DEF runTypes, journalTypes, runVars, journalVars
<1> QED BY <1>1, <1>2, <1>5, <1>7, <1>10, <1>12, <1>13, TypeInvParts, TypeInvPartsPrime

LEMMA CancelStepType ==
  ASSUME TypeInv, NEW r \in Requests, CancelStep(r)
  PROVE  TypeInv'
<1>1. /\ stepState' = CancelSteps(stepState, {r}) /\ reqState' = Abort(reqState, {r})
      /\ UNCHANGED <<assignment, turnOutcome, waitingVars, pendingTurns, runVars, controlVars,
                     clock, nextReserved, journalVars>>
  BY DEF CancelStep
<1>2. requestTypes'
  BY <1>1, AbortType, CancelStepsType, TypeInvParts DEF requestTypes
<1>3. controlTypes' /\ waitingTypes'
  BY <1>1, TypeInvParts DEF controlTypes, waitingTypes, waitingVars, controlVars
<1>4. runTypes' /\ journalTypes'
  BY <1>1, TypeInvParts DEF runTypes, journalTypes, runVars, journalVars
<1> QED BY <1>1, <1>2, <1>3, <1>4, TypeInvParts, TypeInvPartsPrime

LEMMA AbortHeldType ==
  ASSUME TypeInv, NEW i \in DOMAIN held, AbortHeld(i)
  PROVE  TypeInv'
<1> DEFINE r == held[i]
           left == RemoveAt(held, i)
<1>1. /\ held' = left /\ reqState' = Abort(reqState, {r})
      /\ assignment' = [assignment EXCEPT ![r] = "rejected"]
      /\ waiters' = MaybeSettle(active = None /\ pendingTurns = <<>> /\ left = <<>>)
      /\ UNCHANGED <<stepState, turnOutcome, standalone, drain, releasing, pendingTurns,
                     runVars, quiescence, disposing, clock, nextReserved, journalVars>>
  BY DEF AbortHeld
<1>2. held \in Seq(Requests) /\ i \in 1 .. Len(held)
  BY TypeInvParts DEF waitingTypes
<1>3. left \in Seq(Requests)
  BY <1>2, RemoveAtProps
<1> HIDE DEF left, r
<1>4. requestTypes'
  BY <1>1, AbortType, TypeInvParts DEF requestTypes
<1>5. waitingTypes'
  BY <1>1, <1>3, TypeInvParts DEF waitingTypes
<1>6. waiters' \in Nat
  BY <1>1, TypeInvParts DEF controlTypes, MaybeSettle
<1>7. controlTypes'
  BY <1>1, <1>6, TypeInvParts DEF controlTypes
<1>8. runTypes' /\ journalTypes'
  BY <1>1, TypeInvParts DEF runTypes, journalTypes, runVars, journalVars
<1> QED BY <1>1, <1>4, <1>5, <1>7, <1>8, TypeInvParts, TypeInvPartsPrime

LEMMA AbortStandaloneType ==
  ASSUME TypeInv, NEW i \in DOMAIN standalone, AbortStandalone(i)
  PROVE  TypeInv'
<1> DEFINE r == standalone[i]
           left == RemoveAt(standalone, i)
<1>1. /\ standalone' = left /\ reqState' = Abort(reqState, {r})
      /\ assignment' = [assignment EXCEPT ![r] = "rejected"]
      /\ UNCHANGED <<stepState, turnOutcome, held, drain, releasing, pendingTurns, runVars,
                     controlVars, clock, nextReserved, journalVars>>
  BY DEF AbortStandalone
<1>2. standalone \in Seq(Requests) /\ i \in 1 .. Len(standalone)
  BY TypeInvParts DEF waitingTypes
<1>3. left \in Seq(Requests)
  BY <1>2, RemoveAtProps
<1> HIDE DEF left, r
<1>4. requestTypes'
  BY <1>1, AbortType, TypeInvParts DEF requestTypes
<1>5. waitingTypes' /\ controlTypes'
  BY <1>1, <1>3, TypeInvParts DEF waitingTypes, controlTypes, controlVars
<1>6. runTypes' /\ journalTypes'
  BY <1>1, TypeInvParts DEF runTypes, journalTypes, runVars, journalVars
<1> QED BY <1>1, <1>4, <1>5, <1>6, TypeInvParts, TypeInvPartsPrime

LEMMA SettledType ==
  ASSUME TypeInv, Settled
  PROVE  TypeInv'
<1>1. /\ waiters' = waiters + 1
      /\ UNCHANGED <<requestVars, waitingVars, pendingTurns, runVars, quiescence, disposing,
                     clock, nextReserved, journalVars>>
  BY DEF Settled
<1>2. requestTypes' /\ waitingTypes'
  BY <1>1, TypeInvParts DEF requestTypes, waitingTypes, requestVars, waitingVars
<1>3. runTypes' /\ journalTypes'
  BY <1>1, TypeInvParts DEF runTypes, journalTypes, runVars, journalVars
<1>4. controlTypes'
  BY <1>1, TypeInvParts DEF controlTypes, waitingVars
<1> QED BY <1>1, <1>2, <1>3, <1>4, TypeInvParts, TypeInvPartsPrime

\* A queue has finitely many turn ids.
LEMMA QueuedIdsFinite ==
  ASSUME NEW queue \in Seq(Job)
  PROVE  IsFiniteSet({job.id : job \in ToSet(queue)})
<1> DEFINE S == 1 .. Len(queue)
           T == {job.id : job \in ToSet(queue)}
           f == [i \in S |-> queue[i].id]
<1>1. IsFiniteSet(S)
  BY FS_Interval
<1>2. f \in Surjection(S, T)
  <2>1. \A i \in S : queue[i] \in ToSet(queue)
    BY DEF ToSet
  <2>2. \A job \in ToSet(queue) : \E i \in S : queue[i] = job
    BY DEF ToSet
  <2>3. f \in [S -> T]
    BY <2>1
  <2>4. \A t \in T : \E i \in S : f[i] = t
    BY <2>2
  <2> QED BY <2>3, <2>4 DEF Surjection
<1> HIDE DEF f, T, S
<1>3. IsFiniteSet(T)
  BY <1>1, <1>2, FS_Surjection
<1> QED BY <1>3 DEF T

LEMMA DisposeType ==
  ASSUME TypeInv, Dispose
  PROVE  TypeInv'
<1> DEFINE jobs == ToSet(pendingTurns)
           dropped == Cancellable(stepState, UNION {ToSet(job.steps) : job \in jobs})
           waiting == ToSet(standalone) \cup ToSet(held)
           ids == {job.id : job \in jobs} \cup (IF active = None THEN {} ELSE {active.id})
<1>1. /\ ~releasing /\ disposing' = TRUE /\ pendingTurns' = <<>>
      /\ clock' = ApplyCancel(clock, ids)
      /\ stepState' = CancelSteps(stepState, dropped)
      /\ reqState' = Abort(reqState, dropped \cup waiting)
      /\ standalone' = <<>> /\ held' = <<>> /\ turnAborted' = (active # None)
      /\ waiters' = MaybeSettle(active = None)
  BY DEF Dispose
<1>2. UNCHANGED <<drain, releasing, active, phase, current, steps, result, quiescence,
                  nextReserved, durable, restored, restarts>>
  BY DEF Dispose, journalVars
<1>3. turnOutcome' = [r \in Requests |-> IF \E job \in jobs : job.request = r
                                           THEN "cancelled" ELSE turnOutcome[r]]
  BY DEF Dispose
<1>4. assignment' = [r \in Requests |-> IF r \in waiting THEN "rejected" ELSE assignment[r]]
  BY DEF Dispose
<1>5. jobs \in SUBSET Job /\ IsFiniteSet({job.id : job \in jobs})
  <2>1. pendingTurns \in Seq(Job)
    BY TypeInvParts
  <2>2. jobs \in SUBSET Job
    BY <2>1 DEF ToSet
  <2> QED BY <2>1, <2>2, QueuedIdsFinite
<1> HIDE DEF jobs, dropped, waiting
<1>6. ids \in SUBSET Nat /\ IsFiniteSet(ids)
  <2>1. IsFiniteSet({job.id : job \in jobs})
    BY <1>5
  <2> DEFINE last == IF active = None THEN {} ELSE {active.id}
  <2>2. IsFiniteSet(last)
    BY FS_EmptySet, FS_Singleton
  <2>3. last \in SUBSET Nat
    BY TypeInvParts DEF runTypes, Job
  <2>4. {job.id : job \in jobs} \in SUBSET Nat
    BY <1>5 DEF Job
  <2> HIDE DEF last
  <2>5. ids = {job.id : job \in jobs} \cup last
    BY DEF last
  <2> QED BY <2>1, <2>2, <2>3, <2>4, <2>5, FS_Union
<1> HIDE DEF ids
<1>7. ClockOK(clock')
  BY <1>1, <1>6, ClockCancel, TypeInvParts
<1>8. /\ reqState' \in [Requests -> ReqStates] /\ stepState' \in [Requests -> StepStates]
  BY <1>1, AbortType, CancelStepsType, TypeInvParts DEF requestTypes
<1>9. turnOutcome' \in [Requests -> Results \cup {"open"}]
  BY <1>3, TypeInvParts DEF requestTypes, Results
<1>10. assignment' \in [Requests -> {"none", "waiting", "assigned", "rejected"}]
  BY <1>4, TypeInvParts DEF requestTypes
<1>11. requestTypes'
  BY <1>8, <1>9, <1>10 DEF requestTypes
<1>12. waitingTypes'
  BY <1>1, <1>2, TypeInvParts DEF waitingTypes
<1>13. waiters' \in Nat
  BY <1>1, TypeInvParts DEF controlTypes, MaybeSettle
<1>14. controlTypes'
  BY <1>1, <1>2, <1>13, TypeInvParts DEF controlTypes
<1>15. turnAborted' \in BOOLEAN
  BY <1>1
<1>16. runTypes'
  BY <1>2, <1>15, TypeInvParts DEF runTypes
<1>17. journalTypes' /\ nextReserved' \in Nat /\ pendingTurns' \in Seq(Job)
  BY <1>1, <1>2, TypeInvParts DEF journalTypes
<1> QED BY <1>7, <1>11, <1>12, <1>14, <1>16, <1>17, TypeInvPartsPrime

LEMMA FlushType ==
  ASSUME TypeInv, Flush
  PROVE  TypeInv'
<1>1. /\ durable' = clock
      /\ UNCHANGED <<requestVars, waitingVars, pendingTurns, runVars, controlVars, clock,
                     nextReserved, restored, restarts>>
  BY DEF Flush
<1>2. requestTypes' /\ waitingTypes'
  BY <1>1, TypeInvParts DEF requestTypes, waitingTypes, requestVars, waitingVars
<1>3. runTypes' /\ journalTypes'
  BY <1>1, TypeInvParts DEF runTypes, journalTypes, runVars
<1>4. controlTypes'
  BY <1>1, TypeInvParts DEF controlTypes, waitingVars, controlVars
<1> QED BY <1>1, <1>2, <1>3, <1>4, TypeInvParts, TypeInvPartsPrime

LEMMA RestartType ==
  ASSUME TypeInv, Restart
  PROVE  TypeInv'
<1>1. requestTypes'
  BY DEF Restart, requestTypes, ReqStates, StepStates, Results
<1>2. standalone' = <<>> /\ held' = <<>> /\ drain' = <<>> /\ releasing' = FALSE
  BY DEF Restart
<1>3. waitingTypes'
  <2>1. <<>> \in Seq(Requests)
    OBVIOUS
  <2>2. standalone' \in Seq(Requests) /\ held' \in Seq(Requests) /\ drain' \in Seq(Requests)
    BY <1>2, <2>1, Zenon
  <2>3. releasing' \in BOOLEAN /\ (drain' # <<>> => releasing')
    BY <1>2, Zenon
  <2> QED BY <2>2, <2>3, Zenon DEF waitingTypes
<1>4. runTypes'
  BY DEF Restart, runTypes, Phases, Results
<1>5. quiescence' = 0 /\ disposing' = FALSE /\ waiters' = 0
  BY DEF Restart
<1>6. controlTypes'
  BY <1>2, <1>5 DEF controlTypes
<1>7. clock' = durable /\ durable' = durable /\ restored' = durable /\ restarts' = restarts + 1
  BY DEF Restart
<1>8. journalTypes' /\ ClockOK(clock')
  BY <1>7, TypeInvParts DEF journalTypes, ClockOK
<1>9. pendingTurns' \in Seq(Job) /\ nextReserved' \in Nat
  BY DEF Restart
<1> QED BY <1>1, <1>3, <1>4, <1>6, <1>8, <1>9, TypeInvPartsPrime

LEMMA StutterType ==
  ASSUME TypeInv, UNCHANGED vars
  PROVE  TypeInv'
<1>1. requestTypes' /\ waitingTypes'
  BY TypeInvParts DEF vars, requestTypes, waitingTypes, requestVars, waitingVars
<1>2. runTypes' /\ journalTypes'
  BY TypeInvParts DEF vars, runTypes, journalTypes, runVars, journalVars
<1>3. controlTypes'
  BY TypeInvParts DEF vars, controlTypes, waitingVars, controlVars
<1> QED BY <1>1, <1>2, <1>3, TypeInvParts, TypeInvPartsPrime DEF vars

LEMMA NextType == TypeInv /\ [Next]_vars => TypeInv'
<1> SUFFICES ASSUME TypeInv, [Next]_vars PROVE TypeInv'
  OBVIOUS
<1>1. ASSUME NEW r \in Requests, Enqueue(r) \/ CancelStep(r) PROVE TypeInv'
  BY <1>1, EnqueueType, CancelStepType
<1>2. CASE Client
  BY <1>1, <1>2, AcquireType, CancelActiveType, CancelQueuedType, AbortHeldType,
     AbortStandaloneType, SettledType, DisposeType DEF Client
<1>3. CASE RunStep
  <2>1. CASE AbortedStep \/ InterruptedRecovery
    BY <2>1, HandleCancellationType DEF AbortedStep, InterruptedRecovery
  <2> QED BY <1>3, <2>1, FinishType, RetryType, GiveUpType, NextIterationType, CompleteType,
             EndTurnType DEF RunStep
<1> QED BY <1>2, <1>3, ReplayHeldType, ReplayDoneType, ReleaseType, FlushType, RestartType,
           StutterType DEF Next, Replay

\* The variables keep their types, whatever the requests and the bounds are.
THEOREM TypeCorrect == Spec => []TypeOK
<1>1. TypeInv => TypeOK
  BY DEF TypeInv
<1> QED BY <1>1, InitType, NextType, PTL DEF Spec
=============================================================================
