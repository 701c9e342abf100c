-------------------------- MODULE EngineTurnsProofs --------------------------
(***************************************************************************)
(* Theorems about EngineTurns, for every set of messages, every step limit *)
(* and every placement of the completion review.                           *)
(*                                                                         *)
(* The work of the runner (clock, context, queue, executing turn, fates)   *)
(* changes in six ways only, whatever the engine does; WorkInv is shown    *)
(* for each of them.  The rest of the state, SessionInv, follows the       *)
(* engine.                                                                 *)
(***************************************************************************)
EXTENDS EngineTurns, TurnClockProofs

workVars == <<clock, context, queued, executing, fate, calling>>

\* The types of the runner's work.  No cancelled reservation is ever pending
\* in the clock: the ids of this runner's queued turns are already passed.
WorkTypes ==
  /\ clock \in Clock /\ clock.cancelled = {}
  /\ context \in Seq(Inputs)
  /\ queued \in Seq(Entry)
  /\ executing \in Turn \cup {None}
  /\ fate \in [Inputs -> Fates]
  /\ calling \in Inputs \cup {None}

\* The clock is past every turn that was launched.
IdsPassed ==
  /\ \A k \in DOMAIN queued : queued[k].id < clock.next
  /\ executing # None => executing.id < clock.next

\* The history agrees with the places: a message is in one of them.
FatesOK ==
  /\ executing # None => fate[executing.input] = "running"
  /\ \A k \in DOMAIN queued :
       fate[queued[k].input] = IF queued[k].cancelled THEN "cancelled" ELSE "queued"
  /\ \A j, k \in DOMAIN queued : queued[j].input = queued[k].input => j = k
  /\ calling # None => fate[calling] = "new"

WorkInv ==
  WorkTypes /\ IdsPassed /\ TurnsInOrder /\ NoStrandedInput /\ FatesOK /\ RecordedOnce

\* Where the runner is and where the engine is.
ControlOK ==
  /\ runPhase = "idle" <=> executing = None
  /\ runPhase \in {"run", "approval"} <=> activeSession # None
  /\ engine \notin {"none", "finished"} => activeSession # None
  /\ calling # None => open # {}

SessionTypes ==
  /\ runPhase \in {"idle", "config", "run", "approval", "over"}
  /\ activeSession \in Nat \cup {None}
  /\ open \in SUBSET Nat
  /\ disposed \in BOOLEAN
  /\ engine \in EnginePlaces
  /\ steerQueue \in SUBSET Inputs
  /\ cancelFlag \in BOOLEAN
  /\ engineSteps \in Nat
  /\ engineOutcome \in {"none", "completed", "failed", "cancelled"}
  /\ stopUsed \in BOOLEAN
  /\ hooks \in SUBSET Inputs

\* Events on their way belong to turns the clock has passed.
EventsOK ==
  /\ events \in Seq(Events)
  /\ \A k \in DOMAIN events : events[k].id < clock.next

EngineInv == WorkInv /\ ControlOK /\ SessionTypes /\ EventsOK

-----------------------------------------------------------------------------
(* The clock and the context *)

\* Without pending cancellations a turn.prompt moves the clock by one.
LEMMA PromptAddsOne ==
  ASSUME WorkTypes
  PROVE  /\ ApplyPrompt(clock) \in Clock
         /\ ApplyPrompt(clock).next = clock.next + 1
         /\ ApplyPrompt(clock).cancelled = {}
         /\ LaunchedId(ApplyPrompt(clock)) = clock.next
         /\ clock.next \in Nat
<1> DEFINE d == ApplyPrompt(clock)
<1>1. clock \in Clock /\ clock.cancelled = {} /\ clock.next \in Nat
  BY DEF WorkTypes, Clock
<1>2. /\ d \in Clock /\ d.next > clock.next /\ d.cancelled \subseteq clock.cancelled
      /\ \A k \in Nat : clock.next < k /\ k < d.next => k \in clock.cancelled
  BY <1>1, FS_EmptySet, PromptProps
<1> HIDE DEF d
<1>3. d.next \in Nat
  BY <1>2 DEF Clock
<1>4. d.next = clock.next + 1
  <2>1. ~(clock.next + 1 < d.next)
    BY <1>1, <1>2
  <2> QED BY <1>1, <1>2, <1>3, <2>1
<1>5. d.cancelled = {} /\ LaunchedId(d) = clock.next
  BY <1>1, <1>2, <1>4 DEF LaunchedId
<1> QED BY <1>1, <1>2, <1>4, <1>5 DEF d

\* A turn.cancel of a turn the clock has passed leaves the clock alone.
LEMMA CancelKeepsClock ==
  ASSUME WorkTypes, NEW id \in Nat, id < clock.next
  PROVE  ApplyCancel(clock, {id}) = clock
<1>1. {i \in {id} : i >= clock.next} = {}
  BY DEF WorkTypes, Clock
<1> QED BY <1>1 DEF ApplyCancel

\* A message appended to a context that does not have it.
LEMMA AppendFresh ==
  ASSUME NEW s \in Seq(Inputs), IsInjective(s), NEW i \in Inputs, i \notin ToSet(s)
  PROVE  /\ Append(s, i) \in Seq(Inputs)
         /\ IsInjective(Append(s, i))
         /\ ToSet(Append(s, i)) = ToSet(s) \cup {i}
         /\ s \o <<i>> = Append(s, i)
<1> DEFINE t == Append(s, i)
<1>1. t \in Seq(Inputs) /\ Len(t) = Len(s) + 1 /\ DOMAIN t = 1 .. (Len(s) + 1)
  OBVIOUS
<1>2. t[Len(s) + 1] = i /\ \A k \in 1 .. Len(s) : t[k] = s[k]
  OBVIOUS
<1>3. DOMAIN s = 1 .. Len(s) /\ Len(s) \in Nat
  OBVIOUS
<1>4. s \o <<i>> = t
  OBVIOUS
<1> HIDE DEF t
<1>5. \A k \in 1 .. Len(s) : s[k] \in ToSet(s)
  BY <1>3 DEF ToSet
<1>6. IsInjective(t)
  <2> SUFFICES ASSUME NEW j \in 1 .. (Len(s) + 1), NEW k \in 1 .. (Len(s) + 1), t[j] = t[k]
               PROVE  j = k
    BY <1>1 DEF IsInjective
  <2>1. CASE j \in 1 .. Len(s) /\ k \in 1 .. Len(s)
    BY <1>2, <1>3, <2>1 DEF IsInjective
  <2>2. CASE j = Len(s) + 1 /\ k \in 1 .. Len(s)
    BY <1>2, <1>5, <2>2
  <2>3. CASE k = Len(s) + 1 /\ j \in 1 .. Len(s)
    BY <1>2, <1>5, <2>3
  <2> QED BY <1>3, <2>1, <2>2, <2>3
<1>7. ToSet(t) = ToSet(s) \cup {i}
  <2>1. ASSUME NEW x \in ToSet(t) PROVE x \in ToSet(s) \cup {i}
    <3>1. PICK k \in 1 .. (Len(s) + 1) : t[k] = x
      BY <1>1 DEF ToSet
    <3> QED BY <1>2, <1>3, <1>5, <3>1
  <2>2. ASSUME NEW x \in ToSet(s) \cup {i} PROVE x \in ToSet(t)
    <3>1. \E k \in 1 .. (Len(s) + 1) : t[k] = x
      BY <1>2, <1>3 DEF ToSet
    <3> QED BY <1>1, <3>1 DEF ToSet
  <2> QED BY <2>1, <2>2
<1> QED BY <1>1, <1>4, <1>6, <1>7 DEF t

\* The members of the queue.
LEMMA QueueEntry ==
  ASSUME WorkTypes
  PROVE  \A k \in DOMAIN queued :
           /\ queued[k] \in Entry /\ queued[k].id \in Nat
           /\ queued[k].input \in Inputs /\ queued[k].cancelled \in BOOLEAN
<1> SUFFICES ASSUME NEW k \in DOMAIN queued
             PROVE  /\ queued[k] \in Entry /\ queued[k].id \in Nat
                    /\ queued[k].input \in Inputs /\ queued[k].cancelled \in BOOLEAN
  OBVIOUS
<1>1. queued[k] \in Entry
  BY DEF WorkTypes
<1> QED BY <1>1 DEF Entry

\* RecordedOnce survives recording a new message and changing its fate.
LEMMA RecordNew ==
  ASSUME WorkTypes, RecordedOnce, NEW i \in Inputs, fate[i] = "new", NEW f \in Fates, f # "new",
         context' = Append(context, i), fate' = [fate EXCEPT ![i] = f]
  PROVE  context' \in Seq(Inputs) /\ fate' \in [Inputs -> Fates] /\ RecordedOnce'
<1>1. context \in Seq(Inputs) /\ IsInjective(context) /\ i \notin ToSet(context)
  BY DEF WorkTypes, RecordedOnce
<1>2. context' \in Seq(Inputs) /\ IsInjective(context') /\ ToSet(context') = ToSet(context) \cup {i}
  BY <1>1, AppendFresh
<1>3. fate' \in [Inputs -> Fates]
  BY DEF WorkTypes
<1>4. ASSUME NEW j \in Inputs
      PROVE  /\ fate'[j] = "new" => j \notin ToSet(context')
             /\ fate'[j] \in {"steered", "queued", "running", "over", "cancelled"}
                  => j \in ToSet(context')
  BY <1>2, <1>4 DEF WorkTypes, RecordedOnce
<1> QED BY <1>2, <1>3, <1>4 DEF RecordedOnce

-----------------------------------------------------------------------------
(* The six ways the work changes *)

\* Nothing: the step is the engine's or about its session.
LEMMA WorkQuiet ==
  ASSUME WorkInv, UNCHANGED workVars
  PROVE  WorkInv' /\ clock'.next >= clock.next
<1>1. clock.next >= clock.next
  BY DEF WorkInv, WorkTypes, Clock
<1> QED BY <1>1 DEF WorkInv, workVars, WorkTypes, IdsPassed, TurnsInOrder, NoStrandedInput,
            FatesOK, RecordedOnce

\* A steer is accepted by the engine but not queued yet.
LEMMA WorkCalling ==
  ASSUME WorkInv, NEW i \in Inputs, fate[i] = "new", calling' = i,
         UNCHANGED <<clock, context, queued, executing, fate>>
  PROVE  WorkInv' /\ clock'.next >= clock.next
<1>1. clock'.next >= clock.next
  BY DEF WorkInv, WorkTypes, Clock
<1>2. WorkTypes' /\ FatesOK'
  BY DEF WorkInv, WorkTypes, FatesOK
<1>3. IdsPassed' /\ TurnsInOrder' /\ NoStrandedInput' /\ RecordedOnce'
  BY DEF WorkInv, IdsPassed, TurnsInOrder, NoStrandedInput, RecordedOnce
<1> QED BY <1>1, <1>2, <1>3 DEF WorkInv

\* The native steer queues the message and its caller records it.
LEMMA WorkAccepted ==
  ASSUME WorkInv, SteerAccepted
  PROVE  WorkInv' /\ clock'.next >= clock.next
<1>1. /\ calling \in Inputs /\ fate[calling] = "new" /\ calling' = None
      /\ context' = Append(context, calling) /\ fate' = [fate EXCEPT ![calling] = "steered"]
      /\ UNCHANGED <<clock, queued, executing>>
  BY DEF WorkInv, WorkTypes, FatesOK, SteerAccepted, runVars
<1>2. context' \in Seq(Inputs) /\ fate' \in [Inputs -> Fates] /\ RecordedOnce'
  BY <1>1, RecordNew DEF WorkInv, Fates
<1>3. WorkTypes' /\ clock'.next >= clock.next
  BY <1>1, <1>2 DEF WorkInv, WorkTypes, Clock
<1>4. IdsPassed' /\ TurnsInOrder' /\ NoStrandedInput'
  BY <1>1 DEF WorkInv, IdsPassed, TurnsInOrder, NoStrandedInput
<1>5. FatesOK'
  <2>1. executing' # None => fate'[executing'.input] = "running"
    BY <1>1 DEF WorkInv, WorkTypes, FatesOK, Turn
  <2>2. ASSUME NEW k \in DOMAIN queued'
        PROVE  fate'[queued'[k].input] = IF queued'[k].cancelled THEN "cancelled" ELSE "queued"
    <3>1. queued[k].input \in Inputs /\ queued[k].input # calling
      BY <1>1, QueueEntry DEF WorkInv, FatesOK
    <3>2. fate'[queued[k].input] = fate[queued[k].input]
      BY <1>1, <3>1 DEF WorkInv, WorkTypes
    <3> QED BY <1>1, <3>2 DEF WorkInv, FatesOK
  <2> QED BY <1>1, <2>1, <2>2 DEF WorkInv, FatesOK
<1> QED BY <1>2, <1>3, <1>4, <1>5 DEF WorkInv

\* runTurn with a message that is new.
LEMMA WorkRun ==
  ASSUME WorkInv, NEW i \in Inputs, fate[i] = "new", RunTurn(i),
         calling = None, calling' = None
  PROVE  WorkInv' /\ clock'.next >= clock.next
<1>0. /\ WorkTypes /\ IdsPassed /\ TurnsInOrder /\ NoStrandedInput /\ FatesOK /\ RecordedOnce
      /\ clock.next \in Nat
  BY DEF WorkInv, WorkTypes, Clock
<1>1. CASE disposed
  <2>1. fate' = [fate EXCEPT ![i] = "dropped"] /\ UNCHANGED <<clock, context, queued, executing>>
    BY <1>1 DEF RunTurn, queueVars
  <2>2. WorkTypes' /\ IdsPassed' /\ TurnsInOrder' /\ NoStrandedInput'
    BY <1>0, <2>1 DEF WorkTypes, IdsPassed, TurnsInOrder, NoStrandedInput, Fates
  <2>3. FatesOK'
    <3>1. executing # None => executing.input \in Inputs /\ executing.input # i
      BY <1>0 DEF WorkTypes, FatesOK, Turn
    <3>2. \A k \in DOMAIN queued : queued[k].input \in Inputs /\ queued[k].input # i
      BY <1>0, QueueEntry DEF FatesOK
    <3>3. \A j \in Inputs : j # i => fate'[j] = fate[j]
      BY <1>0, <2>1 DEF WorkTypes
    <3> QED BY <1>0, <2>1, <3>1, <3>2, <3>3 DEF FatesOK
  <2>4. RecordedOnce'
    BY <1>0, <2>1 DEF RecordedOnce, WorkTypes
  <2> QED BY <1>0, <2>1, <2>2, <2>3, <2>4 DEF WorkInv
<1> DEFINE c == ApplyPrompt(clock)
           id == LaunchedId(c)
<1>2. CASE ~disposed /\ executing # None
  <2>0. c \in Clock /\ c.next = clock.next + 1 /\ c.cancelled = {} /\ id = clock.next
    BY <1>0, PromptAddsOne
  <2>1. Launch(i, <<i>>)
    BY <1>2 DEF RunTurn
  <2> DEFINE e == [id |-> id, input |-> i, cancelled |-> FALSE]
  <2>2. /\ clock' = c /\ context' = context \o <<i>> /\ queued' = Append(queued, e)
        /\ fate' = [fate EXCEPT ![i] = "queued"] /\ UNCHANGED executing
    BY <1>2, <2>1 DEF Launch
  <2>3. context' = Append(context, i)
    BY <1>0, <2>2, AppendFresh DEF WorkTypes, RecordedOnce
  <2> HIDE DEF c, id
  <2>4. context' \in Seq(Inputs) /\ fate' \in [Inputs -> Fates] /\ RecordedOnce'
    BY <1>0, <2>2, <2>3, RecordNew DEF Fates
  <2>5. e \in Entry /\ e.id = clock.next /\ e.input = i /\ e.cancelled = FALSE
    BY <1>0, <2>0 DEF Entry
  <2> HIDE DEF e
  <2>6. /\ queued \in Seq(Entry) /\ queued' \in Seq(Entry) /\ DOMAIN queued = 1 .. Len(queued)
        /\ DOMAIN queued' = 1 .. (Len(queued) + 1) /\ Len(queued) \in Nat
        /\ queued'[Len(queued) + 1] = e /\ \A k \in 1 .. Len(queued) : queued'[k] = queued[k]
    BY <1>0, <2>2, <2>5 DEF WorkTypes
  <2>7. WorkTypes'
    BY <1>0, <2>0, <2>2, <2>4, <2>6 DEF WorkTypes
  <2>8. executing # None /\ executing.id \in Nat /\ executing.id < clock.next
    BY <1>0, <1>2 DEF WorkTypes, IdsPassed, Turn
  <2>9. ASSUME NEW k \in 1 .. Len(queued)
        PROVE  queued[k].id \in Nat /\ queued[k].id < clock.next /\ queued[k].input \in Inputs
    BY <1>0, <2>6, QueueEntry DEF IdsPassed
  <2>10. IdsPassed'
    BY <1>0, <2>0, <2>2, <2>5, <2>6, <2>8, <2>9 DEF IdsPassed
  <2>11. TurnsInOrder'
    BY <1>0, <2>2, <2>5, <2>6, <2>8, <2>9 DEF TurnsInOrder
  <2>12. NoStrandedInput'
    BY <2>2, <2>8 DEF NoStrandedInput
  <2>13. FatesOK'
    <3>1. executing.input \in Inputs /\ executing.input # i
      BY <1>0, <2>8 DEF WorkTypes, FatesOK, Turn
    <3>2. \A k \in 1 .. Len(queued) : queued[k].input \in Inputs /\ queued[k].input # i
      BY <1>0, <2>6, <2>9 DEF FatesOK
    <3>3. fate'[i] = "queued" /\ \A j \in Inputs : j # i => fate'[j] = fate[j]
      BY <1>0, <2>2 DEF WorkTypes
    <3>4. ASSUME NEW k \in DOMAIN queued'
          PROVE  fate'[queued'[k].input] = IF queued'[k].cancelled THEN "cancelled" ELSE "queued"
      <4>1. CASE k = Len(queued) + 1
        BY <2>5, <2>6, <3>3, <4>1
      <4>2. CASE k \in 1 .. Len(queued)
        <5>1. queued'[k] = queued[k] /\ fate'[queued[k].input] = fate[queued[k].input]
          BY <2>6, <3>2, <3>3, <4>2
        <5> QED BY <1>0, <2>6, <4>2, <5>1 DEF FatesOK
      <4> QED BY <2>6, <4>1, <4>2
    <3>5. \A j, k \in DOMAIN queued' : queued'[j].input = queued'[k].input => j = k
      BY <1>0, <2>5, <2>6, <3>2 DEF FatesOK
    <3> QED BY <1>0, <2>2, <3>1, <3>3, <3>4, <3>5 DEF FatesOK
  <2> QED BY <1>0, <2>0, <2>2, <2>4, <2>7, <2>10, <2>11, <2>12, <2>13 DEF WorkInv
<1>3. CASE ~disposed /\ executing = None
  <2>0. c \in Clock /\ c.next = clock.next + 1 /\ c.cancelled = {} /\ id = clock.next
    BY <1>0, PromptAddsOne
  <2>1. Launch(i, <<i>>)
    BY <1>3 DEF RunTurn
  <2>2. /\ clock' = c /\ context' = context \o <<i>> /\ UNCHANGED queued
        /\ fate' = [fate EXCEPT ![i] = "running"] /\ executing' = [id |-> id, input |-> i]
    BY <1>3, <2>1 DEF Launch, StartQueuedTurn
  <2>3. context' = Append(context, i)
    BY <1>0, <2>2, AppendFresh DEF WorkTypes, RecordedOnce
  <2> HIDE DEF c, id
  <2>4. context' \in Seq(Inputs) /\ fate' \in [Inputs -> Fates] /\ RecordedOnce'
    BY <1>0, <2>2, <2>3, RecordNew DEF Fates
  <2>5. executing' \in Turn /\ executing'.id = clock.next /\ executing'.input = i
    BY <1>0, <2>0, <2>2 DEF Turn
  <2>6. executing' # None
    BY <2>5, NoTurnAssumption
  <2>7. WorkTypes'
    BY <1>0, <2>0, <2>2, <2>4, <2>5 DEF WorkTypes
  <2>8. ASSUME NEW k \in DOMAIN queued
        PROVE  /\ queued[k].id \in Nat /\ queued[k].id < clock.next
               /\ queued[k].input \in Inputs /\ queued[k].cancelled
    BY <1>0, <1>3, QueueEntry DEF IdsPassed, NoStrandedInput
  <2>9. IdsPassed'
    BY <1>0, <2>0, <2>2, <2>5, <2>8 DEF IdsPassed
  <2>10. TurnsInOrder' /\ NoStrandedInput'
    BY <1>0, <2>2, <2>6, <2>8 DEF TurnsInOrder, NoStrandedInput
  <2>11. FatesOK'
    <3>1. \A k \in DOMAIN queued : queued[k].input \in Inputs /\ queued[k].input # i
      BY <1>0, <2>8 DEF FatesOK
    <3>2. fate'[i] = "running" /\ \A j \in Inputs : j # i => fate'[j] = fate[j]
      BY <1>0, <2>2 DEF WorkTypes
    <3> QED BY <1>0, <2>2, <2>5, <3>1, <3>2 DEF FatesOK
  <2> QED BY <1>0, <2>0, <2>2, <2>4, <2>7, <2>9, <2>10, <2>11 DEF WorkInv
<1> QED BY <1>1, <1>2, <1>3

\* queued.find returns nothing only if every entry is cancelled.
LEMMA NextQueuedEmpty ==
  ASSUME WorkTypes, NextQueued(queued) = {}
  PROVE  \A k \in DOMAIN queued : queued[k].cancelled
<1> DEFINE live == {k \in DOMAIN queued : ~queued[k].cancelled}
<1> SUFFICES ASSUME live # {} PROVE FALSE
  OBVIOUS
<1>1. live \subseteq Nat /\ DOMAIN queued = 1 .. Len(queued) /\ Len(queued) \in Nat
  BY DEF WorkTypes
<1>2. PICK k \in live : \A j \in live : ~(<<j, k>> \in OpToRel(<, Nat))
  BY <1>1, NatLessThanWellFounded, WFMin
<1>3. ASSUME NEW j \in 1 .. (k - 1) PROVE queued[j].cancelled
  <2>1. j \in DOMAIN queued /\ j < k /\ j \in Nat /\ k \in Nat
    BY <1>1
  <2> QED BY <1>2, <2>1, NatOrder
<1>4. k \in NextQueued(queued)
  BY <1>2, <1>3 DEF NextQueued
<1> QED BY <1>4

\* The fates when the executing turn gets over: it was recorded.
LEMMA OverRecorded ==
  ASSUME WorkInv, executing # None, UNCHANGED context, fate' \in [Inputs -> Fates],
         \A i \in Inputs : \/ fate'[i] = fate[i] \/ fate'[i] = "dropped"
                           \/ fate[i] \in {"running", "queued"} /\ fate'[i] # "new"
  PROVE  RecordedOnce'
BY DEF WorkInv, WorkTypes, RecordedOnce

\* The executing turn gets over; the first live queued one takes its place.
LEMMA WorkOver ==
  ASSUME WorkInv, executing # None, TurnOver
  PROVE  WorkInv' /\ clock'.next >= clock.next
<1>0. /\ WorkTypes /\ IdsPassed /\ TurnsInOrder /\ NoStrandedInput /\ FatesOK /\ RecordedOnce
      /\ clock.next \in Nat /\ calling = None
  BY DEF WorkInv, WorkTypes, Clock, TurnOver, Idle
<1>1. UNCHANGED <<clock, context, calling>>
  BY DEF TurnOver
<1>2. executing \in Turn /\ executing.input \in Inputs /\ fate[executing.input] = "running"
  BY <1>0 DEF WorkTypes, FatesOK, Turn
<1>3. \A k \in DOMAIN queued : queued[k].input \in Inputs /\ queued[k].input # executing.input
  BY <1>0, <1>2, QueueEntry DEF FatesOK
<1>4. CASE disposed
  <2>1. /\ queued' = <<>> /\ executing' = None
        /\ fate' = [i \in Inputs |-> IF i = executing.input THEN "over"
                                     ELSE IF i \in Waiting THEN "dropped" ELSE fate[i]]
    BY <1>4 DEF TurnOver, DropQueue
  <2>2. fate' \in [Inputs -> Fates]
    BY <1>0, <2>1 DEF WorkTypes, Fates
  <2>3. RecordedOnce'
    <3>1. \A i \in Inputs : \/ fate'[i] = fate[i] \/ fate'[i] = "dropped"
                            \/ fate[i] \in {"running", "queued"} /\ fate'[i] # "new"
      BY <1>2, <2>1
    <3> QED BY <1>1, <2>2, <3>1, OverRecorded
  <2>4. WorkTypes'
    BY <1>0, <1>1, <2>1, <2>2 DEF WorkTypes
  <2>5. DOMAIN queued' = {}
    BY <2>1
  <2>6. IdsPassed' /\ TurnsInOrder' /\ NoStrandedInput' /\ FatesOK'
    BY <1>0, <1>1, <2>1, <2>5 DEF IdsPassed, TurnsInOrder, NoStrandedInput, FatesOK
  <2> QED BY <1>0, <1>1, <2>3, <2>4, <2>6 DEF WorkInv
<1>5. CASE ~disposed /\ NextQueued(queued) = {}
  <2>1. fate' = [fate EXCEPT ![executing.input] = "over"] /\ executing' = None /\ UNCHANGED queued
    BY <1>5 DEF TurnOver
  <2>2. fate' \in [Inputs -> Fates] /\ \A i \in Inputs : i # executing.input => fate'[i] = fate[i]
    BY <1>0, <2>1 DEF WorkTypes, Fates
  <2>3. RecordedOnce'
    <3>1. \A i \in Inputs : \/ fate'[i] = fate[i] \/ fate'[i] = "dropped"
                            \/ fate[i] \in {"running", "queued"} /\ fate'[i] # "new"
      BY <1>0, <1>2, <2>1 DEF WorkTypes
    <3> QED BY <1>1, <2>2, <3>1, OverRecorded
  <2>4. WorkTypes'
    BY <1>0, <1>1, <2>1, <2>2 DEF WorkTypes
  <2>5. \A k \in DOMAIN queued : queued[k].cancelled
    BY <1>0, <1>5, NextQueuedEmpty
  <2>6. IdsPassed' /\ TurnsInOrder' /\ NoStrandedInput'
    BY <1>0, <1>1, <2>1, <2>5 DEF IdsPassed, TurnsInOrder, NoStrandedInput
  <2>7. FatesOK'
    BY <1>0, <1>1, <1>3, <2>1, <2>2 DEF FatesOK
  <2> QED BY <1>0, <1>1, <2>3, <2>4, <2>6, <2>7 DEF WorkInv
<1>6. CASE ~disposed /\ NextQueued(queued) # {}
  <2>1. PICK k \in NextQueued(queued) :
          /\ executing' = [id |-> queued[k].id, input |-> queued[k].input]
          /\ queued' = RemoveAt(queued, k)
          /\ fate' = [fate EXCEPT ![executing.input] = "over", ![queued[k].input] = "running"]
    BY <1>6 DEF TurnOver, StartQueuedTurn
  <2> DEFINE n == Len(queued)
             old(j) == IF j < k THEN j ELSE j + 1
  <2>2. queued \in Seq(Entry) /\ DOMAIN queued = 1 .. n /\ n \in Nat
    BY <1>0 DEF WorkTypes
  <2>3. k \in 1 .. n /\ ~queued[k].cancelled /\ \A j \in 1 .. (k - 1) : queued[j].cancelled
    BY <2>2 DEF NextQueued
  <2>4. /\ queued[k].id \in Nat /\ queued[k].id < clock.next /\ queued[k].input \in Inputs
        /\ fate[queued[k].input] = "queued"
    BY <1>0, <2>2, <2>3, QueueEntry DEF IdsPassed, FatesOK
  <2>5. /\ queued' \in Seq(Entry) /\ Len(queued') = n - 1
        /\ \A j \in 1 .. (n - 1) : queued'[j] = IF j < k THEN queued[j] ELSE queued[j + 1]
    BY <2>1, <2>2, <2>3, RemoveAtProps
  <2>6. DOMAIN queued' = 1 .. (n - 1)
    BY <2>5
  <2>7. \A j \in DOMAIN queued' :
          old(j) \in DOMAIN queued /\ old(j) # k /\ queued'[j] = queued[old(j)]
    BY <2>2, <2>3, <2>5, <2>6
  <2>8. \A i, j \in DOMAIN queued' : /\ i < j => old(i) < old(j)
                                     /\ old(i) = old(j) => i = j
    BY <2>2, <2>3, <2>6
  <2>9. \A j \in DOMAIN queued' : ~queued'[j].cancelled => k < old(j)
    BY <2>2, <2>3, <2>6, <2>7
  <2> HIDE DEF old, n
  <2>10. executing' \in Turn /\ executing'.id = queued[k].id /\ executing'.input = queued[k].input
    BY <2>1, <2>4 DEF Turn
  <2>11. executing' # None
    BY <2>10, NoTurnAssumption
  <2>12. /\ fate' \in [Inputs -> Fates] /\ fate'[queued[k].input] = "running"
         /\ fate'[executing.input] = "over"
         /\ \A i \in Inputs : i # executing.input /\ i # queued[k].input => fate'[i] = fate[i]
    <3>1. executing.input # queued[k].input
      BY <1>2, <2>4
    <3>2. fate \in [Inputs -> Fates]
      BY <1>0 DEF WorkTypes
    <3> QED BY <1>2, <2>1, <2>4, <3>1, <3>2 DEF Fates
  <2>13. RecordedOnce'
    <3>1. \A i \in Inputs : \/ fate'[i] = fate[i] \/ fate'[i] = "dropped"
                            \/ fate[i] \in {"running", "queued"} /\ fate'[i] # "new"
      BY <1>2, <2>4, <2>12
    <3> QED BY <1>1, <2>12, <3>1, OverRecorded
  <2>14. WorkTypes'
    BY <1>0, <1>1, <2>5, <2>10, <2>12 DEF WorkTypes
  <2>15. IdsPassed'
    BY <1>0, <1>1, <2>4, <2>7, <2>10 DEF IdsPassed
  <2>16. TurnsInOrder'
    <3>1. \A i, j \in DOMAIN queued' : i < j => queued'[i].id < queued'[j].id
      BY <1>0, <2>7, <2>8 DEF TurnsInOrder
    <3>2. \A j \in DOMAIN queued' : ~queued'[j].cancelled => executing'.id < queued'[j].id
      BY <1>0, <2>2, <2>3, <2>7, <2>9, <2>10 DEF TurnsInOrder
    <3> QED BY <3>1, <3>2 DEF TurnsInOrder
  <2>17. NoStrandedInput'
    BY <2>11 DEF NoStrandedInput
  <2>18. FatesOK'
    <3>1. \A j \in DOMAIN queued' : fate'[queued'[j].input] = fate[queued'[j].input]
      <4> SUFFICES ASSUME NEW j \in DOMAIN queued'
                   PROVE  fate'[queued'[j].input] = fate[queued'[j].input]
        OBVIOUS
      <4>1. queued'[j] = queued[old(j)] /\ old(j) \in DOMAIN queued /\ k \in DOMAIN queued
            /\ old(j) # k
        BY <2>2, <2>3, <2>7
      <4>2. queued[old(j)].input # queued[k].input
        BY <1>0, <4>1 DEF FatesOK
      <4> QED BY <1>3, <2>12, <4>1, <4>2
    <3>2. \A j \in DOMAIN queued' :
            fate'[queued'[j].input] = IF queued'[j].cancelled THEN "cancelled" ELSE "queued"
      BY <1>0, <2>7, <3>1 DEF FatesOK
    <3>3. \A i, j \in DOMAIN queued' : queued'[i].input = queued'[j].input => i = j
      BY <1>0, <2>7, <2>8 DEF FatesOK
    <3> QED BY <1>0, <1>1, <2>10, <2>12, <3>2, <3>3 DEF FatesOK
  <2> QED BY <1>0, <1>1, <2>13, <2>14, <2>15, <2>16, <2>17, <2>18 DEF WorkInv
<1> QED BY <1>4, <1>5, <1>6

\* Queued turns are marked cancelled: the clock has passed them already.
LEMMA WorkCancel ==
  ASSUME WorkInv, NEW target, CancelQueued(target)
  PROVE  WorkInv' /\ clock' = clock
<1> DEFINE hit == {k \in DOMAIN queued : queued[k].id = target}
<1>0. /\ WorkTypes /\ IdsPassed /\ TurnsInOrder /\ NoStrandedInput /\ FatesOK /\ RecordedOnce
      /\ calling = None
  BY DEF WorkInv, CancelQueued, Idle
<1>1. /\ queued' = [k \in DOMAIN queued |->
                      IF k \in hit THEN [queued[k] EXCEPT !.cancelled = TRUE] ELSE queued[k]]
      /\ clock' = IF hit = {} THEN clock ELSE ApplyCancel(clock, {target})
      /\ fate' = [i \in Inputs |-> IF \E k \in hit : queued[k].input = i
                                   THEN "cancelled" ELSE fate[i]]
      /\ UNCHANGED <<context, executing, calling>>
  BY DEF CancelQueued, runVars
<1>2. clock' = clock
  <2>1. CASE hit = {}
    BY <1>1, <2>1
  <2>2. CASE hit # {}
    <3>1. PICK k \in hit : TRUE
      BY <2>2
    <3>2. target \in Nat /\ target < clock.next
      BY <1>0, <3>1, QueueEntry DEF IdsPassed
    <3> QED BY <1>0, <1>1, <2>2, <3>2, CancelKeepsClock
  <2> QED BY <2>1, <2>2
<1>3. hit \subseteq DOMAIN queued
  OBVIOUS
<1> HIDE DEF hit
<1>4. DOMAIN queued' = DOMAIN queued
  BY <1>1
<1>5. ASSUME NEW k \in DOMAIN queued
      PROVE  /\ queued'[k] \in Entry /\ queued'[k].id = queued[k].id
             /\ queued'[k].input = queued[k].input
             /\ k \in hit => queued'[k].cancelled
             /\ k \notin hit => queued'[k] = queued[k]
             /\ ~queued'[k].cancelled => ~queued[k].cancelled
  <2>1. queued[k] \in Entry
    BY <1>0, QueueEntry
  <2>2. CASE k \notin hit
    BY <1>1, <2>1, <2>2
  <2>3. CASE k \in hit
    <3>1. queued'[k] = [queued[k] EXCEPT !.cancelled = TRUE]
      BY <1>1, <2>3
    <3> QED BY <2>1, <2>3, <3>1 DEF Entry
  <2> QED BY <2>2, <2>3
<1>6. queued' \in Seq(Entry)
  <2>1. DOMAIN queued = 1 .. Len(queued) /\ Len(queued) \in Nat
    BY <1>0 DEF WorkTypes
  <2>2. queued' = [k \in 1 .. Len(queued) |-> queued'[k]]
    BY <1>1, <2>1
  <2>3. \A k \in 1 .. Len(queued) : queued'[k] \in Entry
    BY <1>5, <2>1
  <2> QED BY <2>1, <2>2, <2>3
<1>7. ASSUME NEW i \in Inputs
      PROVE  \/ fate'[i] = fate[i] /\ ~\E k \in hit : queued[k].input = i
             \/ /\ fate'[i] = "cancelled" /\ fate[i] \in {"queued", "cancelled"}
                /\ \E k \in hit : queued[k].input = i
  BY <1>0, <1>1, <1>3 DEF FatesOK
<1>8. WorkTypes'
  <2>1. fate' \in [Inputs -> Fates]
    BY <1>0, <1>1 DEF WorkTypes, Fates
  <2> QED BY <1>0, <1>1, <1>2, <1>6, <2>1 DEF WorkTypes
<1>9. IdsPassed' /\ TurnsInOrder' /\ NoStrandedInput'
  <2>1. IdsPassed'
    BY <1>0, <1>1, <1>2, <1>4, <1>5 DEF IdsPassed
  <2>2. TurnsInOrder'
    BY <1>0, <1>1, <1>4, <1>5 DEF TurnsInOrder
  <2> QED BY <1>0, <1>1, <1>4, <1>5, <2>1, <2>2 DEF NoStrandedInput
<1>10. FatesOK'
  <2>1. executing' # None => fate'[executing'.input] = "running"
    <3> SUFFICES ASSUME executing # None PROVE fate'[executing.input] = "running"
      BY <1>1
    <3>1. executing.input \in Inputs /\ fate[executing.input] = "running"
      BY <1>0 DEF WorkTypes, FatesOK, Turn
    <3> QED BY <1>7, <3>1
  <2>2. ASSUME NEW k \in DOMAIN queued
        PROVE  fate'[queued'[k].input] = IF queued'[k].cancelled THEN "cancelled" ELSE "queued"
    <3>1. queued[k].input \in Inputs
      BY <1>0, QueueEntry
    <3>2. CASE k \in hit
      BY <1>5, <1>7, <2>2, <3>1, <3>2
    <3>3. CASE k \notin hit
      <4>1. ~\E j \in hit : queued[j].input = queued[k].input
        BY <1>0, <1>3, <3>3 DEF FatesOK
      <4>2. fate'[queued[k].input] = fate[queued[k].input] /\ queued'[k] = queued[k]
        BY <1>5, <1>7, <3>1, <3>3, <4>1
      <4> QED BY <1>0, <4>2 DEF FatesOK
    <3> QED BY <3>2, <3>3
  <2>3. \A j, k \in DOMAIN queued : queued'[j].input = queued'[k].input => j = k
    BY <1>0, <1>5 DEF FatesOK
  <2> QED BY <1>0, <1>1, <1>4, <2>1, <2>2, <2>3 DEF FatesOK
<1>11. RecordedOnce'
  BY <1>0, <1>1, <1>7 DEF RecordedOnce
<1> QED BY <1>2, <1>8, <1>9, <1>10, <1>11 DEF WorkInv

-----------------------------------------------------------------------------
(* The engine's thread *)

EventTypes == {"stop", "tools", "ended"}

\* The clock never goes back, so events stay behind it.
LEMMA EventsKept ==
  ASSUME WorkInv, WorkInv', EventsOK, UNCHANGED events, clock'.next >= clock.next
  PROVE  EventsOK'
<1>1. clock.next \in Nat /\ clock'.next \in Nat
  BY DEF WorkInv, WorkTypes, Clock
<1>2. \A k \in DOMAIN events : events[k].id \in Nat
  <2>1. \A k \in DOMAIN events : events[k] \in Events
    BY DEF EventsOK
  <2> QED BY <2>1 DEF Events
<1> QED BY <1>1, <1>2 DEF EventsOK

\* Events are emitted for the executing turn, whose id the clock has passed.
LEMMA EmitKeepsEvents ==
  ASSUME WorkInv, EventsOK, executing # None, NEW types \in Seq(EventTypes), Emit(types),
         UNCHANGED clock
  PROVE  EventsOK'
<1> DEFINE ev == [k \in DOMAIN types |->
                   [type |-> types[k], id |-> executing.id, input |-> executing.input]]
<1>1. executing.id \in Nat /\ executing.input \in Inputs /\ executing.id < clock.next
  BY DEF WorkInv, WorkTypes, IdsPassed, Turn
<1>2. ev \in Seq(Events) /\ Len(ev) = Len(types) /\ \A k \in 1 .. Len(ev) : ev[k].id = executing.id
  <2>1. DOMAIN types = 1 .. Len(types) /\ Len(types) \in Nat
        /\ \A k \in 1 .. Len(types) : types[k] \in EventTypes
    OBVIOUS
  <2>2. \A k \in 1 .. Len(types) : ev[k] \in Events /\ ev[k].id = executing.id
    BY <1>1, <2>1 DEF Events, EventTypes
  <2>3. ev = [k \in 1 .. Len(types) |-> ev[k]]
    BY <2>1
  <2> HIDE DEF ev
  <2>4. ev \in Seq(Events) /\ Len(ev) = Len(types)
    BY <2>1, <2>2, <2>3
  <2> QED BY <2>2, <2>4
<1>3. events' = IF disposed THEN events ELSE events \o ev
  BY DEF Emit
<1> HIDE DEF ev
<1>4. events \in Seq(Events) /\ \A k \in 1 .. Len(events) : events[k].id < clock.next
  BY DEF EventsOK
<1>5. /\ events \o ev \in Seq(Events) /\ Len(events \o ev) = Len(events) + Len(ev)
      /\ \A k \in 1 .. (Len(events) + Len(ev)) :
           (events \o ev)[k] = IF k <= Len(events) THEN events[k] ELSE ev[k - Len(events)]
  <2>1. events \in Seq(Events) /\ ev \in Seq(Events)
    BY <1>2, <1>4
  <2> QED BY <2>1
<1>6. ASSUME NEW k \in 1 .. (Len(events) + Len(ev))
      PROVE  (events \o ev)[k].id < clock.next
  <2>1. CASE k <= Len(events)
    BY <1>4, <1>5, <2>1
  <2>2. CASE ~(k <= Len(events))
    <3>1. k - Len(events) \in 1 .. Len(ev)
      BY <1>2, <1>4, <2>2
    <3> QED BY <1>1, <1>2, <1>5, <2>2, <3>1
  <2> QED BY <2>1, <2>2
<1>7. CASE disposed
  BY <1>3, <1>7 DEF EventsOK
<1>8. CASE ~disposed
  <2>1. events' = events \o ev
    BY <1>3, <1>8
  <2>2. events' \in Seq(Events) /\ DOMAIN events' = 1 .. (Len(events) + Len(ev))
    BY <1>5, <2>1
  <2> QED BY <1>6, <2>1, <2>2 DEF EventsOK
<1> QED BY <1>7, <1>8

\* What a step of the engine does to its session and to the events.
EngineShape ==
  /\ engine \notin {"none", "finished"}
  /\ engine' \in EnginePlaces
  /\ steerQueue' \in SUBSET Inputs
  /\ engineSteps' \in Nat
  /\ engineOutcome' \in {"none", "completed", "failed", "cancelled"}
  /\ UNCHANGED events \/ \E types \in Seq(EventTypes) : Emit(types)

\* Every finish path ends with turn.ended.
LEMMA FinishShape ==
  ASSUME NEW outcome \in {"completed", "failed", "cancelled"}, NEW types \in Seq(EventTypes),
         Finish(outcome, types), SessionTypes, engine \notin {"none", "finished"},
         UNCHANGED <<steerQueue, engineSteps>>
  PROVE  EngineShape
<1>1. Append(types, "ended") \in Seq(EventTypes)
  BY DEF EventTypes
<1>2. Emit(Append(types, "ended")) /\ engine' = "finished" /\ engineOutcome' = outcome
  BY DEF Finish
<1> QED BY <1>1, <1>2 DEF EngineShape, SessionTypes, EnginePlaces

LEMMA EngineStepShape ==
  ASSUME SessionTypes, EngineStep
  PROVE  EngineShape
<1>0. <<>> \in Seq(EventTypes) /\ <<"stop">> \in Seq(EventTypes) /\ <<"tools">> \in Seq(EventTypes)
  BY DEF EventTypes
<1> USE DEF EngineShape, SessionTypes, EnginePlaces
<1>1. CASE BeginStep
  <2>1. CASE cancelFlag
    BY <1>0, <1>1, <2>1, FinishShape DEF BeginStep
  <2>2. CASE ~cancelFlag /\ MaxStepsReached
    BY <1>0, <1>1, <2>2, FinishShape DEF BeginStep
  <2>3. CASE ~cancelFlag /\ ~MaxStepsReached
    BY <1>1, <2>3 DEF BeginStep, PrepareStep, StartStep
  <2> QED BY <2>1, <2>2, <2>3
<1>2. CASE CompleteStep
  <2>1. CASE UNCHANGED events
    BY <1>2, <2>1 DEF CompleteStep
  <2>2. CASE Emit(<<"stop">>) \/ Emit(<<"tools">>)
    BY <1>0, <1>2, <2>2 DEF CompleteStep
  <2> QED BY <1>2, <2>1, <2>2 DEF CompleteStep
<1>3. CASE MarkFinished
  <2>1. /\ engine = "settling" /\ UNCHANGED <<steerQueue, engineSteps>>
        /\ \/ Finish("completed", <<"stop">>)
           \/ Finish("failed", <<"stop">>)
           \/ Finish("failed", <<"tools">>)
    BY <1>3 DEF MarkFinished
  <2> QED BY <1>0, <2>1, FinishShape
<1>4. CASE StepFails
  <2>1. CASE engine' \in {"boundary", "recovering"} /\ UNCHANGED events
    BY <1>4, <2>1 DEF StepFails, Finish
  <2>2. CASE Finish("cancelled", <<>>) \/ Finish("failed", <<>>)
    BY <1>0, <1>4, <2>2, FinishShape DEF StepFails
  <2> QED BY <1>4, <2>1, <2>2 DEF StepFails
<1>5. CASE Interrupted
  BY <1>0, <1>5, FinishShape DEF Interrupted
<1>6. CASE CallTools
  BY <1>6 DEF CallTools
<1>7. CASE ExecuteBatch
  <2>1. CASE Finish("completed", <<"stop">>)
    BY <1>0, <1>7, <2>1, FinishShape DEF ExecuteBatch
  <2>2. CASE (Emit(<<"tools">>) \/ Emit(<<"stop">>)) /\ UNCHANGED engineOutcome
    BY <1>0, <1>7, <2>2 DEF ExecuteBatch, Finish
  <2>3. CASE UNCHANGED <<engineOutcome, events>>
    BY <1>7, <2>3 DEF ExecuteBatch, Finish
  <2> QED BY <1>7, <2>1, <2>2, <2>3 DEF ExecuteBatch
<1>8. CASE StopResumed
  BY <1>0, <1>8, FinishShape DEF StopResumed
<1>9. CASE Resume
  <2>1. CASE cancelFlag
    BY <1>0, <1>9, <2>1, FinishShape DEF Resume
  <2>2. CASE ~cancelFlag
    BY <1>9, <2>2 DEF Resume
  <2> QED BY <2>1, <2>2
<1>10. CASE Compacted
  BY <1>10 DEF Compacted, StartStep
<1>11. CASE Recovered
  <2>1. CASE engine' = "boundary" /\ UNCHANGED events
    BY <1>11, <2>1 DEF Recovered, Finish
  <2>2. CASE Finish("failed", <<>>)
    BY <1>0, <1>11, <2>2, FinishShape DEF Recovered
  <2> QED BY <1>11, <2>1, <2>2 DEF Recovered
<1> QED BY <1>1, <1>2, <1>3, <1>4, <1>5, <1>6, <1>7, <1>8, <1>9, <1>10, <1>11 DEF EngineStep

LEMMA EngineStepInv ==
  ASSUME EngineInv, EngineStep
  PROVE  EngineInv'
<1>1. EngineShape
  BY EngineStepShape DEF EngineInv
<1>2. UNCHANGED <<clock, context, queued, executing, fate, calling, runPhase, activeSession, open,
                  disposed, cancelFlag, stopUsed, hooks>>
  BY DEF EngineStep, queueVars, runVars, hookVars
<1>3. WorkInv' /\ clock'.next >= clock.next
  <2>1. UNCHANGED workVars
    BY <1>2 DEF workVars
  <2> QED BY <2>1, WorkQuiet DEF EngineInv
<1>4. ControlOK' /\ SessionTypes'
  BY <1>1, <1>2 DEF EngineInv, EngineShape, ControlOK, SessionTypes
<1>5. executing # None
  BY <1>1 DEF EngineInv, EngineShape, ControlOK
<1>6. EventsOK'
  <2>1. CASE UNCHANGED events
    BY <1>3, <2>1, EventsKept DEF EngineInv
  <2>2. CASE \E types \in Seq(EventTypes) : Emit(types)
    BY <1>2, <1>5, <2>2, EmitKeepsEvents DEF EngineInv
  <2> QED BY <1>1, <2>1, <2>2 DEF EngineShape
<1> QED BY <1>3, <1>4, <1>6 DEF EngineInv

-----------------------------------------------------------------------------
(* The runner *)

\* runTurn in a piece of code that leaves the session alone.
LEMMA RunTurnInv ==
  ASSUME EngineInv, NEW i \in Inputs, fate[i] = "new", calling = None, calling' = None, RunTurn(i),
         UNCHANGED <<activeSession, open, disposed, engineVars, events, stopUsed>>,
         hooks' \in SUBSET Inputs
  PROVE  EngineInv'
<1>1. WorkInv' /\ clock'.next >= clock.next
  BY WorkRun DEF EngineInv
<1>2. EventsOK'
  BY <1>1, EventsKept DEF EngineInv
<1>3. \/ UNCHANGED <<executing, runPhase>>
      \/ executing = None /\ executing' # None /\ runPhase' = "config"
  <2>1. clock.next \in Nat /\ LaunchedId(ApplyPrompt(clock)) = clock.next
    BY PromptAddsOne DEF EngineInv, WorkInv
  <2>2. [id |-> LaunchedId(ApplyPrompt(clock)), input |-> i] # None
    BY <2>1, NoTurnAssumption DEF Turn
  <2> QED BY <2>2 DEF RunTurn, Launch, StartQueuedTurn
<1>4. ControlOK' /\ SessionTypes'
  BY <1>3 DEF EngineInv, ControlOK, SessionTypes, engineVars
<1> QED BY <1>1, <1>2, <1>4 DEF EngineInv

\* Asking the engine first, in such a piece of code.
LEMMA SteerOrRunInv ==
  ASSUME EngineInv, NEW i \in Inputs, fate[i] = "new", calling = None, NEW mayAsk \in BOOLEAN,
         SteerOrRun(i, mayAsk),
         UNCHANGED <<activeSession, open, disposed, engineVars, events, stopUsed>>,
         hooks' \in SUBSET Inputs
  PROVE  EngineInv'
<1>1. CASE RunTurn(i) /\ UNCHANGED calling
  BY <1>1, RunTurnInv
<1>2. CASE /\ Steerable /\ calling' = i
           /\ UNCHANGED <<queueVars, executing, runPhase, fate>>
  <2>1. WorkInv' /\ clock'.next >= clock.next
    BY <1>2, WorkCalling DEF EngineInv, queueVars
  <2>2. EventsOK'
    BY <2>1, EventsKept DEF EngineInv
  <2>3. ControlOK' /\ SessionTypes'
    BY <1>2 DEF EngineInv, ControlOK, SessionTypes, engineVars, Steerable
  <2> QED BY <2>1, <2>2, <2>3 DEF EngineInv
<1> QED BY <1>1, <1>2 DEF SteerOrRun

\* A step that leaves the work and the events alone.
LEMMA SessionStep ==
  ASSUME EngineInv, UNCHANGED workVars, UNCHANGED events, ControlOK', SessionTypes'
  PROVE  EngineInv'
<1>1. WorkInv' /\ clock'.next >= clock.next
  BY WorkQuiet DEF EngineInv
<1> QED BY <1>1, EventsKept DEF EngineInv

LEMMA ClientsInv ==
  ASSUME EngineInv, Clients
  PROVE  EngineInv'
<1>1. ASSUME NEW i \in Inputs, Prompt(i) PROVE EngineInv'
  <2>1. /\ fate[i] = "new" /\ calling = None /\ calling' = None /\ RunTurn(i)
        /\ UNCHANGED <<activeSession, open, disposed, engineVars, events, stopUsed, hooks>>
    BY <1>1 DEF Prompt, Idle, hookVars
  <2>2. hooks' \in SUBSET Inputs
    BY <2>1 DEF EngineInv, SessionTypes
  <2> QED BY <2>1, <2>2, RunTurnInv
<1>2. ASSUME NEW i \in Inputs, Steer(i) PROVE EngineInv'
  <2>1. /\ fate[i] = "new" /\ calling = None /\ SteerOrRun(i, ~disposed)
        /\ UNCHANGED <<activeSession, open, disposed, engineVars, events, stopUsed, hooks>>
    BY <1>2 DEF Steer, Idle, hookVars
  <2>2. hooks' \in SUBSET Inputs
    BY <2>1 DEF EngineInv, SessionTypes
  <2>3. (~disposed) \in BOOLEAN
    OBVIOUS
  <2> QED BY <2>1, <2>2, <2>3, SteerOrRunInv
<1>3. ASSUME NEW i \in Inputs, DeliverTaskNotification(i) PROVE EngineInv'
  <2>1. /\ fate[i] = "new" /\ calling = None /\ SteerOrRun(i, TRUE)
        /\ UNCHANGED <<activeSession, open, disposed, engineVars, events, stopUsed, hooks>>
    BY <1>3 DEF DeliverTaskNotification, Idle, hookVars
  <2>2. hooks' \in SUBSET Inputs
    BY <2>1 DEF EngineInv, SessionTypes
  <2> QED BY <2>1, <2>2, SteerOrRunInv
<1>4. ASSUME NEW t \in Inputs, NEW i \in Inputs, StopHookContinues(t, i) PROVE EngineInv'
  <2>1. /\ fate[i] = "new" /\ calling = None /\ SteerOrRun(i, TRUE) /\ hooks' = hooks \ {t}
        /\ UNCHANGED <<activeSession, open, disposed, engineVars, events, stopUsed>>
    BY <1>4 DEF StopHookContinues, Idle
  <2>2. hooks' \in SUBSET Inputs
    BY <2>1 DEF EngineInv, SessionTypes
  <2> QED BY <2>1, <2>2, SteerOrRunInv
<1>5. ASSUME NEW t \in Inputs, StopHookSilent(t) PROVE EngineInv'
  <2>1. UNCHANGED workVars /\ UNCHANGED events
    BY <1>5 DEF StopHookSilent, workVars, queueVars, runVars
  <2>2. ControlOK' /\ SessionTypes'
    BY <1>5 DEF StopHookSilent, EngineInv, ControlOK, SessionTypes, runVars, engineVars
  <2> QED BY <2>1, <2>2, SessionStep
<1>6. ASSUME NEW target, CancelSession(target) PROVE EngineInv'
  <2>1. UNCHANGED workVars /\ UNCHANGED events
    BY <1>6 DEF CancelSession, workVars, queueVars
  <2>2. ControlOK' /\ SessionTypes'
    BY <1>6 DEF CancelSession, AbortApproval, EngineInv, ControlOK, SessionTypes, EnginePlaces,
                hookVars
  <2> QED BY <2>1, <2>2, SessionStep
<1>7. ASSUME NEW target, CancelQueued(target) PROVE EngineInv'
  <2>1. WorkInv' /\ clock' = clock /\ clock.next \in Nat
    BY <1>7, WorkCancel DEF EngineInv, WorkInv, WorkTypes, Clock
  <2>2. UNCHANGED <<calling, events, runVars, engineVars, hookVars>>
    BY <1>7 DEF CancelQueued
  <2>3. EventsOK'
    BY <2>1, <2>2 DEF EngineInv, EventsOK
  <2>4. ControlOK' /\ SessionTypes'
    BY <2>2 DEF EngineInv, ControlOK, SessionTypes, runVars, engineVars, hookVars
  <2> QED BY <2>1, <2>3, <2>4 DEF EngineInv
<1>8. ASSUME Dispose PROVE EngineInv'
  <2>1. UNCHANGED workVars /\ events' = <<>> /\ calling = None
    BY <1>8 DEF Dispose, workVars, queueVars, Idle
  <2>2. ControlOK' /\ SessionTypes'
    BY <1>8 DEF Dispose, AbortApproval, Idle, EngineInv, ControlOK, SessionTypes, EnginePlaces,
                hookVars
  <2>3. WorkInv'
    BY <2>1, WorkQuiet DEF EngineInv
  <2>4. EventsOK'
    BY <2>1 DEF EventsOK
  <2> QED BY <2>2, <2>3, <2>4 DEF EngineInv
<1>9. ASSUME AnswerApproval PROVE EngineInv'
  <2>1. UNCHANGED workVars /\ UNCHANGED events
    BY <1>9 DEF AnswerApproval, workVars, queueVars
  <2>2. ControlOK' /\ SessionTypes'
    BY <1>9 DEF AnswerApproval, EngineInv, ControlOK, SessionTypes, EnginePlaces, hookVars
  <2> QED BY <2>1, <2>2, SessionStep
<1> QED BY <1>1, <1>2, <1>3, <1>4, <1>5, <1>6, <1>7, <1>8, <1>9 DEF Clients

LEMMA RunnerInv ==
  ASSUME EngineInv, Runner
  PROVE  EngineInv'
<1>1. CASE SteerAccepted
  <2>1. WorkInv' /\ clock'.next >= clock.next
    BY <1>1, WorkAccepted DEF EngineInv
  <2>2. EventsOK'
    BY <1>1, <2>1, EventsKept DEF EngineInv, SteerAccepted
  <2>3. ControlOK' /\ SessionTypes'
    BY <1>1 DEF SteerAccepted, EngineInv, WorkInv, WorkTypes, ControlOK, SessionTypes, runVars,
                hookVars
  <2> QED BY <2>1, <2>2, <2>3 DEF EngineInv
<1>2. CASE CreateSession
  <2>1. UNCHANGED workVars /\ UNCHANGED events
    BY <1>2 DEF CreateSession, workVars, queueVars
  <2>2. executing # None /\ executing.id \in Nat /\ executing.id # None
    BY <1>2, NoTurnAssumption DEF CreateSession, EngineInv, ControlOK, WorkInv, WorkTypes, Turn
  <2>3. ControlOK' /\ SessionTypes'
    BY <1>2, <2>2 DEF CreateSession, EngineInv, ControlOK, SessionTypes, EnginePlaces, hookVars
  <2> QED BY <2>1, <2>3, SessionStep
<1>3. CASE LaunchFails
  <2>1. UNCHANGED workVars /\ UNCHANGED events
    BY <1>3 DEF LaunchFails, workVars, queueVars
  <2>2. executing # None /\ executing.id \in Nat
    BY <1>3 DEF LaunchFails, EngineInv, ControlOK, WorkInv, WorkTypes, Turn
  <2>3. ControlOK' /\ SessionTypes'
    BY <1>3, <2>2 DEF LaunchFails, EngineInv, ControlOK, SessionTypes, engineVars, hookVars
  <2> QED BY <2>1, <2>3, SessionStep
<1>4. CASE AskApproval
  <2>1. UNCHANGED workVars /\ UNCHANGED events
    BY <1>4 DEF AskApproval, workVars, queueVars
  <2>2. ControlOK' /\ SessionTypes'
    BY <1>4 DEF AskApproval, EngineInv, ControlOK, SessionTypes, engineVars, hookVars
  <2> QED BY <2>1, <2>2, SessionStep
<1>5. CASE EngineReturns
  <2>1. UNCHANGED workVars /\ UNCHANGED events
    BY <1>5 DEF EngineReturns, workVars, queueVars
  <2>2. ControlOK' /\ SessionTypes'
    BY <1>5 DEF EngineReturns, EngineInv, ControlOK, SessionTypes, EnginePlaces, hookVars
  <2> QED BY <2>1, <2>2, SessionStep
<1>6. CASE TurnOver
  <2>1. runPhase = "over" /\ executing # None
    BY <1>6 DEF TurnOver, EngineInv, ControlOK
  <2>2. WorkInv' /\ clock'.next >= clock.next
    BY <1>6, <2>1, WorkOver DEF EngineInv
  <2>3. UNCHANGED <<activeSession, open, disposed, calling, engineVars, events, hookVars>>
    BY <1>6 DEF TurnOver
  <2>4. EventsOK'
    BY <2>2, <2>3, EventsKept DEF EngineInv
  <2>5. \/ executing' = None /\ runPhase' = "idle"
        \/ executing' # None /\ runPhase' = "config"
    <3>1. ASSUME NEW k \in NextQueued(queued), StartQueuedTurn(queued[k].id, queued[k].input)
          PROVE  executing' # None /\ runPhase' = "config"
      <4>1. queued[k].id \in Nat /\ queued[k].input \in Inputs
        BY QueueEntry DEF NextQueued, EngineInv, WorkInv
      <4> QED BY <3>1, <4>1, NoTurnAssumption DEF StartQueuedTurn, Turn
    <3> QED BY <1>6, <3>1 DEF TurnOver, DropQueue
  <2>6. ControlOK' /\ SessionTypes'
    BY <2>1, <2>3, <2>5 DEF EngineInv, ControlOK, SessionTypes, engineVars, hookVars
  <2> QED BY <2>2, <2>4, <2>6 DEF EngineInv
<1> QED BY <1>1, <1>2, <1>3, <1>4, <1>5, <1>6 DEF Runner

\* An event of a turn the clock has passed does not move it.
LEMMA EventKeepsClock ==
  ASSUME EngineInv, HandleEngineEvent
  PROVE  clock' = clock
<1>1. events \in Seq(Events) /\ events # <<>>
  BY DEF EngineInv, EventsOK, HandleEngineEvent
<1>2. 1 \in DOMAIN events /\ Head(events) = events[1] /\ events[1] \in Events
  BY <1>1
<1>3. Head(events).id \in Nat /\ Head(events).id < clock.next /\ clock.next \in Nat
  BY <1>2 DEF EngineInv, EventsOK, Events, WorkInv, WorkTypes, Clock
<1>4. clock' = clock \/ clock' = ApplyLoopEvent(clock, Head(events).id)
  BY DEF HandleEngineEvent
<1> QED BY <1>3, <1>4, LoopEventProps

LEMMA HandleEventInv ==
  ASSUME EngineInv, HandleEngineEvent
  PROVE  EngineInv'
<1>1. /\ events # <<>> /\ events' = Tail(events) /\ clock' = clock
      /\ UNCHANGED <<context, queued, runVars, calling, engineVars, fate>>
  BY EventKeepsClock DEF HandleEngineEvent
<1>2. WorkInv'
  <2>1. UNCHANGED workVars
    BY <1>1 DEF workVars, runVars
  <2> QED BY <2>1, WorkQuiet DEF EngineInv
<1>3. events \in Seq(Events) /\ \A k \in 1 .. Len(events) : events[k].id < clock.next
  BY DEF EngineInv, EventsOK
<1>4. /\ events' \in Seq(Events) /\ DOMAIN events' = 1 .. (Len(events) - 1)
      /\ \A k \in 1 .. (Len(events) - 1) : events'[k] = events[k + 1]
  BY <1>1, <1>3
<1>5. EventsOK'
  BY <1>1, <1>3, <1>4 DEF EventsOK
<1>6. stopUsed' \in BOOLEAN /\ hooks' \in SUBSET Inputs
  <2>1. Head(events).input \in Inputs
    <3>1. Head(events) \in Events
      BY <1>1, <1>3
    <3> QED BY <3>1 DEF Events
  <2> QED BY <2>1 DEF HandleEngineEvent, EngineInv, SessionTypes
<1>7. ControlOK' /\ SessionTypes'
  BY <1>1, <1>6 DEF EngineInv, ControlOK, SessionTypes, runVars, engineVars
<1> QED BY <1>2, <1>5, <1>7 DEF EngineInv

LEMMA InitEngineInv == Init => EngineInv
<1> SUFFICES ASSUME Init PROVE EngineInv
  OBVIOUS
<1>1. WorkTypes
  BY DEF Init, WorkTypes, Clock, InitialClock, Fates
<1>2. DOMAIN queued = {} /\ DOMAIN context = {} /\ DOMAIN events = {}
  BY DEF Init
<1>3. RecordedOnce
  BY <1>2 DEF Init, RecordedOnce, IsInjective, ToSet
<1>4. IdsPassed /\ TurnsInOrder /\ NoStrandedInput /\ FatesOK
  BY <1>2 DEF Init, IdsPassed, TurnsInOrder, NoStrandedInput, FatesOK
<1>5. ControlOK /\ SessionTypes
  BY DEF Init, ControlOK, SessionTypes, EnginePlaces
<1>6. EventsOK
  BY <1>2 DEF Init, EventsOK
<1> QED BY <1>1, <1>3, <1>4, <1>5, <1>6 DEF EngineInv, WorkInv

LEMMA NextEngineInv == EngineInv /\ [Next]_vars => EngineInv'
<1> SUFFICES ASSUME EngineInv, [Next]_vars PROVE EngineInv'
  OBVIOUS
<1>1. CASE UNCHANGED vars
  <2>1. UNCHANGED workVars /\ UNCHANGED events
    BY <1>1 DEF vars, workVars, queueVars, runVars
  <2>2. ControlOK' /\ SessionTypes'
    BY <1>1 DEF vars, EngineInv, ControlOK, SessionTypes, runVars, engineVars, hookVars
  <2> QED BY <2>1, <2>2, SessionStep
<1> QED BY <1>1, ClientsInv, RunnerInv, HandleEventInv, EngineStepInv DEF Next

\* The inductive invariant of the runner and its engine holds in every state.
THEOREM EngineInvariant == Spec => []EngineInv
BY InitEngineInv, NextEngineInv, PTL DEF Spec
-----------------------------------------------------------------------------
(* Theorems *)

\* The variables of the runner and of the engine keep their types.
THEOREM EngineTypeCorrect == Spec => []TypeOK
<1>1. EngineInv => TypeOK
  BY DEF EngineInv, WorkInv, WorkTypes, SessionTypes, EventsOK, TypeOK
<1> QED BY <1>1, EngineInvariant, PTL

\* Every message enters the context exactly once, however steers race the end
\* of the engine's turn.
THEOREM MessagesRecordedOnce == Spec => []RecordedOnce
<1>1. EngineInv => RecordedOnce
  BY DEF EngineInv, WorkInv
<1> QED BY <1>1, EngineInvariant, PTL

\* A live queued turn always has a turn ahead of it whose finally starts it.
THEOREM NoInputStranded == Spec => []NoStrandedInput
<1>1. EngineInv => NoStrandedInput
  BY DEF EngineInv, WorkInv
<1> QED BY <1>1, EngineInvariant, PTL

\* Turns run in the order in which their messages were recorded.
THEOREM TurnsStayInOrder == Spec => []TurnsInOrder
<1>1. EngineInv => TurnsInOrder
  BY DEF EngineInv, WorkInv
<1> QED BY <1>1, EngineInvariant, PTL

\* No step takes a message out of the fate "cancelled".
LEMMA FateOfCancelled ==
  ASSUME EngineInv, [Next]_vars, NEW i \in Inputs, fate[i] = "cancelled"
  PROVE  fate'[i] = "cancelled"
<1>0. fate \in [Inputs -> Fates] /\ WorkTypes /\ FatesOK
  BY DEF EngineInv, WorkInv, WorkTypes
<1>1. ASSUME NEW j \in Inputs, fate[j] = "new", RunTurn(j) PROVE fate'[i] = "cancelled"
  BY <1>0, <1>1 DEF RunTurn, Launch
<1>2. ASSUME NEW j \in Inputs, fate[j] = "new", NEW mayAsk, SteerOrRun(j, mayAsk)
      PROVE  fate'[i] = "cancelled"
  BY <1>1, <1>2 DEF SteerOrRun
<1>3. CASE Clients
  <2>1. ASSUME NEW j \in Inputs, Prompt(j) \/ Steer(j) \/ DeliverTaskNotification(j)
        PROVE  fate'[i] = "cancelled"
    BY <1>1, <1>2, <2>1 DEF Prompt, Steer, DeliverTaskNotification
  <2>2. ASSUME NEW t \in Inputs, NEW j \in Inputs, StopHookContinues(t, j)
        PROVE  fate'[i] = "cancelled"
    BY <1>2, <2>2 DEF StopHookContinues
  <2>3. ASSUME NEW target, CancelQueued(target) PROVE fate'[i] = "cancelled"
    BY <2>3 DEF CancelQueued
  <2> QED BY <1>3, <2>1, <2>2, <2>3 DEF Clients, StopHookSilent, CancelSession, Dispose,
                                        AnswerApproval
<1>4. CASE Runner
  <2>1. CASE SteerAccepted
    BY <1>0, <2>1 DEF SteerAccepted, FatesOK, WorkTypes
  <2>2. CASE TurnOver
    <3>1. executing # None /\ fate[executing.input] = "running" /\ executing.input # i
      BY <1>0, <2>2 DEF TurnOver, EngineInv, ControlOK, FatesOK
    <3>2. \A k \in DOMAIN queued : ~queued[k].cancelled => queued[k].input # i
      BY <1>0 DEF FatesOK
    <3>3. i \notin Waiting
      BY <3>2 DEF Waiting
    <3>4. \A k \in NextQueued(queued) : queued[k].input # i
      BY <3>2 DEF NextQueued
    <3> QED BY <1>0, <2>2, <3>1, <3>3, <3>4 DEF TurnOver, DropQueue
  <2> QED BY <1>4, <2>1, <2>2 DEF Runner, CreateSession, LaunchFails, AskApproval, EngineReturns
<1>5. CASE UNCHANGED fate
  BY <1>5
<1> QED BY <1>3, <1>4, <1>5 DEF Next, HandleEngineEvent, EngineStep, vars

\* A cancelled queued turn never runs.
THEOREM CancelledTurnsNeverRun == Spec => CancelledNeverRuns
<1>1. ASSUME EngineInv, [Next]_vars
      PROVE  [\A i \in Inputs : fate[i] = "cancelled" => fate'[i] = "cancelled"]_vars
  BY <1>1, FateOfCancelled
<1> QED BY <1>1, EngineInvariant, PTL DEF Spec, CancelledNeverRuns

\* Once every session is closed, a disposed runner records nothing.
LEMMA NothingRecorded ==
  ASSUME EngineInv, [Next]_vars, disposed, open = {}
  PROVE  UNCHANGED <<clock, context>>
<1>1. calling = None /\ ~Steerable
  BY DEF EngineInv, ControlOK, Steerable
<1>2. ASSUME NEW i, RunTurn(i) PROVE UNCHANGED <<clock, context>>
  BY <1>2 DEF RunTurn, queueVars
<1>3. ASSUME NEW i, NEW mayAsk, SteerOrRun(i, mayAsk) PROVE UNCHANGED <<clock, context>>
  BY <1>1, <1>2, <1>3 DEF SteerOrRun
<1>4. CASE Clients
  <2>1. ASSUME NEW target, CancelQueued(target) PROVE UNCHANGED <<clock, context>>
    BY <2>1, WorkCancel DEF EngineInv, CancelQueued
  <2>2. ASSUME NEW i \in Inputs, Prompt(i) \/ Steer(i) \/ DeliverTaskNotification(i)
        PROVE  UNCHANGED <<clock, context>>
    BY <1>2, <1>3, <2>2 DEF Prompt, Steer, DeliverTaskNotification
  <2>3. ASSUME NEW t \in Inputs, NEW i \in Inputs, StopHookContinues(t, i)
        PROVE  UNCHANGED <<clock, context>>
    BY <1>3, <2>3 DEF StopHookContinues
  <2> QED BY <1>4, <2>1, <2>2, <2>3 DEF Clients, StopHookSilent, CancelSession, Dispose,
                                        AnswerApproval, queueVars
<1>5. CASE Runner
  BY <1>1, <1>5 DEF Runner, SteerAccepted, CreateSession, LaunchFails, AskApproval, EngineReturns,
                    TurnOver, queueVars
<1>6. CASE HandleEngineEvent
  BY <1>6, EventKeepsClock DEF HandleEngineEvent
<1> QED BY <1>4, <1>5, <1>6 DEF Next, EngineStep, vars, queueVars

\* Nothing reaches the wire or the context after disposal, with every session
\* closed, neither from clients nor from hooks and events still in flight.
THEOREM DisposedStaysSilent == Spec => DisposedRecordsNothing
<1>1. ASSUME EngineInv, [Next]_vars
      PROVE  [disposed /\ open = {} => UNCHANGED <<clock, context>>]_vars
  BY <1>1, NothingRecorded
<1> QED BY <1>1, EngineInvariant, PTL DEF Spec, DisposedRecordsNothing

\* A disposed runner whose turn may still open its session has no session open.
LeftOpen ==
  disposed => \/ open = {}
              \/ runPhase # "config" /\ \A s, t \in open : s = t

LEMMA LeftOpenKept ==
  ASSUME LeftOpen, [Next]_vars
  PROVE  LeftOpen'
<1> USE DEF LeftOpen
<1>1. ASSUME NEW i, RunTurn(i), disposed PROVE UNCHANGED runPhase
  BY <1>1 DEF RunTurn
<1>2. ASSUME NEW i, NEW mayAsk, SteerOrRun(i, mayAsk), disposed PROVE UNCHANGED runPhase
  BY <1>1, <1>2 DEF SteerOrRun
<1>3. CASE Clients
  <2>1. ASSUME NEW i \in Inputs, Prompt(i) \/ Steer(i) \/ DeliverTaskNotification(i)
        PROVE  LeftOpen'
    BY <1>1, <1>2, <2>1 DEF Prompt, Steer, DeliverTaskNotification
  <2>2. ASSUME NEW t \in Inputs, NEW i \in Inputs, StopHookContinues(t, i) PROVE LeftOpen'
    BY <1>2, <2>2 DEF StopHookContinues
  <2>3. CASE Dispose
    BY <2>3 DEF Dispose
  <2>4. ASSUME NEW target, CancelSession(target) PROVE LeftOpen'
    BY <2>4 DEF CancelSession, AbortApproval
  <2> QED BY <1>3, <2>1, <2>2, <2>3, <2>4 DEF Clients, StopHookSilent, CancelQueued,
                                              AnswerApproval, runVars
<1>4. CASE Runner
  <2>1. CASE CreateSession \/ LaunchFails
    BY <2>1 DEF CreateSession, LaunchFails
  <2>2. CASE TurnOver
    BY <2>2 DEF TurnOver, DropQueue
  <2> QED BY <1>4, <2>1, <2>2 DEF Runner, SteerAccepted, AskApproval, EngineReturns, runVars
<1> QED BY <1>3, <1>4 DEF Next, HandleEngineEvent, EngineStep, vars, runVars

\* Disposal leaves at most one session open, that of the turn it found between
\* its start and its session: neither queued turns nor steers open another.
THEOREM OneSessionLeft == Spec => []OneLeftOpen
<1>1. Init => LeftOpen
  BY DEF Init, LeftOpen
<1>2. LeftOpen => OneLeftOpen
  BY DEF LeftOpen, OneLeftOpen
<1> QED BY <1>1, <1>2, LeftOpenKept, PTL DEF Spec

\* An engine that was told to cancel asks for nothing new, except that the
\* compaction it may be in still gets its step: run_loop's boundary looks at the
\* signal before a step and before the compaction, a failed step and a batch
\* look at it before they compact or pause, and nobody looks in between.
THEOREM CancelledSessionsStop == Spec => CancelledSessionStops
<1> DEFINE Asks == engine' # engine /\ engine' \in {"compacting", "step", "recovering", "paused"}
<1>1. ASSUME [Next]_vars
      PROVE  [cancelFlag /\ cancelFlag' /\ Asks => engine = "compacting"]_vars
  <2> SUFFICES ASSUME cancelFlag, cancelFlag', Asks, Next PROVE engine = "compacting"
    BY <1>1
  <2>1. CASE Clients
    BY <2>1 DEF Clients, Prompt, Steer, DeliverTaskNotification, StopHookContinues, StopHookSilent,
                CancelSession, CancelQueued, Dispose, AbortApproval, AnswerApproval, engineVars
  <2>2. CASE Runner
    BY <2>2 DEF Runner, SteerAccepted, CreateSession, LaunchFails, AskApproval, EngineReturns,
                TurnOver, engineVars
  <2>3. CASE EngineStep
    BY <2>3 DEF EngineStep, BeginStep, Compacted, CompleteStep, MarkFinished, StepFails, Recovered,
                Interrupted, CallTools, ExecuteBatch, StopResumed, Resume, Finish
  <2>4. CASE HandleEngineEvent
    BY <2>4 DEF HandleEngineEvent, engineVars
  <2> QED BY <2>1, <2>2, <2>3, <2>4 DEF Next
<1> QED BY <1>1, PTL DEF Spec, CancelledSessionStops

\* The messages that launched a turn.
Launched == {i \in ToSet(context) : fate[i] # "steered"}

CountOK == IsFiniteSet(Launched) /\ clock.next = Cardinality(Launched)

\* Fates other than "steered" do not matter for the count.
LEMMA SameLaunched ==
  ASSUME WorkTypes, UNCHANGED context,
         \A i \in Inputs : fate'[i] = "steered" <=> fate[i] = "steered"
  PROVE  Launched' = Launched
<1>1. ToSet(context) \subseteq Inputs
  BY DEF WorkTypes, ToSet
<1> QED BY <1>1 DEF Launched

\* A step launches a turn and counts it, or it does neither.
StepCounts ==
  \/ Launched' = Launched /\ clock'.next = clock.next
  \/ \E i \in Inputs : /\ i \notin Launched /\ Launched' = Launched \cup {i}
                       /\ clock'.next = clock.next + 1

\* runTurn launches one turn and moves the clock by one, unless disposed.
LEMMA RunTurnCounts ==
  ASSUME EngineInv, NEW i \in Inputs, fate[i] = "new", RunTurn(i)
  PROVE  StepCounts
<1>0. /\ WorkTypes /\ fate \in [Inputs -> Fates] /\ context \in Seq(Inputs)
      /\ i \notin ToSet(context) /\ IsInjective(context)
  BY DEF EngineInv, WorkInv, WorkTypes, RecordedOnce
<1>1. CASE disposed
  <2>1. fate' = [fate EXCEPT ![i] = "dropped"] /\ UNCHANGED <<clock, context>>
    BY <1>1 DEF RunTurn, queueVars
  <2>2. \A j \in Inputs : fate'[j] = "steered" <=> fate[j] = "steered"
    BY <1>0, <2>1
  <2> QED BY <1>0, <2>1, <2>2, SameLaunched DEF StepCounts
<1>2. CASE ~disposed
  <2>1. /\ clock' = ApplyPrompt(clock) /\ context' = context \o <<i>>
        /\ \E f \in {"queued", "running"} : fate' = [fate EXCEPT ![i] = f]
    BY <1>2 DEF RunTurn, Launch
  <2>2. ToSet(context') = ToSet(context) \cup {i}
    BY <1>0, <2>1, AppendFresh
  <2>3. fate'[i] # "steered" /\ \A j \in Inputs : j # i => fate'[j] = fate[j]
    BY <1>0, <2>1
  <2>4. ToSet(context) \subseteq Inputs
    BY <1>0 DEF ToSet
  <2>5. i \notin Launched /\ Launched' = Launched \cup {i}
    BY <1>0, <2>2, <2>3, <2>4 DEF Launched
  <2>6. clock'.next = clock.next + 1
    BY <1>0, <2>1, PromptAddsOne
  <2> QED BY <2>5, <2>6 DEF StepCounts
<1> QED BY <1>1, <1>2

LEMMA NextCounts ==
  ASSUME EngineInv, [Next]_vars
  PROVE  StepCounts
<1>0. /\ WorkTypes /\ fate \in [Inputs -> Fates] /\ context \in Seq(Inputs)
      /\ FatesOK /\ RecordedOnce
  BY DEF EngineInv, WorkInv, WorkTypes
<1>1. CASE UNCHANGED <<clock, context, fate>>
  BY <1>0, <1>1, SameLaunched DEF StepCounts
<1>2. ASSUME NEW i \in Inputs, fate[i] = "new", NEW mayAsk, SteerOrRun(i, mayAsk)
      PROVE  StepCounts
  BY <1>1, <1>2, RunTurnCounts DEF SteerOrRun, queueVars
<1>3. CASE Clients
  <2>1. ASSUME NEW i \in Inputs, Prompt(i) \/ Steer(i) \/ DeliverTaskNotification(i)
        PROVE  StepCounts
    BY <1>2, <2>1, RunTurnCounts DEF Prompt, Steer, DeliverTaskNotification
  <2>2. ASSUME NEW t \in Inputs, NEW i \in Inputs, StopHookContinues(t, i)
        PROVE  StepCounts
    BY <1>2, <2>2 DEF StopHookContinues
  <2>3. ASSUME NEW target, CancelQueued(target) PROVE StepCounts
    <3> DEFINE hit == {k \in DOMAIN queued : queued[k].id = target}
    <3>1. clock' = clock /\ UNCHANGED context
      BY <2>3, WorkCancel DEF EngineInv, CancelQueued
    <3>2. fate' = [i \in Inputs |-> IF \E k \in hit : queued[k].input = i
                                    THEN "cancelled" ELSE fate[i]]
      BY <2>3 DEF CancelQueued
    <3>3. \A k \in hit : fate[queued[k].input] # "steered"
      BY <1>0 DEF FatesOK
    <3> HIDE DEF hit
    <3>4. \A i \in Inputs : fate'[i] = "steered" <=> fate[i] = "steered"
      BY <3>2, <3>3
    <3> QED BY <1>0, <3>1, <3>4, SameLaunched DEF StepCounts
  <2> QED BY <1>1, <1>3, <2>1, <2>2, <2>3 DEF Clients, StopHookSilent, CancelSession, Dispose,
                                             AnswerApproval, queueVars
<1>4. CASE SteerAccepted
  <2>1. /\ calling \in Inputs /\ fate[calling] = "new" /\ UNCHANGED clock
        /\ context' = Append(context, calling) /\ fate' = [fate EXCEPT ![calling] = "steered"]
    BY <1>0, <1>4 DEF WorkTypes, FatesOK, SteerAccepted
  <2>2. ToSet(context') = ToSet(context) \cup {calling} /\ calling \notin ToSet(context)
    BY <1>0, <2>1, AppendFresh DEF RecordedOnce
  <2>3. ToSet(context) \subseteq Inputs
    BY <1>0 DEF ToSet
  <2>4. Launched' = Launched
    BY <1>0, <2>1, <2>2, <2>3 DEF Launched
  <2> QED BY <2>1, <2>4 DEF StepCounts
<1>5. CASE TurnOver
  <2>1. executing.input \in Inputs /\ fate[executing.input] = "running"
    BY <1>0, <1>5 DEF TurnOver, EngineInv, ControlOK, FatesOK, WorkTypes, Turn
  <2>2. \A k \in DOMAIN queued : fate[queued[k].input] # "steered" /\ queued[k].input \in Inputs
    BY <1>0, QueueEntry DEF FatesOK
  <2>3. \A i \in Waiting : fate[i] # "steered"
    BY <2>2 DEF Waiting
  <2>4. \A i \in Inputs : fate'[i] = "steered" <=> fate[i] = "steered"
    <3>1. CASE DropQueue
      BY <1>0, <2>1, <2>3, <3>1 DEF DropQueue
    <3>2. CASE fate' = [fate EXCEPT ![executing.input] = "over"]
      BY <1>0, <2>1, <3>2
    <3>3. ASSUME NEW k \in NextQueued(queued),
                 fate' = [fate EXCEPT ![executing.input] = "over", ![queued[k].input] = "running"]
          PROVE  \A i \in Inputs : fate'[i] = "steered" <=> fate[i] = "steered"
      <4>1. fate[queued[k].input] # "steered" /\ queued[k].input \in Inputs
        BY <2>2 DEF NextQueued
      <4> QED BY <1>0, <2>1, <3>3, <4>1
    <3> QED BY <1>5, <3>1, <3>2, <3>3 DEF TurnOver
  <2> QED BY <1>0, <1>5, <2>4, SameLaunched DEF TurnOver, StepCounts
<1>6. CASE HandleEngineEvent
  BY <1>1, <1>6, EventKeepsClock DEF HandleEngineEvent
<1>7. CASE Runner
  BY <1>1, <1>4, <1>5, <1>7 DEF Runner, CreateSession, LaunchFails, AskApproval, EngineReturns,
                                queueVars
<1> QED BY <1>1, <1>3, <1>6, <1>7 DEF Next, EngineStep, vars, queueVars

\* The clock is the number of turns launched: cancelled turns and the events
\* of running ones never move it.
THEOREM ClockIsTurnCount == Spec => []ClockCountsTurns
<1>1. Init => CountOK
  <2> SUFFICES ASSUME Init PROVE CountOK
    OBVIOUS
  <2>1. Launched = {} /\ clock.next = 0
    BY DEF Init, Launched, ToSet, InitialClock
  <2> QED BY <2>1, FS_EmptySet DEF CountOK
<1>2. ASSUME CountOK, EngineInv, [Next]_vars PROVE CountOK'
  <2>1. CASE Launched' = Launched /\ clock'.next = clock.next
    BY <1>2, <2>1 DEF CountOK
  <2>2. ASSUME NEW i \in Inputs, i \notin Launched, Launched' = Launched \cup {i},
               clock'.next = clock.next + 1
        PROVE  CountOK'
    BY <1>2, <2>2, FS_AddElement DEF CountOK
  <2> QED BY <1>2, <2>1, <2>2, NextCounts DEF StepCounts
<1>3. CountOK /\ EngineInv => ClockCountsTurns
  <2> SUFFICES ASSUME CountOK, EngineInv PROVE ClockCountsTurns
    OBVIOUS
  <2>1. clock = [next |-> clock.next, cancelled |-> clock.cancelled] /\ clock.cancelled = {}
    BY DEF EngineInv, WorkInv, WorkTypes, Clock
  <2> QED BY <2>1 DEF CountOK, ClockCountsTurns, Launched
<1> QED BY <1>1, <1>2, <1>3, EngineInvariant, PTL DEF Spec
=============================================================================
