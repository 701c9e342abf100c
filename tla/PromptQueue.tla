----------------------------- MODULE PromptQueue ------------------------------
(***************************************************************************)
(* The prompt scheduler of one agent: AgentPromptService                   *)
(* (agent/prompt/promptService.ts), with the parts of its surroundings its *)
(* control depends on: the turns of the loop (loopService.ts, in detail in *)
(* TurnLoop) and the life of a compaction                                  *)
(* (fullCompaction/fullCompactionService.ts).                              *)
(*                                                                         *)
(* Code between two awaits is one action.  startNext is at one of          *)
(*    "hook"     blockedByHook, with the item it has taken;                *)
(*    "held"     the loop holds the admission while a lease is out;        *)
(*    "assigned" the turn exists, startNext has not resumed yet.           *)
(* A steer call waits between its enqueue and the assignment.  A turn that *)
(* ends resolves its result, and settle runs some time later.              *)
(***************************************************************************)
EXTENDS Naturals, Sequences, SequencesExt, FiniteSets

CONSTANTS
  Prompts,        \* prompt records
  System,         \* a turn that is not a prompt's: injections, retries, notifications
  MaxSystem,      \* bound: system turns waiting or running
  MaxUnwinding,   \* bound: cancelled compactions whose workers have not returned
  None            \* undefined

ASSUME PromptAssumption ==
  /\ System \notin Prompts /\ None \notin Prompts \cup {System}
  /\ None \notin {"completed", "failed", "cancelled"}
  /\ None \notin [item : Prompts, at : {"hook", "held", "assigned"}]
  /\ MaxSystem \in Nat /\ MaxUnwinding \in Nat

VARIABLES
  state,        \* record.state, "new" before createPending
  pending,      \* pending
  active,       \* active
  launching,    \* the launching flag
  launch,       \* the startNext in progress: its item and where it is
  steered,      \* steered: the children of a prompt
  steering,     \* steer calls waiting for their assignment
  orphaned,     \* prompts whose steer was refused or outlived the active prompt (history)
  exhausted,    \* startNext has called itself until the stack ran out
  running,      \* the loop's active turn
  turns,        \* the loop's pending turns
  results,      \* turn results not delivered to settle yet
  leased,       \* the loop is held quiescent
  compacting,   \* fullCompaction.compacting is not null
  unwinding     \* cancelled compactions whose worker has not returned

queueVars == <<state, pending, active, launching, launch, steered, steering, orphaned, exhausted>>
loopVars == <<running, turns, results, leased>>
compactionVars == <<compacting, unwinding>>
vars == <<queueVars, loopVars, compactionVars>>

Final == {"completed", "failed", "cancelled"}
States == {"new", "pending", "running", "steered", "blocked"} \cup Final
Turns == Prompts \cup {System}
Launch == [item : Prompts, at : {"hook", "held", "assigned"}]

TypeOK ==
  /\ state \in [Prompts -> States]
  /\ pending \in Seq(Prompts)
  /\ active \in Prompts \cup {None}
  /\ launching \in BOOLEAN
  /\ launch \in Launch \cup {None}
  /\ steered \in [Prompts -> SUBSET Prompts]
  /\ steering \subseteq [prompts : SUBSET Prompts, into : Turns \cup {None}]
  /\ orphaned \subseteq Prompts
  /\ exhausted \in BOOLEAN
  /\ running \in Turns \cup {None}
  /\ turns \in Seq(Turns)
  /\ results \in [Prompts -> Final \cup {None}]
  /\ leased \in BOOLEAN
  /\ compacting \in BOOLEAN /\ unwinding \in Nat

Init ==
  /\ state = [p \in Prompts |-> "new"]
  /\ pending = <<>> /\ active = None /\ launching = FALSE /\ launch = None
  /\ steered = [p \in Prompts |-> {}]
  /\ steering = {} /\ orphaned = {} /\ exhausted = FALSE
  /\ running = None /\ turns = <<>> /\ results = [p \in Prompts |-> None]
  /\ leased = FALSE
  /\ compacting = FALSE /\ unwinding = 0

-----------------------------------------------------------------------------
(* startNext *)

\* A compaction (c) runs and no turn does.
Blocked(c) == c /\ running = None

\* startNext() with the fields as the caller leaves them.  While a compaction blocks it
\* puts the item back, and its finally block calls startNext again with everything as it
\* was and no await in between: the stack runs out.  What the process does then depends
\* on the frame it happens in and is not modelled.
StartNext(queue, act, busy, blocked) ==
  IF act = None /\ ~busy /\ queue # <<>> /\ ~blocked
  THEN /\ pending' = Tail(queue) /\ launching' = TRUE
       /\ launch' = [item |-> Head(queue), at |-> "hook"]
       /\ UNCHANGED exhausted
  ELSE /\ pending' = queue /\ launching' = busy
       /\ launch' = IF busy THEN launch ELSE None
       /\ exhausted' = (exhausted \/ (act = None /\ ~busy /\ queue # <<>>))

\* Mutant: a launch in progress is not looked at.
StartWhileLaunching(queue) ==
  IF active # None \/ Blocked(compacting)
  THEN pending' = queue /\ UNCHANGED <<launching, launch, exhausted>>
  ELSE StartNext(queue, active, FALSE, FALSE)
\* startIfIdle: a prompt that finds the agent busy or compacting just waits.
StartIfIdle(queue) ==
  IF active # None \/ launching \/ Blocked(compacting)
  THEN pending' = queue /\ UNCHANGED <<launching, launch, exhausted>>
  ELSE StartNext(queue, active, launching, FALSE)

\* Mutant: a launch that has made no prompt active leaves the queue alone.
LaunchEndsIdle ==
  /\ launching' = FALSE /\ launch' = None
  /\ UNCHANGED <<pending, exhausted>>
\* The finally block of startNext for a launch that has made no prompt active.
LaunchEnds == StartNext(pending, active, FALSE, Blocked(compacting))

\* The submit hook blocks the prompt.
HookBlocks ==
  /\ launch # None /\ launch.at = "hook"
  /\ state' = [state EXCEPT ![launch.item] = "blocked"]
  /\ LaunchEnds
  /\ UNCHANGED <<active, steered, steering, orphaned, loopVars, compactionVars>>

\* The hook throws, or the loop refuses the request or drops it while it is held.
LaunchFails ==
  /\ launch # None /\ launch.at \in {"hook", "held"}
  /\ state' = [state EXCEPT ![launch.item] = "failed"]
  /\ LaunchEnds
  /\ UNCHANGED <<active, steered, steering, orphaned, loopVars, compactionVars>>

\* The loop's newTurn admission: the turn starts if nothing runs, and queues otherwise.
Admit(t) ==
  IF running = None THEN running' = t /\ UNCHANGED turns
                    ELSE turns' = Append(turns, t) /\ UNCHANGED running

\* The hook lets the prompt through: loop.enqueue.
HookPasses ==
  /\ launch # None /\ launch.at = "hook"
  /\ IF leased
     THEN launch' = [launch EXCEPT !.at = "held"] /\ UNCHANGED <<running, turns>>
     ELSE launch' = [launch EXCEPT !.at = "assigned"] /\ Admit(launch.item)
  /\ UNCHANGED <<state, pending, active, launching, steered, steering, orphaned, exhausted,
                 results, leased, compactionVars>>

\* startNext resumes with its turn.
LaunchActivates ==
  /\ launch # None /\ launch.at = "assigned"
  /\ state' = [state EXCEPT ![launch.item] = "running"]
  /\ active' = launch.item /\ launching' = FALSE /\ launch' = None
  /\ UNCHANGED <<pending, steered, steering, orphaned, exhausted, loopVars, compactionVars>>

\* Mutant: the children of a settled prompt stay in the map.
SettleAlone(p) ==
  /\ state' = [state EXCEPT ![p] = results[p]]
  /\ UNCHANGED steered
\* A prompt settles with its result, and its steers with it.
SettleWithChildren(p) ==
  /\ state' = [q \in Prompts |-> IF q = p \/ q \in steered[p] THEN results[p] ELSE state[q]]
  /\ steered' = [steered EXCEPT ![p] = {}]

\* turn.result has resolved.
Delivered(p) == results[p] # None

\* Mutant: steer awaits something more before it files its prompts.
SteersLate(p) == TRUE
\* A steer assigned to the turn of p has resumed: nothing but that assignment is between
\* its enqueue and its filing, and it was queued before the turn ended.
SteersFirst(p) == \A call \in steering : call.into # p

\* settle: the continuation of turn.result.
Settle(p) ==
  /\ Delivered(p) /\ active = p /\ SteersFirst(p)
  /\ SettleWithChildren(p)
  /\ active' = None
  /\ results' = [results EXCEPT ![p] = None]
  /\ StartNext(pending, None, launching, Blocked(compacting))
  /\ UNCHANGED <<steering, orphaned, running, turns, leased, compactionVars>>

-----------------------------------------------------------------------------
(* Calls of the clients *)

Enqueue(p) ==
  /\ state[p] = "new"
  /\ state' = [state EXCEPT ![p] = "pending"]
  /\ StartIfIdle(Append(pending, p))
  /\ UNCHANGED <<active, steered, steering, orphaned, loopVars, compactionVars>>

\* The loop's activeTurnOnly admission: into the running turn, or refused.
CallSteer(S) == [prompts |-> S, into |-> running]

\* The sequence s without the members of S (SelectSeq, in a form that can be proved about).
Without(s, S) ==
  LET kept == {i \in DOMAIN s : s[i] \notin S}
      Place(i) == Cardinality({j \in kept : j <= i})
  IN [k \in 1..Cardinality(kept) |-> s[CHOOSE i \in kept : Place(i) = k]]

\* steer: the selected prompts leave the queue before the loop is asked.
Steer(S) ==
  /\ active # None /\ S # {} /\ S \subseteq ToSet(pending)
  /\ pending' = Without(pending, S)
  /\ steering' = steering \cup {CallSteer(S)}
  /\ UNCHANGED <<state, active, launching, launch, steered, orphaned, exhausted, loopVars,
                 compactionVars>>

\* enqueueOrSteer
EnqueueOrSteer(p) ==
  /\ state[p] = "new" /\ active # None
  /\ state' = [state EXCEPT ![p] = "pending"]
  /\ steering' = steering \cup {CallSteer({p})}
  /\ UNCHANGED <<pending, active, launching, launch, steered, orphaned, exhausted, loopVars,
                 compactionVars>>

\* The steers are filed under the prompt that is active now.
File(S) == [steered EXCEPT ![active] = @ \cup S]

\* steer resumes.  A refused steer throws, and so does one that finds no active prompt:
\* in both cases its prompts are in no queue any more.
SteerResumes(call) ==
  /\ steering' = steering \ {call}
  /\ state' = [p \in Prompts |-> IF p \in call.prompts /\ call.into # None
                               THEN "steered" ELSE state[p]]
  /\ IF call.into # None /\ active # None
     THEN steered' = File(call.prompts) /\ UNCHANGED orphaned
     ELSE orphaned' = orphaned \cup call.prompts /\ UNCHANGED steered
  /\ UNCHANGED <<pending, active, launching, launch, exhausted, loopVars, compactionVars>>

\* abort of a pending prompt.
AbortPending(p) ==
  /\ \E i \in DOMAIN pending : pending[i] = p /\ pending' = RemoveAt(pending, i)
  /\ state' = [state EXCEPT ![p] = "cancelled"]
  /\ UNCHANGED <<active, launching, launch, steered, steering, orphaned, exhausted, loopVars,
                 compactionVars>>

\* loop.cancel of the active prompt's turn while it is queued.  A running turn is only
\* told to stop: EndTurn ends it.
CancelTurn ==
  IF active # None /\ active \in ToSet(turns)
  THEN /\ \E i \in DOMAIN turns : turns[i] = active /\ turns' = RemoveAt(turns, i)
       /\ results' = [results EXCEPT ![active] = "cancelled"]
  ELSE UNCHANGED <<turns, results>>

\* abort of the active prompt.
AbortActive ==
  /\ active # None
  /\ CancelTurn
  /\ UNCHANGED <<queueVars, running, leased, compactionVars>>

\* clear: every pending prompt, then the active one.
Clear ==
  /\ state' = [p \in Prompts |-> IF p \in ToSet(pending) THEN "cancelled" ELSE state[p]]
  /\ pending' = <<>>
  /\ CancelTurn
  /\ UNCHANGED <<active, launching, launch, steered, steering, orphaned, exhausted, running,
                 leased, compactionVars>>

-----------------------------------------------------------------------------
(* The loop *)

SystemTurns == Len(SelectSeq(turns, LAMBDA t : t = System)) + (IF running = System THEN 1 ELSE 0)

\* inject, retry, and the other senders of the loop.
StartSystemTurn ==
  /\ ~leased /\ SystemTurns < MaxSystem
  /\ Admit(System)
  /\ UNCHANGED <<queueVars, results, leased, compactionVars>>

\* The running turn ends and resolves its result, and the next one starts.
EndTurn ==
  /\ running # None
  /\ IF running = System THEN UNCHANGED results
     ELSE \E r \in Final : results' = [results EXCEPT ![running] = r]
  /\ running' = IF turns = <<>> THEN None ELSE Head(turns)
  /\ turns' = IF turns = <<>> THEN turns ELSE Tail(turns)
  /\ UNCHANGED <<queueVars, leased, compactionVars>>

\* tryAcquireQuiescence and the release of the lease, which admits the held launch.
AcquireLease ==
  /\ ~leased /\ running = None /\ turns = <<>>
  /\ leased' = TRUE
  /\ UNCHANGED <<queueVars, running, turns, results, compactionVars>>

ReleaseLease ==
  /\ leased /\ leased' = FALSE
  /\ IF launch # None /\ launch.at = "held"
     THEN Admit(launch.item) /\ launch' = [launch EXCEPT !.at = "assigned"]
     ELSE UNCHANGED <<running, turns, launch>>
  /\ UNCHANGED <<state, pending, active, launching, steered, steering, orphaned, exhausted,
                 results, compactionVars>>

-----------------------------------------------------------------------------
(* Compaction *)

\* begin: an automatic compaction in a turn, a manual one while the loop is idle.  It
\* runs in the background and may outlive the turn.
BeginCompaction ==
  /\ ~compacting /\ compacting' = TRUE
  /\ UNCHANGED <<queueVars, loopVars, unwinding>>

\* Mutant: the event has no listener.
FinishUnheard(c) == UNCHANGED <<pending, launching, launch, exhausted>>
\* onDidFinishCompaction: the prompt service looks at its queue.
DidFinishCompaction(c) == StartNext(pending, active, launching, Blocked(c))

\* The worker completes or fails: the task is cleared and the event fired in one go.
FinishCompaction ==
  /\ compacting /\ compacting' = FALSE
  /\ DidFinishCompaction(FALSE)
  /\ UNCHANGED <<state, active, steered, steering, orphaned, loopVars, unwinding>>

\* cancelActive on an abort: the task is cleared at once, its worker returns later.
CancelCompaction ==
  /\ compacting /\ unwinding < MaxUnwinding
  /\ compacting' = FALSE /\ unwinding' = unwinding + 1
  /\ UNCHANGED <<queueVars, loopVars>>

WorkerReturns ==
  /\ unwinding > 0 /\ unwinding' = unwinding - 1
  /\ DidFinishCompaction(compacting)
  /\ UNCHANGED <<state, active, steered, steering, orphaned, loopVars, compacting>>

-----------------------------------------------------------------------------
Continue ==
  \/ HookBlocks \/ LaunchFails \/ HookPasses \/ LaunchActivates

Calls ==
  \/ \E p \in Prompts : Enqueue(p) \/ EnqueueOrSteer(p) \/ AbortPending(p)
  \/ \E S \in SUBSET Prompts : Steer(S)
  \/ AbortActive \/ Clear
  \/ StartSystemTurn \/ AcquireLease
  \/ BeginCompaction \/ CancelCompaction

Next ==
  /\ ~exhausted
  /\ \/ Calls
     \/ Continue
     \/ \E p \in Prompts : Settle(p)
     \/ \E call \in steering : SteerResumes(call)
     \/ EndTurn \/ ReleaseLease
     \/ FinishCompaction \/ WorkerReturns

Spec == Init /\ [][Next]_vars

\* Hooks, turns, leases and compactions end, and the event loop runs every continuation.
Fairness ==
  /\ WF_vars(~exhausted /\ Continue)
  /\ \A p \in Prompts : WF_vars(~exhausted /\ Settle(p))
  /\ WF_vars(~exhausted /\ \E call \in steering : SteerResumes(call))
  /\ WF_vars(~exhausted /\ EndTurn)
  /\ WF_vars(~exhausted /\ ReleaseLease)
  /\ WF_vars(~exhausted /\ FinishCompaction)
  /\ WF_vars(~exhausted /\ WorkerReturns)

FairSpec == Spec /\ Fairness

-----------------------------------------------------------------------------
(* Properties *)

\* "Serializes user prompts through an active slot" (promptService.ts): the loop never
\* has the turns of two prompts, running or queued, although results are delivered late
\* and launches wait for hooks and leases.
OnePromptTurn ==
  \A p, q \in Prompts :
    /\ {p, q} \subseteq ToSet(turns) \cup {running} => p = q
    /\ p \in ToSet(turns) => running # p

\* A prompt that waits has something that will start it: a launch in progress, an active
\* prompt that will settle, or a compaction whose end is reported.
NoIdleQueue ==
  pending # <<>> =>
    launching \/ active # None \/ compacting \/ unwinding > 0 \/ exhausted

\* "Settles lifecycle handles" (promptService.ts): a prompt that is not settled is in the
\* queue, in a launch, active, steered into the active prompt or being steered; the
\* steers that are refused or come too late are the exception.
NoPromptForgotten ==
  \A p \in Prompts :
    state[p] \in {"pending", "running", "steered"} =>
      \/ p \in ToSet(pending) \cup orphaned
      \/ launch # None /\ launch.item = p
      \/ active = p
      \/ active # None /\ p \in steered[active]
      \/ \E call \in steering : p \in call.prompts

\* steer reads this.active again after its await: if the turn of a prompt took the steer,
\* that prompt is still the active one, and the steered prompts settle with it.  A steer
\* taken by a turn of another kind has no such guarantee.
SteerFindsItsPrompt ==
  \A call \in steering : call.into \in Prompts => active = call.into

\* Every accepted prompt is settled in the end, whatever hooks, turns, steers, leases and
\* compactions do, with the same exception.
PromptsGetOver ==
  \A p \in Prompts :
    state[p] = "pending" ~>
      state[p] \in Final \cup {"blocked"} \/ p \in orphaned \/ exhausted

\* "Defers a prompt submitted mid-compaction and replays it after completion"
\* (fullCompaction.test.ts): a queue that meets a compaction waits for its end.
DefersDuringCompaction == ~exhausted
=============================================================================
