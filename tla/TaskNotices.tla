----------------------------- MODULE TaskNotices ------------------------------
(***************************************************************************)
(* The background tasks of one agent and the notices that report their     *)
(* outcome to the model: AgentTaskService (agent/task/taskService.ts) with *)
(* the task documents it writes (agent/task/persist.ts), the journaled     *)
(* models it restores from (agent/task/taskOps.ts and the checkpointed     *)
(* delivery model, contextMemory/conversationTime.ts), the undo of the     *)
(* conversation (agent/undo/undoService.ts), and as much of the loop       *)
(* (loopService.ts, in detail in TurnLoop) as a notice goes through.       *)
(*                                                                         *)
(* Code between two awaits is one action.  A task's document is written    *)
(* through a queue of its own; the journal reaches the disk some time      *)
(* after a dispatch (Flush), and a crash leaves what was flushed and       *)
(* written.  There is one undo at a time and it waits for the restore pass *)
(* it starts, so there is one pass at a time.                              *)
(***************************************************************************)
EXTENDS Naturals, Sequences, FiniteSets, SequencesExt

CONSTANTS
  Tasks,        \* task ids
  Anchor,       \* a user message of the context: an undo anchor
  MaxAnchors,   \* bound: anchors in the context
  MaxUndos,     \* bound: undos
  MaxCrashes,   \* bound: crashes
  None          \* undefined

ASSUME TaskAssumption ==
  IsFiniteSet(Tasks) /\ MaxAnchors \in Nat /\ MaxUndos \in Nat /\ MaxCrashes \in Nat

VARIABLES
  entry,        \* tasks: the live tasks of this process
  stopping,     \* tasks whose terminateWithGrace is under way
  writes,       \* persistWriteQueue of a task
  doc,          \* the task's document on disk
  ghosts,       \* ghosts: the tasks of earlier processes
  lost,         \* lostTasks of the reconcile in progress
  wire,         \* the journaled models: TaskModel, context, delivery model
  flushed,      \* the models as the journal on disk restores them
  building,     \* buildingNotificationKeys
  scheduled,    \* scheduledNotificationKeys
  delivered,    \* deliveredNotificationKeys
  request,      \* the task's notifyAgentTask call and its step request
  pending,      \* the tasks of pendingNotificationRequests
  turn,         \* the loop has an active turn
  undo,         \* the undo in progress
  boot,         \* how far the restore of the agent is
  pass,         \* the restoreAgentTaskNotifications pass in progress
  undos, crashes,
  missed,       \* notices a reconcile did not see between two microtasks (history)
  early         \* tasks a pass reported before their settleTask was done (history)

taskVars == <<entry, stopping, writes, doc, ghosts, lost>>
keyVars == <<building, scheduled, delivered, request, pending>>
agentVars == <<turn, undo, boot, pass>>
countVars == <<undos, crashes, missed, early>>
vars == <<taskVars, wire, flushed, keyVars, agentVars, countVars>>

Outcomes == {"completed", "killed"}      \* killed stands for the outcomes of a stop
Terminal == Outcomes \cup {"lost"}
Info == [status : Terminal \cup {"running"}, detached : BOOLEAN, suppressed : BOOLEAN]
\* recorded: the journal has the task; stage: how far settleTask is.
Entry ==
  [status : Outcomes \cup {"running"}, detached : BOOLEAN, suppressed : BOOLEAN,
   recorded : BOOLEAN, stage : {"live", "persisting", "persisted", "fired"}]
Keys == Tasks \X Terminal
Wire ==
  [tasks : [Tasks -> Info \cup {None}], context : Seq(Keys \cup {Anchor}),
   delivered : SUBSET Keys, checkpoints : Seq(SUBSET Keys)]
Item == [task : Tasks, info : Info]
Pass == [todo : SUBSET Item, at : {"next", "building", "built"}, item : Item \cup {None}]
Requests == {"none", "building", "built", "held", "queued", "materialized", "aborted"}

\* An anchor is no notice, and undefined is neither of the objects it stands for.
ASSUME ValueAssumption ==
  Anchor \notin Keys /\ None \notin Entry \cup Info \cup Item \cup Pass

TypeOK ==
  /\ entry \in [Tasks -> Entry \cup {None}] /\ stopping \subseteq Tasks
  /\ writes \in [Tasks -> Seq([info : Info, settles : BOOLEAN])]
  /\ doc \in [Tasks -> Info \cup {None}] /\ ghosts \in [Tasks -> Info \cup {None}]
  /\ lost \subseteq Tasks
  /\ wire \in Wire /\ flushed \in Wire
  /\ building \subseteq Keys /\ scheduled \subseteq Keys /\ delivered \subseteq Keys
  /\ request \in [Tasks -> Requests] /\ pending \subseteq Tasks
  /\ turn \in BOOLEAN /\ undo \in {"none", "cut", "reconciled"}
  /\ boot \in {"load", "mark", "restore", "up"}
  /\ pass \in Pass \cup {None}
  /\ undos \in Nat /\ crashes \in Nat /\ missed \subseteq Tasks /\ early \subseteq Tasks

Init ==
  /\ entry = [t \in Tasks |-> None] /\ stopping = {}
  /\ writes = [t \in Tasks |-> <<>>]
  /\ doc = [t \in Tasks |-> None] /\ ghosts = [t \in Tasks |-> None] /\ lost = {}
  /\ wire = [tasks |-> [t \in Tasks |-> None], context |-> <<>>,
             delivered |-> {}, checkpoints |-> <<>>]
  /\ flushed = wire
  /\ building = {} /\ scheduled = {} /\ delivered = {}
  /\ request = [t \in Tasks |-> "none"] /\ pending = {}
  /\ turn = FALSE /\ undo = "none" /\ boot = "up" /\ pass = None
  /\ undos = 0 /\ crashes = 0 /\ missed = {} /\ early = {}

-----------------------------------------------------------------------------
(* Tasks *)

Live(t) == entry[t] # None
Running(t) == Live(t) /\ entry[t].status = "running"
Up == boot = "up"
Leased == undo # "none"

\* toInfo: a task as the journal, the document and a pass get to see it.
toInfo(e) == [status |-> e.status, detached |-> e.detached, suppressed |-> e.suppressed]

\* persistLive: the document of the task as it is now, behind the writes in progress.
Persist(t, e, settles) ==
  writes' = [writes EXCEPT ![t] = Append(@, [info |-> toInfo(e), settles |-> settles])]

\* recordTaskStarted, recordTaskTerminated
Recorded(w, t, info) == [w EXCEPT !.tasks[t] = info]

\* registerTask, track and prepareToolTask.  A detached task and a tool's task are recorded
\* and persisted at once, another foreground task only when it is detached.
Register(t, detached, recorded) ==
  LET e == [status |-> "running", detached |-> detached, suppressed |-> FALSE,
            recorded |-> recorded, stage |-> "live"]
  IN /\ Up /\ ~Live(t) /\ ghosts[t] = None
     /\ detached => recorded
     /\ entry' = [entry EXCEPT ![t] = e]
     /\ IF recorded
        THEN Persist(t, e, FALSE) /\ wire' = Recorded(wire, t, toInfo(e))
        ELSE UNCHANGED <<writes, wire>>
     /\ UNCHANGED <<stopping, doc, ghosts, lost, flushed, keyVars, agentVars, countVars>>

\* detachEntry and detachToolTask: the user, or the task's timeout, sends it to the background.
Detach(t) ==
  /\ Running(t) /\ ~entry[t].detached
  /\ LET e == [entry[t] EXCEPT !.detached = TRUE, !.recorded = TRUE]
     IN /\ entry' = [entry EXCEPT ![t] = e]
        /\ Persist(t, e, FALSE)
        /\ wire' = Recorded(wire, t, toInfo(e))
  /\ UNCHANGED <<stopping, doc, ghosts, lost, flushed, keyVars, agentVars, countVars>>

\* suppressTerminalNotification: its callers have just seen the task running.
Suppress(t) ==
  /\ Running(t) /\ ~entry[t].suppressed
  /\ LET e == [entry[t] EXCEPT !.suppressed = TRUE]
     IN entry' = [entry EXCEPT ![t] = e] /\ Persist(t, e, FALSE)
  /\ UNCHANGED <<stopping, doc, ghosts, lost, wire, flushed, keyVars, agentVars, countVars>>

\* stop, stopByUser, a timeout or an aborted foreground signal: terminateWithGrace aborts
\* the task and gives it some time to settle by itself.
Stop(t) ==
  /\ Running(t) /\ t \notin stopping
  /\ stopping' = stopping \cup {t}
  /\ UNCHANGED <<entry, writes, doc, ghosts, lost, wire, flushed, keyVars, agentVars, countVars>>

\* Mutant: a task that has settled settles again.
SettlesAgain(t) == Live(t)
\* settleTask is for the first outcome only.
Settles(t) == Running(t)

\* settleTask: the task's own outcome, or terminateWithGrace's once the grace is over.
\* A recorded task waits for its document before it tells anybody.
Settle(t, status) ==
  /\ Settles(t)
  /\ status = "killed" => t \in stopping
  /\ LET e == [entry[t] EXCEPT !.status = status,
                               !.stage = IF entry[t].recorded THEN "persisting" ELSE "fired"]
     IN /\ entry' = [entry EXCEPT ![t] = e]
        /\ IF e.recorded THEN Persist(t, e, TRUE) ELSE UNCHANGED writes
  /\ stopping' = stopping \ {t}
  /\ UNCHANGED <<doc, ghosts, lost, wire, flushed, keyVars, agentVars, countVars>>

\* writeTask ends; a failure is swallowed.
WriteEnds(t, ok) ==
  /\ writes[t] # <<>>
  /\ doc' = IF ok THEN [doc EXCEPT ![t] = Head(writes[t]).info] ELSE doc
  /\ writes' = [writes EXCEPT ![t] = Tail(@)]
  /\ entry' = IF Head(writes[t]).settles
              THEN [entry EXCEPT ![t].stage = "persisted"] ELSE entry
  /\ UNCHANGED <<stopping, ghosts, lost, wire, flushed, keyVars, agentVars, countVars>>

-----------------------------------------------------------------------------
(* Notices *)

Count(s, x) == Cardinality({i \in DOMAIN s : s[i] = x})

\* hasDeliveredNotification
InContext(k) == k \in ToSet(wire.context)

\* Mutant: a notice on its way is not looked at.
HandledUnlessScheduled(k) == k \in delivered \/ InContext(k)
\* The notice of k is on its way or in the conversation.
Handled(k) == k \in scheduled \/ k \in delivered \/ InContext(k)

\* buildAgentTaskNotificationContext, before its await
Builds(t, info) ==
  /\ info.detached /\ ~info.suppressed
  /\ <<t, info.status>> \notin building /\ ~Handled(<<t, info.status>>)

\* isTerminalNotificationSuppressed
Suppressed(t) ==
  (Live(t) /\ entry[t].suppressed) \/ (ghosts[t] # None /\ ghosts[t].suppressed)

\* context.append of notices, in the order of ks, with the reducer of the delivery model ...
Appended(w, ks) ==
  [w EXCEPT !.context = @ \o ks, !.delivered = @ \cup ToSet(ks)]

\* ... and markDeliveredNotification in the context.spliced listener.
Deliver(ks) ==
  /\ wire' = Appended(wire, ks)
  /\ scheduled' = scheduled \ ToSet(ks)
  /\ pending' = pending \ {k[1] : k \in ToSet(ks)}
  /\ delivered' = delivered \cup ToSet(ks)

Key(t) == <<t, entry[t].status>>
\* The requests of S in any order: in which one they were queued is not kept.
Orders(S) == {o \in [1..Cardinality(S) -> S] : ToSet(o) = S}

\* fireTerminalEffects: the notice of a detached task begins to be built, and the journal
\* gets the outcome.
FireTerminalEffects(t) ==
  /\ Live(t) /\ entry[t].stage = "persisted"
  /\ entry' = [entry EXCEPT ![t].stage = "fired"]
  /\ wire' = Recorded(wire, t, toInfo(entry[t]))
  /\ IF Builds(t, toInfo(entry[t]))
     THEN building' = building \cup {Key(t)} /\ request' = [request EXCEPT ![t] = "building"]
     ELSE UNCHANGED <<building, request>>
  /\ UNCHANGED <<stopping, writes, doc, ghosts, lost, flushed, scheduled, delivered, pending,
                 agentVars, countVars>>

\* The output snapshot is there: the checks are made again.
NoticeBuilt(t) ==
  /\ request[t] = "building"
  /\ building' = building \ {Key(t)}
  /\ IF Suppressed(t) \/ Handled(Key(t))
     THEN request' = [request EXCEPT ![t] = "none"] /\ UNCHANGED scheduled
     ELSE request' = [request EXCEPT ![t] = "built"] /\ scheduled' = scheduled \cup {Key(t)}
  /\ UNCHANGED <<taskVars, wire, flushed, delivered, pending, agentVars, countVars>>

\* notifyAgentTask resumes and enqueues the request: held by a lease, queued in the active
\* turn, or a turn of its own whose first step takes the message at once.
EnqueueNotice(t) ==
  /\ request[t] = "built"
  /\ IF Leased \/ turn
     THEN /\ request' = [request EXCEPT ![t] = IF Leased THEN "held" ELSE "queued"]
          /\ pending' = pending \cup {t}
          /\ UNCHANGED <<wire, scheduled, delivered, turn>>
     ELSE /\ Deliver(<<Key(t)>>)
          /\ request' = [request EXCEPT ![t] = "materialized"]
          /\ turn' = TRUE
  /\ UNCHANGED <<taskVars, flushed, building, undo, boot, pass, countVars>>

\* Mutant: the key stays scheduled.
ClearRequestOnly(t) == pending' = pending \ {t} /\ UNCHANGED scheduled
\* clearPendingNotification
ClearPending(t) ==
  /\ pending' = pending \ {t}
  /\ scheduled' = IF Key(t) \in delivered \/ InContext(Key(t))
                  THEN scheduled ELSE scheduled \ {Key(t)}

\* The step of an aborted request has resolved, and notifyAgentTask's callback runs.
NoticeAborted(t) ==
  /\ request[t] = "aborted" /\ t \in pending
  /\ ClearPending(t)
  /\ UNCHANGED <<taskVars, wire, flushed, building, delivered, request, agentVars, countVars>>

-----------------------------------------------------------------------------
(* The conversation: turns, compaction, undo *)

Idle == Up /\ ~turn /\ ~Leased
Queued == {t \in Tasks : request[t] = "queued"}

\* A prompt starts a turn; its message is an anchor, where the delivery model takes a checkpoint.
Prompt ==
  /\ Idle /\ Len(wire.checkpoints) < MaxAnchors
  /\ turn' = TRUE
  /\ wire' = [wire EXCEPT !.context = Append(@, Anchor),
                          !.checkpoints = Append(@, wire.delivered)]
  /\ UNCHANGED <<taskVars, flushed, keyVars, undo, boot, pass, countVars>>

\* The next step of the turn takes the waiting notices in one batch.
NextStep ==
  /\ turn /\ Queued # {}
  /\ \E o \in Orders(Queued) : Deliver([i \in DOMAIN o |-> Key(o[i])])
  /\ request' = [t \in Tasks |-> IF t \in Queued THEN "materialized" ELSE request[t]]
  /\ UNCHANGED <<taskVars, flushed, building, agentVars, countVars>>

\* The turn ends; releaseActiveTurn cancels the steps still queued.
EndTurn ==
  /\ turn /\ turn' = FALSE
  /\ request' = [t \in Tasks |-> IF t \in Queued THEN "aborted" ELSE request[t]]
  /\ UNCHANGED <<taskVars, wire, flushed, building, scheduled, delivered, pending,
                 undo, boot, pass, countVars>>

\* context.apply_compaction and context.clear: what the notices said is gone, that they
\* were delivered is not, and no undo goes behind it.
Compact ==
  /\ Up /\ ~Leased /\ wire.context # <<>>
  /\ wire' = [wire EXCEPT !.context = <<>>, !.checkpoints = <<>>]
  /\ UNCHANGED <<taskVars, flushed, keyVars, agentVars, countVars>>

\* computeUndoCut: at is the m-th anchor.
IsCut(at, m) == wire.context[at] = Anchor /\ Count(SubSeq(wire.context, 1, at), Anchor) = m

\* context.undo: everything from the m-th anchor on.
Cut(w, at, m) ==
  [w EXCEPT !.context = SubSeq(@, 1, at - 1), !.delivered = w.checkpoints[m],
            !.checkpoints = SubSeq(@, 1, m - 1)]

\* undoNow of n turns up to the flush of the cut: the loop is idle and stays leased until
\* the end.
BeginUndo(n) ==
  /\ Idle /\ undos < MaxUndos
  /\ undo' = "cut" /\ undos' = undos + 1
  /\ LET m == Len(wire.checkpoints) + 1 - n
     IN \E at \in 1..Len(wire.context) : IsCut(at, m) /\ wire' = Cut(wire, at, m)
  /\ UNCHANGED <<taskVars, flushed, keyVars, turn, boot, pass, crashes, missed, early>>

\* list(false): the finished background tasks a pass goes through.
Listed(gs) ==
  {i \in [task : Tasks, info : {toInfo(entry[t]) : t \in {u \in Tasks : Live(u)}}
                                 \cup {gs[t] : t \in {u \in Tasks : gs[u] # None}}] :
     /\ i.info = IF Live(i.task) THEN toInfo(entry[i.task]) ELSE gs[i.task]
     /\ i.info.status \in Terminal /\ i.info.detached}

NewPass(gs) == [todo |-> Listed(gs), at |-> "next", item |-> None]

\* Mutant: the keys in memory are left as they were.
ForgetsUndo == delivered
\* The delivered keys after an undo are the ones the journal is left with.
DeliveredAfterUndo == wire.delivered

\* reconcileNotificationDeliveryAfterUndo up to the start of its pass.
Reconcile ==
  LET waiting == {t \in pending : request[t] # "aborted"}
      cleared == {t \in pending : request[t] = "aborted" /\ Key(t) \notin delivered
                                    /\ ~InContext(Key(t))}
  IN /\ undo = "cut" /\ undo' = "reconciled"
     /\ pending' = waiting
     /\ delivered' = DeliveredAfterUndo
     /\ scheduled' = {k \in scheduled \ {Key(t) : t \in cleared} :
                        k \notin wire.delivered /\ k[1] \in waiting}
     /\ missed' = missed \cup {t \in Tasks : request[t] = "built"}
     /\ pass' = NewPass(ghosts)
     /\ UNCHANGED <<taskVars, wire, flushed, building, request, turn, boot, undos, crashes, early>>

-----------------------------------------------------------------------------
(* A pass of restoreAgentTaskNotificationsNow, one task at a time *)

ItemKey(i) == <<i.task, i.info.status>>

PassNext(i) ==
  /\ pass # None /\ pass.at = "next" /\ i \in pass.todo
  /\ LET left == [pass EXCEPT !.todo = @ \ {i}]
     IN IF Builds(i.task, i.info)
        THEN /\ building' = building \cup {ItemKey(i)}
             /\ pass' = [left EXCEPT !.at = "building", !.item = i]
        ELSE pass' = left /\ UNCHANGED building
  /\ UNCHANGED <<taskVars, wire, flushed, scheduled, delivered, request, pending,
                 turn, undo, boot, countVars>>

PassBuilt ==
  /\ pass # None /\ pass.at = "building"
  /\ LET k == ItemKey(pass.item)
     IN /\ building' = building \ {k}
        /\ IF Suppressed(pass.item.task) \/ Handled(k)
           THEN pass' = [pass EXCEPT !.at = "next", !.item = None] /\ UNCHANGED scheduled
           ELSE pass' = [pass EXCEPT !.at = "built"] /\ scheduled' = scheduled \cup {k}
  /\ UNCHANGED <<taskVars, wire, flushed, delivered, request, pending,
                 turn, undo, boot, countVars>>

\* restoreAgentTaskNotification resumes: the notice goes straight into the context.
PassAppends ==
  /\ pass # None /\ pass.at = "built"
  /\ Deliver(<<ItemKey(pass.item)>>)
  /\ pass' = [pass EXCEPT !.at = "next", !.item = None]
  /\ early' = early \cup {t \in {pass.item.task} : Live(t) /\ entry[t].stage # "fired"}
  /\ UNCHANGED <<taskVars, flushed, building, request, turn, undo, boot, undos, crashes, missed>>

\* The pass is over and what waited for it goes on: the agent is up, or the undo gives its
\* lease back.  The first held notice then starts a turn and the others queue in it.
PassEnds ==
  LET held == {t \in Tasks : request[t] = "held"}
  IN /\ pass # None /\ pass.at = "next" /\ pass.todo = {}
     /\ pass' = None /\ boot' = "up" /\ undo' = "none"
     /\ IF held = {}
        THEN UNCHANGED <<wire, scheduled, delivered, request, pending, turn>>
        ELSE \E t \in held :
               /\ Deliver(<<Key(t)>>)
               /\ turn' = TRUE
               /\ request' = [u \in Tasks |-> IF u = t THEN "materialized"
                                              ELSE IF u \in held THEN "queued" ELSE request[u]]
     /\ UNCHANGED <<taskVars, flushed, building, countVars>>

-----------------------------------------------------------------------------
(* Crash and restart *)

Flush ==
  /\ flushed # wire /\ flushed' = wire
  /\ UNCHANGED <<taskVars, wire, keyVars, agentVars, countVars>>

Crash ==
  /\ crashes < MaxCrashes /\ crashes' = crashes + 1
  /\ entry' = [t \in Tasks |-> None] /\ stopping' = {} /\ writes' = [t \in Tasks |-> <<>>]
  /\ ghosts' = [t \in Tasks |-> None] /\ lost' = {}
  /\ wire' = flushed
  /\ building' = {} /\ scheduled' = {} /\ delivered' = {}
  /\ request' = [t \in Tasks |-> "none"] /\ pending' = {}
  /\ turn' = FALSE /\ undo' = "none" /\ boot' = "load" /\ pass' = None
  /\ UNCHANGED <<doc, flushed, undos, missed, early>>

\* Mutant: the journal's task wins when neither has ended.
JournalUnlessEnded(journaled, loaded) ==
  IF loaded.status \in Terminal /\ journaled.status = "running" THEN loaded ELSE journaled
\* newerRestoredTask.  Two ended tasks have ended at the same time (OneOutcome).
NewerRestoredTask(journaled, loaded) ==
  IF journaled.status \in Terminal /\ loaded.status = "running" THEN journaled ELSE loaded

\* restoreGhostsFromWire and loadFromDisk, with the keys of the delivery model.
Load ==
  /\ boot = "load" /\ boot' = "mark"
  /\ delivered' = wire.delivered
  /\ ghosts' = [t \in Tasks |-> IF wire.tasks[t] = None THEN doc[t]
                                ELSE IF doc[t] = None THEN wire.tasks[t]
                                ELSE NewerRestoredTask(wire.tasks[t], doc[t])]
  /\ UNCHANGED <<entry, stopping, writes, doc, lost, wire, flushed, building, scheduled,
                 request, pending, turn, undo, pass, countVars>>

\* markLoadedTasksLost, one task: a failing write fails the restore, which is a crash here.
MarkLost(t) ==
  /\ boot = "mark" /\ ghosts[t] # None /\ ghosts[t].status = "running"
  /\ ghosts' = [ghosts EXCEPT ![t].status = "lost"]
  /\ doc' = [doc EXCEPT ![t] = ghosts'[t]]
  /\ lost' = lost \cup {t}
  /\ UNCHANGED <<entry, stopping, writes, wire, flushed, keyVars, agentVars, countVars>>

\* The rest of reconcile up to its pass.
RecordLost ==
  /\ boot = "mark" /\ boot' = "restore"
  /\ \A t \in Tasks : ghosts[t] # None => ghosts[t].status # "running"
  /\ wire' = [wire EXCEPT !.tasks = [t \in Tasks |-> IF t \in lost THEN ghosts[t] ELSE @[t]]]
  /\ lost' = {}
  /\ pass' = NewPass(ghosts)
  /\ UNCHANGED <<entry, stopping, writes, doc, ghosts, flushed, keyVars, turn, undo, countVars>>

-----------------------------------------------------------------------------
TaskStep(t) ==
  \/ \E ok \in BOOLEAN : WriteEnds(t, ok)
  \/ FireTerminalEffects(t)
  \/ NoticeBuilt(t) \/ EnqueueNotice(t) \/ NoticeAborted(t)
  \/ MarkLost(t)
PassStep == (\E i \in Item : PassNext(i)) \/ PassBuilt \/ PassAppends \/ PassEnds

Next ==
  \/ \E t \in Tasks :
       \/ \E detached, recorded \in BOOLEAN : Register(t, detached, recorded)
       \/ Detach(t) \/ Suppress(t) \/ Stop(t)
       \/ \E status \in Outcomes : Settle(t, status)
       \/ \E ok \in BOOLEAN : WriteEnds(t, ok)
       \/ FireTerminalEffects(t)
       \/ NoticeBuilt(t) \/ EnqueueNotice(t) \/ NoticeAborted(t)
       \/ MarkLost(t)
  \/ Prompt \/ NextStep \/ EndTurn \/ Compact
  \/ \E n \in 1..Len(wire.checkpoints) : BeginUndo(n)
  \/ Reconcile
  \/ \E i \in Item : PassNext(i)
  \/ PassBuilt \/ PassAppends \/ PassEnds
  \/ Flush \/ Crash \/ Load \/ RecordLost

Spec == Init /\ [][Next]_vars

\* Promises and writes get done, a turn goes on to its next step, a restore and an undo go on.
FairSpec ==
  /\ Spec
  /\ \A t \in Tasks : WF_vars(TaskStep(t))
  /\ WF_vars(NextStep)
  /\ WF_vars(Reconcile) /\ WF_vars(PassStep)
  /\ WF_vars(Load) /\ WF_vars(RecordLost)

-----------------------------------------------------------------------------
\* The step puts the notice k into the conversation (a crash goes back to an older one).
Enters(k) == crashes' = crashes /\ Count(wire'.context, k) > Count(wire.context, k)

\* A notice enters the conversation only if the conversation has not got it, and it is not
\* entered by two of the ways it has: a notification request, the pass of an undo, the pass
\* of a restart.  Left out are the notices a reconcile overlooks between two microtasks.
NeverTwice ==
  [][\A k \in Keys : Enters(k) /\ k \in wire.delivered => k[1] \in missed]_vars

\* Whatever crashes, fails or is undone, a task has one outcome: the journal, the document
\* and the notices never disagree about how it ended.  Left out are the tasks an undo's pass
\* reports while settleTask still waits for the document.
OneOutcome ==
  \A t \in Tasks \ early :
    /\ \A k, l \in wire.delivered : k[1] = t /\ l[1] = t => k = l
    /\ wire.tasks[t] # None /\ doc[t] # None
         /\ wire.tasks[t].status \in Terminal /\ doc[t].status \in Terminal
       => wire.tasks[t].status = doc[t].status
    /\ \A k \in wire.delivered : k[1] = t /\ wire.tasks[t] # None
         /\ wire.tasks[t].status \in Terminal => wire.tasks[t].status = k[2]

\* A task that is suppressed, now or by its document, is not reported any more: not after
\* it settles, not after a restart and not by the pass of an undo.  The document keeps the
\* suppression through the restart that declares the task lost.
Silenced ==
  [][\A t \in Tasks :
       /\ (Live(t) /\ entry[t].suppressed) \/ (doc[t] # None /\ doc[t].suppressed)
          => \A s \in Terminal : ~Enters(<<t, s>>)
       /\ doc[t] # None /\ doc[t].suppressed => doc'[t].suppressed]_vars

\* A scheduled key has somebody who will deliver the notice or take the key back.
NoStuckNotice ==
  \A k \in scheduled :
    \/ request[k[1]] \in {"built", "held", "queued"}
    \/ request[k[1]] = "aborted" /\ k[1] \in pending
    \/ pass # None /\ pass.at = "built" /\ ItemKey(pass.item) = k

\* The outcome of t, if it is one the agent is to be told.
Owed(t) ==
  LET Owes(info) == info.status \in Terminal /\ info.detached /\ ~info.suppressed
  IN \/ Live(t) /\ Owes(toInfo(entry[t]))
     \/ ghosts[t] # None /\ Owes(ghosts[t])

Reported(t) == \E k \in wire.delivered : k[1] = t

\* In the end every finished background task is reported, unless the turn its notice waited
\* in was cut off.
NoticesArrive ==
  \A t \in Tasks : <>[](Owed(t) => Reported(t) \/ request[t] = "aborted")

\* "completion arrives via automatic notification"
CompletionArrives == \A t \in Tasks : <>[](Owed(t) => Reported(t))
=============================================================================
