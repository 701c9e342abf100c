-------------------------- MODULE TaskNoticesProofs ---------------------------
(***************************************************************************)
(* The safety properties of the background tasks and their notices, for    *)
(* any number of tasks, anchors, undos and crashes.                        *)
(*                                                                         *)
(* NoticeInv has three layers: how the entry, the document and the journal *)
(* of one task follow each other (TaskOK), who is going to deliver a       *)
(* scheduled notice (RequestOK, ScheduledOK, PassOK), and what the journal *)
(* may know as delivered (LedgerOK, Backed).  The actions of a task leave  *)
(* the second layer alone and the actions of a notice the first.           *)
(***************************************************************************)
EXTENDS TaskNotices, FiniteSetTheorems, SequenceTheorems, TLAPS

-----------------------------------------------------------------------------
(* The inductive invariant *)

\* A task, as the journal, its document or an earlier process has it, has ended.
Ended(x) == x # None /\ x.status \in Terminal
Hushed(x) == x # None /\ x.suppressed
Shows(x, s) == x # None /\ x.status = s

\* What cannot be there yet while the agent is restored, and what an undo keeps away.
BootOK ==
  /\ boot # "up" =>
       /\ \A t \in Tasks : entry[t] = None /\ request[t] = "none"
       /\ pending = {} /\ ~turn /\ undo = "none"
  /\ boot \in {"load", "mark"} => pass = None /\ scheduled = {}
  /\ boot = "load" => \A t \in Tasks : ghosts[t] = None
  /\ boot # "mark" => lost = {}
  /\ undo # "none" => ~turn
  /\ pass # None => boot = "restore" \/ undo = "reconciled"

EntryOK(t) ==
  Live(t) =>
    /\ ghosts[t] = None
    /\ entry[t].stage = "live" <=> entry[t].status = "running"
    /\ entry[t].detached \/ entry[t].stage \in {"persisting", "persisted"} => entry[t].recorded

\* The document d follows the entry e through the writes s: what is suppressed stays so,
\* and the outcome is the last write.
Follows(s, e, d) ==
  /\ \A i \in 1..Len(s) :
       /\ s[i].settles <=> s[i].info.status \in Terminal
       /\ s[i].settles => /\ i = Len(s) /\ e.stage = "persisting"
                          /\ s[i].info.status = e.status
       /\ s[i].info.suppressed => e.suppressed
       /\ Hushed(d) => s[i].info.suppressed
       /\ \A j \in 1..Len(s) : i < j /\ s[i].info.suppressed => s[j].info.suppressed
  /\ Hushed(d) => e.suppressed
  /\ Ended(d) => s = <<>> /\ e.stage \in {"persisted", "fired"} /\ d.status = e.status

WritesOK(t) ==
  IF Live(t) THEN Follows(writes[t], entry[t], doc[t]) ELSE writes[t] = <<>>

JournalOK(t) ==
  /\ flushed.tasks[t] # None => wire.tasks[t] # None
  /\ Ended(flushed.tasks[t]) => wire.tasks[t] = flushed.tasks[t]
  /\ Ended(wire.tasks[t]) /\ Ended(doc[t]) => wire.tasks[t].status = doc[t].status
  /\ Ended(wire.tasks[t]) /\ Hushed(doc[t]) => wire.tasks[t].suppressed
  /\ Live(t) /\ Ended(wire.tasks[t]) => entry[t].stage = "fired"
  /\ Live(t) /\ entry[t].stage = "fired" /\ (entry[t].recorded \/ Ended(wire.tasks[t]))
       => wire.tasks[t] = toInfo(entry[t])
  /\ boot # "load" /\ (wire.tasks[t] # None \/ doc[t] # None) => Live(t) \/ ghosts[t] # None

GhostOK(t) ==
  /\ ghosts[t] # None =>
       /\ Ended(ghosts[t]) <=> Ended(wire.tasks[t]) \/ Ended(doc[t])
       /\ Ended(wire.tasks[t]) => ghosts[t].status = wire.tasks[t].status
       /\ Ended(doc[t]) => ghosts[t].status = doc[t].status
       /\ Hushed(doc[t]) => ghosts[t].suppressed
       /\ ~Ended(ghosts[t]) => boot = "mark"
  /\ t \in lost => /\ ghosts[t] # None /\ Ended(ghosts[t]) /\ doc[t] = ghosts[t]
                   /\ ~Ended(wire.tasks[t])

TaskOK(t) == EntryOK(t) /\ WritesOK(t) /\ JournalOK(t) /\ GhostOK(t)

Waiting == {"built", "held", "queued"}

RequestOK(t) ==
  /\ request[t] # "none" => Live(t) /\ entry[t].stage = "fired" /\ entry[t].recorded
  /\ request[t] \in Waiting =>
       ~entry[t].suppressed /\ (t \in missed \/ Key(t) \in scheduled)
  /\ t \in pending => request[t] \in {"held", "queued", "aborted"}
  /\ undo = "reconciled" /\ t \in pending => request[t] # "aborted"

\* The request that has scheduled k, or the pass that has.
RequestHolds(k) ==
  /\ \/ request[k[1]] = "built"
     \/ request[k[1]] \in {"held", "queued", "aborted"} /\ k[1] \in pending
  /\ k = Key(k[1])
PassHolds(k) == pass # None /\ pass.at = "built" /\ ItemKey(pass.item) = k

ScheduledOK ==
  \A k \in scheduled : k \notin delivered /\ ~InContext(k) /\ (RequestHolds(k) \/ PassHolds(k))

ItemOK(i) ==
  /\ i.info = IF Live(i.task) THEN toInfo(entry[i.task]) ELSE ghosts[i.task]
  /\ i.info.status \in Terminal /\ i.info.detached

PassOK ==
  pass # None =>
    /\ \A i \in pass.todo : ItemOK(i)
    /\ pass.at # "next" => pass.item \in Item /\ ItemOK(pass.item)
    /\ pass.at = "built" =>
         /\ ~Suppressed(pass.item.task) /\ ItemKey(pass.item) \in scheduled
         /\ request[pass.item.task] \in Waiting => pass.item.task \in missed

\* The checkpoints of the delivery model grow.
Grows(w) ==
  /\ \A i \in 1..Len(w.checkpoints) : w.checkpoints[i] \subseteq w.delivered
  /\ \A i, j \in 1..Len(w.checkpoints) : i <= j => w.checkpoints[i] \subseteq w.checkpoints[j]

LedgerOK == Grows(wire) /\ Grows(flushed) /\ (boot # "load" => wire.delivered \subseteq delivered)

\* What the journal knows as reported, the journal or the document has as the outcome.
Backed(w) ==
  \A t \in Tasks \ early : \A s \in Terminal :
    <<t, s>> \in w.delivered => Shows(w.tasks[t], s) \/ Shows(doc[t], s)

NoticeInv ==
  /\ BootOK /\ (\A t \in Tasks : TaskOK(t))
  /\ (\A t \in Tasks : RequestOK(t)) /\ ScheduledOK /\ PassOK
  /\ LedgerOK /\ Backed(wire) /\ Backed(flushed)
NoticesInv == TypeOK /\ NoticeInv

\* TypeOK in parts.
EntryTypes == entry \in [Tasks -> Entry \cup {None}] /\ stopping \subseteq Tasks
WriteTypes == writes \in [Tasks -> Seq([info : Info, settles : BOOLEAN])]
InfoTypes ==
  doc \in [Tasks -> Info \cup {None}] /\ ghosts \in [Tasks -> Info \cup {None}] /\ lost \subseteq Tasks
KeyTypes ==
  /\ building \subseteq Keys /\ scheduled \subseteq Keys /\ delivered \subseteq Keys
  /\ pending \subseteq Tasks /\ missed \subseteq Tasks /\ early \subseteq Tasks
RequestTypes == request \in [Tasks -> Requests]
PlaceTypes ==
  /\ undo \in {"none", "cut", "reconciled"} /\ boot \in {"load", "mark", "restore", "up"}
  /\ undos \in Nat /\ crashes \in Nat
PassTypes == pass \in Pass \cup {None}

-----------------------------------------------------------------------------
(* What the provers need to know of the data *)

LEMMA TypeParts ==
  TypeOK <=> /\ EntryTypes /\ WriteTypes /\ InfoTypes /\ wire \in Wire /\ flushed \in Wire
             /\ KeyTypes /\ RequestTypes /\ turn \in BOOLEAN /\ PlaceTypes /\ PassTypes
BY DEF TypeOK, EntryTypes, WriteTypes, InfoTypes, KeyTypes, RequestTypes, PlaceTypes, PassTypes

LEMMA NoNone ==
  /\ None \notin Entry /\ None \notin Info /\ None \notin Item /\ None \notin Pass
BY ValueAssumption

LEMMA InfoOfEntry ==
  ASSUME NEW e \in Entry
  PROVE  /\ toInfo(e) \in Info /\ toInfo(e) # None
         /\ toInfo(e).status = e.status /\ toInfo(e).detached = e.detached
         /\ toInfo(e).suppressed = e.suppressed
BY NoNone DEF toInfo, Entry, Info, Outcomes, Terminal

LEMMA AnchorIsNoKey == Anchor \notin Keys
BY ValueAssumption

LEMMA LiveEntry ==
  ASSUME TypeOK, NEW t \in Tasks
  PROVE  Live(t) => entry[t] \in Entry
BY DEF TypeOK, Live

LEMMA InitOK == Init => NoticesInv
<1> SUFFICES ASSUME Init PROVE NoticesInv
  OBVIOUS
<1> USE DEF Init
<1>1. TypeOK
  <2>1. wire \in Wire
    BY DEF Wire
  <2>2. EntryTypes /\ InfoTypes /\ KeyTypes /\ PassTypes
    BY DEF EntryTypes, InfoTypes, KeyTypes, PassTypes
  <2>3. WriteTypes
    BY DEF WriteTypes
  <2>4. RequestTypes /\ PlaceTypes
    BY DEF RequestTypes, PlaceTypes, Requests
  <2>5. turn \in BOOLEAN /\ flushed \in Wire
    BY <2>1
  <2>6. QED
    BY <2>1, <2>2, <2>3, <2>4, <2>5, TypeParts
<1>2. BootOK
  BY DEF BootOK
<1>3. ASSUME NEW t \in Tasks PROVE TaskOK(t) /\ RequestOK(t)
  BY DEF TaskOK, EntryOK, WritesOK, JournalOK, GhostOK, RequestOK, Live, Ended, Hushed, Waiting
<1>4. ScheduledOK /\ PassOK
  BY DEF ScheduledOK, PassOK
<1>5. LedgerOK /\ Backed(wire) /\ Backed(flushed)
  BY DEF LedgerOK, Grows, Backed
<1>6. QED
  BY <1>1, <1>2, <1>3, <1>4, <1>5 DEF NoticesInv, NoticeInv

-----------------------------------------------------------------------------
(* The steps of one task *)

\* What a step of task t may do: the outcome, once there, stays, and the notices are left
\* alone but for the one that begins to be built.
TaskMoves(t) ==
  /\ boot = "up"
  /\ \A u \in Tasks \ {t} :
       /\ entry'[u] = entry[u] /\ writes'[u] = writes[u] /\ doc'[u] = doc[u]
       /\ wire'.tasks[u] = wire.tasks[u] /\ request'[u] = request[u]
  /\ Live(t) => entry'[t] # None
  /\ ~Live(t) => ghosts[t] = None
  /\ Live(t) /\ entry[t].status # "running" =>
       /\ toInfo(entry'[t]) = toInfo(entry[t])
       /\ entry[t].stage = "fired" => entry'[t].stage = "fired"
       /\ entry'[t].recorded = entry[t].recorded
  /\ Ended(wire.tasks[t]) => wire'.tasks[t] = wire.tasks[t]
  /\ Ended(doc[t]) => doc'[t] = doc[t]
  /\ \/ request'[t] = request[t]
     \/ /\ request[t] = "none" /\ request'[t] = "building"
        /\ entry'[t] # None /\ entry'[t].stage = "fired" /\ entry'[t].recorded
  /\ wire'.context = wire.context /\ wire'.delivered = wire.delivered
  /\ wire'.checkpoints = wire.checkpoints
  /\ UNCHANGED <<ghosts, lost, flushed, scheduled, delivered, pending, turn, undo, boot, pass,
                 missed, early>>

LEMMA TaskMovesOne ==
  ASSUME NoticesInv, NEW t \in Tasks, TaskMoves(t), NEW u \in Tasks \ {t}
  PROVE  TaskOK(u)'
<1>1. TaskOK(u)
  BY DEF NoticesInv, NoticeInv
<1>2. /\ entry'[u] = entry[u] /\ writes'[u] = writes[u] /\ doc'[u] = doc[u]
      /\ wire'.tasks[u] = wire.tasks[u] /\ ghosts' = ghosts /\ lost' = lost
      /\ flushed' = flushed /\ boot' = boot
  BY DEF TaskMoves
<1>3. EntryOK(u)'
  BY <1>1, <1>2 DEF TaskOK, EntryOK, Live
<1>4. WritesOK(u)'
  BY <1>1, <1>2 DEF TaskOK, WritesOK, Live
<1>5. JournalOK(u)'
  BY <1>1, <1>2 DEF TaskOK, JournalOK, Live, Ended, Hushed, toInfo
<1>6. GhostOK(u)'
  BY <1>1, <1>2 DEF TaskOK, GhostOK, Live, Ended, Hushed
<1>7. QED
  BY <1>3, <1>4, <1>5, <1>6 DEF TaskOK

\* An entry that has ended is frozen.
LEMMA FrozenEntry ==
  ASSUME NoticesInv, NEW t \in Tasks, TaskMoves(t), NEW u \in Tasks, Live(u),
         entry[u].status # "running"
  PROVE  /\ entry'[u] # None /\ toInfo(entry'[u]) = toInfo(entry[u])
         /\ entry[u].stage = "fired" => entry'[u].stage = "fired"
         /\ entry'[u].recorded = entry[u].recorded
         /\ entry'[u].status = entry[u].status /\ entry'[u].suppressed = entry[u].suppressed
<1>1. /\ entry'[u] # None /\ toInfo(entry'[u]) = toInfo(entry[u])
      /\ entry[u].stage = "fired" => entry'[u].stage = "fired"
      /\ entry'[u].recorded = entry[u].recorded
  <2>1. CASE u = t
    BY <2>1 DEF TaskMoves
  <2>2. CASE u # t
    BY <2>2 DEF TaskMoves, Live
  <2>3. QED
    BY <2>1, <2>2
<1>2. QED
  BY <1>1 DEF toInfo

LEMMA RequestedEntry ==
  ASSUME NoticesInv, NEW t \in Tasks, request[t] # "none"
  PROVE  Live(t) /\ entry[t].stage = "fired" /\ entry[t].status # "running" /\ entry[t].recorded
<1>1. RequestOK(t) /\ EntryOK(t)
  BY DEF NoticesInv, NoticeInv, TaskOK
<1>2. QED
  BY <1>1 DEF RequestOK, EntryOK

LEMMA TaskKeepsRequests ==
  ASSUME NoticesInv, NEW t \in Tasks, TaskMoves(t), NEW u \in Tasks
  PROVE  RequestOK(u)'
<1>1. RequestOK(u)
  BY DEF NoticesInv, NoticeInv
<1>2. scheduled' = scheduled /\ pending' = pending /\ missed' = missed /\ undo' = undo
  BY DEF TaskMoves
<1>3. CASE request[u] # "none"
  <2>1. request'[u] = request[u]
    BY <1>3 DEF TaskMoves
  <2>2. Live(u) /\ entry[u].status # "running"
    BY <1>3, RequestedEntry
  <2>3. QED
    BY <1>1, <1>2, <2>1, <2>2, FrozenEntry DEF RequestOK, Live, Key
<1>4. CASE request[u] = "none" /\ request'[u] = "none"
  BY <1>1, <1>2, <1>4 DEF RequestOK, Waiting
<1>5. CASE request[u] = "none" /\ request'[u] # "none"
  <2>1. u = t
    BY <1>5 DEF TaskMoves
  <2>2. request'[u] = "building" /\ entry'[u] # None /\ entry'[u].stage = "fired" /\ entry'[u].recorded
    BY <1>5, <2>1 DEF TaskMoves
  <2>3. QED
    BY <1>1, <1>2, <1>5, <2>2 DEF RequestOK, Waiting, Live
<1>6. QED
  BY <1>3, <1>4, <1>5

LEMMA TaskKeepsItems ==
  ASSUME NoticesInv, NEW t \in Tasks, TaskMoves(t), NEW i \in Item, ItemOK(i)
  PROVE  ItemOK(i)' /\ (~Suppressed(i.task) => ~Suppressed(i.task)')
<1>1. i.task \in Tasks /\ i.info \in Info
  BY DEF Item
<1>2. ghosts' = ghosts
  BY DEF TaskMoves
<1>3. CASE Live(i.task)
  <2>1. i.info = toInfo(entry[i.task]) /\ i.info.status \in Terminal
    BY <1>3 DEF ItemOK
  <2>2. entry[i.task].status # "running"
    BY <2>1 DEF toInfo, Terminal, Outcomes
  <2>3. /\ entry'[i.task] # None /\ toInfo(entry'[i.task]) = toInfo(entry[i.task])
        /\ entry'[i.task].suppressed = entry[i.task].suppressed
    BY <1>1, <1>3, <2>2, FrozenEntry
  <2>4. QED
    BY <1>2, <1>3, <2>3 DEF ItemOK, Suppressed, Live
<1>4. CASE ~Live(i.task)
  <2>1. i.info = ghosts[i.task]
    BY <1>4 DEF ItemOK
  <2>2. i.task # t
    BY <2>1, <1>1, <1>4, NoNone DEF TaskMoves
  <2>3. entry'[i.task] = entry[i.task]
    BY <2>2, <1>1 DEF TaskMoves
  <2>4. QED
    BY <1>2, <1>4, <2>3 DEF ItemOK, Suppressed, Live
<1>5. QED
  BY <1>3, <1>4

LEMMA KeyParts ==
  ASSUME NEW k \in Keys
  PROVE  k[1] \in Tasks /\ k[2] \in Terminal /\ k = <<k[1], k[2]>>
BY DEF Keys

LEMMA TaskKeepsScheduled ==
  ASSUME NoticesInv, NEW t \in Tasks, TaskMoves(t)
  PROVE  ScheduledOK'
<1> SUFFICES ASSUME NEW k \in scheduled
             PROVE  k \notin delivered' /\ ~InContext(k)' /\ (RequestHolds(k)' \/ PassHolds(k)')
  BY DEF ScheduledOK, TaskMoves
<1>1. k \notin delivered /\ ~InContext(k) /\ (RequestHolds(k) \/ PassHolds(k))
  BY DEF NoticesInv, NoticeInv, ScheduledOK
<1>2. k \notin delivered' /\ ~InContext(k)'
  BY <1>1 DEF TaskMoves, InContext
<1>3. ASSUME PassHolds(k) PROVE PassHolds(k)'
  BY <1>3 DEF PassHolds, TaskMoves, ItemKey
<1>4. ASSUME RequestHolds(k) PROVE RequestHolds(k)'
  <2>1. k[1] \in Tasks
    BY KeyParts DEF NoticesInv, TypeOK
  <2>2. request[k[1]] # "none"
    BY <1>4 DEF RequestHolds
  <2>3. Live(k[1]) /\ entry[k[1]].status # "running"
    BY <2>1, <2>2, RequestedEntry
  <2>4. entry'[k[1]].status = entry[k[1]].status
    BY <2>1, <2>3, FrozenEntry
  <2>5. request'[k[1]] = request[k[1]] /\ pending' = pending
    BY <2>1, <2>2 DEF TaskMoves
  <2>6. QED
    BY <1>4, <2>4, <2>5 DEF RequestHolds, Key
<1>5. QED
  BY <1>1, <1>2, <1>3, <1>4

LEMMA PassParts ==
  ASSUME TypeOK, pass # None
  PROVE  /\ pass \in Pass /\ pass.todo \subseteq Item /\ pass.at \in {"next", "building", "built"}
         /\ pass.item \in Item \cup {None}
BY DEF TypeOK, Pass

LEMMA TaskKeepsPass ==
  ASSUME NoticesInv, NEW t \in Tasks, TaskMoves(t)
  PROVE  PassOK'
<1> SUFFICES ASSUME pass # None, NEW m \in Item \cup {None}, m = pass.item
             PROVE  /\ \A i \in pass.todo : ItemOK(i)'
                    /\ pass.at # "next" => m \in Item /\ ItemOK(m)'
                    /\ pass.at = "built" =>
                         /\ ~Suppressed(m.task)' /\ ItemKey(m) \in scheduled
                         /\ request'[m.task] \in Waiting => m.task \in missed
  BY PassParts DEF PassOK, TaskMoves, ItemOK, Live, Suppressed, ItemKey, NoticesInv
<1>1. PassOK
  BY DEF NoticesInv, NoticeInv
<1>2. pass.todo \subseteq Item
  BY PassParts DEF NoticesInv
<1>3. \A i \in pass.todo : ItemOK(i)'
  BY <1>1, <1>2, TaskKeepsItems DEF PassOK
<1>4. pass.at # "next" => m \in Item /\ ItemOK(m)
  BY <1>1 DEF PassOK
<1>5. pass.at # "next" => ItemOK(m)' /\ (~Suppressed(m.task) => ~Suppressed(m.task)')
  BY <1>4, TaskKeepsItems
<1>6. pass.at = "built" => (request'[m.task] \in Waiting => m.task \in missed)
  <2> SUFFICES ASSUME pass.at = "built", request'[m.task] \in Waiting
               PROVE  m.task \in missed
    OBVIOUS
  <2>1. m.task \in Tasks
    BY <1>4 DEF Item
  <2>2. request'[m.task] # "building"
    BY DEF Waiting
  <2>3. request'[m.task] = request[m.task]
    BY <2>1, <2>2 DEF TaskMoves
  <2>4. QED
    BY <1>1, <2>3 DEF PassOK
<1>7. QED
  BY <1>1, <1>3, <1>4, <1>5, <1>6 DEF PassOK

LEMMA TaskKeepsRest ==
  ASSUME NoticesInv, NEW t \in Tasks, TaskMoves(t)
  PROVE  BootOK' /\ LedgerOK' /\ Backed(wire)' /\ Backed(flushed)'
<1>1. BootOK /\ LedgerOK /\ Backed(wire) /\ Backed(flushed)
  BY DEF NoticesInv, NoticeInv
<1>2. BootOK'
  BY <1>1 DEF BootOK, TaskMoves
<1>3. LedgerOK'
  BY <1>1 DEF LedgerOK, Grows, TaskMoves
<1>4. ASSUME NEW u \in Tasks, NEW s \in Terminal
      PROVE  /\ Shows(wire.tasks[u], s) => Shows(wire'.tasks[u], s)
             /\ Shows(doc[u], s) => Shows(doc'[u], s)
  <2>1. CASE u # t
    BY <2>1 DEF TaskMoves, Shows
  <2>2. CASE u = t
    BY <2>2 DEF TaskMoves, Shows, Ended
  <2>3. QED
    BY <2>1, <2>2
<1>5. Backed(wire)'
  BY <1>1, <1>4 DEF Backed, TaskMoves
<1>6. Backed(flushed)'
  BY <1>1, <1>4 DEF Backed, TaskMoves
<1>7. QED
  BY <1>2, <1>3, <1>5, <1>6

\* A step of a task keeps the invariant if it keeps that of the task.
LEMMA TaskMovesOK ==
  ASSUME NoticesInv, NEW t \in Tasks, TaskMoves(t), TaskOK(t)'
  PROVE  NoticeInv'
<1>1. \A u \in Tasks : TaskOK(u)'
  <2> TAKE u \in Tasks
  <2>1. CASE u = t
    BY <2>1
  <2>2. CASE u # t
    BY <2>2, TaskMovesOne
  <2>3. QED
    BY <2>1, <2>2
<1>2. \A u \in Tasks : RequestOK(u)'
  BY TaskKeepsRequests
<1>3. ScheduledOK' /\ PassOK'
  BY TaskKeepsScheduled, TaskKeepsPass
<1>4. QED
  BY <1>1, <1>2, <1>3, TaskKeepsRest DEF NoticeInv

Write == [info : Info, settles : BOOLEAN]

\* Persist keeps the document behind the entry.
LEMMA PersistFollows ==
  ASSUME NEW s \in Seq(Write), NEW e \in Entry, NEW e2 \in Entry, NEW d, NEW settles \in BOOLEAN,
         Follows(s, e, d), e.stage = "live", e.suppressed => e2.suppressed,
         settles <=> e2.status # "running", settles => e2.stage = "persisting",
         NEW s2, s2 = Append(s, [info |-> toInfo(e2), settles |-> settles])
  PROVE  s2 \in Seq(Write) /\ Follows(s2, e2, d)
<1> DEFINE w == [info |-> toInfo(e2), settles |-> settles]
<1>1. /\ toInfo(e2) \in Info /\ toInfo(e2).status = e2.status
      /\ toInfo(e2).suppressed = e2.suppressed
  BY InfoOfEntry
<1>2. /\ w \in Write /\ w.info.status = e2.status /\ w.info.suppressed = e2.suppressed
      /\ w.settles = settles
  BY <1>1 DEF Write
<1>3. e2.status \in Terminal <=> e2.status # "running"
  BY DEF Entry, Outcomes, Terminal
<1> HIDE DEF w
<1>4. /\ s2 \in Seq(Write) /\ Len(s2) = Len(s) + 1 /\ s2[Len(s) + 1] = w /\ Len(s) \in Nat
      /\ \A i \in 1..Len(s) : s2[i] = s[i]
  BY <1>2 DEF w
<1>5. \A i \in 1..Len(s) : ~s[i].settles
  BY DEF Follows
<1>6. Hushed(d) => e2.suppressed
  BY DEF Follows
<1>7. ~Ended(d)
  BY DEF Follows
<1>8. ASSUME NEW i \in 1..Len(s2)
      PROVE  /\ s2[i].settles <=> s2[i].info.status \in Terminal
             /\ s2[i].settles => /\ i = Len(s2) /\ e2.stage = "persisting"
                                 /\ s2[i].info.status = e2.status
             /\ s2[i].info.suppressed => e2.suppressed
             /\ Hushed(d) => s2[i].info.suppressed
  <2>1. CASE i = Len(s) + 1
    BY <1>2, <1>3, <1>4, <1>6, <2>1
  <2>2. CASE i \in 1..Len(s)
    BY <1>4, <1>5, <2>2 DEF Follows
  <2>3. QED
    BY <1>4, <2>1, <2>2
<1>9. ASSUME NEW i \in 1..Len(s2), NEW j \in 1..Len(s2), i < j, s2[i].info.suppressed
      PROVE  s2[j].info.suppressed
  <2>1. i \in 1..Len(s)
    BY <1>4, <1>9
  <2>2. CASE j = Len(s) + 1
    BY <1>2, <1>4, <1>8, <1>9, <2>2
  <2>3. CASE j \in 1..Len(s)
    BY <1>4, <1>9, <2>1, <2>3 DEF Follows
  <2>4. QED
    BY <1>4, <2>2, <2>3
<1>10. QED
  BY <1>4, <1>6, <1>7, <1>8, <1>9 DEF Follows

LEMMA TailOfOne ==
  ASSUME NEW S, NEW s \in Seq(S), 1 = Len(s)
  PROVE  Tail(s) = <<>>
<1>1. Tail(s) \in Seq(S) /\ Len(Tail(s)) = 0
  OBVIOUS
<1>2. QED
  BY <1>1, EmptySeq

LEMMA WriteFollows ==
  ASSUME NEW s \in Seq(Write), s # <<>>, NEW e \in Entry, NEW e2 \in Entry, NEW d, NEW d2,
         Follows(s, e, d), d2 = d \/ d2 = Head(s).info,
         e2 = IF Head(s).settles THEN [e EXCEPT !.stage = "persisted"] ELSE e
  PROVE  Tail(s) \in Seq(Write) /\ Follows(Tail(s), e2, d2)
<1>1. /\ Len(s) \in Nat /\ Len(s) >= 1 /\ Head(s) = s[1] /\ Head(s) \in Write
  OBVIOUS
<1>2. /\ Tail(s) \in Seq(Write) /\ Len(Tail(s)) = Len(s) - 1
      /\ \A i \in 1..Len(Tail(s)) : Tail(s)[i] = s[i + 1]
  BY <1>1
<1>3. /\ ~Ended(d) /\ 1 \in 1..Len(s)
      /\ s[1].settles <=> s[1].info.status \in Terminal
      /\ s[1].settles => 1 = Len(s) /\ s[1].info.status = e.status
      /\ \A j \in 1..Len(s) :
           1 < j /\ (s[1].info.suppressed \/ Hushed(d)) => s[j].info.suppressed
  <2>1. 1 \in 1..Len(s)
    BY <1>1
  <2>2. ~Ended(d)
    BY DEF Follows
  <2>3. /\ s[1].settles <=> s[1].info.status \in Terminal
        /\ s[1].settles => 1 = Len(s) /\ s[1].info.status = e.status
    BY <2>1 DEF Follows
  <2>4. \A j \in 1..Len(s) :
           1 < j /\ (s[1].info.suppressed \/ Hushed(d)) => s[j].info.suppressed
    BY <2>1 DEF Follows
  <2>5. QED
    BY <2>1, <2>2, <2>3, <2>4
<1>4. e2.suppressed = e.suppressed /\ e2.status = e.status
  BY DEF Entry
<1>5. Hushed(d2) => e.suppressed
  BY <1>1 DEF Follows, Hushed
<1>6. ASSUME Ended(d2)
      PROVE  Tail(s) = <<>> /\ e2.stage = "persisted" /\ d2.status = e2.status
  <2>1. d2 = s[1].info
    BY <1>1, <1>3, <1>6
  <2>2. s[1].settles /\ 1 = Len(s) /\ s[1].info.status = e.status
    BY <1>3, <1>6, <2>1 DEF Ended
  <2>3. e2.stage = "persisted"
    BY <1>1, <2>2 DEF Entry
  <2>4. Tail(s) = <<>>
    BY <2>2, TailOfOne
  <2>5. QED
    BY <1>4, <2>1, <2>2, <2>3, <2>4
<1>7. ASSUME NEW i \in 1..Len(Tail(s))
      PROVE  /\ Tail(s)[i].settles <=> Tail(s)[i].info.status \in Terminal
             /\ Tail(s)[i].settles => /\ i = Len(Tail(s)) /\ e2.stage = "persisting"
                                      /\ Tail(s)[i].info.status = e2.status
             /\ Tail(s)[i].info.suppressed => e2.suppressed
             /\ Hushed(d2) => Tail(s)[i].info.suppressed
  <2>1. i + 1 \in 1..Len(s) /\ Tail(s)[i] = s[i + 1] /\ i \in Nat /\ 1 # Len(s)
    BY <1>1, <1>2
  <2>2. ~Head(s).settles
    BY <1>1, <1>3, <2>1
  <2>3. e2 = e
    BY <2>2
  <2>4. Hushed(d2) => s[i + 1].info.suppressed
    BY <1>1, <1>3, <2>1 DEF Hushed
  <2>5. QED
    BY <1>2, <2>1, <2>3, <2>4 DEF Follows
<1>8. ASSUME NEW i \in 1..Len(Tail(s)), NEW j \in 1..Len(Tail(s)), i < j,
             Tail(s)[i].info.suppressed
      PROVE  Tail(s)[j].info.suppressed
  <2>1. i + 1 \in 1..Len(s) /\ j + 1 \in 1..Len(s) /\ i + 1 < j + 1
    BY <1>1, <1>2, <1>8
  <2>2. Tail(s)[i] = s[i + 1] /\ Tail(s)[j] = s[j + 1]
    BY <1>2
  <2>3. QED
    BY <1>8, <2>1, <2>2 DEF Follows
<1>9. QED
  BY <1>2, <1>4, <1>5, <1>6, <1>7, <1>8 DEF Follows

LEMMA TypePartsNext ==
  ASSUME EntryTypes', WriteTypes', InfoTypes', wire' \in Wire, flushed' \in Wire, KeyTypes',
         RequestTypes', turn' \in BOOLEAN, PlaceTypes', PassTypes'
  PROVE  TypeOK'
BY DEF TypeOK, EntryTypes, WriteTypes, InfoTypes, KeyTypes, RequestTypes, PlaceTypes, PassTypes

LEMMA WireParts ==
  ASSUME NEW w \in Wire
  PROVE  /\ w.tasks \in [Tasks -> Info \cup {None}] /\ w.context \in Seq(Keys \cup {Anchor})
         /\ w.delivered \subseteq Keys /\ w.checkpoints \in Seq(SUBSET Keys)
BY DEF Wire

LEMMA RecordedParts ==
  ASSUME NEW w \in Wire, NEW t \in Tasks, NEW info \in Info, NEW r, r = Recorded(w, t, info)
  PROVE  /\ r \in Wire /\ r.tasks[t] = info
         /\ \A u \in Tasks \ {t} : r.tasks[u] = w.tasks[u]
         /\ r.context = w.context /\ r.delivered = w.delivered /\ r.checkpoints = w.checkpoints
<1>1. r = [w EXCEPT !.tasks = [w.tasks EXCEPT ![t] = info]]
  BY DEF Recorded, Wire
<1>2. [w.tasks EXCEPT ![t] = info] \in [Tasks -> Info \cup {None}]
  BY DEF Wire
<1>3. QED
  BY <1>1, <1>2 DEF Wire

LEMMA UpEntry ==
  ASSUME NoticesInv, NEW t \in Tasks, Live(t)
  PROVE  boot = "up" /\ entry[t] \in Entry /\ entry[t] # None /\ ghosts[t] = None
<1>1. BootOK /\ EntryOK(t) /\ TypeOK
  BY DEF NoticesInv, NoticeInv, TaskOK
<1>2. QED
  BY <1>1, LiveEntry DEF BootOK, EntryOK, Live

LEMMA RegisterOK ==
  ASSUME NoticesInv, NEW t \in Tasks, NEW detached \in BOOLEAN, NEW recorded \in BOOLEAN,
         Register(t, detached, recorded)
  PROVE  NoticesInv'
<1> DEFINE e == [status |-> "running", detached |-> detached, suppressed |-> FALSE,
                 recorded |-> recorded, stage |-> "live"]
<1>1. e \in Entry /\ e # None
  <2>1. e \in Entry
    BY DEF Entry
  <2>2. QED
    BY <2>1, NoNone
<1>2. /\ e.status = "running" /\ e.suppressed = FALSE /\ e.stage = "live"
      /\ e.detached = detached /\ e.recorded = recorded
  OBVIOUS
<1>3. /\ boot = "up" /\ ~Live(t) /\ ghosts[t] = None /\ (detached => recorded)
      /\ entry' = [entry EXCEPT ![t] = e]
      /\ IF recorded THEN Persist(t, e, FALSE) /\ wire' = Recorded(wire, t, toInfo(e))
                     ELSE UNCHANGED <<writes, wire>>
      /\ UNCHANGED <<stopping, doc, ghosts, lost, flushed, keyVars, agentVars, countVars>>
  BY DEF Register, Up
<1> HIDE DEF e
<1>4. TypeOK /\ TaskOK(t) /\ BootOK
  BY DEF NoticesInv, NoticeInv
<1>5. entry'[t] = e /\ \A u \in Tasks \ {t} : entry'[u] = entry[u]
  BY <1>3, <1>4 DEF TypeOK
<1>6. toInfo(e) \in Info /\ toInfo(e) # None /\ toInfo(e).status = "running"
  BY <1>1, <1>2, InfoOfEntry
<1>7. writes[t] = <<>>
  BY <1>3, <1>4 DEF TaskOK, WritesOK
<1>8. wire.tasks[t] = None /\ doc[t] = None /\ flushed.tasks[t] = None
  BY <1>3, <1>4 DEF TaskOK, JournalOK
<1>9. Follows(<<>>, e, None)
  BY DEF Follows, Hushed, Ended
<1>10. /\ wire' \in Wire /\ wire'.context = wire.context /\ wire'.delivered = wire.delivered
       /\ wire'.checkpoints = wire.checkpoints
       /\ wire'.tasks[t] = None \/ wire'.tasks[t] = toInfo(e)
       /\ \A u \in Tasks \ {t} : wire'.tasks[u] = wire.tasks[u]
  <2>1. CASE recorded
    <3>1. wire \in Wire /\ wire' = Recorded(wire, t, toInfo(e))
      BY <1>3, <1>4, <2>1 DEF TypeOK
    <3>2. QED
      BY <3>1, <1>6, RecordedParts
  <2>2. CASE ~recorded
    BY <1>3, <1>4, <1>8, <2>2 DEF TypeOK
  <2>3. QED
    BY <2>1, <2>2
<1>11. /\ writes'[t] \in Seq(Write) /\ Follows(writes'[t], e, None)
       /\ \A u \in Tasks \ {t} : writes'[u] = writes[u]
       /\ WriteTypes'
  <2>0. writes \in [Tasks -> Seq(Write)]
    BY <1>4 DEF TypeOK, Write
  <2>1. CASE recorded
    <3>1. writes' = [writes EXCEPT ![t] = Append(@, [info |-> toInfo(e), settles |-> FALSE])]
      BY <1>3, <2>1 DEF Persist
    <3>2. writes'[t] = Append(writes[t], [info |-> toInfo(e), settles |-> FALSE])
      BY <3>1, <2>0
    <3>3. <<>> \in Seq(Write)
      OBVIOUS
    <3>4. writes'[t] \in Seq(Write) /\ Follows(writes'[t], e, None)
      BY <3>2, <3>3, <1>1, <1>2, <1>7, <1>9, PersistFollows
    <3>5. QED
      BY <3>1, <3>4, <2>0 DEF WriteTypes, Write
  <2>2. CASE ~recorded
    BY <2>0, <2>2, <1>3, <1>7, <1>9 DEF WriteTypes, Write
  <2>3. QED
    BY <2>1, <2>2
<1>12. TypeOK'
  <2>1. EntryTypes'
    BY <1>1, <1>3, <1>4 DEF TypeOK, EntryTypes
  <2>2. InfoTypes' /\ flushed' \in Wire
    BY <1>3, <1>4 DEF TypeOK, InfoTypes
  <2>3. KeyTypes' /\ RequestTypes' /\ turn' \in BOOLEAN /\ PlaceTypes' /\ PassTypes'
    BY <1>3, <1>4 DEF TypeOK, KeyTypes, RequestTypes, PlaceTypes, PassTypes, keyVars, agentVars, countVars
  <2>4. QED
    BY <1>10, <1>11, <2>1, <2>2, <2>3, TypePartsNext
<1>13. TaskMoves(t)
  <2>1. ~Ended(wire.tasks[t]) /\ ~Ended(doc[t])
    BY <1>8 DEF Ended
  <2>2. QED
    BY <1>1, <1>3, <1>5, <1>10, <1>11, <2>1 DEF TaskMoves, Live, keyVars, agentVars, countVars
<1>14. TaskOK(t)'
  <2>1. ~Ended(wire'.tasks[t]) /\ doc'[t] = None /\ ghosts'[t] = None /\ flushed'.tasks[t] = None
        /\ boot' = "up" /\ lost' = lost
    BY <1>3, <1>6, <1>8, <1>10 DEF Ended, agentVars, Terminal, Outcomes
  <2>2. EntryOK(t)'
    BY <1>2, <1>3, <1>5, <2>1 DEF EntryOK, Live
  <2>3. WritesOK(t)'
    BY <1>1, <1>5, <1>11, <2>1 DEF WritesOK, Live
  <2>4. JournalOK(t)'
    BY <1>1, <1>2, <1>5, <2>1 DEF JournalOK, Live, Hushed, Ended
  <2>5. GhostOK(t)'
    BY <1>3, <1>4, <2>1 DEF GhostOK, TaskOK
  <2>6. QED
    BY <2>2, <2>3, <2>4, <2>5 DEF TaskOK
<1>15. QED
  BY <1>12, <1>13, <1>14, TaskMovesOK DEF NoticesInv

\* Detach, suppress and settle: a running task gets the entry e, its document follows, and
\* the journal may have it as running.
LEMMA RunningMoves ==
  ASSUME NoticesInv, NEW t \in Tasks, Running(t), NEW e \in Entry,
         entry' = [entry EXCEPT ![t] = e], stopping' \subseteq Tasks,
         entry[t].suppressed => e.suppressed,
         e.stage = "live" <=> e.status = "running",
         e.detached \/ e.stage = "persisting" => e.recorded,
         \/ e.stage \in {"live", "persisting"} /\ Persist(t, e, e.stage = "persisting")
         \/ e.stage = "fired" /\ ~e.recorded /\ writes' = writes,
         \/ wire' = wire
         \/ e.status = "running" /\ wire' = Recorded(wire, t, toInfo(e)),
         UNCHANGED <<doc, ghosts, lost, flushed, keyVars, agentVars, countVars>>
  PROVE  NoticesInv'
<1>1. TypeOK /\ TaskOK(t) /\ Live(t) /\ entry[t].status = "running"
  BY DEF NoticesInv, NoticeInv, Running
<1>2. boot = "up" /\ entry[t] \in Entry /\ ghosts[t] = None /\ e # None
  BY <1>1, UpEntry, NoNone
<1>3. entry[t].stage = "live"
  BY <1>1 DEF TaskOK, EntryOK
<1>4. entry'[t] = e /\ \A u \in Tasks \ {t} : entry'[u] = entry[u]
  BY <1>1 DEF TypeOK
<1>5. Follows(writes[t], entry[t], doc[t])
  BY <1>1 DEF TaskOK, WritesOK
<1>6. toInfo(e) \in Info /\ toInfo(e) # None /\ toInfo(e).status = e.status
  BY InfoOfEntry
<1>7. ~Ended(doc[t]) /\ ~Ended(wire.tasks[t]) /\ ~Ended(flushed.tasks[t])
  <2>1. ~Ended(doc[t])
    BY <1>3, <1>5 DEF Follows
  <2>2. ~Ended(wire.tasks[t])
    BY <1>1, <1>3 DEF TaskOK, JournalOK
  <2>3. ~Ended(flushed.tasks[t])
    BY <1>1, <2>2 DEF TaskOK, JournalOK
  <2>4. QED
    BY <2>1, <2>2, <2>3
<1>8. /\ wire' \in Wire /\ wire'.context = wire.context /\ wire'.delivered = wire.delivered
      /\ wire'.checkpoints = wire.checkpoints /\ ~Ended(wire'.tasks[t])
      /\ wire.tasks[t] # None => wire'.tasks[t] # None
      /\ \A u \in Tasks \ {t} : wire'.tasks[u] = wire.tasks[u]
  <2>1. CASE wire' = wire
    BY <1>1, <1>7, <2>1 DEF TypeOK
  <2>2. CASE e.status = "running" /\ wire' = Recorded(wire, t, toInfo(e))
    <3>1. wire \in Wire
      BY <1>1 DEF TypeOK
    <3>2. /\ wire' \in Wire /\ wire'.tasks[t] = toInfo(e)
          /\ \A u \in Tasks \ {t} : wire'.tasks[u] = wire.tasks[u]
          /\ wire'.context = wire.context /\ wire'.delivered = wire.delivered
          /\ wire'.checkpoints = wire.checkpoints
      BY <3>1, <2>2, <1>6, RecordedParts
    <3>3. ~Ended(wire'.tasks[t])
      BY <3>2, <2>2, <1>6 DEF Ended, Terminal, Outcomes
    <3>4. QED
      BY <3>2, <3>3, <1>6
  <2>3. QED
    BY <2>1, <2>2
<1>9. /\ Follows(writes'[t], e, doc[t]) /\ WriteTypes'
      /\ \A u \in Tasks \ {t} : writes'[u] = writes[u]
  <2>0. writes \in [Tasks -> Seq(Write)]
    BY <1>1 DEF TypeOK, Write
  <2>1. CASE e.stage \in {"live", "persisting"} /\ Persist(t, e, e.stage = "persisting")
    <3> DEFINE settles == e.stage = "persisting"
    <3>1. writes' = [writes EXCEPT ![t] = Append(@, [info |-> toInfo(e), settles |-> settles])]
      BY <2>1 DEF Persist
    <3>2. settles \in BOOLEAN /\ (settles <=> e.status # "running") /\ (settles => e.stage = "persisting")
      BY <2>1
    <3> HIDE DEF settles
    <3>3. writes'[t] = Append(writes[t], [info |-> toInfo(e), settles |-> settles])
      BY <3>1, <2>0
    <3>4. writes[t] \in Seq(Write)
      BY <2>0
    <3>5. writes'[t] \in Seq(Write) /\ Follows(writes'[t], e, doc[t])
      BY <3>2, <3>3, <3>4, <1>2, <1>3, <1>5, PersistFollows
    <3>6. QED
      BY <3>1, <3>5, <2>0 DEF WriteTypes, Write
  <2>2. CASE e.stage = "fired" /\ ~e.recorded /\ writes' = writes
    <3>1. Follows(writes[t], e, doc[t])
      <4>1. \A i \in 1..Len(writes[t]) : ~writes[t][i].settles
        BY <1>3, <1>5 DEF Follows
      <4>2. QED
        BY <4>1, <1>5, <1>7 DEF Follows
    <3>2. QED
      BY <2>0, <2>2, <3>1 DEF WriteTypes, Write
  <2>3. QED
    BY <2>1, <2>2
<1>10. TypeOK'
  <2>1. EntryTypes'
    BY <1>1 DEF TypeOK, EntryTypes
  <2>2. InfoTypes' /\ flushed' \in Wire
    BY <1>1 DEF TypeOK, InfoTypes
  <2>3. KeyTypes' /\ RequestTypes' /\ turn' \in BOOLEAN /\ PlaceTypes' /\ PassTypes'
    BY <1>1 DEF TypeOK, KeyTypes, RequestTypes, PlaceTypes, PassTypes, keyVars, agentVars, countVars
  <2>4. QED
    BY <1>8, <1>9, <2>1, <2>2, <2>3, TypePartsNext
<1>11. TaskMoves(t)
  BY <1>1, <1>2, <1>4, <1>7, <1>8, <1>9 DEF TaskMoves, keyVars, agentVars, countVars
<1>12. TaskOK(t)'
  <2>1. EntryOK(t)'
    BY <1>2, <1>4 DEF EntryOK, Live, Entry
  <2>2. WritesOK(t)'
    BY <1>2, <1>4, <1>9 DEF WritesOK, Live
  <2>3. JournalOK(t)'
    <3>1. entry'[t].stage = "fired" => ~entry'[t].recorded
      BY <1>4
    <3>2. QED
      BY <1>1, <1>2, <1>4, <1>7, <1>8, <3>1 DEF JournalOK, TaskOK, Live
  <2>4. GhostOK(t)'
    BY <1>1, <1>2 DEF GhostOK, TaskOK
  <2>5. QED
    BY <2>1, <2>2, <2>3, <2>4 DEF TaskOK
<1>13. QED
  BY <1>10, <1>11, <1>12, TaskMovesOK DEF NoticesInv

LEMMA DetachOK ==
  ASSUME NoticesInv, NEW t \in Tasks, Detach(t)
  PROVE  NoticesInv'
<1> DEFINE e == [entry[t] EXCEPT !.detached = TRUE, !.recorded = TRUE]
<1>1. Running(t) /\ entry[t] \in Entry /\ EntryOK(t)
  BY UpEntry DEF Detach, Running, NoticesInv, NoticeInv, TaskOK
<1>2. /\ e \in Entry /\ e.status = "running" /\ e.stage = "live" /\ e.recorded
      /\ e.suppressed = entry[t].suppressed
  BY <1>1 DEF Entry, EntryOK, Running
<1>3. /\ entry' = [entry EXCEPT ![t] = e] /\ Persist(t, e, FALSE)
      /\ wire' = Recorded(wire, t, toInfo(e))
      /\ UNCHANGED <<stopping, doc, ghosts, lost, flushed, keyVars, agentVars, countVars>>
  BY DEF Detach
<1> HIDE DEF e
<1>4. Persist(t, e, e.stage = "persisting") /\ stopping' \subseteq Tasks
  BY <1>2, <1>3 DEF Persist, NoticesInv, TypeOK
<1>5. QED
  BY <1>1, <1>2, <1>3, <1>4, RunningMoves

LEMMA SuppressOK ==
  ASSUME NoticesInv, NEW t \in Tasks, Suppress(t)
  PROVE  NoticesInv'
<1> DEFINE e == [entry[t] EXCEPT !.suppressed = TRUE]
<1>1. Running(t) /\ entry[t] \in Entry /\ EntryOK(t)
  BY UpEntry DEF Suppress, Running, NoticesInv, NoticeInv, TaskOK
<1>2. /\ e \in Entry /\ e.status = "running" /\ e.stage = "live" /\ e.suppressed
      /\ e.detached = entry[t].detached /\ e.recorded = entry[t].recorded
  BY <1>1 DEF Entry, EntryOK, Running
<1>3. /\ entry' = [entry EXCEPT ![t] = e] /\ Persist(t, e, FALSE) /\ wire' = wire
      /\ UNCHANGED <<stopping, doc, ghosts, lost, flushed, keyVars, agentVars, countVars>>
  BY DEF Suppress
<1>4. e.detached => e.recorded
  BY <1>1, <1>2 DEF EntryOK, Running
<1> HIDE DEF e
<1>5. Persist(t, e, e.stage = "persisting") /\ stopping' \subseteq Tasks
  BY <1>2, <1>3 DEF Persist, NoticesInv, TypeOK
<1>6. QED
  BY <1>1, <1>2, <1>3, <1>4, <1>5, RunningMoves

LEMMA SettleOK ==
  ASSUME NoticesInv, NEW t \in Tasks, NEW status \in Outcomes, Settle(t, status)
  PROVE  NoticesInv'
<1> DEFINE e == [entry[t] EXCEPT !.status = status,
                                 !.stage = IF entry[t].recorded THEN "persisting" ELSE "fired"]
<1>1. Running(t) /\ entry[t] \in Entry /\ EntryOK(t)
  BY UpEntry DEF Settle, Settles, Running, NoticesInv, NoticeInv, TaskOK
<1>2. /\ e \in Entry /\ e.status = status /\ e.suppressed = entry[t].suppressed
      /\ e.detached = entry[t].detached /\ e.recorded = entry[t].recorded
      /\ e.stage = IF e.recorded THEN "persisting" ELSE "fired"
  BY <1>1 DEF Entry
<1>3. /\ entry' = [entry EXCEPT ![t] = e] /\ wire' = wire /\ stopping' = stopping \ {t}
      /\ IF e.recorded THEN Persist(t, e, TRUE) ELSE UNCHANGED writes
      /\ UNCHANGED <<doc, ghosts, lost, flushed, keyVars, agentVars, countVars>>
  BY DEF Settle
<1>4. e.detached => e.recorded
  BY <1>1, <1>2 DEF EntryOK, Running
<1> HIDE DEF e
<1>5. \/ e.stage \in {"live", "persisting"} /\ Persist(t, e, e.stage = "persisting")
      \/ e.stage = "fired" /\ ~e.recorded /\ writes' = writes
  BY <1>2, <1>3 DEF Persist
<1>6. e.stage # "live" /\ e.status # "running" /\ stopping' \subseteq Tasks
  BY <1>2, <1>3 DEF Outcomes, NoticesInv, TypeOK
<1>7. (e.stage = "live" <=> e.status = "running") /\ (e.detached \/ e.stage = "persisting" => e.recorded)
  BY <1>2, <1>4, <1>6
<1>8. QED
  BY <1>1, <1>2, <1>3, <1>5, <1>6, <1>7, RunningMoves

LEMMA StopOK ==
  ASSUME NoticesInv, NEW t \in Tasks, Stop(t)
  PROVE  NoticesInv'
<1>1. TypeOK /\ TaskOK(t) /\ boot = "up" /\ Live(t)
  BY UpEntry DEF Stop, Running, NoticesInv, NoticeInv
<1>2. UNCHANGED <<entry, writes, doc, ghosts, lost, wire, flushed, keyVars, agentVars, countVars>>
  BY DEF Stop
<1>3. TypeOK'
  BY <1>1, <1>2 DEF TypeOK, Stop, keyVars, agentVars, countVars
<1>4. TaskMoves(t)
  BY <1>1, <1>2 DEF TaskMoves, Live, keyVars, agentVars, countVars
<1>5. TaskOK(t)'
  <2>1. boot' = boot
    BY <1>2 DEF agentVars
  <2>2. EntryOK(t)' /\ WritesOK(t)'
    BY <1>1, <1>2, <2>1 DEF TaskOK, EntryOK, WritesOK, Live
  <2>3. JournalOK(t)' /\ GhostOK(t)'
    BY <1>1, <1>2, <2>1 DEF TaskOK, JournalOK, GhostOK, Live
  <2>4. QED
    BY <2>2, <2>3 DEF TaskOK
<1>6. QED
  BY <1>3, <1>4, <1>5, TaskMovesOK DEF NoticesInv

LEMMA WriteEndsOK ==
  ASSUME NoticesInv, NEW t \in Tasks, NEW ok \in BOOLEAN, WriteEnds(t, ok)
  PROVE  NoticesInv'
<1> DEFINE e == entry[t]
           w == Head(writes[t])
<1>1. TypeOK /\ TaskOK(t) /\ writes[t] # <<>> /\ writes[t] \in Seq(Write)
  BY DEF WriteEnds, NoticesInv, NoticeInv, TypeOK, Write
<1>2. Live(t) /\ Follows(writes[t], entry[t], doc[t])
  BY <1>1 DEF TaskOK, WritesOK
<1>3. boot = "up" /\ e \in Entry /\ e # None /\ ghosts[t] = None
  BY <1>2, UpEntry
<1>4. /\ doc' = IF ok THEN [doc EXCEPT ![t] = w.info] ELSE doc
      /\ writes' = [writes EXCEPT ![t] = Tail(@)]
      /\ entry' = IF w.settles THEN [entry EXCEPT ![t].stage = "persisted"] ELSE entry
      /\ UNCHANGED <<stopping, ghosts, lost, wire, flushed, keyVars, agentVars, countVars>>
  BY DEF WriteEnds
<1>5. w \in Write /\ w = writes[t][1] /\ 1 \in 1..Len(writes[t])
  BY <1>1
<1>6. w.info \in Info /\ w.info # None /\ w.settles \in BOOLEAN
  BY <1>5, NoNone DEF Write
<1>7. PICK e2 \in Entry : e2 = IF w.settles THEN [e EXCEPT !.stage = "persisted"] ELSE e
  BY <1>3 DEF Entry
<1>8. PICK d2 \in Info \cup {None} : d2 = doc'[t]
  BY <1>1, <1>4, <1>6 DEF TypeOK
<1>9. d2 = doc[t] \/ d2 = w.info
  BY <1>1, <1>4, <1>8 DEF TypeOK
<1>10. /\ w.settles <=> w.info.status \in Terminal
       /\ w.settles => e.stage = "persisting" /\ w.info.status = e.status
       /\ w.info.suppressed => e.suppressed
  BY <1>2, <1>5 DEF Follows
<1>11. ~Ended(doc[t])
  BY <1>1, <1>2 DEF Follows
<1>12. Tail(writes[t]) \in Seq(Write) /\ Follows(Tail(writes[t]), e2, d2)
  BY <1>1, <1>2, <1>3, <1>7, <1>9, WriteFollows
<1>13. /\ entry'[t] = e2 /\ (\A u \in Tasks \ {t} : entry'[u] = entry[u])
       /\ writes'[t] = Tail(writes[t]) /\ (\A u \in Tasks \ {t} : writes'[u] = writes[u])
       /\ \A u \in Tasks \ {t} : doc'[u] = doc[u]
  BY <1>1, <1>4, <1>7 DEF TypeOK
<1>14. /\ e2.status = e.status /\ e2.detached = e.detached /\ e2.suppressed = e.suppressed
       /\ e2.recorded = e.recorded /\ e2 # None
       /\ e2.stage = e.stage \/ (e.stage = "persisting" /\ e2.stage = "persisted")
  <2> HIDE DEF e, w
  <2>1. CASE w.settles
    <3>1. e2 = [e EXCEPT !.stage = "persisted"]
      BY <1>7, <2>1
    <3>2. QED
      BY <3>1, <2>1, <1>3, <1>10, NoNone DEF Entry
  <2>2. CASE ~w.settles
    BY <1>3, <1>7, <2>2
  <2>3. QED
    BY <2>1, <2>2
<1>15. toInfo(e2) = toInfo(e)
  BY <1>14 DEF toInfo
<1> HIDE DEF e, w
<1>16. TypeOK'
  <2>1. EntryTypes'
    BY <1>1, <1>3, <1>4, <1>7 DEF TypeOK, EntryTypes, Entry, e
  <2>2. WriteTypes'
    BY <1>1, <1>4, <1>12 DEF TypeOK, WriteTypes, Write
  <2>3. InfoTypes' /\ wire' \in Wire /\ flushed' \in Wire
    BY <1>1, <1>4, <1>6 DEF TypeOK, InfoTypes
  <2>4. KeyTypes' /\ RequestTypes' /\ turn' \in BOOLEAN /\ PlaceTypes' /\ PassTypes'
    BY <1>1, <1>4 DEF TypeOK, KeyTypes, RequestTypes, PlaceTypes, PassTypes, keyVars, agentVars, countVars
  <2>5. QED
    BY <2>1, <2>2, <2>3, <2>4, TypePartsNext
<1>17. TaskMoves(t)
  BY <1>2, <1>3, <1>4, <1>11, <1>13, <1>14, <1>15 DEF TaskMoves, keyVars, agentVars, countVars, e
<1>18. TaskOK(t)'
  <2>1. EntryOK(t) /\ JournalOK(t) /\ GhostOK(t)
    BY <1>1 DEF TaskOK
  <2>2. EntryOK(t)'
    BY <1>2, <1>4, <1>13, <1>14, <2>1 DEF EntryOK, Live, e
  <2>3. WritesOK(t)'
    BY <1>8, <1>12, <1>13, <1>14 DEF WritesOK, Live
  <2>4. JournalOK(t)'
    <3>1. wire' = wire /\ flushed' = flushed /\ boot' = boot /\ ghosts' = ghosts
      BY <1>4 DEF agentVars
    <3>2. ASSUME Ended(wire.tasks[t])
          PROVE  e.stage = "fired" /\ wire.tasks[t] = toInfo(e) /\ ~w.settles
      BY <1>2, <1>10, <2>1, <3>2 DEF JournalOK, e
    <3>3. ASSUME Ended(wire.tasks[t])
          PROVE  ~Ended(d2) /\ (Hushed(d2) => wire.tasks[t].suppressed)
      <4>1. ~Ended(d2)
        BY <1>9, <1>10, <1>11, <3>2, <3>3 DEF Ended
      <4>2. wire.tasks[t].suppressed = e.suppressed
        BY <3>2, <3>3 DEF toInfo
      <4>3. Hushed(d2) => e.suppressed
        BY <1>12, <1>14 DEF Follows
      <4>4. QED
        BY <4>1, <4>2, <4>3
    <3>4. e2.stage = "fired" => e.stage = "fired"
      BY <1>14
    <3>5. Ended(wire.tasks[t]) => e2.stage = "fired"
      BY <3>2, <1>14
    <3>6. e2.stage = "fired" /\ (e2.recorded \/ Ended(wire.tasks[t])) => wire.tasks[t] = toInfo(e2)
      BY <1>2, <1>14, <1>15, <2>1, <3>4 DEF JournalOK, e
    <3>7. Live(t)'
      BY <1>13, <1>14 DEF Live
    <3>8. QED
      BY <2>1, <3>1, <3>3, <3>5, <3>6, <3>7, <1>8, <1>13 DEF JournalOK, Ended
  <2>5. GhostOK(t)'
    BY <1>3, <1>4, <2>1 DEF GhostOK
  <2>6. QED
    BY <2>2, <2>3, <2>4, <2>5 DEF TaskOK
<1>19. QED
  BY <1>16, <1>17, <1>18, TaskMovesOK DEF NoticesInv

LEMMA EndedKey ==
  ASSUME NoticesInv, NEW t \in Tasks, Live(t), entry[t].stage # "live"
  PROVE  Key(t) \in Keys
<1>1. entry[t] \in Entry /\ EntryOK(t)
  BY UpEntry DEF NoticesInv, NoticeInv, TaskOK
<1>2. entry[t].status \in Terminal
  BY <1>1 DEF EntryOK, Entry, Terminal
<1>3. QED
  BY <1>2 DEF Key, Keys

LEMMA FireOK ==
  ASSUME NoticesInv, NEW t \in Tasks, FireTerminalEffects(t)
  PROVE  NoticesInv'
<1> DEFINE e == entry[t]
           e2 == [e EXCEPT !.stage = "fired"]
<1>1. TypeOK /\ EntryOK(t) /\ WritesOK(t) /\ JournalOK(t) /\ GhostOK(t) /\ RequestOK(t)
  BY DEF NoticesInv, NoticeInv, TaskOK
<1>2. Live(t) /\ e.stage = "persisted"
  BY DEF FireTerminalEffects
<1>3. boot = "up" /\ e \in Entry /\ ghosts[t] = None
  BY <1>2, UpEntry
<1>4. /\ e2 \in Entry /\ e2.status = e.status /\ e2.detached = e.detached
      /\ e2.suppressed = e.suppressed /\ e2.recorded = e.recorded /\ e2.stage = "fired"
  BY <1>3 DEF Entry
<1>5. /\ entry' = [entry EXCEPT ![t].stage = "fired"]
      /\ wire' = Recorded(wire, t, toInfo(e))
      /\ \/ building' = building \cup {Key(t)} /\ request' = [request EXCEPT ![t] = "building"]
         \/ UNCHANGED <<building, request>>
      /\ UNCHANGED <<stopping, writes, doc, ghosts, lost, flushed, scheduled, delivered, pending,
                     agentVars, countVars>>
  BY DEF FireTerminalEffects
<1>6. entry'[t] = e2 /\ \A u \in Tasks \ {t} : entry'[u] = entry[u]
  BY <1>1, <1>5 DEF TypeOK
<1>7. /\ toInfo(e) \in Info /\ toInfo(e).status = e.status
      /\ toInfo(e).suppressed = e.suppressed /\ toInfo(e2) = toInfo(e) /\ e2 # None
  BY <1>3, <1>4, InfoOfEntry, NoNone DEF toInfo
<1> HIDE DEF e, e2
<1>8. /\ wire' \in Wire /\ wire'.tasks[t] = toInfo(e)
      /\ \A u \in Tasks \ {t} : wire'.tasks[u] = wire.tasks[u]
      /\ wire'.context = wire.context /\ wire'.delivered = wire.delivered
      /\ wire'.checkpoints = wire.checkpoints
  <2>1. wire \in Wire
    BY <1>1 DEF TypeOK
  <2>2. QED
    BY <2>1, <1>5, <1>7, RecordedParts
<1>9. e.status # "running" /\ e.recorded /\ request[t] = "none" /\ Key(t) \in Keys
  BY <1>1, <1>2, EndedKey DEF EntryOK, RequestOK, e
<1>10. ~Ended(wire.tasks[t]) /\ ~Ended(flushed.tasks[t])
  BY <1>1, <1>2 DEF JournalOK, e
<1>11. /\ \A u \in Tasks \ {t} : request'[u] = request[u]
       /\ request'[t] = "none" \/ request'[t] = "building"
       /\ RequestTypes'
  BY <1>1, <1>5, <1>9 DEF TypeOK, RequestTypes, Requests
<1>12. TypeOK'
  <2>1. EntryTypes'
    BY <1>1, <1>3, <1>4, <1>5 DEF TypeOK, EntryTypes, Entry, e
  <2>2. WriteTypes' /\ InfoTypes' /\ flushed' \in Wire
    BY <1>1, <1>5 DEF TypeOK, InfoTypes, WriteTypes
  <2>3. KeyTypes'
    BY <1>1, <1>5, <1>9 DEF TypeOK, KeyTypes, countVars
  <2>4. turn' \in BOOLEAN /\ PlaceTypes' /\ PassTypes'
    BY <1>1, <1>5 DEF TypeOK, PlaceTypes, PassTypes, agentVars, countVars
  <2>5. QED
    BY <1>8, <1>11, <2>1, <2>2, <2>3, <2>4, TypePartsNext
<1>13. TaskMoves(t)
  <2>1. Ended(doc[t]) => doc'[t] = doc[t]
    BY <1>5
  <2>2. /\ entry'[t] # None /\ toInfo(entry'[t]) = toInfo(entry[t]) /\ entry'[t].stage = "fired"
        /\ entry'[t].recorded = entry[t].recorded /\ entry'[t].recorded
    BY <1>4, <1>6, <1>7, <1>9 DEF e
  <2>3. \/ request'[t] = request[t]
        \/ /\ request[t] = "none" /\ request'[t] = "building"
           /\ entry'[t] # None /\ entry'[t].stage = "fired" /\ entry'[t].recorded
    BY <1>9, <1>11, <2>2
  <2>4. QED
    BY <1>2, <1>3, <1>5, <1>6, <1>8, <1>10, <1>11, <2>1, <2>2, <2>3 DEF TaskMoves, agentVars, countVars
<1>14. TaskOK(t)'
  <2>1. doc' = doc /\ ghosts' = ghosts /\ writes' = writes /\ flushed' = flushed /\ boot' = boot /\ lost' = lost
    BY <1>5 DEF agentVars
  <2>2. Follows(writes[t], e, doc[t])
    BY <1>1, <1>2 DEF WritesOK, e
  <2>3. Follows(writes[t], e2, doc[t])
    BY <1>2, <1>4, <2>2 DEF Follows
  <2>4. EntryOK(t)'
    BY <1>3, <1>4, <1>6, <1>9, <2>1 DEF EntryOK
  <2>5. WritesOK(t)'
    BY <1>6, <1>7, <2>1, <2>3 DEF WritesOK, Live
  <2>6. JournalOK(t)'
    <3>1. Ended(doc[t]) => doc[t].status = e.status
      BY <2>2 DEF Follows
    <3>2. Hushed(doc[t]) => e.suppressed
      BY <2>2 DEF Follows
    <3>3. wire'.tasks[t] # None /\ Live(t)'
      BY <1>6, <1>7, <1>8, NoNone DEF Live
    <3>4. QED
      BY <1>4, <1>6, <1>7, <1>8, <1>10, <2>1, <3>1, <3>2, <3>3 DEF JournalOK
  <2>7. GhostOK(t)'
    BY <1>1, <1>3, <2>1 DEF GhostOK
  <2>8. QED
    BY <2>4, <2>5, <2>6, <2>7 DEF TaskOK
<1>15. QED
  BY <1>12, <1>13, <1>14, TaskMovesOK DEF NoticesInv

-----------------------------------------------------------------------------
(* The steps of a notice *)

\* They leave the tasks alone, in memory, on disk and in the journal.
NoticeMoves ==
  /\ UNCHANGED taskVars /\ wire'.tasks = wire.tasks /\ flushed' = flushed
  /\ boot' = boot \/ (boot \notin {"load", "mark"} /\ boot' = "up")

LEMMA NoticeKeepsTasks ==
  ASSUME NoticesInv, NoticeMoves
  PROVE  \A t \in Tasks : TaskOK(t)'
<1> TAKE t \in Tasks
<1>1. EntryOK(t) /\ WritesOK(t) /\ JournalOK(t) /\ GhostOK(t)
  BY DEF NoticesInv, NoticeInv, TaskOK
<1>2. /\ entry' = entry /\ writes' = writes /\ doc' = doc /\ ghosts' = ghosts /\ lost' = lost
      /\ wire'.tasks = wire.tasks /\ flushed' = flushed
      /\ boot' = boot \/ (boot \notin {"load", "mark"} /\ boot' = "up")
  BY DEF NoticeMoves, taskVars
<1>3. EntryOK(t)' /\ WritesOK(t)'
  BY <1>1, <1>2 DEF EntryOK, WritesOK, Live
<1>4. JournalOK(t)'
  BY <1>1, <1>2 DEF JournalOK, Live
<1>5. GhostOK(t)'
  BY <1>1, <1>2 DEF GhostOK
<1>6. QED
  BY <1>3, <1>4, <1>5 DEF TaskOK

LEMMA NoticeKeepsTaskTypes ==
  ASSUME NoticesInv, NoticeMoves
  PROVE  EntryTypes' /\ WriteTypes' /\ InfoTypes' /\ flushed' \in Wire
BY DEF NoticesInv, NoticeMoves, taskVars, TypeOK, EntryTypes, WriteTypes, InfoTypes

LEMMA NoticeSees ==
  ASSUME NoticeMoves, NEW t
  PROVE  /\ entry' = entry /\ Key(t)' = Key(t) /\ (Live(t)' <=> Live(t))
         /\ (Suppressed(t)' <=> Suppressed(t))
BY DEF NoticeMoves, taskVars, Key, Live, Suppressed

LEMMA NoticeSeesItem ==
  ASSUME NoticeMoves, NEW i
  PROVE  /\ ItemOK(i)' <=> ItemOK(i)
         /\ Suppressed(i.task)' <=> Suppressed(i.task)
BY DEF NoticeMoves, taskVars, Live, Suppressed, ItemOK

\* An item of a pass is about the task's outcome.
LEMMA ItemIsEntry ==
  ASSUME NoticesInv, NEW i \in Item, ItemOK(i), Live(i.task)
  PROVE  ItemKey(i) = Key(i.task)
BY DEF ItemOK, ItemKey, Key, toInfo

\* The pass goes on as it was, if nobody else gets to hold the notice of its item.
LEMMA NoticeKeepsPass ==
  ASSUME NoticesInv, NoticeMoves, pass' = pass, scheduled \subseteq scheduled',
         missed \subseteq missed',
         \A i \in Item : /\ pass # None /\ pass.at = "built" /\ i = pass.item
                         /\ request'[i.task] \in Waiting
                         => request[i.task] \in Waiting
  PROVE  PassOK'
<1> SUFFICES ASSUME pass # None, NEW m \in Item \cup {None}, m = pass.item
             PROVE  /\ \A i \in pass.todo : ItemOK(i)'
                    /\ pass.at # "next" => m \in Item /\ ItemOK(m)'
                    /\ pass.at = "built" =>
                         /\ ~Suppressed(m.task)' /\ ItemKey(m) \in scheduled'
                         /\ request'[m.task] \in Waiting => m.task \in missed'
  BY PassParts DEF PassOK, ItemOK, Live, Suppressed, ItemKey, NoticesInv
<1>1. /\ \A i \in pass.todo : ItemOK(i)
      /\ pass.at # "next" => m \in Item /\ ItemOK(m)
      /\ pass.at = "built" =>
           /\ ~Suppressed(m.task) /\ ItemKey(m) \in scheduled
           /\ request[m.task] \in Waiting => m.task \in missed
  BY DEF NoticesInv, NoticeInv, PassOK
<1>2. \A i \in pass.todo : ItemOK(i)'
  BY <1>1, NoticeSeesItem
<1>3. pass.at # "next" => m \in Item /\ ItemOK(m)'
  BY <1>1, NoticeSeesItem
<1>4. pass.at = "built" => ~Suppressed(m.task)' /\ ItemKey(m) \in scheduled'
  BY <1>1, NoticeSeesItem
<1>5. pass.at = "built" => (request'[m.task] \in Waiting => m.task \in missed')
  BY <1>1
<1>6. QED
  BY <1>2, <1>3, <1>4, <1>5

LEMMA RequestIsUp ==
  ASSUME NoticesInv, NEW t \in Tasks, request[t] # "none"
  PROVE  boot = "up"
BY DEF NoticesInv, NoticeInv, BootOK

\* A step that takes no notice into the conversation.
LEMMA NothingDelivered ==
  ASSUME NoticesInv, NoticeMoves, wire' = wire, delivered' = delivered, early' = early
  PROVE  LedgerOK' /\ Backed(wire)' /\ Backed(flushed)'
<1>1. LedgerOK /\ Backed(wire) /\ Backed(flushed)
  BY DEF NoticesInv, NoticeInv
<1>2. doc' = doc /\ flushed' = flushed /\ (boot = "load" => boot' = "load")
  BY DEF NoticeMoves, taskVars
<1>3. LedgerOK'
  BY <1>1, <1>2 DEF LedgerOK, Grows
<1>4. QED
  BY <1>1, <1>2, <1>3 DEF Backed

LEMMA NoticeBuiltOK ==
  ASSUME NoticesInv, NEW t \in Tasks, NoticeBuilt(t)
  PROVE  NoticesInv'
<1>1. /\ request[t] = "building" /\ building' = building \ {Key(t)}
      /\ \/ request' = [request EXCEPT ![t] = "none"] /\ scheduled' = scheduled
         \/ /\ ~Suppressed(t) /\ ~Handled(Key(t))
            /\ request' = [request EXCEPT ![t] = "built"] /\ scheduled' = scheduled \cup {Key(t)}
      /\ UNCHANGED <<taskVars, wire, flushed, delivered, pending, agentVars, countVars>>
  BY DEF NoticeBuilt
<1>2. TypeOK /\ BootOK /\ ScheduledOK /\ (\A u \in Tasks : RequestOK(u))
  BY DEF NoticesInv, NoticeInv
<1>3. Live(t) /\ entry[t].stage = "fired" /\ boot = "up" /\ Key(t) \in Keys
  BY <1>1, RequestedEntry, RequestIsUp, EndedKey
<1>4. NoticeMoves /\ boot' = boot
  BY <1>1 DEF NoticeMoves, agentVars
<1>5. /\ scheduled \subseteq scheduled' /\ \A u \in Tasks \ {t} : request'[u] = request[u]
      /\ request'[t] = "none" \/ (request'[t] = "built" /\ Key(t) \in scheduled'
                                  /\ ~Suppressed(t) /\ ~Handled(Key(t)))
      /\ request' \in [Tasks -> Requests]
  BY <1>1, <1>2 DEF TypeOK, Requests
<1>6. TypeOK'
  <2>1. KeyTypes'
    BY <1>1, <1>2, <1>3 DEF TypeOK, KeyTypes, countVars
  <2>2. RequestTypes' /\ wire' \in Wire
    BY <1>1, <1>2, <1>5 DEF TypeOK, RequestTypes
  <2>3. turn' \in BOOLEAN /\ PlaceTypes' /\ PassTypes'
    BY <1>1, <1>2 DEF TypeOK, PlaceTypes, PassTypes, agentVars, countVars
  <2>4. QED
    BY <1>4, <2>1, <2>2, <2>3, NoticeKeepsTaskTypes, TypePartsNext
<1>7. BootOK'
  BY <1>1, <1>2, <1>3 DEF BootOK, taskVars, agentVars
<1>8. ASSUME NEW u \in Tasks PROVE RequestOK(u)'
  <2>1. RequestOK(u) /\ pending' = pending /\ missed' = missed /\ undo' = undo
    BY <1>1, <1>2 DEF agentVars, countVars
  <2>2. CASE u # t
    BY <1>4, <1>5, <2>1, <2>2, NoticeSees DEF RequestOK
  <2>3. CASE u = t
    <3>1. t \notin pending
      BY <1>1, <2>1, <2>3 DEF RequestOK
    <3>2. request'[t] # "none" => ~entry[t].suppressed /\ Key(t) \in scheduled'
      BY <1>3, <1>5 DEF Suppressed
    <3>3. Live(t) /\ entry[t].stage = "fired" /\ entry[t].recorded
      BY <1>1, RequestedEntry
    <3>4. QED
      BY <1>4, <2>1, <2>3, <3>1, <3>2, <3>3, NoticeSees DEF RequestOK, Waiting
  <2>4. QED
    BY <2>2, <2>3
<1>9. ScheduledOK'
  <2> SUFFICES ASSUME NEW k \in scheduled'
               PROVE  k \notin delivered' /\ ~InContext(k)' /\ (RequestHolds(k)' \/ PassHolds(k)')
    BY DEF ScheduledOK
  <2>0. delivered' = delivered /\ wire' = wire /\ pending' = pending /\ pass' = pass
    BY <1>1 DEF agentVars
  <2>1. CASE k \in scheduled
    <3>1. k \notin delivered /\ ~InContext(k) /\ (RequestHolds(k) \/ PassHolds(k))
      BY <1>2, <2>1 DEF ScheduledOK
    <3>2. ASSUME RequestHolds(k) PROVE RequestHolds(k)'
      <4>1. k[1] \in Tasks
        BY <1>2, <2>1, KeyParts DEF TypeOK
      <4>2. k[1] # t
        BY <1>1, <3>2 DEF RequestHolds
      <4>3. QED
        BY <1>4, <1>5, <2>0, <3>2, <4>1, <4>2, NoticeSees DEF RequestHolds, Key
    <3>3. ASSUME PassHolds(k) PROVE PassHolds(k)'
      BY <2>0, <3>3 DEF PassHolds, ItemKey
    <3>4. QED
      BY <2>0, <3>1, <3>2, <3>3 DEF InContext
  <2>2. CASE k \notin scheduled
    <3>1. k = Key(t) /\ request'[t] = "built" /\ ~Handled(k)
      BY <1>1, <1>2, <2>2 DEF TypeOK
    <3>2. k[1] = t
      BY <3>1 DEF Key
    <3>3. RequestHolds(k)'
      BY <1>4, <3>1, <3>2 DEF RequestHolds, Key, NoticeMoves, taskVars
    <3>4. QED
      BY <2>0, <3>1, <3>3 DEF Handled, InContext
  <2>3. QED
    BY <2>1, <2>2
<1>10. PassOK'
  <2>1. pass' = pass /\ missed' = missed
    BY <1>1 DEF agentVars, countVars
  <2>2. ASSUME NEW i \in Item, pass # None, pass.at = "built", i = pass.item,
               request'[i.task] \in Waiting
        PROVE  request[i.task] \in Waiting
    <3>1. i.task \in Tasks
      BY DEF Item
    <3>2. CASE i.task # t
      BY <1>5, <2>2, <3>1, <3>2
    <3>3. CASE i.task = t
      <4>1. ItemOK(i) /\ ItemKey(i) \in scheduled
        BY <2>2 DEF NoticesInv, NoticeInv, PassOK
      <4>2. ItemKey(i) = Key(t)
        BY <1>3, <3>3, <4>1, ItemIsEntry
      <4>3. ~Handled(Key(t))
        BY <1>5, <2>2, <3>3 DEF Waiting
      <4>4. QED
        BY <4>1, <4>2, <4>3 DEF Handled
    <3>4. QED
      BY <3>2, <3>3
  <2>3. QED
    BY <1>4, <1>5, <2>1, <2>2, NoticeKeepsPass
<1>11. LedgerOK' /\ Backed(wire)' /\ Backed(flushed)'
  <2>1. wire' = wire /\ delivered' = delivered /\ early' = early
    BY <1>1 DEF countVars
  <2>2. QED
    BY <1>4, <2>1, NothingDelivered
<1>12. QED
  BY <1>4, <1>6, <1>7, <1>8, <1>9, <1>10, <1>11, NoticeKeepsTasks DEF NoticesInv, NoticeInv

LEMMA StillHeld ==
  ASSUME NoticeMoves, NEW k, RequestHolds(k),
         \/ request'[k[1]] = "built"
         \/ request'[k[1]] \in {"held", "queued", "aborted"} /\ k[1] \in pending'
  PROVE  RequestHolds(k)'
BY DEF NoticeMoves, taskVars, RequestHolds, Key

\* While no pass is under way, a scheduled key belongs to a request.
LEMMA ScheduledByRequest ==
  ASSUME NoticesInv, pass = None, NEW k \in scheduled
  PROVE  /\ k \in Keys /\ k[1] \in Tasks /\ k \notin delivered /\ ~InContext(k)
         /\ RequestHolds(k) /\ k = Key(k[1])
<1>1. k \notin delivered /\ ~InContext(k) /\ (RequestHolds(k) \/ PassHolds(k))
  BY DEF NoticesInv, NoticeInv, ScheduledOK
<1>2. k \in Keys /\ k[1] \in Tasks
  BY KeyParts DEF NoticesInv, TypeOK
<1>3. QED
  BY <1>1, <1>2 DEF PassHolds, RequestHolds

LEMMA NoticeAbortedOK ==
  ASSUME NoticesInv, NEW t \in Tasks, NoticeAborted(t)
  PROVE  NoticesInv'
<1>1. /\ request[t] = "aborted" /\ t \in pending /\ pending' = pending \ {t}
      /\ scheduled' = IF Key(t) \in delivered \/ InContext(Key(t))
                      THEN scheduled ELSE scheduled \ {Key(t)}
      /\ UNCHANGED <<taskVars, wire, flushed, building, delivered, request, agentVars, countVars>>
  BY DEF NoticeAborted, ClearPending
<1>2. TypeOK /\ BootOK /\ (\A u \in Tasks : RequestOK(u))
  BY DEF NoticesInv, NoticeInv
<1>3. boot = "up" /\ undo # "reconciled" /\ pass = None
  BY <1>1, <1>2, RequestIsUp DEF RequestOK, BootOK
<1>4. NoticeMoves /\ boot' = boot /\ pass' = pass
  BY <1>1 DEF NoticeMoves, agentVars
<1>5. scheduled' = scheduled \ {Key(t)}
  <2>1. CASE Key(t) \in scheduled
    BY <1>1, <1>3, <2>1, ScheduledByRequest
  <2>2. CASE Key(t) \notin scheduled
    BY <1>1, <2>2
  <2>3. QED
    BY <2>1, <2>2
<1>6. TypeOK'
  <2>1. KeyTypes'
    BY <1>1, <1>2, <1>5 DEF TypeOK, KeyTypes, countVars
  <2>2. RequestTypes' /\ wire' \in Wire
    BY <1>1, <1>2 DEF TypeOK, RequestTypes
  <2>3. turn' \in BOOLEAN /\ PlaceTypes' /\ PassTypes'
    BY <1>1, <1>2 DEF TypeOK, PlaceTypes, PassTypes, agentVars, countVars
  <2>4. QED
    BY <1>4, <2>1, <2>2, <2>3, NoticeKeepsTaskTypes, TypePartsNext
<1>7. BootOK'
  BY <1>1, <1>2, <1>3 DEF BootOK, taskVars, agentVars
<1>8. ASSUME NEW u \in Tasks PROVE RequestOK(u)'
  <2>1. /\ RequestOK(u) /\ request' = request /\ missed' = missed /\ undo' = undo
    BY <1>1, <1>2 DEF agentVars, countVars
  <2>2. CASE u # t
    <3>1. Key(u) \in scheduled => Key(u) \in scheduled'
      BY <1>5, <2>2 DEF Key
    <3>2. QED
      BY <1>1, <1>4, <2>1, <2>2, <3>1, NoticeSees DEF RequestOK
  <2>3. CASE u = t
    BY <1>1, <1>4, <2>1, <2>3, NoticeSees DEF RequestOK, Waiting
  <2>4. QED
    BY <2>2, <2>3
<1>9. ScheduledOK'
  <2> SUFFICES ASSUME NEW k \in scheduled'
               PROVE  k \notin delivered' /\ ~InContext(k)' /\ RequestHolds(k)'
    BY DEF ScheduledOK
  <2>1. /\ k \in scheduled /\ k # Key(t) /\ k \notin delivered /\ ~InContext(k) /\ RequestHolds(k)
        /\ k = Key(k[1])
    BY <1>3, <1>5, ScheduledByRequest
  <2>2. k[1] # t
    BY <2>1
  <2>3. RequestHolds(k)'
    BY <1>1, <1>4, <2>1, <2>2, StillHeld DEF RequestHolds
  <2>4. QED
    BY <1>1, <2>1, <2>3 DEF InContext
<1>10. PassOK'
  BY <1>3, <1>4 DEF PassOK
<1>11. LedgerOK' /\ Backed(wire)' /\ Backed(flushed)'
  <2>1. wire' = wire /\ delivered' = delivered /\ early' = early
    BY <1>1 DEF countVars
  <2>2. QED
    BY <1>4, <2>1, NothingDelivered
<1>12. QED
  BY <1>4, <1>6, <1>7, <1>8, <1>9, <1>10, <1>11, NoticeKeepsTasks DEF NoticesInv, NoticeInv

\* While a turn runs there is neither an undo nor a pass.
LEMMA TurnIsAlone ==
  ASSUME NoticesInv, turn
  PROVE  boot = "up" /\ undo = "none" /\ pass = None
BY DEF NoticesInv, NoticeInv, BootOK

LEMMA EndTurnOK ==
  ASSUME NoticesInv, EndTurn
  PROVE  NoticesInv'
<1>1. /\ turn /\ turn' = FALSE
      /\ request' = [t \in Tasks |-> IF t \in Queued THEN "aborted" ELSE request[t]]
      /\ UNCHANGED <<taskVars, wire, flushed, building, scheduled, delivered, pending,
                     undo, boot, pass, countVars>>
  BY DEF EndTurn
<1>2. TypeOK /\ BootOK /\ (\A u \in Tasks : RequestOK(u))
  BY DEF NoticesInv, NoticeInv
<1>3. boot = "up" /\ undo = "none" /\ pass = None
  BY <1>1, TurnIsAlone
<1>4. NoticeMoves
  BY <1>1 DEF NoticeMoves
<1>5. \A u \in Tasks : IF request[u] = "queued" THEN request'[u] = "aborted" ELSE request'[u] = request[u]
  BY <1>1 DEF Queued
<1>6. TypeOK'
  <2>1. KeyTypes' /\ wire' \in Wire
    BY <1>1, <1>2 DEF TypeOK, KeyTypes, countVars
  <2>2. RequestTypes'
    BY <1>1, <1>2 DEF TypeOK, RequestTypes, Requests
  <2>3. turn' \in BOOLEAN /\ PlaceTypes' /\ PassTypes'
    BY <1>1, <1>2 DEF TypeOK, PlaceTypes, PassTypes, countVars
  <2>4. QED
    BY <1>4, <2>1, <2>2, <2>3, NoticeKeepsTaskTypes, TypePartsNext
<1>7. BootOK'
  BY <1>1, <1>2, <1>3 DEF BootOK, taskVars
<1>8. ASSUME NEW u \in Tasks PROVE RequestOK(u)'
  <2>1. /\ RequestOK(u) /\ pending' = pending /\ missed' = missed /\ undo' = "none" /\ scheduled' = scheduled
    BY <1>1, <1>2, <1>3 DEF countVars
  <2>2. request'[u] \in Waiting => request'[u] = request[u]
    BY <1>5 DEF Waiting
  <2>3. request'[u] # "none" => request[u] # "none"
    BY <1>5
  <2>4. request[u] \in {"held", "queued", "aborted"} => request'[u] \in {"held", "queued", "aborted"}
    BY <1>5
  <2>5. QED
    BY <1>4, <2>1, <2>2, <2>3, <2>4, NoticeSees DEF RequestOK
<1>9. ScheduledOK'
  <2> SUFFICES ASSUME NEW k \in scheduled
               PROVE  k \notin delivered' /\ ~InContext(k)' /\ RequestHolds(k)'
    BY <1>1 DEF ScheduledOK
  <2>1. /\ k \notin delivered /\ ~InContext(k) /\ RequestHolds(k) /\ k[1] \in Tasks
    BY <1>3, ScheduledByRequest
  <2>2. RequestHolds(k)'
    BY <1>1, <1>4, <1>5, <2>1, StillHeld DEF RequestHolds
  <2>3. QED
    BY <1>1, <2>1, <2>2 DEF InContext
<1>10. PassOK'
  BY <1>1, <1>3 DEF PassOK
<1>11. LedgerOK' /\ Backed(wire)' /\ Backed(flushed)'
  <2>1. wire' = wire /\ delivered' = delivered /\ early' = early
    BY <1>1 DEF countVars
  <2>2. QED
    BY <1>4, <2>1, NothingDelivered
<1>12. QED
  BY <1>4, <1>6, <1>7, <1>8, <1>9, <1>10, <1>11, NoticeKeepsTasks DEF NoticesInv, NoticeInv

-----------------------------------------------------------------------------
(* The conversation *)

LEMMA CheckpointsGrow ==
  ASSUME NoticesInv
  PROVE  Grows(wire) /\ Grows(flushed)
BY DEF NoticesInv, NoticeInv, LedgerOK

\* A prompt, a compaction and the cut of an undo change the conversation and leave the
\* notices alone.
LEMMA ConversationMoves ==
  ASSUME NoticesInv, boot = "up", pass = None,
         UNCHANGED <<taskVars, flushed, keyVars, boot, pass, crashes, missed, early>>,
         wire' \in Wire, wire'.tasks = wire.tasks, wire'.delivered \subseteq wire.delivered,
         Grows(wire)', \A k \in Keys : InContext(k)' => InContext(k),
         turn' \in BOOLEAN, undos' \in Nat,
         \/ undo' = "none" /\ undo = "none"
         \/ undo' = "cut" /\ turn' = FALSE
  PROVE  NoticesInv'
<1>1. TypeOK /\ BootOK /\ LedgerOK /\ Backed(wire) /\ Backed(flushed) /\ (\A u \in Tasks : RequestOK(u))
  BY DEF NoticesInv, NoticeInv
<1>2. NoticeMoves
  BY DEF NoticeMoves
<1>3. TypeOK'
  <2>1. KeyTypes' /\ RequestTypes'
    BY <1>1 DEF TypeOK, KeyTypes, RequestTypes, keyVars
  <2>2. PlaceTypes' /\ PassTypes'
    BY <1>1 DEF TypeOK, PlaceTypes, PassTypes
  <2>3. QED
    BY <1>2, <2>1, <2>2, NoticeKeepsTaskTypes, TypePartsNext
<1>4. BootOK'
  BY <1>1 DEF BootOK, taskVars, keyVars
<1>5. ASSUME NEW u \in Tasks PROVE RequestOK(u)'
  <2>1. RequestOK(u) /\ request' = request /\ scheduled' = scheduled /\ pending' = pending
    BY <1>1 DEF keyVars
  <2>2. QED
    BY <1>2, <2>1, NoticeSees DEF RequestOK
<1>6. ScheduledOK'
  <2>0. scheduled' = scheduled /\ delivered' = delivered /\ request' = request /\ pending' = pending
    BY DEF keyVars
  <2> SUFFICES ASSUME NEW k \in scheduled
               PROVE  k \notin delivered' /\ ~InContext(k)' /\ RequestHolds(k)'
    BY <2>0 DEF ScheduledOK
  <2>1. k \in Keys /\ k \notin delivered /\ ~InContext(k) /\ RequestHolds(k)
    BY ScheduledByRequest
  <2>2. RequestHolds(k)'
    BY <1>2, <2>0, <2>1, StillHeld DEF RequestHolds
  <2>3. QED
    BY <2>0, <2>1, <2>2
<1>7. PassOK'
  BY DEF PassOK
<1>8. LedgerOK'
  <2>1. Grows(flushed)'
    BY <1>1 DEF LedgerOK, Grows
  <2>2. wire'.delivered \subseteq delivered'
    BY <1>1 DEF LedgerOK, keyVars
  <2>3. QED
    BY <2>1, <2>2 DEF LedgerOK
<1>9. Backed(wire)' /\ Backed(flushed)'
  BY <1>1 DEF Backed, taskVars
<1>10. QED
  BY <1>2, <1>3, <1>4, <1>5, <1>6, <1>7, <1>8, <1>9, NoticeKeepsTasks DEF NoticesInv, NoticeInv

LEMMA IdleIsUp ==
  ASSUME NoticesInv, Idle
  PROVE  boot = "up" /\ turn = FALSE /\ undo = "none" /\ pass = None
BY DEF NoticesInv, NoticeInv, TypeOK, BootOK, Idle, Up, Leased

LEMMA PromptOK ==
  ASSUME NoticesInv, Prompt
  PROVE  NoticesInv'
<1>1. /\ Idle /\ turn' = TRUE
      /\ wire' = [wire EXCEPT !.context = Append(@, Anchor),
                              !.checkpoints = Append(@, wire.delivered)]
      /\ UNCHANGED <<taskVars, flushed, keyVars, undo, boot, pass, countVars>>
  BY DEF Prompt
<1>2. boot = "up" /\ undo = "none" /\ pass = None
  BY <1>1, IdleIsUp
<1>3. wire \in Wire /\ undos \in Nat
  BY DEF NoticesInv, TypeOK
<1>4. /\ wire.context \in Seq(Keys \cup {Anchor}) /\ wire.checkpoints \in Seq(SUBSET Keys)
      /\ wire.delivered \subseteq Keys
  BY <1>3, WireParts
<1>5. /\ wire'.tasks = wire.tasks /\ wire'.delivered = wire.delivered
      /\ wire'.context = Append(wire.context, Anchor)
      /\ wire'.checkpoints = Append(wire.checkpoints, wire.delivered)
      /\ wire' \in Wire
  <2>1. /\ Append(wire.context, Anchor) \in Seq(Keys \cup {Anchor})
        /\ Append(wire.checkpoints, wire.delivered) \in Seq(SUBSET Keys)
    BY <1>4
  <2>2. PICK c \in Seq(Keys \cup {Anchor}), p \in Seq(SUBSET Keys) :
          c = Append(wire.context, Anchor) /\ p = Append(wire.checkpoints, wire.delivered)
    BY <2>1
  <2>3. wire' = [wire EXCEPT !.context = c, !.checkpoints = p]
    BY <1>1, <2>2
  <2>4. QED
    BY <1>3, <2>2, <2>3 DEF Wire
<1>6. Grows(wire)'
  <2> DEFINE c == wire.checkpoints
             n == Len(c) + 1
  <2>1. /\ Len(wire'.checkpoints) = n /\ wire'.checkpoints[n] = wire.delivered /\ Len(c) \in Nat
        /\ \A i \in 1..Len(c) : wire'.checkpoints[i] = c[i]
    BY <1>4, <1>5
  <2>2. /\ \A i \in 1..Len(c) : c[i] \subseteq wire.delivered
        /\ \A i, j \in 1..Len(c) : i <= j => c[i] \subseteq c[j]
    BY CheckpointsGrow DEF Grows
  <2>3. \A i \in 1..n : i = n \/ i \in 1..Len(c)
    BY <2>1
  <2> HIDE DEF c, n
  <2>4. \A i \in 1..n : wire'.checkpoints[i] \subseteq wire.delivered
    BY <2>1, <2>2, <2>3
  <2>5. ASSUME NEW i \in 1..n, NEW j \in 1..n, i <= j
        PROVE  wire'.checkpoints[i] \subseteq wire'.checkpoints[j]
    <3>1. CASE j = n
      BY <2>1, <2>4, <3>1
    <3>2. CASE j \in 1..Len(c)
      <4>1. i \in 1..Len(c)
        BY <2>1, <2>5, <3>2
      <4>2. QED
        BY <2>1, <2>2, <2>5, <3>2, <4>1
    <3>3. QED
      BY <2>3, <3>1, <3>2
  <2>6. QED
    BY <1>5, <2>1, <2>4, <2>5 DEF Grows
<1>7. ASSUME NEW k \in Keys, InContext(k)' PROVE InContext(k)
  <2>1. PICK i \in 1..(Len(wire.context) + 1) : k = wire'.context[i]
    BY <1>4, <1>5, <1>7 DEF InContext, ToSet
  <2>2. i \in 1..Len(wire.context) /\ wire'.context[i] = wire.context[i]
    BY <1>4, <1>5, <2>1, AnchorIsNoKey
  <2>3. QED
    BY <1>4, <2>1, <2>2 DEF InContext, ToSet
<1>8. QED
  BY <1>1, <1>2, <1>3, <1>5, <1>6, <1>7, ConversationMoves DEF countVars

LEMMA CompactOK ==
  ASSUME NoticesInv, Compact
  PROVE  NoticesInv'
<1>1. /\ boot = "up" /\ undo = "none"
      /\ wire' = [wire EXCEPT !.context = <<>>, !.checkpoints = <<>>]
      /\ UNCHANGED <<taskVars, flushed, keyVars, agentVars, countVars>>
  BY DEF Compact, Up, Leased
<1>2. wire \in Wire /\ undos \in Nat /\ turn \in BOOLEAN /\ pass = None
  BY <1>1 DEF NoticesInv, TypeOK, NoticeInv, BootOK
<1>3. /\ wire'.tasks = wire.tasks /\ wire'.delivered = wire.delivered
      /\ wire'.context = <<>> /\ wire'.checkpoints = <<>> /\ wire' \in Wire
  <2>1. <<>> \in Seq(Keys \cup {Anchor}) /\ <<>> \in Seq(SUBSET Keys)
    OBVIOUS
  <2>2. PICK c \in Seq(Keys \cup {Anchor}), p \in Seq(SUBSET Keys) : c = <<>> /\ p = <<>>
    BY <2>1
  <2>3. wire' = [wire EXCEPT !.context = c, !.checkpoints = p]
    BY <1>1, <2>2
  <2>4. QED
    BY <1>2, <2>2, <2>3 DEF Wire
<1>4. Grows(wire)'
  BY <1>3 DEF Grows
<1>5. \A k \in Keys : ~InContext(k)'
  BY <1>3 DEF InContext, ToSet
<1>6. QED
  BY <1>1, <1>2, <1>3, <1>4, <1>5, ConversationMoves DEF agentVars, countVars

LEMMA BeginUndoOK ==
  ASSUME NoticesInv, NEW n \in 1..Len(wire.checkpoints), BeginUndo(n)
  PROVE  NoticesInv'
<1> DEFINE m == Len(wire.checkpoints) + 1 - n
<1>1. /\ Idle /\ undo' = "cut" /\ undos' = undos + 1
      /\ \E at \in 1..Len(wire.context) : IsCut(at, m) /\ wire' = Cut(wire, at, m)
      /\ UNCHANGED <<taskVars, flushed, keyVars, turn, boot, pass, crashes, missed, early>>
  BY DEF BeginUndo
<1>2. PICK at \in 1..Len(wire.context) : wire' = Cut(wire, at, m)
  BY <1>1
<1>3. boot = "up" /\ turn = FALSE /\ pass = None
  BY <1>1, IdleIsUp
<1>4. wire \in Wire /\ undos \in Nat
  BY DEF NoticesInv, TypeOK
<1>5. /\ wire.context \in Seq(Keys \cup {Anchor}) /\ wire.checkpoints \in Seq(SUBSET Keys)
      /\ wire.delivered \subseteq Keys
  BY <1>4, WireParts
<1>6. m \in 1..Len(wire.checkpoints) /\ Len(wire.checkpoints) \in Nat /\ Len(wire.context) \in Nat
  BY <1>5
<1> HIDE DEF m
<1>7. /\ SubSeq(wire.context, 1, at - 1) \in Seq(Keys \cup {Anchor})
      /\ Len(SubSeq(wire.context, 1, at - 1)) = at - 1
      /\ \A i \in 1..(at - 1) : SubSeq(wire.context, 1, at - 1)[i] = wire.context[i]
  BY <1>5, <1>6
<1>8. /\ SubSeq(wire.checkpoints, 1, m - 1) \in Seq(SUBSET Keys)
      /\ Len(SubSeq(wire.checkpoints, 1, m - 1)) = m - 1
      /\ \A i \in 1..(m - 1) : SubSeq(wire.checkpoints, 1, m - 1)[i] = wire.checkpoints[i]
  BY <1>5, <1>6
<1>9. wire.checkpoints[m] \subseteq Keys
  BY <1>5, <1>6
<1>10. /\ wire'.tasks = wire.tasks /\ wire'.delivered = wire.checkpoints[m]
       /\ wire'.context = SubSeq(wire.context, 1, at - 1)
       /\ wire'.checkpoints = SubSeq(wire.checkpoints, 1, m - 1) /\ wire' \in Wire
  BY <1>2, <1>4, <1>7, <1>8, <1>9 DEF Cut, Wire
<1>11. /\ \A i \in 1..Len(wire.checkpoints) : wire.checkpoints[i] \subseteq wire.delivered
       /\ \A i, j \in 1..Len(wire.checkpoints) : i <= j => wire.checkpoints[i] \subseteq wire.checkpoints[j]
  BY CheckpointsGrow DEF Grows
<1>12. wire'.delivered \subseteq wire.delivered
  BY <1>6, <1>10, <1>11
<1>13. Grows(wire)'
  <2>1. \A i \in 1..(m - 1) : i \in 1..Len(wire.checkpoints) /\ i <= m
    BY <1>6
  <2>2. /\ Len(wire'.checkpoints) = m - 1
        /\ \A i \in 1..(m - 1) : wire'.checkpoints[i] = wire.checkpoints[i]
    BY <1>8, <1>10
  <2>3. \A i \in 1..(m - 1) : wire'.checkpoints[i] \subseteq wire'.delivered
    BY <1>6, <1>10, <1>11, <2>1, <2>2
  <2>4. \A i, j \in 1..(m - 1) : i <= j => wire'.checkpoints[i] \subseteq wire'.checkpoints[j]
    BY <1>11, <2>1, <2>2
  <2>5. QED
    BY <2>2, <2>3, <2>4 DEF Grows
<1>14. ASSUME NEW k \in Keys, InContext(k)' PROVE InContext(k)
  <2>1. PICK i \in 1..(at - 1) : k = wire'.context[i]
    BY <1>7, <1>10, <1>14 DEF InContext, ToSet
  <2>2. i \in 1..Len(wire.context) /\ wire'.context[i] = wire.context[i]
    BY <1>6, <1>7, <1>10, <2>1
  <2>3. QED
    BY <1>5, <2>1, <2>2 DEF InContext, ToSet
<1>15. undos' \in Nat /\ turn' = FALSE
  BY <1>1, <1>3, <1>4
<1>16. QED
  BY <1>1, <1>3, <1>10, <1>12, <1>13, <1>14, <1>15, ConversationMoves

-----------------------------------------------------------------------------
(* The pass *)

LEMMA NewPassOK ==
  ASSUME TypeOK, NEW gs \in [Tasks -> Info \cup {None}], NEW p, p = NewPass(gs)
  PROVE  /\ p \in Pass /\ p # None /\ p.at = "next" /\ p.todo \subseteq Item
         /\ \A i \in p.todo :
              /\ i.info = IF Live(i.task) THEN toInfo(entry[i.task]) ELSE gs[i.task]
              /\ i.info.status \in Terminal /\ i.info.detached
<1>1. p = [todo |-> Listed(gs), at |-> "next", item |-> None]
  BY DEF NewPass
<1>2. ASSUME NEW i \in Listed(gs)
      PROVE  /\ i \in Item
             /\ i.info = IF Live(i.task) THEN toInfo(entry[i.task]) ELSE gs[i.task]
             /\ i.info.status \in Terminal /\ i.info.detached
  <2> DEFINE S == {toInfo(entry[t]) : t \in {u \in Tasks : Live(u)}}
                    \cup {gs[t] : t \in {u \in Tasks : gs[u] # None}}
  <2>1. /\ i \in [task : Tasks, info : S]
        /\ i.info = IF Live(i.task) THEN toInfo(entry[i.task]) ELSE gs[i.task]
        /\ i.info.status \in Terminal /\ i.info.detached
    BY DEF Listed
  <2>2. \A t \in Tasks : Live(t) => toInfo(entry[t]) \in Info
    BY LiveEntry, InfoOfEntry
  <2>3. S \subseteq Info
    BY <2>2
  <2> HIDE DEF S
  <2>4. i \in Item
    BY <2>1, <2>3 DEF Item
  <2>5. QED
    BY <2>1, <2>4
<1>3. Listed(gs) \subseteq Item
  BY <1>2
<1>4. p \in Pass
  BY <1>1, <1>3 DEF Pass
<1>5. p.todo = Listed(gs) /\ p.at = "next"
  BY <1>1
<1>6. QED
  BY <1>2, <1>3, <1>4, <1>5, NoNone

LEMMA ReconcileOK ==
  ASSUME NoticesInv, Reconcile
  PROVE  NoticesInv'
<1> DEFINE waiting == {t \in pending : request[t] # "aborted"}
           cleared == {t \in pending : request[t] = "aborted" /\ Key(t) \notin delivered
                                         /\ ~InContext(Key(t))}
<1>1. /\ undo = "cut" /\ undo' = "reconciled" /\ pending' = waiting
      /\ delivered' = wire.delivered
      /\ scheduled' = {k \in scheduled \ {Key(t) : t \in cleared} :
                         k \notin wire.delivered /\ k[1] \in waiting}
      /\ missed' = missed \cup {t \in Tasks : request[t] = "built"}
      /\ pass' = NewPass(ghosts)
      /\ UNCHANGED <<taskVars, wire, flushed, building, request, turn, boot, undos, crashes, early>>
  BY DEF Reconcile, DeliveredAfterUndo
<1>2. TypeOK /\ BootOK /\ LedgerOK /\ (\A u \in Tasks : RequestOK(u)) /\ Backed(wire) /\ Backed(flushed)
  BY DEF NoticesInv, NoticeInv
<1>3. boot = "up" /\ pass = None /\ ~turn
  BY <1>1, <1>2 DEF BootOK
<1>4. NoticeMoves
  BY <1>1 DEF NoticeMoves
<1>5. /\ pass' \in Pass /\ pass' # None /\ pass'.at = "next" /\ pass'.todo \subseteq Item
      /\ \A i \in pass'.todo : ItemOK(i)
  <2>1. ghosts \in [Tasks -> Info \cup {None}]
    BY <1>2 DEF TypeOK
  <2>2. QED
    BY <1>1, <1>2, <2>1, NewPassOK DEF ItemOK
<1>6. \A u \in Tasks : u \in waiting <=> u \in pending /\ request[u] # "aborted"
  OBVIOUS
<1>7. \A k \in scheduled' : k \in scheduled /\ k \notin wire.delivered /\ k[1] \in waiting
  BY <1>1
<1>8. ASSUME NEW u \in Tasks, Key(u) \in scheduled, request[u] \in {"held", "queued"}
      PROVE  Key(u) \in scheduled'
  <2>1. Key(u) \notin delivered /\ RequestHolds(Key(u))
    BY <1>3, <1>8, ScheduledByRequest
  <2>2. Key(u)[1] = u
    BY DEF Key
  <2>3. u \in waiting
    BY <1>8, <2>1, <2>2 DEF RequestHolds
  <2>4. Key(u) \notin wire.delivered
    BY <1>2, <1>3, <2>1 DEF LedgerOK
  <2>5. Key(u) \notin {Key(t) : t \in cleared}
    BY <1>8 DEF Key
  <2>6. QED
    BY <1>1, <1>8, <2>2, <2>3, <2>4, <2>5
<1> HIDE DEF waiting, cleared
<1>9. TypeOK'
  <2>1. KeyTypes'
    <3>1. waiting \subseteq Tasks
      BY <1>2 DEF TypeOK, waiting
    <3>2. wire.delivered \subseteq Keys
      BY <1>2, WireParts DEF TypeOK
    <3>3. QED
      BY <1>1, <1>2, <1>7, <3>1, <3>2 DEF TypeOK, KeyTypes
  <2>2. RequestTypes' /\ wire' \in Wire /\ turn' \in BOOLEAN
    BY <1>1, <1>2 DEF TypeOK, RequestTypes
  <2>3. PlaceTypes' /\ PassTypes'
    BY <1>1, <1>2, <1>5 DEF TypeOK, PlaceTypes, PassTypes
  <2>4. QED
    BY <1>4, <2>1, <2>2, <2>3, NoticeKeepsTaskTypes, TypePartsNext
<1>10. BootOK'
  BY <1>1, <1>2, <1>3 DEF BootOK, taskVars
<1>11. ASSUME NEW u \in Tasks PROVE RequestOK(u)'
  <2>1. RequestOK(u) /\ request' = request
    BY <1>1, <1>2
  <2>2. request[u] \in Waiting => u \in missed' \/ Key(u) \in scheduled'
    BY <1>1, <1>8, <2>1 DEF RequestOK, Waiting
  <2>3. u \in pending' => u \in pending /\ request[u] # "aborted"
    BY <1>1, <1>6
  <2>4. QED
    BY <1>4, <2>1, <2>2, <2>3, NoticeSees DEF RequestOK
<1>12. ScheduledOK'
  <2> SUFFICES ASSUME NEW k \in scheduled'
               PROVE  k \notin delivered' /\ ~InContext(k)' /\ RequestHolds(k)'
    BY DEF ScheduledOK
  <2>1. k \in scheduled /\ k \notin wire.delivered /\ k[1] \in waiting
    BY <1>7
  <2>2. ~InContext(k) /\ RequestHolds(k) /\ k[1] \in Tasks
    BY <1>3, <2>1, ScheduledByRequest
  <2>3. RequestOK(k[1]) /\ k[1] \in pending /\ k[1] \in pending'
    BY <1>1, <1>2, <1>6, <2>1, <2>2
  <2>4. request'[k[1]] \in {"held", "queued", "aborted"}
    BY <1>1, <2>3 DEF RequestOK
  <2>5. RequestHolds(k)'
    BY <1>4, <2>2, <2>3, <2>4, StillHeld
  <2>6. QED
    BY <1>1, <2>1, <2>2, <2>5 DEF InContext
<1>13. PassOK'
  <2>1. \A i \in pass'.todo : ItemOK(i)'
    BY <1>4, <1>5, NoticeSeesItem
  <2>2. QED
    BY <1>5, <2>1 DEF PassOK
<1>14. LedgerOK'
  BY <1>1, <1>2 DEF LedgerOK, Grows
<1>15. Backed(wire)' /\ Backed(flushed)'
  BY <1>1, <1>2 DEF Backed, taskVars
<1>16. QED
  BY <1>4, <1>9, <1>10, <1>11, <1>12, <1>13, <1>14, <1>15, NoticeKeepsTasks DEF NoticesInv, NoticeInv

LEMMA ItemKeyType ==
  ASSUME NEW i \in Item, ItemOK(i)
  PROVE  ItemKey(i) \in Keys
BY DEF ItemOK, ItemKey, Item, Keys

LEMMA PassNextOK ==
  ASSUME NoticesInv, NEW i \in Item, PassNext(i)
  PROVE  NoticesInv'
<1> DEFINE left == [pass EXCEPT !.todo = @ \ {i}]
<1>1. /\ pass # None /\ pass.at = "next" /\ i \in pass.todo
      /\ \/ building' = building \cup {ItemKey(i)} /\ pass' = [left EXCEPT !.at = "building", !.item = i]
         \/ building' = building /\ pass' = left
      /\ UNCHANGED <<taskVars, wire, flushed, scheduled, delivered, request, pending,
                     turn, undo, boot, countVars>>
  BY DEF PassNext
<1>2. /\ TypeOK /\ BootOK /\ PassOK /\ ScheduledOK /\ (\A u \in Tasks : RequestOK(u))
  BY DEF NoticesInv, NoticeInv
<1>3. pass \in Pass /\ pass.todo \subseteq Item
  BY <1>1, <1>2, PassParts
<1>4. /\ pass' \in Pass /\ pass'.todo = pass.todo \ {i}
      /\ \/ pass'.at = "next"
         \/ pass'.at = "building" /\ pass'.item = i
  BY <1>1, <1>3 DEF Pass
<1> HIDE DEF left
<1>5. pass' # None
  BY <1>4, NoNone
<1>6. NoticeMoves
  BY <1>1 DEF NoticeMoves
<1>7. (\A j \in pass.todo : ItemOK(j)') /\ ItemOK(i) /\ ItemKey(i) \in Keys
  BY <1>1, <1>2, <1>6, NoticeSeesItem, ItemKeyType DEF PassOK
<1>8. TypeOK'
  <2>1. KeyTypes' /\ RequestTypes' /\ wire' \in Wire /\ turn' \in BOOLEAN
    BY <1>1, <1>2, <1>7 DEF TypeOK, KeyTypes, RequestTypes, countVars
  <2>2. PlaceTypes' /\ PassTypes'
    BY <1>1, <1>2, <1>4 DEF TypeOK, PlaceTypes, PassTypes, countVars
  <2>3. QED
    BY <1>6, <2>1, <2>2, NoticeKeepsTaskTypes, TypePartsNext
<1>9. BootOK'
  BY <1>1, <1>2 DEF BootOK, taskVars
<1>10. ASSUME NEW u \in Tasks PROVE RequestOK(u)'
  BY <1>1, <1>2, <1>6, NoticeSees DEF RequestOK, countVars
<1>11. ScheduledOK'
  <2> SUFFICES ASSUME NEW k \in scheduled
               PROVE  k \notin delivered' /\ ~InContext(k)' /\ RequestHolds(k)'
    BY <1>1 DEF ScheduledOK
  <2>1. k \notin delivered /\ ~InContext(k) /\ RequestHolds(k)
    BY <1>1, <1>2 DEF ScheduledOK, PassHolds
  <2>2. RequestHolds(k)'
    BY <1>1, <1>6, <2>1, StillHeld DEF RequestHolds
  <2>3. QED
    BY <1>1, <2>1, <2>2 DEF InContext
<1>12. PassOK'
  <2>1. \A j \in pass'.todo : ItemOK(j)'
    BY <1>4, <1>7
  <2>2. PICK m \in Item : m = i
    OBVIOUS
  <2>3. ItemOK(m)'
    BY <1>1, <1>7, <2>2
  <2>4. pass'.at # "built" /\ (pass'.at # "next" => pass'.item = m)
    BY <1>4, <2>2
  <2>5. QED
    BY <2>1, <2>2, <2>3, <2>4 DEF PassOK
<1>13. LedgerOK' /\ Backed(wire)' /\ Backed(flushed)'
  BY <1>1, <1>6, NothingDelivered DEF countVars
<1>14. QED
  BY <1>6, <1>8, <1>9, <1>10, <1>11, <1>12, <1>13, NoticeKeepsTasks DEF NoticesInv, NoticeInv

LEMMA PassBuiltOK ==
  ASSUME NoticesInv, PassBuilt
  PROVE  NoticesInv'
<1>0. pass # None /\ pass.at = "building"
  BY DEF PassBuilt
<1>1. /\ TypeOK /\ BootOK /\ PassOK /\ ScheduledOK /\ (\A u \in Tasks : RequestOK(u))
  BY DEF NoticesInv, NoticeInv
<1>2. PICK m \in Item : m = pass.item
  BY <1>0, <1>1 DEF PassOK
<1>3. /\ building' = building \ {ItemKey(m)}
      /\ \/ pass' = [pass EXCEPT !.at = "next", !.item = None] /\ scheduled' = scheduled
         \/ /\ ~Suppressed(m.task) /\ ~Handled(ItemKey(m))
            /\ pass' = [pass EXCEPT !.at = "built"] /\ scheduled' = scheduled \cup {ItemKey(m)}
      /\ UNCHANGED <<taskVars, wire, flushed, delivered, request, pending, turn, undo, boot, countVars>>
  BY <1>2 DEF PassBuilt
<1>4. pass \in Pass /\ pass.todo \subseteq Item /\ pass.item = m
  BY <1>0, <1>1, <1>2, PassParts
<1>5. /\ pass' \in Pass /\ pass'.todo = pass.todo
      /\ \/ pass'.at = "next" /\ scheduled' = scheduled
         \/ /\ pass'.at = "built" /\ pass'.item = m /\ scheduled' = scheduled \cup {ItemKey(m)}
            /\ ~Suppressed(m.task) /\ ~Handled(ItemKey(m))
  BY <1>3, <1>4 DEF Pass
<1>6. NoticeMoves /\ pass' # None
  BY <1>3, <1>5, NoNone DEF NoticeMoves
<1>7. ItemOK(m) /\ ItemOK(m)' /\ ItemKey(m) \in Keys /\ m.task \in Tasks /\ (\A j \in pass.todo : ItemOK(j)')
  BY <1>0, <1>1, <1>2, <1>6, NoticeSeesItem, ItemKeyType DEF PassOK, Item
<1>8. TypeOK'
  <2>1. KeyTypes' /\ RequestTypes' /\ wire' \in Wire /\ turn' \in BOOLEAN
    BY <1>1, <1>3, <1>7 DEF TypeOK, KeyTypes, RequestTypes, countVars
  <2>2. PlaceTypes' /\ PassTypes'
    BY <1>1, <1>3, <1>5 DEF TypeOK, PlaceTypes, PassTypes, countVars
  <2>3. QED
    BY <1>6, <2>1, <2>2, NoticeKeepsTaskTypes, TypePartsNext
<1>9. BootOK'
  BY <1>0, <1>1, <1>3 DEF BootOK, taskVars
<1>10. ASSUME NEW u \in Tasks PROVE RequestOK(u)'
  BY <1>1, <1>3, <1>5, <1>6, NoticeSees DEF RequestOK, countVars
<1>11. ScheduledOK'
  <2> SUFFICES ASSUME NEW k \in scheduled'
               PROVE  k \notin delivered' /\ ~InContext(k)' /\ (RequestHolds(k)' \/ PassHolds(k)')
    BY DEF ScheduledOK
  <2>1. CASE k \in scheduled
    <3>1. k \notin delivered /\ ~InContext(k) /\ RequestHolds(k)
      BY <1>0, <1>1, <2>1 DEF ScheduledOK, PassHolds
    <3>2. RequestHolds(k)'
      BY <1>3, <1>6, <3>1, StillHeld DEF RequestHolds
    <3>3. QED
      BY <1>3, <3>1, <3>2 DEF InContext
  <2>2. CASE k \notin scheduled
    <3>1. k = ItemKey(m) /\ pass'.at = "built" /\ pass'.item = m /\ ~Handled(k)
      BY <1>5, <2>2
    <3>2. PassHolds(k)'
      BY <1>6, <3>1 DEF PassHolds, ItemKey
    <3>3. QED
      BY <1>3, <3>1, <3>2 DEF Handled, InContext
  <2>3. QED
    BY <2>1, <2>2
<1>12. PassOK'
  <2>1. ASSUME pass'.at = "built"
        PROVE  /\ ~Suppressed(m.task)' /\ ItemKey(m) \in scheduled'
               /\ request'[m.task] \in Waiting => m.task \in missed'
    <3>1. ~Suppressed(m.task) /\ ~Handled(ItemKey(m)) /\ ItemKey(m) \in scheduled'
      BY <1>5, <2>1
    <3>2. ASSUME request'[m.task] \in Waiting PROVE m.task \in missed'
      <4>1. request[m.task] \in Waiting /\ request[m.task] # "none"
        BY <1>3, <3>2 DEF Waiting
      <4>2. Live(m.task) /\ (m.task \in missed \/ Key(m.task) \in scheduled)
        BY <1>1, <1>7, <4>1 DEF RequestOK
      <4>3. ItemKey(m) = Key(m.task)
        BY <1>7, <4>2, ItemIsEntry
      <4>4. QED
        BY <1>3, <3>1, <4>2, <4>3 DEF Handled, countVars
    <3>3. ~Suppressed(m.task)'
      BY <1>6, <3>1, NoticeSeesItem
    <3>4. QED
      BY <3>1, <3>2, <3>3
  <2>2. pass'.at # "next" => pass'.at = "built" /\ pass'.item = m
    BY <1>5
  <2>3. \A j \in pass'.todo : ItemOK(j)'
    BY <1>5, <1>7
  <2>4. QED
    BY <1>7, <2>1, <2>2, <2>3 DEF PassOK, ItemKey, Suppressed, Live
<1>13. LedgerOK' /\ Backed(wire)' /\ Backed(flushed)'
  BY <1>3, <1>6, NothingDelivered DEF countVars
<1>14. QED
  BY <1>6, <1>8, <1>9, <1>10, <1>11, <1>12, <1>13, NoticeKeepsTasks DEF NoticesInv, NoticeInv

-----------------------------------------------------------------------------
(* Delivery *)

LEMMA DeliverParts ==
  ASSUME wire \in Wire, NEW ks \in Seq(Keys), Deliver(ks)
  PROVE  /\ wire' \in Wire /\ wire'.tasks = wire.tasks /\ wire'.checkpoints = wire.checkpoints
         /\ wire'.context = wire.context \o ks
         /\ wire'.delivered = wire.delivered \cup ToSet(ks) /\ ToSet(ks) \subseteq Keys
         /\ \A k : InContext(k)' <=> InContext(k) \/ k \in ToSet(ks)
         /\ scheduled' = scheduled \ ToSet(ks)
         /\ pending' = pending \ {k[1] : k \in ToSet(ks)}
         /\ delivered' = delivered \cup ToSet(ks)
<1>1. /\ wire' = [wire EXCEPT !.context = wire.context \o ks, !.delivered = wire.delivered \cup ToSet(ks)]
      /\ scheduled' = scheduled \ ToSet(ks)
      /\ pending' = pending \ {k[1] : k \in ToSet(ks)}
      /\ delivered' = delivered \cup ToSet(ks)
  BY DEF Deliver, Appended
<1>2. /\ wire.context \in Seq(Keys \cup {Anchor}) /\ wire.delivered \subseteq Keys
  BY WireParts
<1>3. ks \in Seq(Keys \cup {Anchor}) /\ DOMAIN ks = 1..Len(ks) /\ Len(ks) \in Nat
  OBVIOUS
<1>4. ToSet(ks) \subseteq Keys
  BY <1>3 DEF ToSet
<1>5. PICK c \in Seq(Keys \cup {Anchor}) : c = wire.context \o ks
  BY <1>2, <1>3, ConcatProperties
<1>6. PICK D \in SUBSET Keys : D = wire.delivered \cup ToSet(ks)
  BY <1>2, <1>4
<1>7. /\ wire' \in Wire /\ wire'.tasks = wire.tasks /\ wire'.checkpoints = wire.checkpoints
      /\ wire'.context = c /\ wire'.delivered = D
  <2>1. wire' = [wire EXCEPT !.context = c, !.delivered = D]
    BY <1>1, <1>5, <1>6
  <2>2. QED
    BY <2>1 DEF Wire
<1>8. ASSUME NEW k PROVE InContext(k)' <=> InContext(k) \/ k \in ToSet(ks)
  <2>1. /\ DOMAIN c = 1..(Len(wire.context) + Len(ks)) /\ DOMAIN wire.context = 1..Len(wire.context)
        /\ Len(wire.context) \in Nat
        /\ \A i \in 1..Len(wire.context) : c[i] = wire.context[i]
        /\ \A i \in 1..Len(ks) : c[Len(wire.context) + i] = ks[i]
    BY <1>2, <1>3, <1>5
  <2>2. ASSUME NEW i \in DOMAIN c PROVE c[i] \in ToSet(wire.context) \/ c[i] \in ToSet(ks)
    <3>1. CASE i \in 1..Len(wire.context)
      BY <2>1, <3>1 DEF ToSet
    <3>2. CASE i \notin 1..Len(wire.context)
      <4>1. i - Len(wire.context) \in 1..Len(ks) /\ i = Len(wire.context) + (i - Len(wire.context))
        BY <1>3, <2>1, <2>2, <3>2
      <4>2. c[i] = ks[i - Len(wire.context)]
        BY <2>1, <4>1
      <4>3. QED
        BY <1>3, <4>1, <4>2 DEF ToSet
    <3>3. QED
      BY <3>1, <3>2
  <2>3. ASSUME NEW i \in DOMAIN wire.context PROVE wire.context[i] \in ToSet(c)
    <3>1. i \in DOMAIN c /\ c[i] = wire.context[i]
      BY <1>3, <2>1, <2>3
    <3>2. QED
      BY <3>1 DEF ToSet
  <2>4. ASSUME NEW i \in DOMAIN ks PROVE ks[i] \in ToSet(c)
    <3>1. Len(wire.context) + i \in DOMAIN c /\ c[Len(wire.context) + i] = ks[i]
      BY <1>3, <2>1, <2>4
    <3>2. QED
      BY <3>1 DEF ToSet
  <2>5. k \in ToSet(c) => k \in ToSet(wire.context) \/ k \in ToSet(ks)
    BY <2>2 DEF ToSet
  <2>6. k \in ToSet(wire.context) => k \in ToSet(c)
    BY <2>3 DEF ToSet
  <2>7. k \in ToSet(ks) => k \in ToSet(c)
    BY <2>4 DEF ToSet
  <2>8. QED
    BY <1>7, <2>5, <2>6, <2>7 DEF InContext
<1>9. QED
  BY <1>1, <1>4, <1>5, <1>6, <1>7, <1>8

\* The ledger after a delivery, if the outcomes delivered are the ones the journal or the
\* document has.
LEMMA DeliveryKept ==
  ASSUME NoticesInv, NoticeMoves, NEW ks \in Seq(Keys), Deliver(ks), boot # "load",
         early \subseteq early',
         \A k \in ToSet(ks) : \/ k[1] \in early'
                              \/ Shows(wire.tasks[k[1]], k[2]) \/ Shows(doc[k[1]], k[2])
  PROVE  LedgerOK' /\ Backed(wire)' /\ Backed(flushed)'
<1>1. LedgerOK /\ Backed(wire) /\ Backed(flushed) /\ wire \in Wire
  BY DEF NoticesInv, NoticeInv, TypeOK
<1>2. /\ wire'.tasks = wire.tasks /\ wire'.checkpoints = wire.checkpoints
      /\ wire'.delivered = wire.delivered \cup ToSet(ks)
      /\ delivered' = delivered \cup ToSet(ks)
  BY <1>1, DeliverParts
<1>3. flushed' = flushed /\ doc' = doc
  BY DEF NoticeMoves, taskVars
<1>4. LedgerOK'
  BY <1>1, <1>2, <1>3 DEF LedgerOK, Grows
<1>5. Backed(wire)'
  <2> SUFFICES ASSUME NEW t \in Tasks \ early', NEW s \in Terminal, <<t, s>> \in wire'.delivered
               PROVE  Shows(wire.tasks[t], s) \/ Shows(doc[t], s)
    BY <1>2, <1>3 DEF Backed, Shows
  <2>1. CASE <<t, s>> \in wire.delivered
    BY <1>1, <2>1 DEF Backed
  <2>2. CASE <<t, s>> \in ToSet(ks)
    <3>1. <<t, s>>[1] = t /\ <<t, s>>[2] = s
      OBVIOUS
    <3>2. QED
      BY <2>2, <3>1
  <2>3. QED
    BY <1>2, <2>1, <2>2
<1>6. Backed(flushed)'
  BY <1>1, <1>3 DEF Backed
<1>7. QED
  BY <1>4, <1>5, <1>6

\* The outcome a request tells of is in the journal.
LEMMA RequestIsJournaled ==
  ASSUME NoticesInv, NEW t \in Tasks, request[t] # "none"
  PROVE  Key(t) \in Keys /\ Shows(wire.tasks[t], Key(t)[2]) /\ Key(t)[1] = t
<1>1. Live(t) /\ entry[t].stage = "fired" /\ entry[t].recorded /\ entry[t] \in Entry
  BY RequestedEntry, UpEntry
<1>2. wire.tasks[t] = toInfo(entry[t])
  BY <1>1 DEF NoticesInv, NoticeInv, TaskOK, JournalOK
<1>3. wire.tasks[t] # None /\ wire.tasks[t].status = entry[t].status
  BY <1>1, <1>2, InfoOfEntry
<1>4. Key(t) \in Keys
  BY <1>1, EndedKey
<1>5. QED
  BY <1>3, <1>4 DEF Shows, Key

\* The notices of the requests D enter the conversation in a step of a turn.
LEMMA RequestsDelivered ==
  ASSUME NoticesInv, NoticeMoves, boot = "up", NEW D \in SUBSET Tasks,
         \A t \in D : request[t] \in Waiting,
         NEW ks \in Seq(Keys), Deliver(ks),
         \A k : k \in ToSet(ks) <=> \E t \in D : k = Key(t),
         request' \in [Tasks -> Requests],
         \A t \in D : request'[t] = "materialized",
         \A t \in Tasks \ D : \/ request'[t] = request[t]
                              \/ request[t] = "held" /\ request'[t] = "queued",
         pass = None \/ pass.at = "next", pass' = None,
         turn' \in BOOLEAN, undo' = "none", boot' = "up",
         UNCHANGED <<building, countVars>>
  PROVE  NoticesInv'
<1>1. TypeOK /\ BootOK /\ ScheduledOK /\ wire \in Wire /\ (\A u \in Tasks : RequestOK(u))
  BY DEF NoticesInv, NoticeInv, TypeOK
<1>2. /\ wire' \in Wire /\ ToSet(ks) \subseteq Keys
      /\ \A k : InContext(k)' <=> InContext(k) \/ k \in ToSet(ks)
      /\ scheduled' = scheduled \ ToSet(ks)
      /\ pending' = pending \ {k[1] : k \in ToSet(ks)}
      /\ delivered' = delivered \cup ToSet(ks)
  BY <1>1, DeliverParts
<1>3. \A t \in Tasks : Key(t)[1] = t
  BY DEF Key
<1>4. pending' = pending \ D
  <2>1. {k[1] : k \in ToSet(ks)} = D
    BY <1>3
  <2>2. QED
    BY <1>2, <2>1
<1>5. missed' = missed /\ early' = early /\ crashes' = crashes /\ undos' = undos
  BY DEF countVars
<1>6. TypeOK'
  <2>1. KeyTypes'
    BY <1>1, <1>2, <1>5 DEF TypeOK, KeyTypes
  <2>2. RequestTypes' /\ PlaceTypes' /\ PassTypes'
    BY <1>1, <1>5 DEF TypeOK, RequestTypes, PlaceTypes, PassTypes
  <2>3. QED
    BY <1>2, <2>1, <2>2, NoticeKeepsTaskTypes, TypePartsNext
<1>7. BootOK'
  BY <1>1 DEF BootOK, NoticeMoves, taskVars
<1>8. ASSUME NEW u \in Tasks PROVE RequestOK(u)'
  <2>1. RequestOK(u)
    BY <1>1
  <2>2. CASE u \in D
    <3>1. u \notin pending' /\ request'[u] = "materialized" /\ request[u] # "none"
      BY <1>4, <2>2 DEF Waiting
    <3>2. QED
      BY <2>1, <3>1, NoticeSees DEF RequestOK, Waiting
  <2>3. CASE u \notin D
    <3>1. Key(u) \notin ToSet(ks)
      BY <1>3, <2>3
    <3>2. Key(u) \in scheduled => Key(u) \in scheduled'
      BY <1>2, <3>1
    <3>3. /\ request'[u] # "none" => request[u] # "none"
          /\ request'[u] \in Waiting => request[u] \in Waiting
          /\ request[u] \in {"held", "queued", "aborted"} => request'[u] \in {"held", "queued", "aborted"}
      BY <2>3 DEF Waiting
    <3>4. u \in pending' => u \in pending
      BY <1>4
    <3>5. QED
      BY <1>5, <2>1, <3>2, <3>3, <3>4, NoticeSees DEF RequestOK
  <2>4. QED
    BY <2>2, <2>3
<1>9. ScheduledOK'
  <2> SUFFICES ASSUME NEW k \in scheduled'
               PROVE  k \notin delivered' /\ ~InContext(k)' /\ RequestHolds(k)'
    BY DEF ScheduledOK
  <2>1. k \in scheduled /\ k \notin ToSet(ks)
    BY <1>2
  <2>2. k \notin delivered /\ ~InContext(k) /\ RequestHolds(k)
    BY <1>1, <2>1 DEF ScheduledOK, PassHolds
  <2>3. k[1] \in Tasks /\ k = Key(k[1])
    BY <1>1, <2>1, <2>2, KeyParts DEF TypeOK, RequestHolds
  <2>4. k[1] \notin D
    BY <2>1, <2>3
  <2>5. RequestHolds(k)'
    BY <1>4, <2>2, <2>3, <2>4, StillHeld DEF RequestHolds
  <2>6. QED
    BY <1>2, <2>1, <2>2, <2>5
<1>10. PassOK'
  BY DEF PassOK
<1>11. LedgerOK' /\ Backed(wire)' /\ Backed(flushed)'
  <2>1. \A k \in ToSet(ks) : Shows(wire.tasks[k[1]], k[2])
    <3> TAKE k \in ToSet(ks)
    <3>1. PICK t \in D : k = Key(t)
      OBVIOUS
    <3>2. request[t] # "none"
      BY DEF Waiting
    <3>3. QED
      BY <3>1, <3>2, RequestIsJournaled
  <2>2. QED
    BY <1>5, <2>1, DeliveryKept
<1>12. QED
  BY <1>6, <1>7, <1>8, <1>9, <1>10, <1>11, NoticeKeepsTasks DEF NoticesInv, NoticeInv

LEMMA OneKey ==
  ASSUME NEW k \in Keys
  PROVE  <<k>> \in Seq(Keys) /\ \A x : x \in ToSet(<<k>>) <=> x = k
<1>1. <<k>> \in Seq(Keys) /\ DOMAIN <<k>> = {1} /\ <<k>>[1] = k
  OBVIOUS
<1>2. QED
  BY <1>1 DEF ToSet

\* The notice of one request enters the conversation.
LEMMA RequestDelivered ==
  ASSUME NoticesInv, NoticeMoves, NEW t \in Tasks, request[t] \in Waiting, Deliver(<<Key(t)>>),
         request' \in [Tasks -> Requests], request'[t] = "materialized",
         \A u \in Tasks \ {t} : \/ request'[u] = request[u]
                                \/ request[u] = "held" /\ request'[u] = "queued",
         pass = None \/ pass.at = "next", pass' = None,
         turn' \in BOOLEAN, undo' = "none", boot' = "up",
         UNCHANGED <<building, countVars>>
  PROVE  NoticesInv'
<1>1. request[t] # "none"
  BY DEF Waiting
<1>2. Key(t) \in Keys /\ boot = "up"
  BY <1>1, RequestIsJournaled, RequestIsUp
<1>3. PICK ks \in Seq(Keys) : ks = <<Key(t)>> /\ \A x : x \in ToSet(ks) <=> x = Key(t)
  BY <1>2, OneKey
<1>4. PICK D \in SUBSET Tasks : D = {t}
  OBVIOUS
<1>5. Deliver(ks)
  BY <1>3
<1>6. \A k : k \in ToSet(ks) <=> \E u \in D : k = Key(u)
  BY <1>3, <1>4
<1>7. /\ \A u \in D : request[u] \in Waiting
      /\ \A u \in D : request'[u] = "materialized"
      /\ \A u \in Tasks \ D : \/ request'[u] = request[u]
                              \/ request[u] = "held" /\ request'[u] = "queued"
  BY <1>4
<1>8. QED
  BY <1>2, <1>5, <1>6, <1>7, RequestsDelivered

LEMMA EnqueueNoticeOK ==
  ASSUME NoticesInv, NEW t \in Tasks, EnqueueNotice(t)
  PROVE  NoticesInv'
<1>1. /\ request[t] = "built"
      /\ UNCHANGED <<taskVars, flushed, building, undo, boot, pass, countVars>>
  BY DEF EnqueueNotice
<1>2. TypeOK /\ BootOK /\ ScheduledOK /\ (\A u \in Tasks : RequestOK(u))
  BY DEF NoticesInv, NoticeInv
<1>3. boot = "up" /\ request[t] \in Waiting
  BY <1>1, RequestIsUp DEF Waiting
<1>4. CASE ~Leased /\ ~turn
  <2>1. Deliver(<<Key(t)>>) /\ request' = [request EXCEPT ![t] = "materialized"] /\ turn' = TRUE
    BY <1>4 DEF EnqueueNotice
  <2>2. pass = None /\ undo = "none"
    BY <1>2, <1>3, <1>4 DEF BootOK, Leased
  <2>3. /\ request' \in [Tasks -> Requests] /\ request'[t] = "materialized"
        /\ \A u \in Tasks \ {t} : request'[u] = request[u]
    BY <1>2, <2>1 DEF TypeOK, Requests
  <2>4. wire'.tasks = wire.tasks
    <3>1. Key(t) \in Keys
      BY <1>1, RequestIsJournaled
    <3>2. <<Key(t)>> \in Seq(Keys)
      BY <3>1, OneKey
    <3>3. QED
      BY <1>2, <2>1, <3>2, DeliverParts DEF TypeOK
  <2>5. NoticeMoves
    BY <1>1, <2>4 DEF NoticeMoves
  <2>6. QED
    BY <1>1, <1>3, <2>1, <2>2, <2>3, <2>5, RequestDelivered
<1>5. CASE Leased \/ turn
  <2>1. /\ request' = [request EXCEPT ![t] = IF Leased THEN "held" ELSE "queued"]
        /\ pending' = pending \cup {t}
        /\ UNCHANGED <<wire, scheduled, delivered, turn>>
    BY <1>5 DEF EnqueueNotice
  <2>2. /\ request' \in [Tasks -> Requests] /\ request'[t] \in {"held", "queued"}
        /\ \A u \in Tasks \ {t} : request'[u] = request[u]
    BY <1>2, <2>1 DEF TypeOK, Requests
  <2>3. NoticeMoves
    BY <1>1, <2>1 DEF NoticeMoves
  <2>4. missed' = missed /\ early' = early /\ undo' = undo /\ boot' = boot /\ pass' = pass
    BY <1>1 DEF countVars
  <2>5. TypeOK'
    <3>1. KeyTypes' /\ RequestTypes'
      BY <1>1, <1>2, <2>1, <2>2 DEF TypeOK, KeyTypes, RequestTypes, countVars
    <3>2. turn' \in BOOLEAN /\ PlaceTypes' /\ PassTypes' /\ wire' \in Wire
      BY <1>1, <1>2, <2>1 DEF TypeOK, PlaceTypes, PassTypes, countVars
    <3>3. QED
      BY <2>3, <3>1, <3>2, NoticeKeepsTaskTypes, TypePartsNext
  <2>6. BootOK'
    BY <1>1, <1>2, <1>3, <2>1 DEF BootOK, taskVars
  <2>7. ASSUME NEW u \in Tasks PROVE RequestOK(u)'
    <3>1. RequestOK(u)
      BY <1>2
    <3>2. CASE u = t
      BY <1>1, <1>3, <2>1, <2>2, <2>3, <2>4, <3>1, <3>2, NoticeSees DEF RequestOK
    <3>3. CASE u # t
      <4>1. request'[u] = request[u] /\ (u \in pending' <=> u \in pending)
        BY <2>1, <2>2, <3>3
      <4>2. QED
        BY <2>1, <2>3, <2>4, <3>1, <4>1, NoticeSees DEF RequestOK
    <3>4. QED
      BY <3>2, <3>3
  <2>8. ScheduledOK'
    <3> SUFFICES ASSUME NEW k \in scheduled
                 PROVE  k \notin delivered' /\ ~InContext(k)' /\ (RequestHolds(k)' \/ PassHolds(k)')
      BY <2>1 DEF ScheduledOK
    <3>1. k \notin delivered /\ ~InContext(k) /\ (RequestHolds(k) \/ PassHolds(k)) /\ k[1] \in Tasks
      BY <1>2, KeyParts DEF ScheduledOK, TypeOK
    <3>2. ASSUME RequestHolds(k) PROVE RequestHolds(k)'
      <4>1. CASE k[1] = t
        BY <2>1, <2>2, <2>3, <3>2, <4>1, StillHeld
      <4>2. CASE k[1] # t
        BY <2>1, <2>2, <2>3, <3>1, <3>2, <4>2, StillHeld DEF RequestHolds
      <4>3. QED
        BY <4>1, <4>2
    <3>3. ASSUME PassHolds(k) PROVE PassHolds(k)'
      BY <2>4, <3>3 DEF PassHolds, ItemKey
    <3>4. QED
      BY <2>1, <3>1, <3>2, <3>3 DEF InContext
  <2>9. PassOK'
    <3>1. ASSUME NEW i \in Item, request'[i.task] \in Waiting PROVE request[i.task] \in Waiting
      <4>1. i.task \in Tasks
        BY DEF Item
      <4>2. QED
        BY <1>3, <2>2, <3>1, <4>1
    <3>2. QED
      BY <2>1, <2>3, <2>4, <3>1, NoticeKeepsPass
  <2>10. LedgerOK' /\ Backed(wire)' /\ Backed(flushed)'
    BY <2>1, <2>3, <2>4, NothingDelivered
  <2>11. QED
    BY <2>3, <2>5, <2>6, <2>7, <2>8, <2>9, <2>10, NoticeKeepsTasks DEF NoticesInv, NoticeInv
<1>6. QED
  BY <1>4, <1>5

LEMMA NextStepOK ==
  ASSUME NoticesInv, NextStep
  PROVE  NoticesInv'
<1>1. /\ turn /\ request' = [t \in Tasks |-> IF t \in Queued THEN "materialized" ELSE request[t]]
      /\ UNCHANGED <<taskVars, flushed, building, agentVars, countVars>>
  BY DEF NextStep
<1>2. PICK o \in Orders(Queued) : Deliver([i \in DOMAIN o |-> Key(o[i])])
  BY DEF NextStep
<1>3. PICK n : o \in [1..n -> Queued] /\ ToSet(o) = Queued /\ n = Cardinality(Queued)
  BY <1>2 DEF Orders
<1>4. Queued \subseteq Tasks /\ \A t \in Queued : request[t] = "queued"
  BY DEF Queued
<1>5. boot = "up" /\ undo = "none" /\ pass = None
  BY <1>1, TurnIsAlone
<1>6. TypeOK
  BY DEF NoticesInv
<1>7. n \in Nat
  <2>1. IsFiniteSet(Queued)
    BY <1>4, TaskAssumption, FS_Subset
  <2>2. QED
    BY <1>3, <2>1, FS_CardinalityType
<1>8. \A t \in Queued : Key(t) \in Keys
  BY <1>4, RequestIsJournaled
<1>9. PICK ks \in Seq(Keys) : ks = [i \in DOMAIN o |-> Key(o[i])]
  <2>1. [i \in DOMAIN o |-> Key(o[i])] \in [1..n -> Keys]
    BY <1>3, <1>8
  <2>2. [1..n -> Keys] \subseteq Seq(Keys)
    BY <1>7, SeqDef
  <2>3. QED
    BY <2>1, <2>2
<1>10. \A k : k \in ToSet(ks) <=> \E t \in Queued : k = Key(t)
  <2>1. DOMAIN ks = DOMAIN o /\ \A i \in DOMAIN o : ks[i] = Key(o[i])
    BY <1>9
  <2>2. QED
    BY <1>3, <2>1 DEF ToSet
<1>11. PICK D \in SUBSET Tasks : D = Queued
  BY <1>4
<1>12. /\ request' \in [Tasks -> Requests]
       /\ \A t \in D : request[t] \in Waiting /\ request'[t] = "materialized"
       /\ \A t \in Tasks \ D : request'[t] = request[t]
  BY <1>1, <1>4, <1>6, <1>11 DEF TypeOK, Requests, Waiting
<1>13. Deliver(ks) /\ \A k : k \in ToSet(ks) <=> \E t \in D : k = Key(t)
  BY <1>2, <1>9, <1>10, <1>11
<1>14. wire'.tasks = wire.tasks
  BY <1>6, <1>13, DeliverParts DEF TypeOK
<1>15. NoticeMoves
  BY <1>1, <1>14 DEF NoticeMoves, agentVars
<1>16. pass' = None /\ turn' \in BOOLEAN /\ undo' = "none" /\ boot' = "up"
  BY <1>1, <1>5 DEF agentVars
<1>17. QED
  BY <1>1, <1>5, <1>12, <1>13, <1>15, <1>16, RequestsDelivered

\* What a pass reports is backed, or the task's settleTask is still under way.
LEMMA ItemIsBacked ==
  ASSUME NoticesInv, NEW m \in Item, ItemOK(m)
  PROVE  \/ Live(m.task) /\ entry[m.task].stage # "fired"
         \/ Shows(wire.tasks[m.task], m.info.status) \/ Shows(doc[m.task], m.info.status)
<1>1. PICK t \in Tasks : t = m.task
  BY DEF Item
<1>2. TypeOK /\ EntryOK(t) /\ JournalOK(t) /\ GhostOK(t)
  BY DEF NoticesInv, NoticeInv, TaskOK
<1>3. m.info \in Info /\ m.info.status \in Terminal /\ m.info.detached
  BY DEF Item, ItemOK
<1>4. CASE Live(t) /\ entry[t].stage = "fired"
  <2>1. m.info = toInfo(entry[t]) /\ entry[t].detached
    BY <1>1, <1>3, <1>4 DEF ItemOK, toInfo
  <2>2. wire.tasks[t] = m.info
    BY <1>2, <1>4, <2>1 DEF EntryOK, JournalOK
  <2>3. QED
    BY <1>1, <1>3, <2>2, NoNone DEF Shows
<1>5. CASE ~Live(t)
  <2>1. m.info = ghosts[t] /\ Ended(ghosts[t])
    BY <1>1, <1>3, <1>5, NoNone DEF ItemOK, Ended
  <2>2. CASE Ended(wire.tasks[t])
    BY <1>1, <1>2, <2>1, <2>2 DEF GhostOK, Ended, Shows
  <2>3. CASE Ended(doc[t])
    BY <1>1, <1>2, <2>1, <2>3 DEF GhostOK, Ended, Shows
  <2>4. QED
    BY <1>2, <2>1, <2>2, <2>3 DEF GhostOK, Ended
<1>6. QED
  BY <1>1, <1>4, <1>5

LEMMA PassAppendsOK ==
  ASSUME NoticesInv, PassAppends
  PROVE  NoticesInv'
<1>0. pass # None /\ pass.at = "built"
  BY DEF PassAppends
<1>1. /\ TypeOK /\ BootOK /\ PassOK /\ ScheduledOK /\ (\A u \in Tasks : RequestOK(u))
  BY DEF NoticesInv, NoticeInv
<1>2. PICK m \in Item : m = pass.item
  BY <1>0, <1>1 DEF PassOK
<1>3. /\ ItemOK(m) /\ ItemKey(m) \in scheduled
      /\ request[m.task] \in Waiting => m.task \in missed
  BY <1>0, <1>1, <1>2 DEF PassOK
<1>4. ItemKey(m) \in Keys /\ ItemKey(m)[1] = m.task /\ ItemKey(m)[2] = m.info.status /\ m.task \in Tasks
  BY <1>3, ItemKeyType DEF ItemKey, Item
<1>5. PICK ks \in Seq(Keys) : ks = <<ItemKey(m)>> /\ \A x : x \in ToSet(ks) <=> x = ItemKey(m)
  BY <1>4, OneKey
<1>6. /\ Deliver(ks) /\ pass' = [pass EXCEPT !.at = "next", !.item = None]
      /\ early' = early \cup {t \in {m.task} : Live(t) /\ entry[t].stage # "fired"}
      /\ UNCHANGED <<taskVars, flushed, building, request, turn, undo, boot, undos, crashes, missed>>
  BY <1>2, <1>5 DEF PassAppends
<1>7. /\ wire' \in Wire /\ wire'.tasks = wire.tasks
      /\ \A k : InContext(k)' <=> InContext(k) \/ k = ItemKey(m)
      /\ scheduled' = scheduled \ {ItemKey(m)} /\ delivered' = delivered \cup {ItemKey(m)}
      /\ pending' = pending \ {m.task}
  <2>1. ToSet(ks) = {ItemKey(m)}
    BY <1>5
  <2>2. wire \in Wire
    BY <1>1 DEF TypeOK
  <2>3. QED
    BY <1>4, <1>6, <2>1, <2>2, DeliverParts
<1>8. pass' \in Pass /\ pass' # None /\ pass'.todo = pass.todo /\ pass'.at = "next"
  <2>1. pass \in Pass
    BY <1>0, <1>1, PassParts
  <2>2. pass' \in Pass /\ pass'.todo = pass.todo /\ pass'.at = "next"
    BY <1>6, <2>1 DEF Pass
  <2>3. QED
    BY <2>2, NoNone
<1>9. NoticeMoves
  BY <1>6, <1>7 DEF NoticeMoves
<1>10. TypeOK'
  <2>1. KeyTypes' /\ RequestTypes' /\ turn' \in BOOLEAN
    BY <1>1, <1>4, <1>6, <1>7 DEF TypeOK, KeyTypes, RequestTypes
  <2>2. PlaceTypes' /\ PassTypes'
    BY <1>1, <1>6, <1>8 DEF TypeOK, PlaceTypes, PassTypes
  <2>3. QED
    BY <1>7, <1>9, <2>1, <2>2, NoticeKeepsTaskTypes, TypePartsNext
<1>11. BootOK'
  BY <1>0, <1>1, <1>6, <1>7 DEF BootOK, taskVars
<1>12. ASSUME NEW u \in Tasks PROVE RequestOK(u)'
  <2>1. RequestOK(u) /\ (u \in pending' => u \in pending)
    BY <1>1, <1>7
  <2>2. request[u] \in Waiting => u \in missed \/ Key(u) \in scheduled'
    <3>1. CASE u = m.task
      BY <1>3, <3>1
    <3>2. CASE u # m.task
      <4>1. Key(u) # ItemKey(m)
        BY <3>2 DEF Key, ItemKey
      <4>2. QED
        BY <1>7, <2>1, <4>1 DEF RequestOK
    <3>3. QED
      BY <3>1, <3>2
  <2>3. QED
    BY <1>6, <1>9, <2>1, <2>2, NoticeSees DEF RequestOK
<1>13. ScheduledOK'
  <2> SUFFICES ASSUME NEW k \in scheduled'
               PROVE  k \notin delivered' /\ ~InContext(k)' /\ RequestHolds(k)'
    BY DEF ScheduledOK
  <2>1. k \in scheduled /\ k # ItemKey(m)
    BY <1>7
  <2>2. k \notin delivered /\ ~InContext(k) /\ RequestHolds(k)
    BY <1>1, <1>2, <2>1 DEF ScheduledOK, PassHolds
  <2>3. k[1] \in Tasks /\ k = Key(k[1]) /\ request[k[1]] # "none"
    BY <1>1, <2>1, <2>2, KeyParts DEF TypeOK, RequestHolds
  <2>4. k[1] # m.task
    BY <1>3, <2>1, <2>3, RequestedEntry, ItemIsEntry
  <2>5. RequestHolds(k)'
    BY <1>6, <1>7, <1>9, <2>2, <2>4, StillHeld DEF RequestHolds
  <2>6. QED
    BY <1>7, <2>1, <2>2, <2>5
<1>14. PassOK'
  <2>1. \A i \in pass'.todo : ItemOK(i)'
    BY <1>0, <1>1, <1>8, <1>9, NoticeSeesItem DEF PassOK
  <2>2. QED
    BY <1>8, <2>1 DEF PassOK
<1>15. LedgerOK' /\ Backed(wire)' /\ Backed(flushed)'
  <2>1. boot # "load"
    BY <1>0, <1>1 DEF BootOK
  <2>2. ASSUME NEW k \in ToSet(ks)
        PROVE  k[1] \in early' \/ Shows(wire.tasks[k[1]], k[2]) \/ Shows(doc[k[1]], k[2])
    <3>1. k[1] = m.task /\ k[2] = m.info.status
      BY <1>4, <1>5
    <3>2. QED
      BY <1>3, <1>6, <3>1, ItemIsBacked
  <2>3. QED
    BY <1>6, <1>9, <2>1, <2>2, DeliveryKept
<1>16. QED
  BY <1>9, <1>10, <1>11, <1>12, <1>13, <1>14, <1>15, NoticeKeepsTasks DEF NoticesInv, NoticeInv

LEMMA PassEndsOK ==
  ASSUME NoticesInv, PassEnds
  PROVE  NoticesInv'
<1> DEFINE held == {t \in Tasks : request[t] = "held"}
<1>1. /\ pass # None /\ pass.at = "next"
      /\ pass' = None /\ boot' = "up" /\ undo' = "none"
      /\ UNCHANGED <<taskVars, flushed, building, countVars>>
  BY DEF PassEnds
<1>2. TypeOK /\ BootOK /\ ScheduledOK /\ (\A u \in Tasks : RequestOK(u))
  BY DEF NoticesInv, NoticeInv
<1>3. boot \notin {"load", "mark"}
  BY <1>1, <1>2 DEF BootOK
<1>4. CASE held = {}
  <2>1. UNCHANGED <<wire, scheduled, delivered, request, pending, turn>>
    BY <1>4 DEF PassEnds
  <2>2. NoticeMoves
    BY <1>1, <1>3, <2>1 DEF NoticeMoves
  <2>3. TypeOK'
    <3>1. KeyTypes' /\ RequestTypes' /\ turn' \in BOOLEAN /\ wire' \in Wire
      BY <1>1, <1>2, <2>1 DEF TypeOK, KeyTypes, RequestTypes, countVars
    <3>2. PlaceTypes' /\ PassTypes'
      BY <1>1, <1>2 DEF TypeOK, PlaceTypes, PassTypes, countVars
    <3>3. QED
      BY <2>2, <3>1, <3>2, NoticeKeepsTaskTypes, TypePartsNext
  <2>4. BootOK'
    BY <1>1, <1>2, <1>3 DEF BootOK, taskVars
  <2>5. ASSUME NEW u \in Tasks PROVE RequestOK(u)'
    BY <1>1, <1>2, <2>1, <2>2, NoticeSees DEF RequestOK, countVars
  <2>6. ScheduledOK'
    <3> SUFFICES ASSUME NEW k \in scheduled
                 PROVE  k \notin delivered' /\ ~InContext(k)' /\ RequestHolds(k)'
      BY <2>1 DEF ScheduledOK
    <3>1. k \notin delivered /\ ~InContext(k) /\ RequestHolds(k)
      BY <1>1, <1>2 DEF ScheduledOK, PassHolds
    <3>2. RequestHolds(k)'
      BY <2>1, <2>2, <3>1, StillHeld DEF RequestHolds
    <3>3. QED
      BY <2>1, <3>1, <3>2 DEF InContext
  <2>7. PassOK'
    BY <1>1 DEF PassOK
  <2>8. LedgerOK' /\ Backed(wire)' /\ Backed(flushed)'
    BY <1>1, <2>1, <2>2, NothingDelivered DEF countVars
  <2>9. QED
    BY <2>2, <2>3, <2>4, <2>5, <2>6, <2>7, <2>8, NoticeKeepsTasks DEF NoticesInv, NoticeInv
<1>5. CASE held # {}
  <2>1. PICK t \in held :
          /\ Deliver(<<Key(t)>>) /\ turn' = TRUE
          /\ request' = [u \in Tasks |-> IF u = t THEN "materialized"
                                         ELSE IF u \in held THEN "queued" ELSE request[u]]
    BY <1>5 DEF PassEnds
  <2>2. t \in Tasks /\ request[t] \in Waiting /\ request[t] # "none"
    BY DEF Waiting
  <2>3. /\ request' \in [Tasks -> Requests] /\ request'[t] = "materialized"
        /\ \A u \in Tasks \ {t} : \/ request'[u] = request[u]
                                  \/ request[u] = "held" /\ request'[u] = "queued"
    BY <1>2, <2>1, <2>2 DEF TypeOK, Requests
  <2>4. wire'.tasks = wire.tasks
    <3>1. Key(t) \in Keys
      BY <2>2, RequestIsJournaled
    <3>2. <<Key(t)>> \in Seq(Keys)
      BY <3>1, OneKey
    <3>3. QED
      BY <1>2, <2>1, <3>2, DeliverParts DEF TypeOK
  <2>5. NoticeMoves
    BY <1>1, <1>3, <2>4 DEF NoticeMoves
  <2>6. QED
    BY <1>1, <2>1, <2>2, <2>3, <2>5, RequestDelivered
<1>6. QED
  BY <1>4, <1>5

-----------------------------------------------------------------------------
(* Crash and restart *)

LEMMA FlushOK ==
  ASSUME NoticesInv, Flush
  PROVE  NoticesInv'
<1>1. flushed' = wire /\ UNCHANGED <<taskVars, wire, keyVars, agentVars, countVars>>
  BY DEF Flush
<1>2. /\ TypeOK /\ BootOK /\ ScheduledOK /\ PassOK /\ LedgerOK /\ Backed(wire)
      /\ (\A t \in Tasks : TaskOK(t) /\ RequestOK(t))
  BY DEF NoticesInv, NoticeInv
<1>3. TypeOK'
  BY <1>1, <1>2 DEF TypeOK, taskVars, keyVars, agentVars, countVars
<1>4. BootOK'
  BY <1>1, <1>2 DEF BootOK, taskVars, keyVars, agentVars
<1>5. ASSUME NEW t \in Tasks PROVE TaskOK(t)' /\ RequestOK(t)'
  <2>1. EntryOK(t) /\ WritesOK(t) /\ JournalOK(t) /\ GhostOK(t) /\ RequestOK(t)
    BY <1>2 DEF TaskOK
  <2>2. EntryOK(t)' /\ WritesOK(t)'
    BY <1>1, <2>1 DEF EntryOK, WritesOK, Live, taskVars
  <2>3. JournalOK(t)' /\ GhostOK(t)'
    BY <1>1, <2>1 DEF JournalOK, GhostOK, Live, taskVars, agentVars
  <2>4. RequestOK(t)'
    BY <1>1, <2>1 DEF RequestOK, Live, Key, taskVars, keyVars, agentVars, countVars
  <2>5. QED
    BY <2>2, <2>3, <2>4 DEF TaskOK
<1>6. ScheduledOK'
  <2>1. ASSUME NEW k \in scheduled PROVE RequestHolds(k) \/ PassHolds(k) => RequestHolds(k)' \/ PassHolds(k)'
    BY <1>1 DEF RequestHolds, PassHolds, Key, ItemKey, taskVars, keyVars, agentVars
  <2>2. QED
    BY <1>1, <1>2, <2>1 DEF ScheduledOK, InContext, keyVars
<1>7. PassOK'
  <2>1. UNCHANGED <<pass, entry, ghosts, scheduled, request, missed>>
    BY <1>1 DEF taskVars, keyVars, agentVars, countVars
  <2>2. QED
    BY <1>2, <2>1 DEF PassOK, ItemOK, Live, Suppressed, ItemKey
<1>8. LedgerOK'
  BY <1>1, <1>2 DEF LedgerOK, keyVars, agentVars
<1>9. Backed(wire)' /\ Backed(flushed)'
  BY <1>1, <1>2 DEF Backed, taskVars, countVars
<1>10. QED
  BY <1>3, <1>4, <1>5, <1>6, <1>7, <1>8, <1>9 DEF NoticesInv, NoticeInv

LEMMA CrashOK ==
  ASSUME NoticesInv, Crash
  PROVE  NoticesInv'
<1>1. /\ crashes' = crashes + 1
      /\ entry' = [t \in Tasks |-> None] /\ stopping' = {} /\ writes' = [t \in Tasks |-> <<>>]
      /\ ghosts' = [t \in Tasks |-> None] /\ lost' = {} /\ wire' = flushed
      /\ building' = {} /\ scheduled' = {} /\ delivered' = {}
      /\ request' = [t \in Tasks |-> "none"] /\ pending' = {}
      /\ turn' = FALSE /\ undo' = "none" /\ boot' = "load" /\ pass' = None
      /\ UNCHANGED <<doc, flushed, undos, missed, early>>
  BY DEF Crash
<1>2. TypeOK /\ LedgerOK /\ Backed(flushed) /\ (\A t \in Tasks : JournalOK(t))
  BY DEF NoticesInv, NoticeInv, TaskOK
<1>3. TypeOK'
  <2>1. EntryTypes' /\ WriteTypes' /\ InfoTypes'
    BY <1>1, <1>2 DEF TypeOK, EntryTypes, WriteTypes, InfoTypes
  <2>2. wire' \in Wire /\ flushed' \in Wire /\ turn' \in BOOLEAN
    BY <1>1, <1>2 DEF TypeOK
  <2>3. KeyTypes' /\ RequestTypes' /\ PassTypes'
    BY <1>1, <1>2 DEF TypeOK, KeyTypes, RequestTypes, PassTypes, Requests
  <2>4. PlaceTypes'
    BY <1>1, <1>2 DEF TypeOK, PlaceTypes
  <2>5. QED
    BY <2>1, <2>2, <2>3, <2>4, TypePartsNext
<1>4. BootOK'
  BY <1>1 DEF BootOK
<1>5. ASSUME NEW t \in Tasks PROVE TaskOK(t)' /\ RequestOK(t)'
  <2>1. ~Live(t)' /\ ghosts'[t] = None /\ writes'[t] = <<>> /\ request'[t] = "none"
    BY <1>1 DEF Live
  <2>2. EntryOK(t)' /\ WritesOK(t)' /\ GhostOK(t)'
    BY <1>1, <2>1 DEF EntryOK, WritesOK, GhostOK
  <2>3. JournalOK(t)'
    BY <1>1, <1>2, <2>1 DEF JournalOK, Ended, Hushed
  <2>4. RequestOK(t)'
    BY <1>1, <2>1 DEF RequestOK, Waiting
  <2>5. QED
    BY <2>2, <2>3, <2>4 DEF TaskOK
<1>6. ScheduledOK' /\ PassOK'
  BY <1>1 DEF ScheduledOK, PassOK
<1>7. LedgerOK'
  BY <1>1, <1>2 DEF LedgerOK
<1>8. Backed(wire)' /\ Backed(flushed)'
  BY <1>1, <1>2 DEF Backed
<1>9. QED
  BY <1>3, <1>4, <1>5, <1>6, <1>7, <1>8 DEF NoticesInv, NoticeInv

\* A process that has not restored its state yet has no tasks of its own.
LEMMA RestoringIsEmpty ==
  ASSUME NoticesInv, boot # "up", NEW t \in Tasks
  PROVE  /\ ~Live(t) /\ request[t] = "none" /\ pending = {} /\ ~turn /\ undo = "none"
         /\ writes[t] = <<>> /\ EntryOK(t)
BY DEF NoticesInv, NoticeInv, BootOK, Live, TaskOK, WritesOK, EntryOK

LEMMA EmptyStays ==
  ASSUME NoticesInv, boot # "up", UNCHANGED <<entry, request, pending, undo, writes>>,
         NEW t \in Tasks
  PROVE  ~Live(t)' /\ EntryOK(t)' /\ WritesOK(t)' /\ RequestOK(t)'
<1>1. ~Live(t) /\ request[t] = "none" /\ pending = {} /\ undo = "none" /\ writes[t] = <<>>
  BY RestoringIsEmpty
<1>2. QED
  BY <1>1 DEF EntryOK, WritesOK, RequestOK, Waiting, Live

LEMMA LoadOK ==
  ASSUME NoticesInv, Load
  PROVE  NoticesInv'
<1>1. /\ boot = "load" /\ boot' = "mark" /\ delivered' = wire.delivered
      /\ ghosts' = [t \in Tasks |-> IF wire.tasks[t] = None THEN doc[t]
                                    ELSE IF doc[t] = None THEN wire.tasks[t]
                                    ELSE NewerRestoredTask(wire.tasks[t], doc[t])]
      /\ UNCHANGED <<entry, stopping, writes, doc, lost, wire, flushed, building, scheduled,
                     request, pending, turn, undo, pass, countVars>>
  BY DEF Load
<1>2. /\ TypeOK /\ BootOK /\ LedgerOK /\ Backed(wire) /\ Backed(flushed)
      /\ (\A t \in Tasks : JournalOK(t))
  BY DEF NoticesInv, NoticeInv, TaskOK
<1>3. pass = None /\ scheduled = {} /\ lost = {}
  BY <1>1, <1>2 DEF BootOK
<1>4. wire.tasks \in [Tasks -> Info \cup {None}] /\ wire.delivered \subseteq Keys
  BY <1>2, WireParts DEF TypeOK
<1>5. ghosts' \in [Tasks -> Info \cup {None}]
  BY <1>1, <1>2, <1>4 DEF TypeOK, NewerRestoredTask
<1>6. TypeOK'
  <2>1. EntryTypes' /\ WriteTypes' /\ InfoTypes'
    BY <1>1, <1>2, <1>5 DEF TypeOK, EntryTypes, WriteTypes, InfoTypes
  <2>2. KeyTypes' /\ RequestTypes' /\ wire' \in Wire /\ flushed' \in Wire
    BY <1>1, <1>2, <1>4 DEF TypeOK, KeyTypes, RequestTypes, countVars
  <2>3. turn' \in BOOLEAN /\ PlaceTypes' /\ PassTypes'
    BY <1>1, <1>2 DEF TypeOK, PlaceTypes, PassTypes, countVars
  <2>4. QED
    BY <2>1, <2>2, <2>3, TypePartsNext
<1>7. BootOK'
  BY <1>1, <1>2, <1>3 DEF BootOK
<1>8. ASSUME NEW t \in Tasks PROVE TaskOK(t)' /\ RequestOK(t)'
  <2>1. ~Live(t)' /\ EntryOK(t)' /\ WritesOK(t)' /\ RequestOK(t)'
    BY <1>1, EmptyStays
  <2>2. /\ ghosts'[t] = IF wire.tasks[t] = None THEN doc[t]
                        ELSE IF doc[t] = None THEN wire.tasks[t]
                        ELSE NewerRestoredTask(wire.tasks[t], doc[t])
        /\ wire.tasks[t] \in Info \cup {None} /\ doc[t] \in Info \cup {None}
    BY <1>1, <1>2, <1>4 DEF TypeOK
  <2>3. ghosts'[t] \in {wire.tasks[t], doc[t]}
    BY <2>2 DEF NewerRestoredTask
  <2>4. \A x \in Info : x.status \in Terminal \cup {"running"}
    BY DEF Info
  <2>5. JournalOK(t)'
    <3>1. wire.tasks[t] # None \/ doc[t] # None => ghosts'[t] # None
      BY <2>2 DEF NewerRestoredTask
    <3>2. JournalOK(t) /\ wire' = wire /\ flushed' = flushed /\ doc' = doc /\ boot = "load"
      BY <1>1, <1>2
    <3>3. QED
      BY <2>1, <3>1, <3>2 DEF JournalOK
  <2>6. GhostOK(t)'
    <3>1. JournalOK(t) /\ wire' = wire /\ doc' = doc /\ boot' = "mark" /\ t \notin lost'
      BY <1>1, <1>2, <1>3
    <3>2. CASE wire.tasks[t] = None
      BY <2>2, <3>1, <3>2 DEF GhostOK, Ended, Hushed
    <3>3. CASE wire.tasks[t] # None /\ doc[t] = None
      BY <2>2, <3>1, <3>3 DEF GhostOK, Ended, Hushed
    <3>4. CASE wire.tasks[t] # None /\ doc[t] # None
      <4>1. CASE wire.tasks[t].status \in Terminal /\ doc[t].status = "running"
        <5>1. ghosts'[t] = wire.tasks[t] /\ Ended(wire.tasks[t]) /\ ~Ended(doc[t])
          BY <2>2, <3>4, <4>1 DEF NewerRestoredTask, Ended, Terminal, Outcomes
        <5>2. Hushed(doc[t]) => ghosts'[t].suppressed
          BY <3>1, <5>1 DEF JournalOK
        <5>3. QED
          BY <3>1, <5>1, <5>2 DEF GhostOK
      <4>2. CASE ~(wire.tasks[t].status \in Terminal /\ doc[t].status = "running")
        <5>1. ghosts'[t] = doc[t]
          BY <2>2, <3>4, <4>2 DEF NewerRestoredTask
        <5>2. Ended(wire.tasks[t]) => Ended(doc[t])
          BY <2>2, <2>4, <3>4, <4>2 DEF Ended
        <5>3. Ended(wire.tasks[t]) => doc[t].status = wire.tasks[t].status
          BY <3>1, <5>2 DEF JournalOK
        <5>4. QED
          BY <3>1, <5>1, <5>2, <5>3 DEF GhostOK, Hushed
      <4>3. QED
        BY <4>1, <4>2
    <3>5. QED
      BY <3>2, <3>3, <3>4
  <2>7. QED
    BY <2>1, <2>5, <2>6 DEF TaskOK
<1>9. ScheduledOK' /\ PassOK'
  BY <1>1, <1>3 DEF ScheduledOK, PassOK
<1>10. LedgerOK'
  BY <1>1, <1>2 DEF LedgerOK
<1>11. Backed(wire)' /\ Backed(flushed)'
  BY <1>1, <1>2 DEF Backed, countVars
<1>12. QED
  BY <1>6, <1>7, <1>8, <1>9, <1>10, <1>11 DEF NoticesInv, NoticeInv

LEMMA MarkLostOK ==
  ASSUME NoticesInv, NEW t \in Tasks, MarkLost(t)
  PROVE  NoticesInv'
<1> DEFINE g == [ghosts[t] EXCEPT !.status = "lost"]
<1>1. /\ boot = "mark" /\ ghosts[t] # None /\ ghosts[t].status = "running"
      /\ ghosts' = [ghosts EXCEPT ![t].status = "lost"]
      /\ doc' = [doc EXCEPT ![t] = ghosts'[t]]
      /\ lost' = lost \cup {t}
      /\ UNCHANGED <<entry, stopping, writes, wire, flushed, keyVars, agentVars, countVars>>
  BY DEF MarkLost
<1>2. /\ TypeOK /\ BootOK /\ LedgerOK /\ Backed(wire) /\ Backed(flushed)
      /\ (\A u \in Tasks : JournalOK(u) /\ GhostOK(u))
  BY DEF NoticesInv, NoticeInv, TaskOK
<1>3. ghosts[t] \in Info
  BY <1>1, <1>2 DEF TypeOK
<1>4. g \in Info /\ g.status = "lost" /\ g.suppressed = ghosts[t].suppressed
  BY <1>3 DEF Info, Terminal
<1>5. g # None
  BY <1>4, NoNone
<1>6. /\ ghosts'[t] = g /\ doc'[t] = g
      /\ \A u \in Tasks \ {t} : ghosts'[u] = ghosts[u] /\ doc'[u] = doc[u]
      /\ ghosts' \in [Tasks -> Info \cup {None}] /\ doc' \in [Tasks -> Info \cup {None}]
  BY <1>1, <1>2, <1>4 DEF TypeOK
<1> HIDE DEF g
<1>7. /\ boot' = boot /\ pass' = pass /\ scheduled' = scheduled /\ pass = None /\ scheduled = {}
      /\ delivered' = delivered
  BY <1>1, <1>2 DEF BootOK, agentVars, keyVars
<1>8. ~Ended(ghosts[t]) /\ ~Ended(wire.tasks[t]) /\ ~Ended(doc[t]) /\ ~Ended(flushed.tasks[t])
  <2>1. ~Ended(ghosts[t])
    BY <1>1 DEF Ended, Terminal, Outcomes
  <2>2. ~Ended(wire.tasks[t]) /\ ~Ended(doc[t])
    BY <1>1, <1>2, <2>1 DEF GhostOK
  <2>3. QED
    BY <1>2, <2>1, <2>2 DEF JournalOK
<1>9. TypeOK'
  <2>1. EntryTypes' /\ WriteTypes' /\ InfoTypes'
    BY <1>1, <1>2, <1>6 DEF TypeOK, EntryTypes, WriteTypes, InfoTypes
  <2>2. KeyTypes' /\ RequestTypes' /\ wire' \in Wire /\ flushed' \in Wire
    BY <1>1, <1>2 DEF TypeOK, KeyTypes, RequestTypes, countVars, keyVars
  <2>3. turn' \in BOOLEAN /\ PlaceTypes' /\ PassTypes'
    BY <1>1, <1>2 DEF TypeOK, PlaceTypes, PassTypes, countVars, agentVars
  <2>4. QED
    BY <2>1, <2>2, <2>3, TypePartsNext
<1>10. BootOK'
  BY <1>1, <1>2 DEF BootOK, agentVars, keyVars
<1>11. ASSUME NEW u \in Tasks PROVE TaskOK(u)' /\ RequestOK(u)'
  <2>1. ~Live(u)' /\ EntryOK(u)' /\ WritesOK(u)' /\ RequestOK(u)'
    BY <1>1, EmptyStays DEF keyVars, agentVars
  <2>2. wire' = wire /\ flushed' = flushed
    BY <1>1
  <2>3. CASE u = t
    <3>1. JournalOK(u)'
      BY <1>2, <1>5, <1>6, <1>8, <2>1, <2>2, <2>3 DEF JournalOK
    <3>2. Ended(g)
      BY <1>4, <1>5 DEF Ended, Terminal
    <3>3. GhostOK(u)'
      BY <1>1, <1>5, <1>6, <1>8, <2>2, <2>3, <3>2 DEF GhostOK, Hushed
    <3>4. QED
      BY <2>1, <3>1, <3>3 DEF TaskOK
  <2>4. CASE u # t
    <3>1. ghosts'[u] = ghosts[u] /\ doc'[u] = doc[u] /\ (u \in lost' => u \in lost)
      BY <1>1, <1>6, <2>4
    <3>2. JournalOK(u)'
      BY <1>1, <1>2, <2>1, <2>2, <3>1, <1>7, RestoringIsEmpty DEF JournalOK
    <3>3. GhostOK(u)'
      BY <1>2, <1>7, <2>2, <3>1 DEF GhostOK
    <3>4. QED
      BY <2>1, <3>2, <3>3 DEF TaskOK
  <2>5. QED
    BY <2>3, <2>4
<1>12. ScheduledOK' /\ PassOK'
  BY <1>7 DEF ScheduledOK, PassOK
<1>13. LedgerOK'
  BY <1>1, <1>2, <1>7 DEF LedgerOK
<1>14. Backed(wire)' /\ Backed(flushed)'
  <2>1. ASSUME NEW u \in Tasks, NEW s \in Terminal, Shows(doc[u], s) PROVE Shows(doc'[u], s)
    <3>1. u # t
      BY <1>8, <2>1 DEF Shows, Ended
    <3>2. QED
      BY <1>6, <2>1, <3>1
  <2>2. QED
    BY <1>1, <1>2, <2>1 DEF Backed, countVars
<1>15. QED
  BY <1>9, <1>10, <1>11, <1>12, <1>13, <1>14 DEF NoticesInv, NoticeInv

LEMMA RecordLostOK ==
  ASSUME NoticesInv, RecordLost
  PROVE  NoticesInv'
<1>1. /\ boot = "mark" /\ boot' = "restore"
      /\ \A t \in Tasks : ghosts[t] # None => ghosts[t].status # "running"
      /\ wire' = [wire EXCEPT !.tasks = [t \in Tasks |-> IF t \in lost THEN ghosts[t] ELSE @[t]]]
      /\ lost' = {} /\ pass' = NewPass(ghosts)
      /\ UNCHANGED <<entry, stopping, writes, doc, ghosts, flushed, keyVars, turn, undo, countVars>>
  BY DEF RecordLost
<1>2. /\ TypeOK /\ BootOK /\ LedgerOK /\ Backed(wire) /\ Backed(flushed)
      /\ (\A u \in Tasks : JournalOK(u) /\ GhostOK(u))
  BY DEF NoticesInv, NoticeInv, TaskOK
<1>3. /\ wire' \in Wire
      /\ \A u \in Tasks : wire'.tasks[u] = IF u \in lost THEN ghosts[u] ELSE wire.tasks[u]
      /\ wire'.delivered = wire.delivered /\ wire'.checkpoints = wire.checkpoints
  <2>1. wire \in Wire /\ ghosts \in [Tasks -> Info \cup {None}]
    BY <1>2 DEF TypeOK
  <2>2. PICK T \in [Tasks -> Info \cup {None}] :
          T = [u \in Tasks |-> IF u \in lost THEN ghosts[u] ELSE wire.tasks[u]]
    BY <2>1, WireParts
  <2>3. wire' = [wire EXCEPT !.tasks = T]
    BY <1>1, <2>2
  <2>4. wire' \in Wire /\ wire'.tasks = T /\ wire'.delivered = wire.delivered /\ wire'.checkpoints = wire.checkpoints
    BY <2>1, <2>3 DEF Wire
  <2>5. QED
    BY <2>2, <2>4
<1>4. /\ pass' \in Pass /\ pass' # None /\ pass'.at = "next" /\ pass'.todo \subseteq Item
      /\ \A i \in pass'.todo : ItemOK(i)
  <2>1. ghosts \in [Tasks -> Info \cup {None}]
    BY <1>2 DEF TypeOK
  <2>2. QED
    BY <1>1, <1>2, <2>1, NewPassOK DEF ItemOK
<1>5. scheduled' = {} /\ delivered' = delivered /\ early' = early
  BY <1>1, <1>2 DEF BootOK, keyVars, countVars
<1>6. TypeOK'
  <2>1. EntryTypes' /\ WriteTypes' /\ InfoTypes'
    BY <1>1, <1>2 DEF TypeOK, EntryTypes, WriteTypes, InfoTypes
  <2>2. KeyTypes' /\ RequestTypes' /\ flushed' \in Wire
    BY <1>1, <1>2 DEF TypeOK, KeyTypes, RequestTypes, countVars, keyVars
  <2>3. turn' \in BOOLEAN /\ PlaceTypes' /\ PassTypes'
    BY <1>1, <1>2, <1>4 DEF TypeOK, PlaceTypes, PassTypes, countVars
  <2>4. QED
    BY <1>3, <2>1, <2>2, <2>3, TypePartsNext
<1>7. BootOK'
  BY <1>1, <1>2 DEF BootOK, keyVars
<1>8. ASSUME NEW u \in Tasks PROVE TaskOK(u)' /\ RequestOK(u)'
  <2>1. ~Live(u)' /\ EntryOK(u)' /\ WritesOK(u)' /\ RequestOK(u)'
    BY <1>1, EmptyStays DEF keyVars
  <2>2. /\ doc' = doc /\ ghosts' = ghosts /\ flushed' = flushed /\ u \notin lost'
        /\ JournalOK(u) /\ GhostOK(u) /\ ~Live(u)
    BY <1>1, <1>2, RestoringIsEmpty
  <2>3. ghosts[u] # None => Ended(ghosts[u])
    BY <1>1, <1>2 DEF TypeOK, Info, Ended
  <2>4. CASE u \in lost
    <3>1. /\ wire'.tasks[u] = ghosts[u] /\ ghosts[u] # None /\ Ended(ghosts[u])
          /\ doc[u] = ghosts[u] /\ ~Ended(wire.tasks[u])
      BY <1>3, <2>2, <2>4 DEF GhostOK
    <3>2. ~Ended(flushed.tasks[u])
      BY <2>2, <3>1 DEF JournalOK
    <3>3. JournalOK(u)'
      BY <2>1, <2>2, <3>1, <3>2 DEF JournalOK, Hushed
    <3>4. GhostOK(u)'
      BY <2>2, <3>1 DEF GhostOK, Hushed
    <3>5. QED
      BY <2>1, <3>3, <3>4 DEF TaskOK
  <2>5. CASE u \notin lost
    <3>1. wire'.tasks[u] = wire.tasks[u]
      BY <1>3, <2>5
    <3>2. JournalOK(u)'
      BY <1>1, <2>1, <2>2, <3>1 DEF JournalOK
    <3>3. GhostOK(u)'
      BY <2>2, <2>3, <3>1 DEF GhostOK
    <3>4. QED
      BY <2>1, <3>2, <3>3 DEF TaskOK
  <2>6. QED
    BY <2>4, <2>5
<1>9. ScheduledOK'
  BY <1>5 DEF ScheduledOK
<1>10. PassOK'
  <2>1. \A i \in pass'.todo : ItemOK(i)'
    BY <1>1, <1>4 DEF ItemOK, Live
  <2>2. QED
    BY <1>4, <2>1 DEF PassOK
<1>11. LedgerOK'
  BY <1>1, <1>2, <1>3, <1>5 DEF LedgerOK, Grows
<1>12. Backed(wire)' /\ Backed(flushed)'
  <2>1. ASSUME NEW u \in Tasks, NEW s \in Terminal, Shows(wire.tasks[u], s) PROVE Shows(wire'.tasks[u], s)
    <3>1. Ended(wire.tasks[u])
      BY <2>1 DEF Shows, Ended
    <3>2. u \notin lost
      BY <1>2, <3>1 DEF GhostOK
    <3>3. QED
      BY <1>3, <2>1, <3>2
  <2>2. QED
    BY <1>1, <1>2, <1>3, <1>5, <2>1 DEF Backed
<1>13. QED
  BY <1>6, <1>7, <1>8, <1>9, <1>10, <1>11, <1>12 DEF NoticesInv, NoticeInv

-----------------------------------------------------------------------------
(* The invariant *)

LEMMA StutterOK ==
  ASSUME NoticesInv, UNCHANGED vars
  PROVE  NoticesInv'
<1>1. UNCHANGED <<taskVars, wire, flushed, keyVars, agentVars, countVars>>
  BY DEF vars
<1>2. /\ TypeOK /\ BootOK /\ ScheduledOK /\ PassOK /\ (\A t \in Tasks : RequestOK(t))
  BY DEF NoticesInv, NoticeInv
<1>3. NoticeMoves
  BY <1>1 DEF NoticeMoves, agentVars
<1>4. TypeOK'
  BY <1>1, <1>2 DEF TypeOK, taskVars, keyVars, agentVars, countVars
<1>5. BootOK'
  BY <1>1, <1>2 DEF BootOK, taskVars, keyVars, agentVars
<1>6. ASSUME NEW t \in Tasks PROVE RequestOK(t)'
  BY <1>1, <1>2, <1>3, NoticeSees DEF RequestOK, keyVars, agentVars, countVars
<1>7. ScheduledOK'
  <2>1. ASSUME NEW k \in scheduled PROVE RequestHolds(k) \/ PassHolds(k) => RequestHolds(k)' \/ PassHolds(k)'
    BY <1>1 DEF RequestHolds, PassHolds, Key, ItemKey, taskVars, keyVars, agentVars
  <2>2. QED
    BY <1>1, <1>2, <2>1 DEF ScheduledOK, InContext, keyVars
<1>8. PassOK'
  BY <1>1, <1>3, NoticeKeepsPass DEF keyVars, agentVars, countVars
<1>9. LedgerOK' /\ Backed(wire)' /\ Backed(flushed)'
  BY <1>1, <1>3, NothingDelivered DEF keyVars, countVars
<1>10. QED
  BY <1>3, <1>4, <1>5, <1>6, <1>7, <1>8, <1>9, NoticeKeepsTasks DEF NoticesInv, NoticeInv

LEMMA NextOK == NoticesInv /\ [Next]_vars => NoticesInv'
<1> SUFFICES ASSUME NoticesInv, [Next]_vars PROVE NoticesInv'
  OBVIOUS
<1>1. ASSUME NEW t \in Tasks, NEW detached \in BOOLEAN, NEW recorded \in BOOLEAN,
             Register(t, detached, recorded)
      PROVE  NoticesInv'
  BY <1>1, RegisterOK
<1>2. ASSUME NEW t \in Tasks, Detach(t) \/ Suppress(t) \/ Stop(t) PROVE NoticesInv'
  BY <1>2, DetachOK, SuppressOK, StopOK
<1>3. ASSUME NEW t \in Tasks, NEW status \in Outcomes, Settle(t, status) PROVE NoticesInv'
  BY <1>3, SettleOK
<1>4. ASSUME NEW t \in Tasks, NEW ok \in BOOLEAN, WriteEnds(t, ok) PROVE NoticesInv'
  BY <1>4, WriteEndsOK
<1>5. ASSUME NEW t \in Tasks,
             \/ FireTerminalEffects(t) \/ NoticeBuilt(t) \/ EnqueueNotice(t) \/ NoticeAborted(t)
             \/ MarkLost(t)
      PROVE  NoticesInv'
  BY <1>5, FireOK, NoticeBuiltOK, EnqueueNoticeOK, NoticeAbortedOK, MarkLostOK
<1>6. CASE Prompt \/ NextStep \/ EndTurn \/ Compact
  BY <1>6, PromptOK, NextStepOK, EndTurnOK, CompactOK
<1>7. ASSUME NEW n \in 1..Len(wire.checkpoints), BeginUndo(n) PROVE NoticesInv'
  BY <1>7, BeginUndoOK
<1>8. CASE Reconcile
  BY <1>8, ReconcileOK
<1>9. ASSUME NEW i \in Item, PassNext(i) PROVE NoticesInv'
  BY <1>9, PassNextOK
<1>10. CASE PassBuilt \/ PassAppends \/ PassEnds
  BY <1>10, PassBuiltOK, PassAppendsOK, PassEndsOK
<1>11. CASE Flush \/ Crash \/ Load \/ RecordLost
  BY <1>11, FlushOK, CrashOK, LoadOK, RecordLostOK
<1>12. CASE UNCHANGED vars
  BY <1>12, StutterOK
<1>13. QED
  BY <1>1, <1>2, <1>3, <1>4, <1>5, <1>6, <1>7, <1>8, <1>9, <1>10, <1>11, <1>12 DEF Next

LEMMA InvHolds == Spec => []NoticesInv
<1>1. QED
  BY InitOK, NextOK, PTL DEF Spec

\* The values of the tasks' state are the ones the declarations say: entries, documents,
\* journaled tasks, keys and passes, through every crash, undo and restore.
THEOREM TaskTypes == Spec => []TypeOK
<1>1. NoticesInv => TypeOK
  BY DEF NoticesInv
<1>2. QED
  BY <1>1, InvHolds, PTL

\* A scheduled key has somebody who will deliver its notice or take the key back, so that
\* no notice is kept from being built again for ever (scheduledNotificationKeys).
THEOREM NoNoticeStuck == Spec => []NoStuckNotice
<1>1. NoticesInv => NoStuckNotice
  <2> SUFFICES ASSUME NoticesInv, NEW k \in scheduled
               PROVE  \/ request[k[1]] \in {"built", "held", "queued"}
                      \/ request[k[1]] = "aborted" /\ k[1] \in pending
                      \/ pass # None /\ pass.at = "built" /\ ItemKey(pass.item) = k
    BY DEF NoStuckNotice
  <2>1. RequestHolds(k) \/ PassHolds(k)
    BY DEF NoticesInv, NoticeInv, ScheduledOK
  <2>2. QED
    BY <2>1 DEF RequestHolds, PassHolds
<1>2. QED
  BY <1>1, InvHolds, PTL

\* The journal, the document and the notices agree about how a task ended, whatever crashed,
\* failed or was undone in between.
THEOREM OutcomesAgree == Spec => []OneOutcome
<1>1. NoticesInv => OneOutcome
  <2> SUFFICES ASSUME NoticesInv, NEW t \in Tasks \ early
               PROVE  /\ \A k, l \in wire.delivered : k[1] = t /\ l[1] = t => k = l
                      /\ wire.tasks[t] # None /\ doc[t] # None
                           /\ wire.tasks[t].status \in Terminal /\ doc[t].status \in Terminal
                         => wire.tasks[t].status = doc[t].status
                      /\ \A k \in wire.delivered : k[1] = t /\ wire.tasks[t] # None
                           /\ wire.tasks[t].status \in Terminal => wire.tasks[t].status = k[2]
    BY DEF OneOutcome
  <2>1. JournalOK(t) /\ Backed(wire) /\ wire.delivered \subseteq Keys
    BY WireParts DEF NoticesInv, NoticeInv, TaskOK, TypeOK
  <2>2. Ended(wire.tasks[t]) /\ Ended(doc[t]) => wire.tasks[t].status = doc[t].status
    BY <2>1 DEF JournalOK
  <2>3. ASSUME NEW k \in wire.delivered, k[1] = t
        PROVE  /\ k = <<t, k[2]>> /\ k[2] \in Terminal
               /\ Shows(wire.tasks[t], k[2]) \/ Shows(doc[t], k[2])
    <3>1. k = <<t, k[2]>> /\ k[2] \in Terminal
      BY <2>1, <2>3, KeyParts
    <3>2. QED
      BY <2>1, <3>1 DEF Backed
  <2>4. ASSUME NEW k \in wire.delivered, k[1] = t, Ended(wire.tasks[t])
        PROVE  wire.tasks[t].status = k[2]
    BY <2>2, <2>3, <2>4 DEF Shows, Ended
  <2>5. ASSUME NEW k \in wire.delivered, NEW l \in wire.delivered, k[1] = t, l[1] = t
        PROVE  k = l
    <3>1. k[2] = l[2]
      BY <2>2, <2>3, <2>5 DEF Shows, Ended
    <3>2. QED
      BY <2>3, <2>5, <3>1
  <2>6. QED
    BY <2>2, <2>4, <2>5 DEF Ended
<1>2. QED
  BY <1>1, InvHolds, PTL

-----------------------------------------------------------------------------
(* How a notice enters the conversation *)

\* A conversation b that has x only where a has it has it no more often.
LEMMA NoMoreOften ==
  ASSUME NEW S, NEW a \in Seq(S), NEW b \in Seq(S), NEW x,
         \A i \in 1..Len(b) : b[i] = x => i \in 1..Len(a) /\ a[i] = x
  PROVE  ~(Count(b, x) > Count(a, x))
<1> DEFINE A == {i \in DOMAIN a : a[i] = x}
           B == {i \in DOMAIN b : b[i] = x}
<1>1. DOMAIN a = 1..Len(a) /\ DOMAIN b = 1..Len(b) /\ Len(a) \in Nat
  OBVIOUS
<1>2. A \subseteq 1..Len(a) /\ B \subseteq A
  BY <1>1
<1>3. IsFiniteSet(1..Len(a))
  BY <1>1, FS_Interval
<1>4. IsFiniteSet(A)
  BY <1>2, <1>3, FS_Subset
<1>5. IsFiniteSet(B) /\ Cardinality(B) <= Cardinality(A)
  BY <1>2, <1>4, FS_Subset
<1>6. Cardinality(A) \in Nat /\ Cardinality(B) \in Nat
  BY <1>4, <1>5, FS_CardinalityType
<1>7. Count(a, x) = Cardinality(A) /\ Count(b, x) = Cardinality(B)
  BY DEF Count
<1> HIDE DEF A, B
<1>8. QED
  BY <1>5, <1>6, <1>7

LEMMA ConversationType ==
  ASSUME NoticesInv
  PROVE  wire \in Wire /\ wire.context \in Seq(Keys \cup {Anchor}) /\ Len(wire.context) \in Nat
<1>1. wire \in Wire
  BY DEF NoticesInv, TypeOK
<1>2. wire.context \in Seq(Keys \cup {Anchor})
  BY <1>1, WireParts
<1>3. QED
  BY <1>1, <1>2

LEMMA SameConversation ==
  ASSUME NoticesInv, wire'.context = wire.context, NEW k
  PROVE  ~Enters(k)
<1>1. Count(wire'.context, k) = Count(wire.context, k)
  OBVIOUS
<1>2. ~(Count(wire.context, k) > Count(wire.context, k))
  BY ConversationType, NoMoreOften
<1>3. QED
  BY <1>1, <1>2 DEF Enters

\* The conversation is cut, emptied or gets an anchor.
LEMMA NothingEnters ==
  ASSUME NoticesInv, NEW k \in Keys,
         Prompt \/ Compact \/ (\E n \in 1..Len(wire.checkpoints) : BeginUndo(n))
  PROVE  ~Enters(k)
<1>1. wire \in Wire /\ wire.context \in Seq(Keys \cup {Anchor}) /\ Len(wire.context) \in Nat
  BY ConversationType
<1> SUFFICES ASSUME NEW c \in Seq(Keys \cup {Anchor}), wire'.context = c
             PROVE  \A i \in 1..Len(c) : c[i] = k => i \in 1..Len(wire.context) /\ wire.context[i] = k
  <2>1. NoticesInv'
    BY PromptOK, CompactOK, BeginUndoOK
  <2>2. wire'.context \in Seq(Keys \cup {Anchor})
    <3>1. wire' \in Wire
      BY <2>1 DEF NoticesInv, TypeOK
    <3>2. QED
      BY <3>1, WireParts
  <2>3. QED
    BY <1>1, <2>2, NoMoreOften DEF Enters
<1>2. CASE Prompt
  <2>1. wire' = [wire EXCEPT !.context = Append(wire.context, Anchor),
                             !.checkpoints = Append(wire.checkpoints, wire.delivered)]
    BY <1>2 DEF Prompt
  <2>2. c = Append(wire.context, Anchor)
    BY <1>1, <2>1 DEF Wire
  <2>3. QED
    BY <1>1, <2>2, AnchorIsNoKey
<1>3. CASE Compact
  <2>1. wire' = [wire EXCEPT !.context = <<>>, !.checkpoints = <<>>]
    BY <1>3 DEF Compact
  <2>2. c = <<>>
    BY <1>1, <2>1 DEF Wire
  <2>3. QED
    BY <2>2
<1>4. ASSUME NEW n \in 1..Len(wire.checkpoints), BeginUndo(n)
      PROVE  \A i \in 1..Len(c) : c[i] = k => i \in 1..Len(wire.context) /\ wire.context[i] = k
  <2>1. PICK at \in 1..Len(wire.context) : wire' = Cut(wire, at, Len(wire.checkpoints) + 1 - n)
    BY <1>4 DEF BeginUndo
  <2>2. c = SubSeq(wire.context, 1, at - 1)
    BY <1>1, <2>1 DEF Cut, Wire
  <2>3. Len(c) = at - 1 /\ \A i \in 1..(at - 1) : c[i] = wire.context[i] /\ i \in 1..Len(wire.context)
    BY <1>1, <2>2
  <2>4. QED
    BY <2>3
<1>5. QED
  BY <1>2, <1>3, <1>4

\* A delivery of ks brings only the notices of ks.
LEMMA DeliveryBrings ==
  ASSUME NoticesInv, NEW ks \in Seq(Keys), Deliver(ks), NEW k, Enters(k)
  PROVE  k \in ToSet(ks)
<1> SUFFICES ASSUME k \notin ToSet(ks) PROVE FALSE
  OBVIOUS
<1>1. wire \in Wire /\ wire.context \in Seq(Keys \cup {Anchor}) /\ Len(wire.context) \in Nat
  BY ConversationType
<1>2. wire'.context = wire.context \o ks
  BY <1>1, DeliverParts
<1>3. ks \in Seq(Keys \cup {Anchor}) /\ DOMAIN ks = 1..Len(ks) /\ Len(ks) \in Nat
  OBVIOUS
<1>4. PICK c \in Seq(Keys \cup {Anchor}) : c = wire.context \o ks
  BY <1>1, <1>3, ConcatProperties
<1>5. /\ Len(c) = Len(wire.context) + Len(ks)
      /\ \A i \in 1..Len(wire.context) : c[i] = wire.context[i]
      /\ \A i \in 1..Len(ks) : c[Len(wire.context) + i] = ks[i]
  BY <1>1, <1>3, <1>4
<1>6. ASSUME NEW i \in 1..Len(c), c[i] = k PROVE i \in 1..Len(wire.context)
  <2>1. CASE i \notin 1..Len(wire.context)
    <3>1. i - Len(wire.context) \in 1..Len(ks) /\ i = Len(wire.context) + (i - Len(wire.context))
      BY <1>1, <1>3, <1>5, <2>1
    <3>2. k = ks[i - Len(wire.context)]
      BY <1>5, <1>6, <3>1
    <3>3. QED
      BY <1>3, <3>1, <3>2 DEF ToSet
  <2>2. QED
    BY <2>1
<1>7. ~(Count(c, k) > Count(wire.context, k))
  BY <1>1, <1>5, <1>6, NoMoreOften
<1>8. QED
  BY <1>2, <1>4, <1>7 DEF Enters

\* A notice enters the conversation from a waiting request or from the pass.
Holder(k) == (\E t \in Tasks : request[t] \in Waiting /\ k = Key(t)) \/ PassHolds(k)

LEMMA RequestBrings ==
  ASSUME NoticesInv, NEW t \in Tasks, request[t] \in Waiting, Deliver(<<Key(t)>>),
         NEW k, Enters(k)
  PROVE  Holder(k)
<1>1. Key(t) \in Keys
  BY RequestIsJournaled DEF Waiting
<1>2. <<Key(t)>> \in Seq(Keys) /\ \A x : x \in ToSet(<<Key(t)>>) <=> x = Key(t)
  BY <1>1, OneKey
<1>3. k = Key(t)
  BY <1>2, DeliveryBrings
<1>4. QED
  BY <1>3 DEF Holder

LEMMA StepBrings ==
  ASSUME NoticesInv, NextStep, NEW k, Enters(k)
  PROVE  Holder(k)
<1>1. PICK o \in Orders(Queued) : Deliver([i \in DOMAIN o |-> Key(o[i])])
  BY DEF NextStep
<1>2. PICK n : o \in [1..n -> Queued] /\ n = Cardinality(Queued)
  BY <1>1 DEF Orders
<1>3. \A t \in Queued : t \in Tasks /\ request[t] = "queued"
  BY DEF Queued
<1>4. n \in Nat
  <2>1. IsFiniteSet(Queued)
    BY <1>3, TaskAssumption, FS_Subset
  <2>2. QED
    BY <1>2, <2>1, FS_CardinalityType
<1>5. \A t \in Queued : Key(t) \in Keys
  BY <1>3, RequestIsJournaled
<1>6. PICK ks \in Seq(Keys) : ks = [i \in DOMAIN o |-> Key(o[i])]
  <2>1. [i \in DOMAIN o |-> Key(o[i])] \in [1..n -> Keys]
    BY <1>2, <1>5
  <2>2. [1..n -> Keys] \subseteq Seq(Keys)
    BY <1>4, SeqDef
  <2>3. QED
    BY <2>1, <2>2
<1>7. k \in ToSet(ks)
  BY <1>1, <1>6, DeliveryBrings
<1>8. PICK t \in Queued : k = Key(t)
  <2>1. DOMAIN ks = DOMAIN o /\ \A i \in DOMAIN o : ks[i] = Key(o[i]) /\ o[i] \in Queued
    BY <1>2, <1>6
  <2>2. QED
    BY <1>7, <2>1 DEF ToSet
<1>9. QED
  BY <1>3, <1>8 DEF Holder, Waiting

LEMMA PassBrings ==
  ASSUME NoticesInv, PassAppends, NEW k, Enters(k)
  PROVE  Holder(k)
<1>1. pass # None /\ pass.at = "built" /\ PassOK
  BY DEF PassAppends, NoticesInv, NoticeInv
<1>2. PICK m \in Item : m = pass.item /\ ItemOK(m)
  BY <1>1 DEF PassOK
<1>3. <<ItemKey(m)>> \in Seq(Keys) /\ \A x : x \in ToSet(<<ItemKey(m)>>) <=> x = ItemKey(m)
  BY <1>2, ItemKeyType, OneKey
<1>4. Deliver(<<ItemKey(m)>>)
  BY <1>2 DEF PassAppends
<1>5. k = ItemKey(m)
  BY <1>3, <1>4, DeliveryBrings
<1>6. QED
  BY <1>1, <1>2, <1>5 DEF Holder, PassHolds

\* The steps of the tasks leave the conversation alone.
LEMMA TasksBringNothing ==
  ASSUME NoticesInv, NEW t \in Tasks, NEW k,
         \/ \E detached, recorded \in BOOLEAN : Register(t, detached, recorded)
         \/ Detach(t) \/ FireTerminalEffects(t)
  PROVE  ~Enters(k)
<1>1. wire \in Wire
  BY ConversationType
<1>2. PICK info : wire' = wire \/ wire' = [wire EXCEPT !.tasks[t] = info]
  BY DEF Register, Detach, FireTerminalEffects, Recorded
<1>3. wire'.context = wire.context
  BY <1>1, <1>2 DEF Wire
<1>4. QED
  BY <1>3, SameConversation

LEMMA EntersFromHolder ==
  ASSUME NoticesInv, Next, NEW k \in Keys, Enters(k)
  PROVE  Holder(k)
<1>1. ASSUME NEW t \in Tasks,
             \/ \E detached, recorded \in BOOLEAN : Register(t, detached, recorded)
             \/ Detach(t) \/ FireTerminalEffects(t)
      PROVE  Holder(k)
  BY <1>1, TasksBringNothing
<1>2. ASSUME NEW t \in Tasks,
             \/ Suppress(t) \/ Stop(t) \/ NoticeBuilt(t) \/ NoticeAborted(t) \/ MarkLost(t)
             \/ \E status \in Outcomes : Settle(t, status)
             \/ \E ok \in BOOLEAN : WriteEnds(t, ok)
      PROVE  Holder(k)
  <2>1. wire' = wire
    BY <1>2 DEF Suppress, Stop, NoticeBuilt, NoticeAborted, MarkLost, Settle, WriteEnds
  <2>2. QED
    BY <2>1, SameConversation
<1>3. ASSUME NEW t \in Tasks, EnqueueNotice(t) PROVE Holder(k)
  <2>1. request[t] \in Waiting /\ (wire' = wire \/ Deliver(<<Key(t)>>))
    BY <1>3 DEF EnqueueNotice, Waiting
  <2>2. QED
    BY <2>1, SameConversation, RequestBrings
<1>4. CASE Prompt \/ Compact \/ \E n \in 1..Len(wire.checkpoints) : BeginUndo(n)
  BY <1>4, NothingEnters
<1>5. CASE NextStep
  BY <1>5, StepBrings
<1>6. CASE EndTurn \/ Reconcile \/ (\E i \in Item : PassNext(i)) \/ PassBuilt \/ Flush \/ Load
  <2>1. wire' = wire
    BY <1>6 DEF EndTurn, Reconcile, PassNext, PassBuilt, Flush, Load
  <2>2. QED
    BY <2>1, SameConversation
<1>7. CASE PassAppends
  BY <1>7, PassBrings
<1>8. CASE PassEnds
  <2>1. wire' = wire \/ \E t \in {u \in Tasks : request[u] = "held"} : Deliver(<<Key(t)>>)
    BY <1>8 DEF PassEnds
  <2>2. ASSUME NEW t \in {u \in Tasks : request[u] = "held"}, Deliver(<<Key(t)>>) PROVE Holder(k)
    <3>1. t \in Tasks /\ request[t] \in Waiting
      BY DEF Waiting
    <3>2. QED
      BY <2>2, <3>1, RequestBrings
  <2>3. QED
    BY <2>1, <2>2, SameConversation
<1>9. CASE Crash
  <2>1. crashes' = crashes + 1 /\ crashes \in Nat
    BY <1>9 DEF Crash, NoticesInv, TypeOK
  <2>2. QED
    BY <2>1 DEF Enters
<1>10. CASE RecordLost
  <2>1. PICK T : wire' = [wire EXCEPT !.tasks = T]
    BY <1>10 DEF RecordLost
  <2>2. wire'.context = wire.context
    BY <2>1, ConversationType DEF Wire
  <2>3. QED
    BY <2>2, SameConversation
<1>11. QED
  BY <1>1, <1>2, <1>3, <1>4, <1>5, <1>6, <1>7, <1>8, <1>9, <1>10 DEF Next

\* What is about to enter has not been delivered, unless a reconcile has overlooked it.
LEMMA HolderIsNew ==
  ASSUME NoticesInv, NEW k, Holder(k), k \in wire.delivered
  PROVE  k[1] \in missed
<1>1. ScheduledOK /\ BootOK /\ LedgerOK /\ PassOK
  BY DEF NoticesInv, NoticeInv
<1>2. CASE PassHolds(k)
  <2>1. k \in scheduled /\ boot # "load"
    BY <1>1, <1>2 DEF PassHolds, PassOK, BootOK
  <2>2. QED
    BY <1>1, <2>1 DEF ScheduledOK, LedgerOK
<1>3. ASSUME NEW t \in Tasks, request[t] \in Waiting, k = Key(t) PROVE k[1] \in missed
  <2>1. k[1] = t /\ boot = "up" /\ (t \in missed \/ k \in scheduled)
    BY <1>3, RequestIsUp DEF NoticesInv, NoticeInv, RequestOK, Waiting, Key
  <2>2. QED
    BY <1>1, <2>1 DEF ScheduledOK, LedgerOK
<1>4. QED
  BY <1>2, <1>3 DEF Holder

\* A notice enters the conversation at most once over all the ways it has into it: its
\* request, the pass of an undo and the pass of a restart (buildAgentTaskNotificationContext
\* and its three sets of keys).
THEOREM NoticesNeverRepeat == Spec => NeverTwice
<1>1. NoticesInv /\ [Next]_vars
      => [\A k \in Keys : Enters(k) /\ k \in wire.delivered => k[1] \in missed]_vars
  BY EntersFromHolder, HolderIsNew
<1>2. QED
  BY <1>1, InvHolds, PTL DEF Spec, NeverTwice

\* What is suppressed is not about to enter.
LEMMA HolderIsLoud ==
  ASSUME NoticesInv, NEW t \in Tasks, NEW s \in Terminal, Holder(<<t, s>>)
  PROVE  ~(Live(t) /\ entry[t].suppressed) /\ ~Hushed(doc[t])
<1>1. WritesOK(t) /\ GhostOK(t) /\ RequestOK(t) /\ PassOK
  BY DEF NoticesInv, NoticeInv, TaskOK
<1>2. Live(t) /\ Hushed(doc[t]) => entry[t].suppressed
  BY <1>1 DEF WritesOK, Follows
<1>3. CASE PassHolds(<<t, s>>)
  <2>1. PICK m \in Item : /\ m = pass.item /\ ItemOK(m) /\ ~Suppressed(m.task) /\ m.task = t
    BY <1>1, <1>3 DEF PassHolds, PassOK, ItemKey
  <2>2. ~Live(t) => ghosts[t] # None
    BY <2>1, NoNone DEF ItemOK, Item
  <2>3. QED
    BY <1>1, <1>2, <2>1, <2>2 DEF Suppressed, GhostOK
<1>4. ASSUME NEW u \in Tasks, request[u] \in Waiting, <<t, s>> = Key(u)
      PROVE  ~(Live(t) /\ entry[t].suppressed) /\ ~Hushed(doc[t])
  <2>1. u = t
    BY <1>4 DEF Key
  <2>2. Live(t) /\ ~entry[t].suppressed
    BY <1>1, <1>4, <2>1 DEF RequestOK, Waiting
  <2>3. QED
    BY <1>2, <2>2
<1>5. QED
  BY <1>3, <1>4 DEF Holder

\* No write of the document takes a suppression back.
LEMMA DocumentStaysHushed ==
  ASSUME NoticesInv, Next, NEW t \in Tasks, Hushed(doc[t])
  PROVE  doc'[t].suppressed
<1>1. CASE doc' = doc
  BY <1>1 DEF Hushed
<1>2. ASSUME NEW u \in Tasks, NEW ok \in BOOLEAN, WriteEnds(u, ok) PROVE doc'[t].suppressed
  <2>1. CASE doc' # doc /\ u = t
    <3>1. writes[t] # <<>> /\ doc' = [doc EXCEPT ![t] = Head(writes[t]).info]
      BY <1>2, <2>1 DEF WriteEnds
    <3>2. WritesOK(t) /\ writes[t] \in Seq(Write) /\ doc \in [Tasks -> Info \cup {None}]
      BY DEF NoticesInv, NoticeInv, TypeOK, TaskOK, Write
    <3>3. Follows(writes[t], entry[t], doc[t])
      BY <3>1, <3>2 DEF WritesOK
    <3>4. 1 \in 1..Len(writes[t]) /\ Head(writes[t]) = writes[t][1]
      BY <3>1, <3>2
    <3>5. writes[t][1].info.suppressed
      BY <3>3, <3>4 DEF Follows
    <3>6. QED
      BY <3>1, <3>2, <3>4, <3>5
  <2>2. CASE doc' # doc /\ u # t
    <3>1. doc' = [doc EXCEPT ![u] = Head(writes[u]).info]
      BY <1>2, <2>2 DEF WriteEnds
    <3>2. QED
      BY <2>2, <3>1 DEF Hushed, NoticesInv, TypeOK
  <2>3. QED
    BY <1>1, <2>1, <2>2
<1>3. ASSUME NEW u \in Tasks, MarkLost(u) PROVE doc'[t].suppressed
  <2>1. /\ ghosts[u] # None /\ ghosts' = [ghosts EXCEPT ![u].status = "lost"]
        /\ doc' = [doc EXCEPT ![u] = ghosts'[u]]
    BY <1>3 DEF MarkLost
  <2>2. GhostOK(t) /\ doc \in [Tasks -> Info \cup {None}] /\ ghosts \in [Tasks -> Info \cup {None}]
    BY DEF NoticesInv, NoticeInv, TypeOK, TaskOK
  <2>3. CASE u = t
    <3>1. ghosts[t].suppressed /\ ghosts[t] \in Info
      BY <2>1, <2>2, <2>3 DEF GhostOK
    <3>2. doc'[t] = [ghosts[t] EXCEPT !.status = "lost"]
      BY <2>1, <2>2, <2>3
    <3>3. QED
      BY <3>1, <3>2 DEF Info
  <2>4. CASE u # t
    BY <2>1, <2>2, <2>4 DEF Hushed
  <2>5. QED
    BY <2>3, <2>4
<1>4. ASSUME NEW u \in Tasks,
             \/ \E detached, recorded \in BOOLEAN : Register(u, detached, recorded)
             \/ Detach(u) \/ Suppress(u) \/ Stop(u)
             \/ \E status \in Outcomes : Settle(u, status)
             \/ FireTerminalEffects(u) \/ NoticeBuilt(u) \/ EnqueueNotice(u) \/ NoticeAborted(u)
      PROVE  doc' = doc
  BY <1>4 DEF Register, Detach, Suppress, Stop, Settle, FireTerminalEffects, NoticeBuilt,
              EnqueueNotice, NoticeAborted, taskVars
<1>5. CASE \/ Prompt \/ NextStep \/ EndTurn \/ Compact \/ Reconcile
           \/ \E n \in 1..Len(wire.checkpoints) : BeginUndo(n)
  BY <1>1, <1>5 DEF Prompt, NextStep, EndTurn, Compact, Reconcile, BeginUndo, taskVars
<1>6. CASE \/ (\E i \in Item : PassNext(i)) \/ PassBuilt \/ PassAppends \/ PassEnds
           \/ Flush \/ Crash \/ Load \/ RecordLost
  BY <1>1, <1>6 DEF PassNext, PassBuilt, PassAppends, PassEnds, Flush, Crash, Load, RecordLost, taskVars
<1>7. QED
  BY <1>1, <1>2, <1>3, <1>4, <1>5, <1>6 DEF Next

\* A task that is suppressed, now or by its document, is not reported any more, and its
\* document keeps the suppression (suppressTerminalNotification).
THEOREM SuppressedStaySilent == Spec => Silenced
<1> DEFINE Quiet(t) == (Live(t) /\ entry[t].suppressed) \/ (doc[t] # None /\ doc[t].suppressed)
           Silent == \A t \in Tasks :
                       /\ Quiet(t) => \A s \in Terminal : ~Enters(<<t, s>>)
                       /\ doc[t] # None /\ doc[t].suppressed => doc'[t].suppressed
<1>1. NoticesInv /\ [Next]_vars => [Silent]_vars
  <2> SUFFICES ASSUME NoticesInv, Next, NEW t \in Tasks
               PROVE  /\ Quiet(t) => \A s \in Terminal : ~Enters(<<t, s>>)
                      /\ doc[t] # None /\ doc[t].suppressed => doc'[t].suppressed
    OBVIOUS
  <2>1. ASSUME NEW s \in Terminal, Quiet(t) PROVE ~Enters(<<t, s>>)
    <3>1. <<t, s>> \in Keys
      BY DEF Keys
    <3>2. QED
      BY <2>1, <3>1, EntersFromHolder, HolderIsLoud DEF Hushed
  <2>2. doc[t] # None /\ doc[t].suppressed => doc'[t].suppressed
    BY DocumentStaysHushed DEF Hushed
  <2>3. QED
    BY <2>1, <2>2
<1>2. QED
  BY <1>1, InvHolds, PTL DEF Spec, Silenced

=============================================================================
