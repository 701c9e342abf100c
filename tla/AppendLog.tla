------------------------------ MODULE AppendLog -------------------------------
(***************************************************************************)
(* One log of the append log store                                         *)
(* (persistence/backends/node-fs/appendLogStore.ts) over the file storage  *)
(* (fileStorageService.ts).  The logs of different keys share nothing.     *)
(*                                                                         *)
(* A buffer generation is a LogState: it is created by the first use of    *)
(* the key, retired by the release of its last owner and replaced by the   *)
(* next use, which must wait for it (ready).  An operation is a promise    *)
(* made by ownFlush.  Code between two awaits is one action; the awaits of *)
(* an operation are the values of pc:                                      *)
(*    "ready"     drain: await state.ready                                 *)
(*    "append"    drain: await storage.append, nothing written yet         *)
(*    "appended"  the same, the whole batch is in the file                 *)
(*    "short"     the same, a part of the batch is in the file             *)
(*    "prior"     rewrite: await of the flush or retirement before it      *)
(*    "write"     rewrite: await storage.write, the file not replaced yet  *)
(*    "written"   the same, the file is replaced                           *)
(*    "done"      drain or rewrite is over, finishOwnedFlush has not       *)
(*                resumed yet                                              *)
(* and "resolved" or "rejected" once the promise is settled.  The promise  *)
(* of a settled operation nobody waits for may be used again.  epoch is    *)
(* the cutover epoch drain has read, and of a rewrite the one it began.    *)
(***************************************************************************)
EXTENDS Naturals, Sequences

CONSTANTS
  Records,     \* records the clients append
  Snapshots,   \* sequences of records a rewrite replaces the log by
  Garbled,     \* a line that JSON.parse refuses
  Tears,       \* whether a failing append can stop inside a line
  MaxGens,     \* bound: buffer generations of one process
  MaxOps,      \* bound: operations in use at the same time
  MaxRefs,     \* bound: owners of a generation
  MaxRewrites, \* bound: rewrites of a generation
  MaxPending,  \* bound: records waiting in a generation
  MaxLines     \* bound: lines of the file when a record is accepted

ASSUME LogAssumption ==
  /\ Snapshots \subseteq Seq(Records)
  /\ Garbled \notin Records
  /\ Tears \in BOOLEAN
  /\ MaxGens \in Nat /\ MaxOps \in Nat /\ MaxRefs \in Nat /\ MaxRewrites \in Nat
  /\ MaxPending \in Nat /\ MaxLines \in Nat

Gens == 1..MaxGens
Ops == 1..MaxOps
None == 0

VARIABLES
  file,     \* the lines of the file, up to the last acknowledged one
  fringe,   \* the lines after them: their records are still pending
  torn,     \* the file ends in a line without its newline
  logs,     \* logs.get(id)
  ngens,    \* generations created by this process
  gen,      \* the LogState objects
  op        \* the promises of ownFlush

vars == <<file, fringe, torn, logs, ngens, gen, op>>

Lines == Records \cup {Garbled}

Generation ==
  [pending : Seq(Records), flushPromise : Ops \cup {None}, flushScheduled : BOOLEAN,
   storageFailure : BOOLEAN, cutoverEpoch : Nat, refCount : Nat, retired : BOOLEAN,
   ready : Gens \cup {None},       \* the generation whose retirement it waits for
   retirement : Ops \cup {None},   \* the flush the retirement waits for
   settled : BOOLEAN]              \* the retirement is over

Idle == {"free", "resolved", "rejected"}
AtStorage == {"append", "appended", "short", "write", "written"}
Pcs == Idle \cup AtStorage \cup {"ready", "prior", "done"}

Operation ==
  [pc : Pcs, gen : Gens \cup {None}, epoch : Nat, batch : Nat, prior : Ops \cup {None},
   snapshot : Seq(Records), failed : BOOLEAN]

TypeOK ==
  /\ file \in Seq(Lines) /\ fringe \in Seq(Lines) /\ torn \in BOOLEAN
  /\ logs \in Gens \cup {None} /\ ngens \in Nat
  /\ gen \in [Gens -> Generation]
  /\ op \in [Ops -> Operation]

NewGeneration(ready) ==
  [pending |-> <<>>, flushPromise |-> None, flushScheduled |-> FALSE,
   storageFailure |-> FALSE, cutoverEpoch |-> 0, refCount |-> 0, retired |-> FALSE,
   ready |-> ready, retirement |-> None, settled |-> FALSE]

NoOperation ==
  [pc |-> "free", gen |-> None, epoch |-> 0, batch |-> 0, prior |-> None,
   snapshot |-> <<>>, failed |-> FALSE]

\* The objects of a process that has just started.
NoGenerations == [g \in Gens |-> NewGeneration(None)]
NoOperations == [o \in Ops |-> NoOperation]

Init ==
  /\ file = <<>> /\ fringe = <<>> /\ torn = FALSE
  /\ logs = None /\ ngens = 0
  /\ gen = NoGenerations /\ op = NoOperations

-----------------------------------------------------------------------------
(* Generations and promises *)

\* state(scope, key): the generation a call works on, and the objects after the call.
State == IF logs # None /\ ~gen[logs].retired THEN logs ELSE ngens + 1
Opened == IF State = logs THEN gen ELSE [gen EXCEPT ![State] = NewGeneration(logs)]
OpenState ==
  /\ State \in Gens
  /\ logs' = State
  /\ ngens' = IF State = logs THEN ngens ELSE State

\* Mutant: a generation does not wait for the one it replaces.
ReadyAtOnce(g) == TRUE
\* The ready promise of a generation has resolved.
Ready(g) == gen[g].ready # None => gen[gen[g].ready].settled

Awaited ==
  {op[o].prior : o \in {p \in Ops : op[p].pc = "prior"}}
    \cup {gen[g].retirement : g \in {h \in Gens : gen[h].retired /\ ~gen[h].settled}}

\* A promise object not in use: the first of them is taken.
Fresh(o) ==
  /\ op[o].pc \in Idle /\ o \notin Awaited
  /\ \A p \in Ops : p < o => op[p].pc \notin Idle \/ p \in Awaited

\* drain is called: it reads the cutover epoch and awaits ready.
Drain(G, g) == [NoOperation EXCEPT !.pc = "ready", !.gen = g, !.epoch = G[g].cutoverEpoch]

\* flushState on generation g of the objects G returns the promise o, None for a
\* rejected one: the flush in flight is shared, a failure is sticky.
FlushState(G, g, o) ==
  \/ G[g].flushPromise # None /\ o = G[g].flushPromise /\ gen' = G /\ UNCHANGED op
  \/ /\ G[g].flushPromise = None /\ G[g].storageFailure
     /\ o = None /\ gen' = G /\ UNCHANGED op
  \/ /\ G[g].flushPromise = None /\ ~G[g].storageFailure
     /\ o \in Ops /\ Fresh(o)
     /\ op' = [op EXCEPT ![o] = Drain(G, g)]
     /\ gen' = [G EXCEPT ![g].flushPromise = o]

\* Mutant: a rejection is no settlement.
Fulfilled(o) == op[o].pc = "resolved"
Settled(o) == op[o].pc \in {"resolved", "rejected"}

-----------------------------------------------------------------------------
(* Calls of the clients *)

\* append: the record is queued, a flush is scheduled unless one is or is running.
AppendRecord(r) ==
  /\ OpenState
  /\ Len(Opened[State].pending) < MaxPending /\ Len(file \o fringe) < MaxLines
  /\ gen' = [Opened EXCEPT
       ![State].pending = Append(@, r),
       ![State].flushScheduled = @ \/ Opened[State].flushPromise = None]
  /\ UNCHANGED <<file, fringe, torn, op>>

\* flush and close: every generation of the map, retired or not.
Flush ==
  /\ logs # None
  /\ \E o \in Ops \cup {None} : FlushState(gen, logs, o)
  /\ UNCHANGED <<file, fringe, torn, logs, ngens>>

\* read: flushes the generation in use before it opens the stream.
Read ==
  /\ OpenState
  /\ \E o \in Ops \cup {None} : FlushState(Opened, State, o)
  /\ UNCHANGED <<file, fringe, torn>>

\* rewrite: the cutover, and the promise that runs when its predecessor has settled.
Rewrite(snapshot) ==
  /\ OpenState
  /\ Opened[State].cutoverEpoch < MaxRewrites
  /\ \E o \in Ops :
       /\ Fresh(o) /\ o # Opened[State].flushPromise
       /\ op' = [op EXCEPT ![o] =
            [NoOperation EXCEPT !.pc = "prior", !.gen = State,
               !.epoch = Opened[State].cutoverEpoch + 1,
               !.prior = Opened[State].flushPromise, !.snapshot = snapshot]]
       /\ gen' = [Opened EXCEPT ![State].cutoverEpoch = @ + 1, ![State].flushPromise = o]
  /\ UNCHANGED <<file, fringe, torn>>

Acquire ==
  /\ OpenState
  /\ Opened[State].refCount < MaxRefs
  /\ gen' = [Opened EXCEPT ![State].refCount = @ + 1]
  /\ UNCHANGED <<file, fringe, torn, op>>

\* Each acquire returns a disposable that releases once.
Owned(g) == gen[g].refCount > 0

\* Mutant: the buffer is retired as it is.
RetireUnflushed(g) ==
  /\ gen' = [gen EXCEPT ![g].refCount = @ - 1, ![g].retired = TRUE]
  /\ UNCHANGED op
\* The last owner is gone: the generation retires, which starts a flush.
Retire(g) ==
  \E o \in Ops \cup {None} :
    FlushState([gen EXCEPT ![g].refCount = @ - 1, ![g].retired = TRUE,
                           ![g].retirement = o], g, o)

Release(g) ==
  /\ Owned(g)
  /\ IF gen[g].refCount > 1
     THEN gen' = [gen EXCEPT ![g].refCount = @ - 1] /\ UNCHANGED op
     ELSE Retire(g)
  /\ UNCHANGED <<file, fringe, torn, logs, ngens>>

-----------------------------------------------------------------------------
(* Continuations *)

\* The microtask of scheduleFlush.
ScheduledFlush(g) ==
  /\ gen[g].flushScheduled
  /\ \E o \in Ops \cup {None} :
       FlushState([gen EXCEPT ![g].flushScheduled = FALSE], g, o)
  /\ UNCHANGED <<file, fringe, torn, logs, ngens>>

\* The head of drain's loop for operation o: the next batch, or the end of it.
NextBatch(o, pending) ==
  IF pending = <<>>
  THEN [op[o] EXCEPT !.pc = "done", !.batch = 0]
  ELSE [op[o] EXCEPT !.pc = "append", !.batch = Len(pending)]

\* Mutant: drain does not look at the epoch.
NeverCutOver(o) == FALSE
\* A rewrite has been called since drain was.
CutOver(o) == gen[op[o].gen].cutoverEpoch # op[o].epoch

\* Mutant: a failure is reported and forgotten.
FailureForgotten(g) == gen
\* storageFailure ??= error
FailureKept(g) == [gen EXCEPT ![g].storageFailure = TRUE]

\* drain resumes after ready, and stops if a rewrite has cut over meanwhile.
DrainReady(o) ==
  LET g == op[o].gen IN
  /\ op[o].pc = "ready" /\ Ready(g)
  /\ op' = [op EXCEPT ![o] = IF CutOver(o)
                             THEN [op[o] EXCEPT !.pc = "done"]
                             ELSE NextBatch(o, gen[g].pending)]
  /\ UNCHANGED <<file, fringe, torn, logs, ngens, gen>>

\* storage.append returns: the batch leaves the queue unless a rewrite has cut over.
AppendSucceeds(o) ==
  LET g == op[o].gen
      rest == SubSeq(gen[g].pending, op[o].batch + 1, Len(gen[g].pending)) IN
  /\ op[o].pc = "appended"
  /\ IF CutOver(o)
     THEN /\ op' = [op EXCEPT ![o].pc = "done", ![o].batch = 0]
          /\ UNCHANGED <<gen, file, fringe>>
     ELSE /\ op' = [op EXCEPT ![o] = NextBatch(o, rest)]
          /\ gen' = [gen EXCEPT ![g].pending = rest]
          /\ file' = file \o fringe /\ fringe' = <<>>
  /\ UNCHANGED <<torn, logs, ngens>>

\* storage.append throws, whatever it has written: the failure is kept.
AppendFails(o) ==
  /\ op[o].pc \in {"append", "appended", "short"}
  /\ op' = [op EXCEPT ![o].pc = "done", ![o].batch = 0, ![o].failed = TRUE]
  /\ gen' = FailureKept(op[o].gen)
  /\ UNCHANGED <<file, fringe, torn, logs, ngens>>

\* The prior flush or retirement has settled, either way: storage.write is called.
RewriteStarts(o) ==
  /\ op[o].pc = "prior"
  /\ IF op[o].prior = None THEN Ready(op[o].gen) ELSE Settled(op[o].prior)
  /\ op' = [op EXCEPT ![o].pc = "write", ![o].prior = None]
  /\ UNCHANGED <<file, fringe, torn, logs, ngens, gen>>

WriteSucceeds(o) ==
  /\ op[o].pc = "written"
  /\ op' = [op EXCEPT ![o].pc = "done", ![o].snapshot = <<>>]
  /\ gen' = [gen EXCEPT ![op[o].gen].storageFailure = FALSE]
  /\ UNCHANGED <<file, fringe, torn, logs, ngens>>

WriteFails(o) ==
  /\ op[o].pc \in {"write", "written"}
  /\ op' = [op EXCEPT ![o].pc = "done", ![o].snapshot = <<>>, ![o].failed = TRUE]
  /\ gen' = FailureKept(op[o].gen)
  /\ UNCHANGED <<file, fringe, torn, logs, ngens>>

Owner(o) == gen[op[o].gen].flushPromise = o

\* Mutant: what is queued while the last batch is written is left.
DrainsOnce(o) == FALSE
\* The owner of the flush goes on while there is something to drain.
DrainsAgain(o) == ~op[o].failed /\ Owner(o) /\ gen[op[o].gen].pending # <<>>

\* finishOwnedFlush resumes: it drains again, or gives the promise up and settles.
FinishOwnedFlush(o) ==
  /\ op[o].pc = "done"
  /\ IF DrainsAgain(o)
     THEN op' = [op EXCEPT ![o] = Drain(gen, op[o].gen)] /\ UNCHANGED gen
     ELSE /\ op' = [op EXCEPT ![o] =
               [NoOperation EXCEPT !.pc = IF op[o].failed THEN "rejected" ELSE "resolved"]]
          /\ gen' = IF Owner(o) THEN [gen EXCEPT ![op[o].gen].flushPromise = None] ELSE gen
  /\ UNCHANGED <<file, fringe, torn, logs, ngens>>

\* settleRetiredState resumes: the generation leaves the map, and what it still holds
\* is garbage.
RetirementSettles(g) ==
  /\ gen[g].retired /\ ~gen[g].settled
  /\ gen[g].retirement # None => Settled(gen[g].retirement)
  /\ gen' = [gen EXCEPT ![g].settled = TRUE, ![g].retirement = None, ![g].pending = <<>>]
  /\ logs' = IF logs = g THEN None ELSE logs
  /\ file' = file \o fringe /\ fringe' = <<>>
  /\ UNCHANGED <<torn, ngens, op>>

-----------------------------------------------------------------------------
(* The file storage *)

\* Lines written at the end of the file: a line without its newline swallows the first.
Written(lines) == IF torn /\ lines # <<>> THEN <<Garbled>> \o Tail(lines) ELSE lines

\* storage.append writes the batch, or the first n lines of it and, where writes tear,
\* a piece of the next.
AppendLands(o) ==
  LET batch == SubSeq(gen[op[o].gen].pending, 1, op[o].batch) IN
  /\ op[o].pc = "append"
  /\ \E n \in 0..op[o].batch, tear \in {FALSE, Tears} :
       /\ tear => n < op[o].batch
       /\ fringe' = fringe \o Written(SubSeq(batch, 1, n))
       /\ torn' = (tear \/ (torn /\ n = 0))
       /\ op' = [op EXCEPT ![o].pc = IF n = op[o].batch THEN "appended" ELSE "short"]
  /\ UNCHANGED <<file, logs, ngens, gen>>

\* atomicWrite: the file is replaced by a rename.
WriteLands(o) ==
  /\ op[o].pc = "write"
  /\ file' = op[o].snapshot /\ fringe' = <<>> /\ torn' = FALSE
  /\ op' = [op EXCEPT ![o].pc = "written"]
  /\ UNCHANGED <<logs, ngens, gen>>

\* The process ends and starts again: the file is all there is.
Crash ==
  /\ file' = file \o fringe /\ fringe' = <<>>
  /\ logs' = None /\ ngens' = 0
  /\ gen' = NoGenerations /\ op' = NoOperations
  /\ UNCHANGED torn

-----------------------------------------------------------------------------
Calls ==
  \/ \E r \in Records : AppendRecord(r)
  \/ Flush
  \/ Read
  \/ \E snapshot \in Snapshots : Rewrite(snapshot)
  \/ Acquire
  \/ \E g \in Gens : Release(g)

Continue(o) ==
  \/ DrainReady(o) \/ AppendSucceeds(o)
  \/ RewriteStarts(o) \/ WriteSucceeds(o)
  \/ FinishOwnedFlush(o)

StorageLands(o) == AppendLands(o) \/ WriteLands(o)

StorageFails(o) == AppendFails(o) \/ WriteFails(o)

Next ==
  \/ Calls
  \/ \E o \in Ops : Continue(o) \/ StorageLands(o) \/ StorageFails(o)
  \/ \E g \in Gens : ScheduledFlush(g) \/ RetirementSettles(g)
  \/ Crash

Spec == Init /\ [][Next]_vars

\* The event loop runs every continuation that is due, and storage calls return.
Fairness ==
  /\ \A o \in Ops : WF_vars(Continue(o) \/ StorageLands(o) \/ StorageFails(o))
  /\ \A g \in Gens : WF_vars(ScheduledFlush(g)) /\ WF_vars(RetirementSettles(g))

FairSpec == Spec /\ Fairness

-----------------------------------------------------------------------------
(* Properties *)

\* "Preserves per-key storage ordering while acquired buffers retire and hand off to
\* replacement owners" (appendLogStore.ts): of all the drains and rewrites of all the
\* generations of a log, at most one is at the storage.
OneAtStorage ==
  \A o, p \in Ops : op[o].pc \in AtStorage /\ op[p].pc \in AtStorage => o = p

\* "So a later flush cannot duplicate data by guessing whether storage committed it"
\* (interface): an append starts only when no record of its batch is in the file.
NothingWrittenTwice ==
  \A o \in Ops : op[o].pc = "append" => fringe = <<>>

\* "Its final owner release starts a flush and retires that buffer once the flush
\* settles" (interface): records are given up with a generation only after a failure.
NothingDroppedQuietly ==
  [][\A g \in Gens : RetirementSettles(g) /\ gen[g].pending # <<>> => gen[g].storageFailure]_vars

\* "Keeps the shared flush pending until the post-rewrite drain is durable"
\* (appendLogStore.ts): a flush that fulfils leaves nothing queued, unless a rewrite
\* has taken it over and is still pending.
FlushMeansDurable ==
  [][\A o \in Ops :
       op[o].pc = "done" /\ op'[o].pc = "resolved" =>
         \/ gen[op[o].gen].pending = <<>>
         \/ gen'[op[o].gen].flushPromise # None]_vars

\* The store keeps what the interface promises of the log (module LogContract): nothing
\* lost, duplicated or reordered through batching, rewrites, failures and hand-offs.
Contract == INSTANCE LogContract WITH
  stored <- file,
  tails <- [g \in Gens |-> gen[g].pending],
  cutover <- [g \in Gens |-> \E o \in Ops : op[o].gen = g /\ op[o].pc \in {"prior", "write"}]

ContractSpec == Contract!Spec

\* "Retires that buffer once the flush settles" (interface): every retired generation
\* hands over to the next, whatever drains and rewrites it has to wait for.
HandsOver ==
  \A g \in Gens : gen[g].retired ~> (gen[g].settled \/ g > ngens)

\* "Crash-tolerant decoding (a torn final line is dropped; corruption anywhere else
\* throws)" (appendLogStore.ts): what the store writes through crashes and failing
\* writes can be read again.
NeverCorrupted == \A k \in DOMAIN (file \o fringe) : (file \o fringe)[k] # Garbled
=============================================================================
