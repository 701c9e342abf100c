--------------------------- MODULE AppendLogProofs ----------------------------
(***************************************************************************)
(* The safety properties of the append log store, for any number of        *)
(* generations, operations, owners, rewrites and records, and the proof    *)
(* that it implements LogContract.                                         *)
(*                                                                         *)
(* A call opens a generation, starts a flush on it and retires it in one   *)
(* step.  The invariant is therefore stated of the objects - f the fringe, *)
(* l the map, n the number of generations, G the generations, P the        *)
(* operations - so that the parts of a call can follow each other.         *)
(***************************************************************************)
EXTENDS AppendLog, SequenceTheorems, TLAPS

-----------------------------------------------------------------------------
(* The inductive invariant *)

\* Operation o is in flight, for generation g.
Live(P, o) == P[o].pc \notin Idle
LiveIn(P, o, g) == Live(P, o) /\ P[o].gen = g

\* Every generation before g has retired for good: g may use the storage.
Turn(G, g) == \A h \in Gens : h < g => G[h].settled

Objects(l, n, G, P) ==
  /\ n \in Nat /\ n <= MaxGens /\ (l = None \/ l = n)
  /\ G \in [Gens -> Generation] /\ P \in [Ops -> Operation]

\* Generations come one after the other, and only the last can be in use.
GensOK(l, n, G) ==
  \A g \in Gens :
    /\ g > n => G[g] = NewGeneration(None)
    /\ g <= n /\ G[g].ready = None => Turn(G, g)
    /\ G[g].ready # None => G[g].ready = g - 1
    /\ g <= n /\ g # l => G[g].retired
    /\ g <= n /\ l = None => G[g].settled
    /\ G[g].settled => g # l /\ Turn(G, g) /\ G[g].pending = <<>> /\ G[g].retirement = None
    /\ G[g].retired => G[g].refCount = 0
    /\ G[g].storageFailure => Turn(G, g)

\* The operations of a generation have different epochs, the flush promise the current one.
EpochsOK(n, G, P) ==
  /\ \A o \in Ops : Live(P, o) =>
       /\ P[o].gen \in Gens /\ P[o].gen <= n
       /\ P[o].epoch <= G[P[o].gen].cutoverEpoch
       /\ P[o].epoch = G[P[o].gen].cutoverEpoch <=> G[P[o].gen].flushPromise = o
       /\ G[P[o].gen].flushPromise # None
  /\ \A g \in Gens : G[g].flushPromise # None => LiveIn(P, G[g].flushPromise, g)
  /\ \A o, p \in Ops :
       Live(P, o) /\ LiveIn(P, p, P[o].gen) /\ P[p].epoch = P[o].epoch => o = p

\* The promise of o has settled.
SettledIn(P, o) == P[o].pc \in {"resolved", "rejected"}

\* Only the operation with the least epoch of its generation is past its predecessor.
ChainOK(G, P) ==
  /\ \A o, p \in Ops :
       Live(P, o) /\ LiveIn(P, p, P[o].gen) /\ P[p].epoch < P[o].epoch =>
         /\ P[o].pc = "prior" /\ P[o].prior # None
         /\ LiveIn(P, P[o].prior, P[o].gen) /\ P[p].epoch <= P[P[o].prior].epoch
  /\ \A o \in Ops : P[o].pc = "prior" /\ P[o].prior # None =>
       \/ LiveIn(P, P[o].prior, P[o].gen) /\ P[P[o].prior].epoch < P[o].epoch
       \/ SettledIn(P, P[o].prior) /\ Turn(G, P[o].gen)
  /\ \A o \in Ops : Live(P, o) /\ P[o].pc \notin {"ready", "prior"} => Turn(G, P[o].gen)

\* What an operation at the storage works with.
WorkOK(f, G, P) ==
  \A o \in Ops :
    /\ P[o].pc \in {"append", "appended", "short"} =>
         P[o].batch \in 1..Len(G[P[o].gen].pending)
    /\ P[o].pc \in {"prior", "write"} => P[o].snapshot \in Snapshots
    /\ P[o].pc \in {"append", "written"} => f = <<>>
    /\ P[o].failed => P[o].pc = "done"

\* A drain that may still append has seen no failure, one that has failed left a trace.
Draining(r) == r.pc \in {"ready", "append", "appended", "short"} \/ (r.pc = "done" /\ ~r.failed)
Broken(r) == r.pc = "done" /\ r.failed

SoundOK(G, P) ==
  \A o \in Ops :
    /\ Live(P, o) /\ G[P[o].gen].flushPromise = o /\ Draining(P[o]) =>
         ~G[P[o].gen].storageFailure
    /\ Broken(P[o]) => G[P[o].gen].storageFailure

\* Nothing of generation g will reach the storage any more.
Finished(G, P, g) ==
  \/ G[g].storageFailure /\ \A o \in Ops : ~LiveIn(P, o, g)
  \/ G[g].pending = <<>> /\ \A o \in Ops :
       LiveIn(P, o, g) => P[o].pc \in {"ready", "done"} /\ ~P[o].failed

\* A retired generation waits for the flush of its retirement, or is finished.
RetiredOK(G, P) ==
  \A g \in Gens : G[g].retired =>
    \/ ~G[g].settled /\ G[g].retirement # None /\ G[g].flushPromise = G[g].retirement
    \/ /\ Finished(G, P, g) /\ Turn(G, g)
       /\ G[g].retirement # None => SettledIn(P, G[g].retirement)

\* The generation that may use the storage.
AtWork(n, G, g) == g <= n /\ Turn(G, g) /\ ~G[g].settled

\* Unacknowledged lines are those of the generation at work, and a failure or a rewrite
\* keeps it from writing them again.
FringeOK(f, n, G, P) ==
  f # <<>> => \E g \in Gens :
    /\ AtWork(n, G, g)
    /\ \/ G[g].storageFailure
       \/ \E o \in Ops : LiveIn(P, o, g) /\ P[o].pc \in {"appended", "short", "prior", "write"}

ObjectInv(f, l, n, G, P) ==
  /\ Objects(l, n, G, P)
  /\ GensOK(l, n, G)
  /\ EpochsOK(n, G, P)
  /\ ChainOK(G, P)
  /\ WorkOK(f, G, P)
  /\ SoundOK(G, P)
  /\ RetiredOK(G, P)
  /\ FringeOK(f, n, G, P)

LogInv == TypeOK /\ ObjectInv(fringe, logs, ngens, gen, op)

-----------------------------------------------------------------------------
(* Types of the fields *)

LEMMA GenTypes ==
  ASSUME NEW G \in [Gens -> Generation], NEW g \in Gens
  PROVE  /\ G[g].pending \in Seq(Records) /\ Len(G[g].pending) \in Nat
         /\ G[g].flushPromise \in Ops \cup {None}
         /\ G[g].cutoverEpoch \in Nat /\ G[g].refCount \in Nat
         /\ G[g].ready \in Gens \cup {None} /\ G[g].retirement \in Ops \cup {None}
         /\ G[g].flushScheduled \in BOOLEAN /\ G[g].storageFailure \in BOOLEAN
         /\ G[g].retired \in BOOLEAN /\ G[g].settled \in BOOLEAN
BY DEF Generation

LEMMA OpTypes ==
  ASSUME NEW P \in [Ops -> Operation], NEW o \in Ops
  PROVE  /\ P[o].pc \in Pcs /\ P[o].gen \in Gens \cup {None} /\ P[o].epoch \in Nat
         /\ P[o].batch \in Nat /\ P[o].prior \in Ops \cup {None}
         /\ P[o].snapshot \in Seq(Records) /\ P[o].failed \in BOOLEAN
BY DEF Operation

LEMMA ConstTypes ==
  /\ Gens \in SUBSET Nat /\ Ops \in SUBSET Nat /\ None = 0 /\ None \notin Ops /\ None \notin Gens
  /\ \A g \in Gens, k \in Nat : k # 0 /\ k <= g => k \in Gens
  /\ \A g \in Gens : g <= MaxGens
  /\ \A k \in Nat : k # 0 /\ k <= MaxGens => k \in Gens
  /\ MaxGens \in Nat
BY LogAssumption DEF Gens, Ops, None

\* The fields of a generation nobody has used.
Unused(N, r) ==
  /\ N.pending = <<>> /\ N.flushPromise = None /\ N.flushScheduled = FALSE
  /\ N.storageFailure = FALSE /\ N.cutoverEpoch = 0 /\ N.refCount = 0 /\ N.retired = FALSE
  /\ N.ready = r /\ N.retirement = None /\ N.settled = FALSE

LEMMA NewGenerationType ==
  \A r \in Gens \cup {None} : NewGeneration(r) \in Generation /\ Unused(NewGeneration(r), r)
BY DEF NewGeneration, Generation, None, Unused

-----------------------------------------------------------------------------
(* The parts of a call *)

\* state(): the next generation is opened.
LEMMA OpenInv ==
  ASSUME NEW f, NEW l, NEW n, NEW G, NEW P, ObjectInv(f, l, n, G, P),
         l # None => G[l].retired, n + 1 \in Gens,
         NEW H, H = [G EXCEPT ![n + 1] = NewGeneration(l)]
  PROVE  ObjectInv(f, n + 1, n + 1, H, P)
<1>0. /\ Objects(l, n, G, P) /\ GensOK(l, n, G) /\ EpochsOK(n, G, P) /\ ChainOK(G, P)
      /\ WorkOK(f, G, P) /\ SoundOK(G, P) /\ RetiredOK(G, P) /\ FringeOK(f, n, G, P)
  BY DEF ObjectInv
<1>1. /\ n \in Nat /\ n <= MaxGens /\ (l = None \/ l = n) /\ l \in Gens \cup {None}
      /\ G \in [Gens -> Generation] /\ P \in [Ops -> Operation]
  BY <1>0, ConstTypes DEF Objects
<1>2. H \in [Gens -> Generation]
  BY <1>1, NewGenerationType
<1>3. /\ \A g \in Gens : g # n + 1 => H[g] = G[g]
      /\ H[n + 1] = NewGeneration(l) /\ G[n + 1] = NewGeneration(None)
  BY <1>0, <1>1 DEF GensOK
<1>4. Unused(H[n + 1], l) /\ Unused(G[n + 1], None)
  BY <1>1, <1>3, NewGenerationType
<1>5. /\ \A g \in Gens : H[g].settled = G[g].settled /\ H[g].flushPromise = G[g].flushPromise
      /\ \A g \in Gens : H[g].storageFailure = G[g].storageFailure /\ H[g].pending = G[g].pending
      /\ \A g \in Gens : H[g].retired = G[g].retired /\ H[g].retirement = G[g].retirement
      /\ \A g \in Gens : H[g].refCount = G[g].refCount /\ H[g].cutoverEpoch = G[g].cutoverEpoch
  BY <1>3, <1>4 DEF Unused
<1>6. \A g : Turn(H, g) <=> Turn(G, g)
  BY <1>5 DEF Turn
<1>7. Objects(n + 1, n + 1, H, P)
  BY <1>1, <1>2, ConstTypes DEF Objects
<1>8. GensOK(n + 1, n + 1, H)
  <2> SUFFICES ASSUME NEW g \in Gens
               PROVE  /\ g > n + 1 => H[g] = NewGeneration(None)
                      /\ g <= n + 1 /\ H[g].ready = None => Turn(H, g)
                      /\ H[g].ready # None => H[g].ready = g - 1
                      /\ g <= n + 1 /\ g # n + 1 => H[g].retired
                      /\ H[g].settled => /\ g # n + 1 /\ Turn(H, g)
                                         /\ H[g].pending = <<>> /\ H[g].retirement = None
                      /\ H[g].retired => H[g].refCount = 0
                      /\ H[g].storageFailure => Turn(H, g)
    BY <1>1, ConstTypes DEF GensOK
  <2>1. g \in Nat
    BY ConstTypes
  <2>2. CASE g # n + 1
    <3>1. H[g] = G[g] /\ (g > n + 1 => g > n) /\ (g <= n + 1 => g <= n)
      BY <1>1, <1>3, <2>1, <2>2
    <3>2. g <= n => G[g].retired
      BY <1>0, <1>1 DEF GensOK
    <3> QED BY <1>0, <1>6, <2>2, <3>1, <3>2 DEF GensOK
  <2>3. CASE g = n + 1
    <3>1. l = None => Turn(G, g)
      <4>1. \A h \in Gens : h < n + 1 => h <= n
        BY <1>1, ConstTypes
      <4> QED BY <1>0, <2>3, <4>1 DEF GensOK, Turn
    <3>2. H[g].ready = l /\ ~H[g].settled /\ ~H[g].retired /\ ~H[g].storageFailure
      BY <1>4, <2>3 DEF Unused
    <3>3. l # None => l = g - 1
      BY <1>1, <2>3
    <3>4. ~(g > n + 1)
      BY <1>1, <2>3
    <3>5. H[g].ready = None => Turn(H, g)
      BY <1>6, <3>1, <3>2
    <3>6. H[g].ready # None => H[g].ready = g - 1
      BY <3>2, <3>3
    <3> QED BY <2>3, <3>2, <3>4, <3>5, <3>6
  <2> QED BY <2>2, <2>3
<1>9. EpochsOK(n + 1, H, P)
  <2>1. \A g \in Gens : g <= n => g <= n + 1
    BY <1>1, ConstTypes
  <2> QED BY <1>0, <1>5, <2>1 DEF EpochsOK
<1>10. ChainOK(H, P)
  BY <1>0, <1>6 DEF ChainOK
<1>11. WorkOK(f, H, P) /\ SoundOK(H, P)
  <2>1. \A o \in Ops : P[o].pc \in {"append", "appended", "short"} => P[o].gen \in Gens
    BY <1>0 DEF EpochsOK, Live, Idle
  <2>2. \A o \in Ops : Broken(P[o]) => P[o].gen \in Gens
    BY <1>0 DEF EpochsOK, Live, Idle, Broken
  <2> QED BY <1>0, <1>5, <2>1, <2>2 DEF WorkOK, SoundOK, EpochsOK
<1>12. RetiredOK(H, P)
  <2>1. \A g \in Gens : Finished(G, P, g) => Finished(H, P, g)
    BY <1>5 DEF Finished
  <2> QED BY <1>0, <1>5, <1>6, <2>1 DEF RetiredOK
<1>13. FringeOK(f, n + 1, H, P)
  <2>1. \A g \in Gens : AtWork(n, G, g) => AtWork(n + 1, H, g)
    <3> SUFFICES ASSUME NEW g \in Gens, g <= n, Turn(G, g), ~G[g].settled
                 PROVE  g <= n + 1 /\ Turn(H, g) /\ ~H[g].settled
      BY DEF AtWork
    <3>1. g <= n + 1
      BY <1>1, ConstTypes
    <3> QED BY <1>5, <1>6, <3>1
  <2> QED BY <1>0, <1>5, <2>1 DEF FringeOK
<1> QED BY <1>7, <1>8, <1>9, <1>10, <1>11, <1>12, <1>13 DEF ObjectInv

-----------------------------------------------------------------------------
(* What the invariant says of the operations *)

\* Of two operations of a generation one waits for its predecessor.
LEMMA OneGoesOn ==
  ASSUME NEW l, NEW n, NEW G, NEW P, Objects(l, n, G, P), EpochsOK(n, G, P), ChainOK(G, P),
         NEW o \in Ops, NEW p \in Ops, Live(P, o), LiveIn(P, p, P[o].gen), o # p
  PROVE  P[o].pc = "prior" \/ P[p].pc = "prior"
<1>1. P[o].epoch \in Nat /\ P[p].epoch \in Nat
  BY OpTypes DEF Objects
<1>2. P[o].epoch < P[p].epoch \/ P[p].epoch < P[o].epoch
  BY <1>1 DEF EpochsOK
<1>3. CASE P[p].epoch < P[o].epoch
  BY <1>3 DEF ChainOK
<1>4. CASE P[o].epoch < P[p].epoch
  BY <1>4 DEF ChainOK, LiveIn
<1> QED BY <1>2, <1>3, <1>4

\* An operation that has nobody left to wait for is the first of its generation.
LEMMA FirstInLine ==
  ASSUME NEW l, NEW n, NEW G, NEW P, Objects(l, n, G, P), EpochsOK(n, G, P), ChainOK(G, P),
         NEW o \in Ops, Live(P, o), P[o].pc = "prior" /\ P[o].prior # None => SettledIn(P, P[o].prior)
  PROVE  \A p \in Ops : LiveIn(P, p, P[o].gen) /\ p # o =>
           P[p].pc = "prior" /\ P[o].epoch < P[p].epoch
<1> SUFFICES ASSUME NEW p \in Ops, LiveIn(P, p, P[o].gen), p # o
             PROVE  P[p].pc = "prior" /\ P[o].epoch < P[p].epoch
  OBVIOUS
<1>1. P[o].epoch \in Nat /\ P[p].epoch \in Nat
  BY OpTypes DEF Objects
<1>2. P[o].epoch < P[p].epoch \/ P[p].epoch < P[o].epoch
  BY <1>1 DEF EpochsOK
<1>3. ~(P[p].epoch < P[o].epoch)
  BY DEF ChainOK, LiveIn, Live, SettledIn, Idle
<1>4. P[p].pc = "prior"
  BY <1>2, <1>3 DEF ChainOK, LiveIn
<1> QED BY <1>2, <1>3, <1>4

\* A settled generation has retired, exists, and keeps nothing at the storage.
LEMMA SettledFacts ==
  ASSUME NEW f, NEW l, NEW n, NEW G, NEW P, ObjectInv(f, l, n, G, P),
         NEW g \in Gens, G[g].settled
  PROVE  /\ g <= n /\ G[g].retired /\ G[g].pending = <<>> /\ Turn(G, g)
         /\ \A o \in Ops : LiveIn(P, o, g) => P[o].pc \in {"ready", "done"} /\ ~P[o].failed
<1>0. /\ Objects(l, n, G, P) /\ GensOK(l, n, G) /\ RetiredOK(G, P)
  BY DEF ObjectInv
<1>1. n \in Nat /\ g \in Nat
  BY <1>0, ConstTypes DEF Objects
<1>2. g <= n
  <2>1. ~NewGeneration(None).settled
    BY NewGenerationType DEF Unused
  <2> QED BY <1>0, <1>1, <2>1 DEF GensOK
<1>3. G[g].pending = <<>> /\ Turn(G, g) /\ G[g].retired
  BY <1>0, <1>2 DEF GensOK
<1>4. Finished(G, P, g)
  BY <1>0, <1>3 DEF RetiredOK
<1> QED BY <1>2, <1>3, <1>4 DEF Finished

\* Who is at the storage belongs to the one generation at work.
LEMMA StorageFacts ==
  ASSUME NEW f, NEW l, NEW n, NEW G, NEW P, ObjectInv(f, l, n, G, P),
         NEW o \in Ops, P[o].pc \in AtStorage
  PROVE  /\ Live(P, o) /\ P[o].gen \in Gens /\ AtWork(n, G, P[o].gen)
         /\ \A g \in Gens : AtWork(n, G, g) => g = P[o].gen
         /\ \A p \in Ops : P[p].pc \in AtStorage => p = o
<1>0. /\ Objects(l, n, G, P) /\ EpochsOK(n, G, P) /\ ChainOK(G, P)
  BY DEF ObjectInv
<1>1. \A p \in Ops : P[p].pc \in AtStorage =>
        Live(P, p) /\ P[p].gen \in Gens /\ P[p].gen <= n /\ Turn(G, P[p].gen)
  BY <1>0 DEF EpochsOK, ChainOK, Live, AtStorage, Idle
<1>2. \A p \in Ops : P[p].pc \in AtStorage => ~G[P[p].gen].settled
  BY <1>1, SettledFacts DEF LiveIn, AtStorage
<1>3. \A g, h \in Gens : AtWork(n, G, g) /\ AtWork(n, G, h) => g = h
  BY ConstTypes DEF AtWork, Turn
<1>4. \A p \in Ops : P[p].pc \in AtStorage => AtWork(n, G, P[p].gen)
  BY <1>1, <1>2 DEF AtWork
<1>5. \A p \in Ops : P[p].pc \in AtStorage => p = o
  <2> SUFFICES ASSUME NEW p \in Ops, P[p].pc \in AtStorage, p # o PROVE FALSE
    OBVIOUS
  <2>1. LiveIn(P, p, P[o].gen) /\ Live(P, o)
    BY <1>1, <1>3, <1>4 DEF LiveIn
  <2>2. P[o].pc = "prior" \/ P[p].pc = "prior"
    BY <1>0, <2>1, OneGoesOn
  <2> QED BY <2>2 DEF AtStorage
<1> QED BY <1>1, <1>3, <1>4, <1>5

-----------------------------------------------------------------------------
(* The parts of a call, continued *)

\* Records are queued, owners come and go, a flush is scheduled: nothing the operations see.
LEMMA TouchInv ==
  ASSUME NEW f, NEW l, NEW n, NEW G, NEW P, ObjectInv(f, l, n, G, P),
         NEW H \in [Gens -> Generation],
         \A g \in Gens :
           /\ H[g].flushPromise = G[g].flushPromise /\ H[g].storageFailure = G[g].storageFailure
           /\ H[g].cutoverEpoch = G[g].cutoverEpoch /\ H[g].retired = G[g].retired
           /\ H[g].ready = G[g].ready /\ H[g].retirement = G[g].retirement
           /\ H[g].settled = G[g].settled
           /\ g > n => H[g] = G[g]
           /\ H[g].retired => H[g].refCount = 0 /\ H[g].pending = G[g].pending
           /\ Len(G[g].pending) <= Len(H[g].pending)
  PROVE  ObjectInv(f, l, n, H, P)
<1>0. /\ Objects(l, n, G, P) /\ GensOK(l, n, G) /\ EpochsOK(n, G, P) /\ ChainOK(G, P)
      /\ WorkOK(f, G, P) /\ SoundOK(G, P) /\ RetiredOK(G, P) /\ FringeOK(f, n, G, P)
  BY DEF ObjectInv
<1>1. Objects(l, n, H, P)
  BY <1>0 DEF Objects
<1>2. \A g : Turn(H, g) <=> Turn(G, g)
  BY DEF Turn
<1>3. GensOK(l, n, H)
  <2>1. \A g \in Gens : G[g].settled => G[g].retired
    BY SettledFacts
  <2> QED BY <1>0, <1>2, <2>1 DEF GensOK
<1>4. EpochsOK(n, H, P)
  BY <1>0 DEF EpochsOK
<1>5. ChainOK(H, P)
  BY <1>0, <1>2 DEF ChainOK
<1>6. WorkOK(f, H, P)
  <2>1. \A o \in Ops : P[o].pc \in {"append", "appended", "short"} =>
          P[o].gen \in Gens /\ P[o].batch \in 1..Len(H[P[o].gen].pending)
    <3> SUFFICES ASSUME NEW o \in Ops, P[o].pc \in {"append", "appended", "short"}
                 PROVE  P[o].gen \in Gens /\ P[o].batch \in 1..Len(H[P[o].gen].pending)
      OBVIOUS
    <3>1. P[o].gen \in Gens
      BY <1>0 DEF EpochsOK, Live, Idle
    <3>2. P[o].batch \in 1..Len(G[P[o].gen].pending)
      BY <1>0 DEF WorkOK
    <3>3. Len(G[P[o].gen].pending) \in Nat /\ Len(H[P[o].gen].pending) \in Nat
      BY <1>0, <1>1, <3>1, GenTypes DEF Objects
    <3> QED BY <3>1, <3>2, <3>3
  <2> QED BY <1>0, <2>1 DEF WorkOK
<1>7. SoundOK(H, P)
  <2>1. \A o \in Ops : Broken(P[o]) => P[o].gen \in Gens
    BY <1>0 DEF EpochsOK, Live, Idle, Broken
  <2> QED BY <1>0, <2>1 DEF SoundOK, EpochsOK
<1>8. RetiredOK(H, P)
  <2>1. \A g \in Gens : H[g].retired /\ Finished(G, P, g) => Finished(H, P, g)
    BY DEF Finished
  <2> QED BY <1>0, <1>2, <2>1 DEF RetiredOK
<1>9. FringeOK(f, n, H, P)
  BY <1>0, <1>2 DEF FringeOK, AtWork
<1> QED BY <1>1, <1>3, <1>4, <1>5, <1>6, <1>7, <1>8, <1>9 DEF ObjectInv

\* A promise nobody uses or waits for.
Spare(G, P, o) ==
  /\ P[o].pc \in Idle
  /\ \A p \in Ops : P[p].pc = "prior" => P[p].prior # o
  /\ \A g \in Gens : G[g].retired /\ ~G[g].settled => G[g].retirement # o

LEMMA FreshIsSpare == ASSUME NEW o \in Ops, Fresh(o) PROVE Spare(gen, op, o)
BY DEF Fresh, Spare, Awaited

\* A promise o is made for generation g: a drain for the epoch it has, or a rewrite, which
\* begins a new one and waits for what was in flight.
Starts(G, P, H, Q, g, o) ==
  LET r == Q[o] IN
  /\ \A p \in Ops : p # o => Q[p] = P[p]
  /\ \A h \in Gens : h # g => H[h] = G[h]
  /\ H[g].flushPromise = o /\ H[g].storageFailure = G[g].storageFailure
  /\ H[g].retired = G[g].retired /\ H[g].refCount = G[g].refCount
  /\ H[g].ready = G[g].ready /\ H[g].retirement = G[g].retirement
  /\ H[g].settled = G[g].settled /\ H[g].pending = G[g].pending
  /\ r.gen = g /\ H[g].cutoverEpoch = r.epoch /\ ~r.failed
  /\ \/ /\ r.pc = "ready" /\ G[g].flushPromise = None /\ ~G[g].storageFailure
        /\ r.epoch = G[g].cutoverEpoch
     \/ /\ r.pc = "prior" /\ r.prior = G[g].flushPromise /\ r.snapshot \in Snapshots
        /\ r.epoch = G[g].cutoverEpoch + 1 /\ ~G[g].retired

LEMMA StartInv ==
  ASSUME NEW f, NEW l, NEW n, NEW G, NEW P, ObjectInv(f, l, n, G, P),
         NEW g \in Gens, g <= n, NEW o \in Ops, Spare(G, P, o),
         NEW H \in [Gens -> Generation], NEW Q \in [Ops -> Operation],
         Starts(G, P, H, Q, g, o)
  PROVE  ObjectInv(f, l, n, H, Q)
<1> DEFINE r == Q[o]
<1>0. /\ Objects(l, n, G, P) /\ GensOK(l, n, G) /\ EpochsOK(n, G, P) /\ ChainOK(G, P)
      /\ WorkOK(f, G, P) /\ SoundOK(G, P) /\ RetiredOK(G, P) /\ FringeOK(f, n, G, P)
  BY DEF ObjectInv
<1>1. G \in [Gens -> Generation] /\ P \in [Ops -> Operation] /\ Q \in [Ops -> Operation]
  BY <1>0 DEF Objects
<1>2. /\ Q[o] = r /\ r.gen = g /\ \A p \in Ops : p # o => Q[p] = P[p]
      /\ \A h \in Gens : h # g => H[h] = G[h]
      /\ H[g].flushPromise = o /\ H[g].cutoverEpoch = r.epoch /\ ~r.failed
  BY DEF Starts
<1>20. \/ /\ r.pc = "ready" /\ ~r.failed /\ G[g].flushPromise = None /\ ~G[g].storageFailure
          /\ r.epoch = G[g].cutoverEpoch
       \/ /\ r.pc = "prior" /\ r.prior = G[g].flushPromise /\ r.snapshot \in Snapshots
          /\ r.epoch = G[g].cutoverEpoch + 1 /\ ~G[g].retired
  BY DEF Starts
<1>3. Live(Q, o) /\ ~Live(P, o) /\ \A p \in Ops : p # o => (Live(Q, p) <=> Live(P, p))
  BY <1>2, <1>20 DEF Live, Spare, Idle
<1>30. \A p \in Ops : \A h : LiveIn(P, p, h) => p # o /\ Q[p] = P[p] /\ LiveIn(Q, p, h)
  BY <1>2, <1>3 DEF LiveIn
<1>31. \A p \in Ops : \A h :
         LiveIn(Q, p, h) => (p = o /\ h = g) \/ (p # o /\ Q[p] = P[p] /\ LiveIn(P, p, h))
  <2> SUFFICES ASSUME NEW p \in Ops, NEW h, LiveIn(Q, p, h)
               PROVE  (p = o /\ h = g) \/ (p # o /\ Q[p] = P[p] /\ LiveIn(P, p, h))
    OBVIOUS
  <2>1. CASE p = o
    BY <1>2, <2>1 DEF LiveIn
  <2>2. CASE p # o
    BY <1>2, <1>3, <2>2 DEF LiveIn
  <2> QED BY <2>1, <2>2
<1>4. \A h \in Gens :
        /\ H[h].settled = G[h].settled /\ H[h].retired = G[h].retired
        /\ H[h].storageFailure = G[h].storageFailure /\ H[h].pending = G[h].pending
        /\ H[h].retirement = G[h].retirement /\ H[h].ready = G[h].ready
        /\ H[h].refCount = G[h].refCount
  BY DEF Starts
<1> HIDE DEF r
<1>5. \A h : Turn(H, h) <=> Turn(G, h)
  BY <1>4 DEF Turn
<1>6. /\ G[g].cutoverEpoch \in Nat /\ r.epoch \in Nat /\ r.epoch >= G[g].cutoverEpoch
      /\ \A p \in Ops : P[p].epoch \in Nat
  <2>1. G[g].cutoverEpoch \in Nat /\ \A p \in Ops : P[p].epoch \in Nat /\ Q[p].epoch \in Nat
    BY <1>1, GenTypes, OpTypes
  <2> QED BY <1>2, <1>20, <2>1
<1>7. \A p \in Ops : p # o /\ LiveIn(P, p, g) =>
        /\ r.pc = "prior" /\ P[p].epoch < r.epoch
        /\ r.prior # None /\ LiveIn(P, r.prior, g) /\ P[p].epoch <= P[r.prior].epoch
        /\ r.prior \in Ops /\ r.prior # o /\ P[r.prior].epoch < r.epoch
  <2> SUFFICES ASSUME NEW p \in Ops, p # o, LiveIn(P, p, g)
               PROVE  /\ r.pc = "prior" /\ P[p].epoch < r.epoch
                      /\ r.prior # None /\ LiveIn(P, r.prior, g) /\ P[p].epoch <= P[r.prior].epoch
                      /\ r.prior \in Ops /\ r.prior # o /\ P[r.prior].epoch < r.epoch
    OBVIOUS
  <2>1. G[g].flushPromise # None /\ P[p].epoch <= G[g].cutoverEpoch
    BY <1>0 DEF EpochsOK, LiveIn
  <2>2. r.pc = "prior" /\ r.prior = G[g].flushPromise /\ r.epoch = G[g].cutoverEpoch + 1
    BY <1>20, <2>1
  <2>3. r.prior \in Ops /\ LiveIn(P, r.prior, g) /\ r.prior # o
    BY <1>0, <1>1, <1>3, <2>1, <2>2, GenTypes DEF EpochsOK, LiveIn
  <2>4. P[r.prior].epoch = G[g].cutoverEpoch
    BY <1>0, <2>2, <2>3 DEF EpochsOK, LiveIn
  <2> QED BY <1>6, <2>1, <2>2, <2>3, <2>4
<1>8. Objects(l, n, H, Q)
  BY <1>0, <1>1 DEF Objects
<1>9. GensOK(l, n, H)
  <2>1. n \in Nat /\ \A h \in Gens : h > n => h # g
    BY <1>0, ConstTypes DEF Objects
  <2> QED BY <1>0, <1>2, <1>4, <1>5, <2>1 DEF GensOK
<1>10. EpochsOK(n, H, Q)
  <2>1. ASSUME NEW p \in Ops, Live(Q, p)
        PROVE  /\ Q[p].gen \in Gens /\ Q[p].gen <= n
               /\ Q[p].epoch <= H[Q[p].gen].cutoverEpoch
               /\ Q[p].epoch = H[Q[p].gen].cutoverEpoch <=> H[Q[p].gen].flushPromise = p
               /\ H[Q[p].gen].flushPromise # None
    <3>1. CASE p = o
      BY <1>2, <1>6, <3>1, ConstTypes
    <3>2. CASE p # o /\ P[p].gen = g
      <4>1. P[p].epoch < r.epoch
        BY <1>3, <1>7, <2>1, <3>2 DEF LiveIn
      <4>2. Q[p] = P[p] /\ P[p].epoch <= r.epoch /\ P[p].epoch # r.epoch /\ o # None /\ o # p
        BY <1>2, <1>6, <3>2, <4>1, ConstTypes
      <4> QED BY <1>2, <3>2, <4>2
    <3>3. CASE p # o /\ P[p].gen # g
      <4>1. Live(P, p) /\ Q[p] = P[p]
        BY <1>2, <1>3, <2>1, <3>3
      <4>2. P[p].gen \in Gens /\ H[P[p].gen] = G[P[p].gen]
        BY <1>0, <1>2, <3>3, <4>1 DEF EpochsOK
      <4>3. /\ P[p].gen \in Gens /\ P[p].gen <= n
            /\ P[p].epoch <= G[P[p].gen].cutoverEpoch
            /\ P[p].epoch = G[P[p].gen].cutoverEpoch <=> G[P[p].gen].flushPromise = p
            /\ G[P[p].gen].flushPromise # None
        BY <1>0, <4>1 DEF EpochsOK
      <4> QED BY <4>1, <4>2, <4>3
    <3> QED BY <3>1, <3>2, <3>3
  <2>2. ASSUME NEW h \in Gens, H[h].flushPromise # None
        PROVE  LiveIn(Q, H[h].flushPromise, h)
    <3>1. CASE h = g
      BY <1>2, <1>3, <3>1 DEF LiveIn
    <3>2. CASE h # g
      <4>1. G[h].flushPromise \in Ops /\ LiveIn(P, G[h].flushPromise, h) /\ H[h] = G[h]
        BY <1>0, <1>1, <1>2, <2>2, <3>2, GenTypes DEF EpochsOK
      <4> QED BY <1>30, <4>1
    <3> QED BY <3>1, <3>2
  <2>3. ASSUME NEW p \in Ops, NEW q \in Ops, Live(Q, p), LiveIn(Q, q, Q[p].gen),
               Q[q].epoch = Q[p].epoch
        PROVE  p = q
    <3>1. CASE p # o /\ q # o
      <4>1. Live(P, p) /\ LiveIn(P, q, P[p].gen) /\ P[q].epoch = P[p].epoch
        BY <1>2, <1>3, <1>31, <2>3, <3>1
      <4> QED BY <1>0, <4>1 DEF EpochsOK
    <3>2. CASE p = o /\ q # o
      <4>1. P[q].epoch < r.epoch
        BY <1>2, <1>7, <1>31, <2>3, <3>2
      <4> QED BY <1>2, <1>6, <2>3, <3>2, <4>1
    <3>3. CASE p # o /\ q = o
      <4>1. P[p].epoch < r.epoch
        <5>1. LiveIn(P, p, g)
          BY <1>2, <1>3, <2>3, <3>3 DEF LiveIn
        <5> QED BY <1>7, <3>3, <5>1
      <4> QED BY <1>2, <1>6, <2>3, <3>3, <4>1
    <3> QED BY <3>1, <3>2, <3>3
  <2> QED BY <2>1, <2>2, <2>3 DEF EpochsOK
<1>11. ChainOK(H, Q)
  <2>1. ASSUME NEW p \in Ops, NEW q \in Ops, Live(Q, p), LiveIn(Q, q, Q[p].gen),
               Q[q].epoch < Q[p].epoch
        PROVE  /\ Q[p].pc = "prior" /\ Q[p].prior # None
               /\ LiveIn(Q, Q[p].prior, Q[p].gen) /\ Q[q].epoch <= Q[Q[p].prior].epoch
    <3>1. CASE p = o /\ q # o
      <4>1. LiveIn(P, q, g) /\ Q[q] = P[q]
        BY <1>2, <1>31, <2>1, <3>1
      <4>2. LiveIn(Q, r.prior, g) /\ Q[r.prior] = P[r.prior]
        BY <1>7, <1>30, <3>1, <4>1
      <4> QED BY <1>2, <1>7, <3>1, <4>1, <4>2
    <3>2. CASE p = o /\ q = o
      BY <1>2, <1>6, <2>1, <3>2
    <3>3. CASE p # o /\ q = o
      <4>1. P[p].epoch < r.epoch
        <5>1. LiveIn(P, p, g)
          BY <1>2, <1>3, <2>1, <3>3 DEF LiveIn
        <5> QED BY <1>7, <3>3, <5>1
      <4> QED BY <1>2, <1>6, <2>1, <3>3, <4>1
    <3>4. CASE p # o /\ q # o
      <4>1. /\ P[p].pc = "prior" /\ P[p].prior # None
            /\ LiveIn(P, P[p].prior, P[p].gen) /\ P[q].epoch <= P[P[p].prior].epoch
        BY <1>0, <1>2, <1>3, <2>1, <3>4 DEF ChainOK, LiveIn
      <4>2. P[p].prior # o /\ P[p].prior \in Ops
        BY <1>1, <4>1, OpTypes DEF Spare
      <4> QED BY <1>2, <1>3, <3>4, <4>1, <4>2 DEF LiveIn
    <3> QED BY <3>1, <3>2, <3>3, <3>4
  <2>2. ASSUME NEW p \in Ops, Q[p].pc = "prior", Q[p].prior # None
        PROVE  \/ LiveIn(Q, Q[p].prior, Q[p].gen) /\ Q[Q[p].prior].epoch < Q[p].epoch
               \/ SettledIn(Q, Q[p].prior) /\ Turn(H, Q[p].gen)
    <3>1. CASE p = o
      <4>1. G[g].flushPromise = r.prior /\ r.prior # None /\ r.prior \in Ops
        BY <1>1, <1>2, <1>20, <2>2, <3>1, GenTypes
      <4>2. LiveIn(P, r.prior, g) /\ r.prior # o
        BY <1>0, <1>3, <4>1 DEF EpochsOK, LiveIn
      <4>3. P[r.prior].epoch < r.epoch /\ LiveIn(Q, r.prior, g) /\ Q[r.prior] = P[r.prior]
        BY <1>7, <1>30, <4>1, <4>2
      <4> QED BY <1>2, <3>1, <4>3
    <3>2. CASE p # o
      <4>1. P[p].prior # o /\ P[p].prior \in Ops
        BY <1>1, <1>2, <2>2, <3>2, OpTypes DEF Spare
      <4>2. \/ LiveIn(P, P[p].prior, P[p].gen) /\ P[P[p].prior].epoch < P[p].epoch
            \/ SettledIn(P, P[p].prior) /\ Turn(G, P[p].gen)
        BY <1>0, <1>2, <2>2, <3>2 DEF ChainOK
      <4> QED BY <1>2, <1>3, <1>5, <3>2, <4>1, <4>2 DEF LiveIn, SettledIn
    <3> QED BY <3>1, <3>2
  <2>3. ASSUME NEW p \in Ops, Live(Q, p), Q[p].pc \notin {"ready", "prior"}
        PROVE  Turn(H, Q[p].gen)
    BY <1>0, <1>2, <1>3, <1>5, <1>20, <2>3 DEF ChainOK
  <2> QED BY <2>1, <2>2, <2>3 DEF ChainOK
<1>12. WorkOK(f, H, Q)
  <2>1. ASSUME NEW p \in Ops
        PROVE  /\ Q[p].pc \in {"append", "appended", "short"} =>
                    Q[p].batch \in 1..Len(H[Q[p].gen].pending)
               /\ Q[p].pc \in {"prior", "write"} => Q[p].snapshot \in Snapshots
               /\ Q[p].pc \in {"append", "written"} => f = <<>>
               /\ Q[p].failed => Q[p].pc = "done"
    <3>1. CASE p = o
      BY <1>2, <1>20, <3>1
    <3>2. CASE p # o
      <4>1. P[p].pc \in {"append", "appended", "short"} => P[p].gen \in Gens
        BY <1>0 DEF EpochsOK, Live, Idle
      <4> QED BY <1>0, <1>2, <1>4, <3>2, <4>1 DEF WorkOK
    <3> QED BY <3>1, <3>2
  <2> QED BY <2>1 DEF WorkOK
<1>13. SoundOK(H, Q)
  <2> SUFFICES ASSUME NEW p \in Ops, Live(Q, p), Draining(Q[p]) \/ Broken(Q[p])
               PROVE  /\ H[Q[p].gen].flushPromise = p /\ Draining(Q[p]) =>
                           ~H[Q[p].gen].storageFailure
                      /\ Broken(Q[p]) => H[Q[p].gen].storageFailure
    BY DEF SoundOK, Broken, Live, Idle
  <2>1. CASE p = o
    BY <1>2, <1>4, <1>20, <2>1 DEF Draining, Broken
  <2>2. CASE p # o
    <3>1. P[p].gen \in Gens /\ Q[p] = P[p] /\ Live(P, p)
      BY <1>0, <1>2, <1>3, <2>2 DEF EpochsOK
    <3>2. H[P[p].gen].flushPromise = p => H[P[p].gen] = G[P[p].gen]
      BY <1>2, <2>2, <3>1
    <3>3. H[P[p].gen].storageFailure = G[P[p].gen].storageFailure
      BY <1>4, <3>1
    <3> QED BY <1>0, <3>1, <3>2, <3>3 DEF SoundOK
  <2> QED BY <2>1, <2>2
<1>14. RetiredOK(H, Q)
  <2> SUFFICES ASSUME NEW h \in Gens, H[h].retired
               PROVE  \/ ~H[h].settled /\ H[h].retirement # None /\ H[h].flushPromise = H[h].retirement
                      \/ /\ Finished(H, Q, h) /\ Turn(H, h)
                         /\ H[h].retirement # None => SettledIn(Q, H[h].retirement)
    BY DEF RetiredOK
  <2>1. \/ ~G[h].settled /\ G[h].retirement # None /\ G[h].flushPromise = G[h].retirement
        \/ /\ Finished(G, P, h) /\ Turn(G, h)
           /\ G[h].retirement # None => SettledIn(P, G[h].retirement)
    BY <1>0, <1>4 DEF RetiredOK
  <2>2. G[h].retirement # None => G[h].retirement \in Ops /\ G[h].retirement # o
    <3>1. G[h].settled => G[h].retirement = None
      BY <1>0 DEF GensOK
    <3> QED BY <1>1, <1>4, <3>1, GenTypes DEF Spare
  <2>3. CASE h # g
    <3>1. Finished(G, P, h) => Finished(H, Q, h)
      <4>1. \A p \in Ops : LiveIn(Q, p, h) => Q[p] = P[p] /\ LiveIn(P, p, h)
        BY <1>31, <2>3
      <4> QED BY <1>4, <4>1 DEF Finished
    <3> QED BY <1>2, <1>4, <1>5, <2>1, <2>2, <2>3, <3>1 DEF SettledIn
  <2>4. CASE h = g
    <3>1. r.pc = "ready" /\ ~r.failed /\ G[g].flushPromise = None /\ ~G[g].storageFailure
      BY <1>4, <1>20, <2>4
    <3>2. /\ Finished(G, P, h) /\ Turn(G, h)
          /\ G[h].retirement # None => SettledIn(P, G[h].retirement)
      BY <2>1, <2>4, <3>1
    <3>3. Finished(H, Q, h)
      <4>1. /\ G[h].pending = <<>>
            /\ \A p \in Ops : LiveIn(P, p, h) => P[p].pc \in {"ready", "done"} /\ ~P[p].failed
        BY <2>4, <3>1, <3>2 DEF Finished
      <4>2. \A p \in Ops : LiveIn(Q, p, h) => Q[p].pc \in {"ready", "done"} /\ ~Q[p].failed
        BY <1>2, <1>31, <3>1, <4>1
      <4> QED BY <1>4, <4>1, <4>2 DEF Finished
    <3> QED BY <1>2, <1>4, <1>5, <2>2, <3>2, <3>3 DEF SettledIn
  <2> QED BY <2>3, <2>4
<1>15. FringeOK(f, n, H, Q)
  <2>1. \A h \in Gens : AtWork(n, G, h) => AtWork(n, H, h)
    BY <1>4, <1>5 DEF AtWork
  <2>2. \A p \in Ops, h \in Gens : LiveIn(P, p, h) => LiveIn(Q, p, h) /\ Q[p] = P[p]
    BY <1>2, <1>3 DEF LiveIn
  <2> QED BY <1>0, <1>4, <2>1, <2>2 DEF FringeOK
<1> QED BY <1>8, <1>9, <1>10, <1>11, <1>12, <1>13, <1>14, <1>15 DEF ObjectInv

\* Generation g of G retires, and waits for the flush in flight if there is one.
Retires(G, H, g) ==
  /\ \A h \in Gens : h # g => H[h] = G[h]
  /\ H[g].flushPromise = G[g].flushPromise /\ H[g].storageFailure = G[g].storageFailure
  /\ H[g].cutoverEpoch = G[g].cutoverEpoch /\ H[g].refCount = G[g].refCount
  /\ H[g].ready = G[g].ready /\ H[g].settled = G[g].settled
  /\ H[g].pending = G[g].pending
  /\ H[g].retired /\ H[g].retirement = G[g].flushPromise

\* The last owner has gone.
LEMMA RetireInv ==
  ASSUME NEW f, NEW l, NEW n, NEW G, NEW P, ObjectInv(f, l, n, G, P),
         NEW g \in Gens, g <= n, ~G[g].retired, G[g].refCount = 0,
         G[g].flushPromise = None => G[g].storageFailure,
         NEW H \in [Gens -> Generation], Retires(G, H, g)
  PROVE  ObjectInv(f, l, n, H, P)
<1> USE DEF Retires
<1>0. /\ Objects(l, n, G, P) /\ GensOK(l, n, G) /\ EpochsOK(n, G, P) /\ ChainOK(G, P)
      /\ WorkOK(f, G, P) /\ SoundOK(G, P) /\ RetiredOK(G, P) /\ FringeOK(f, n, G, P)
  BY DEF ObjectInv
<1>1. Objects(l, n, H, P)
  BY <1>0 DEF Objects
<1>2. \A h \in Gens :
        /\ H[h].settled = G[h].settled /\ H[h].flushPromise = G[h].flushPromise
        /\ H[h].storageFailure = G[h].storageFailure /\ H[h].pending = G[h].pending
        /\ H[h].cutoverEpoch = G[h].cutoverEpoch /\ H[h].ready = G[h].ready
        /\ H[h].refCount = G[h].refCount
  OBVIOUS
<1>3. \A h : Turn(H, h) <=> Turn(G, h)
  BY <1>2 DEF Turn
<1>4. ~G[g].settled
  BY SettledFacts
<1>5. GensOK(l, n, H)
  <2>1. n \in Nat /\ \A h \in Gens : h > n => h # g
    BY <1>0, ConstTypes DEF Objects
  <2> SUFFICES ASSUME NEW h \in Gens
               PROVE  /\ h > n => H[h] = NewGeneration(None)
                      /\ h <= n /\ H[h].ready = None => Turn(H, h)
                      /\ H[h].ready # None => H[h].ready = h - 1
                      /\ h <= n /\ h # l => H[h].retired
                      /\ h <= n /\ l = None => H[h].settled
                      /\ H[h].settled => /\ h # l /\ Turn(H, h)
                                         /\ H[h].pending = <<>> /\ H[h].retirement = None
                      /\ H[h].retired => H[h].refCount = 0
                      /\ H[h].storageFailure => Turn(H, h)
    BY DEF GensOK
  <2>2. CASE h = g
    BY <1>0, <1>2, <1>3, <1>4, <2>1, <2>2 DEF GensOK
  <2>3. CASE h # g
    BY <1>0, <1>3, <2>3 DEF GensOK
  <2> QED BY <2>2, <2>3
<1>6. EpochsOK(n, H, P) /\ ChainOK(H, P)
  BY <1>0, <1>2, <1>3 DEF EpochsOK, ChainOK
<1>7. WorkOK(f, H, P) /\ SoundOK(H, P)
  <2>1. \A o \in Ops : P[o].pc \in {"append", "appended", "short"} => P[o].gen \in Gens
    BY <1>0 DEF EpochsOK, Live, Idle
  <2>2. \A o \in Ops : Broken(P[o]) => P[o].gen \in Gens
    BY <1>0 DEF EpochsOK, Live, Idle, Broken
  <2> QED BY <1>0, <1>2, <2>1, <2>2 DEF WorkOK, SoundOK, EpochsOK
<1>8. RetiredOK(H, P)
  <2> SUFFICES ASSUME NEW h \in Gens, H[h].retired
               PROVE  \/ ~H[h].settled /\ H[h].retirement # None /\ H[h].flushPromise = H[h].retirement
                      \/ /\ Finished(H, P, h) /\ Turn(H, h)
                         /\ H[h].retirement # None => SettledIn(P, H[h].retirement)
    BY DEF RetiredOK
  <2>1. CASE h # g
    <3>1. Finished(G, P, h) => Finished(H, P, h)
      BY <1>2 DEF Finished
    <3> QED BY <1>0, <1>3, <2>1, <3>1 DEF RetiredOK
  <2>2. CASE h = g /\ G[g].flushPromise # None
    BY <1>2, <1>4, <2>2
  <2>3. CASE h = g /\ G[g].flushPromise = None
    <3>1. \A o \in Ops : ~LiveIn(P, o, g)
      BY <1>0, <2>3 DEF EpochsOK, LiveIn
    <3>2. G[g].storageFailure /\ Turn(G, g)
      BY <1>0, <2>3 DEF GensOK
    <3>3. Finished(H, P, h) /\ Turn(H, h)
      BY <1>2, <1>3, <2>3, <3>1, <3>2 DEF Finished
    <3> QED BY <2>3, <3>3
  <2> QED BY <2>1, <2>2, <2>3
<1>9. FringeOK(f, n, H, P)
  BY <1>0, <1>2, <1>3 DEF FringeOK, AtWork
<1> QED BY <1>1, <1>5, <1>6, <1>7, <1>8, <1>9 DEF ObjectInv

-----------------------------------------------------------------------------
(* A step of an operation *)

\* The states in which lines of the operation may be in the file, or will be replaced.
Holding == {"appended", "short", "prior", "write"}

\* Operation o goes on: it waits for nobody of its generation, and none of the others
\* of its generation does anything but wait.
Moves(G, P, H, Q, o) ==
  LET g == P[o].gen IN
  /\ \A p \in Ops : p # o => Q[p] = P[p]
  /\ \A h \in Gens : h # g => H[h] = G[h]
  /\ H[g].flushPromise = G[g].flushPromise /\ H[g].cutoverEpoch = G[g].cutoverEpoch
  /\ H[g].retired = G[g].retired /\ H[g].refCount = G[g].refCount
  /\ H[g].ready = G[g].ready /\ H[g].retirement = G[g].retirement
  /\ H[g].settled = G[g].settled
  /\ Live(P, o) /\ (P[o].pc = "prior" /\ P[o].prior # None => SettledIn(P, P[o].prior))
  /\ Live(Q, o) /\ Q[o].gen = g /\ Q[o].epoch = P[o].epoch /\ Q[o].pc # "prior"
  /\ Turn(G, g)

\* ... and what it does to records, failures and the file - from p, x and f to r, y and
\* e - fits its state.
Works(o, f, e, p, r, x, y) ==
  /\ y.pending = x.pending \/ p.pc \in AtStorage
  /\ e = f \/ p.pc \in AtStorage
  /\ r.pc \in {"append", "appended", "short"} => r.batch \in 1..Len(y.pending)
  /\ r.pc = "write" => r.snapshot \in Snapshots
  /\ r.pc \in {"append", "written"} => e = <<>>
  /\ r.failed => r.pc = "done"
  /\ Draining(r) /\ x.flushPromise = o => ~y.storageFailure
  /\ Broken(r) => y.storageFailure
  /\ p.pc \in {"ready", "done"} /\ ~p.failed /\ x.pending = <<>> =>
       r.pc \in {"ready", "done"} /\ ~r.failed /\ y.pending = <<>>
  /\ \/ e = <<>>
     \/ p.pc \in AtStorage /\ r.pc \in Holding
     \/ /\ e = f /\ (x.storageFailure => y.storageFailure)
        /\ p.pc \in Holding =>
             r.pc \in Holding \/ y.storageFailure \/ x.flushPromise # o

LEMMA MoveInv ==
  ASSUME NEW f, NEW l, NEW n, NEW G, NEW P, ObjectInv(f, l, n, G, P), NEW o \in Ops,
         NEW e, NEW H \in [Gens -> Generation], NEW Q \in [Ops -> Operation],
         Moves(G, P, H, Q, o), Works(o, f, e, P[o], Q[o], G[P[o].gen], H[P[o].gen])
  PROVE  ObjectInv(e, l, n, H, Q)
<1> DEFINE g == P[o].gen
<1>0. /\ Objects(l, n, G, P) /\ GensOK(l, n, G) /\ EpochsOK(n, G, P) /\ ChainOK(G, P)
      /\ WorkOK(f, G, P) /\ SoundOK(G, P) /\ RetiredOK(G, P) /\ FringeOK(f, n, G, P)
  BY DEF ObjectInv
<1>1. G \in [Gens -> Generation] /\ P \in [Ops -> Operation]
  BY <1>0 DEF Objects
<1>2. /\ Live(P, o) /\ Live(Q, o) /\ Q[o].gen = g /\ Q[o].epoch = P[o].epoch /\ Q[o].pc # "prior"
      /\ \A p \in Ops : p # o => Q[p] = P[p]
      /\ \A h \in Gens : h # g => H[h] = G[h]
      /\ Turn(G, g)
  BY DEF Moves
<1>3. \A h \in Gens :
        /\ H[h].settled = G[h].settled /\ H[h].flushPromise = G[h].flushPromise
        /\ H[h].retired = G[h].retired /\ H[h].retirement = G[h].retirement
        /\ H[h].cutoverEpoch = G[h].cutoverEpoch /\ H[h].ready = G[h].ready
        /\ H[h].refCount = G[h].refCount
  BY DEF Moves
<1>4. \A p \in Ops : LiveIn(P, p, g) /\ p # o => P[p].pc = "prior" /\ P[o].epoch < P[p].epoch
  BY <1>0, <1>2, FirstInLine DEF Moves
<1>5. \A p \in Ops : /\ Live(Q, p) <=> Live(P, p)
                     /\ Q[p].gen = P[p].gen /\ Q[p].epoch = P[p].epoch
  BY <1>2 DEF Live
<1>6. \A p \in Ops : \A h : LiveIn(Q, p, h) <=> LiveIn(P, p, h)
  BY <1>5 DEF LiveIn
<1>7. g \in Gens /\ g <= n /\ G[g].flushPromise # None
  BY <1>0, <1>2 DEF EpochsOK
<1>8. \A h : Turn(H, h) <=> Turn(G, h)
  BY <1>3 DEF Turn
<1>9. Objects(l, n, H, Q)
  BY <1>0 DEF Objects
<1> HIDE DEF g
<1>10. GensOK(l, n, H)
  <2>1. n \in Nat /\ \A h \in Gens : h > n => h # g
    BY <1>0, <1>7, ConstTypes DEF Objects
  <2>2. H[g].settled => H[g].pending = <<>>
    <3> SUFFICES ASSUME G[g].settled PROVE H[g].pending = <<>>
      BY <1>3, <1>7
    <3>1. G[g].pending = <<>> /\ P[o].pc \in {"ready", "done"} /\ ~P[o].failed
      BY <1>2, <1>7, SettledFacts DEF LiveIn, g
    <3> QED BY <3>1 DEF Works, g
  <2> SUFFICES ASSUME NEW h \in Gens
               PROVE  /\ h > n => H[h] = NewGeneration(None)
                      /\ h <= n /\ H[h].ready = None => Turn(H, h)
                      /\ H[h].ready # None => H[h].ready = h - 1
                      /\ h <= n /\ h # l => H[h].retired
                      /\ h <= n /\ l = None => H[h].settled
                      /\ H[h].settled => /\ h # l /\ Turn(H, h)
                                         /\ H[h].pending = <<>> /\ H[h].retirement = None
                      /\ H[h].retired => H[h].refCount = 0
                      /\ H[h].storageFailure => Turn(H, h)
    BY DEF GensOK
  <2>3. CASE h = g
    BY <1>0, <1>2, <1>3, <1>8, <2>1, <2>2, <2>3 DEF GensOK
  <2>4. CASE h # g
    BY <1>0, <1>2, <1>8, <2>4 DEF GensOK
  <2> QED BY <2>3, <2>4
<1>11. EpochsOK(n, H, Q)
  <2>1. ASSUME NEW p \in Ops, Live(Q, p)
        PROVE  /\ Q[p].gen \in Gens /\ Q[p].gen <= n
               /\ Q[p].epoch <= H[Q[p].gen].cutoverEpoch
               /\ Q[p].epoch = H[Q[p].gen].cutoverEpoch <=> H[Q[p].gen].flushPromise = p
               /\ H[Q[p].gen].flushPromise # None
    BY <1>0, <1>3, <1>5, <2>1 DEF EpochsOK
  <2>2. \A h \in Gens : H[h].flushPromise # None => LiveIn(Q, H[h].flushPromise, h)
    BY <1>0, <1>1, <1>3, <1>6, GenTypes DEF EpochsOK
  <2>3. \A p, q \in Ops :
          Live(Q, p) /\ LiveIn(Q, q, Q[p].gen) /\ Q[q].epoch = Q[p].epoch => p = q
    BY <1>0, <1>5, <1>6 DEF EpochsOK
  <2> QED BY <2>1, <2>2, <2>3 DEF EpochsOK
<1>12. ChainOK(H, Q)
  <2>1. ASSUME NEW p \in Ops, NEW q \in Ops, Live(Q, p), LiveIn(Q, q, Q[p].gen),
               Q[q].epoch < Q[p].epoch
        PROVE  /\ Q[p].pc = "prior" /\ Q[p].prior # None
               /\ LiveIn(Q, Q[p].prior, Q[p].gen) /\ Q[q].epoch <= Q[Q[p].prior].epoch
    <3>1. Live(P, p) /\ LiveIn(P, q, P[p].gen) /\ P[q].epoch < P[p].epoch
      BY <1>5, <1>6, <2>1
    <3>2. /\ P[p].pc = "prior" /\ P[p].prior # None
          /\ LiveIn(P, P[p].prior, P[p].gen) /\ P[q].epoch <= P[P[p].prior].epoch
      BY <1>0, <3>1 DEF ChainOK
    <3>3. p # o
      <4> SUFFICES ASSUME p = o PROVE FALSE
        OBVIOUS
      <4>1. SettledIn(P, P[o].prior)
        BY <3>2 DEF Moves
      <4> QED BY <3>2, <4>1 DEF LiveIn, Live, SettledIn, Idle
    <3>4. P[p].prior \in Ops
      BY <1>1, <3>2, OpTypes
    <3> QED BY <1>2, <1>5, <1>6, <3>2, <3>3, <3>4
  <2>2. ASSUME NEW p \in Ops, Q[p].pc = "prior", Q[p].prior # None
        PROVE  \/ LiveIn(Q, Q[p].prior, Q[p].gen) /\ Q[Q[p].prior].epoch < Q[p].epoch
               \/ SettledIn(Q, Q[p].prior) /\ Turn(H, Q[p].gen)
    <3>1. p # o /\ Q[p] = P[p] /\ P[p].prior \in Ops
      BY <1>1, <1>2, <2>2, OpTypes
    <3>2. SettledIn(P, P[p].prior) => P[p].prior # o
      BY <1>2 DEF SettledIn, Live, Idle
    <3>3. \/ LiveIn(P, P[p].prior, P[p].gen) /\ P[P[p].prior].epoch < P[p].epoch
          \/ SettledIn(P, P[p].prior) /\ Turn(G, P[p].gen)
      BY <1>0, <2>2, <3>1 DEF ChainOK
    <3> QED BY <1>2, <1>5, <1>6, <1>8, <3>1, <3>2, <3>3 DEF SettledIn
  <2>3. ASSUME NEW p \in Ops, Live(Q, p), Q[p].pc \notin {"ready", "prior"}
        PROVE  Turn(H, Q[p].gen)
    BY <1>0, <1>2, <1>5, <1>8, <2>3 DEF ChainOK
  <2> QED BY <2>1, <2>2, <2>3 DEF ChainOK
<1>13. WorkOK(e, H, Q)
  <2> SUFFICES ASSUME NEW p \in Ops
               PROVE  /\ Q[p].pc \in {"append", "appended", "short"} =>
                           Q[p].batch \in 1..Len(H[Q[p].gen].pending)
                      /\ Q[p].pc \in {"prior", "write"} => Q[p].snapshot \in Snapshots
                      /\ Q[p].pc \in {"append", "written"} => e = <<>>
                      /\ Q[p].failed => Q[p].pc = "done"
    BY DEF WorkOK
  <2>1. CASE p = o
    BY <1>2, <2>1 DEF Works, g
  <2>2. CASE p # o
    <3>1. Q[p] = P[p]
      BY <1>2, <2>2
    <3>2. CASE P[p].pc \in AtStorage
      <4>1. P[o].pc \notin AtStorage /\ P[p].gen \in Gens
        BY <2>2, <3>2, StorageFacts
      <4>2. e = f /\ H[g].pending = G[g].pending
        BY <4>1 DEF Works, g
      <4> QED BY <1>0, <1>2, <3>1, <4>1, <4>2 DEF WorkOK
    <3>3. CASE P[p].pc \notin AtStorage
      BY <1>0, <3>1, <3>3 DEF WorkOK, AtStorage
    <3> QED BY <3>2, <3>3
  <2> QED BY <2>1, <2>2
<1>14. SoundOK(H, Q)
  <2> SUFFICES ASSUME NEW p \in Ops, Live(Q, p), Draining(Q[p]) \/ Broken(Q[p])
               PROVE  /\ H[Q[p].gen].flushPromise = p /\ Draining(Q[p]) =>
                           ~H[Q[p].gen].storageFailure
                      /\ Broken(Q[p]) => H[Q[p].gen].storageFailure
    BY DEF SoundOK, Broken, Live, Idle
  <2>1. CASE p = o
    BY <1>2, <1>3, <1>7, <2>1 DEF Works, g
  <2>2. CASE p # o
    <3>1. Q[p] = P[p] /\ Live(P, p) /\ P[p].gen \in Gens
      BY <1>0, <1>2, <1>5, <2>2 DEF EpochsOK
    <3>2. P[p].gen # g
      BY <1>4, <2>2, <3>1 DEF LiveIn, Draining, Broken
    <3> QED BY <1>0, <1>2, <3>1, <3>2 DEF SoundOK
  <2> QED BY <2>1, <2>2
<1>15. RetiredOK(H, Q)
  <2> SUFFICES ASSUME NEW h \in Gens, H[h].retired
               PROVE  \/ ~H[h].settled /\ H[h].retirement # None /\ H[h].flushPromise = H[h].retirement
                      \/ /\ Finished(H, Q, h) /\ Turn(H, h)
                         /\ H[h].retirement # None => SettledIn(Q, H[h].retirement)
    BY DEF RetiredOK
  <2>1. \/ ~G[h].settled /\ G[h].retirement # None /\ G[h].flushPromise = G[h].retirement
        \/ /\ Finished(G, P, h) /\ Turn(G, h)
           /\ G[h].retirement # None => SettledIn(P, G[h].retirement)
    BY <1>0, <1>3 DEF RetiredOK
  <2>2. G[h].retirement # None /\ SettledIn(P, G[h].retirement) => SettledIn(Q, G[h].retirement)
    <3>1. ~SettledIn(P, o)
      BY <1>2 DEF Live, SettledIn, Idle
    <3> QED BY <1>1, <1>2, <3>1, GenTypes DEF SettledIn
  <2>3. Finished(G, P, h) => Finished(H, Q, h)
    <3>1. CASE h # g
      <4>1. \A p \in Ops : LiveIn(Q, p, h) => LiveIn(P, p, h) /\ Q[p] = P[p]
        BY <1>2, <1>6, <3>1 DEF LiveIn, g
      <4> QED BY <1>2, <3>1, <4>1 DEF Finished
    <3>2. CASE h = g
      <4> SUFFICES ASSUME Finished(G, P, g) PROVE Finished(H, Q, g)
        BY <3>2
      <4>1. LiveIn(P, o, g)
        BY <1>2 DEF LiveIn, g
      <4>2. /\ G[g].pending = <<>>
            /\ \A p \in Ops : LiveIn(P, p, g) => P[p].pc \in {"ready", "done"} /\ ~P[p].failed
        BY <4>1 DEF Finished
      <4>3. Q[o].pc \in {"ready", "done"} /\ ~Q[o].failed /\ H[g].pending = <<>>
        BY <4>1, <4>2 DEF Works, g
      <4>4. \A p \in Ops : LiveIn(Q, p, g) => Q[p].pc \in {"ready", "done"} /\ ~Q[p].failed
        BY <1>2, <1>6, <4>2, <4>3
      <4> QED BY <4>3, <4>4 DEF Finished
    <3> QED BY <3>1, <3>2
  <2> QED BY <1>3, <1>8, <2>1, <2>2, <2>3
<1>16. FringeOK(e, n, H, Q)
  <2> SUFFICES ASSUME e # <<>>
               PROVE  \E h \in Gens :
                        /\ AtWork(n, H, h)
                        /\ \/ H[h].storageFailure
                           \/ \E p \in Ops : LiveIn(Q, p, h) /\ Q[p].pc \in Holding
    BY DEF FringeOK, Holding
  <2>1. \A h \in Gens : AtWork(n, H, h) <=> AtWork(n, G, h)
    BY <1>3, <1>8 DEF AtWork
  <2>2. CASE P[o].pc \in AtStorage /\ Q[o].pc \in Holding
    <3>1. AtWork(n, H, g)
      BY <1>7, <2>1, <2>2, StorageFacts DEF g
    <3> QED BY <1>2, <1>7, <2>2, <3>1 DEF LiveIn
  <2>3. CASE /\ e = f /\ (G[g].storageFailure => H[g].storageFailure)
             /\ P[o].pc \in Holding =>
                  Q[o].pc \in Holding \/ H[g].storageFailure \/ G[g].flushPromise # o
    <3>1. PICK h \in Gens :
            /\ AtWork(n, G, h)
            /\ \/ G[h].storageFailure
               \/ \E p \in Ops : LiveIn(P, p, h) /\ P[p].pc \in Holding
      BY <1>0, <2>3 DEF FringeOK, Holding
    <3>2. CASE G[h].storageFailure
      BY <1>2, <2>1, <2>3, <3>1, <3>2
    <3>3. CASE \E p \in Ops : LiveIn(P, p, h) /\ P[p].pc \in Holding
      <4>1. PICK p \in Ops : LiveIn(P, p, h) /\ P[p].pc \in Holding
        BY <3>3
      <4>2. CASE p # o
        BY <1>2, <1>6, <2>1, <3>1, <4>1, <4>2
      <4>3. CASE p = o
        <5>1. h = g /\ LiveIn(Q, o, g)
          BY <1>6, <4>1, <4>3 DEF LiveIn, g
        <5>2. CASE G[g].flushPromise # o
          <6> DEFINE q == G[g].flushPromise
          <6>1. q \in Ops /\ LiveIn(P, q, g) /\ q # o
            BY <1>0, <1>1, <1>7, <5>2, GenTypes DEF EpochsOK
          <6>2. LiveIn(Q, q, g) /\ Q[q].pc = "prior"
            BY <1>2, <1>4, <1>6, <6>1
          <6> QED BY <2>1, <3>1, <5>1, <6>1, <6>2 DEF Holding
        <5>3. CASE Q[o].pc \in Holding \/ H[g].storageFailure
          BY <2>1, <3>1, <5>1, <5>3
        <5> QED BY <2>3, <4>1, <4>3, <5>2, <5>3
      <4> QED BY <4>2, <4>3
    <3> QED BY <3>1, <3>2, <3>3
  <2> QED BY <2>2, <2>3 DEF Works, g
<1> QED BY <1>9, <1>10, <1>11, <1>12, <1>13, <1>14, <1>15, <1>16 DEF ObjectInv

\* Operation o settles, and gives up the flush promise if it has it.
LEMMA FinishInv ==
  ASSUME NEW f, NEW l, NEW n, NEW G, NEW P, ObjectInv(f, l, n, G, P),
         NEW o \in Ops, P[o].pc = "done", NEW g, g = P[o].gen,
         G[g].flushPromise = o /\ ~P[o].failed => G[g].pending = <<>>,
         NEW H \in [Gens -> Generation], NEW Q \in [Ops -> Operation],
         Q[o].pc \in {"resolved", "rejected"}, ~Q[o].failed, \A p \in Ops : p # o => Q[p] = P[p],
         \A h \in Gens :
           /\ G[h].flushPromise # o => H[h] = G[h]
           /\ G[h].flushPromise = o => H[h].flushPromise = None
           /\ H[h].settled = G[h].settled /\ H[h].retired = G[h].retired
           /\ H[h].storageFailure = G[h].storageFailure /\ H[h].pending = G[h].pending
           /\ H[h].retirement = G[h].retirement /\ H[h].ready = G[h].ready
           /\ H[h].refCount = G[h].refCount /\ H[h].cutoverEpoch = G[h].cutoverEpoch
  PROVE  ObjectInv(f, l, n, H, Q)
<1>0. /\ Objects(l, n, G, P) /\ GensOK(l, n, G) /\ EpochsOK(n, G, P) /\ ChainOK(G, P)
      /\ WorkOK(f, G, P) /\ SoundOK(G, P) /\ RetiredOK(G, P) /\ FringeOK(f, n, G, P)
  BY DEF ObjectInv
<1>1. G \in [Gens -> Generation] /\ P \in [Ops -> Operation]
  BY <1>0 DEF Objects
<1>2. Live(P, o) /\ g \in Gens /\ g <= n /\ Turn(G, g) /\ SettledIn(Q, o) /\ ~Live(Q, o)
  BY <1>0 DEF EpochsOK, ChainOK, Live, Idle, SettledIn
<1>3. \A p \in Ops : Live(Q, p) <=> p # o /\ Live(P, p)
  BY <1>2 DEF Live
<1>4. \A p \in Ops : \A h : LiveIn(Q, p, h) <=> p # o /\ LiveIn(P, p, h)
  BY <1>3 DEF LiveIn
<1>5. \A p \in Ops : LiveIn(P, p, g) /\ p # o => P[p].pc = "prior" /\ P[o].epoch < P[p].epoch
  BY <1>0, <1>2, FirstInLine
<1>6. \A h \in Gens : G[h].flushPromise = o => h = g /\ \A p \in Ops : ~LiveIn(Q, p, g)
  <2> SUFFICES ASSUME NEW h \in Gens, G[h].flushPromise = o
               PROVE  h = g /\ \A p \in Ops : ~LiveIn(Q, p, g)
    OBVIOUS
  <2>1. h = g /\ P[o].epoch = G[g].cutoverEpoch
    <3>1. LiveIn(P, o, h)
      BY <1>0, ConstTypes DEF EpochsOK
    <3> QED BY <1>0, <1>2, <3>1 DEF EpochsOK, LiveIn
  <2>2. ASSUME NEW p \in Ops, LiveIn(P, p, g), p # o PROVE FALSE
    <3>1. P[o].epoch < P[p].epoch /\ P[p].epoch <= G[g].cutoverEpoch
      BY <1>0, <1>5, <2>2 DEF EpochsOK, LiveIn
    <3>2. P[o].epoch \in Nat /\ P[p].epoch \in Nat
      BY <1>1, OpTypes
    <3> QED BY <2>1, <3>1, <3>2
  <2> QED BY <1>4, <2>1, <2>2
<1>7. \A h : Turn(H, h) <=> Turn(G, h)
  BY DEF Turn
<1>8. Objects(l, n, H, Q)
  BY <1>0 DEF Objects
<1>9. GensOK(l, n, H)
  <2>1. \A h \in Gens : h > n => H[h] = G[h]
    <3>1. n \in Nat /\ \A h \in Gens : h > n => h # g
      BY <1>0, <1>2, ConstTypes DEF Objects
    <3> QED BY <1>6, <3>1
  <2> QED BY <1>0, <1>7, <2>1 DEF GensOK
<1>10. EpochsOK(n, H, Q)
  <2>1. ASSUME NEW p \in Ops, Live(Q, p)
        PROVE  /\ Q[p].gen \in Gens /\ Q[p].gen <= n
               /\ Q[p].epoch <= H[Q[p].gen].cutoverEpoch
               /\ Q[p].epoch = H[Q[p].gen].cutoverEpoch <=> H[Q[p].gen].flushPromise = p
               /\ H[Q[p].gen].flushPromise # None
    <3>1. p # o /\ Q[p] = P[p] /\ Live(P, p) /\ P[p].gen \in Gens
      BY <1>0, <1>3, <2>1 DEF EpochsOK
    <3>2. G[P[p].gen].flushPromise # o
      BY <1>6, <2>1, <3>1 DEF LiveIn
    <3> QED BY <1>0, <3>1, <3>2 DEF EpochsOK
  <2>2. ASSUME NEW h \in Gens, H[h].flushPromise # None
        PROVE  LiveIn(Q, H[h].flushPromise, h)
    <3>1. G[h].flushPromise # o /\ H[h] = G[h]
      BY <2>2
    <3>2. G[h].flushPromise \in Ops /\ LiveIn(P, G[h].flushPromise, h)
      BY <1>0, <1>1, <2>2, <3>1, GenTypes DEF EpochsOK
    <3> QED BY <1>4, <3>1, <3>2
  <2>3. \A p, q \in Ops :
          Live(Q, p) /\ LiveIn(Q, q, Q[p].gen) /\ Q[q].epoch = Q[p].epoch => p = q
    BY <1>0, <1>3, <1>4 DEF EpochsOK
  <2> QED BY <2>1, <2>2, <2>3 DEF EpochsOK
<1>11. ChainOK(H, Q)
  <2>1. ASSUME NEW p \in Ops, NEW q \in Ops, Live(Q, p), LiveIn(Q, q, Q[p].gen),
               Q[q].epoch < Q[p].epoch
        PROVE  /\ Q[p].pc = "prior" /\ Q[p].prior # None
               /\ LiveIn(Q, Q[p].prior, Q[p].gen) /\ Q[q].epoch <= Q[Q[p].prior].epoch
    <3>1. p # o /\ q # o /\ Q[p] = P[p] /\ Q[q] = P[q] /\ Live(P, p) /\ LiveIn(P, q, P[p].gen)
      BY <1>3, <1>4, <2>1
    <3>2. /\ P[p].pc = "prior" /\ P[p].prior # None
          /\ LiveIn(P, P[p].prior, P[p].gen) /\ P[q].epoch <= P[P[p].prior].epoch
      BY <1>0, <2>1, <3>1 DEF ChainOK
    <3>3. P[p].prior # o
      <4> SUFFICES ASSUME P[p].prior = o PROVE FALSE
        OBVIOUS
      <4>1. P[o].epoch < P[q].epoch
        BY <1>5, <3>1, <3>2 DEF LiveIn
      <4> QED BY <1>1, <3>2, <4>1, OpTypes
    <3>4. P[p].prior \in Ops
      BY <1>1, <3>2, OpTypes
    <3> QED BY <1>4, <3>1, <3>2, <3>3, <3>4
  <2>2. ASSUME NEW p \in Ops, Q[p].pc = "prior", Q[p].prior # None
        PROVE  \/ LiveIn(Q, Q[p].prior, Q[p].gen) /\ Q[Q[p].prior].epoch < Q[p].epoch
               \/ SettledIn(Q, Q[p].prior) /\ Turn(H, Q[p].gen)
    <3>1. p # o /\ Q[p] = P[p] /\ P[p].prior \in Ops
      BY <1>1, <2>2, OpTypes
    <3>2. \/ LiveIn(P, P[p].prior, P[p].gen) /\ P[P[p].prior].epoch < P[p].epoch
          \/ SettledIn(P, P[p].prior) /\ Turn(G, P[p].gen)
      BY <1>0, <2>2, <3>1 DEF ChainOK
    <3>3. CASE P[p].prior = o
      <4>1. P[p].gen = g
        BY <1>2, <3>2, <3>3 DEF LiveIn, Live, SettledIn, Idle
      <4> QED BY <1>2, <1>7, <3>1, <3>3, <4>1
    <3>4. CASE P[p].prior # o
      BY <1>4, <1>7, <3>1, <3>2, <3>4 DEF SettledIn
    <3> QED BY <3>3, <3>4
  <2>3. ASSUME NEW p \in Ops, Live(Q, p), Q[p].pc \notin {"ready", "prior"}
        PROVE  Turn(H, Q[p].gen)
    BY <1>0, <1>3, <1>7, <2>3 DEF ChainOK
  <2> QED BY <2>1, <2>2, <2>3 DEF ChainOK
<1>12. WorkOK(f, H, Q)
  <2> SUFFICES ASSUME NEW p \in Ops, p # o
               PROVE  /\ Q[p].pc \in {"append", "appended", "short"} =>
                           Q[p].batch \in 1..Len(H[Q[p].gen].pending)
                      /\ Q[p].pc \in {"prior", "write"} => Q[p].snapshot \in Snapshots
                      /\ Q[p].pc \in {"append", "written"} => f = <<>>
                      /\ Q[p].failed => Q[p].pc = "done"
    BY DEF WorkOK, Live, Idle
  <2>1. Q[p] = P[p] /\ (P[p].pc \in {"append", "appended", "short"} => P[p].gen \in Gens)
    BY <1>0 DEF EpochsOK, Live, Idle
  <2> QED BY <1>0, <2>1 DEF WorkOK
<1>13. SoundOK(H, Q)
  <2> SUFFICES ASSUME NEW p \in Ops, Live(Q, p)
               PROVE  /\ H[Q[p].gen].flushPromise = p /\ Draining(Q[p]) =>
                           ~H[Q[p].gen].storageFailure
                      /\ Broken(Q[p]) => H[Q[p].gen].storageFailure
    BY DEF SoundOK, Broken, Live, Idle
  <2>1. p # o /\ Q[p] = P[p] /\ P[p].gen \in Gens /\ Live(P, p)
    BY <1>0, <1>3 DEF EpochsOK
  <2>2. H[P[p].gen].flushPromise = p => G[P[p].gen].flushPromise = p
    BY <2>1, ConstTypes
  <2> QED BY <1>0, <2>1, <2>2 DEF SoundOK
<1>14. RetiredOK(H, Q)
  <2> SUFFICES ASSUME NEW h \in Gens, H[h].retired
               PROVE  \/ ~H[h].settled /\ H[h].retirement # None /\ H[h].flushPromise = H[h].retirement
                      \/ /\ Finished(H, Q, h) /\ Turn(H, h)
                         /\ H[h].retirement # None => SettledIn(Q, H[h].retirement)
    BY DEF RetiredOK
  <2>1. \/ ~G[h].settled /\ G[h].retirement # None /\ G[h].flushPromise = G[h].retirement
        \/ /\ Finished(G, P, h) /\ Turn(G, h)
           /\ G[h].retirement # None => SettledIn(P, G[h].retirement)
    BY <1>0 DEF RetiredOK
  <2>2. CASE ~G[h].settled /\ G[h].retirement # None /\ G[h].flushPromise = G[h].retirement
    <3>1. CASE G[h].flushPromise # o
      BY <2>2, <3>1
    <3>2. CASE G[h].flushPromise = o
      <4>1. h = g /\ \A p \in Ops : ~LiveIn(Q, p, g)
        BY <1>6, <3>2
      <4>2. G[g].pending = <<>> \/ G[g].storageFailure
        BY <1>0, <3>2, <4>1 DEF SoundOK, Broken
      <4>3. Finished(H, Q, h)
        BY <4>1, <4>2 DEF Finished
      <4> QED BY <1>2, <1>7, <2>2, <3>2, <4>1, <4>3
    <3> QED BY <3>1, <3>2
  <2>3. CASE /\ Finished(G, P, h) /\ Turn(G, h)
             /\ G[h].retirement # None => SettledIn(P, G[h].retirement)
    <3>1. G[h].retirement # None => SettledIn(Q, G[h].retirement)
      BY <1>1, <1>2, <2>3, GenTypes DEF SettledIn
    <3>2. Finished(H, Q, h)
      BY <1>4, <2>3 DEF Finished
    <3> QED BY <1>7, <2>3, <3>1, <3>2
  <2> QED BY <2>1, <2>2, <2>3
<1>15. FringeOK(f, n, H, Q)
  <2>1. \A h \in Gens : AtWork(n, G, h) => AtWork(n, H, h)
    BY <1>7 DEF AtWork
  <2>2. \A p \in Ops : \A h : LiveIn(P, p, h) /\ P[p].pc \in Holding =>
          LiveIn(Q, p, h) /\ Q[p].pc \in Holding
    BY <1>4 DEF Holding
  <2> QED BY <1>0, <2>1, <2>2 DEF FringeOK, Holding
<1> QED BY <1>8, <1>9, <1>10, <1>11, <1>12, <1>13, <1>14, <1>15 DEF ObjectInv

-----------------------------------------------------------------------------
(* The end of a generation and of the process *)

\* What is known of a generation whose retirement may settle.
LEMMA RetirementFacts ==
  ASSUME NEW f, NEW l, NEW n, NEW G, NEW P, ObjectInv(f, l, n, G, P),
         NEW g \in Gens, G[g].retired,
         G[g].retirement # None => SettledIn(P, G[g].retirement)
  PROVE  /\ Finished(G, P, g) /\ Turn(G, g) /\ g <= n
         /\ \A o \in Ops : LiveIn(P, o, g) => P[o].pc \in {"ready", "done"} /\ ~P[o].failed
<1>0. Objects(l, n, G, P) /\ GensOK(l, n, G) /\ EpochsOK(n, G, P) /\ RetiredOK(G, P)
  BY DEF ObjectInv
<1>1. G[g].retirement # None => G[g].flushPromise # G[g].retirement
  BY <1>0 DEF EpochsOK, LiveIn, Live, SettledIn, Idle
<1>2. Finished(G, P, g) /\ Turn(G, g)
  BY <1>0, <1>1 DEF RetiredOK
<1>3. g <= n
  <2>1. ~NewGeneration(None).retired /\ n \in Nat /\ g \in Nat
    BY <1>0, NewGenerationType, ConstTypes DEF Unused, Objects
  <2> QED BY <1>0, <2>1 DEF GensOK
<1> QED BY <1>2, <1>3 DEF Finished

\* Generation g of G settles.
Settles(G, H, g) ==
  /\ \A h \in Gens : h # g => H[h] = G[h]
  /\ H[g].flushPromise = G[g].flushPromise /\ H[g].storageFailure = G[g].storageFailure
  /\ H[g].cutoverEpoch = G[g].cutoverEpoch /\ H[g].refCount = G[g].refCount
  /\ H[g].ready = G[g].ready /\ H[g].retired = G[g].retired
  /\ H[g].settled /\ H[g].retirement = None /\ H[g].pending = <<>>

\* settleRetiredState.
LEMMA SettleInv ==
  ASSUME NEW f, NEW l, NEW n, NEW G, NEW P, ObjectInv(f, l, n, G, P),
         NEW g \in Gens, G[g].retired,
         G[g].retirement # None => SettledIn(P, G[g].retirement),
         NEW H \in [Gens -> Generation], Settles(G, H, g),
         NEW m, m = (IF l = g THEN None ELSE l)
  PROVE  ObjectInv(<<>>, m, n, H, P)
<1> USE DEF Settles
<1>0. /\ Objects(l, n, G, P) /\ GensOK(l, n, G) /\ EpochsOK(n, G, P) /\ ChainOK(G, P)
      /\ WorkOK(f, G, P) /\ SoundOK(G, P) /\ RetiredOK(G, P) /\ FringeOK(f, n, G, P)
  BY DEF ObjectInv
<1>1. /\ Finished(G, P, g) /\ Turn(G, g) /\ g <= n
      /\ \A o \in Ops : LiveIn(P, o, g) => P[o].pc \in {"ready", "done"} /\ ~P[o].failed
  BY RetirementFacts
<1>2. Objects(m, n, H, P)
  BY <1>0 DEF Objects
<1>3. \A h : Turn(G, h) => Turn(H, h)
  BY DEF Turn
<1>4. \A h \in Gens :
        /\ H[h].flushPromise = G[h].flushPromise /\ H[h].storageFailure = G[h].storageFailure
        /\ H[h].cutoverEpoch = G[h].cutoverEpoch
  OBVIOUS
<1>5. GensOK(m, n, H)
  <2>1. n \in Nat /\ (l = None \/ l = n) /\ \A h \in Gens : h > n => h # g
    BY <1>0, <1>1, ConstTypes DEF Objects
  <2>2. ASSUME NEW h \in Gens, h <= n, m = None PROVE H[h].settled
    <3>1. CASE h = g
      BY <3>1
    <3>2. CASE h # g /\ l = None
      BY <1>0, <2>2, <3>2 DEF GensOK
    <3>3. CASE h # g /\ l # None
      <4>1. h < g
        BY <2>1, <2>2, <3>3, ConstTypes
      <4> QED BY <1>1, <3>3, <4>1 DEF Turn
    <3> QED BY <3>1, <3>2, <3>3
  <2> SUFFICES ASSUME NEW h \in Gens
               PROVE  /\ h > n => H[h] = NewGeneration(None)
                      /\ h <= n /\ H[h].ready = None => Turn(H, h)
                      /\ H[h].ready # None => H[h].ready = h - 1
                      /\ h <= n /\ h # m => H[h].retired
                      /\ H[h].settled => /\ h # m /\ Turn(H, h)
                                         /\ H[h].pending = <<>> /\ H[h].retirement = None
                      /\ H[h].retired => H[h].refCount = 0
                      /\ H[h].storageFailure => Turn(H, h)
    BY <2>2 DEF GensOK
  <2>3. CASE h = g
    <3>1. g # m
      BY ConstTypes
    <3> QED BY <1>0, <1>1, <1>3, <2>1, <2>3, <3>1 DEF GensOK
  <2>4. CASE h # g
    <3>1. h # l => h # m
      BY ConstTypes
    <3>2. h # m => h # l
      BY <2>4
    <3> QED BY <1>0, <1>3, <2>4, <3>1, <3>2 DEF GensOK
  <2> QED BY <2>3, <2>4
<1>6. EpochsOK(n, H, P)
  BY <1>0, <1>4 DEF EpochsOK
<1>7. ChainOK(H, P)
  BY <1>0, <1>3 DEF ChainOK
<1>8. WorkOK(<<>>, H, P)
  <2>1. ASSUME NEW o \in Ops, P[o].pc \in {"append", "appended", "short"}
        PROVE  P[o].batch \in 1..Len(H[P[o].gen].pending)
    <3>1. P[o].gen \in Gens /\ Live(P, o)
      BY <1>0, <2>1 DEF EpochsOK, Live, Idle
    <3>2. P[o].gen # g
      BY <1>1, <2>1, <3>1 DEF LiveIn
    <3> QED BY <1>0, <2>1, <3>1, <3>2 DEF WorkOK
  <2> QED BY <1>0, <2>1 DEF WorkOK
<1>9. SoundOK(H, P)
  <2>1. \A o \in Ops : Broken(P[o]) => P[o].gen \in Gens
    BY <1>0 DEF EpochsOK, Live, Idle, Broken
  <2> QED BY <1>0, <1>4, <2>1 DEF SoundOK, EpochsOK
<1>10. RetiredOK(H, P)
  <2> SUFFICES ASSUME NEW h \in Gens, H[h].retired
               PROVE  \/ ~H[h].settled /\ H[h].retirement # None /\ H[h].flushPromise = H[h].retirement
                      \/ /\ Finished(H, P, h) /\ Turn(H, h)
                         /\ H[h].retirement # None => SettledIn(P, H[h].retirement)
    BY DEF RetiredOK
  <2>1. CASE h = g
    <3>1. Finished(H, P, g)
      BY <1>1 DEF Finished
    <3> QED BY <1>1, <1>3, <2>1, <3>1
  <2>2. CASE h # g
    <3>1. Finished(G, P, h) => Finished(H, P, h)
      BY <2>2 DEF Finished
    <3> QED BY <1>0, <1>3, <2>2, <3>1 DEF RetiredOK
  <2> QED BY <2>1, <2>2
<1>11. FringeOK(<<>>, n, H, P)
  BY DEF FringeOK
<1> QED BY <1>2, <1>5, <1>6, <1>7, <1>8, <1>9, <1>10, <1>11 DEF ObjectInv

\* The objects of a process that has just started.
LEMMA StartedInv == ObjectInv(<<>>, None, 0, NoGenerations, NoOperations)
<1>1. NoGenerations \in [Gens -> Generation] /\ \A g \in Gens : Unused(NoGenerations[g], None)
  BY NewGenerationType DEF NoGenerations
<1>2. NoOperations \in [Ops -> Operation] /\ \A o \in Ops : NoOperations[o].pc = "free" /\ ~NoOperations[o].failed
  BY DEF NoOperations, NoOperation, Operation, None, Pcs, Idle
<1>3. \A o \in Ops : ~Live(NoOperations, o)
  BY <1>2 DEF Live, Idle
<1>4. Objects(None, 0, NoGenerations, NoOperations)
  BY <1>1, <1>2, ConstTypes DEF Objects
<1>5. GensOK(None, 0, NoGenerations)
  <2>1. \A g \in Gens : g > 0 /\ ~(g <= 0) /\ NoGenerations[g] = NewGeneration(None)
    BY DEF Gens, NoGenerations
  <2> QED BY <1>1, <2>1 DEF GensOK, Unused
<1>6. EpochsOK(0, NoGenerations, NoOperations)
  BY <1>1, <1>3 DEF EpochsOK, Unused
<1>7. ChainOK(NoGenerations, NoOperations)
  BY <1>2, <1>3 DEF ChainOK
<1>8. WorkOK(<<>>, NoGenerations, NoOperations) /\ SoundOK(NoGenerations, NoOperations)
  BY <1>2, <1>3 DEF WorkOK, SoundOK, Broken
<1>9. RetiredOK(NoGenerations, NoOperations) /\ FringeOK(<<>>, 0, NoGenerations, NoOperations)
  BY <1>1 DEF RetiredOK, Unused, FringeOK
<1> QED BY <1>4, <1>5, <1>6, <1>7, <1>8, <1>9 DEF ObjectInv

-----------------------------------------------------------------------------
(* The calls *)

\* The generation a call works on is the last one, and not retired.
LEMMA OpenStateInv ==
  ASSUME LogInv, OpenState
  PROVE  /\ ObjectInv(fringe, logs', ngens', Opened, op)
         /\ State \in Gens /\ State = logs' /\ State = ngens' /\ ~Opened[State].retired
         /\ \A g \in Gens : /\ Opened[g].retired = gen[g].retired
                            /\ Opened[g].settled = gen[g].settled
                            /\ Opened[g].retirement = gen[g].retirement
                            /\ Opened[g].pending = gen[g].pending
<1>0. ObjectInv(fringe, logs, ngens, gen, op) /\ Objects(logs, ngens, gen, op)
  BY DEF LogInv, ObjectInv
<1>1. ngens \in Nat /\ (logs = None \/ logs = ngens) /\ gen \in [Gens -> Generation]
  BY <1>0 DEF Objects
<1>2. State \in Gens /\ logs' = State /\ ngens' = IF State = logs THEN ngens ELSE State
  BY DEF OpenState
<1>3. CASE logs # None /\ ~gen[logs].retired
  <2>1. State = logs /\ Opened = gen
    BY <1>3 DEF State, Opened
  <2> QED BY <1>0, <1>1, <1>2, <1>3, <2>1
<1>4. CASE ~(logs # None /\ ~gen[logs].retired)
  <2>1. State = ngens + 1
    BY <1>4 DEF State
  <2>2. State # logs
    BY <1>1, <2>1 DEF None
  <2>3. Opened = [gen EXCEPT ![ngens + 1] = NewGeneration(logs)]
    BY <2>1, <2>2 DEF Opened
  <2>4. ObjectInv(fringe, ngens + 1, ngens + 1, Opened, op)
    BY <1>0, <1>2, <1>4, <2>1, <2>3, OpenInv
  <2>5. Unused(Opened[State], logs) /\ Unused(gen[State], None)
    <3>1. logs \in Gens \cup {None} /\ State > ngens
      BY <1>0, <1>1, <2>1, ConstTypes DEF Objects
    <3>2. gen[State] = NewGeneration(None)
      BY <1>0, <1>2, <3>1 DEF ObjectInv, GensOK
    <3>3. Opened[State] = NewGeneration(logs)
      BY <1>1, <1>2, <2>1, <2>3
    <3> QED BY <3>1, <3>2, <3>3, NewGenerationType
  <2>6. \A g \in Gens : g # State => Opened[g] = gen[g]
    BY <1>1, <2>1, <2>3
  <2>7. ASSUME NEW g \in Gens
        PROVE  /\ Opened[g].retired = gen[g].retired /\ Opened[g].settled = gen[g].settled
               /\ Opened[g].retirement = gen[g].retirement /\ Opened[g].pending = gen[g].pending
    <3>1. CASE g = State
      BY <2>5, <3>1 DEF Unused
    <3>2. CASE g # State
      BY <2>6, <3>2
    <3> QED BY <3>1, <3>2
  <2>8. ~Opened[State].retired
    BY <2>5 DEF Unused
  <2> QED BY <1>2, <2>1, <2>2, <2>4, <2>7, <2>8
<1> QED BY <1>3, <1>4

\* The fields of a drain, and of a record an operation is turned into.
LEMMA NoOperationType ==
  NoOperation \in Operation /\ NoOperation.failed = FALSE /\ NoOperation.snapshot = <<>>
BY DEF NoOperation, Operation, None, Pcs, Idle

LEMMA DrainFields ==
  ASSUME NEW G \in [Gens -> Generation], NEW g \in Gens
  PROVE  /\ Drain(G, g) \in Operation
         /\ Drain(G, g).pc = "ready" /\ Drain(G, g).gen = g
         /\ Drain(G, g).epoch = G[g].cutoverEpoch /\ Drain(G, g).failed = FALSE
<1> DEFINE e == G[g].cutoverEpoch
           N == NoOperation
<1>1. e \in Nat /\ N \in Operation /\ N.failed = FALSE
  BY GenTypes, NoOperationType
<1>2. Drain(G, g) = [N EXCEPT !.pc = "ready", !.gen = g, !.epoch = e]
  BY DEF Drain
<1> HIDE DEF e, N
<1>3. Drain(G, g) \in Operation
  BY <1>1, <1>2 DEF Operation, Pcs
<1>4. /\ Drain(G, g).pc = "ready" /\ Drain(G, g).gen = g /\ Drain(G, g).epoch = e
      /\ Drain(G, g).failed = FALSE
  BY <1>1, <1>2 DEF Operation
<1> QED BY <1>3, <1>4 DEF e

\* A promise that is spare before a call opens or touches a generation is spare after it.
LEMMA StaysSpare ==
  ASSUME NEW G, NEW o \in Ops, Fresh(o),
         \A g \in Gens : /\ G[g].retired = gen[g].retired /\ G[g].settled = gen[g].settled
                         /\ G[g].retirement = gen[g].retirement
  PROVE  Spare(G, op, o)
BY FreshIsSpare DEF Spare

\* A drain is started.
LEMMA DrainInv ==
  ASSUME NEW f, NEW l, NEW n, NEW G, ObjectInv(f, l, n, G, op),
         NEW g \in Gens, g <= n, NEW o \in Ops, Spare(G, op, o),
         G[g].flushPromise = None, ~G[g].storageFailure,
         NEW H, H = [G EXCEPT ![g].flushPromise = o],
         NEW Q, Q = [op EXCEPT ![o] = Drain(G, g)]
  PROVE  ObjectInv(f, l, n, H, Q)
<1>1. G \in [Gens -> Generation] /\ op \in [Ops -> Operation]
  BY DEF ObjectInv, Objects
<1>2. H \in [Gens -> Generation] /\ Q \in [Ops -> Operation]
  <2>1. Drain(G, g) \in Operation
    BY <1>1, DrainFields
  <2>2. [G[g] EXCEPT !.flushPromise = o] \in Generation
    BY <1>1 DEF Generation
  <2> QED BY <1>1, <2>1, <2>2
<1>3. Q[o] = Drain(G, g) /\ \A p \in Ops : p # o => Q[p] = op[p]
  BY <1>1
<1>4. Starts(G, op, H, Q, g, o)
  <2>1. \A h \in Gens : h # g => H[h] = G[h]
    BY <1>1
  <2>2. H[g] = [G[g] EXCEPT !.flushPromise = o] /\ G[g] \in Generation
    BY <1>1
  <2>3. /\ H[g].flushPromise = o /\ H[g].storageFailure = G[g].storageFailure
        /\ H[g].retired = G[g].retired /\ H[g].refCount = G[g].refCount
        /\ H[g].ready = G[g].ready /\ H[g].retirement = G[g].retirement
        /\ H[g].settled = G[g].settled /\ H[g].pending = G[g].pending
        /\ H[g].cutoverEpoch = G[g].cutoverEpoch
    BY <2>2 DEF Generation
  <2>4. /\ Q[o].pc = "ready" /\ Q[o].gen = g
        /\ Q[o].epoch = G[g].cutoverEpoch /\ Q[o].failed = FALSE
    BY <1>1, <1>3, DrainFields
  <2> QED BY <1>3, <2>1, <2>3, <2>4 DEF Starts
<1> QED BY <1>2, <1>4, StartInv

\* flushState.
LEMMA FlushStateInv ==
  ASSUME NEW f, NEW l, NEW n, NEW G, ObjectInv(f, l, n, G, op),
         \A h \in Gens : /\ G[h].retired = gen[h].retired /\ G[h].settled = gen[h].settled
                         /\ G[h].retirement = gen[h].retirement,
         NEW g \in Gens, g <= n, NEW o \in Ops \cup {None}, FlushState(G, g, o)
  PROVE  ObjectInv(f, l, n, gen', op')
<1>1. CASE gen' = G /\ UNCHANGED op
  BY <1>1
<1>2. CASE /\ G[g].flushPromise = None /\ ~G[g].storageFailure
           /\ o \in Ops /\ Fresh(o)
           /\ op' = [op EXCEPT ![o] = Drain(G, g)]
           /\ gen' = [G EXCEPT ![g].flushPromise = o]
  <2>1. Spare(G, op, o)
    BY <1>2, StaysSpare
  <2> QED BY <1>2, <2>1, DrainInv
<1> QED BY <1>1, <1>2 DEF FlushState

\* What the file adds to the invariant of the objects.
FileOK == file \in Seq(Lines) /\ fringe \in Seq(Lines) /\ torn \in BOOLEAN

LEMMA LogInvParts == LogInv <=> FileOK /\ ObjectInv(fringe, logs, ngens, gen, op)
<1>1. ASSUME FileOK, ObjectInv(fringe, logs, ngens, gen, op) PROVE TypeOK
  <2>1. Objects(logs, ngens, gen, op)
    BY <1>1 DEF ObjectInv
  <2>2. ngens \in Nat /\ logs \in Gens \cup {None}
    BY <2>1, ConstTypes DEF Objects
  <2> QED BY <1>1, <2>1, <2>2 DEF TypeOK, FileOK, Objects
<1> QED BY <1>1 DEF LogInv, TypeOK, FileOK

LEMMA LogInvNext ==
  ASSUME FileOK', ObjectInv(fringe', logs', ngens', gen', op')
  PROVE  LogInv'
<1>1. Objects(logs', ngens', gen', op')
  BY DEF ObjectInv
<1>2. ngens' \in Nat /\ logs' \in Gens \cup {None}
  BY <1>1, ConstTypes DEF Objects
<1>3. TypeOK'
  BY <1>1, <1>2 DEF TypeOK, FileOK, Objects
<1> QED BY <1>3 DEF LogInv

\* The same for one generation.
LEMMA TouchOneInv ==
  ASSUME NEW f, NEW l, NEW n, NEW G, NEW P, ObjectInv(f, l, n, G, P),
         NEW s \in Gens, s <= n, NEW R \in Generation,
         /\ R.flushPromise = G[s].flushPromise /\ R.storageFailure = G[s].storageFailure
         /\ R.cutoverEpoch = G[s].cutoverEpoch /\ R.retired = G[s].retired
         /\ R.ready = G[s].ready /\ R.retirement = G[s].retirement
         /\ R.settled = G[s].settled,
         R.retired => R.refCount = 0 /\ R.pending = G[s].pending,
         Len(G[s].pending) <= Len(R.pending),
         NEW H, H = [G EXCEPT ![s] = R]
  PROVE  ObjectInv(f, l, n, H, P) /\ H \in [Gens -> Generation]
<1>1. n \in Nat /\ G \in [Gens -> Generation] /\ s \in Nat
  BY ConstTypes DEF ObjectInv, Objects
<1>2. H \in [Gens -> Generation] /\ H[s] = R /\ \A g \in Gens : g # s => H[g] = G[g]
  BY <1>1
<1>3. ASSUME NEW g \in Gens
      PROVE  /\ H[g].flushPromise = G[g].flushPromise /\ H[g].storageFailure = G[g].storageFailure
             /\ H[g].cutoverEpoch = G[g].cutoverEpoch /\ H[g].retired = G[g].retired
             /\ H[g].ready = G[g].ready /\ H[g].retirement = G[g].retirement
             /\ H[g].settled = G[g].settled
             /\ g > n => H[g] = G[g]
             /\ H[g].retired => H[g].refCount = 0 /\ H[g].pending = G[g].pending
             /\ Len(G[g].pending) <= Len(H[g].pending)
  <2>1. CASE g = s
    <3>1. ~(g > n)
      BY <1>1, <2>1
    <3> QED BY <1>2, <2>1, <3>1
  <2>2. CASE g # s
    <3>1. Len(G[g].pending) \in Nat
      BY <1>1, GenTypes
    <3>2. G[g].retired => G[g].refCount = 0
      BY DEF ObjectInv, GensOK
    <3> QED BY <1>2, <2>2, <3>1, <3>2
  <2> QED BY <2>1, <2>2
<1> QED BY <1>2, <1>3, TouchInv

LEMMA AppendRecordInv == ASSUME LogInv, NEW r \in Records, AppendRecord(r) PROVE LogInv'
<1>1. /\ FileOK /\ OpenState /\ UNCHANGED <<file, fringe, torn, op>>
      /\ gen' = [Opened EXCEPT ![State].pending = Append(@, r),
                               ![State].flushScheduled = @ \/ Opened[State].flushPromise = None]
  BY LogInvParts DEF AppendRecord
<1>2. /\ ObjectInv(fringe, logs', ngens', Opened, op)
      /\ State \in Gens /\ State = ngens' /\ ~Opened[State].retired
  BY <1>1, OpenStateInv
<1> DEFINE s == State
           N == Opened[s]
           queue == Append(N.pending, r)
           flag == N.flushScheduled \/ N.flushPromise = None
           R == [N EXCEPT !.pending = queue, !.flushScheduled = flag]
<1>3. Opened \in [Gens -> Generation] /\ s \in Gens /\ ngens' \in Nat
  BY <1>2 DEF ObjectInv, Objects
<1>4. N \in Generation /\ ~N.retired /\ s <= ngens'
  BY <1>2, <1>3
<1>5. gen' = [Opened EXCEPT ![s] = R]
  BY <1>1, <1>3
<1>6. queue \in Seq(Records) /\ flag \in BOOLEAN /\ Len(N.pending) <= Len(queue)
  <2> HIDE DEF N
  <2>1. N.pending \in Seq(Records)
    BY <1>4 DEF Generation
  <2> QED BY <2>1
<1> HIDE DEF s, queue, flag
<1>7. /\ R \in Generation
      /\ R.flushPromise = N.flushPromise /\ R.storageFailure = N.storageFailure
      /\ R.cutoverEpoch = N.cutoverEpoch /\ R.retired = N.retired /\ R.ready = N.ready
      /\ R.retirement = N.retirement /\ R.settled = N.settled /\ R.pending = queue
  <2> HIDE DEF N
  <2> QED BY <1>4, <1>6 DEF Generation
<1> HIDE DEF R
<1>8. ObjectInv(fringe, logs', ngens', gen', op)
  BY <1>2, <1>3, <1>4, <1>5, <1>6, <1>7, TouchOneInv
<1> QED BY <1>1, <1>8, LogInvNext DEF FileOK

LEMMA AcquireInv == ASSUME LogInv, Acquire PROVE LogInv'
<1>1. /\ FileOK /\ OpenState /\ UNCHANGED <<file, fringe, torn, op>>
      /\ gen' = [Opened EXCEPT ![State].refCount = @ + 1]
  BY LogInvParts DEF Acquire
<1>2. /\ ObjectInv(fringe, logs', ngens', Opened, op)
      /\ State \in Gens /\ State = ngens' /\ ~Opened[State].retired
  BY <1>1, OpenStateInv
<1> DEFINE s == State
           N == Opened[s]
           R == [N EXCEPT !.refCount = @ + 1]
<1>3. Opened \in [Gens -> Generation] /\ s \in Gens /\ ngens' \in Nat
  BY <1>2 DEF ObjectInv, Objects
<1>4. N \in Generation /\ ~N.retired /\ s <= ngens' /\ Len(N.pending) \in Nat
  BY <1>2, <1>3, GenTypes
<1>5. gen' = [Opened EXCEPT ![s] = R]
  BY <1>1, <1>3
<1> HIDE DEF s
<1>7. /\ R \in Generation
      /\ R.flushPromise = N.flushPromise /\ R.storageFailure = N.storageFailure
      /\ R.cutoverEpoch = N.cutoverEpoch /\ R.retired = N.retired /\ R.ready = N.ready
      /\ R.retirement = N.retirement /\ R.settled = N.settled /\ R.pending = N.pending
  <2> HIDE DEF N
  <2> QED BY <1>4 DEF Generation
<1>6. Len(N.pending) <= Len(R.pending) /\ ~R.retired
  BY <1>4, <1>7
<1> HIDE DEF R, N
<1>8. ObjectInv(fringe, logs', ngens', gen', op)
  <2>1. ObjectInv(fringe, logs', ngens', Opened, op) /\ s \in Gens /\ s <= ngens'
    BY <1>2, <1>3, <1>4
  <2> QED BY <1>5, <1>6, <1>7, <2>1, TouchOneInv DEF N
<1> QED BY <1>1, <1>8, LogInvNext DEF FileOK

LEMMA FlushInv == ASSUME LogInv, Flush PROVE LogInv'
<1>1. /\ FileOK /\ ObjectInv(fringe, logs, ngens, gen, op)
      /\ logs # None /\ UNCHANGED <<file, fringe, torn, logs, ngens>>
  BY LogInvParts DEF Flush
<1>2. PICK o \in Ops \cup {None} : FlushState(gen, logs, o)
  BY DEF Flush
<1>3. logs \in Gens /\ logs <= ngens
  BY <1>1, ConstTypes DEF ObjectInv, Objects
<1>4. ObjectInv(fringe, logs, ngens, gen', op')
  BY <1>1, <1>2, <1>3, FlushStateInv
<1> QED BY <1>1, <1>4, LogInvNext DEF FileOK

LEMMA ReadInv == ASSUME LogInv, Read PROVE LogInv'
<1>1. /\ FileOK /\ OpenState /\ UNCHANGED <<file, fringe, torn>>
  BY LogInvParts DEF Read
<1>2. PICK o \in Ops \cup {None} : FlushState(Opened, State, o)
  BY DEF Read
<1>3. /\ ObjectInv(fringe, logs', ngens', Opened, op)
      /\ State \in Gens /\ State = ngens' /\ ngens' \in Nat
      /\ \A g \in Gens : /\ Opened[g].retired = gen[g].retired
                         /\ Opened[g].settled = gen[g].settled
                         /\ Opened[g].retirement = gen[g].retirement
  BY <1>1, OpenStateInv DEF ObjectInv, Objects
<1>4. ObjectInv(fringe, logs', ngens', gen', op')
  <2>1. State <= ngens'
    BY <1>3
  <2> QED BY <1>2, <1>3, <2>1, FlushStateInv
<1> QED BY <1>1, <1>4, LogInvNext DEF FileOK

LEMMA ScheduledFlushInv == ASSUME LogInv, NEW g \in Gens, ScheduledFlush(g) PROVE LogInv'
<1> DEFINE N == gen[g]
           R == [N EXCEPT !.flushScheduled = FALSE]
           H == [gen EXCEPT ![g] = R]
<1>1. /\ FileOK /\ ObjectInv(fringe, logs, ngens, gen, op)
      /\ gen[g].flushScheduled /\ UNCHANGED <<file, fringe, torn, logs, ngens>>
  BY LogInvParts DEF ScheduledFlush
<1>2. gen \in [Gens -> Generation] /\ ngens \in Nat /\ g \in Nat
  BY <1>1, ConstTypes DEF ObjectInv, Objects
<1>3. g <= ngens
  <2>1. ~NewGeneration(None).flushScheduled
    BY NewGenerationType DEF Unused
  <2> QED BY <1>1, <1>2, <2>1 DEF ObjectInv, GensOK
<1>4. PICK o \in Ops \cup {None} : FlushState(H, g, o)
  <2>1. H = [gen EXCEPT ![g].flushScheduled = FALSE]
    BY <1>2
  <2> QED BY <2>1 DEF ScheduledFlush
<1>5. N \in Generation /\ Len(N.pending) \in Nat
  BY <1>2, GenTypes
<1>6. /\ R \in Generation
      /\ R.flushPromise = N.flushPromise /\ R.storageFailure = N.storageFailure
      /\ R.cutoverEpoch = N.cutoverEpoch /\ R.retired = N.retired /\ R.ready = N.ready
      /\ R.retirement = N.retirement /\ R.settled = N.settled /\ R.pending = N.pending
      /\ R.refCount = N.refCount
  <2> HIDE DEF N
  <2> QED BY <1>5 DEF Generation
<1>7. N.retired => N.refCount = 0
  BY <1>1 DEF ObjectInv, GensOK
<1>8. H[g] = R /\ \A h \in Gens : h # g => H[h] = gen[h]
  BY <1>2
<1> HIDE DEF R
<1>9. ObjectInv(fringe, logs, ngens, H, op)
  <2> HIDE DEF H
  <2>1. H = [gen EXCEPT ![g] = R]
    BY DEF H
  <2>2. Len(N.pending) <= Len(R.pending) /\ (R.retired => R.refCount = 0 /\ R.pending = N.pending)
    BY <1>5, <1>6, <1>7
  <2> QED BY <1>1, <1>3, <1>6, <2>1, <2>2, TouchOneInv
<1>10. \A h \in Gens : /\ H[h].retired = gen[h].retired /\ H[h].settled = gen[h].settled
                       /\ H[h].retirement = gen[h].retirement
  BY <1>6, <1>8
<1> HIDE DEF H
<1>11. ObjectInv(fringe, logs, ngens, gen', op')
  BY <1>3, <1>4, <1>9, <1>10, FlushStateInv
<1> QED BY <1>1, <1>11, LogInvNext DEF FileOK

\* The same, where the records are replaced by R and N.
LEMMA StepInv ==
  ASSUME NEW f, NEW l, NEW n, NEW G, NEW P, ObjectInv(f, l, n, G, P),
         NEW o \in Ops, NEW g, g = P[o].gen, Live(P, o), Turn(G, g),
         P[o].pc = "prior" /\ P[o].prior # None => SettledIn(P, P[o].prior),
         NEW R \in Operation, R.pc \notin Idle, R.pc # "prior", R.gen = g, R.epoch = P[o].epoch,
         NEW N \in Generation,
         /\ N.flushPromise = G[g].flushPromise /\ N.cutoverEpoch = G[g].cutoverEpoch
         /\ N.retired = G[g].retired /\ N.refCount = G[g].refCount
         /\ N.ready = G[g].ready /\ N.retirement = G[g].retirement
         /\ N.settled = G[g].settled,
         NEW e, Works(o, f, e, P[o], R, G[g], N),
         NEW H, H = [G EXCEPT ![g] = N], NEW Q, Q = [P EXCEPT ![o] = R]
  PROVE  ObjectInv(e, l, n, H, Q)
<1>1. G \in [Gens -> Generation] /\ P \in [Ops -> Operation] /\ g \in Gens
  BY DEF ObjectInv, Objects, EpochsOK
<1>2. H \in [Gens -> Generation] /\ H[g] = N /\ \A h \in Gens : h # g => H[h] = G[h]
  BY <1>1
<1>3. Q \in [Ops -> Operation] /\ Q[o] = R /\ \A p \in Ops : p # o => Q[p] = P[p]
  BY <1>1
<1>4. Moves(G, P, H, Q, o)
  BY <1>2, <1>3 DEF Moves, Live
<1>5. Works(o, f, e, P[o], Q[o], G[P[o].gen], H[P[o].gen])
  BY <1>2, <1>3
<1> QED BY <1>2, <1>3, <1>4, <1>5, MoveInv

\* The same, where no generation changes.
LEMMA StayInv ==
  ASSUME NEW f, NEW l, NEW n, NEW G, NEW P, ObjectInv(f, l, n, G, P),
         NEW o \in Ops, NEW g, g = P[o].gen, Live(P, o), Turn(G, g),
         P[o].pc = "prior" /\ P[o].prior # None => SettledIn(P, P[o].prior),
         NEW R \in Operation, R.pc \notin Idle, R.pc # "prior", R.gen = g, R.epoch = P[o].epoch,
         NEW e, Works(o, f, e, P[o], R, G[g], G[g]), NEW Q, Q = [P EXCEPT ![o] = R]
  PROVE  ObjectInv(e, l, n, G, Q)
<1>1. G \in [Gens -> Generation] /\ g \in Gens
  BY DEF ObjectInv, Objects, EpochsOK
<1>2. Moves(G, P, G, Q, o) /\ Q \in [Ops -> Operation] /\ Q[o] = R
  <2>1. P \in [Ops -> Operation]
    BY DEF ObjectInv, Objects
  <2> QED BY <1>1, <2>1 DEF Moves, Live
<1> QED BY <1>1, <1>2, MoveInv

LEMMA StepFacts ==
  ASSUME LogInv, NEW o \in Ops, Live(op, o)
  PROVE  /\ FileOK /\ ObjectInv(fringe, logs, ngens, gen, op)
         /\ gen \in [Gens -> Generation] /\ op \in [Ops -> Operation]
         /\ op[o].gen \in Gens /\ op[o].gen <= ngens
         /\ gen[op[o].gen] \in Generation /\ op[o] \in Operation
         /\ op[o].pc \notin {"ready", "prior"} => Turn(gen, op[o].gen)
         /\ op[o].failed => op[o].pc = "done"
         /\ gen[op[o].gen].flushPromise = o <=> op[o].epoch = gen[op[o].gen].cutoverEpoch
<1>1. FileOK /\ ObjectInv(fringe, logs, ngens, gen, op)
  BY LogInvParts
<1>2. /\ Objects(logs, ngens, gen, op) /\ EpochsOK(ngens, gen, op) /\ ChainOK(gen, op)
      /\ WorkOK(fringe, gen, op)
  BY <1>1 DEF ObjectInv
<1>3. gen \in [Gens -> Generation] /\ op \in [Ops -> Operation]
  BY <1>2 DEF Objects
<1>4. op[o].gen \in Gens /\ op[o].gen <= ngens
  BY <1>2 DEF EpochsOK
<1>5. gen[op[o].gen].flushPromise = o <=> op[o].epoch = gen[op[o].gen].cutoverEpoch
  BY <1>2 DEF EpochsOK
<1>6. op[o].pc \notin {"ready", "prior"} => Turn(gen, op[o].gen)
  BY <1>2 DEF ChainOK
<1>7. op[o].failed => op[o].pc = "done"
  BY <1>2 DEF WorkOK
<1> QED BY <1>1, <1>3, <1>4, <1>5, <1>6, <1>7

\* A generation whose ready promise has resolved may use the storage.
LEMMA ReadyTurn ==
  ASSUME LogInv, NEW g \in Gens, g <= ngens, Ready(g)
  PROVE  Turn(gen, g)
<1>1. GensOK(logs, ngens, gen) /\ gen \in [Gens -> Generation]
  BY DEF LogInv, ObjectInv, TypeOK
<1>2. CASE gen[g].ready = None
  BY <1>1, <1>2 DEF GensOK
<1>3. CASE gen[g].ready # None
  <2>1. gen[g].ready \in Gens /\ gen[g].ready = g - 1 /\ gen[g - 1].settled
    BY <1>1, <1>3, GenTypes DEF GensOK, Ready
  <2>2. Turn(gen, g - 1)
    BY <1>1, <2>1 DEF GensOK
  <2>3. \A h \in Gens : h < g => h < g - 1 \/ h = g - 1
    BY <2>1, ConstTypes
  <2> QED BY <2>1, <2>2, <2>3 DEF Turn
<1> QED BY <1>2, <1>3

LEMMA OneAtWork ==
  ASSUME NEW n, NEW G, NEW g \in Gens, NEW h \in Gens, AtWork(n, G, g), AtWork(n, G, h)
  PROVE  g = h
<1>1. g \in Nat /\ h \in Nat
  BY ConstTypes
<1>2. ~(g < h) /\ ~(h < g)
  BY DEF AtWork, Turn
<1> QED BY <1>1, <1>2

\* A drain that starts on records finds no line of them in the file: what could keep
\* lines there, a failure or a rewrite, keeps the drain from starting.
LEMMA DrainFindsNone ==
  ASSUME LogInv, NEW o \in Ops, op[o].pc = "ready", Ready(op[o].gen), ~CutOver(o),
         gen[op[o].gen].pending # <<>>
  PROVE  fringe = <<>>
<1> DEFINE g == op[o].gen
<1>1. Live(op, o)
  BY DEF Live, Idle
<1>2. /\ ObjectInv(fringe, logs, ngens, gen, op) /\ g \in Gens /\ g <= ngens
      /\ gen[g].flushPromise = o /\ op[o].epoch = gen[g].cutoverEpoch
  BY <1>1, StepFacts DEF CutOver
<1>3. /\ Objects(logs, ngens, gen, op) /\ EpochsOK(ngens, gen, op) /\ ChainOK(gen, op)
      /\ SoundOK(gen, op) /\ FringeOK(fringe, ngens, gen, op)
  BY <1>2 DEF ObjectInv
<1>4. AtWork(ngens, gen, g)
  <2>1. Turn(gen, g)
    BY <1>2, ReadyTurn
  <2>2. ~gen[g].settled
    BY <1>2, SettledFacts
  <2> QED BY <1>2, <2>1, <2>2 DEF AtWork
<1>5. ~gen[g].storageFailure
  BY <1>1, <1>2, <1>3 DEF SoundOK, Draining
<1>6. \A p \in Ops : LiveIn(op, p, g) /\ p # o => op[p].pc = "prior" /\ op[o].epoch < op[p].epoch
  BY <1>1, <1>3, FirstInLine
<1>7. \A p \in Ops : ~(LiveIn(op, p, g) /\ op[p].pc \in {"appended", "short", "prior", "write"})
  <2> SUFFICES ASSUME NEW p \in Ops, LiveIn(op, p, g),
                      op[p].pc \in {"appended", "short", "prior", "write"}
               PROVE  FALSE
    OBVIOUS
  <2>1. p # o
    OBVIOUS
  <2>2. op[o].epoch < op[p].epoch /\ op[p].epoch <= gen[g].cutoverEpoch
    BY <1>3, <1>6, <2>1 DEF EpochsOK, LiveIn
  <2>3. op[o].epoch \in Nat /\ op[p].epoch \in Nat /\ gen[g].cutoverEpoch \in Nat
    BY <1>2, <1>3, OpTypes, GenTypes DEF Objects
  <2> QED BY <1>2, <2>2, <2>3
<1> HIDE DEF g
<1> QED BY <1>2, <1>3, <1>4, <1>5, <1>7, OneAtWork DEF FringeOK

-----------------------------------------------------------------------------
(* The continuations *)

\* What a continuation may make of the record of its operation.
Becomes(r, R, c, b, w, x) ==
  /\ R \in Operation /\ R.gen = r.gen /\ R.epoch = r.epoch
  /\ R.pc = c /\ R.batch = b /\ R.snapshot = w /\ R.failed = x

LEMMA OperationUpdates ==
  ASSUME NEW r \in Operation, NEW c \in Pcs, NEW b \in Nat
  PROVE  /\ Becomes(r, [r EXCEPT !.pc = c], c, r.batch, r.snapshot, r.failed)
         /\ Becomes(r, [r EXCEPT !.pc = c, !.batch = b], c, b, r.snapshot, r.failed)
         /\ Becomes(r, [r EXCEPT !.pc = c, !.batch = b, !.failed = TRUE], c, b, r.snapshot, TRUE)
         /\ Becomes(r, [r EXCEPT !.pc = c, !.prior = None], c, r.batch, r.snapshot, r.failed)
         /\ Becomes(r, [r EXCEPT !.pc = c, !.snapshot = <<>>], c, r.batch, <<>>, r.failed)
         /\ Becomes(r, [r EXCEPT !.pc = c, !.snapshot = <<>>, !.failed = TRUE],
                    c, r.batch, <<>>, TRUE)
<1>1. /\ Becomes(r, [r EXCEPT !.pc = c], c, r.batch, r.snapshot, r.failed)
      /\ Becomes(r, [r EXCEPT !.pc = c, !.prior = None], c, r.batch, r.snapshot, r.failed)
  BY DEF Operation, Becomes
<1>2. Becomes(r, [r EXCEPT !.pc = c, !.batch = b], c, b, r.snapshot, r.failed)
  BY DEF Operation, Becomes
<1>3. Becomes(r, [r EXCEPT !.pc = c, !.batch = b, !.failed = TRUE], c, b, r.snapshot, TRUE)
  BY DEF Operation, Becomes
<1>4. <<>> \in Seq(Records)
  OBVIOUS
<1>5. Becomes(r, [r EXCEPT !.pc = c, !.snapshot = <<>>], c, r.batch, <<>>, r.failed)
  BY <1>4 DEF Operation, Becomes
<1>6. Becomes(r, [r EXCEPT !.pc = c, !.snapshot = <<>>, !.failed = TRUE], c, r.batch, <<>>, TRUE)
  BY <1>4 DEF Operation, Becomes
<1> QED BY <1>1, <1>2, <1>3, <1>5, <1>6

\* ... and of the record of its generation.
Queues(g, N, q, x) ==
  /\ N \in Generation
  /\ N.flushPromise = g.flushPromise /\ N.cutoverEpoch = g.cutoverEpoch
  /\ N.retired = g.retired /\ N.refCount = g.refCount /\ N.ready = g.ready
  /\ N.retirement = g.retirement /\ N.settled = g.settled
  /\ N.pending = q /\ N.storageFailure = x

LEMMA GenerationUpdates ==
  ASSUME NEW g \in Generation, NEW q \in Seq(Records), NEW x \in BOOLEAN
  PROVE  /\ Queues(g, [g EXCEPT !.pending = q], q, g.storageFailure)
         /\ Queues(g, [g EXCEPT !.storageFailure = x], g.pending, x)
BY DEF Generation, Queues

LEMMA NextBatchFields ==
  ASSUME NEW o \in Ops, op[o] \in Operation, NEW q \in Seq(Records)
  PROVE  LET R == NextBatch(o, q) IN
         /\ Becomes(op[o], R, R.pc, R.batch, op[o].snapshot, op[o].failed)
         /\ q = <<>> => R.pc = "done"
         /\ q # <<>> => R.pc = "append" /\ R.batch \in 1..Len(q)
<1> DEFINE r == op[o]
           R == NextBatch(o, q)
<1>1. r \in Operation /\ "done" \in Pcs /\ "append" \in Pcs /\ Len(q) \in Nat /\ 0 \in Nat
  BY DEF Pcs, AtStorage
<1>2. q # <<>> => Len(q) \in 1..Len(q)
  BY EmptySeq
<1>3. CASE q = <<>>
  <2>1. R = [r EXCEPT !.pc = "done", !.batch = 0]
    BY <1>3 DEF NextBatch
  <2> HIDE DEF r, R
  <2>2. Becomes(r, R, "done", 0, r.snapshot, r.failed)
    BY <1>1, <2>1, OperationUpdates
  <2> QED BY <1>3, <2>2 DEF Becomes, r, R
<1>4. CASE q # <<>>
  <2>1. R = [r EXCEPT !.pc = "append", !.batch = Len(q)]
    BY <1>4 DEF NextBatch
  <2> HIDE DEF r, R
  <2>2. Becomes(r, R, "append", Len(q), r.snapshot, r.failed)
    BY <1>1, <2>1, OperationUpdates
  <2> QED BY <1>2, <1>4, <2>2 DEF Becomes, r, R
<1> QED BY <1>3, <1>4

LEMMA ContinueInv ==
  ASSUME LogInv, NEW o \in Ops, Live(op, o), NEW g, g = op[o].gen, Turn(gen, g),
         op[o].pc = "prior" /\ op[o].prior # None => SettledIn(op, op[o].prior),
         NEW R, NEW c, NEW b, NEW w, NEW x, Becomes(op[o], R, c, b, w, x), c \notin Idle, c # "prior",
         NEW N, NEW q, NEW y, Queues(gen[g], N, q, y),
         NEW e, Works(o, fringe, e, op[o], R, gen[g], N)
  PROVE  ObjectInv(e, logs, ngens, [gen EXCEPT ![g] = N], [op EXCEPT ![o] = R])
<1>1. ObjectInv(fringe, logs, ngens, gen, op)
  BY LogInvParts
<1>2. R \in Operation /\ R.pc \notin Idle /\ R.pc # "prior" /\ R.gen = g /\ R.epoch = op[o].epoch
  BY DEF Becomes
<1>3. /\ N \in Generation
      /\ N.flushPromise = gen[g].flushPromise /\ N.cutoverEpoch = gen[g].cutoverEpoch
      /\ N.retired = gen[g].retired /\ N.refCount = gen[g].refCount
      /\ N.ready = gen[g].ready /\ N.retirement = gen[g].retirement
      /\ N.settled = gen[g].settled
  BY DEF Queues
<1> QED BY <1>1, <1>2, <1>3, StepInv

LEMMA WaitInv ==
  ASSUME LogInv, NEW o \in Ops, Live(op, o), NEW g, g = op[o].gen, Turn(gen, g),
         op[o].pc = "prior" /\ op[o].prior # None => SettledIn(op, op[o].prior),
         NEW R, NEW c, NEW b, NEW w, NEW x, Becomes(op[o], R, c, b, w, x), c \notin Idle, c # "prior",
         NEW e, Works(o, fringe, e, op[o], R, gen[g], gen[g])
  PROVE  ObjectInv(e, logs, ngens, gen, [op EXCEPT ![o] = R])
<1>1. ObjectInv(fringe, logs, ngens, gen, op)
  BY LogInvParts
<1>2. R \in Operation /\ R.pc \notin Idle /\ R.pc # "prior" /\ R.gen = g /\ R.epoch = op[o].epoch
  BY DEF Becomes
<1> QED BY <1>1, <1>2, StayInv

LEMMA DrainReadyInv == ASSUME LogInv, NEW o \in Ops, DrainReady(o) PROVE LogInv'
<1> DEFINE g == op[o].gen
           r == op[o]
           R == IF CutOver(o) THEN [r EXCEPT !.pc = "done"] ELSE NextBatch(o, gen[g].pending)
<1>1. /\ r.pc = "ready" /\ Ready(g) /\ op' = [op EXCEPT ![o] = R]
      /\ UNCHANGED <<file, fringe, torn, logs, ngens, gen>> /\ Live(op, o)
  BY DEF DrainReady, Live, Idle
<1>2. /\ FileOK /\ ObjectInv(fringe, logs, ngens, gen, op)
      /\ g \in Gens /\ g <= ngens /\ r \in Operation /\ ~r.failed
      /\ gen[g] \in Generation /\ gen \in [Gens -> Generation]
  BY <1>1, StepFacts
<1>3. Turn(gen, g)
  BY <1>1, <1>2, ReadyTurn
<1>4. gen[g].pending \in Seq(Records) /\ Len(gen[g].pending) \in Nat
  BY <1>2, GenTypes
<1>5. /\ Becomes(r, R, R.pc, R.batch, R.snapshot, FALSE)
      /\ R.pc = "done" \/ (R.pc = "append" /\ R.batch \in 1..Len(gen[g].pending))
      /\ R.pc = "append" => gen[g].pending # <<>> /\ ~CutOver(o)
  <2>1. CASE CutOver(o)
    <3>1. R = [r EXCEPT !.pc = "done"] /\ "done" \in Pcs /\ r.batch \in Nat
      BY <1>2, <2>1 DEF Pcs, Operation
    <3> HIDE DEF r, R
    <3>2. Becomes(r, R, "done", r.batch, r.snapshot, r.failed) /\ r.failed = FALSE
      BY <1>2, <3>1, OperationUpdates DEF Operation
    <3> QED BY <3>2 DEF Becomes
  <2>2. CASE ~CutOver(o)
    <3>1. R = NextBatch(o, gen[g].pending) /\ r.failed = FALSE
      BY <1>2, <2>2 DEF Operation
    <3>2. /\ Becomes(r, R, R.pc, R.batch, r.snapshot, r.failed)
          /\ gen[g].pending = <<>> => R.pc = "done"
          /\ gen[g].pending # <<>> => R.pc = "append" /\ R.batch \in 1..Len(gen[g].pending)
      <4> HIDE DEF R
      <4> QED BY <1>2, <1>4, <3>1, NextBatchFields
    <3> HIDE DEF r, R
    <3> QED BY <2>2, <3>1, <3>2 DEF Becomes
  <2> QED BY <2>1, <2>2
<1>6. R.pc = "append" => fringe = <<>>
  BY <1>1, <1>5, DrainFindsNone
<1>7. gen[g].flushPromise = o => ~gen[g].storageFailure
  BY <1>1, <1>2 DEF ObjectInv, SoundOK, Draining
<1>8. ~R.failed /\ R.pc \in {"done", "append"} /\ (gen[g].pending = <<>> => R.pc = "done")
  BY <1>5 DEF Becomes
<1> HIDE DEF R
<1>9. Works(o, fringe, fringe, r, R, gen[g], gen[g])
  <2> HIDE DEF r, g
  <2>1. r.pc \notin Holding
    BY <1>1 DEF Holding
  <2> QED BY <1>1, <1>5, <1>6, <1>7, <1>8, <2>1 DEF Works, Draining, Broken
<1>10. ObjectInv(fringe, logs, ngens, gen, [op EXCEPT ![o] = R])
  <2>1. R.pc \notin Idle /\ R.pc # "prior"
    BY <1>8 DEF Idle
  <2> QED BY <1>1, <1>3, <1>5, <1>9, <2>1, WaitInv
<1> QED BY <1>1, <1>2, <1>10, LogInvNext DEF FileOK

LEMMA AppendSucceedsInv == ASSUME LogInv, NEW o \in Ops, AppendSucceeds(o) PROVE LogInv'
<1> DEFINE g == op[o].gen
           r == op[o]
           rest == SubSeq(gen[g].pending, op[o].batch + 1, Len(gen[g].pending))
<1>1. r.pc = "appended" /\ UNCHANGED <<torn, logs, ngens>> /\ Live(op, o)
  BY DEF AppendSucceeds, Live, Idle
<1>2. /\ FileOK /\ ObjectInv(fringe, logs, ngens, gen, op)
      /\ g \in Gens /\ g <= ngens /\ r \in Operation /\ ~r.failed /\ Turn(gen, g)
      /\ gen[g] \in Generation /\ gen \in [Gens -> Generation]
      /\ gen[g].flushPromise = o <=> ~CutOver(o)
  BY <1>1, StepFacts DEF CutOver
<1>3. r.failed = FALSE /\ r.batch \in Nat
  BY <1>2 DEF Operation
<1>4. gen[g].flushPromise = o => ~gen[g].storageFailure
  BY <1>1, <1>2 DEF ObjectInv, SoundOK, Draining
<1>5. r.pc \in AtStorage /\ "done" \in Pcs
  BY <1>1 DEF AtStorage, Pcs
<1>6. CASE CutOver(o)
  <2> DEFINE R == [r EXCEPT !.pc = "done", !.batch = 0]
  <2>1. op' = [op EXCEPT ![o] = R] /\ UNCHANGED <<gen, file, fringe>>
    BY <1>1, <1>6 DEF AppendSucceeds, LogInv, TypeOK
  <2>2. Becomes(r, R, "done", 0, r.snapshot, FALSE)
    <3> HIDE DEF r
    <3> QED BY <1>2, <1>3, <1>5, OperationUpdates
  <2> HIDE DEF R
  <2>3. Works(o, fringe, fringe, r, R, gen[g], gen[g])
    <3>1. R.pc = "done" /\ ~R.failed /\ gen[g].flushPromise # o
      BY <1>2, <1>6, <2>2 DEF Becomes
    <3> HIDE DEF r, g
    <3> QED BY <1>1, <1>5, <3>1 DEF Works, Draining, Broken
  <2>4. ObjectInv(fringe, logs, ngens, gen, [op EXCEPT ![o] = R])
    <3>1. "done" \notin Idle /\ "done" # "prior"
      BY DEF Idle
    <3> QED BY <1>1, <1>2, <2>2, <2>3, <3>1, WaitInv
  <2> QED BY <1>1, <1>2, <2>1, <2>4, LogInvNext DEF FileOK
<1>7. CASE ~CutOver(o)
  <2> DEFINE R == NextBatch(o, rest)
             N == [gen[g] EXCEPT !.pending = rest]
  <2>1. /\ op' = [op EXCEPT ![o] = R] /\ gen' = [gen EXCEPT ![g] = N]
        /\ file' = file \o fringe /\ fringe' = <<>>
    BY <1>1, <1>2, <1>7 DEF AppendSucceeds
  <2>2. rest \in Seq(Records) /\ Len(rest) \in Nat
    <3>1. gen[g].pending \in Seq(Records) /\ Len(gen[g].pending) \in Nat
      BY <1>2, GenTypes
    <3> HIDE DEF g
    <3> QED BY <1>3, <3>1, SubSeqProperties
  <2> HIDE DEF rest
  <2>3. /\ Becomes(r, R, R.pc, R.batch, r.snapshot, FALSE)
        /\ R.pc = "done" \/ (R.pc = "append" /\ R.batch \in 1..Len(rest))
    <3> HIDE DEF R
    <3>1. R = NextBatch(o, rest)
      BY DEF R
    <3> QED BY <1>2, <1>3, <2>2, <3>1, NextBatchFields
  <2>4. Queues(gen[g], N, rest, gen[g].storageFailure)
    BY <1>2, <2>2, GenerationUpdates
  <2> HIDE DEF R, N
  <2>5. Works(o, fringe, <<>>, r, R, gen[g], N)
    <3>1. R.pc \in {"done", "append"} /\ ~R.failed
      BY <2>3 DEF Becomes
    <3>2. N.pending = rest /\ ~N.storageFailure
      BY <1>2, <1>4, <1>7, <2>4 DEF Queues
    <3> HIDE DEF r, g
    <3> QED BY <1>1, <1>5, <2>3, <3>1, <3>2 DEF Works, Draining, Broken
  <2>6. ObjectInv(<<>>, logs, ngens, [gen EXCEPT ![g] = N], [op EXCEPT ![o] = R])
    <3>1. R.pc \notin Idle /\ R.pc # "prior"
      BY <2>3 DEF Idle
    <3> QED BY <1>1, <1>2, <2>3, <2>4, <2>5, <3>1, ContinueInv
  <2>7. FileOK'
    BY <1>1, <1>2, <2>1 DEF FileOK
  <2> QED BY <1>1, <2>1, <2>6, <2>7, LogInvNext
<1> QED BY <1>6, <1>7

\* A storage call fails, and drain or rewrite ends with the failure kept.
LEMMA FailsInv ==
  ASSUME LogInv, NEW o \in Ops, op[o].pc \in AtStorage,
         NEW R, NEW b, NEW w, Becomes(op[o], R, "done", b, w, TRUE), op' = [op EXCEPT ![o] = R],
         gen' = FailureKept(op[o].gen), UNCHANGED <<file, fringe, torn, logs, ngens>>
  PROVE  LogInv'
<1> DEFINE g == op[o].gen
           r == op[o]
           N == [gen[g] EXCEPT !.storageFailure = TRUE]
<1>1. Live(op, o)
  BY DEF Live, Idle, AtStorage
<1>2. /\ FileOK /\ g \in Gens /\ Turn(gen, g)
      /\ gen[g] \in Generation /\ gen \in [Gens -> Generation]
  BY <1>1, StepFacts DEF AtStorage
<1>3. gen' = [gen EXCEPT ![g] = N]
  BY <1>2 DEF FailureKept
<1>4. Queues(gen[g], N, gen[g].pending, TRUE)
  <2>1. gen[g].pending \in Seq(Records)
    BY <1>2, GenTypes
  <2> QED BY <1>2, <2>1, GenerationUpdates
<1> HIDE DEF N
<1>5. Works(o, fringe, fringe, r, R, gen[g], N)
  <2>1. R.pc = "done" /\ R.failed /\ N.pending = gen[g].pending /\ N.storageFailure
    BY <1>4 DEF Becomes, Queues
  <2>2. r.pc \notin {"ready", "done"}
    BY DEF AtStorage
  <2> HIDE DEF r, g
  <2> QED BY <2>1, <2>2 DEF Works, Draining, Broken
<1>6. ObjectInv(fringe, logs, ngens, [gen EXCEPT ![g] = N], [op EXCEPT ![o] = R])
  <2>1. "done" \notin Idle /\ "done" # "prior" /\ r.pc # "prior"
    BY DEF Idle, AtStorage
  <2> QED BY <1>1, <1>2, <1>4, <1>5, <2>1, ContinueInv
<1> QED BY <1>2, <1>3, <1>6, LogInvNext DEF FileOK

LEMMA AppendFailsInv == ASSUME LogInv, NEW o \in Ops, AppendFails(o) PROVE LogInv'
<1> DEFINE r == op[o]
           R == [r EXCEPT !.pc = "done", !.batch = 0, !.failed = TRUE]
<1>1. op[o].pc \in AtStorage /\ r \in Operation /\ "done" \in Pcs
  BY DEF AppendFails, AtStorage, LogInv, TypeOK, Pcs
<1>2. op' = [op EXCEPT ![o] = R]
  BY DEF AppendFails, LogInv, TypeOK
<1>3. Becomes(r, R, "done", 0, r.snapshot, TRUE)
  <2> HIDE DEF r
  <2> QED BY <1>1, OperationUpdates
<1> HIDE DEF R
<1> QED BY <1>1, <1>2, <1>3, FailsInv DEF AppendFails

LEMMA WriteFailsInv == ASSUME LogInv, NEW o \in Ops, WriteFails(o) PROVE LogInv'
<1> DEFINE r == op[o]
           R == [r EXCEPT !.pc = "done", !.snapshot = <<>>, !.failed = TRUE]
<1>1. op[o].pc \in AtStorage /\ r \in Operation /\ "done" \in Pcs
  BY DEF WriteFails, AtStorage, LogInv, TypeOK, Pcs
<1>2. op' = [op EXCEPT ![o] = R]
  BY DEF WriteFails, LogInv, TypeOK
<1>3. Becomes(r, R, "done", r.batch, <<>>, TRUE)
  <2> HIDE DEF r
  <2>1. r.batch \in Nat
    BY <1>1 DEF Operation
  <2> QED BY <1>1, <2>1, OperationUpdates
<1> HIDE DEF R
<1> QED BY <1>1, <1>2, <1>3, FailsInv DEF WriteFails

\* The predecessor of a rewrite has settled: its generation may use the storage.
LEMMA RewriteTurn ==
  ASSUME LogInv, NEW o \in Ops, RewriteStarts(o)
  PROVE  Turn(gen, op[o].gen) /\ (op[o].prior # None => SettledIn(op, op[o].prior))
<1>1. op[o].pc = "prior" /\ Live(op, o)
  BY DEF RewriteStarts, Live, Idle
<1>2. CASE op[o].prior = None
  <2>1. Ready(op[o].gen) /\ op[o].gen \in Gens /\ op[o].gen <= ngens
    BY <1>1, <1>2, StepFacts DEF RewriteStarts
  <2> QED BY <1>2, <2>1, ReadyTurn
<1>3. CASE op[o].prior # None
  <2>1. SettledIn(op, op[o].prior) /\ ChainOK(gen, op)
    BY <1>3 DEF RewriteStarts, Settled, SettledIn, LogInv, ObjectInv
  <2>2. ~LiveIn(op, op[o].prior, op[o].gen)
    BY <2>1 DEF SettledIn, LiveIn, Live, Idle
  <2> QED BY <1>1, <1>3, <2>1, <2>2 DEF ChainOK
<1> QED BY <1>2, <1>3

LEMMA RewriteStartsInv == ASSUME LogInv, NEW o \in Ops, RewriteStarts(o) PROVE LogInv'
<1> DEFINE g == op[o].gen
           r == op[o]
           R == [r EXCEPT !.pc = "write", !.prior = None]
<1>1. /\ r.pc = "prior" /\ Live(op, o) /\ UNCHANGED <<file, fringe, torn, logs, ngens, gen>>
      /\ op' = [op EXCEPT ![o] = R]
  BY DEF RewriteStarts, Live, Idle, LogInv, TypeOK
<1>2. FileOK /\ ObjectInv(fringe, logs, ngens, gen, op) /\ r \in Operation /\ ~r.failed
  BY <1>1, StepFacts
<1>3. Turn(gen, g) /\ (r.prior # None => SettledIn(op, r.prior))
  BY RewriteTurn
<1>4. r.snapshot \in Snapshots
  BY <1>1, <1>2 DEF ObjectInv, WorkOK
<1>5. Becomes(r, R, "write", r.batch, r.snapshot, FALSE)
  <2> HIDE DEF r
  <2>1. r.batch \in Nat /\ r.failed = FALSE /\ "write" \in Pcs
    BY <1>2 DEF Operation, Pcs, AtStorage
  <2> QED BY <1>2, <2>1, OperationUpdates
<1> HIDE DEF R
<1>6. Works(o, fringe, fringe, r, R, gen[g], gen[g])
  <2>1. R.pc = "write" /\ R.snapshot \in Snapshots /\ ~R.failed
    BY <1>4, <1>5 DEF Becomes
  <2> HIDE DEF r, g
  <2> QED BY <1>1, <2>1 DEF Works, Draining, Broken, Holding
<1>7. ObjectInv(fringe, logs, ngens, gen, [op EXCEPT ![o] = R])
  <2>1. "write" \notin Idle /\ "write" # "prior"
    BY DEF Idle
  <2> QED BY <1>1, <1>3, <1>5, <1>6, <2>1, WaitInv
<1> QED BY <1>1, <1>2, <1>7, LogInvNext DEF FileOK

LEMMA WriteSucceedsInv == ASSUME LogInv, NEW o \in Ops, WriteSucceeds(o) PROVE LogInv'
<1> DEFINE g == op[o].gen
           r == op[o]
           R == [r EXCEPT !.pc = "done", !.snapshot = <<>>]
           N == [gen[g] EXCEPT !.storageFailure = FALSE]
<1>1. /\ r.pc = "written" /\ Live(op, o) /\ UNCHANGED <<file, fringe, torn, logs, ngens>>
      /\ op' = [op EXCEPT ![o] = R] /\ gen' = [gen EXCEPT ![g].storageFailure = FALSE]
  BY DEF WriteSucceeds, Live, Idle, LogInv, TypeOK
<1>2. /\ FileOK /\ ObjectInv(fringe, logs, ngens, gen, op) /\ r \in Operation /\ ~r.failed
      /\ g \in Gens /\ Turn(gen, g) /\ gen[g] \in Generation /\ gen \in [Gens -> Generation]
  BY <1>1, StepFacts
<1>3. gen' = [gen EXCEPT ![g] = N]
  BY <1>1, <1>2
<1>4. Queues(gen[g], N, gen[g].pending, FALSE)
  <2>1. gen[g].pending \in Seq(Records)
    BY <1>2, GenTypes
  <2> QED BY <1>2, <2>1, GenerationUpdates
<1>5. Becomes(r, R, "done", r.batch, <<>>, FALSE)
  <2> HIDE DEF r
  <2>1. r.batch \in Nat /\ r.failed = FALSE /\ "done" \in Pcs
    BY <1>2 DEF Operation, Pcs
  <2> QED BY <1>2, <2>1, OperationUpdates
<1>6. fringe = <<>>
  BY <1>1, <1>2 DEF ObjectInv, WorkOK
<1> HIDE DEF R, N
<1>7. Works(o, fringe, fringe, r, R, gen[g], N)
  <2>1. R.pc = "done" /\ ~R.failed /\ N.pending = gen[g].pending /\ ~N.storageFailure
    BY <1>4, <1>5 DEF Becomes, Queues
  <2> HIDE DEF r, g
  <2> QED BY <1>1, <1>6, <2>1 DEF Works, Draining, Broken
<1>8. ObjectInv(fringe, logs, ngens, [gen EXCEPT ![g] = N], [op EXCEPT ![o] = R])
  <2>1. "done" \notin Idle /\ "done" # "prior" /\ r.pc # "prior"
    BY <1>1 DEF Idle
  <2> QED BY <1>1, <1>2, <1>4, <1>5, <1>7, <2>1, ContinueInv
<1> QED BY <1>1, <1>2, <1>3, <1>8, LogInvNext DEF FileOK

LEMMA FinishOwnedFlushInv == ASSUME LogInv, NEW o \in Ops, FinishOwnedFlush(o) PROVE LogInv'
<1> DEFINE g == op[o].gen
           r == op[o]
<1>1. r.pc = "done" /\ Live(op, o) /\ UNCHANGED <<file, fringe, torn, logs, ngens>>
  BY DEF FinishOwnedFlush, Live, Idle
<1>2. /\ FileOK /\ ObjectInv(fringe, logs, ngens, gen, op) /\ r \in Operation
      /\ g \in Gens /\ Turn(gen, g) /\ gen[g] \in Generation /\ gen \in [Gens -> Generation]
      /\ op \in [Ops -> Operation] /\ (gen[g].flushPromise = o <=> r.epoch = gen[g].cutoverEpoch)
  BY <1>1, StepFacts
<1>3. CASE DrainsAgain(o)
  <2> DEFINE R == Drain(gen, g)
  <2>1. op' = [op EXCEPT ![o] = R] /\ UNCHANGED gen
    BY <1>3 DEF FinishOwnedFlush
  <2>2. ~r.failed /\ gen[g].flushPromise = o /\ gen[g].pending # <<>> /\ r.epoch = gen[g].cutoverEpoch
    BY <1>2, <1>3 DEF DrainsAgain, Owner
  <2>3. Becomes(r, R, "ready", R.batch, R.snapshot, FALSE)
    BY <1>2, <2>2, DrainFields DEF Becomes
  <2> HIDE DEF R
  <2>4. ~gen[g].storageFailure
    BY <1>1, <1>2, <2>2 DEF ObjectInv, SoundOK, Draining
  <2>5. Works(o, fringe, fringe, r, R, gen[g], gen[g])
    <3>1. R.pc = "ready" /\ ~R.failed
      BY <2>3 DEF Becomes
    <3> HIDE DEF r, g
    <3> QED BY <1>1, <2>2, <2>4, <3>1 DEF Works, Draining, Broken, Holding
  <2>6. ObjectInv(fringe, logs, ngens, gen, [op EXCEPT ![o] = R])
    <3>1. "ready" \notin Idle /\ "ready" # "prior" /\ r.pc # "prior"
      BY <1>1 DEF Idle
    <3> QED BY <1>1, <1>2, <2>3, <2>5, <3>1, WaitInv
  <2> QED BY <1>1, <1>2, <2>1, <2>6, LogInvNext DEF FileOK
<1>4. CASE ~DrainsAgain(o)
  <2> DEFINE c == IF r.failed THEN "rejected" ELSE "resolved"
             M == NoOperation
             R == [M EXCEPT !.pc = c]
             H == IF Owner(o) THEN [gen EXCEPT ![g].flushPromise = None] ELSE gen
  <2>1. op' = [op EXCEPT ![o] = R] /\ gen' = H
    BY <1>4 DEF FinishOwnedFlush
  <2>2. R \in Operation /\ R.pc \in {"resolved", "rejected"} /\ ~R.failed
    <3>1. c \in {"resolved", "rejected"} /\ M \in Operation /\ ~M.failed /\ c \in Pcs
      BY NoOperationType DEF Pcs, Idle
    <3> HIDE DEF c, M
    <3> QED BY <3>1 DEF Operation
  <2> HIDE DEF R
  <2>3. \A h \in Gens : gen[h].flushPromise = o => h = g
    <3>1. EpochsOK(ngens, gen, op) /\ o # None
      BY <1>2, ConstTypes DEF ObjectInv
    <3> QED BY <3>1 DEF EpochsOK, LiveIn
  <2>4. ASSUME Owner(o)
        PROVE  /\ H \in [Gens -> Generation]
               /\ \A h \in Gens : h # g => H[h] = gen[h]
               /\ H[g].flushPromise = None
               /\ H[g].settled = gen[g].settled /\ H[g].retired = gen[g].retired
               /\ H[g].storageFailure = gen[g].storageFailure /\ H[g].pending = gen[g].pending
               /\ H[g].retirement = gen[g].retirement /\ H[g].ready = gen[g].ready
               /\ H[g].refCount = gen[g].refCount /\ H[g].cutoverEpoch = gen[g].cutoverEpoch
    <3> DEFINE N == [gen[g] EXCEPT !.flushPromise = None]
    <3>1. H = [gen EXCEPT ![g] = N]
      BY <1>2, <2>4
    <3>2. /\ N \in Generation /\ N.flushPromise = None
          /\ N.settled = gen[g].settled /\ N.retired = gen[g].retired
          /\ N.storageFailure = gen[g].storageFailure /\ N.pending = gen[g].pending
          /\ N.retirement = gen[g].retirement /\ N.ready = gen[g].ready
          /\ N.refCount = gen[g].refCount /\ N.cutoverEpoch = gen[g].cutoverEpoch
      <4> HIDE DEF g
      <4> QED BY <1>2 DEF Generation
    <3> HIDE DEF N, H
    <3> QED BY <1>2, <3>1, <3>2
  <2>5. ASSUME ~Owner(o) PROVE H = gen /\ gen[g].flushPromise # o
    BY <2>5 DEF Owner
  <2>6. Owner(o) => gen[g].flushPromise = o
    BY DEF Owner
  <2> HIDE DEF H
  <2>7. /\ H \in [Gens -> Generation]
        /\ \A h \in Gens :
           /\ gen[h].flushPromise # o => H[h] = gen[h]
           /\ gen[h].flushPromise = o => H[h].flushPromise = None
           /\ H[h].settled = gen[h].settled /\ H[h].retired = gen[h].retired
           /\ H[h].storageFailure = gen[h].storageFailure /\ H[h].pending = gen[h].pending
           /\ H[h].retirement = gen[h].retirement /\ H[h].ready = gen[h].ready
           /\ H[h].refCount = gen[h].refCount /\ H[h].cutoverEpoch = gen[h].cutoverEpoch
    <3>1. CASE Owner(o)
      BY <2>3, <2>4, <2>6, <3>1
    <3>2. CASE ~Owner(o)
      BY <1>2, <2>3, <2>5, <3>2
    <3> QED BY <3>1, <3>2
  <2>8. gen[g].flushPromise = o /\ ~r.failed => gen[g].pending = <<>>
    BY <1>4 DEF DrainsAgain, Owner
  <2>9. /\ op' \in [Ops -> Operation] /\ op'[o] = R /\ \A p \in Ops : p # o => op'[p] = op[p]
    BY <1>2, <2>1, <2>2
  <2>10. ObjectInv(fringe, logs, ngens, H, op')
    BY <1>1, <1>2, <2>2, <2>7, <2>8, <2>9, FinishInv
  <2> QED BY <1>1, <1>2, <2>1, <2>10, LogInvNext DEF FileOK
<1> QED BY <1>3, <1>4

-----------------------------------------------------------------------------
(* The file storage, the end of a generation, a crash *)

\* What an append writes are lines.
LEMMA WrittenLines ==
  ASSUME FileOK, NEW q \in Seq(Records), NEW n \in 0..Len(q)
  PROVE  /\ SubSeq(q, 1, n) \in Seq(Records) /\ Len(SubSeq(q, 1, n)) = n
         /\ fringe \o Written(SubSeq(q, 1, n)) \in Seq(Lines)
<1> DEFINE s == SubSeq(q, 1, n)
<1>1. s \in Seq(Records) /\ Len(s) = n
  <2>1. n \in Nat /\ Len(q) \in Nat /\ \A i \in 1..n : q[i] \in Records
    OBVIOUS
  <2> QED BY <2>1, SubSeqProperties
<1>2. s \in Seq(Lines)
  BY <1>1 DEF Lines
<1>3. s # <<>> => <<Garbled>> \o Tail(s) \in Seq(Lines)
  <2> HIDE DEF s
  <2>1. <<Garbled>> \in Seq(Lines)
    BY DEF Lines
  <2>2. s # <<>> => Tail(s) \in Seq(Lines)
    BY <1>2
  <2> QED BY <2>1, <2>2, ConcatProperties
<1>4. Written(s) \in Seq(Lines)
  <2> HIDE DEF s
  <2> QED BY <1>2, <1>3 DEF Written
<1> HIDE DEF s
<1>5. fringe \o Written(s) \in Seq(Lines)
  BY <1>4, ConcatProperties DEF FileOK
<1> QED BY <1>1, <1>5 DEF s

LEMMA AppendLandsInv == ASSUME LogInv, NEW o \in Ops, AppendLands(o) PROVE LogInv'
<1> DEFINE g == op[o].gen
           r == op[o]
           batch == SubSeq(gen[g].pending, 1, r.batch)
<1>1. r.pc = "append" /\ Live(op, o) /\ UNCHANGED <<file, logs, ngens, gen>>
  BY DEF AppendLands, Live, Idle
<1>2. /\ FileOK /\ ObjectInv(fringe, logs, ngens, gen, op) /\ r \in Operation /\ ~r.failed
      /\ g \in Gens /\ Turn(gen, g) /\ gen[g] \in Generation /\ gen \in [Gens -> Generation]
      /\ op \in [Ops -> Operation]
  BY <1>1, StepFacts
<1>3. PICK n \in 0..r.batch, tear \in {FALSE, Tears} :
        /\ tear => n < r.batch
        /\ fringe' = fringe \o Written(SubSeq(batch, 1, n))
        /\ torn' = (tear \/ (torn /\ n = 0))
        /\ op' = [op EXCEPT ![o].pc = IF n = r.batch THEN "appended" ELSE "short"]
  BY DEF AppendLands
<1>4. gen[g].pending \in Seq(Records) /\ Len(gen[g].pending) \in Nat /\ r.batch \in 1..Len(gen[g].pending)
  BY <1>1, <1>2, GenTypes DEF ObjectInv, WorkOK
<1>5. FileOK'
  <2>1. batch \in Seq(Records) /\ Len(batch) = r.batch
    <3>1. r.batch \in 0..Len(gen[g].pending)
      BY <1>4
    <3> HIDE DEF r, g
    <3> QED BY <1>2, <1>4, <3>1, WrittenLines
  <2> HIDE DEF batch
  <2>2. fringe' \in Seq(Lines)
    BY <1>2, <1>3, <2>1, WrittenLines
  <2>3. torn' \in BOOLEAN
    <3>1. torn' = (tear \/ (torn /\ n = 0))
      BY <1>3
    <3> QED BY <3>1
  <2> QED BY <1>1, <1>2, <2>2, <2>3 DEF FileOK
<1> DEFINE c == IF n = r.batch THEN "appended" ELSE "short"
           R == [r EXCEPT !.pc = c]
<1>6. op' = [op EXCEPT ![o] = R]
  BY <1>2, <1>3
<1>7. c \in {"appended", "short"}
  OBVIOUS
<1> HIDE DEF c
<1>8. Becomes(r, R, c, r.batch, r.snapshot, FALSE)
  <2> HIDE DEF r
  <2>1. r.batch \in Nat /\ r.failed = FALSE /\ c \in Pcs
    BY <1>2, <1>7 DEF Operation, Pcs, AtStorage
  <2> QED BY <1>2, <2>1, OperationUpdates
<1> HIDE DEF R
<1>9. gen[g].flushPromise = o => ~gen[g].storageFailure
  BY <1>1, <1>2 DEF ObjectInv, SoundOK, Draining
<1>10. Works(o, fringe, fringe', r, R, gen[g], gen[g])
  <2>1. R.pc \in {"appended", "short"} /\ R.batch = r.batch /\ ~R.failed
    BY <1>7, <1>8 DEF Becomes
  <2>2. r.pc \in AtStorage /\ R.pc \in Holding
    BY <1>1, <2>1 DEF AtStorage, Holding
  <2> HIDE DEF r, g
  <2> QED BY <1>1, <1>4, <1>9, <2>1, <2>2 DEF Works, Draining, Broken
<1>11. ObjectInv(fringe', logs, ngens, gen, [op EXCEPT ![o] = R])
  <2>1. c \notin Idle /\ c # "prior" /\ r.pc # "prior"
    BY <1>1, <1>7 DEF Idle
  <2> QED BY <1>1, <1>2, <1>8, <1>10, <2>1, WaitInv
<1> QED BY <1>1, <1>5, <1>6, <1>11, LogInvNext

LEMMA WriteLandsInv == ASSUME LogInv, NEW o \in Ops, WriteLands(o) PROVE LogInv'
<1> DEFINE g == op[o].gen
           r == op[o]
           R == [r EXCEPT !.pc = "written"]
<1>1. /\ r.pc = "write" /\ Live(op, o) /\ UNCHANGED <<logs, ngens, gen>>
      /\ file' = r.snapshot /\ fringe' = <<>> /\ torn' = FALSE /\ op' = [op EXCEPT ![o] = R]
  BY DEF WriteLands, Live, Idle, LogInv, TypeOK
<1>2. /\ FileOK /\ ObjectInv(fringe, logs, ngens, gen, op) /\ r \in Operation /\ ~r.failed
      /\ Turn(gen, g)
  BY <1>1, StepFacts
<1>3. Becomes(r, R, "written", r.batch, r.snapshot, FALSE) /\ r.snapshot \in Seq(Records)
  <2> HIDE DEF r
  <2>1. r.batch \in Nat /\ r.failed = FALSE /\ "written" \in Pcs /\ r.snapshot \in Seq(Records)
    BY <1>2 DEF Operation, Pcs, AtStorage
  <2> QED BY <1>2, <2>1, OperationUpdates
<1> HIDE DEF R
<1>4. Works(o, fringe, <<>>, r, R, gen[g], gen[g])
  <2>1. R.pc = "written" /\ ~R.failed /\ r.pc \in AtStorage
    BY <1>1, <1>3 DEF Becomes, AtStorage
  <2> HIDE DEF r, g
  <2> QED BY <1>1, <2>1 DEF Works, Draining, Broken
<1>5. ObjectInv(<<>>, logs, ngens, gen, [op EXCEPT ![o] = R])
  <2>1. "written" \notin Idle /\ "written" # "prior" /\ r.pc # "prior"
    BY <1>1 DEF Idle
  <2> QED BY <1>1, <1>2, <1>3, <1>4, <2>1, WaitInv
<1>6. FileOK'
  <2>1. r.snapshot \in Seq(Lines) /\ <<>> \in Seq(Lines)
    BY <1>3 DEF Lines
  <2> QED BY <1>1, <2>1 DEF FileOK
<1> QED BY <1>1, <1>5, <1>6, LogInvNext

LEMMA RetirementSettlesInv ==
  ASSUME LogInv, NEW g \in Gens, RetirementSettles(g) PROVE LogInv'
<1> DEFINE N == [gen[g] EXCEPT !.settled = TRUE, !.retirement = None, !.pending = <<>>]
<1>1. /\ FileOK /\ ObjectInv(fringe, logs, ngens, gen, op)
      /\ gen \in [Gens -> Generation] /\ gen[g] \in Generation
  BY LogInvParts DEF ObjectInv, Objects
<1>2. /\ gen[g].retired /\ (gen[g].retirement # None => SettledIn(op, gen[g].retirement))
      /\ gen' = [gen EXCEPT ![g] = N] /\ logs' = (IF logs = g THEN None ELSE logs)
      /\ file' = file \o fringe /\ fringe' = <<>> /\ UNCHANGED <<torn, ngens, op>>
  BY <1>1 DEF RetirementSettles, Settled, SettledIn
<1>3. /\ N \in Generation
      /\ N.flushPromise = gen[g].flushPromise /\ N.storageFailure = gen[g].storageFailure
      /\ N.cutoverEpoch = gen[g].cutoverEpoch /\ N.refCount = gen[g].refCount
      /\ N.ready = gen[g].ready /\ N.retired = gen[g].retired
      /\ N.settled = TRUE /\ N.retirement = None /\ N.pending = <<>>
  <2>1. <<>> \in Seq(Records)
    OBVIOUS
  <2> QED BY <1>1, <2>1 DEF Generation
<1> HIDE DEF N
<1> DEFINE H == gen'
           m == logs'
<1>4. H \in [Gens -> Generation] /\ H[g] = N /\ \A h \in Gens : h # g => H[h] = gen[h]
  BY <1>1, <1>2, <1>3
<1>5. ObjectInv(<<>>, m, ngens, H, op)
  <2>1. m = (IF logs = g THEN None ELSE logs)
    BY <1>2
  <2> HIDE DEF H, m
  <2>2. Settles(gen, H, g)
    BY <1>3, <1>4 DEF Settles
  <2>3. gen[g].retired /\ (gen[g].retirement # None => SettledIn(op, gen[g].retirement))
    BY <1>2
  <2> QED BY <1>1, <1>4, <2>1, <2>2, <2>3, SettleInv
<1>6. FileOK'
  <2>1. file \o fringe \in Seq(Lines) /\ <<>> \in Seq(Lines)
    BY <1>1, ConcatProperties DEF FileOK
  <2> QED BY <1>1, <1>2, <2>1 DEF FileOK
<1> QED BY <1>2, <1>5, <1>6, LogInvNext

LEMMA CrashInv == ASSUME LogInv, Crash PROVE LogInv'
<1>1. FileOK'
  <2>1. file \o fringe \in Seq(Lines) /\ <<>> \in Seq(Lines) /\ torn \in BOOLEAN
    BY LogInvParts, ConcatProperties DEF FileOK
  <2> QED BY <2>1 DEF Crash, FileOK
<1>2. ObjectInv(fringe', logs', ngens', gen', op')
  BY StartedInv DEF Crash
<1> QED BY <1>1, <1>2, LogInvNext

LEMMA InitInv == Init => LogInv
<1> SUFFICES ASSUME Init PROVE LogInv
  OBVIOUS
<1>1. FileOK
  <2>1. <<>> \in Seq(Lines)
    OBVIOUS
  <2> QED BY <2>1 DEF Init, FileOK
<1>2. ObjectInv(fringe, logs, ngens, gen, op)
  BY StartedInv DEF Init
<1> QED BY <1>1, <1>2, LogInvParts

-----------------------------------------------------------------------------
(* rewrite and release *)

LEMMA RewriteInv ==
  ASSUME LogInv, NEW snapshot \in Snapshots, Rewrite(snapshot) PROVE LogInv'
<1> DEFINE s == State
           N == Opened[s]
           e == N.cutoverEpoch + 1
           M == NoOperation
<1>1. FileOK /\ OpenState /\ UNCHANGED <<file, fringe, torn>>
  BY LogInvParts DEF Rewrite
<1>2. PICK o \in Ops :
        /\ Fresh(o) /\ o # N.flushPromise
        /\ op' = [op EXCEPT ![o] = [M EXCEPT !.pc = "prior", !.gen = s, !.epoch = e,
                                      !.prior = N.flushPromise, !.snapshot = snapshot]]
        /\ gen' = [Opened EXCEPT ![s].cutoverEpoch = @ + 1, ![s].flushPromise = o]
  BY DEF Rewrite
<1> DEFINE R == [M EXCEPT !.pc = "prior", !.gen = s, !.epoch = e,
                          !.prior = N.flushPromise, !.snapshot = snapshot]
           K == [N EXCEPT !.cutoverEpoch = e, !.flushPromise = o]
<1>3. /\ ObjectInv(fringe, logs', ngens', Opened, op)
      /\ s \in Gens /\ s = ngens' /\ ~N.retired
      /\ \A g \in Gens : /\ Opened[g].retired = gen[g].retired
                         /\ Opened[g].settled = gen[g].settled
                         /\ Opened[g].retirement = gen[g].retirement
  BY <1>1, OpenStateInv
<1>4. Opened \in [Gens -> Generation] /\ op \in [Ops -> Operation] /\ ngens' \in Nat
  BY <1>3 DEF ObjectInv, Objects
<1>5. N \in Generation /\ s <= ngens' /\ N.flushPromise \in Ops \cup {None} /\ e \in Nat
  BY <1>3, <1>4, GenTypes
<1>6. Spare(Opened, op, o)
  BY <1>2, <1>3, StaysSpare
<1>7. gen' = [Opened EXCEPT ![s] = K] /\ op' = [op EXCEPT ![o] = R]
  BY <1>2, <1>3, <1>4
<1>8. snapshot \in Seq(Records) /\ M \in Operation /\ ~M.failed /\ "prior" \in Pcs
  BY LogAssumption, NoOperationType DEF Pcs
<1> HIDE DEF s, e, M
<1>9. /\ K \in Generation /\ K.flushPromise = o /\ K.storageFailure = N.storageFailure
      /\ K.retired = N.retired /\ K.refCount = N.refCount /\ K.ready = N.ready
      /\ K.retirement = N.retirement /\ K.settled = N.settled /\ K.pending = N.pending
      /\ K.cutoverEpoch = e
  <2> HIDE DEF N
  <2> QED BY <1>5 DEF Generation
<1>10. /\ R \in Operation /\ R.pc = "prior" /\ R.gen = s /\ R.epoch = e /\ ~R.failed
       /\ R.prior = N.flushPromise /\ R.snapshot = snapshot
  <2> HIDE DEF N
  <2> QED BY <1>3, <1>5, <1>8 DEF Operation
<1> HIDE DEF K, R
<1> DEFINE H == gen'
           Q == op'
<1>11. /\ H \in [Gens -> Generation] /\ H[s] = K /\ \A h \in Gens : h # s => H[h] = Opened[h]
       /\ Q \in [Ops -> Operation] /\ Q[o] = R /\ \A p \in Ops : p # o => Q[p] = op[p]
  BY <1>3, <1>4, <1>7, <1>9, <1>10
<1> HIDE DEF H, Q
<1>12. Starts(Opened, op, H, Q, s, o)
  BY <1>3, <1>9, <1>10, <1>11 DEF Starts, e
<1> HIDE DEF N
<1>13. ObjectInv(fringe, logs', ngens', H, Q)
  BY <1>3, <1>5, <1>6, <1>11, <1>12, StartInv
<1> QED BY <1>1, <1>13, LogInvNext DEF FileOK, H, Q

\* The owners of a generation that some acquire has given one.
LEMMA OwnedFacts ==
  ASSUME LogInv, NEW g \in Gens, Owned(g)
  PROVE  /\ FileOK /\ ObjectInv(fringe, logs, ngens, gen, op) /\ g <= ngens /\ ~gen[g].retired
         /\ gen \in [Gens -> Generation] /\ op \in [Ops -> Operation] /\ gen[g] \in Generation
         /\ gen[g].refCount \in Nat /\ gen[g].refCount > 0
<1>1. FileOK /\ ObjectInv(fringe, logs, ngens, gen, op)
  BY LogInvParts
<1>2. /\ gen \in [Gens -> Generation] /\ op \in [Ops -> Operation]
      /\ ngens \in Nat /\ g \in Nat /\ GensOK(logs, ngens, gen)
  BY <1>1, ConstTypes DEF ObjectInv, Objects
<1>3. gen[g].refCount \in Nat /\ gen[g].refCount > 0
  BY <1>2, GenTypes DEF Owned
<1>4. g <= ngens
  <2>1. NewGeneration(None).refCount = 0
    BY NewGenerationType DEF Unused
  <2> QED BY <1>2, <1>3, <2>1 DEF GensOK
<1>5. ~gen[g].retired
  BY <1>2, <1>3 DEF GensOK
<1> QED BY <1>1, <1>2, <1>3, <1>4, <1>5

LEMMA ReleaseInv == ASSUME LogInv, NEW g \in Gens, Release(g) PROVE LogInv'
<1> DEFINE N == gen[g]
           k == N.refCount - 1
           R == [N EXCEPT !.refCount = k]
           T == [gen EXCEPT ![g] = R]
<1>1. /\ FileOK /\ ObjectInv(fringe, logs, ngens, gen, op) /\ g <= ngens /\ ~N.retired
      /\ gen \in [Gens -> Generation] /\ op \in [Ops -> Operation] /\ N \in Generation
      /\ N.refCount \in Nat /\ N.refCount > 0 /\ UNCHANGED <<file, fringe, torn, logs, ngens>>
  BY OwnedFacts DEF Release
<1>2. k \in Nat
  BY <1>1
<1> HIDE DEF k
<1>3. /\ R \in Generation /\ R.refCount = k
      /\ R.flushPromise = N.flushPromise /\ R.storageFailure = N.storageFailure
      /\ R.cutoverEpoch = N.cutoverEpoch /\ R.retired = N.retired /\ R.ready = N.ready
      /\ R.retirement = N.retirement /\ R.settled = N.settled /\ R.pending = N.pending
  <2> HIDE DEF N
  <2> QED BY <1>1, <1>2 DEF Generation
<1>4. Len(N.pending) \in Nat
  BY <1>1, GenTypes
<1> HIDE DEF R
<1>5. T \in [Gens -> Generation] /\ T[g] = R /\ \A h \in Gens : h # g => T[h] = gen[h]
  BY <1>1, <1>3
<1>6. ObjectInv(fringe, logs, ngens, T, op)
  <2>1. Len(N.pending) <= Len(R.pending) /\ ~R.retired
    BY <1>1, <1>3, <1>4
  <2>2. T = [gen EXCEPT ![g] = R]
    OBVIOUS
  <2> HIDE DEF T
  <2> QED BY <1>1, <1>3, <2>1, <2>2, TouchOneInv
<1>7. CASE gen[g].refCount > 1
  <2>1. gen' = T /\ UNCHANGED op
    BY <1>1, <1>7 DEF Release, R, k
  <2> QED BY <1>1, <1>6, <2>1, LogInvNext DEF FileOK
<1>8. CASE ~(gen[g].refCount > 1)
  <2>1. PICK o \in Ops \cup {None} :
          FlushState([gen EXCEPT ![g].refCount = @ - 1, ![g].retired = TRUE,
                                 ![g].retirement = o], g, o)
    BY <1>8 DEF Release, Retire
  <2> DEFINE W == [N EXCEPT !.refCount = k, !.retired = TRUE, !.retirement = o]
             Z == [gen EXCEPT ![g] = W]
  <2>2. FlushState(Z, g, o)
    <3>1. Z = [gen EXCEPT ![g].refCount = @ - 1, ![g].retired = TRUE, ![g].retirement = o]
      BY <1>1 DEF k
    <3> QED BY <2>1, <3>1
  <2>3. k = 0
    BY <1>1, <1>8 DEF k
  <2>4. /\ W \in Generation /\ W.refCount = k /\ W.retired /\ W.retirement = o
        /\ W.flushPromise = N.flushPromise /\ W.storageFailure = N.storageFailure
        /\ W.cutoverEpoch = N.cutoverEpoch /\ W.ready = N.ready
        /\ W.settled = N.settled /\ W.pending = N.pending
    <3> HIDE DEF N
    <3> QED BY <1>1, <1>2 DEF Generation
  <2> HIDE DEF W
  <2>5. Z \in [Gens -> Generation] /\ Z[g] = W /\ \A h \in Gens : h # g => Z[h] = gen[h]
    BY <1>1, <2>4
  <2>6. /\ ~T[g].retired /\ T[g].refCount = 0 /\ T[g].flushPromise = N.flushPromise
        /\ T[g].storageFailure = N.storageFailure /\ T[g].cutoverEpoch = N.cutoverEpoch
        /\ T[g].ready = N.ready /\ T[g].settled = N.settled /\ T[g].pending = N.pending
    BY <1>1, <1>3, <1>5, <2>3
  <2>7. CASE /\ gen' = Z /\ UNCHANGED op /\ o = N.flushPromise
             /\ N.flushPromise = None => N.storageFailure
    <3>1. Retires(T, Z, g)
      <4> HIDE DEF T, Z
      <4> QED BY <1>3, <1>5, <2>4, <2>5, <2>6, <2>7 DEF Retires
    <3> HIDE DEF T, Z, N
    <3>2. ObjectInv(fringe, logs, ngens, Z, op)
      BY <1>1, <1>6, <2>5, <2>6, <2>7, <3>1, RetireInv
    <3> QED BY <1>1, <2>7, <3>2, LogInvNext DEF FileOK
  <2>8. CASE /\ N.flushPromise = None /\ ~N.storageFailure /\ o \in Ops /\ Fresh(o)
             /\ op' = [op EXCEPT ![o] = Drain(Z, g)]
             /\ gen' = [Z EXCEPT ![g].flushPromise = o]
    <3> DEFINE U == [T EXCEPT ![g].flushPromise = o]
               V == [Z EXCEPT ![g].flushPromise = o]
               Q == [op EXCEPT ![o] = Drain(T, g)]
    <3>1. op' = Q
      BY <2>4, <2>5, <2>6, <2>8 DEF Drain
    <3>2. Spare(T, op, o)
      <4>1. \A h \in Gens : /\ T[h].retired = gen[h].retired /\ T[h].settled = gen[h].settled
                            /\ T[h].retirement = gen[h].retirement
        BY <1>3, <1>5
      <4> QED BY <2>8, <4>1, StaysSpare
    <3> HIDE DEF T, Z
    <3>3. ObjectInv(fringe, logs, ngens, U, Q)
      BY <1>1, <1>6, <2>6, <2>8, <3>2, DrainInv
    <3>4. /\ U[g].flushPromise = o /\ U[g].storageFailure = T[g].storageFailure
          /\ U[g].cutoverEpoch = T[g].cutoverEpoch /\ U[g].refCount = T[g].refCount
          /\ U[g].ready = T[g].ready /\ U[g].settled = T[g].settled
          /\ U[g].pending = T[g].pending /\ U[g].retired = T[g].retired
          /\ \A h \in Gens : h # g => U[h] = T[h]
      BY <1>5, <2>8 DEF Generation
    <3>5. /\ V[g].flushPromise = o /\ V[g].storageFailure = Z[g].storageFailure
          /\ V[g].cutoverEpoch = Z[g].cutoverEpoch /\ V[g].refCount = Z[g].refCount
          /\ V[g].ready = Z[g].ready /\ V[g].settled = Z[g].settled
          /\ V[g].pending = Z[g].pending /\ V[g].retired = Z[g].retired
          /\ V[g].retirement = Z[g].retirement
          /\ \A h \in Gens : h # g => V[h] = Z[h]
      BY <2>5, <2>8 DEF Generation
    <3>6. V \in [Gens -> Generation]
      BY <2>5, <2>8 DEF Generation
    <3> HIDE DEF U, V, Q
    <3>7. Retires(U, V, g)
      BY <1>3, <1>5, <2>4, <2>5, <2>6, <3>4, <3>5 DEF Retires
    <3>8. ~U[g].retired /\ U[g].refCount = 0 /\ U[g].flushPromise # None
      BY <2>6, <2>8, <3>4, ConstTypes
    <3>9. ObjectInv(fringe, logs, ngens, V, Q)
      BY <1>1, <3>3, <3>6, <3>7, <3>8, RetireInv
    <3>10. gen' = V
      BY <2>8 DEF V
    <3> QED BY <1>1, <3>1, <3>9, <3>10, LogInvNext DEF FileOK
  <2>9. Z[g].flushPromise = N.flushPromise /\ Z[g].storageFailure = N.storageFailure
    BY <2>4, <2>5
  <2> HIDE DEF Z, N
  <2> QED BY <2>2, <2>7, <2>8, <2>9 DEF FlushState
<1> QED BY <1>7, <1>8

-----------------------------------------------------------------------------
(* The invariant, and what it gives *)

LEMMA NextInv == ASSUME LogInv, [Next]_vars PROVE LogInv'
<1>1. CASE UNCHANGED vars
  <2>1. FileOK /\ ObjectInv(fringe, logs, ngens, gen, op)
    BY LogInvParts
  <2> QED BY <1>1, <2>1, LogInvNext DEF vars, FileOK
<1>2. CASE Calls
  BY <1>2, AppendRecordInv, FlushInv, ReadInv, RewriteInv, AcquireInv, ReleaseInv DEF Calls
<1>3. CASE \E o \in Ops : Continue(o)
  BY <1>3, DrainReadyInv, AppendSucceedsInv, RewriteStartsInv, WriteSucceedsInv,
     FinishOwnedFlushInv DEF Continue
<1>4. CASE \E o \in Ops : StorageLands(o) \/ StorageFails(o)
  BY <1>4, AppendLandsInv, WriteLandsInv, AppendFailsInv, WriteFailsInv
  DEF StorageLands, StorageFails
<1>5. CASE \E g \in Gens : ScheduledFlush(g) \/ RetirementSettles(g)
  BY <1>5, ScheduledFlushInv, RetirementSettlesInv
<1>6. CASE Crash
  BY <1>6, CrashInv
<1> QED BY <1>1, <1>2, <1>3, <1>4, <1>5, <1>6 DEF Next

LEMMA LogInvariant == Spec => []LogInv
BY InitInv, NextInv, PTL DEF Spec

\* The objects of the store have their types.
THEOREM LogTypes == Spec => []TypeOK
<1>1. LogInv => TypeOK
  BY DEF LogInv
<1> QED BY <1>1, LogInvariant, PTL

\* Of all the drains and rewrites of all the generations of a log at most one is at the
\* storage.
THEOREM StorageIsExclusive == Spec => []OneAtStorage
<1>1. LogInv => OneAtStorage
  BY StorageFacts DEF LogInv, OneAtStorage
<1> QED BY <1>1, LogInvariant, PTL

\* An append starts only when no record of its batch is in the file.
THEOREM NoDuplicateAppend == Spec => []NothingWrittenTwice
<1>1. LogInv => NothingWrittenTwice
  BY DEF LogInv, ObjectInv, WorkOK, NothingWrittenTwice
<1> QED BY <1>1, LogInvariant, PTL

\* A generation that is given up with records in it has failed.
THEOREM RetiresDurable == Spec => NothingDroppedQuietly
<1>1. ASSUME LogInv
      PROVE  \A g \in Gens : RetirementSettles(g) /\ gen[g].pending # <<>> => gen[g].storageFailure
  <2> SUFFICES ASSUME NEW g \in Gens, RetirementSettles(g), gen[g].pending # <<>>
               PROVE  gen[g].storageFailure
    OBVIOUS
  <2>1. gen[g].retired /\ (gen[g].retirement # None => SettledIn(op, gen[g].retirement))
    BY DEF RetirementSettles, Settled, SettledIn
  <2>2. Finished(gen, op, g)
    BY <1>1, <2>1, RetirementFacts DEF LogInv
  <2> QED BY <2>2 DEF Finished
<1>2. LogInv => [\A g \in Gens : RetirementSettles(g) /\ gen[g].pending # <<>> =>
                                   gen[g].storageFailure]_vars
  BY <1>1
<1> QED BY <1>2, LogInvariant, PTL DEF NothingDroppedQuietly

\* A flush is fulfilled by finishOwnedFlush alone.
LEMMA OnlyFinishResolves ==
  ASSUME LogInv, Next, NEW o \in Ops, op[o].pc = "done", op'[o].pc = "resolved"
  PROVE  FinishOwnedFlush(o)
<1>0. op \in [Ops -> Operation] /\ op'[o] # op[o]
  BY DEF LogInv, TypeOK
<1>1. \A G, g, p : FlushState(G, g, p) =>
        UNCHANGED op \/ (p \in Ops /\ Fresh(p) /\ op' = [op EXCEPT ![p] = Drain(G, g)])
  BY DEF FlushState
<1>2. \A G, g, p : ~FlushState(G, g, p)
  <2> SUFFICES ASSUME NEW G, NEW g, NEW p, p \in Ops, Fresh(p),
                      op' = [op EXCEPT ![p] = Drain(G, g)]
               PROVE  FALSE
    BY <1>0, <1>1
  <2>1. o # p
    BY DEF Fresh, Idle
  <2> QED BY <1>0, <2>1
<1>3. ~Calls
  <2>1. ~\E r \in Records : AppendRecord(r)
    BY <1>0 DEF AppendRecord
  <2>2. ~Flush /\ ~Read /\ ~Acquire
    BY <1>0, <1>2 DEF Flush, Read, Acquire
  <2>3. ~\E snapshot \in Snapshots : Rewrite(snapshot)
    <3> SUFFICES ASSUME NEW snapshot \in Snapshots, Rewrite(snapshot) PROVE FALSE
      OBVIOUS
    <3>1. PICK p \in Ops : Fresh(p) /\ \E R : op' = [op EXCEPT ![p] = R]
      BY DEF Rewrite
    <3>2. o # p
      BY <3>1 DEF Fresh, Idle
    <3> QED BY <1>0, <3>1, <3>2
  <2>4. ~\E g \in Gens : Release(g)
    BY <1>0, <1>2 DEF Release, Retire
  <2> QED BY <2>1, <2>2, <2>3, <2>4 DEF Calls
<1>4. ~\E g \in Gens : ScheduledFlush(g) \/ RetirementSettles(g)
  BY <1>0, <1>2 DEF ScheduledFlush, RetirementSettles
<1>5. ~Crash
  <2>1. NoOperations[o].pc # "resolved"
    BY DEF NoOperations, NoOperation
  <2> QED BY <2>1 DEF Crash
<1>6. PICK p \in Ops : Continue(p) \/ StorageLands(p) \/ StorageFails(p)
  BY <1>3, <1>4, <1>5 DEF Next
<1>7. p = o
  <2> SUFFICES ASSUME p # o PROVE FALSE
    OBVIOUS
  <2>1. op'[o] = op[o]
    BY <1>0, <1>6 DEF Continue, DrainReady, AppendSucceeds, RewriteStarts, WriteSucceeds,
       FinishOwnedFlush, StorageLands, AppendLands, WriteLands, StorageFails, AppendFails, WriteFails
  <2> QED BY <1>0, <2>1
<1> QED BY <1>6, <1>7 DEF Continue, DrainReady, AppendSucceeds, RewriteStarts, WriteSucceeds,
       StorageLands, AppendLands, WriteLands, StorageFails, AppendFails, WriteFails

\* A flush that fulfils leaves nothing queued, unless a rewrite has taken it over and is
\* still pending.
THEOREM FlushIsDurable == Spec => FlushMeansDurable
<1> DEFINE D == \A o \in Ops :
                  op[o].pc = "done" /\ op'[o].pc = "resolved" =>
                    \/ gen[op[o].gen].pending = <<>>
                    \/ gen'[op[o].gen].flushPromise # None
<1>1. ASSUME LogInv, Next PROVE D
  <2> SUFFICES ASSUME NEW o \in Ops, op[o].pc = "done", op'[o].pc = "resolved",
                      gen[op[o].gen].pending # <<>>
               PROVE  gen'[op[o].gen].flushPromise # None
    OBVIOUS
  <2>1. FinishOwnedFlush(o)
    BY <1>1, OnlyFinishResolves
  <2>2. Live(op, o) /\ op \in [Ops -> Operation] /\ op[o] \in Operation
    BY <1>1 DEF Live, Idle, LogInv, TypeOK
  <2>3. /\ gen \in [Gens -> Generation] /\ op[o].gen \in Gens
        /\ gen[op[o].gen].flushPromise # None
    BY <1>1, <2>2 DEF LogInv, TypeOK, ObjectInv, EpochsOK
  <2>4. ~DrainsAgain(o)
    <3> SUFFICES ASSUME DrainsAgain(o) PROVE FALSE
      OBVIOUS
    <3>1. op'[o] = Drain(gen, op[o].gen)
      BY <2>1, <2>2 DEF FinishOwnedFlush
    <3>2. op'[o].pc = "ready"
      BY <2>3, <3>1, DrainFields
    <3> QED BY <3>2
  <2>5. ~op[o].failed
    <3> SUFFICES ASSUME op[o].failed PROVE FALSE
      OBVIOUS
    <3> DEFINE M == NoOperation
               R == [M EXCEPT !.pc = "rejected"]
    <3>1. op'[o] = R /\ M \in Operation
      BY <2>1, <2>2, <2>4, NoOperationType DEF FinishOwnedFlush
    <3> HIDE DEF M
    <3>2. R.pc = "rejected"
      BY <3>1 DEF Operation
    <3> QED BY <3>1, <3>2
  <2>6. ~Owner(o) /\ gen' = gen
    BY <2>1, <2>4, <2>5 DEF DrainsAgain, FinishOwnedFlush
  <2> QED BY <2>3, <2>6
<1>2. LogInv /\ [Next]_vars => [D]_vars
  BY <1>1
<1> QED BY <1>2, LogInvariant, PTL DEF Spec, FlushMeansDurable

-----------------------------------------------------------------------------
(* The store implements the contract where writes do not tear *)

\* The unacknowledged lines are the first records of the generation at work.
PrefixOK ==
  /\ ~torn
  /\ \A g \in Gens : AtWork(ngens, gen, g) =>
       Len(fringe) <= Len(gen[g].pending) /\ fringe = SubSeq(gen[g].pending, 1, Len(fringe))
  /\ \A o \in Ops : op[o].pc = "appended" => Len(fringe) = op[o].batch

\* A rewrite of generation g has been called and has not replaced the file.
Cut(P, g) == \E o \in Ops : P[o].gen = g /\ P[o].pc \in {"prior", "write"}

\* What the contract sees of the generations and the operations.
Tails == [g \in Gens |-> gen[g].pending]
Cuts == [g \in Gens |-> Cut(op, g)]

\* Batches in the file in Q are in the file in P, and so are cutovers.
SameView(P, Q) ==
  /\ \A o \in Ops : Q[o].pc = "appended" => P[o].pc = "appended" /\ Q[o].batch = P[o].batch
  /\ \A g \in Gens : Cut(Q, g) <=> Cut(P, g)

LEMMA OneOpView ==
  ASSUME NEW P \in [Ops -> Operation], NEW o \in Ops, NEW R, NEW Q, Q = [P EXCEPT ![o] = R],
         R.pc # "appended",
         \/ P[o].pc \notin {"prior", "write"} /\ R.pc \notin {"prior", "write"}
         \/ P[o].pc \in {"prior", "write"} /\ R.pc \in {"prior", "write"} /\ R.gen = P[o].gen
  PROVE  SameView(P, Q)
<1>1. Q[o] = R /\ \A p \in Ops : p # o => Q[p] = P[p]
  OBVIOUS
<1>2. \A g \in Gens : Cut(Q, g) <=> Cut(P, g)
  <2> SUFFICES ASSUME NEW g \in Gens PROVE Cut(Q, g) <=> Cut(P, g)
    OBVIOUS
  <2>1. ASSUME NEW p \in Ops
        PROVE  Q[p].gen = g /\ Q[p].pc \in {"prior", "write"}
                 <=> P[p].gen = g /\ P[p].pc \in {"prior", "write"}
    BY <1>1
  <2> QED BY <2>1 DEF Cut
<1>3. \A p \in Ops : Q[p].pc = "appended" => P[p].pc = "appended" /\ Q[p].batch = P[p].batch
  BY <1>1
<1> QED BY <1>2, <1>3 DEF SameView

LEMMA FlushStateView ==
  ASSUME LogInv, NEW G \in [Gens -> Generation], NEW g \in Gens, NEW o \in Ops \cup {None},
         FlushState(G, g, o)
  PROVE  /\ \A h \in Gens : gen'[h].pending = G[h].pending /\ gen'[h].settled = G[h].settled
         /\ SameView(op, op')
<1>1. CASE gen' = G /\ UNCHANGED op
  BY <1>1 DEF SameView
<1>2. CASE /\ o \in Ops /\ Fresh(o) /\ op' = [op EXCEPT ![o] = Drain(G, g)]
           /\ gen' = [G EXCEPT ![g].flushPromise = o]
  <2>1. Drain(G, g).pc = "ready" /\ op \in [Ops -> Operation] /\ op[o].pc \notin {"prior", "write"}
    BY <1>2, DrainFields DEF LogInv, TypeOK, Fresh, Idle
  <2>2. SameView(op, op')
    <3> DEFINE R == Drain(G, g)
               Q == op'
    <3>1. Q = [op EXCEPT ![o] = R] /\ R.pc = "ready"
      BY <1>2, <2>1
    <3> HIDE DEF R, Q
    <3>2. SameView(op, Q)
      BY <1>2, <2>1, <3>1, OneOpView
    <3> QED BY <3>2 DEF Q
  <2>3. \A h \in Gens : gen'[h].pending = G[h].pending /\ gen'[h].settled = G[h].settled
    BY <1>2 DEF Generation
  <2> QED BY <2>2, <2>3
<1> QED BY <1>1, <1>2 DEF FlushState

\* A step that writes nothing and settles nothing.
LEMMA PrefixKept ==
  ASSUME LogInv, PrefixOK, UNCHANGED <<fringe, torn>>, ngens' = ngens \/ ngens' = ngens + 1,
         \A g \in Gens :
           /\ gen'[g].settled = gen[g].settled
           /\ \/ gen'[g].pending = gen[g].pending
              \/ \E r \in Records : gen'[g].pending = Append(gen[g].pending, r),
         \A o \in Ops :
           op'[o].pc = "appended" => op[o].pc = "appended" /\ op'[o].batch = op[o].batch
  PROVE  PrefixOK'
<1>1. /\ FringeOK(fringe, ngens, gen, op) /\ gen \in [Gens -> Generation] /\ ngens \in Nat
      /\ fringe \in Seq(Lines)
  BY DEF LogInv, TypeOK, ObjectInv
<1>2. \A g : Turn(gen', g) <=> Turn(gen, g)
  BY DEF Turn
<1>3. ASSUME NEW g \in Gens, AtWork(ngens', gen', g)
      PROVE  AtWork(ngens, gen, g) \/ fringe = <<>>
  <2>1. g \in Nat /\ Turn(gen, g) /\ ~gen[g].settled
    BY <1>2, <1>3, ConstTypes DEF AtWork
  <2>2. CASE g <= ngens
    BY <2>1, <2>2 DEF AtWork
  <2>3. CASE ~(g <= ngens)
    <3>1. \A h \in Gens : h <= ngens => h < g
      BY <1>1, <2>1, <2>3, ConstTypes
    <3>2. \A h \in Gens : ~AtWork(ngens, gen, h)
      BY <2>1, <3>1 DEF AtWork, Turn
    <3> QED BY <1>1, <3>2 DEF FringeOK
  <2> QED BY <2>2, <2>3
<1>4. ASSUME NEW g \in Gens, AtWork(ngens', gen', g)
      PROVE  Len(fringe) <= Len(gen'[g].pending) /\ fringe = SubSeq(gen'[g].pending, 1, Len(fringe))
  <2> DEFINE q == gen[g].pending
             s == gen'[g].pending
  <2>1. q \in Seq(Records) /\ (s = q \/ \E r \in Records : s = Append(q, r))
    BY <1>1, GenTypes
  <2> HIDE DEF q, s
  <2>2. s \in Seq(Records) /\ Len(q) <= Len(s) /\ \A i \in 1..Len(q) : s[i] = q[i]
    BY <2>1, AppendProperties
  <2>3. CASE fringe = <<>>
    <3>1. Len(fringe) = 0 /\ SubSeq(s, 1, 0) = <<>>
      BY <2>3, SubSeqEmpty
    <3> QED BY <2>2, <2>3, <3>1 DEF s
  <2>4. CASE AtWork(ngens, gen, g)
    <3> DEFINE n == Len(fringe)
    <3>1. n \in Nat /\ n <= Len(q) /\ fringe = SubSeq(q, 1, n)
      BY <1>1, <2>4 DEF PrefixOK, q
    <3> HIDE DEF n
    <3>2. SubSeq(s, 1, n) = SubSeq(q, 1, n) /\ n <= Len(s)
      BY <2>1, <2>2, <3>1
    <3> QED BY <3>1, <3>2 DEF n, s
  <2> QED BY <1>3, <1>4, <2>3, <2>4
<1>5. \A o \in Ops : op'[o].pc = "appended" => Len(fringe) = op'[o].batch
  BY DEF PrefixOK
<1> QED BY <1>4, <1>5 DEF PrefixOK

\* A step that leaves no line unacknowledged.
LEMMA PrefixCleared ==
  ASSUME LogInv', fringe' = <<>>, ~torn', \A o \in Ops : op'[o].pc # "appended"
  PROVE  PrefixOK'
<1>1. gen' \in [Gens -> Generation]
  BY DEF LogInv, TypeOK
<1>2. ASSUME NEW g \in Gens
      PROVE  Len(fringe') <= Len(gen'[g].pending) /\ fringe' = SubSeq(gen'[g].pending, 1, Len(fringe'))
  <2> DEFINE s == gen'[g].pending
  <2>1. Len(s) \in Nat
    BY <1>1, GenTypes
  <2> HIDE DEF s
  <2>2. Len(fringe') = 0 /\ SubSeq(s, 1, 0) = <<>>
    BY SubSeqEmpty
  <2> QED BY <2>1, <2>2 DEF s
<1> QED BY <1>2 DEF PrefixOK

\* The contract sees nothing of a step that leaves the acknowledged lines, the queues and
\* the cutovers alone.
LEMMA Stutters ==
  ASSUME UNCHANGED file, \A g \in Gens : gen'[g].pending = gen[g].pending,
         \A g \in Gens : Cut(op', g) <=> Cut(op, g)
  PROVE  UNCHANGED Contract!contractVars
<1>1. Tails' = Tails
  BY DEF Tails
<1>2. Cuts' = Cuts
  BY DEF Cuts, Cut
<1> QED BY <1>1, <1>2 DEF Contract!contractVars, Tails, Cuts, Cut

\* A generation whose turn it is has only empty queues before it.
LEMMA TurnIsOldest ==
  ASSUME LogInv, NEW g \in Gens, Turn(gen, g)
  PROVE  Contract!IsOldest(g)
<1>1. \A h \in Gens : h < g => gen[h].pending = <<>>
  BY DEF LogInv, ObjectInv, GensOK, Turn
<1>2. \A h \in Gens : h < g => Tails[h] = <<>>
  BY <1>1 DEF Tails
<1> QED BY <1>2 DEF Contract!IsOldest, Tails

\* The lines of the generation at work are what the contract moves.
LEMMA FringeMoves ==
  ASSUME LogInv, PrefixOK, NEW g \in Gens, AtWork(ngens, gen, g)
  PROVE  /\ Len(fringe) \in 0..Len(Tails[g])
         /\ file \o fringe = Contract!Moved(g, Len(fringe))
<1>1. /\ Len(fringe) \in Nat /\ Len(gen[g].pending) \in Nat
      /\ Len(fringe) <= Len(gen[g].pending) /\ fringe = SubSeq(gen[g].pending, 1, Len(fringe))
  BY GenTypes DEF LogInv, TypeOK, PrefixOK
<1>2. Tails[g] = gen[g].pending
  BY DEF Tails
<1>3. fringe = SubSeq(Tails[g], 1, Len(fringe)) /\ Len(fringe) \in 0..Len(Tails[g])
  BY <1>1, <1>2
<1> QED BY <1>3 DEF Contract!Moved, Tails

Steps == [Contract!Next]_(Contract!contractVars)

LEMMA StutterSteps ==
  ASSUME UNCHANGED file, \A g \in Gens : gen'[g].pending = gen[g].pending, SameView(op, op')
  PROVE  Steps
BY Stutters DEF Steps, SameView

LEMMA CrashRefines == ASSUME LogInv, PrefixOK, Crash PROVE PrefixOK' /\ Steps
<1>1. PrefixOK'
  <2>1. \A o \in Ops : NoOperations[o].pc # "appended"
    BY DEF NoOperations, NoOperation
  <2>2. LogInv' /\ fringe' = <<>> /\ ~torn' /\ \A o \in Ops : op'[o].pc # "appended"
    BY <2>1, CrashInv DEF Crash, PrefixOK
  <2> QED BY <2>2, PrefixCleared
<1>2. Tails' = [g \in Gens |-> <<>>]
  BY DEF Crash, Tails, NoGenerations, NewGeneration
<1>3. Cuts' = [g \in Gens |-> FALSE]
  <2>1. \A g \in Gens : ~Cut(op', g)
    BY DEF Crash, Cut, NoOperations, NoOperation
  <2> QED BY <2>1 DEF Cuts, Cut
<1>4. CASE fringe = <<>>
  <2>1. file' = file
    BY <1>4, ConcatEmptySeq DEF Crash, LogInv, TypeOK
  <2> QED BY <1>1, <1>2, <1>3, <2>1 DEF Steps, Contract!Next, Contract!Crash, Tails, Cuts, Cut
<1>5. CASE fringe # <<>>
  <2>1. PICK g \in Gens : AtWork(ngens, gen, g)
    BY <1>5 DEF LogInv, ObjectInv, FringeOK
  <2>2. Contract!IsOldest(g) /\ Len(fringe) \in 0..Len(Tails[g])
        /\ file' = Contract!Moved(g, Len(fringe))
    BY <2>1, TurnIsOldest, FringeMoves DEF AtWork, Crash
  <2>3. Contract!Crash
    BY <1>2, <1>3, <2>2 DEF Contract!Crash, Tails, Cuts, Cut
  <2> QED BY <1>1, <2>3 DEF Steps, Contract!Next
<1> QED BY <1>4, <1>5

LEMMA OpenStateView ==
  ASSUME LogInv, OpenState
  PROVE  /\ Opened \in [Gens -> Generation] /\ State \in Gens
         /\ ngens' = ngens \/ ngens' = ngens + 1
         /\ \A g \in Gens : /\ Opened[g].pending = gen[g].pending
                            /\ Opened[g].settled = gen[g].settled
<1>1. ngens' = ngens \/ ngens' = ngens + 1
  BY DEF OpenState, State
<1> QED BY <1>1, OpenStateInv DEF ObjectInv, Objects

\* The calls and the continuations the contract does not see.
LEMMA QuietRefines ==
  ASSUME LogInv, PrefixOK, UNCHANGED <<file, fringe, torn>>,
         ngens' = ngens \/ ngens' = ngens + 1,
         \A g \in Gens : gen'[g].pending = gen[g].pending /\ gen'[g].settled = gen[g].settled,
         SameView(op, op')
  PROVE  PrefixOK' /\ Steps
BY PrefixKept, StutterSteps DEF SameView

LEMMA FlushRefines == ASSUME LogInv, PrefixOK, Flush PROVE PrefixOK' /\ Steps
<1>1. PICK o \in Ops \cup {None} : FlushState(gen, logs, o)
  BY DEF Flush
<1>2. gen \in [Gens -> Generation] /\ logs \in Gens
  BY DEF Flush, LogInv, TypeOK
<1>3. /\ \A g \in Gens : gen'[g].pending = gen[g].pending /\ gen'[g].settled = gen[g].settled
      /\ SameView(op, op')
  BY <1>1, <1>2, FlushStateView
<1>4. UNCHANGED <<file, fringe, torn>> /\ ngens' = ngens
  BY DEF Flush
<1> QED BY <1>3, <1>4, QuietRefines

LEMMA ReadRefines == ASSUME LogInv, PrefixOK, Read PROVE PrefixOK' /\ Steps
<1>1. PICK o \in Ops \cup {None} : FlushState(Opened, State, o)
  BY DEF Read
<1>2. UNCHANGED <<file, fringe, torn>> /\ OpenState
  BY DEF Read
<1>3. /\ Opened \in [Gens -> Generation] /\ State \in Gens /\ (ngens' = ngens \/ ngens' = ngens + 1)
      /\ \A g \in Gens : Opened[g].pending = gen[g].pending /\ Opened[g].settled = gen[g].settled
  BY <1>2, OpenStateView
<1>4. /\ \A g \in Gens : gen'[g].pending = gen[g].pending /\ gen'[g].settled = gen[g].settled
      /\ SameView(op, op')
  BY <1>1, <1>3, FlushStateView
<1> QED BY <1>2, <1>3, <1>4, QuietRefines

LEMMA AcquireRefines == ASSUME LogInv, PrefixOK, Acquire PROVE PrefixOK' /\ Steps
<1>1. /\ UNCHANGED <<file, fringe, torn, op>> /\ OpenState
      /\ gen' = [Opened EXCEPT ![State].refCount = @ + 1]
  BY DEF Acquire
<1>2. /\ Opened \in [Gens -> Generation] /\ State \in Gens /\ (ngens' = ngens \/ ngens' = ngens + 1)
      /\ \A g \in Gens : Opened[g].pending = gen[g].pending /\ Opened[g].settled = gen[g].settled
  BY <1>1, OpenStateView
<1>3. \A g \in Gens : gen'[g].pending = Opened[g].pending /\ gen'[g].settled = Opened[g].settled
  BY <1>1, <1>2 DEF Generation
<1>4. SameView(op, op')
  BY <1>1 DEF SameView
<1> QED BY <1>1, <1>2, <1>3, <1>4, QuietRefines

LEMMA ScheduledFlushRefines ==
  ASSUME LogInv, PrefixOK, NEW g \in Gens, ScheduledFlush(g) PROVE PrefixOK' /\ Steps
<1> DEFINE H == [gen EXCEPT ![g].flushScheduled = FALSE]
<1>1. PICK o \in Ops \cup {None} : FlushState(H, g, o)
  BY DEF ScheduledFlush
<1>2. /\ H \in [Gens -> Generation]
      /\ \A h \in Gens : H[h].pending = gen[h].pending /\ H[h].settled = gen[h].settled
  BY DEF LogInv, TypeOK, Generation
<1> HIDE DEF H
<1>3. /\ \A h \in Gens : gen'[h].pending = gen[h].pending /\ gen'[h].settled = gen[h].settled
      /\ SameView(op, op')
  BY <1>1, <1>2, FlushStateView
<1>4. UNCHANGED <<file, fringe, torn>> /\ ngens' = ngens
  BY DEF ScheduledFlush
<1> QED BY <1>3, <1>4, QuietRefines

LEMMA ReleaseRefines ==
  ASSUME LogInv, PrefixOK, NEW g \in Gens, Release(g) PROVE PrefixOK' /\ Steps
<1>1. UNCHANGED <<file, fringe, torn>> /\ ngens' = ngens
  BY DEF Release
<1>2. /\ gen \in [Gens -> Generation] /\ gen[g] \in Generation
      /\ gen[g].refCount \in Nat /\ gen[g].refCount > 0
  BY OwnedFacts DEF Release
<1>3. CASE gen[g].refCount > 1
  <2>1. gen' = [gen EXCEPT ![g].refCount = @ - 1] /\ UNCHANGED op
    BY <1>3 DEF Release
  <2>2. \A h \in Gens : gen'[h].pending = gen[h].pending /\ gen'[h].settled = gen[h].settled
    BY <1>2, <2>1 DEF Generation
  <2>3. SameView(op, op')
    BY <2>1 DEF SameView
  <2> QED BY <1>1, <2>2, <2>3, QuietRefines
<1>4. CASE ~(gen[g].refCount > 1)
  <2>1. PICK o \in Ops \cup {None} :
          FlushState([gen EXCEPT ![g].refCount = @ - 1, ![g].retired = TRUE,
                                 ![g].retirement = o], g, o)
    BY <1>4 DEF Release, Retire
  <2> DEFINE k == gen[g].refCount - 1
             W == [gen[g] EXCEPT !.refCount = k, !.retired = TRUE, !.retirement = o]
             Z == [gen EXCEPT ![g] = W]
  <2>2. FlushState(Z, g, o)
    <3>1. Z = [gen EXCEPT ![g].refCount = @ - 1, ![g].retired = TRUE, ![g].retirement = o]
      BY <1>2
    <3> QED BY <2>1, <3>1
  <2>3. k \in Nat
    BY <1>2
  <2> HIDE DEF k
  <2>4. W \in Generation /\ W.pending = gen[g].pending /\ W.settled = gen[g].settled
    BY <1>2, <2>3 DEF Generation
  <2> HIDE DEF W
  <2>5. /\ Z \in [Gens -> Generation]
        /\ \A h \in Gens : Z[h].pending = gen[h].pending /\ Z[h].settled = gen[h].settled
    BY <1>2, <2>4
  <2> HIDE DEF Z
  <2>6. /\ \A h \in Gens : gen'[h].pending = gen[h].pending /\ gen'[h].settled = gen[h].settled
        /\ SameView(op, op')
    BY <2>2, <2>5, FlushStateView
  <2> QED BY <1>1, <2>6, QuietRefines
<1> QED BY <1>3, <1>4

LEMMA AppendRecordRefines ==
  ASSUME LogInv, PrefixOK, NEW r \in Records, AppendRecord(r) PROVE PrefixOK' /\ Steps
<1> DEFINE s == State
<1>1. /\ UNCHANGED <<file, fringe, torn, op>> /\ OpenState
      /\ gen' = [Opened EXCEPT ![s].pending = Append(@, r),
                               ![s].flushScheduled = @ \/ Opened[s].flushPromise = None]
  BY DEF AppendRecord
<1>2. /\ Opened \in [Gens -> Generation] /\ s \in Gens /\ (ngens' = ngens \/ ngens' = ngens + 1)
      /\ \A g \in Gens : Opened[g].pending = gen[g].pending /\ Opened[g].settled = gen[g].settled
  BY <1>1, OpenStateView
<1> HIDE DEF s
<1>3. /\ \A g \in Gens : gen'[g].settled = gen[g].settled
      /\ \A g \in Gens : g # s => gen'[g].pending = gen[g].pending
      /\ gen'[s].pending = Append(gen[s].pending, r)
  BY <1>1, <1>2 DEF Generation
<1>4. SameView(op, op')
  BY <1>1 DEF SameView
<1>5. PrefixOK'
  BY <1>1, <1>2, <1>3, <1>4, PrefixKept DEF SameView
<1>6. Tails' = [Tails EXCEPT ![s] = Append(@, r)]
  BY <1>2, <1>3 DEF Tails
<1>7. Contract!Accept(s, r)
  BY <1>1, <1>6 DEF Contract!Accept, Tails
<1> QED BY <1>2, <1>5, <1>7 DEF Steps, Contract!Next

LEMMA RewriteRefines ==
  ASSUME LogInv, PrefixOK, NEW snapshot \in Snapshots, Rewrite(snapshot) PROVE PrefixOK' /\ Steps
<1> DEFINE s == State
           M == NoOperation
<1>1. UNCHANGED <<file, fringe, torn>> /\ OpenState
  BY DEF Rewrite
<1>2. PICK o \in Ops :
        /\ Fresh(o)
        /\ op' = [op EXCEPT ![o] =
             [M EXCEPT !.pc = "prior", !.gen = s, !.epoch = Opened[s].cutoverEpoch + 1,
                       !.prior = Opened[s].flushPromise, !.snapshot = snapshot]]
        /\ gen' = [Opened EXCEPT ![s].cutoverEpoch = @ + 1, ![s].flushPromise = o]
  BY DEF Rewrite
<1> DEFINE R == [M EXCEPT !.pc = "prior", !.gen = s, !.epoch = Opened[s].cutoverEpoch + 1,
                          !.prior = Opened[s].flushPromise, !.snapshot = snapshot]
<1>3. /\ Opened \in [Gens -> Generation] /\ s \in Gens /\ (ngens' = ngens \/ ngens' = ngens + 1)
      /\ \A g \in Gens : Opened[g].pending = gen[g].pending /\ Opened[g].settled = gen[g].settled
  BY <1>1, OpenStateView
<1> HIDE DEF s
<1>4. R.pc = "prior" /\ R.gen = s
  <2>1. M \in Operation
    BY NoOperationType
  <2> HIDE DEF M
  <2> QED BY <2>1 DEF Operation
<1>5. op' = [op EXCEPT ![o] = R] /\ op \in [Ops -> Operation] /\ op[o].pc \in Idle
  BY <1>2 DEF LogInv, TypeOK, Fresh
<1> HIDE DEF R
<1>6. op'[o] = R /\ \A p \in Ops : p # o => op'[p] = op[p]
  BY <1>5
<1>7. \A g \in Gens : gen'[g].pending = gen[g].pending /\ gen'[g].settled = gen[g].settled
  BY <1>2, <1>3 DEF Generation
<1>8. PrefixOK'
  <2>1. \A p \in Ops : op'[p].pc = "appended" => op[p].pc = "appended" /\ op'[p].batch = op[p].batch
    BY <1>4, <1>6
  <2> QED BY <1>1, <1>3, <1>7, <2>1, PrefixKept
<1>9. Cut(op', s) /\ \A g \in Gens : g # s => (Cut(op', g) <=> Cut(op, g))
  BY <1>4, <1>5, <1>6 DEF Cut, Idle
<1>10. Cuts' = [Cuts EXCEPT ![s] = TRUE]
  BY <1>3, <1>9 DEF Cuts, Cut
<1>11. Tails' = Tails
  BY <1>7 DEF Tails
<1>12. PICK t \in Gens : t = s
  BY <1>3
<1>13. Contract!Cutover(t)
  BY <1>1, <1>10, <1>11, <1>12 DEF Contract!Cutover, Tails, Cuts, Cut
<1> QED BY <1>8, <1>13 DEF Steps, Contract!Next

LEMMA OpRefines ==
  ASSUME LogInv, PrefixOK, UNCHANGED <<file, fringe, torn, ngens>>,
         \A g \in Gens : gen'[g].pending = gen[g].pending /\ gen'[g].settled = gen[g].settled,
         NEW o \in Ops, NEW R, op' = [op EXCEPT ![o] = R], R.pc # "appended",
         \/ op[o].pc \notin {"prior", "write"} /\ R.pc \notin {"prior", "write"}
         \/ op[o].pc \in {"prior", "write"} /\ R.pc \in {"prior", "write"} /\ R.gen = op[o].gen
  PROVE  PrefixOK' /\ Steps
<1> DEFINE Q == op'
<1>1. Q = [op EXCEPT ![o] = R] /\ op \in [Ops -> Operation]
  BY DEF LogInv, TypeOK
<1> HIDE DEF Q
<1>2. SameView(op, Q)
  BY <1>1, OneOpView
<1> QED BY <1>2, QuietRefines DEF Q

LEMMA DrainReadyRefines ==
  ASSUME LogInv, PrefixOK, NEW o \in Ops, DrainReady(o) PROVE PrefixOK' /\ Steps
<1> DEFINE r == op[o]
           q == gen[r.gen].pending
           R == IF CutOver(o) THEN [r EXCEPT !.pc = "done"] ELSE NextBatch(o, q)
<1>1. /\ r.pc = "ready" /\ op' = [op EXCEPT ![o] = R]
      /\ UNCHANGED <<file, fringe, torn, logs, ngens, gen>> /\ Live(op, o)
  BY DEF DrainReady, Live, Idle
<1>2. r \in Operation /\ gen \in [Gens -> Generation] /\ r.gen \in Gens
  BY <1>1, StepFacts
<1>3. q \in Seq(Records)
  BY <1>2, GenTypes
<1>4. R.pc \in {"done", "append"}
  <2>1. CASE CutOver(o)
    <3>1. R = [r EXCEPT !.pc = "done"]
      BY <2>1
    <3> HIDE DEF r, R
    <3> QED BY <1>2, <3>1 DEF Operation
  <2>2. CASE ~CutOver(o)
    <3>1. R = NextBatch(o, q)
      BY <2>2
    <3> HIDE DEF q, R
    <3> QED BY <1>2, <1>3, <3>1, NextBatchFields
  <2> QED BY <2>1, <2>2
<1> HIDE DEF R
<1> QED BY <1>1, <1>4, OpRefines

LEMMA AppendSucceedsRefines ==
  ASSUME LogInv, PrefixOK, NEW o \in Ops, AppendSucceeds(o) PROVE PrefixOK' /\ Steps
<1>1. op[o].pc = "appended" /\ UNCHANGED <<torn, logs, ngens>> /\ Live(op, o)
  BY DEF AppendSucceeds, Live, Idle
<1>2. PICK g \in Gens : g = op[o].gen
  BY <1>1, StepFacts
<1> DEFINE r == op[o]
           q == gen[g].pending
           rest == SubSeq(q, r.batch + 1, Len(q))
<1>3. /\ ObjectInv(fringe, logs, ngens, gen, op) /\ r \in Operation /\ Turn(gen, g)
      /\ gen[g] \in Generation /\ gen \in [Gens -> Generation] /\ op \in [Ops -> Operation]
      /\ gen[g].flushPromise = o <=> ~CutOver(o)
      /\ r.epoch = gen[g].cutoverEpoch <=> ~CutOver(o)
  BY <1>1, <1>2, StepFacts DEF CutOver
<1>4. q \in Seq(Records) /\ Len(q) \in Nat /\ r.batch \in 1..Len(q)
  BY <1>1, <1>2, <1>3, GenTypes DEF ObjectInv, WorkOK
<1>5. CASE CutOver(o)
  <2> DEFINE R == [r EXCEPT !.pc = "done", !.batch = 0]
  <2>1. op' = [op EXCEPT ![o] = R] /\ UNCHANGED <<gen, file, fringe>>
    BY <1>3, <1>5 DEF AppendSucceeds
  <2>2. R.pc = "done"
    <3> HIDE DEF r
    <3> QED BY <1>3 DEF Operation
  <2> HIDE DEF R
  <2> QED BY <1>1, <2>1, <2>2, OpRefines
<1>6. CASE ~CutOver(o)
  <2> DEFINE R == NextBatch(o, rest)
  <2>1. /\ op' = [op EXCEPT ![o] = R] /\ gen' = [gen EXCEPT ![g].pending = rest]
        /\ file' = file \o fringe /\ fringe' = <<>>
    BY <1>2, <1>6 DEF AppendSucceeds
  <2>2. rest \in Seq(Records)
    <3> HIDE DEF q, r
    <3> QED BY <1>4, SubSeqProperties
  <2> HIDE DEF rest
  <2>3. R.pc \in {"done", "append"}
    <3> HIDE DEF R
    <3>1. R = NextBatch(o, rest)
      BY DEF R
    <3> QED BY <1>3, <2>2, <3>1, NextBatchFields
  <2> HIDE DEF R
  <2>4. op'[o] = R /\ \A p \in Ops : p # o => op'[p] = op[p]
    BY <1>3, <2>1
  <2>5. AtWork(ngens, gen, g) /\ \A p \in Ops : op[p].pc \in AtStorage => p = o
    <3>1. op[o].pc \in AtStorage
      BY <1>1 DEF AtStorage
    <3> QED BY <1>2, <1>3, <3>1, StorageFacts
  <2>6. PrefixOK'
    <3>1. \A p \in Ops : op'[p].pc # "appended"
      BY <2>3, <2>4, <2>5 DEF AtStorage
    <3>2. LogInv' /\ ~torn'
      BY <1>1, AppendSucceedsInv DEF PrefixOK
    <3> QED BY <2>1, <3>1, <3>2, PrefixCleared
  <2>7. ~Cut(op, g)
    <3> SUFFICES ASSUME NEW p \in Ops, op[p].gen = g, op[p].pc \in {"prior", "write"} PROVE FALSE
      BY DEF Cut
    <3>1. LiveIn(op, p, r.gen) /\ p # o
      BY <1>1, <1>2 DEF LiveIn, Live, Idle
    <3>2. Objects(logs, ngens, gen, op) /\ EpochsOK(ngens, gen, op) /\ ChainOK(gen, op)
      BY <1>3 DEF ObjectInv
    <3>3. r.epoch < op[p].epoch
      BY <1>1, <3>1, <3>2, FirstInLine
    <3>4. op[p].epoch <= gen[g].cutoverEpoch
      BY <1>2, <3>1, <3>2 DEF EpochsOK, LiveIn
    <3>5. r.epoch \in Nat /\ op[p].epoch \in Nat /\ gen[g].cutoverEpoch \in Nat
      BY <1>3, OpTypes, GenTypes
    <3> QED BY <1>3, <1>6, <3>3, <3>4, <3>5
  <2>8. \A h \in Gens : Cut(op', h) <=> Cut(op, h)
    BY <1>1, <2>3, <2>4 DEF Cut
  <2>9. Cuts' = Cuts /\ Cuts[g] = FALSE
    BY <2>7, <2>8 DEF Cuts, Cut
  <2>10. Tails' = [Tails EXCEPT ![g] = rest]
    BY <1>3, <2>1 DEF Tails, Generation
  <2>11. r.batch = Len(fringe) /\ file' = Contract!Moved(g, r.batch) /\ Contract!IsOldest(g)
    BY <1>1, <1>3, <2>1, <2>5, FringeMoves, TurnIsOldest DEF PrefixOK
  <2>12. Tails[g] = q /\ rest = SubSeq(q, r.batch + 1, Len(q))
    BY DEF Tails, rest
  <2>13. \E n \in 1..Len(Tails[g]) :
           /\ file' = Contract!Moved(g, n)
           /\ Tails' = [Tails EXCEPT ![g] = SubSeq(@, n + 1, Len(@))]
    BY <1>4, <2>10, <2>11, <2>12
  <2>14. Contract!Commit(g)
    BY <2>9, <2>11, <2>13 DEF Contract!Commit, Tails, Cuts, Cut
  <2> QED BY <2>6, <2>14 DEF Steps, Contract!Next
<1> QED BY <1>5, <1>6

\* A failure is kept: no queue changes.
LEMMA FailureKeptView ==
  ASSUME LogInv, NEW g \in Gens, gen' = FailureKept(g)
  PROVE  \A h \in Gens : gen'[h].pending = gen[h].pending /\ gen'[h].settled = gen[h].settled
BY DEF FailureKept, LogInv, TypeOK, Generation

LEMMA AppendFailsRefines ==
  ASSUME LogInv, PrefixOK, NEW o \in Ops, AppendFails(o) PROVE PrefixOK' /\ Steps
<1> DEFINE r == op[o]
           R == [r EXCEPT !.pc = "done", !.batch = 0, !.failed = TRUE]
<1>1. /\ r.pc \in {"append", "appended", "short"} /\ Live(op, o)
      /\ UNCHANGED <<file, fringe, torn, ngens>> /\ gen' = FailureKept(r.gen)
  BY DEF AppendFails, Live, Idle
<1>2. r \in Operation /\ op \in [Ops -> Operation] /\ r.gen \in Gens
  BY <1>1, StepFacts
<1>3. op' = [op EXCEPT ![o] = R]
  BY <1>2 DEF AppendFails
<1>4. R.pc = "done"
  <2> HIDE DEF r
  <2> QED BY <1>2 DEF Operation
<1>5. \A h \in Gens : gen'[h].pending = gen[h].pending /\ gen'[h].settled = gen[h].settled
  BY <1>1, <1>2, FailureKeptView
<1> HIDE DEF R
<1> QED BY <1>1, <1>3, <1>4, <1>5, OpRefines

LEMMA RewriteStartsRefines ==
  ASSUME LogInv, PrefixOK, NEW o \in Ops, RewriteStarts(o) PROVE PrefixOK' /\ Steps
<1> DEFINE r == op[o]
           R == [r EXCEPT !.pc = "write", !.prior = None]
<1>1. r.pc = "prior" /\ Live(op, o) /\ UNCHANGED <<file, fringe, torn, ngens, gen>>
  BY DEF RewriteStarts, Live, Idle
<1>2. r \in Operation /\ op \in [Ops -> Operation]
  BY <1>1, StepFacts
<1>3. op' = [op EXCEPT ![o] = R]
  BY <1>2 DEF RewriteStarts
<1>4. R.pc = "write" /\ R.gen = r.gen
  <2> HIDE DEF r
  <2> QED BY <1>2 DEF Operation
<1> HIDE DEF R
<1> QED BY <1>1, <1>3, <1>4, OpRefines

LEMMA WriteSucceedsRefines ==
  ASSUME LogInv, PrefixOK, NEW o \in Ops, WriteSucceeds(o) PROVE PrefixOK' /\ Steps
<1> DEFINE r == op[o]
           R == [r EXCEPT !.pc = "done", !.snapshot = <<>>]
<1>1. /\ r.pc = "written" /\ Live(op, o) /\ UNCHANGED <<file, fringe, torn, ngens>>
      /\ gen' = [gen EXCEPT ![r.gen].storageFailure = FALSE]
  BY DEF WriteSucceeds, Live, Idle
<1>2. r \in Operation /\ op \in [Ops -> Operation] /\ gen \in [Gens -> Generation]
  BY <1>1, StepFacts
<1>3. op' = [op EXCEPT ![o] = R]
  BY <1>2 DEF WriteSucceeds
<1>4. R.pc = "done"
  <2> HIDE DEF r
  <2> QED BY <1>2 DEF Operation
<1>5. \A h \in Gens : gen'[h].pending = gen[h].pending /\ gen'[h].settled = gen[h].settled
  BY <1>1, <1>2 DEF Generation
<1> HIDE DEF R
<1> QED BY <1>1, <1>3, <1>4, <1>5, OpRefines

LEMMA FinishOwnedFlushRefines ==
  ASSUME LogInv, PrefixOK, NEW o \in Ops, FinishOwnedFlush(o) PROVE PrefixOK' /\ Steps
<1>1. op[o].pc = "done" /\ Live(op, o) /\ UNCHANGED <<file, fringe, torn, ngens>>
  BY DEF FinishOwnedFlush, Live, Idle
<1>2. op \in [Ops -> Operation] /\ gen \in [Gens -> Generation] /\ op[o].gen \in Gens
  BY <1>1, StepFacts
<1>3. \A h \in Gens : gen'[h].pending = gen[h].pending /\ gen'[h].settled = gen[h].settled
  <2>1. CASE gen' = gen
    BY <2>1
  <2>2. CASE gen' = [gen EXCEPT ![op[o].gen].flushPromise = None]
    BY <1>2, <2>2 DEF Generation
  <2> QED BY <2>1, <2>2 DEF FinishOwnedFlush
<1>4. CASE DrainsAgain(o)
  <2> DEFINE R == Drain(gen, op[o].gen)
  <2>1. op' = [op EXCEPT ![o] = R]
    BY <1>4 DEF FinishOwnedFlush
  <2>2. R.pc = "ready"
    BY <1>2, DrainFields
  <2> HIDE DEF R
  <2> QED BY <1>1, <1>3, <2>1, <2>2, OpRefines
<1>5. CASE ~DrainsAgain(o)
  <2> DEFINE c == IF op[o].failed THEN "rejected" ELSE "resolved"
             M == NoOperation
             R == [M EXCEPT !.pc = c]
  <2>1. op' = [op EXCEPT ![o] = R] /\ M \in Operation
    BY <1>5, NoOperationType DEF FinishOwnedFlush
  <2>2. c \in {"resolved", "rejected"}
    OBVIOUS
  <2> HIDE DEF c, M
  <2>3. R.pc = c
    BY <2>1 DEF Operation
  <2> HIDE DEF R
  <2> QED BY <1>1, <1>3, <2>1, <2>2, <2>3, OpRefines
<1> QED BY <1>4, <1>5

\* The last cutover of generation g is over.
LEMMA CutEnds ==
  ASSUME NEW g \in Gens, ~Cut(op', g), \A h \in Gens : h # g => (Cut(op', h) <=> Cut(op, h))
  PROVE  Cuts' = [Cuts EXCEPT ![g] = FALSE]
<1> DEFINE F == Cuts'
           C == Cuts
           D == [C EXCEPT ![g] = FALSE]
<1>1. C = [h \in Gens |-> C[h]] /\ F = [h \in Gens |-> F[h]]
  BY DEF Cuts, Cut
<1>2. F[g] = FALSE
  BY DEF Cuts, Cut
<1>3. \A h \in Gens : h # g => F[h] = C[h]
  BY DEF Cuts, Cut
<1> HIDE DEF F, C
<1>4. D = [h \in Gens |-> D[h]] /\ D[g] = FALSE /\ \A h \in Gens : h # g => D[h] = C[h]
  BY <1>1
<1>5. \A h \in Gens : F[h] = D[h]
  BY <1>2, <1>3, <1>4
<1>6. F = D
  <2> HIDE DEF D
  <2> QED BY <1>1, <1>4, <1>5
<1> QED BY <1>6 DEF F, C

\* A rewrite fails before it has replaced the file: the contract sees it give up, unless
\* another one is waiting.
LEMMA WriteFailsRefines ==
  ASSUME LogInv, PrefixOK, NEW o \in Ops, WriteFails(o) PROVE PrefixOK' /\ Steps
<1> DEFINE r == op[o]
           R == [r EXCEPT !.pc = "done", !.snapshot = <<>>, !.failed = TRUE]
<1>1. /\ r.pc \in {"write", "written"} /\ Live(op, o)
      /\ UNCHANGED <<file, fringe, torn, ngens>> /\ gen' = FailureKept(r.gen)
  BY DEF WriteFails, Live, Idle
<1>2. r \in Operation /\ op \in [Ops -> Operation] /\ r.gen \in Gens
  BY <1>1, StepFacts
<1>3. op' = [op EXCEPT ![o] = R]
  BY <1>2 DEF WriteFails
<1>4. R.pc = "done"
  <2> HIDE DEF r
  <2> QED BY <1>2 DEF Operation
<1>5. \A h \in Gens : gen'[h].pending = gen[h].pending /\ gen'[h].settled = gen[h].settled
  BY <1>1, <1>2, FailureKeptView
<1> HIDE DEF R
<1>6. CASE r.pc = "written"
  BY <1>1, <1>3, <1>4, <1>5, <1>6, OpRefines
<1>7. CASE r.pc = "write"
  <2>1. op'[o] = R /\ \A p \in Ops : p # o => op'[p] = op[p]
    BY <1>2, <1>3
  <2>2. PrefixOK'
    <3>1. \A p \in Ops : op'[p].pc = "appended" => op[p].pc = "appended" /\ op'[p].batch = op[p].batch
      BY <1>4, <2>1
    <3> QED BY <1>1, <1>5, <3>1, PrefixKept
  <2>3. PICK g \in Gens : g = r.gen
    BY <1>2
  <2>4. Cut(op, g) /\ \A h \in Gens : h # g => (Cut(op', h) <=> Cut(op, h))
    BY <1>4, <1>7, <2>1, <2>3 DEF Cut
  <2>5. CASE Cut(op', g)
    <3>1. \A h \in Gens : Cut(op', h) <=> Cut(op, h)
      BY <2>4, <2>5
    <3> QED BY <1>1, <1>5, <2>2, <3>1, Stutters DEF Steps
  <2>6. CASE ~Cut(op', g)
    <3>1. Cuts[g] /\ Cuts' = [Cuts EXCEPT ![g] = FALSE]
      BY <2>4, <2>6, CutEnds DEF Cuts
    <3>2. Tails' = Tails
      BY <1>5 DEF Tails
    <3>3. Contract!GiveUp(g)
      BY <1>1, <3>1, <3>2 DEF Contract!GiveUp, Tails, Cuts, Cut
    <3> QED BY <2>2, <3>3 DEF Steps, Contract!Next
  <2> QED BY <2>5, <2>6
<1> QED BY <1>1, <1>6, <1>7

\* A rename replaces the file.
LEMMA WriteLandsRefines ==
  ASSUME LogInv, PrefixOK, NEW o \in Ops, WriteLands(o) PROVE PrefixOK' /\ Steps
<1> DEFINE r == op[o]
           R == [r EXCEPT !.pc = "written"]
<1>1. /\ r.pc = "write" /\ Live(op, o) /\ UNCHANGED <<logs, ngens, gen>>
      /\ file' = r.snapshot /\ fringe' = <<>> /\ torn' = FALSE
  BY DEF WriteLands, Live, Idle
<1>2. /\ r \in Operation /\ op \in [Ops -> Operation] /\ r.gen \in Gens /\ Turn(gen, r.gen)
      /\ ObjectInv(fringe, logs, ngens, gen, op)
  BY <1>1, StepFacts
<1>3. op' = [op EXCEPT ![o] = R]
  BY <1>2 DEF WriteLands
<1>4. R.pc = "written"
  <2> HIDE DEF r
  <2> QED BY <1>2 DEF Operation
<1> HIDE DEF R
<1>5. op'[o] = R /\ \A p \in Ops : p # o => op'[p] = op[p]
  BY <1>2, <1>3
<1>6. PrefixOK'
  <2>1. \A p \in Ops : op[p].pc \in AtStorage => p = o
    <3>1. op[o].pc \in AtStorage
      BY <1>1 DEF AtStorage
    <3> QED BY <1>2, <3>1, StorageFacts
  <2>2. \A p \in Ops : op'[p].pc # "appended"
    BY <1>4, <1>5, <2>1 DEF AtStorage
  <2> QED BY <1>1, <2>2, WriteLandsInv, PrefixCleared
<1>7. PICK g \in Gens : g = r.gen
  BY <1>2
<1>8. Cut(op, g) /\ \A h \in Gens : h # g => (Cut(op', h) <=> Cut(op, h))
  BY <1>1, <1>4, <1>5, <1>7 DEF Cut
<1>9. Cuts[g] /\ \E more \in BOOLEAN : Cuts' = [Cuts EXCEPT ![g] = more]
  <2>1. CASE Cut(op', g)
    <3>1. Cuts' = [Cuts EXCEPT ![g] = TRUE]
      BY <1>8, <2>1 DEF Cuts, Cut
    <3> QED BY <1>8, <3>1 DEF Cuts
  <2>2. CASE ~Cut(op', g)
    <3>1. Cuts' = [Cuts EXCEPT ![g] = FALSE]
      BY <1>8, <2>2, CutEnds
    <3> QED BY <1>8, <3>1 DEF Cuts
  <2> QED BY <2>1, <2>2
<1>10. Tails' = Tails
  BY <1>1 DEF Tails
<1>11. r.snapshot \in Snapshots /\ Contract!IsOldest(g)
  BY <1>1, <1>2, <1>7, TurnIsOldest DEF ObjectInv, WorkOK
<1>12. PICK w \in Snapshots : w = r.snapshot
  BY <1>11
<1>13. Contract!Replace(g, w)
  BY <1>1, <1>9, <1>10, <1>11, <1>12 DEF Contract!Replace, Tails, Cuts, Cut
<1> QED BY <1>6, <1>13 DEF Steps, Contract!Next

\* An append reaches the file: its lines are the first records of the queue.
LEMMA AppendLandsRefines ==
  ASSUME ~Tears, LogInv, PrefixOK, NEW o \in Ops, AppendLands(o) PROVE PrefixOK' /\ Steps
<1> DEFINE r == op[o]
           q == gen[r.gen].pending
<1>1. r.pc = "append" /\ Live(op, o) /\ UNCHANGED <<file, logs, ngens, gen>>
  BY DEF AppendLands, Live, Idle
<1>2. /\ ObjectInv(fringe, logs, ngens, gen, op) /\ r \in Operation
      /\ r.gen \in Gens /\ gen \in [Gens -> Generation] /\ op \in [Ops -> Operation]
  BY <1>1, StepFacts
<1>3. PICK n \in 0..r.batch, tear \in {FALSE, Tears} :
        /\ tear => n < r.batch
        /\ fringe' = fringe \o Written(SubSeq(SubSeq(q, 1, r.batch), 1, n))
        /\ torn' = (tear \/ (torn /\ n = 0))
        /\ op' = [op EXCEPT ![o].pc = IF n = r.batch THEN "appended" ELSE "short"]
  BY DEF AppendLands
<1>4. q \in Seq(Records) /\ Len(q) \in Nat /\ r.batch \in 1..Len(q) /\ fringe = <<>>
  BY <1>1, <1>2, GenTypes DEF ObjectInv, WorkOK
<1>5. ~torn /\ ~torn'
  <2>1. ~torn /\ ~tear
    <3>1. CASE tear = FALSE
      BY <3>1 DEF PrefixOK
    <3>2. CASE tear = Tears
      <4>1. Tears = FALSE
        BY LogAssumption
      <4> QED BY <3>2, <4>1 DEF PrefixOK
    <3> QED BY <3>1, <3>2
  <2> QED BY <1>3, <2>1
<1>6. fringe' = SubSeq(q, 1, n) /\ Len(fringe') = n /\ n \in Nat /\ n <= Len(q)
  <2> HIDE DEF q
  <2>1. SubSeq(SubSeq(q, 1, r.batch), 1, n) = SubSeq(q, 1, n)
    <3> DEFINE b == r.batch
               s == SubSeq(q, 1, b)
    <3>1. b \in 1..Len(q) /\ n \in 0..b /\ n <= Len(q) /\ n \in Nat
      BY <1>3, <1>4
    <3> HIDE DEF b
    <3>2. s \in Seq(Records) /\ Len(s) = b /\ \A i \in 1..n : s[i] = q[i]
      BY <1>4, <3>1
    <3> HIDE DEF s
    <3>3. SubSeq(s, 1, n) = SubSeq(q, 1, n)
      BY <1>4, <3>1, <3>2
    <3> QED BY <3>3 DEF s, b
  <2>2. n \in Nat /\ n <= Len(q)
    BY <1>3, <1>4
  <2>3. SubSeq(q, 1, n) \in Seq(Records) /\ Len(SubSeq(q, 1, n)) = n
    BY <1>4, <2>2
  <2>4. fringe' = <<>> \o SubSeq(q, 1, n)
    BY <1>3, <1>4, <1>5, <2>1, Zenon DEF Written
  <2> QED BY <2>2, <2>3, <2>4, ConcatEmptySeq
<1> DEFINE c == IF n = r.batch THEN "appended" ELSE "short"
           R == [r EXCEPT !.pc = c]
<1>7. op'[o] = R /\ \A p \in Ops : p # o => op'[p] = op[p]
  BY <1>2, <1>3
<1>8. (c = "appended" /\ n = r.batch) \/ c = "short"
  OBVIOUS
<1> HIDE DEF c
<1>9. R.pc = c /\ R.batch = r.batch
  <2> HIDE DEF r
  <2> QED BY <1>2 DEF Operation
<1> HIDE DEF R
<1>10. /\ \A g \in Gens : AtWork(ngens, gen, g) => g = r.gen
       /\ \A p \in Ops : op[p].pc \in AtStorage => p = o
  <2>1. op[o].pc \in AtStorage
    BY <1>1 DEF AtStorage
  <2> QED BY <1>2, <2>1, StorageFacts
<1>11. PrefixOK'
  <2>1. \A p \in Ops : op'[p].pc = "appended" => Len(fringe') = op'[p].batch
    BY <1>6, <1>7, <1>8, <1>9, <1>10 DEF AtStorage
  <2>2. \A g \in Gens : AtWork(ngens', gen', g) =>
          Len(fringe') <= Len(gen'[g].pending) /\ fringe' = SubSeq(gen'[g].pending, 1, Len(fringe'))
    BY <1>1, <1>6, <1>10
  <2> QED BY <1>5, <2>1, <2>2 DEF PrefixOK
<1>12. \A g \in Gens : Cut(op', g) <=> Cut(op, g)
  BY <1>1, <1>7, <1>8, <1>9 DEF Cut
<1> QED BY <1>1, <1>11, <1>12, Stutters DEF Steps

\* A generation is given up: its unacknowledged lines stay in the file.
LEMMA RetirementSettlesRefines ==
  ASSUME LogInv, PrefixOK, NEW g \in Gens, RetirementSettles(g) PROVE PrefixOK' /\ Steps
<1>1. /\ gen[g].retired /\ ~gen[g].settled
      /\ (gen[g].retirement # None => SettledIn(op, gen[g].retirement))
      /\ gen' = [gen EXCEPT ![g].settled = TRUE, ![g].retirement = None, ![g].pending = <<>>]
      /\ file' = file \o fringe /\ fringe' = <<>> /\ UNCHANGED <<torn, ngens, op>>
  BY DEF RetirementSettles, Settled, SettledIn
<1>2. ObjectInv(fringe, logs, ngens, gen, op) /\ gen \in [Gens -> Generation]
  BY DEF LogInv, TypeOK
<1>3. /\ Turn(gen, g) /\ g <= ngens
      /\ \A o \in Ops : LiveIn(op, o, g) => op[o].pc \in {"ready", "done"}
  BY <1>1, <1>2, RetirementFacts
<1>4. AtWork(ngens, gen, g)
  BY <1>1, <1>3 DEF AtWork
<1>5. PrefixOK'
  <2>1. \A o \in Ops : op[o].pc # "appended"
    <3> SUFFICES ASSUME NEW o \in Ops, op[o].pc = "appended" PROVE FALSE
      OBVIOUS
    <3>1. Live(op, o) /\ op[o].gen = g
      <4>1. op[o].pc \in AtStorage
        BY DEF AtStorage
      <4> QED BY <1>2, <1>4, <4>1, StorageFacts
    <3> QED BY <1>3, <3>1 DEF LiveIn
  <2>2. LogInv' /\ ~torn'
    BY <1>1, RetirementSettlesInv DEF PrefixOK
  <2> QED BY <1>1, <2>1, <2>2, PrefixCleared
<1>6. Contract!IsOldest(g) /\ Len(fringe) \in 0..Len(Tails[g]) /\ file' = Contract!Moved(g, Len(fringe))
  BY <1>1, <1>3, <1>4, FringeMoves, TurnIsOldest
<1>7. ~Cut(op, g)
  BY <1>3 DEF Cut, LiveIn, Live, Idle
<1>8. Cuts' = Cuts /\ Cuts[g] = FALSE
  BY <1>1, <1>7 DEF Cuts, Cut
<1>9. Tails' = [Tails EXCEPT ![g] = <<>>]
  BY <1>1, <1>2 DEF Tails, Generation
<1>10. Contract!Abandon(g)
  BY <1>6, <1>8, <1>9 DEF Contract!Abandon, Tails, Cuts, Cut
<1> QED BY <1>5, <1>10 DEF Steps, Contract!Next

LEMMA NextRefines == ASSUME ~Tears, LogInv, PrefixOK, [Next]_vars PROVE PrefixOK' /\ Steps
<1>1. CASE UNCHANGED vars
  <2>1. SameView(op, op')
    BY <1>1 DEF vars, SameView
  <2> QED BY <1>1, <2>1, QuietRefines DEF vars
<1>2. CASE Calls
  BY <1>2, AppendRecordRefines, FlushRefines, ReadRefines, RewriteRefines, AcquireRefines,
     ReleaseRefines DEF Calls
<1>3. CASE \E o \in Ops : Continue(o)
  BY <1>3, DrainReadyRefines, AppendSucceedsRefines, RewriteStartsRefines,
     WriteSucceedsRefines, FinishOwnedFlushRefines DEF Continue
<1>4. CASE \E o \in Ops : StorageLands(o) \/ StorageFails(o)
  BY <1>4, AppendLandsRefines, WriteLandsRefines, AppendFailsRefines, WriteFailsRefines
  DEF StorageLands, StorageFails
<1>5. CASE \E g \in Gens : ScheduledFlush(g) \/ RetirementSettles(g)
  BY <1>5, ScheduledFlushRefines, RetirementSettlesRefines
<1>6. CASE Crash
  BY <1>6, CrashRefines
<1> QED BY <1>1, <1>2, <1>3, <1>4, <1>5, <1>6 DEF Next

LEMMA InitRefines == Init => PrefixOK /\ Contract!Init
<1> SUFFICES ASSUME Init PROVE PrefixOK /\ Contract!Init
  OBVIOUS
<1>1. gen = NoGenerations /\ op = NoOperations /\ ngens = 0 /\ fringe = <<>> /\ file = <<>> /\ ~torn
  BY DEF Init
<1>2. \A g \in Gens : ~AtWork(ngens, gen, g)
  BY <1>1, ConstTypes DEF AtWork
<1>3. \A o \in Ops : op[o].pc = "free" /\ op[o].gen = None
  BY <1>1 DEF NoOperations, NoOperation
<1>4. PrefixOK
  BY <1>1, <1>2, <1>3 DEF PrefixOK
<1>5. Tails = [g \in Gens |-> <<>>]
  BY <1>1 DEF Tails, NoGenerations, NewGeneration
<1>6. Cuts = [g \in Gens |-> FALSE]
  BY <1>3 DEF Cuts, Cut
<1>7. Contract!Init
  BY <1>1, <1>5, <1>6 DEF Contract!Init, Tails, Cuts, Cut
<1> QED BY <1>4, <1>7

\* Where writes do not tear, the store keeps what its interface promises: nothing is lost,
\* duplicated or reordered through batching, rewrites, failures, hand-offs and crashes.
THEOREM KeepsContract ==
  ASSUME ~Tears
  PROVE  Spec => ContractSpec
<1>1. Init => LogInv /\ PrefixOK /\ Contract!Init
  BY InitInv, InitRefines
<1>2. LogInv /\ PrefixOK /\ [Next]_vars => (LogInv /\ PrefixOK)' /\ Steps
  BY NextInv, NextRefines
<1>3. Steps => [Contract!Next]_(Contract!contractVars)
  BY DEF Steps
<1> QED BY <1>1, <1>2, <1>3, PTL DEF Spec, ContractSpec, Contract!Spec
=============================================================================
