--------------------------- MODULE PromptQueueProofs --------------------------
(***************************************************************************)
(* The safety properties of the prompt scheduler, for every set of prompts *)
(* and any number of system turns and compactions.                         *)
(***************************************************************************)
EXTENDS PromptQueue, TurnClockProofs, FunctionTheorems

-----------------------------------------------------------------------------
(* The queue *)

\* Without keeps exactly the members of s that are not in S.
LEMMA WithoutProps ==
  ASSUME NEW P, NEW s \in Seq(P), NEW S
  PROVE  /\ Without(s, S) \in Seq(P)
         /\ ToSet(Without(s, S)) = ToSet(s) \ S
<1> DEFINE kept == {i \in DOMAIN s : s[i] \notin S}
           below(i) == {j \in kept : j <= i}
           n == Cardinality(kept)
           place == [i \in kept |-> Cardinality(below(i))]
<1>1. kept \subseteq 1..Len(s) /\ IsFiniteSet(kept) /\ n \in Nat
  <2>1. IsFiniteSet(1..Len(s))
    BY FS_Interval
  <2> QED BY <2>1, FS_Subset, FS_CardinalityType
<1>2. \A i \in kept : IsFiniteSet(below(i)) /\ Cardinality(below(i)) \in 1..n
  <2> SUFFICES ASSUME NEW i \in kept
               PROVE  IsFiniteSet(below(i)) /\ Cardinality(below(i)) \in 1..n
    OBVIOUS
  <2> HIDE DEF kept
  <2>1. below(i) \in SUBSET kept /\ i \in below(i)
    BY <1>1
  <2>2. IsFiniteSet(below(i)) /\ Cardinality(below(i)) <= n
    BY <2>1, <1>1, FS_Subset
  <2>3. Cardinality(below(i)) \in Nat /\ Cardinality(below(i)) # 0
    BY <2>1, <2>2, FS_EmptySet, FS_CardinalityType
  <2> HIDE DEF below, n
  <2> QED BY <2>2, <2>3, <1>1
<1>3. \A i, j \in kept : i < j => Cardinality(below(i)) # Cardinality(below(j))
  <2> SUFFICES ASSUME NEW i \in kept, NEW j \in kept, i < j
               PROVE  Cardinality(below(i)) # Cardinality(below(j))
    OBVIOUS
  <2>0. i \in Int /\ j \in Int /\ \A m \in kept : m \in Int
    BY <1>1
  <2> HIDE DEF kept
  <2>1. below(i) \in SUBSET below(j) /\ j \in below(j) /\ j \notin below(i)
    <3>1. \A m \in kept : m <= i => m <= j
      BY <2>0
    <3>2. j <= j /\ ~(j <= i)
      BY <2>0
    <3> QED BY <3>1, <3>2, Zenon
  <2> HIDE DEF below
  <2>2. IsFiniteSet(below(j))
    BY <1>2
  <2> QED BY <2>1, <2>2, FS_Subset
<1>4. place \in Surjection(kept, 1..n)
  <2>1. place \in [kept -> 1..n]
    BY <1>2
  <2>2. \A i, j \in kept : place[i] = place[j] => i = j
    <3>1. \A i \in kept : place[i] = Cardinality(below(i)) /\ i \in Int
      BY <1>1
    <3> HIDE DEF kept, below, place
    <3>2. \A i, j \in kept : i < j \/ j < i \/ i = j
      BY <3>1
    <3> QED BY <1>3, <3>1, <3>2
  <2>3. place \in Injection(kept, 1..n)
    BY <2>1, <2>2, Zenon DEF Injection, IsInjective
  <2>4. IsFiniteSet(1..n) /\ Cardinality(1..n) = n
    <3> HIDE DEF n
    <3> QED BY <1>1, FS_Interval
  <2> HIDE DEF place, kept
  <2> QED BY <2>3, <2>4, FS_Injection
<1> DEFINE at(k) == CHOOSE i \in kept : Cardinality(below(i)) = k
<1>5. \A k \in 1..n : at(k) \in kept /\ Cardinality(below(at(k))) = k
  <2>1. \A k \in 1..n : \E i \in kept : place[i] = k
    <3> HIDE DEF place, kept, n
    <3> QED BY <1>4 DEF Surjection
  <2>2. \A k \in 1..n : \E i \in kept : Cardinality(below(i)) = k
    BY <2>1
  <2> HIDE DEF kept, below, n
  <2> QED BY <2>2
<1>6. Without(s, S) = [k \in 1..n |-> s[at(k)]]
  BY DEF Without
<1>7. Without(s, S) \in Seq(P)
  <2>1. \A k \in 1..n : s[at(k)] \in P
    <3>1. \A i \in kept : s[i] \in P
      OBVIOUS
    <3> HIDE DEF kept, at, n
    <3> QED BY <3>1, <1>5
  <2> HIDE DEF n, at
  <2> QED BY <2>1, <1>1, <1>6
<1>8. ASSUME NEW x \in ToSet(Without(s, S)) PROVE x \in ToSet(s) \ S
  <2>1. PICK k \in 1..n : x = s[at(k)]
    <3> HIDE DEF n, at
    <3> QED BY <1>6, <1>8 DEF ToSet
  <2>2. at(k) \in kept
    BY <1>5
  <2> HIDE DEF at
  <2> QED BY <2>1, <2>2 DEF ToSet
<1>9. ASSUME NEW x \in ToSet(s) \ S PROVE x \in ToSet(Without(s, S))
  <2>1. PICK i \in kept : x = s[i]
    BY <1>9 DEF ToSet
  <2> DEFINE k == Cardinality(below(i))
  <2>2. k \in 1..n
    BY <1>2
  <2>3. at(k) = i
    <3>1. at(k) \in kept /\ Cardinality(below(at(k))) = k
      BY <2>2, <1>5
    <3>2. at(k) \in Int /\ i \in Int
      BY <3>1, <1>1
    <3> HIDE DEF at, below, kept
    <3>3. at(k) < i \/ i < at(k) \/ i = at(k)
      BY <3>2
    <3> QED BY <3>1, <3>3, <1>3, <2>1
  <2> HIDE DEF at, k, n
  <2> QED BY <2>1, <2>2, <2>3, <1>6 DEF ToSet
<1> QED BY <1>7, <1>8, <1>9

\* The members of a sequence with an element appended, ...
LEMMA AppendSet ==
  ASSUME NEW P, NEW s \in Seq(P), NEW x \in P
  PROVE  /\ Append(s, x) \in Seq(P)
         /\ ToSet(Append(s, x)) = ToSet(s) \cup {x}
<1>1. /\ Append(s, x) \in Seq(P)
      /\ Len(Append(s, x)) = Len(s) + 1
      /\ \A i \in 1..Len(s) : Append(s, x)[i] = s[i]
      /\ Append(s, x)[Len(s) + 1] = x
  OBVIOUS
<1>2. DOMAIN Append(s, x) = 1..(Len(s) + 1) /\ DOMAIN s = 1..Len(s) /\ Len(s) \in Nat
  BY <1>1
<1>3. ASSUME NEW y \in ToSet(Append(s, x)) PROVE y \in ToSet(s) \cup {x}
  BY <1>1, <1>2, <1>3 DEF ToSet
<1>4. ASSUME NEW y \in ToSet(s) \cup {x} PROVE y \in ToSet(Append(s, x))
  <2>1. CASE y = x
    BY <2>1, <1>1, <1>2 DEF ToSet
  <2>2. CASE y \in ToSet(s)
    <3>1. PICK i \in 1..Len(s) : s[i] = y
      BY <2>2, <1>2 DEF ToSet
    <3>2. i \in 1..(Len(s) + 1) /\ Append(s, x)[i] = y
      BY <3>1, <1>1, <1>2
    <3> QED BY <3>2, <1>2 DEF ToSet
  <2> QED BY <1>4, <2>1, <2>2
<1> QED BY <1>1, <1>3, <1>4

\* ... with the first one taken, ...
LEMMA TailSet ==
  ASSUME NEW P, NEW s \in Seq(P), s # <<>>
  PROVE  /\ Head(s) \in P /\ Tail(s) \in Seq(P)
         /\ ToSet(s) = {Head(s)} \cup ToSet(Tail(s))
<1>1. /\ Head(s) = s[1] /\ Head(s) \in P /\ Tail(s) \in Seq(P)
      /\ Len(s) \in Nat /\ Len(s) >= 1 /\ Len(Tail(s)) = Len(s) - 1
      /\ \A i \in 1..(Len(s) - 1) : Tail(s)[i] = s[i + 1]
  OBVIOUS
<1>2. DOMAIN Tail(s) = 1..(Len(s) - 1) /\ DOMAIN s = 1..Len(s)
  BY <1>1
<1>3. ASSUME NEW y \in ToSet(s) PROVE y \in {Head(s)} \cup ToSet(Tail(s))
  <2>1. PICK i \in 1..Len(s) : s[i] = y
    BY <1>2, <1>3 DEF ToSet
  <2>2. CASE i = 1
    BY <2>1, <2>2, <1>1
  <2>3. CASE i # 1
    <3>1. i - 1 \in 1..(Len(s) - 1) /\ (i - 1) + 1 = i
      BY <2>1, <2>3, <1>1
    <3>2. Tail(s)[i - 1] = y
      BY <3>1, <2>1, <1>1
    <3> QED BY <3>1, <3>2, <1>2 DEF ToSet
  <2> QED BY <2>2, <2>3
<1>4. ASSUME NEW y \in ToSet(Tail(s)) PROVE y \in ToSet(s)
  <2>1. PICK i \in 1..(Len(s) - 1) : Tail(s)[i] = y
    BY <1>2, <1>4 DEF ToSet
  <2>2. i + 1 \in 1..Len(s) /\ s[i + 1] = y
    BY <2>1, <1>1
  <2> QED BY <2>2, <1>2 DEF ToSet
<1>5. Head(s) \in ToSet(s)
  BY <1>1, <1>2 DEF ToSet
<1> QED BY <1>1, <1>3, <1>4, <1>5

\* ... and with one removed.
LEMMA RemoveSet ==
  ASSUME NEW P, NEW s \in Seq(P), NEW i \in DOMAIN s
  PROVE  /\ RemoveAt(s, i) \in Seq(P)
         /\ ToSet(RemoveAt(s, i)) \subseteq ToSet(s)
         /\ \A x \in ToSet(s) : x # s[i] => x \in ToSet(RemoveAt(s, i))
<1> DEFINE r == RemoveAt(s, i)
<1>1. DOMAIN s = 1..Len(s) /\ Len(s) \in Nat /\ i \in 1..Len(s)
  OBVIOUS
<1>2. /\ r \in Seq(P) /\ Len(r) = Len(s) - 1
      /\ \A j \in 1..(Len(s) - 1) : r[j] = IF j < i THEN s[j] ELSE s[j + 1]
  BY <1>1, RemoveAtProps
<1> HIDE DEF r
<1>3. DOMAIN r = 1..(Len(s) - 1)
  BY <1>2
<1>4. ASSUME NEW x \in ToSet(r) PROVE x \in ToSet(s)
  <2>1. PICK j \in 1..(Len(s) - 1) : r[j] = x
    BY <1>3, <1>4 DEF ToSet
  <2>2. j \in 1..Len(s) /\ j + 1 \in 1..Len(s) /\ (x = s[j] \/ x = s[j + 1])
    BY <2>1, <1>1, <1>2
  <2> QED BY <2>2, <1>1 DEF ToSet
<1>5. ASSUME NEW x \in ToSet(s), x # s[i] PROVE x \in ToSet(r)
  <2>1. PICK j \in 1..Len(s) : s[j] = x
    BY <1>1, <1>5 DEF ToSet
  <2>2. j # i
    BY <1>5, <2>1
  <2>3. CASE j < i
    <3>1. j \in 1..(Len(s) - 1) /\ r[j] = x
      BY <2>1, <2>3, <1>1, <1>2
    <3> QED BY <3>1, <1>3 DEF ToSet
  <2>4. CASE j > i
    <3>1. j - 1 \in 1..(Len(s) - 1) /\ ~(j - 1 < i) /\ (j - 1) + 1 = j
      BY <2>1, <2>4, <1>1
    <3>2. r[j - 1] = x
      BY <3>1, <2>1, <1>2
    <3> QED BY <3>1, <3>2, <1>3 DEF ToSet
  <2> QED BY <2>1, <2>2, <2>3, <2>4, <1>1
<1> QED BY <1>2, <1>4, <1>5 DEF r

-----------------------------------------------------------------------------
(* No prompt is twice in the queue of the loop *)

Distinct(s) == \A i, j \in DOMAIN s : s[i] \in Prompts /\ s[i] = s[j] => i = j

LEMMA DistinctAppend ==
  ASSUME NEW s \in Seq(Turns), NEW x \in Turns, Distinct(s), x \in Prompts => x \notin ToSet(s)
  PROVE  Distinct(Append(s, x))
<1>1. /\ DOMAIN Append(s, x) = 1..(Len(s) + 1) /\ DOMAIN s = 1..Len(s) /\ Len(s) \in Nat
      /\ \A i \in 1..Len(s) : Append(s, x)[i] = s[i]
      /\ Append(s, x)[Len(s) + 1] = x
  OBVIOUS
<1> SUFFICES ASSUME NEW i \in 1..(Len(s) + 1), NEW j \in 1..(Len(s) + 1),
                    Append(s, x)[i] \in Prompts, Append(s, x)[i] = Append(s, x)[j]
             PROVE  i = j
  BY <1>1 DEF Distinct
<1>2. x \in Prompts => \A k \in 1..Len(s) : s[k] # x
  BY <1>1 DEF ToSet
<1>3. CASE i \in 1..Len(s) /\ j \in 1..Len(s)
  BY <1>1, <1>3 DEF Distinct
<1>4. CASE i = Len(s) + 1 \/ j = Len(s) + 1
  BY <1>1, <1>2, <1>4
<1> QED BY <1>3, <1>4, <1>1

LEMMA DistinctTail ==
  ASSUME NEW s \in Seq(Turns), s # <<>>, Distinct(s)
  PROVE  /\ Distinct(Tail(s))
         /\ Head(s) \in Prompts => Head(s) \notin ToSet(Tail(s))
<1>1. /\ Head(s) = s[1] /\ Len(s) \in Nat /\ Len(s) >= 1
      /\ DOMAIN Tail(s) = 1..(Len(s) - 1) /\ DOMAIN s = 1..Len(s)
      /\ \A i \in 1..(Len(s) - 1) : Tail(s)[i] = s[i + 1]
  OBVIOUS
<1>2. \A i \in 1..(Len(s) - 1) : i + 1 \in 1..Len(s) /\ i + 1 # 1
  BY <1>1
<1>3. Distinct(Tail(s))
  <2> SUFFICES ASSUME NEW i \in 1..(Len(s) - 1), NEW j \in 1..(Len(s) - 1),
                      Tail(s)[i] \in Prompts, Tail(s)[i] = Tail(s)[j]
               PROVE  i = j
    BY <1>1 DEF Distinct
  <2>1. i + 1 = j + 1
    BY <1>1, <1>2 DEF Distinct
  <2> QED BY <2>1
<1>4. ASSUME Head(s) \in Prompts, Head(s) \in ToSet(Tail(s)) PROVE FALSE
  <2>1. PICK i \in 1..(Len(s) - 1) : Tail(s)[i] = Head(s)
    BY <1>1, <1>4 DEF ToSet
  <2>2. s[i + 1] = s[1] /\ s[1] \in Prompts /\ i + 1 \in 1..Len(s) /\ 1 \in 1..Len(s) /\ i + 1 # 1
    BY <2>1, <1>1, <1>2, <1>4
  <2> QED BY <2>2, <1>1 DEF Distinct
<1> QED BY <1>3, <1>4

LEMMA DistinctRemove ==
  ASSUME NEW s \in Seq(Turns), NEW i \in DOMAIN s, Distinct(s)
  PROVE  /\ Distinct(RemoveAt(s, i))
         /\ s[i] \in Prompts => s[i] \notin ToSet(RemoveAt(s, i))
<1> DEFINE r == RemoveAt(s, i)
           from(j) == IF j < i THEN j ELSE j + 1
<1>1. DOMAIN s = 1..Len(s) /\ Len(s) \in Nat /\ i \in 1..Len(s)
  OBVIOUS
<1>2. /\ r \in Seq(Turns) /\ Len(r) = Len(s) - 1
      /\ \A j \in 1..(Len(s) - 1) : r[j] = IF j < i THEN s[j] ELSE s[j + 1]
  BY <1>1, RemoveAtProps
<1> HIDE DEF r
<1>3. DOMAIN r = 1..(Len(s) - 1)
  BY <1>2
<1>4. \A j \in 1..(Len(s) - 1) : from(j) \in 1..Len(s) /\ from(j) # i /\ r[j] = s[from(j)]
  BY <1>1, <1>2
<1>5. \A j, k \in 1..(Len(s) - 1) : from(j) = from(k) => j = k
  BY <1>1
<1> HIDE DEF from
<1>6. Distinct(r)
  <2> SUFFICES ASSUME NEW j \in 1..(Len(s) - 1), NEW k \in 1..(Len(s) - 1),
                      r[j] \in Prompts, r[j] = r[k]
               PROVE  j = k
    BY <1>3 DEF Distinct
  <2> QED BY <1>1, <1>4, <1>5 DEF Distinct
<1>7. ASSUME s[i] \in Prompts, s[i] \in ToSet(r) PROVE FALSE
  <2>1. PICK j \in 1..(Len(s) - 1) : r[j] = s[i]
    BY <1>3, <1>7 DEF ToSet
  <2> QED BY <2>1, <1>1, <1>4, <1>7 DEF Distinct
<1> QED BY <1>6, <1>7 DEF r

-----------------------------------------------------------------------------
(* The invariant *)

\* The launch of p has its turn and has not resumed.
Assigned(p) == launch # None /\ launch.item = p /\ launch.at = "assigned"

\* The flag says whether there is a launch, and there is none while a prompt is active.
LaunchOK ==
  /\ launching <=> launch # None
  /\ active # None => launch = None

\* A prompt has a running turn, a queued one or a result, never two of them, and only
\* while it is active or about to be.
PlacesOK ==
  \A p \in Prompts :
    /\ running = p \/ p \in ToSet(turns) \/ results[p] # None => active = p \/ Assigned(p)
    /\ p \in ToSet(turns) => running # p
    /\ results[p] # None => running # p /\ p \notin ToSet(turns)

PromptInv ==
  /\ TypeOK /\ LaunchOK
  /\ PlacesOK /\ Distinct(turns)
  /\ NoIdleQueue /\ NoPromptForgotten

LEMMA InitInv == Init => PromptInv
<1> SUFFICES ASSUME Init PROVE PromptInv
  OBVIOUS
<1>1. TypeOK
  <2>1. state \in [Prompts -> States] /\ steered \in [Prompts -> SUBSET Prompts]
    BY DEF Init, States, Final
  <2>2. results \in [Prompts -> Final \cup {None}]
    BY DEF Init
  <2>3. pending \in Seq(Prompts) /\ turns \in Seq(Turns)
    BY DEF Init
  <2> QED BY <2>1, <2>2, <2>3 DEF Init, TypeOK
<1>2. LaunchOK /\ NoIdleQueue /\ NoPromptForgotten
  BY DEF Init, LaunchOK, NoIdleQueue, NoPromptForgotten
<1>3. ToSet(turns) = {} /\ DOMAIN turns = {}
  BY DEF Init, ToSet
<1>4. PlacesOK /\ Distinct(turns)
  BY <1>3, PromptAssumption DEF Init, PlacesOK, Distinct
<1> QED BY <1>1, <1>2, <1>4 DEF PromptInv

-----------------------------------------------------------------------------
(* A look at the queue *)

\* What a look at queue leaves: a prompt of it is launched, or it is as it was.
Looked(queue, act, busy) ==
  /\ pending' \in Seq(Prompts) /\ launching' \in BOOLEAN
  /\ launch' \in Launch \cup {None} /\ exhausted' \in BOOLEAN
  /\ launching' <=> launch' # None
  /\ busy => launch' = launch
  /\ ~busy /\ launch' # None => act = None /\ launch'.at = "hook"
  /\ \A p \in ToSet(queue) : p \in ToSet(pending') \/ (launch' # None /\ launch'.item = p)

LEMMA StartNextLooks ==
  ASSUME NEW queue \in Seq(Prompts), NEW act, NEW busy \in BOOLEAN, NEW blocked,
         launch \in Launch \cup {None}, exhausted \in BOOLEAN, busy => launch # None,
         StartNext(queue, act, busy, blocked)
  PROVE  /\ Looked(queue, act, busy)
         /\ pending' # <<>> => launching' \/ act # None \/ exhausted'
<1>1. CASE act = None /\ ~busy /\ queue # <<>> /\ ~blocked
  <2>1. /\ pending' = Tail(queue) /\ launching' = TRUE /\ exhausted' = exhausted
        /\ launch' = [item |-> Head(queue), at |-> "hook"]
    BY <1>1 DEF StartNext
  <2>2. /\ Head(queue) \in Prompts /\ Tail(queue) \in Seq(Prompts)
        /\ ToSet(queue) = {Head(queue)} \cup ToSet(Tail(queue))
    BY <1>1, TailSet
  <2>3. launch' \in Launch /\ launch' # None
    BY <2>1, <2>2, PromptAssumption DEF Launch
  <2>4. launch'.item = Head(queue) /\ launch'.at = "hook"
    BY <2>1
  <2> QED BY <1>1, <2>1, <2>2, <2>3, <2>4 DEF Looked
<1>2. CASE ~(act = None /\ ~busy /\ queue # <<>> /\ ~blocked)
  <2>1. /\ pending' = queue /\ launching' = busy
        /\ launch' = IF busy THEN launch ELSE None
        /\ exhausted' = (exhausted \/ (act = None /\ ~busy /\ queue # <<>>))
    BY <1>2 DEF StartNext
  <2> QED BY <2>1 DEF Looked
<1> QED BY <1>1, <1>2

LEMMA StartIfIdleLooks ==
  ASSUME TypeOK, LaunchOK, NEW queue \in Seq(Prompts), StartIfIdle(queue)
  PROVE  /\ Looked(queue, active, launching)
         /\ pending' # <<>> => launching' \/ active # None \/ compacting \/ exhausted'
<1>1. /\ launch \in Launch \cup {None} /\ exhausted \in BOOLEAN /\ launching \in BOOLEAN
      /\ launching <=> launch # None
      /\ active # None => launch = None
  BY DEF TypeOK, LaunchOK
<1>2. CASE active # None \/ launching \/ Blocked(compacting)
  <2>1. pending' = queue /\ launching' = launching /\ launch' = launch /\ exhausted' = exhausted
    BY <1>2 DEF StartIfIdle
  <2>2. Blocked(compacting) => compacting
    BY DEF Blocked
  <2> QED BY <1>1, <1>2, <2>1, <2>2 DEF Looked
<1>3. CASE ~(active # None \/ launching \/ Blocked(compacting))
  <2>1. StartNext(queue, active, launching, FALSE)
    BY <1>3 DEF StartIfIdle
  <2> QED BY <1>1, <2>1, StartNextLooks
<1> QED BY <1>2, <1>3

-----------------------------------------------------------------------------
(* The turns of the loop *)

\* A new turn is in one place and leaves the others alone.
LEMMA AdmitProps ==
  ASSUME TypeOK, Distinct(turns), NEW t \in Turns, Admit(t),
         t \in Prompts => running # t /\ t \notin ToSet(turns)
  PROVE  /\ running' \in Turns \cup {None} /\ turns' \in Seq(Turns) /\ Distinct(turns')
         /\ \A p \in Prompts : p # t => /\ running' = p <=> running = p
                                        /\ p \in ToSet(turns') <=> p \in ToSet(turns)
         /\ t \in Prompts /\ t \in ToSet(turns') => running' # t
<1>1. running \in Turns \cup {None} /\ turns \in Seq(Turns)
  BY DEF TypeOK
<1>2. CASE running = None
  <2>1. running' = t /\ turns' = turns
    BY <1>2 DEF Admit
  <2>2. \A p \in Prompts : running # p
    BY <1>2, PromptAssumption
  <2> QED BY <1>1, <2>1, <2>2
<1>3. CASE running # None
  <2>1. turns' = Append(turns, t) /\ running' = running
    BY <1>3 DEF Admit
  <2>2. turns' \in Seq(Turns) /\ ToSet(turns') = ToSet(turns) \cup {t}
    BY <1>1, <2>1, AppendSet
  <2>3. Distinct(turns')
    BY <1>1, <2>1, DistinctAppend
  <2> QED BY <1>1, <2>1, <2>2, <2>3
<1> QED BY <1>2, <1>3

\* The active prompt's turn goes from the queue to its result.
LEMMA CancelTurnInv ==
  ASSUME PromptInv, CancelTurn, UNCHANGED <<running, active, launch>>
  PROVE  /\ turns' \in Seq(Turns) /\ results' \in [Prompts -> Final \cup {None}]
         /\ PlacesOK' /\ Distinct(turns')
<1>0. /\ turns \in Seq(Turns) /\ results \in [Prompts -> Final \cup {None}]
      /\ active \in Prompts \cup {None}
      /\ PlacesOK /\ Distinct(turns)
  BY DEF PromptInv, TypeOK
<1>1. CASE ~(active # None /\ active \in ToSet(turns))
  <2>1. turns' = turns /\ results' = results
    BY <1>1 DEF CancelTurn
  <2> QED BY <1>0, <2>1 DEF PlacesOK, Assigned
<1>2. CASE active # None /\ active \in ToSet(turns)
  <2>1. PICK i \in DOMAIN turns : turns[i] = active /\ turns' = RemoveAt(turns, i)
    BY <1>2 DEF CancelTurn
  <2>2. results' = [results EXCEPT ![active] = "cancelled"]
    BY <1>2 DEF CancelTurn
  <2>3. active \in Prompts
    BY <1>0, <1>2
  <2>4. results' \in [Prompts -> Final \cup {None}]
    BY <1>0, <2>2 DEF Final
  <2>5. turns' \in Seq(Turns) /\ ToSet(turns') \subseteq ToSet(turns)
    BY <1>0, <2>1, RemoveSet
  <2>6. Distinct(turns') /\ active \notin ToSet(turns')
    BY <1>0, <2>1, <2>3, DistinctRemove
  <2>7. PlacesOK'
    <3> SUFFICES ASSUME NEW p \in Prompts
                 PROVE  (/\ running = p \/ p \in ToSet(turns) \/ results[p] # None
                              => active = p \/ Assigned(p)
                         /\ p \in ToSet(turns) => running # p
                         /\ results[p] # None => running # p /\ p \notin ToSet(turns))'
      BY DEF PlacesOK
    <3>1. CASE p = active
      BY <1>0, <1>2, <2>6, <3>1 DEF PlacesOK
    <3>2. CASE p # active
      <4>1. results'[p] = results[p]
        BY <1>0, <2>2, <2>3, <3>2
      <4> QED BY <1>0, <2>5, <3>2, <4>1 DEF PlacesOK, Assigned
    <3> QED BY <3>1, <3>2
  <2> QED BY <2>4, <2>5, <2>6, <2>7
<1> QED BY <1>1, <1>2

\* The loop is left alone, and nothing that has a turn or a result loses its slot.
LEMMA PlacesKept ==
  ASSUME PlacesOK, Distinct(turns), UNCHANGED <<running, turns, results>>,
         \A p \in Prompts : active = p \/ Assigned(p) => active' = p \/ Assigned(p)'
  PROVE  PlacesOK' /\ Distinct(turns')
BY DEF PlacesOK

\* Without an active prompt and an assigned launch the loop has nothing of a prompt.
LEMMA NoPlaces ==
  ASSUME TypeOK, PlacesOK, active = None, \A p \in Prompts : ~Assigned(p)
  PROVE  \A p \in Prompts : running # p /\ p \notin ToSet(turns) /\ results[p] = None
BY PromptAssumption DEF PlacesOK

-----------------------------------------------------------------------------
(* The steps of startNext *)

\* A launch that gives up.
LEMMA LaunchEndsInv ==
  ASSUME PromptInv, launch # None, launch.at \in {"hook", "held"},
         NEW s \in {"blocked", "failed"}, state' = [state EXCEPT ![launch.item] = s],
         LaunchEnds, UNCHANGED <<active, steered, steering, orphaned, loopVars, compactionVars>>
  PROVE  PromptInv'
<1>0. TypeOK /\ LaunchOK /\ PlacesOK /\ Distinct(turns) /\ NoPromptForgotten
  BY DEF PromptInv
<1>1. active = None /\ \A p \in Prompts : ~Assigned(p)
  BY <1>0 DEF LaunchOK, Assigned
<1>2. launch \in Launch /\ launch.item \in Prompts
  BY <1>0 DEF TypeOK, Launch
<1>3. /\ Looked(pending, active, FALSE)
      /\ pending' # <<>> => launching' \/ active # None \/ exhausted'
  <2>1. pending \in Seq(Prompts) /\ exhausted \in BOOLEAN
    BY <1>0 DEF TypeOK
  <2> QED BY <1>2, <2>1, StartNextLooks DEF LaunchEnds
<1>4. TypeOK'
  BY <1>0, <1>2, <1>3 DEF TypeOK, Looked, States, Final, loopVars, compactionVars
<1>5. LaunchOK'
  BY <1>1, <1>3 DEF LaunchOK, Looked
<1>6. PlacesOK' /\ Distinct(turns')
  BY <1>0, <1>1, PromptAssumption, PlacesKept DEF loopVars
<1>7. NoIdleQueue'
  BY <1>1, <1>3 DEF NoIdleQueue
<1>8. NoPromptForgotten'
  <2> SUFFICES ASSUME NEW p \in Prompts, state'[p] \in {"pending", "running", "steered"}
               PROVE  \/ p \in ToSet(pending') \cup orphaned'
                      \/ launch' # None /\ launch'.item = p
                      \/ \E call \in steering' : p \in call.prompts
    BY DEF NoPromptForgotten
  <2>1. p # launch.item /\ state'[p] = state[p]
    BY <1>0, <1>2 DEF TypeOK
  <2>2. p \in ToSet(pending) \cup orphaned \/ \E call \in steering : p \in call.prompts
    BY <1>0, <1>1, <2>1, PromptAssumption DEF NoPromptForgotten
  <2> QED BY <1>3, <2>2 DEF Looked
<1> QED BY <1>4, <1>5, <1>6, <1>7, <1>8 DEF PromptInv

LEMMA HookPassesInv == PromptInv /\ HookPasses => PromptInv'
<1> SUFFICES ASSUME PromptInv, HookPasses PROVE PromptInv'
  OBVIOUS
<1> USE DEF HookPasses
<1>0. TypeOK /\ LaunchOK /\ PlacesOK /\ Distinct(turns) /\ NoIdleQueue /\ NoPromptForgotten
  BY DEF PromptInv
<1>1. active = None /\ \A p \in Prompts : ~Assigned(p)
  BY <1>0 DEF LaunchOK, Assigned
<1>2. launch \in Launch /\ launch.item \in Prompts
  BY <1>0 DEF TypeOK, Launch
<1>3. \A p \in Prompts : running # p /\ p \notin ToSet(turns) /\ results[p] = None
  BY <1>0, <1>1, NoPlaces
<1>4. /\ launch' \in Launch /\ launch' # None /\ launch'.item = launch.item
      /\ ~leased => launch'.at = "assigned"
  BY <1>2, PromptAssumption DEF Launch
<1>5. LaunchOK' /\ NoIdleQueue' /\ NoPromptForgotten'
  BY <1>0, <1>1, <1>4 DEF LaunchOK, NoIdleQueue, NoPromptForgotten, compactionVars
<1>6. /\ running' \in Turns \cup {None} /\ turns' \in Seq(Turns)
      /\ PlacesOK' /\ Distinct(turns')
  <2>1. CASE leased
    <3>1. UNCHANGED <<running, turns, results>>
      BY <2>1
    <3> QED BY <1>0, <1>1, <3>1, PlacesKept, PromptAssumption DEF TypeOK
  <2>2. CASE ~leased
    <3>1. Admit(launch.item) /\ launch.item \in Turns
      BY <2>2, <1>2 DEF Turns
    <3>2. /\ running' \in Turns \cup {None} /\ turns' \in Seq(Turns) /\ Distinct(turns')
          /\ \A p \in Prompts : p # launch.item => /\ running' = p <=> running = p
                                                   /\ p \in ToSet(turns') <=> p \in ToSet(turns)
          /\ launch.item \in ToSet(turns') => running' # launch.item
      BY <1>0, <1>2, <1>3, <3>1, AdmitProps
    <3>3. \A p \in Prompts : results'[p] = None
      BY <1>3
    <3>4. \A p \in Prompts : p = launch.item => Assigned(p)'
      BY <1>4, <2>2 DEF Assigned
    <3> QED BY <1>3, <3>2, <3>3, <3>4 DEF PlacesOK
  <2> QED BY <2>1, <2>2
<1>7. TypeOK'
  BY <1>0, <1>4, <1>6 DEF TypeOK, compactionVars
<1> QED BY <1>5, <1>6, <1>7 DEF PromptInv

LEMMA LaunchActivatesInv == PromptInv /\ LaunchActivates => PromptInv'
<1> SUFFICES ASSUME PromptInv, LaunchActivates PROVE PromptInv'
  OBVIOUS
<1> USE DEF LaunchActivates
<1>0. TypeOK /\ LaunchOK /\ PlacesOK /\ Distinct(turns) /\ NoIdleQueue /\ NoPromptForgotten
  BY DEF PromptInv
<1>1. launch \in Launch /\ launch.item \in Prompts /\ active = None
  BY <1>0 DEF TypeOK, Launch, LaunchOK
<1>2. active' = launch.item /\ active' # None /\ launch' = None /\ launching' = FALSE
  BY <1>1, PromptAssumption
<1>3. TypeOK'
  BY <1>0, <1>1, <1>2 DEF TypeOK, States, loopVars, compactionVars
<1>4. LaunchOK' /\ NoIdleQueue'
  BY <1>2 DEF LaunchOK, NoIdleQueue
<1>5. PlacesOK' /\ Distinct(turns')
  BY <1>0, <1>1, <1>2, PlacesKept, PromptAssumption DEF Assigned, loopVars
<1>6. NoPromptForgotten'
  <2> SUFFICES ASSUME NEW p \in Prompts, state'[p] \in {"pending", "running", "steered"},
                      p # launch.item
               PROVE  \/ p \in ToSet(pending') \cup orphaned'
                      \/ \E call \in steering' : p \in call.prompts
    BY <1>2 DEF NoPromptForgotten
  <2>1. state'[p] = state[p]
    BY <1>0 DEF TypeOK
  <2> QED BY <1>0, <1>1, <2>1, PromptAssumption DEF NoPromptForgotten
<1> QED BY <1>3, <1>4, <1>5, <1>6 DEF PromptInv

LEMMA SettleInv ==
  ASSUME PromptInv, NEW p \in Prompts, Settle(p)
  PROVE  PromptInv'
<1> USE DEF Settle
<1>0. TypeOK /\ LaunchOK /\ PlacesOK /\ Distinct(turns) /\ NoPromptForgotten
  BY DEF PromptInv
<1>1. active = p /\ active # None /\ launch = None /\ launching = FALSE /\ results[p] \in Final
  BY <1>0, PromptAssumption DEF LaunchOK, TypeOK, Delivered
<1>2. /\ Looked(pending, None, FALSE)
      /\ pending' # <<>> => launching' \/ exhausted'
  <2>1. pending \in Seq(Prompts) /\ exhausted \in BOOLEAN
    BY <1>0 DEF TypeOK
  <2>2. StartNext(pending, None, FALSE, Blocked(compacting))
    BY <1>1
  <2> QED BY <1>1, <2>1, <2>2, StartNextLooks
<1>3. /\ state' \in [Prompts -> States] /\ steered' \in [Prompts -> SUBSET Prompts]
      /\ \A q \in Prompts : state'[q] = IF q = p \/ q \in steered[p] THEN results[p] ELSE state[q]
  BY <1>0, <1>1 DEF TypeOK, SettleWithChildren, States
<1>4. results' \in [Prompts -> Final \cup {None}] /\ results'[p] = None
      /\ \A q \in Prompts : q # p => results'[q] = results[q]
  BY <1>0 DEF TypeOK
<1>5. TypeOK'
  BY <1>0, <1>2, <1>3, <1>4 DEF TypeOK, Looked, compactionVars
<1>6. LaunchOK'
  BY <1>2 DEF LaunchOK, Looked
<1>7. PlacesOK' /\ Distinct(turns')
  <2>1. \A q \in Prompts : running # q /\ q \notin ToSet(turns) /\ results'[q] = None
    BY <1>0, <1>1, <1>4, PromptAssumption DEF PlacesOK, Assigned, Final
  <2> QED BY <1>0, <2>1 DEF PlacesOK
<1>8. NoIdleQueue'
  BY <1>2 DEF NoIdleQueue
<1>9. NoPromptForgotten'
  <2> SUFFICES ASSUME NEW q \in Prompts, state'[q] \in {"pending", "running", "steered"}
               PROVE  \/ q \in ToSet(pending') \cup orphaned'
                      \/ launch' # None /\ launch'.item = q
                      \/ \E call \in steering' : q \in call.prompts
    BY DEF NoPromptForgotten
  <2>1. q # p /\ q \notin steered[p] /\ state'[q] = state[q]
    BY <1>1, <1>3 DEF Final
  <2>2. q \in ToSet(pending) \cup orphaned \/ \E call \in steering : q \in call.prompts
    BY <1>0, <1>1, <2>1 DEF NoPromptForgotten
  <2> QED BY <1>2, <2>2 DEF Looked
<1> QED BY <1>5, <1>6, <1>7, <1>8, <1>9 DEF PromptInv

-----------------------------------------------------------------------------
(* The calls of the clients *)

LEMMA EnqueueInv ==
  ASSUME PromptInv, NEW p \in Prompts, Enqueue(p)
  PROVE  PromptInv'
<1> USE DEF Enqueue
<1>0. TypeOK /\ LaunchOK /\ PlacesOK /\ Distinct(turns) /\ NoPromptForgotten
  BY DEF PromptInv
<1>1. Append(pending, p) \in Seq(Prompts) /\ ToSet(Append(pending, p)) = ToSet(pending) \cup {p}
  BY <1>0, AppendSet DEF TypeOK
<1>2. /\ Looked(Append(pending, p), active, launching)
      /\ pending' # <<>> => launching' \/ active # None \/ compacting \/ exhausted'
  BY <1>0, <1>1, StartIfIdleLooks
<1>3. TypeOK'
  BY <1>0, <1>2 DEF TypeOK, Looked, States, loopVars, compactionVars
<1>4. /\ launch # None => launch' = launch
      /\ launch = None /\ launch' # None => active = None
  BY <1>0, <1>2 DEF LaunchOK, Looked
<1>5. LaunchOK' /\ NoIdleQueue'
  BY <1>0, <1>2, <1>4 DEF LaunchOK, NoIdleQueue, Looked, compactionVars
<1>6. PlacesOK' /\ Distinct(turns')
  BY <1>0, <1>4, PlacesKept DEF Assigned, loopVars
<1>7. NoPromptForgotten'
  <2> SUFFICES ASSUME NEW q \in Prompts, state'[q] \in {"pending", "running", "steered"}
               PROVE  \/ q \in ToSet(pending') \cup orphaned'
                      \/ launch' # None /\ launch'.item = q
                      \/ active' = q
                      \/ active' # None /\ q \in steered'[active']
                      \/ \E call \in steering' : q \in call.prompts
    BY DEF NoPromptForgotten
  <2>1. CASE q = p
    BY <1>1, <1>2, <2>1 DEF Looked
  <2>2. CASE q # p
    <3>1. state'[q] = state[q]
      BY <1>0, <2>2 DEF TypeOK
    <3> QED BY <1>0, <1>1, <1>2, <1>4, <3>1 DEF NoPromptForgotten, Looked
  <2> QED BY <2>1, <2>2
<1> QED BY <1>3, <1>5, <1>6, <1>7 DEF PromptInv

LEMMA SteerInv ==
  ASSUME PromptInv, NEW S \in SUBSET Prompts, Steer(S)
  PROVE  PromptInv'
<1> USE DEF Steer
<1>0. TypeOK /\ LaunchOK /\ PlacesOK /\ Distinct(turns) /\ NoPromptForgotten
  BY DEF PromptInv
<1>1. pending' \in Seq(Prompts) /\ ToSet(pending') = ToSet(pending) \ S
  BY <1>0, WithoutProps DEF TypeOK
<1>2. CallSteer(S) \in [prompts : SUBSET Prompts, into : Turns \cup {None}] /\ CallSteer(S).prompts = S
  BY <1>0 DEF CallSteer, TypeOK
<1>3. TypeOK'
  BY <1>0, <1>1, <1>2 DEF TypeOK, loopVars, compactionVars
<1>4. LaunchOK' /\ NoIdleQueue'
  BY <1>0 DEF LaunchOK, NoIdleQueue
<1>5. PlacesOK' /\ Distinct(turns')
  BY <1>0, PlacesKept DEF Assigned, loopVars
<1>6. NoPromptForgotten'
  <2>1. \A p \in S : \E call \in steering' : p \in call.prompts
    BY <1>2
  <2> QED BY <1>0, <1>1, <2>1 DEF NoPromptForgotten
<1> QED BY <1>3, <1>4, <1>5, <1>6 DEF PromptInv

LEMMA EnqueueOrSteerInv ==
  ASSUME PromptInv, NEW p \in Prompts, EnqueueOrSteer(p)
  PROVE  PromptInv'
<1> USE DEF EnqueueOrSteer
<1>0. TypeOK /\ LaunchOK /\ PlacesOK /\ Distinct(turns) /\ NoPromptForgotten
  BY DEF PromptInv
<1>1. /\ CallSteer({p}) \in [prompts : SUBSET Prompts, into : Turns \cup {None}]
      /\ CallSteer({p}).prompts = {p}
  BY <1>0 DEF CallSteer, TypeOK
<1>2. TypeOK'
  BY <1>0, <1>1 DEF TypeOK, States, loopVars, compactionVars
<1>3. LaunchOK' /\ NoIdleQueue'
  BY <1>0 DEF LaunchOK, NoIdleQueue
<1>4. PlacesOK' /\ Distinct(turns')
  BY <1>0, PlacesKept DEF Assigned, loopVars
<1>5. NoPromptForgotten'
  <2>1. \E call \in steering' : p \in call.prompts
    BY <1>1
  <2>2. \A q \in Prompts : q # p => state'[q] = state[q]
    BY <1>0 DEF TypeOK
  <2> QED BY <1>0, <2>1, <2>2 DEF NoPromptForgotten
<1> QED BY <1>2, <1>3, <1>4, <1>5 DEF PromptInv

LEMMA SteerResumesInv ==
  ASSUME PromptInv, NEW call \in steering, SteerResumes(call)
  PROVE  PromptInv'
<1> USE DEF SteerResumes
<1>0. TypeOK /\ LaunchOK /\ PlacesOK /\ Distinct(turns) /\ NoIdleQueue /\ NoPromptForgotten
  BY DEF PromptInv
<1>1. call.prompts \subseteq Prompts
  BY <1>0 DEF TypeOK
<1>2. state' \in [Prompts -> States] /\ \A p \in Prompts : p \notin call.prompts => state'[p] = state[p]
  BY <1>0 DEF TypeOK, States
<1>3. /\ steered' \in [Prompts -> SUBSET Prompts] /\ orphaned' \subseteq Prompts
      /\ orphaned \subseteq orphaned'
      /\ active # None => steered[active] \subseteq steered'[active]
      /\ call.prompts \subseteq orphaned' \/ (active # None /\ call.prompts \subseteq steered'[active])
  <2>1. steered \in [Prompts -> SUBSET Prompts] /\ orphaned \subseteq Prompts
        /\ active \in Prompts \cup {None}
    BY <1>0 DEF TypeOK
  <2>2. CASE call.into # None /\ active # None
    BY <1>1, <2>1, <2>2 DEF File
  <2>3. CASE ~(call.into # None /\ active # None)
    BY <1>1, <2>1, <2>3
  <2> QED BY <2>2, <2>3
<1>4. TypeOK'
  BY <1>0, <1>2, <1>3 DEF TypeOK, loopVars, compactionVars
<1>5. LaunchOK' /\ NoIdleQueue'
  BY <1>0 DEF LaunchOK, NoIdleQueue, compactionVars
<1>6. PlacesOK' /\ Distinct(turns')
  BY <1>0, PlacesKept DEF Assigned, loopVars
<1>7. NoPromptForgotten'
  <2>1. active' = active /\ pending' = pending /\ launch' = launch /\ steering' = steering \ {call}
    OBVIOUS
  <2> SUFFICES ASSUME NEW p \in Prompts, state'[p] \in {"pending", "running", "steered"},
                      p \notin call.prompts
               PROVE  \/ p \in ToSet(pending') \cup orphaned'
                      \/ launch' # None /\ launch'.item = p
                      \/ active' = p
                      \/ active' # None /\ p \in steered'[active']
                      \/ \E c \in steering' : p \in c.prompts
    BY <1>3, <2>1 DEF NoPromptForgotten
  <2>2. \/ p \in ToSet(pending) \cup orphaned
        \/ launch # None /\ launch.item = p
        \/ active = p
        \/ active # None /\ p \in steered[active]
        \/ \E c \in steering : p \in c.prompts
    BY <1>0, <1>2 DEF NoPromptForgotten
  <2> QED BY <1>3, <2>1, <2>2
<1> QED BY <1>4, <1>5, <1>6, <1>7 DEF PromptInv

LEMMA AbortPendingInv ==
  ASSUME PromptInv, NEW p \in Prompts, AbortPending(p)
  PROVE  PromptInv'
<1> USE DEF AbortPending
<1>0. TypeOK /\ LaunchOK /\ PlacesOK /\ Distinct(turns) /\ NoIdleQueue /\ NoPromptForgotten
  BY DEF PromptInv
<1>1. PICK i \in DOMAIN pending : pending[i] = p /\ pending' = RemoveAt(pending, i)
  OBVIOUS
<1>2. /\ pending' \in Seq(Prompts)
      /\ \A q \in ToSet(pending) : q # p => q \in ToSet(pending')
  BY <1>0, <1>1, RemoveSet DEF TypeOK
<1>3. TypeOK'
  BY <1>0, <1>2 DEF TypeOK, States, Final, loopVars, compactionVars
<1>4. LaunchOK' /\ NoIdleQueue'
  <2>1. pending # <<>>
    BY <1>1
  <2> QED BY <1>0, <2>1 DEF LaunchOK, NoIdleQueue, compactionVars
<1>5. PlacesOK' /\ Distinct(turns')
  BY <1>0, PlacesKept DEF Assigned, loopVars
<1>6. NoPromptForgotten'
  <2>1. state'[p] = "cancelled" /\ \A q \in Prompts : q # p => state'[q] = state[q]
    BY <1>0 DEF TypeOK
  <2> QED BY <1>0, <1>2, <2>1 DEF NoPromptForgotten
<1> QED BY <1>3, <1>4, <1>5, <1>6 DEF PromptInv

LEMMA AbortActiveInv == PromptInv /\ AbortActive => PromptInv'
<1> SUFFICES ASSUME PromptInv, AbortActive PROVE PromptInv'
  OBVIOUS
<1>1. CancelTurn /\ UNCHANGED <<queueVars, running, leased, compactionVars>>
  BY DEF AbortActive
<1>2. /\ turns' \in Seq(Turns) /\ results' \in [Prompts -> Final \cup {None}]
      /\ PlacesOK' /\ Distinct(turns')
  BY <1>1, CancelTurnInv DEF queueVars
<1>3. TypeOK'
  BY <1>1, <1>2 DEF PromptInv, TypeOK, queueVars, compactionVars
<1>4. LaunchOK' /\ NoIdleQueue' /\ NoPromptForgotten'
  BY <1>1 DEF PromptInv, LaunchOK, NoIdleQueue, NoPromptForgotten, queueVars, compactionVars
<1> QED BY <1>2, <1>3, <1>4 DEF PromptInv

LEMMA ClearInv == PromptInv /\ Clear => PromptInv'
<1> SUFFICES ASSUME PromptInv, Clear PROVE PromptInv'
  OBVIOUS
<1> USE DEF Clear
<1>0. TypeOK /\ LaunchOK /\ NoPromptForgotten
  BY DEF PromptInv
<1>1. /\ turns' \in Seq(Turns) /\ results' \in [Prompts -> Final \cup {None}]
      /\ PlacesOK' /\ Distinct(turns')
  BY CancelTurnInv
<1>2. TypeOK'
  BY <1>0, <1>1 DEF TypeOK, States, Final, compactionVars
<1>3. LaunchOK' /\ NoIdleQueue'
  BY <1>0 DEF LaunchOK, NoIdleQueue
<1>4. NoPromptForgotten'
  BY <1>0 DEF NoPromptForgotten
<1> QED BY <1>1, <1>2, <1>3, <1>4 DEF PromptInv

-----------------------------------------------------------------------------
(* The loop and the compaction *)

LEMMA StartSystemTurnInv == PromptInv /\ StartSystemTurn => PromptInv'
<1> SUFFICES ASSUME PromptInv, StartSystemTurn PROVE PromptInv'
  OBVIOUS
<1> USE DEF StartSystemTurn
<1>0. TypeOK /\ PlacesOK /\ Distinct(turns)
  BY DEF PromptInv
<1>1. System \in Turns /\ System \notin Prompts
  BY PromptAssumption DEF Turns
<1>2. /\ running' \in Turns \cup {None} /\ turns' \in Seq(Turns) /\ Distinct(turns')
      /\ \A p \in Prompts : p # System => /\ running' = p <=> running = p
                                          /\ p \in ToSet(turns') <=> p \in ToSet(turns)
  BY <1>0, <1>1, AdmitProps
<1>3. \A p \in Prompts : /\ running' = p <=> running = p
                         /\ p \in ToSet(turns') <=> p \in ToSet(turns)
  BY <1>1, <1>2
<1>4. PlacesOK'
  BY <1>0, <1>3 DEF PlacesOK, Assigned, queueVars
<1>5. TypeOK'
  BY <1>0, <1>2 DEF TypeOK, queueVars, compactionVars
<1>6. LaunchOK' /\ NoIdleQueue' /\ NoPromptForgotten'
  BY DEF PromptInv, LaunchOK, NoIdleQueue, NoPromptForgotten, queueVars, compactionVars
<1> QED BY <1>2, <1>4, <1>5, <1>6 DEF PromptInv

LEMMA EndTurnInv == PromptInv /\ EndTurn => PromptInv'
<1> SUFFICES ASSUME PromptInv, EndTurn PROVE PromptInv'
  OBVIOUS
<1> USE DEF EndTurn
<1>0. TypeOK /\ PlacesOK /\ Distinct(turns)
  BY DEF PromptInv
<1>1. /\ running \in Turns /\ turns \in Seq(Turns)
      /\ results \in [Prompts -> Final \cup {None}]
  BY <1>0 DEF TypeOK
<1>2. /\ results' \in [Prompts -> Final \cup {None}]
      /\ \A p \in Prompts : p # running => results'[p] = results[p]
  <2>1. CASE running = System
    BY <1>1, <2>1
  <2>2. CASE running # System
    <3>1. PICK r \in Final : results' = [results EXCEPT ![running] = r]
      BY <2>2
    <3> QED BY <1>1, <3>1
  <2> QED BY <2>1, <2>2
<1>3. /\ running' \in Turns \cup {None} /\ turns' \in Seq(Turns) /\ Distinct(turns')
      /\ \A p \in Prompts :
           /\ p \in ToSet(turns') => p \in ToSet(turns) /\ running' # p
           /\ running' = p => p \in ToSet(turns)
  <2>1. CASE turns = <<>>
    <3>1. running' = None /\ turns' = turns /\ ToSet(turns) = {}
      BY <2>1 DEF ToSet
    <3> QED BY <1>0, <1>1, <3>1, PromptAssumption
  <2>2. CASE turns # <<>>
    <3>1. running' = Head(turns) /\ turns' = Tail(turns)
      BY <2>2
    <3>2. /\ Head(turns) \in Turns /\ Tail(turns) \in Seq(Turns)
          /\ ToSet(turns) = {Head(turns)} \cup ToSet(Tail(turns))
      BY <1>1, <2>2, TailSet
    <3>3. Distinct(Tail(turns)) /\ (Head(turns) \in Prompts => Head(turns) \notin ToSet(Tail(turns)))
      BY <1>0, <1>1, <2>2, DistinctTail
    <3> QED BY <3>1, <3>2, <3>3
  <2> QED BY <2>1, <2>2
<1>4. PlacesOK'
  <2> SUFFICES ASSUME NEW p \in Prompts
               PROVE  /\ running' = p \/ p \in ToSet(turns') \/ results'[p] # None
                           => active = p \/ Assigned(p)
                      /\ p \in ToSet(turns') => running' # p
                      /\ results'[p] # None => running' # p /\ p \notin ToSet(turns')
    BY DEF PlacesOK, Assigned, queueVars
  <2>1. CASE p = running
    BY <1>0, <1>3, <2>1 DEF PlacesOK
  <2>2. CASE p # running
    BY <1>0, <1>2, <1>3, <2>2 DEF PlacesOK
  <2> QED BY <2>1, <2>2
<1>5. TypeOK'
  BY <1>0, <1>2, <1>3 DEF TypeOK, queueVars, compactionVars
<1>6. LaunchOK' /\ NoIdleQueue' /\ NoPromptForgotten'
  BY DEF PromptInv, LaunchOK, NoIdleQueue, NoPromptForgotten, queueVars, compactionVars
<1> QED BY <1>3, <1>4, <1>5, <1>6 DEF PromptInv

LEMMA ReleaseLeaseInv == PromptInv /\ ReleaseLease => PromptInv'
<1> SUFFICES ASSUME PromptInv, ReleaseLease PROVE PromptInv'
  OBVIOUS
<1> USE DEF ReleaseLease
<1>0. TypeOK /\ LaunchOK /\ PlacesOK /\ Distinct(turns) /\ NoIdleQueue /\ NoPromptForgotten
  BY DEF PromptInv
<1>1. CASE ~(launch # None /\ launch.at = "held")
  <2>1. UNCHANGED <<running, turns, launch>>
    BY <1>1
  <2>2. TypeOK' /\ LaunchOK' /\ NoIdleQueue' /\ NoPromptForgotten'
    BY <1>0, <2>1 DEF TypeOK, LaunchOK, NoIdleQueue, NoPromptForgotten, compactionVars
  <2>3. PlacesOK' /\ Distinct(turns')
    BY <1>0, <2>1, PlacesKept DEF Assigned
  <2> QED BY <2>2, <2>3 DEF PromptInv
<1>2. CASE launch # None /\ launch.at = "held"
  <2>1. active = None /\ \A p \in Prompts : ~Assigned(p)
    BY <1>0, <1>2 DEF LaunchOK, Assigned
  <2>2. launch \in Launch /\ launch.item \in Prompts
    BY <1>0, <1>2 DEF TypeOK, Launch
  <2>3. \A p \in Prompts : running # p /\ p \notin ToSet(turns) /\ results[p] = None
    BY <1>0, <2>1, NoPlaces
  <2>4. /\ launch' \in Launch /\ launch' # None /\ launch'.item = launch.item
        /\ launch'.at = "assigned"
    BY <1>2, <2>2, PromptAssumption DEF Launch
  <2>5. Admit(launch.item) /\ launch.item \in Turns
    BY <1>2, <2>2 DEF Turns
  <2>6. /\ running' \in Turns \cup {None} /\ turns' \in Seq(Turns) /\ Distinct(turns')
        /\ \A p \in Prompts : p # launch.item => /\ running' = p <=> running = p
                                                 /\ p \in ToSet(turns') <=> p \in ToSet(turns)
        /\ launch.item \in ToSet(turns') => running' # launch.item
    BY <1>0, <2>2, <2>3, <2>5, AdmitProps
  <2>7. PlacesOK'
    <3>1. \A p \in Prompts : p = launch.item => Assigned(p)'
      BY <2>4 DEF Assigned
    <3>2. \A p \in Prompts : results'[p] = None
      BY <2>3
    <3> QED BY <2>3, <2>6, <3>1, <3>2 DEF PlacesOK
  <2>8. TypeOK'
    BY <1>0, <2>4, <2>6 DEF TypeOK, compactionVars
  <2>9. LaunchOK' /\ NoIdleQueue' /\ NoPromptForgotten'
    BY <1>0, <1>2, <2>1, <2>4 DEF LaunchOK, NoIdleQueue, NoPromptForgotten, compactionVars
  <2> QED BY <2>6, <2>7, <2>8, <2>9 DEF PromptInv
<1> QED BY <1>1, <1>2

\* The event at the end of a compaction.
LEMMA CompactionEndsInv ==
  ASSUME PromptInv, NEW c, DidFinishCompaction(c), compacting' \in BOOLEAN, unwinding' \in Nat,
         UNCHANGED <<state, active, steered, steering, orphaned, loopVars>>
  PROVE  PromptInv'
<1>0. TypeOK /\ LaunchOK /\ PlacesOK /\ Distinct(turns) /\ NoPromptForgotten
  BY DEF PromptInv
<1>1. /\ Looked(pending, active, launching)
      /\ pending' # <<>> => launching' \/ active # None \/ exhausted'
  <2>1. /\ pending \in Seq(Prompts) /\ launching \in BOOLEAN /\ exhausted \in BOOLEAN
        /\ launch \in Launch \cup {None} /\ (launching => launch # None)
    BY <1>0 DEF TypeOK, LaunchOK
  <2> QED BY <2>1, StartNextLooks DEF DidFinishCompaction
<1>2. /\ launch # None => launch' = launch
      /\ launch = None /\ launch' # None => active = None
  BY <1>0, <1>1 DEF LaunchOK, Looked
<1>3. TypeOK'
  BY <1>0, <1>1 DEF TypeOK, Looked, loopVars
<1>4. LaunchOK' /\ NoIdleQueue'
  BY <1>0, <1>1, <1>2 DEF LaunchOK, NoIdleQueue, Looked
<1>5. PlacesOK' /\ Distinct(turns')
  BY <1>0, <1>2, PlacesKept DEF Assigned, loopVars
<1>6. NoPromptForgotten'
  BY <1>0, <1>1, <1>2 DEF NoPromptForgotten, Looked
<1> QED BY <1>3, <1>4, <1>5, <1>6 DEF PromptInv

\* A compaction begins or is cancelled, or a lease is given: nothing of the queue changes.
LEMMA SurroundingsInv ==
  ASSUME PromptInv, UNCHANGED <<queueVars, running, turns, results>>, leased' \in BOOLEAN,
         compacting' \in BOOLEAN, unwinding' \in Nat,
         compacting \/ unwinding > 0 => compacting' \/ unwinding' > 0
  PROVE  PromptInv'
<1>1. TypeOK' /\ LaunchOK' /\ NoIdleQueue' /\ NoPromptForgotten'
  BY DEF PromptInv, TypeOK, LaunchOK, NoIdleQueue, NoPromptForgotten, queueVars
<1>2. PlacesOK' /\ Distinct(turns')
  BY PlacesKept DEF PromptInv, Assigned, queueVars
<1> QED BY <1>1, <1>2 DEF PromptInv

-----------------------------------------------------------------------------
(* The theorems *)

LEMMA NextInv == PromptInv /\ [Next]_vars => PromptInv'
<1> SUFFICES ASSUME PromptInv, [Next]_vars PROVE PromptInv'
  OBVIOUS
<1>0. /\ leased \in BOOLEAN /\ compacting \in BOOLEAN /\ unwinding \in Nat
  BY DEF PromptInv, TypeOK
<1>1. CASE HookBlocks \/ LaunchFails
  BY <1>1, LaunchEndsInv DEF HookBlocks, LaunchFails
<1>2. CASE HookPasses \/ LaunchActivates
  BY <1>2, HookPassesInv, LaunchActivatesInv
<1>3. CASE \E p \in Prompts : Settle(p) \/ Enqueue(p) \/ EnqueueOrSteer(p) \/ AbortPending(p)
  BY <1>3, SettleInv, EnqueueInv, EnqueueOrSteerInv, AbortPendingInv
<1>4. CASE \E S \in SUBSET Prompts : Steer(S)
  BY <1>4, SteerInv
<1>5. CASE \E call \in steering : SteerResumes(call)
  BY <1>5, SteerResumesInv
<1>6. CASE AbortActive \/ Clear \/ StartSystemTurn \/ EndTurn \/ ReleaseLease
  BY <1>6, AbortActiveInv, ClearInv, StartSystemTurnInv, EndTurnInv, ReleaseLeaseInv
<1>7. CASE FinishCompaction
  BY <1>0, <1>7, CompactionEndsInv DEF FinishCompaction
<1>8. CASE WorkerReturns
  <2>1. unwinding' \in Nat
    BY <1>0, <1>8 DEF WorkerReturns
  <2> QED BY <1>0, <1>8, <2>1, CompactionEndsInv DEF WorkerReturns
<1>9. CASE AcquireLease \/ BeginCompaction
  <2>1. /\ UNCHANGED <<queueVars, running, turns, results>>
        /\ leased' \in BOOLEAN /\ compacting' \in BOOLEAN /\ unwinding' \in Nat
        /\ compacting \/ unwinding > 0 => compacting' \/ unwinding' > 0
    BY <1>0, <1>9 DEF AcquireLease, BeginCompaction, loopVars, compactionVars
  <2> QED BY <2>1, SurroundingsInv
<1>10. CASE CancelCompaction
  <2>1. /\ UNCHANGED <<queueVars, running, turns, results, leased>>
        /\ compacting' = FALSE /\ unwinding' = unwinding + 1
    BY <1>10 DEF CancelCompaction, loopVars
  <2>2. leased' \in BOOLEAN /\ compacting' \in BOOLEAN
    BY <1>0, <2>1
  <2>3. unwinding' \in Nat /\ unwinding' > 0
    BY <1>0, <2>1
  <2> QED BY <2>1, <2>2, <2>3, SurroundingsInv
<1>11. CASE UNCHANGED vars
  <2>1. /\ UNCHANGED <<queueVars, running, turns, results>>
        /\ UNCHANGED <<leased, compacting, unwinding>>
    BY <1>11 DEF vars, loopVars, compactionVars
  <2> QED BY <1>0, <2>1, SurroundingsInv
<1> QED
  BY <1>1, <1>2, <1>3, <1>4, <1>5, <1>6, <1>7, <1>8, <1>9, <1>10, <1>11
  DEF Next, Calls, Continue

LEMMA PromptInvariant == Spec => []PromptInv
BY InitInv, NextInv, PTL DEF Spec

\* The loop never has the turns of two prompts, however late results are delivered and
\* however long launches wait for hooks and leases.
THEOREM OneTurnForPrompts == Spec => []OnePromptTurn
<1>1. PromptInv => OnePromptTurn
  <2> SUFFICES ASSUME PromptInv PROVE OnePromptTurn
    OBVIOUS
  <2>1. PlacesOK /\ LaunchOK
    BY DEF PromptInv
  <2>2. ASSUME NEW p \in Prompts, NEW q \in Prompts,
               p \in ToSet(turns) \cup {running}, q \in ToSet(turns) \cup {running}
        PROVE  p = q
    BY <2>1, <2>2, PromptAssumption DEF PlacesOK, LaunchOK, Assigned
  <2>3. \A p \in Prompts : p \in ToSet(turns) => running # p
    BY <2>1 DEF PlacesOK
  <2> QED BY <2>2, <2>3 DEF OnePromptTurn
<1> QED BY <1>1, PromptInvariant, PTL

\* A waiting prompt always has a launch, an active prompt or a compaction that will make
\* the service look at its queue.
THEOREM QueueNeverIdle == Spec => []NoIdleQueue
<1>1. PromptInv => NoIdleQueue
  BY DEF PromptInv
<1> QED BY <1>1, PromptInvariant, PTL

\* An unsettled prompt is always in a place from which it is settled, but for the steers
\* that are refused or come too late.
THEOREM PromptsAccountedFor == Spec => []NoPromptForgotten
<1>1. PromptInv => NoPromptForgotten
  BY DEF PromptInv
<1> QED BY <1>1, PromptInvariant, PTL

\* active changes when a prompt settles, after the steers its turn took, and when a launch
\* activates, while no prompt is active.
LEMMA SteersKept ==
  ASSUME PromptInv, SteerFindsItsPrompt, [Next]_vars
  PROVE  SteerFindsItsPrompt'
<1> USE DEF SteerFindsItsPrompt
<1>0. TypeOK /\ LaunchOK /\ PlacesOK
  BY DEF PromptInv
<1>1. ASSUME NEW S, active # None, CallSteer(S).into \in Prompts
      PROVE  active = CallSteer(S).into
  BY <1>0, <1>1 DEF CallSteer, PlacesOK, LaunchOK, Assigned
<1>2. CASE LaunchActivates
  <2>1. active = None
    BY <1>0, <1>2 DEF LaunchActivates, LaunchOK
  <2> QED BY <1>2, <2>1, PromptAssumption DEF LaunchActivates
<1>3. ASSUME NEW p \in Prompts, Settle(p) PROVE SteerFindsItsPrompt'
  BY <1>3 DEF Settle, SteersFirst
<1>4. ASSUME NEW S \in SUBSET Prompts, Steer(S) PROVE SteerFindsItsPrompt'
  BY <1>1, <1>4 DEF Steer
<1>5. ASSUME NEW p \in Prompts, EnqueueOrSteer(p) PROVE SteerFindsItsPrompt'
  BY <1>1, <1>5 DEF EnqueueOrSteer
<1>6. CASE active' = active /\ steering' \subseteq steering
  BY <1>6
<1>7. ASSUME NEW call \in steering, SteerResumes(call) PROVE SteerFindsItsPrompt'
  BY <1>6, <1>7 DEF SteerResumes
<1>8. ASSUME NEW p \in Prompts, Enqueue(p) \/ AbortPending(p) PROVE SteerFindsItsPrompt'
  BY <1>6, <1>8 DEF Enqueue, AbortPending
<1>9. CASE HookBlocks \/ LaunchFails \/ HookPasses
  BY <1>6, <1>9 DEF HookBlocks, LaunchFails, HookPasses
<1>10. CASE AbortActive \/ Clear \/ StartSystemTurn \/ AcquireLease \/ BeginCompaction
            \/ CancelCompaction
  BY <1>6, <1>10 DEF AbortActive, Clear, StartSystemTurn, AcquireLease, BeginCompaction,
                     CancelCompaction, queueVars
<1>11. CASE EndTurn \/ ReleaseLease \/ FinishCompaction \/ WorkerReturns \/ UNCHANGED vars
  BY <1>6, <1>11 DEF EndTurn, ReleaseLease, FinishCompaction, WorkerReturns, queueVars, vars
<1> QED
  BY <1>2, <1>3, <1>4, <1>5, <1>7, <1>8, <1>9, <1>10, <1>11 DEF Next, Calls, Continue

\* A steer the turn of a prompt has taken finds that prompt still active when it resumes, so
\* that its prompts settle with it.
THEOREM SteersFindTheirPrompt == Spec => []SteerFindsItsPrompt
<1>1. Init => SteerFindsItsPrompt
  BY DEF Init, SteerFindsItsPrompt
<1> QED BY <1>1, SteersKept, PromptInvariant, PTL DEF Spec
=============================================================================
