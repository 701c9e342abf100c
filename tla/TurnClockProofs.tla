--------------------------- MODULE TurnClockProofs ---------------------------
(***************************************************************************)
(* Facts about the turn clock and about sequences that the proofs of both  *)
(* runtimes rest on.                                                       *)
(***************************************************************************)
EXTENDS TurnClock, Sequences, SequencesExt, FiniteSetTheorems, WellFoundedInduction, TLAPS

-----------------------------------------------------------------------------
(* The clock *)

\* The order of the naturals, as the relation the library proves well-founded.
LEMMA NatOrder ==
  ASSUME NEW x \in Nat, NEW y \in Nat, x < y
  PROVE  <<x, y>> \in OpToRel(<, Nat)
BY DEF OpToRel

\* LeastFree stops at the first id that is not cancelled: there is one among
\* n .. n + |C|, and the least one is within reach of the CHOOSE.
LEMMA LeastFreeProps ==
  ASSUME NEW n \in Nat, NEW C \in SUBSET Nat, IsFiniteSet(C)
  PROVE  /\ LeastFree(n, C) \in Nat
         /\ LeastFree(n, C) >= n
         /\ LeastFree(n, C) \notin C
         /\ \A k \in n .. (LeastFree(n, C) - 1) : k \in C
<1> DEFINE top == n + Cardinality(C)
           free == {m \in n .. top : m \notin C}
<1>1. Cardinality(C) \in Nat
  BY FS_CardinalityType
<1>2. top \in Nat /\ top >= n
  BY <1>1
<1>3. free # {}
  <2> SUFFICES ASSUME free = {} PROVE FALSE
    OBVIOUS
  <2>1. (n .. top) \in SUBSET C
    OBVIOUS
  <2>2. Cardinality(n .. top) <= Cardinality(C)
    BY <2>1, FS_Subset
  <2>3. Cardinality(n .. top) = top - n + 1
    BY <1>2, FS_Interval
  <2> QED BY <2>2, <2>3, <1>1
<1>4. PICK m \in free : \A y \in free : ~(<<y, m>> \in OpToRel(<, Nat))
  <2>1. free \subseteq Nat
    BY <1>2
  <2> QED BY <2>1, <1>3, NatLessThanWellFounded, WFMin
<1>5. \A y \in free : ~(y < m)
  <2> SUFFICES ASSUME NEW y \in free, y < m PROVE FALSE
    OBVIOUS
  <2>1. y \in Nat /\ m \in Nat
    BY <1>2
  <2>2. <<y, m>> \in OpToRel(<, Nat)
    BY <2>1, NatOrder
  <2> QED BY <2>2, <1>4
<1>6. m \in n .. top /\ m \notin C /\ \A k \in n .. (m - 1) : k \in C
  BY <1>5, <1>2
<1>7. LeastFree(n, C) \in n .. top
      /\ LeastFree(n, C) \notin C
      /\ \A k \in n .. (LeastFree(n, C) - 1) : k \in C
  BY <1>6 DEF LeastFree
<1> QED BY <1>7, <1>2

\* What advanceTurnClock returns: it moves forward over cancelled ids only,
\* stops at an id that is free, and forgets exactly the ids it passed.
LEMMA AdvanceProps ==
  ASSUME NEW n \in Nat, NEW C \in SUBSET Nat, IsFiniteSet(C)
  PROVE  LET c == AdvanceTurnClock(n, C) IN
         /\ c \in Clock
         /\ c.next >= n
         /\ c.next \notin C
         /\ \A k \in Nat : n <= k /\ k < c.next => k \in C
         /\ c.cancelled = {id \in C : id >= c.next}
         /\ IsFiniteSet(c.cancelled)
<1> DEFINE D == {id \in C : id >= n}
           free == LeastFree(n, D)
           rest == {id \in C : id >= free}
<1>1. D \in SUBSET Nat /\ IsFiniteSet(D)
  <2>1. D \in SUBSET C
    OBVIOUS
  <2> QED BY <2>1, FS_Subset
<1>2. free \in Nat /\ free >= n /\ free \notin D /\ \A k \in n .. (free - 1) : k \in D
  BY <1>1, LeastFreeProps
<1>3. rest \in SUBSET C /\ IsFiniteSet(rest)
  <2>1. rest \in SUBSET C
    OBVIOUS
  <2> QED BY <2>1, FS_Subset
<1>4. AdvanceTurnClock(n, C) = [next |-> free, cancelled |-> rest]
  BY DEF AdvanceTurnClock
<1> DEFINE c == AdvanceTurnClock(n, C)
<1> HIDE DEF free
<1>5. c.next = free /\ c.cancelled = rest
  BY <1>4
<1>6. c \in Clock
  <2>1. rest \in SUBSET Nat /\ free \in Nat
    BY <1>2, <1>3
  <2> HIDE DEF rest
  <2> QED BY <2>1, <1>4 DEF Clock
<1> HIDE DEF c
<1>7. /\ c \in Clock /\ c.next >= n /\ c.next \notin C
      /\ \A k \in Nat : n <= k /\ k < c.next => k \in C
      /\ c.cancelled = {id \in C : id >= c.next}
      /\ IsFiniteSet(c.cancelled)
  BY <1>2, <1>3, <1>5, <1>6
<1> QED BY <1>7 DEF c
\* The effect of the wire records on a well-formed clock.
LEMMA PromptProps ==
  ASSUME NEW c \in Clock, IsFiniteSet(c.cancelled)
  PROVE  LET d == ApplyPrompt(c) IN
         /\ d \in Clock /\ IsFiniteSet(d.cancelled)
         /\ d.next > c.next
         /\ d.next \notin d.cancelled
         /\ d.cancelled \subseteq c.cancelled
         /\ \A k \in Nat : c.next < k /\ k < d.next => k \in c.cancelled
         /\ \A k \in c.cancelled : k >= d.next => k \in d.cancelled
         /\ \A k \in d.cancelled : k >= d.next
<1> DEFINE d == AdvanceTurnClock(c.next + 1, c.cancelled)
<1>1. c.next \in Nat /\ c.next + 1 \in Nat /\ c.cancelled \in SUBSET Nat
  BY DEF Clock
<1>2. /\ d \in Clock /\ d.next >= c.next + 1 /\ d.next \notin c.cancelled
      /\ \A k \in Nat : c.next + 1 <= k /\ k < d.next => k \in c.cancelled
      /\ d.cancelled = {id \in c.cancelled : id >= d.next}
      /\ IsFiniteSet(d.cancelled)
  BY <1>1, AdvanceProps
<1>3. ApplyPrompt(c) = d
  BY DEF ApplyPrompt
<1> HIDE DEF d
<1>4. d.next \in Nat
  BY <1>2 DEF Clock
<1>5. d.next > c.next
  BY <1>1, <1>2, <1>4
<1>6. d.next \notin d.cancelled /\ d.cancelled \subseteq c.cancelled
  BY <1>2
<1>7. \A k \in Nat : c.next < k /\ k < d.next => k \in c.cancelled
  BY <1>1, <1>2, <1>4
<1>8. /\ \A k \in c.cancelled : k >= d.next => k \in d.cancelled
      /\ \A k \in d.cancelled : k >= d.next
  BY <1>2
<1> QED BY <1>2, <1>3, <1>5, <1>6, <1>7, <1>8

LEMMA CancelProps ==
  ASSUME NEW c \in Clock, IsFiniteSet(c.cancelled), c.next \notin c.cancelled,
         NEW ids \in SUBSET Nat, IsFiniteSet(ids)
  PROVE  LET d == ApplyCancel(c, ids) IN
         /\ d \in Clock /\ IsFiniteSet(d.cancelled)
         /\ d.next >= c.next
         /\ d.next \notin d.cancelled
         /\ d.cancelled \subseteq c.cancelled \cup ids
         /\ \A k \in Nat : c.next <= k /\ k < d.next => k \in c.cancelled \cup ids
         /\ \A k \in c.cancelled \cup ids : k >= d.next => k \in d.cancelled
         /\ (\A k \in ids : k < c.next) => d = c
<1> DEFINE fresh == {id \in ids : id >= c.next}
           C == c.cancelled \cup fresh
           d == AdvanceTurnClock(c.next, C)
<1>1. c.next \in Nat /\ c.cancelled \in SUBSET Nat
  BY DEF Clock
<1>2. CASE fresh = {}
  <2>1. ApplyCancel(c, ids) = c
    BY <1>2 DEF ApplyCancel
  <2>2. \A k \in ids : ~(k >= c.next)
    BY <1>2
  <2> QED BY <1>1, <2>1, <2>2
<1>3. CASE fresh # {}
  <2>1. ApplyCancel(c, ids) = d
    BY <1>3 DEF ApplyCancel
  <2>2. fresh \in SUBSET ids /\ IsFiniteSet(fresh)
    <3>1. fresh \in SUBSET ids
      OBVIOUS
    <3> QED BY <3>1, FS_Subset
  <2>3. PICK k0 \in fresh : TRUE
    BY <1>3
  <2>4. k0 \in ids /\ ~(k0 < c.next)
    <3>1. k0 \in ids /\ k0 >= c.next
      BY <2>3
    <3> QED BY <1>1, <3>1
  <2>5. \A k \in ids : k \notin fresh => k < c.next
    BY <1>1
  <2> HIDE DEF fresh
  <2>6. C \in SUBSET Nat /\ IsFiniteSet(C)
    BY <1>1, <2>2, FS_Union
  <2> HIDE DEF C
  <2>7. /\ d \in Clock /\ d.next >= c.next /\ d.next \notin C
        /\ \A k \in Nat : c.next <= k /\ k < d.next => k \in C
        /\ d.cancelled = {id \in C : id >= d.next}
        /\ IsFiniteSet(d.cancelled)
    BY <1>1, <2>6, AdvanceProps
  <2> HIDE DEF d
  <2>8. d.next \in Nat
    BY <2>7 DEF Clock
  <2>9. d.next \notin d.cancelled /\ d.cancelled \subseteq c.cancelled \cup ids
    BY <2>2, <2>7 DEF C
  <2>10. \A k \in Nat : c.next <= k /\ k < d.next => k \in c.cancelled \cup ids
    BY <2>2, <2>7 DEF C
  <2>11. ASSUME NEW k \in c.cancelled \cup ids, k >= d.next
         PROVE  k \in d.cancelled
    <3>1. k \in Nat /\ ~(k < c.next)
      <4>1. k \in Nat /\ d.next >= c.next
        BY <1>1, <2>7
      <4> QED BY <1>1, <2>8, <2>11, <4>1
    <3>2. k \in C
      BY <2>5, <3>1 DEF C
    <3> QED BY <2>7, <2>11, <3>2
  <2> QED BY <2>1, <2>4, <2>7, <2>9, <2>10, <2>11
<1> QED BY <1>2, <1>3

LEMMA LoopEventProps ==
  ASSUME NEW c, NEW id \in Nat, c.next \in Nat, id < c.next
  PROVE  ApplyLoopEvent(c, id) = c
BY DEF ApplyLoopEvent

-----------------------------------------------------------------------------
(* Sequences *)

\* The members of a sequence with one element removed.
LEMMA RemoveAtProps ==
  ASSUME NEW S, NEW s \in Seq(S), NEW i \in 1 .. Len(s)
  PROVE  /\ RemoveAt(s, i) \in Seq(S)
         /\ Len(RemoveAt(s, i)) = Len(s) - 1
         /\ \A j \in 1 .. (Len(s) - 1) : RemoveAt(s, i)[j] = IF j < i THEN s[j] ELSE s[j + 1]
<1> DEFINE a == SubSeq(s, 1, i - 1)
           b == SubSeq(s, i + 1, Len(s))
<1>1. a \in Seq(S) /\ Len(a) = i - 1 /\ \A j \in 1 .. (i - 1) : a[j] = s[j]
  OBVIOUS
<1>2. b \in Seq(S) /\ Len(b) = Len(s) - i /\ \A j \in 1 .. (Len(s) - i) : b[j] = s[j + i]
  OBVIOUS
<1>3. RemoveAt(s, i) = a \o b
  BY DEF RemoveAt
<1> HIDE DEF a, b
<1>4. a \o b \in Seq(S) /\ Len(a \o b) = Len(s) - 1
  <2>1. a \in Seq(S) /\ b \in Seq(S)
    BY <1>1, <1>2
  <2>2. a \o b \in Seq(S) /\ Len(a \o b) = Len(a) + Len(b)
    BY <2>1
  <2> QED BY <1>1, <1>2, <2>2
<1>5. ASSUME NEW j \in 1 .. (Len(s) - 1)
      PROVE  (a \o b)[j] = IF j < i THEN s[j] ELSE s[j + 1]
  <2>1. (a \o b)[j] = IF j <= Len(a) THEN a[j] ELSE b[j - Len(a)]
    BY <1>1, <1>2
  <2> QED BY <1>1, <1>2, <2>1
<1> QED BY <1>3, <1>4, <1>5
=============================================================================
