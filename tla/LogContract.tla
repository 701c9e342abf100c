----------------------------- MODULE LogContract -----------------------------
(***************************************************************************)
(* What IAppendLogStore promises of one log                                *)
(* (persistence/interface/appendLogStore.ts).  stored is the content the   *)
(* log has for sure; tails[g] are the records a buffer generation has      *)
(* accepted and storage has not acknowledged, in the order of the appends; *)
(* cutover[g] says that a rewrite has been called and has not replaced the *)
(* log yet.  Nothing enters stored twice, out of order, ahead of an older  *)
(* generation, or between a cutover and its replacement: so a rewrite      *)
(* replaces the history that was durable when it was called and nothing    *)
(* else.                                                                   *)
(***************************************************************************)
EXTENDS Naturals, Sequences

CONSTANTS Records, Snapshots, Gens

VARIABLES stored, tails, cutover

contractVars == <<stored, tails, cutover>>

Init ==
  /\ stored = <<>>
  /\ tails = [g \in Gens |-> <<>>]
  /\ cutover = [g \in Gens |-> FALSE]

\* A generation does storage I/O when every older one has retired.
IsOldest(g) == \A h \in Gens : h < g => tails[h] = <<>>

\* The first n accepted records of g become stored.
Moved(g, n) == stored \o SubSeq(tails[g], 1, n)

Accept(g, r) ==
  /\ tails' = [tails EXCEPT ![g] = Append(@, r)]
  /\ UNCHANGED <<stored, cutover>>

Commit(g) ==
  /\ IsOldest(g) /\ ~cutover[g]
  /\ \E n \in 1..Len(tails[g]) :
       /\ stored' = Moved(g, n)
       /\ tails' = [tails EXCEPT ![g] = SubSeq(@, n + 1, Len(@))]
  /\ UNCHANGED cutover

\* rewrite is called: from here on the history is frozen.
Cutover(g) == cutover' = [cutover EXCEPT ![g] = TRUE] /\ UNCHANGED <<stored, tails>>

\* The snapshot replaces the history, the live tail stays.  Another rewrite may be waiting.
Replace(g, snapshot) ==
  /\ IsOldest(g) /\ cutover[g]
  /\ stored' = snapshot
  /\ \E more \in BOOLEAN : cutover' = [cutover EXCEPT ![g] = more]
  /\ UNCHANGED tails

\* A rewrite fails and leaves everything as it is.
GiveUp(g) ==
  /\ cutover[g] /\ cutover' = [cutover EXCEPT ![g] = FALSE]
  /\ UNCHANGED <<stored, tails>>

\* A generation whose storage failed retires: what it could not get acknowledged is
\* dropped, but for the part that had reached the file.
Abandon(g) ==
  /\ IsOldest(g) /\ ~cutover[g]
  /\ \E n \in 0..Len(tails[g]) : stored' = Moved(g, n)
  /\ tails' = [tails EXCEPT ![g] = <<>>]
  /\ UNCHANGED cutover

\* The process ends: every tail is lost, but for what had reached the file.
Crash ==
  /\ \/ UNCHANGED stored
     \/ \E g \in Gens : IsOldest(g) /\ \E n \in 0..Len(tails[g]) : stored' = Moved(g, n)
  /\ tails' = [g \in Gens |-> <<>>]
  /\ cutover' = [g \in Gens |-> FALSE]

Next ==
  \/ \E g \in Gens :
       \/ \E r \in Records : Accept(g, r)
       \/ Commit(g)
       \/ Cutover(g)
       \/ \E snapshot \in Snapshots : Replace(g, snapshot)
       \/ GiveUp(g)
       \/ Abandon(g)
  \/ Crash

Spec == Init /\ [][Next]_contractVars
=============================================================================
