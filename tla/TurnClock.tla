------------------------------ MODULE TurnClock ------------------------------
(***************************************************************************)
(* The persisted turn clock of an agent: the TurnModel of                  *)
(* agent/loop/turnOps.ts and the three wire records that move it.          *)
(*                                                                         *)
(* A clock is a record                                                     *)
(*    next      : nextTurnId, the id the next started turn is given;       *)
(*    cancelled : cancelledTurnIds, ids at or above next that were         *)
(*                reserved by queued turns and cancelled before starting.  *)
(* The code keeps cancelledTurnIds as a sorted array without duplicates;   *)
(* only membership is ever read, so a set stands for it.                   *)
(***************************************************************************)
EXTENDS Naturals, FiniteSets

Clock == [next : Nat, cancelled : SUBSET Nat]

InitialClock == [next |-> 0, cancelled |-> {}]

\* The first id from n on that is not in C: where the loop
\* `while (pendingCancellations.delete(nextTurnId)) nextTurnId += 1` stops.
LeastFree(n, C) ==
  CHOOSE m \in n .. (n + Cardinality(C)) :
     m \notin C /\ \A k \in n .. (m - 1) : k \in C

\* Mutant: a clock that steps over no cancelled reservation.
AdvanceWithoutSkip(next, C) ==
  [next |-> next, cancelled |-> {id \in C : id >= next}]

\* advanceTurnClock: moves to next, skips cancelled reservations and forgets
\* the ones that are passed.
AdvanceTurnClock(next, C) ==
  LET free == LeastFree(next, {id \in C : id >= next})
  IN  [next |-> free, cancelled |-> {id \in C : id >= free}]

\* turn.prompt, dispatched when a turn starts.
ApplyPrompt(c) == AdvanceTurnClock(c.next + 1, c.cancelled)

\* turn.cancel with a target: an id that is not yet used is remembered.  The
\* set argument stands for a run of such records with nothing in between; ids
\* below the clock are ignored one by one.
ApplyCancel(c, ids) ==
  LET fresh == {id \in ids : id >= c.next}
  IN  IF fresh = {} THEN c ELSE AdvanceTurnClock(c.next, c.cancelled \cup fresh)

\* The context.append_loop_event reducer: an event of a turn the clock has not
\* passed yet moves the clock behind it.
ApplyLoopEvent(c, id) ==
  IF id >= c.next THEN AdvanceTurnClock(id + 1, c.cancelled) ELSE c
=============================================================================
