-------------------------- MODULE DurableWaitProofs ---------------------------
(***************************************************************************)
(* The safety properties of the durable wait, for every set of waits and   *)
(* any number of crashes and failures of the logs.                         *)
(***************************************************************************)
EXTENDS DurableWait, TLAPS

\* A wait that is active has not ended, live or on disk, and the journal on disk is a
\* prefix of the live one: what has ended there has ended so here.
JournalOK ==
  /\ \A w \in Waits : wire.wait = w => wire.ended[w] = None
  /\ \A w \in Waits : flushed.wait = w => flushed.ended[w] = None
  /\ \A w \in Waits : flushed.ended[w] # None => wire.ended[w] = flushed.ended[w]

\* A message on its way to the loop is for a wait that timed out and was not reported.
ExpiringOK == \A w \in expiring : wire.ended[w] = "timeout" /\ posts[w] = 0

\* A timer is armed only once the restore is over, and an expire belongs to an agent that
\* is there.
TimerNeedsUp ==
  /\ timer # None => phase = "up"
  /\ expiring # {} => phase # "down"

WaitInv ==
  TypeOK /\ TimerFollowsWait /\ TimerNeedsUp /\ JournalOK /\ ExpiringOK /\ TimeoutToldOnce

-----------------------------------------------------------------------------
(* The end of a wait in the journal *)

\* waitTerminated ends the active wait and leaves the others alone.
LEMMA EndedWire ==
  ASSUME NEW m \in Wire, NEW reason \in Ends \cup {"replaced"}
  PROVE  /\ Ended(m, reason) \in Wire
         /\ Ended(m, reason).wait = None
         /\ Ended(m, reason).told = m.told
         /\ \A w \in Waits : Ended(m, reason).ended[w] = IF w = m.wait THEN reason ELSE m.ended[w]
<1>1. CASE m.wait = None
  BY <1>1, WaitAssumption DEF Ended, Wire
<1>2. CASE m.wait # None
  <2>1. m.wait \in Waits /\ m.ended \in [Waits -> Ends \cup {"replaced", None}]
    BY <1>2 DEF Wire
  <2> QED BY <1>2, <2>1 DEF Ended, Wire
<1> QED BY <1>1, <1>2

\* begin puts a wait that is not in the journal in the place of the active one.
LEMMA BegunWire ==
  ASSUME NEW m \in Wire, NEW w \in Waits
  PROVE  LET n == [Ended(m, "replaced") EXCEPT !.wait = w]
         IN /\ n \in Wire /\ n.wait = w
            /\ \A v \in Waits : n.ended[v] = IF v = m.wait THEN "replaced" ELSE m.ended[v]
<1>1. Ended(m, "replaced") \in Wire
  BY EndedWire
<1>2. \A v \in Waits : Ended(m, "replaced").ended[v] = IF v = m.wait THEN "replaced" ELSE m.ended[v]
  BY EndedWire
<1> HIDE DEF Ended
<1> QED BY <1>1, <1>2 DEF Wire

\* A message that enters the context ends the wait that is active then.
LEMMA TakenWire ==
  ASSUME NEW m \in Wire, NEW w \in Waits
  PROVE  LET n == [Ended(m, "message") EXCEPT !.told = @ \cup {w}]
         IN /\ n \in Wire /\ n.wait = None
            /\ \A v \in Waits : n.ended[v] = IF v = m.wait THEN "message" ELSE m.ended[v]
<1>1. Ended(m, "message") \in Wire /\ Ended(m, "message").wait = None
  BY EndedWire DEF Ends
<1>2. \A v \in Waits : Ended(m, "message").ended[v] = IF v = m.wait THEN "message" ELSE m.ended[v]
  BY EndedWire DEF Ends
<1> QED BY <1>1, <1>2 DEF Wire

\* A step that ends the active wait in the journal, whatever comes in its place, keeps what
\* is said of the journal and of the messages on their way.
LEMMA EndKeepsJournal ==
  ASSUME WaitInv, NEW reason \in Ends \cup {"replaced"}, wire' \in Wire,
         wire'.wait = None \/ (wire'.wait \in Waits /\ Fresh(wire'.wait)),
         \A w \in Waits : wire'.ended[w] = IF w = wire.wait THEN reason ELSE wire.ended[w],
         UNCHANGED <<flushed, posts>>
  PROVE  /\ JournalOK' /\ TimeoutToldOnce'
         /\ \A w \in expiring : wire'.ended[w] = "timeout" /\ posts'[w] = 0
<1>1. \A w \in Waits : wire'.wait = w => wire'.ended[w] = None
  BY WaitAssumption DEF Fresh
<1>2. \A w \in Waits : flushed.ended[w] # None => wire.wait # w
  BY DEF WaitInv, JournalOK
<1>3. JournalOK'
  BY <1>1, <1>2 DEF WaitInv, JournalOK
<1>4. \A w \in expiring : w \in Waits /\ w # wire.wait
  BY WaitAssumption DEF WaitInv, TypeOK, ExpiringOK, JournalOK
<1>5. TimeoutToldOnce'
  BY DEF WaitInv, TimeoutToldOnce
<1> QED BY <1>3, <1>4, <1>5 DEF WaitInv, ExpiringOK

-----------------------------------------------------------------------------
(* Every step *)

LEMMA InitInv == Init => WaitInv
<1> SUFFICES ASSUME Init PROVE WaitInv
  OBVIOUS
<1>1. wire \in Wire
  BY DEF Init, Wire
<1>2. TypeOK
  BY <1>1 DEF Init, TypeOK
<1> QED BY <1>2, WaitAssumption
        DEF Init, WaitInv, TimerFollowsWait, TimerNeedsUp, JournalOK, ExpiringOK, TimeoutToldOnce

\* A wait that is reported has ended.
LEMMA ReportedHasEnded ==
  ASSUME WaitInv, NEW w \in Waits, wire.wait = w
  PROVE  posts[w] = 0 /\ wire.ended[w] = None
<1>1. wire.ended[w] = None
  BY DEF WaitInv, JournalOK
<1>2. flushed.ended[w] # "timeout"
  BY <1>1, WaitAssumption DEF WaitInv, JournalOK
<1>3. posts[w] \in Nat /\ ~(posts[w] > 0)
  BY <1>2 DEF WaitInv, TimeoutToldOnce, TypeOK
<1> QED BY <1>1, <1>3

\* expire ends the active wait, or is too late.
LEMMA ExpireInv ==
  ASSUME WaitInv, NEW w \in Waits, Expire(w), timer' = None, phase' \in {"restoring", "up"},
         wire.wait = w, UNCHANGED <<flushed, due, queued, posts, failing, crashes>>
  PROVE  WaitInv'
<1>1. /\ wire' = Ended(wire, "timeout")
      /\ expiring' \in {expiring, expiring \cup {w}} /\ dropped' \in {dropped, dropped \cup {w}}
  BY DEF Expire
<1>2. /\ wire' \in Wire /\ wire'.wait = None
      /\ \A v \in Waits : wire'.ended[v] = IF v = wire.wait THEN "timeout" ELSE wire.ended[v]
  BY <1>1, EndedWire DEF WaitInv, TypeOK, Ends
<1>3. /\ JournalOK' /\ TimeoutToldOnce'
      /\ \A v \in expiring : wire'.ended[v] = "timeout" /\ posts'[v] = 0
  BY <1>2, EndKeepsJournal DEF Ends
<1>4. ExpiringOK'
  BY <1>1, <1>2, <1>3, ReportedHasEnded DEF ExpiringOK
<1>5. TypeOK'
  BY <1>1, <1>2 DEF WaitInv, TypeOK
<1>6. TimerFollowsWait' /\ TimerNeedsUp'
  BY <1>2 DEF TimerFollowsWait, TimerNeedsUp
<1> QED BY <1>3, <1>4, <1>5, <1>6 DEF WaitInv

\* The steps of Next one by one.
LEMMA NextInv == WaitInv /\ [Next]_vars => WaitInv'
<1> SUFFICES ASSUME WaitInv, [Next]_vars PROVE WaitInv'
  OBVIOUS
<1>1. CASE UNCHANGED vars
  BY <1>1 DEF vars, WaitInv, TypeOK, TimerFollowsWait, TimerNeedsUp, JournalOK,
                ExpiringOK, TimeoutToldOnce
<1>2. ASSUME NEW w \in Waits, Begin(w) PROVE WaitInv'
  <2>1. /\ wire' \in Wire /\ wire'.wait = w
        /\ \A v \in Waits : wire'.ended[v] = IF v = wire.wait THEN "replaced" ELSE wire.ended[v]
    BY <1>2, BegunWire DEF Begin, WaitInv, TypeOK
  <2>2. /\ JournalOK' /\ TimeoutToldOnce'
        /\ \A v \in expiring : wire'.ended[v] = "timeout" /\ posts'[v] = 0
    BY <1>2, <2>1, EndKeepsJournal DEF Begin
  <2>3. ExpiringOK'
    BY <1>2, <2>2 DEF Begin, ExpiringOK
  <2>4. TypeOK' /\ TimerFollowsWait' /\ TimerNeedsUp'
    BY <1>2, <2>1 DEF Begin, WaitInv, TypeOK, TimerFollowsWait, TimerNeedsUp
  <2> QED BY <2>2, <2>3, <2>4 DEF WaitInv
<1>3. ASSUME NEW w \in Waits, Elapse(w) PROVE WaitInv'
  BY <1>3 DEF Elapse, WaitInv, TypeOK, TimerFollowsWait, TimerNeedsUp, JournalOK,
                ExpiringOK, TimeoutToldOnce
<1>4. ASSUME NEW w \in Waits, Post(w) PROVE WaitInv'
  <2>1. flushed.ended[w] = "timeout" /\ posts[w] = 0
    BY <1>4 DEF Post, EndIsDurable, WaitInv, ExpiringOK, JournalOK
  <2>2. posts' \in [Waits -> Nat] /\ posts'[w] = 1 /\ \A v \in Waits \ {w} : posts'[v] = posts[v]
    BY <1>4, <2>1 DEF Post, WaitInv, TypeOK
  <2>3. TimeoutToldOnce'
    BY <1>4, <2>1, <2>2 DEF Post, WaitInv, TimeoutToldOnce
  <2>4. ExpiringOK'
    BY <1>4, <2>2 DEF Post, WaitInv, TypeOK, ExpiringOK
  <2>5. TypeOK' /\ TimerFollowsWait' /\ TimerNeedsUp' /\ JournalOK'
    BY <1>4, <2>2 DEF Post, WaitInv, TypeOK, TimerFollowsWait, TimerNeedsUp, JournalOK
  <2> QED BY <2>3, <2>4, <2>5 DEF WaitInv
<1>5. ASSUME NEW w \in Waits, Take(w) PROVE WaitInv'
  <2>1. /\ wire' \in Wire /\ wire'.wait = None
        /\ \A v \in Waits : wire'.ended[v] = IF v = wire.wait THEN "message" ELSE wire.ended[v]
    BY <1>5, TakenWire DEF Take, WaitInv, TypeOK
  <2>2. /\ JournalOK' /\ TimeoutToldOnce'
        /\ \A v \in expiring : wire'.ended[v] = "timeout" /\ posts'[v] = 0
    BY <1>5, <2>1, EndKeepsJournal DEF Take, Ends
  <2>3. ExpiringOK'
    BY <1>5, <2>2 DEF Take, ExpiringOK
  <2>4. TypeOK' /\ TimerFollowsWait' /\ TimerNeedsUp'
    BY <1>5, <2>1 DEF Take, TimerCleared, WaitInv, TypeOK, TimerFollowsWait, TimerNeedsUp
  <2> QED BY <2>2, <2>3, <2>4 DEF WaitInv
<1>6. ASSUME NEW reason \in {"notification", "message"}, Wake(reason) PROVE WaitInv'
  <2>1. /\ wire' \in Wire /\ wire'.wait = None
        /\ \A v \in Waits : wire'.ended[v] = IF v = wire.wait THEN reason ELSE wire.ended[v]
    BY <1>6, EndedWire DEF Wake, WaitInv, TypeOK, Ends
  <2>2. /\ JournalOK' /\ TimeoutToldOnce'
        /\ \A v \in expiring : wire'.ended[v] = "timeout" /\ posts'[v] = 0
    BY <1>6, <2>1, EndKeepsJournal DEF Wake, Ends
  <2>3. ExpiringOK'
    BY <1>6, <2>2 DEF Wake, ExpiringOK
  <2>4. TypeOK' /\ TimerFollowsWait' /\ TimerNeedsUp'
    BY <1>6, <2>1 DEF Wake, TimerCleared, WaitInv, TypeOK, TimerFollowsWait, TimerNeedsUp
  <2> QED BY <2>2, <2>3, <2>4 DEF WaitInv
<1>7. CASE TimerFires
  <2>1. timer \in Waits /\ phase = "up" /\ wire.wait = timer
    BY <1>7 DEF TimerFires, WaitInv, TypeOK, TimerFollowsWait, TimerNeedsUp
  <2> QED BY <1>7, <2>1, ExpireInv DEF TimerFires
<1>8. CASE TurnEnds
  BY <1>8 DEF TurnEnds, WaitInv, TypeOK, TimerFollowsWait, TimerNeedsUp, JournalOK, ExpiringOK,
              TimeoutToldOnce
<1>9. CASE Flush
  <2>1. /\ flushed' = wire
        /\ UNCHANGED <<wire, timer, due, expiring, queued, posts, dropped, phase, failing, crashes>>
    BY <1>9 DEF Flush
  <2>2. TypeOK' /\ TimerFollowsWait' /\ TimerNeedsUp' /\ JournalOK' /\ ExpiringOK'
    BY <2>1 DEF WaitInv, TypeOK, TimerFollowsWait, TimerNeedsUp, JournalOK, ExpiringOK
  <2>3. TimeoutToldOnce'
    BY <2>1, WaitAssumption DEF WaitInv, TimeoutToldOnce, JournalOK
  <2> QED BY <2>2, <2>3 DEF WaitInv
<1>10. CASE Crash
  <2>1. /\ wire' = flushed /\ timer' = None /\ expiring' = {} /\ phase' = "down"
        /\ UNCHANGED <<flushed, posts>>
    BY <1>10 DEF Crash
  <2>2. TypeOK'
    <3>1. dropped' \subseteq Waits /\ crashes' \in Nat /\ UNCHANGED due /\ queued' = {}
         /\ failing' = "none"
      BY <1>10 DEF Crash, WaitInv, TypeOK
    <3> QED BY <2>1, <3>1 DEF WaitInv, TypeOK
  <2> QED BY <2>1, <2>2 DEF WaitInv, TimerFollowsWait, TimerNeedsUp, JournalOK, ExpiringOK,
                            TimeoutToldOnce
<1>11. CASE Restore
  <2>1. wire.wait \in Waits \cup {None} /\ due \subseteq Waits
    BY DEF WaitInv, TypeOK, Wire
  <2>2. CASE wire.wait \in due
    <3>1. wire.wait \in Waits /\ wire.wait # None /\ timer' = None /\ phase' = "restoring"
      BY <1>11, <2>1, <2>2, WaitAssumption DEF Restore, Rearmed
    <3> QED BY <1>11, <2>2, <3>1, ExpireInv DEF Restore
  <2>3. CASE wire.wait \notin due
    <3>1. /\ timer' = wire.wait /\ phase' = "up"
          /\ UNCHANGED <<wire, expiring, flushed, due, queued, posts, dropped, failing, crashes>>
      BY <1>11, <2>3 DEF Restore, Rearmed
    <3> QED BY <2>1, <3>1 DEF WaitInv, TypeOK, TimerFollowsWait, TimerNeedsUp, JournalOK,
                              ExpiringOK, TimeoutToldOnce
  <2> QED BY <2>2, <2>3
<1>12. ASSUME NEW log \in Failures, LogFails(log) PROVE WaitInv'
  <2>1. PICK rejected \in SUBSET expiring : /\ expiring' = expiring \ rejected
                                            /\ dropped' = dropped \cup rejected
    BY <1>12 DEF LogFails
  <2>2. /\ failing' \in {"own", "other"}
        /\ UNCHANGED <<wire, flushed, timer, due, queued, posts, phase, crashes>>
    BY <1>12, WaitAssumption DEF LogFails
  <2> QED BY <2>1, <2>2 DEF WaitInv, TypeOK, TimerFollowsWait, TimerNeedsUp, JournalOK, ExpiringOK,
                            TimeoutToldOnce
<1>13. CASE OtherLogRecovers
  BY <1>13 DEF OtherLogRecovers, WaitInv, TypeOK, TimerFollowsWait, TimerNeedsUp, JournalOK,
               ExpiringOK, TimeoutToldOnce
<1>14. ASSUME NEW w \in Waits, RestoreRejected(w) PROVE WaitInv'
  <2>1. /\ flushed' = wire' /\ failing' = "other" /\ phase' = "down" /\ expiring' = {}
        /\ dropped' = dropped \cup {w} /\ UNCHANGED <<timer, due, queued, posts, crashes>>
    BY <1>14 DEF RestoreRejected
  <2>2. phase # "up" /\ timer = None
    BY <1>14 DEF RestoreRejected, WaitInv, TimerNeedsUp
  <2>3. /\ wire' \in Wire
        /\ \A v \in Waits : wire'.wait = v => wire'.ended[v] = None
        /\ \A v \in Waits : wire.ended[v] # None => wire'.ended[v] = wire.ended[v]
    <3>1. CASE wire' = wire
      BY <3>1 DEF WaitInv, TypeOK, JournalOK
    <3>2. CASE wire' = Ended(wire, "timeout")
      <4>1. /\ wire' \in Wire /\ wire'.wait = None
            /\ \A v \in Waits : wire'.ended[v] = IF v = wire.wait THEN "timeout" ELSE wire.ended[v]
        BY <3>2, EndedWire DEF WaitInv, TypeOK, Ends
      <4> QED BY <4>1, WaitAssumption DEF WaitInv, JournalOK
    <3> QED BY <1>14, <3>1, <3>2 DEF RestoreRejected
  <2>4. TypeOK' /\ TimerFollowsWait' /\ TimerNeedsUp' /\ JournalOK' /\ ExpiringOK'
    BY <2>1, <2>2, <2>3 DEF WaitInv, TypeOK, TimerFollowsWait, TimerNeedsUp, JournalOK, ExpiringOK
  <2>5. \A v \in Waits : flushed.ended[v] = "timeout" => flushed'.ended[v] = "timeout"
    BY <2>1, <2>3, WaitAssumption DEF WaitInv, JournalOK
  <2>6. TimeoutToldOnce'
    BY <2>1, <2>5 DEF WaitInv, TimeoutToldOnce
  <2> QED BY <2>4, <2>6 DEF WaitInv
<1>15. CASE RestoreUndone
  <2>1. /\ wire' = flushed /\ phase' = "down" /\ expiring' = {} /\ phase # "up"
        /\ UNCHANGED <<flushed, timer, due, queued, posts, dropped, failing, crashes>>
    BY <1>15 DEF RestoreUndone
  <2> QED BY <2>1 DEF WaitInv, TypeOK, TimerFollowsWait, TimerNeedsUp, JournalOK, ExpiringOK,
                      TimeoutToldOnce
<1> QED BY <1>1, <1>2, <1>3, <1>4, <1>5, <1>6, <1>7, <1>8, <1>9, <1>10, <1>11, <1>12, <1>13, <1>14,
           <1>15 DEF Next

\* The invariant holds throughout.
LEMMA WaitInvariant == Spec => []WaitInv
BY InitInv, NextInv, PTL DEF Spec

\* The variables of the wait service keep their types for every set of waits.
THEOREM WaitTypeCorrect == Spec => []TypeOK
<1>1. WaitInv => TypeOK
  BY DEF WaitInv
<1> QED BY <1>1, WaitInvariant, PTL

\* The armed timer is always that of the wait in the journal, through replacement, wakes,
\* timeouts, crashes and restarts (arm, clearTimer, onDidRestore).
THEOREM TimerIsTheWaits == Spec => []TimerFollowsWait
<1>1. WaitInv => TimerFollowsWait
  BY DEF WaitInv
<1> QED BY <1>1, WaitInvariant, PTL

\* No wait is reported as timed out twice, and only when the journal on disk has it so,
\* however often the process crashes (end, expire).
THEOREM TimeoutReportedOnce == Spec => []TimeoutToldOnce
<1>1. WaitInv => TimeoutToldOnce
  BY DEF WaitInv
<1> QED BY <1>1, WaitInvariant, PTL
=============================================================================
