----------------------------- MODULE DurableWait ------------------------------
(***************************************************************************)
(* The wait of an agent: AgentWaitService (agent/wait/waitService.ts) and  *)
(* the journaled model it keeps (agent/wait/wait.ts).  An agent that calls *)
(* WaitFor, or whose tool calls went to the background, stops its turn and *)
(* is woken by a finished task, by a message or by the timeout of the      *)
(* wait.                                                                   *)
(*                                                                         *)
(* The journal reaches the disk some time after a dispatch (Flush); a wait *)
(* that has timed out is reported only after the flush that follows its    *)
(* end.  wire.flush is a flush of every log of the store: it rejects when  *)
(* the append log of this journal has failed, which is final for the       *)
(* process, and when that of another agent has.  A rejected flush leaves   *)
(* the wait ended and its message unsent.  The loop is a queue of timeout  *)
(* messages: the turn a message waits in takes it or ends first.           *)
(***************************************************************************)
EXTENDS Naturals

CONSTANTS
  Waits,        \* wait ids; a wait is started once
  MaxCrashes,   \* bound: crashes
  Failures,     \* the logs whose storage may fail: "own" and "other" ones
  None          \* null

ASSUME WaitAssumption ==
  /\ None \notin Waits \cup {"notification", "message", "timeout", "replaced"}
  /\ MaxCrashes \in Nat
  /\ Failures \subseteq {"own", "other"}

VARIABLES
  wire,         \* the journal's WaitModel, how each wait ended, and the messages of the context
  flushed,      \* what the journal on disk restores
  timer,        \* timer: the wait the timeout is armed for
  due,          \* the waits whose deadline is over
  expiring,     \* expire calls that wait for their flush
  queued,       \* timeout messages waiting in the loop
  posts,        \* how often the timeout of a wait was posted (history)
  dropped,      \* timeouts a crash, a rejected flush or the end of a turn cut off (history)
  phase,        \* whether the agent is there: "restoring" in the expire of onDidRestore
  failing,      \* storageFailure of the store's logs
  crashes

vars == <<wire, flushed, timer, due, expiring, queued, posts, dropped, phase, failing, crashes>>

Ends == {"notification", "message", "timeout"}
Wire == [wait : Waits \cup {None}, ended : [Waits -> Ends \cup {"replaced", None}],
         told : SUBSET Waits]

TypeOK ==
  /\ wire \in Wire /\ flushed \in Wire
  /\ timer \in Waits \cup {None}
  /\ due \subseteq Waits /\ expiring \subseteq Waits /\ queued \subseteq Waits
  /\ posts \in [Waits -> Nat] /\ dropped \subseteq Waits
  /\ phase \in {"down", "restoring", "up"} /\ failing \in {"none", "own", "other"}
  /\ crashes \in Nat

Init ==
  /\ wire = [wait |-> None, ended |-> [w \in Waits |-> None], told |-> {}]
  /\ flushed = wire
  /\ timer = None /\ due = {} /\ expiring = {} /\ queued = {}
  /\ posts = [w \in Waits |-> 0] /\ dropped = {}
  /\ phase = "up" /\ failing = "none" /\ crashes = 0

-----------------------------------------------------------------------------
Fresh(w) == wire.wait # w /\ wire.ended[w] = None

\* waitTerminated: the end of the active wait.
Ended(m, reason) ==
  IF m.wait = None THEN m ELSE [m EXCEPT !.wait = None, !.ended[m.wait] = reason]

\* Mutant: a wake leaves the timer of the wait armed.
TimerKept == timer
\* clearTimer, in every end() that finds a wait.
TimerCleared == IF wire.wait = None THEN timer ELSE None

\* begin: the new wait replaces the active one, in the journal and in the timer.  Whether
\* its flush is rejected is for the caller; the wait is on.
Begin(w) ==
  /\ phase = "up" /\ Fresh(w)
  /\ wire' = [Ended(wire, "replaced") EXCEPT !.wait = w]
  /\ timer' = w /\ due' = due \ {w}
  /\ UNCHANGED <<flushed, expiring, queued, posts, dropped, phase, failing, crashes>>

\* runWake: a task has terminated, or a message of the user entered the context.
Wake(reason) ==
  /\ phase = "up" /\ wire.wait # None
  /\ wire' = Ended(wire, reason)
  /\ timer' = TimerCleared
  /\ UNCHANGED <<flushed, due, expiring, queued, posts, dropped, phase, failing, crashes>>

\* The deadline of a wait goes by.
Elapse(w) ==
  /\ ~Fresh(w) /\ w \notin due
  /\ due' = due \cup {w}
  /\ UNCHANGED <<wire, flushed, timer, expiring, queued, posts, dropped, phase, failing, crashes>>

\* Mutant: a wait that has timed out is just over.
EndQuietly(w) == wire' = Ended(wire, "timeout") /\ UNCHANGED <<expiring, dropped>>
\* expire up to the flush of end, which is for the wait w only.  A log that has failed
\* rejects the flush at once: expire throws, and its message is never built.
Expire(w) ==
  IF wire.wait = w
  THEN /\ wire' = Ended(wire, "timeout")
       /\ IF failing = "none"
          THEN expiring' = expiring \cup {w} /\ UNCHANGED dropped
          ELSE dropped' = dropped \cup {w} /\ UNCHANGED expiring
  ELSE UNCHANGED <<wire, expiring, dropped>>

TimerFires ==
  /\ timer # None /\ timer \in due
  /\ Expire(timer)
  /\ timer' = None
  /\ UNCHANGED <<flushed, due, queued, posts, phase, failing, crashes>>

\* Mutant: the message does not wait for the journal.
EndedAtOnce(w) == wire.ended[w] # None
\* The flush awaited by end() covers the end of w.
EndIsDurable(w) == flushed.ended[w] # None

\* The flush is fulfilled: expire resumes and enqueues its message, and a restore that
\* waits for it goes on.
Post(w) ==
  /\ w \in expiring /\ EndIsDurable(w)
  /\ expiring' = expiring \ {w}
  /\ queued' = queued \cup {w}
  /\ posts' = [posts EXCEPT ![w] = @ + 1]
  /\ phase' = "up"
  /\ UNCHANGED <<wire, flushed, timer, due, dropped, failing, crashes>>

\* A step takes the message into the context, and the listener takes it for a wake.
Take(w) ==
  /\ w \in queued /\ queued' = queued \ {w}
  /\ wire' = [Ended(wire, "message") EXCEPT !.told = @ \cup {w}]
  /\ timer' = TimerCleared
  /\ UNCHANGED <<flushed, due, expiring, posts, dropped, phase, failing, crashes>>

\* The turn the messages wait in ends first, and its queued steps are cancelled.
TurnEnds ==
  /\ queued # {} /\ queued' = {}
  /\ dropped' = dropped \cup queued
  /\ UNCHANGED <<wire, flushed, timer, due, expiring, posts, phase, failing, crashes>>

-----------------------------------------------------------------------------
(* The journal and the life of the agent *)

\* A log that has failed writes nothing more.
Flush ==
  /\ failing # "own" /\ flushed # wire /\ flushed' = wire
  /\ UNCHANGED <<wire, timer, due, expiring, queued, posts, dropped, phase, failing, crashes>>

\* An append of a log fails, which rejects flushes in progress: of this journal every one
\* that is not covered yet.  The error of a timer's expire is logged.
LogFails(log) ==
  /\ log \in Failures /\ failing = "none"
  /\ log = "own" => flushed # wire
  /\ failing' = log
  /\ \E rejected \in SUBSET expiring :
       /\ log = "own" => \A w \in expiring \ rejected : EndIsDurable(w)
       /\ phase = "restoring" => rejected = {}
       /\ expiring' = expiring \ rejected
       /\ dropped' = dropped \cup rejected
  /\ UNCHANGED <<wire, flushed, timer, due, queued, posts, phase, crashes>>

\* The failed log of another agent is rewritten or given up.
OtherLogRecovers ==
  /\ failing = "other" /\ failing' = "none"
  /\ UNCHANGED <<wire, flushed, timer, due, expiring, queued, posts, dropped, phase, crashes>>

\* The process ends.  With all of the journal flushed this is also dispose, after which a
\* late expire meets a disposed loop.
Crash ==
  /\ crashes < MaxCrashes /\ crashes' = crashes + 1
  /\ wire' = flushed
  /\ timer' = None /\ expiring' = {} /\ queued' = {} /\ phase' = "down" /\ failing' = "none"
  /\ dropped' = dropped \cup {w \in Waits : flushed.ended[w] = "timeout" /\ w \notin flushed.told}
  /\ UNCHANGED <<flushed, due, posts>>

\* Mutant: a restored wait is not armed again.
NoTimer == None
\* A restored wait is armed for what is left of it.
Rearmed == IF wire.wait \in due THEN None ELSE wire.wait

\* onDidRestore: a wait that is over expires in it, and the restore waits for that.
Restore ==
  /\ phase = "down" /\ timer' = Rearmed
  /\ \/ /\ wire.wait \notin due /\ phase' = "up"
        /\ UNCHANGED <<wire, expiring, dropped>>
     \/ /\ wire.wait \in due /\ failing = "none" /\ phase' = "restoring"
        /\ Expire(wire.wait)
  /\ UNCHANGED <<flushed, due, queued, posts, failing, crashes>>

\* Its flush is rejected because of another log: the restore fails and the agent is
\* disposed, which still writes the end of the wait.
RestoreRejected(w) ==
  /\ \/ phase = "down" /\ failing = "other" /\ wire.wait = w /\ w \in due
        /\ wire' = Ended(wire, "timeout")
     \/ phase = "restoring" /\ w \in expiring /\ "other" \in Failures /\ UNCHANGED wire
  /\ flushed' = wire' /\ failing' = "other"
  /\ phase' = "down" /\ expiring' = {}
  /\ dropped' = dropped \cup {w}
  /\ UNCHANGED <<timer, due, queued, posts, crashes>>

\* Its flush is rejected because of the own log: the end of the wait is lost with the
\* agent, and the next restore finds the wait again.
RestoreUndone ==
  /\ phase = "restoring" /\ "own" \in Failures /\ flushed # wire
  /\ wire' = flushed
  /\ phase' = "down" /\ expiring' = {}
  /\ UNCHANGED <<flushed, timer, due, queued, posts, dropped, failing, crashes>>

Next ==
  \/ \E w \in Waits : Begin(w) \/ Elapse(w) \/ Post(w) \/ Take(w) \/ RestoreRejected(w)
  \/ \E reason \in {"notification", "message"} : Wake(reason)
  \/ \E log \in Failures : LogFails(log)
  \/ OtherLogRecovers
  \/ TimerFires \/ TurnEnds \/ Flush \/ Crash \/ Restore \/ RestoreUndone

Spec == Init /\ [][Next]_vars

\* Time passes, timers fire, a log that works is flushed, a restore ends and turns take their
\* steps.  Nothing makes a log fail or recover.
FairSpec ==
  /\ Spec
  /\ WF_vars(TimerFires) /\ WF_vars(Flush)
  /\ WF_vars(Restore \/ \E w \in Waits : RestoreRejected(w) /\ phase = "down")
  /\ \A w \in Waits : WF_vars(Elapse(w)) /\ WF_vars(Post(w)) /\ WF_vars(Take(w))

-----------------------------------------------------------------------------
\* The timer and the journal speak of the same wait: an active wait can time out, and a
\* wait that is over cannot.
TimerFollowsWait == phase # "down" => timer = wire.wait

\* A wait is reported as timed out at most once, whatever crashes, and only when that is how
\* the journal on disk says it ended.
TimeoutToldOnce ==
  \A w \in Waits : posts[w] <= 1 /\ (posts[w] > 0 => flushed.ended[w] = "timeout")

\* An agent does not wait forever.
WaitsEnd == \A w \in Waits : wire.wait = w ~> wire.wait # w

\* A wait that timed out is reported to the agent, unless a crash, a log that fails or the
\* end of the turn comes between its end and the message.
TimeoutsTold ==
  \A w \in Waits :
    wire.ended[w] = "timeout" ~> wire.ended[w] # "timeout" \/ w \in wire.told \cup dropped
=============================================================================
