----------------------------- MODULE MCTurnLoop ------------------------------
(***************************************************************************)
(* Small instances of TurnLoop.  The requests are those the repository     *)
(* sends: prompts (promptStepRequests.ts), task notifications and wait     *)
(* timeouts (mergeable, agent scoped, activeOrNewTurn), steers             *)
(* (activeTurnOnly) and the continuation of a step with tool calls.        *)
(***************************************************************************)
EXTENDS TurnLoop

CONSTANTS prompt1, prompt2, prompt3, prompt4, notice, steer, continuation

Notices == {notice}
Steers == {steer}
Continuations == {continuation}

MCAdmission ==
  [r \in Requests |-> CASE r \in Notices -> "activeOrNewTurn"
                        [] r \in Steers -> "activeTurnOnly"
                        [] r \in Continuations -> "activeOrNextTurn"
                        [] OTHER -> "newTurn"]

MCMergeable == [r \in Requests |-> r \in Notices \cup Steers]

MCTurnScoped == [r \in Requests |-> r \notin Notices \cup Steers]
=============================================================================
