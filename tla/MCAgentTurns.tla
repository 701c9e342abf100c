----------------------------- MODULE MCAgentTurns -----------------------------
(***************************************************************************)
(* An instance of AgentTurns for TLC: a cron firing and the prompt of a    *)
(* skill on the loop, and a prompt of the user.                            *)
(***************************************************************************)
EXTENDS AgentTurns

CONSTANTS cron, skill, prompt

MCAdmission == [r \in Requests |-> IF r = cron THEN "activeOrNewTurn" ELSE "newTurn"]
MCMergeable == [r \in Requests |-> r = cron]
MCTurnScoped == [r \in Requests |-> r # cron]
MCKind == [i \in Inputs |-> "prompt"]
=============================================================================
