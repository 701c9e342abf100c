---------------------------- MODULE MCPromptQueue -----------------------------
(***************************************************************************)
(* Small instances of PromptQueue: three prompts beside one system turn.   *)
(***************************************************************************)
EXTENDS PromptQueue

CONSTANTS p1, p2, p3
=============================================================================
