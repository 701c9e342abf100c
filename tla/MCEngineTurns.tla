---------------------------- MODULE MCEngineTurns ----------------------------
(***************************************************************************)
(* Instances of EngineTurns for TLC: the messages and who sends them.      *)
(***************************************************************************)
EXTENDS EngineTurns

CONSTANTS prompt1, prompt2, steer, notice, stop1

MCKind ==
  [i \in Inputs |->
     CASE i \in {prompt1, prompt2} -> "prompt"
       [] i = steer                -> "steer"
       [] i = notice               -> "notification"
       [] OTHER                    -> "continuation"]
=============================================================================
