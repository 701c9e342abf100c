---------------------------- MODULE MCDurableWait -----------------------------
(***************************************************************************)
(* Small instances of DurableWait.                                         *)
(***************************************************************************)
EXTENDS DurableWait

CONSTANTS w1, w2, w3
=============================================================================
