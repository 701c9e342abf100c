---------------------------- MODULE MCTaskNotices -----------------------------
(***************************************************************************)
(* Small instances of TaskNotices.                                         *)
(***************************************************************************)
EXTENDS TaskNotices

CONSTANTS t1, t2
=============================================================================
