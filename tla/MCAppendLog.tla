----------------------------- MODULE MCAppendLog ------------------------------
(***************************************************************************)
(* Small instances of AppendLog: records a and b, and a rewrite that       *)
(* replaces the log by the record a.                                       *)
(***************************************************************************)
EXTENDS AppendLog

CONSTANTS a, b

MCSnapshots == {<<a>>}
=============================================================================
