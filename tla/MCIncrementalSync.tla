------------------------- MODULE MCIncrementalSync --------------------------
(***************************************************************************)
(* Model-checking instances of IncrementalSync.                            *)
(***************************************************************************)
EXTENDS IncrementalSync
=============================================================================
