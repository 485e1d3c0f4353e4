--------------------------- MODULE MCSyncPipeline ---------------------------
(***************************************************************************)
(* Model-checking instances of SyncPipeline.                               *)
(***************************************************************************)
EXTENDS SyncPipeline
=============================================================================
