----------------------------- MODULE MCJobQueue -----------------------------
(***************************************************************************)
(* JobQueue for TLC.  The configurations differ in which faults they allow;*)
(* the cap on attempts is chosen so that it never binds a decodable job.   *)
(***************************************************************************)
EXTENDS JobQueue

MCAttemptBound == MaxAttempts + MaxFaults + 1
=============================================================================
