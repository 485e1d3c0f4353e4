------------------------- MODULE MCReplicaSelector --------------------------
(* Two replicas.  The first comes, goes and fails at will and is opened at *)
(* most twice, so that it can disappear and come back while a request      *)
(* still holds its first pool; the second competes with it.                *)
EXTENDS ReplicaSelector
CONSTANT r1
MCHosts == 1..2
MCSteady == {2}
MCRequests == {r1}
MCLatencies == {1}
=============================================================================
