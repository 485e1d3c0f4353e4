---------------------------- MODULE MCReadCaches ----------------------------
(***************************************************************************)
(* Model-checking instance of ReadCaches: two overlapping scopes, one with *)
(* more sales than a live query returns and a hit needs.                   *)
(***************************************************************************)
EXTENDS ReadCaches

MCSales == 1..4
MCScopes == {1..4, 2..4}
=============================================================================
