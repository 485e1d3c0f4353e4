-------------------------- MODULE MCListingMirror --------------------------
(* Two listings, one point in a high-risk zone and one in a low-risk zone. *)
EXTENDS ListingMirror

CONSTANTS k1, k2, bay, hill, w1

MCStartAt == [k \in Keys |-> bay]
MCZoneAt  == [p \in Places |-> IF p = bay THEN "AE" ELSE "X"]
=============================================================================
