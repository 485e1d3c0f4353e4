--------------------------- MODULE MCFairReserve ----------------------------
(***************************************************************************)
(* FairReserve for workers with three pools, with two, with none because   *)
(* they have no persist queue, and with a single queue.                    *)
(***************************************************************************)
EXTENDS FairReserve

CONSTANTS f1, f2, p1, p2, o1, o2

MCClass(q) == IF q \in {f1, f2} THEN "fetch"
              ELSE IF q \in {p1, p2} THEN "persist" ELSE "other"

MCLists == {<<f1, p1, o1, o2>>, <<f1, f2, p1, p2>>, <<o1, f1, o2>>, <<o1>>}
=============================================================================
