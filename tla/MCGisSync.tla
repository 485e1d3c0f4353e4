----------------------------- MODULE MCGisSync -----------------------------
(* Instance of GisSync for TLC: two pages of parcels and of zips, one city in *)
(* one county; of the parcels one is malformed and one is not of the pilot.   *)
EXTENDS GisSync

MCFeed ==
    [l \in Layers |->
        CASE l = "counties" -> <<"pinellas">>
          [] l = "cities"   -> <<"tampa">>
          [] l = "zips"     -> <<"z1", "z2">>
          [] l = "parcels"  -> <<"p2", "p3", "p1">>]

MCHome == [c \in {"tampa"} |-> "pinellas"]
=============================================================================
