--------------------------- MODULE MCDomainAccess ---------------------------
(***************************************************************************)
(* Model-checking instance of DomainAccess: one hostname, one invited      *)
(* address, a Bridge and a Spark feed.                                     *)
(***************************************************************************)
EXTENDS DomainAccess

Feed(p, d) == [provider |-> p, dataset |-> d]
MCCatalog == <<Feed("bridge", "stellar"), Feed("spark", "beaches")>>
MCOffers == { <<Feed(NULL, "beaches"), Feed("spark", "beaches")>> }
MCAsked == {NULL, Feed(NULL, "stellar"), Feed("spark", "beaches")}
=============================================================================
