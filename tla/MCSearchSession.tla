-------------------------- MODULE MCSearchSession --------------------------
(* A small instance of SearchSession: three sites, two words. *)
EXTENDS SearchSession, TLC

CONSTANTS site0, site1, site2, l1, l2, l3, w1, w2

MCDirs     == <<site0, site1, site2>>
MCHits     == site0 :> (w1 :> {l1, l2} @@ w2 :> {l2})
           @@ site1 :> (w1 :> {}       @@ w2 :> {})
           @@ site2 :> (w1 :> {}       @@ w2 :> {l3})
MCRequests == {<<w1, w1>>, <<w2>>, <<w1, w2>>}
MCGarbage  == {-1, 1}
NoDirs     == {}
Site1      == {site1}
=============================================================================
