---------------------------- MODULE MCAccountLife ----------------------------
EXTENDS AccountLife, TLC
CONSTANTS g1, g2, g3, p1, p2
MCStartOf == (g1 :> p1) @@ (g2 :> p1) @@ (g3 :> p2)
=============================================================================
