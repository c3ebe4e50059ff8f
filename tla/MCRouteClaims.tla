---------------------------- MODULE MCRouteClaims ----------------------------
(* One account, a browser with one or two tabs, two requests in flight.    *)
EXTENDS RouteClaims, TLC

CONSTANTS u1, t1, t2, h1, h2

TabAndHandlerSymmetry == Permutations(Tabs) \cup Permutations(Handlers)
=============================================================================
