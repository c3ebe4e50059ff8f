---------------------------- MODULE MCNavigation ----------------------------
EXTENDS Navigation, TLC

CONSTANTS r1

\* A loop that crosses its own way out before it ends.
MCPathOf ==
  (r1 :> <<<<0, 0>>, <<1, 0>>, <<2, 0>>, <<2, 1>>, <<1, 1>>, <<1, 0>>, <<1, -1>>, <<1, -2>>>>)
MCCuesOf == (r1 :> <<3, 6>>)
\* The crossing, a corner of the loop, and the end, which is off the route for a
\* rider who has not been on the loop.
MCPoints == {<<1, 0>>, <<2, 1>>, <<1, -2>>}
MCReaches == {[near |-> 1, far |-> 2]}
=============================================================================
