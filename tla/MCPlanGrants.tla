---------------------------- MODULE MCPlanGrants ----------------------------
(* One veteran account, two checkouts of which the first is reported by    *)
(* two events, and two requests in flight.                                 *)
EXTENDS PlanGrants, TLC

CONSTANTS u1, h1, h2, c1, c2, e1, e2, e3

MCBuyer == c1 :> u1 @@ c2 :> u1
MCCheckoutOf == e1 :> c1 @@ e2 :> c1 @@ e3 :> c2

MCOneBuyer == c1 :> u1
MCOneCheckoutOf == e1 :> c1

NoManualRow == {NoGrant}
OpenEndedManualRow ==
  {NoGrant, [exists |-> TRUE, forever |-> TRUE, expires |-> 0, revoked |-> FALSE]}

HandlerSymmetry == Permutations(Handlers)
=============================================================================
