------------------------------ MODULE PaidTime ------------------------------
(***************************************************************************)
(* What buying a Pro pass promises, with no rows, locks or requests: each  *)
(* checkout is credited at most once, a credit puts the end of the paid    *)
(* time at least PassLength past both the payment and the paid time        *)
(* already held ("buying again extends ... so no paid day is lost", ADR    *)
(* 0039), and paid time shrinks only when the User's Pro is ended: an      *)
(* admin revokes it or the account is hard-deleted.                        *)
(***************************************************************************)
EXTENDS Integers

CONSTANTS Users, Checkouts, Events, Buyer, CheckoutOf, PassLength

VARIABLES
  paidAt,     \* [Events -> time of the event, or -1]
  credited,   \* checkouts whose pass has been granted
  until,      \* [Users -> end of the paid time]
  ended       \* [Users -> how often Pro was ended]

vars == <<paidAt, credited, until, ended>>

Init ==
  /\ paidAt = [e \in Events |-> -1]
  /\ credited = {}
  /\ until = [u \in Users |-> 0]
  /\ ended = [u \in Users |-> 0]

Pay(e) ==
  /\ paidAt[e] = -1
  /\ \A d \in Events \ {e} : paidAt'[d] = paidAt[d]
  /\ UNCHANGED <<credited, until, ended>>

Credit(e) ==
  LET c == CheckoutOf[e]
  IN /\ paidAt[e] # -1
     /\ c \notin credited
     /\ credited' = credited \cup {c}
     /\ until'[Buyer[c]] >= until[Buyer[c]] + PassLength
     /\ until'[Buyer[c]] >= paidAt[e] + PassLength
     /\ \A u \in Users \ {Buyer[c]} : until'[u] = until[u]
     /\ UNCHANGED <<paidAt, ended>>

End(u) ==
  /\ ended' = [ended EXCEPT ![u] = @ + 1]
  /\ until'[u] <= until[u]
  /\ \A w \in Users \ {u} : until'[w] = until[w]
  /\ UNCHANGED <<paidAt, credited>>

Next ==
  \/ \E e \in Events : Pay(e) \/ Credit(e)
  \/ \E u \in Users : End(u)

Spec == Init /\ [][Next]_vars

=============================================================================
