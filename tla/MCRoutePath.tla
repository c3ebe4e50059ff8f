----------------------------- MODULE MCRoutePath ------------------------------
(* Three places on a line and two edits in flight.                          *)
EXTENDS RoutePath, TLC

CONSTANTS s1, s2

\* A new draft and a round trip.
Drafts == {<<>>, <<1, 3, 1>>}

SlotSymmetry == Permutations(Slots)
=============================================================================
