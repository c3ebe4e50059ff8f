---------------------------- MODULE MCDraftBinding ----------------------------
(* One LocalRoute, one Route, two works, a history of two snapshots.        *)
EXTENDS DraftBinding, TLC
=============================================================================
