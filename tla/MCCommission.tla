---------------------------- MODULE MCCommission ----------------------------
(* The referrer gets a tenth of the agent's commission. *)
EXTENDS Commission

CONSTANT MaxCopies \* bound: copies under way to one task

Tenth == <<10, 1>>

FewCopies == Len(second) <= MaxCopies /\ \A l \in Level : Len(copies[l]) <= MaxCopies
=============================================================================
