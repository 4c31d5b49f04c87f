----------------------------- MODULE MCMergeBack -----------------------------
(***************************************************************************)
(* Instances of MergeBack for TLC: two authors and three fork rows, the    *)
(* first author's twice, so that a fork can be deleted and made again, or  *)
(* made twice at once.                                                     *)
(***************************************************************************)
EXTENDS MergeBack, TLC

CONSTANTS u1, u2, f1, f2, f3, s1, s2, k1, k2, shipped, torn, text1

Forkers == f1 :> u1 @@ f2 :> u1 @@ f3 :> u2
OneRow == f1 :> u1

AllGoesWell == [what \in Budget |-> 0]
FaultsAndRestarts == [what \in Budget |-> 1]
RestartsOnly == [fault |-> 0, restart |-> 1]

\* Suggestion rows have uuids: TLC may rename them.
Rows == Permutations(Suggestion)
=============================================================================
