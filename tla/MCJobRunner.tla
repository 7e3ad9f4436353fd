---------------------------- MODULE MCJobRunner ----------------------------
(***************************************************************************)
(* Instances of JobRunner for TLC: two or three process incarnations and   *)
(* two retry policies.                                                     *)
(***************************************************************************)
EXTENDS JobRunner, TLC

CONSTANTS p1, p2, p3

TwoProcs == {p1, p2}
ThreeProcs == {p1, p2, p3}
Symmetric2 == Permutations(TwoProcs)
Symmetric3 == Permutations(ThreeProcs)

NoPolicy == [c \in {} |-> 1]

\* Raises one limit above the ceiling, sets one below 1, names no category.
OperatorPolicy == "auth" :> 9 @@ "translation" :> 0 @@ "network" :> 5
=============================================================================
