------------------------- MODULE MCFetchCoordinator -------------------------
(* Model checking of FetchCoordinator: two files with contents of their own. *)
EXTENDS FetchCoordinator, TLC

CONSTANTS p1, p2, k1, k2

Committed == p1 :> k1 @@ p2 :> k2
CallerSymmetry == Permutations(Callers)
=============================================================================
