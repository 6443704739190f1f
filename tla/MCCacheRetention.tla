-------------------------- MODULE MCCacheRetention --------------------------
(* Model checking of CacheRetention: two owners that share a content. *)
EXTENDS CacheRetention, TLC

CONSTANTS o1, o2, b1

OneContent == o1 :> {b1} @@ o2 :> {b1}

\* The owners need the same content, so they are interchangeable.
Symmetry == Permutations(Owners)
=============================================================================
