-------------------------- MODULE MCMutationFence --------------------------
(* Small instances of MutationFence for TLC.                               *)
EXTENDS MutationFence
=============================================================================
