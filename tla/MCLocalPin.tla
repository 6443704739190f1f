----------------------------- MODULE MCLocalPin -----------------------------
(* Model checking of LocalPin: one owner, its crashes, failures and damage. *)
EXTENDS LocalPin
=============================================================================
