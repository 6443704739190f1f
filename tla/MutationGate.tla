---------------------------- MODULE MutationGate ----------------------------
(***************************************************************************)
(* What the mutation fence promises to the code that scans or removes a    *)
(* workspace's private upper directory, without the lock, the queues, the  *)
(* permits or the handles that provide it:                                 *)
(*                                                                         *)
(*   - content operations run only while the gate is neither held nor      *)
(*     closed, so the upper cannot move under a holder;                    *)
(*   - closing is permanent;                                               *)
(*   - once the outcome of some native operation is unknown, nobody ever   *)
(*     holds or closes the gate again.                                     *)
(*                                                                         *)
(* MutationFence implements this specification.                            *)
(***************************************************************************)

CONSTANT Requests   \* identities of the FUSE requests that may be in flight

VARIABLES
  active,    \* content operations in flight
  held,      \* some control operation holds every mutation out
  closed,    \* content mutations are rejected for good
  unknown,   \* some native operation ended with an unknown outcome
  upper      \* what a scan of the private upper would find

UpperStates == {"clean", "dirty"}

gateVars == <<active, held, closed, unknown, upper>>

GateInit ==
  /\ active = {}
  /\ held = FALSE
  /\ closed = FALSE
  /\ unknown = FALSE
  /\ upper \in UpperStates

\* A content operation starts.
Begin(r) ==
  /\ ~held /\ ~closed
  /\ active' = active \cup {r}
  /\ UNCHANGED <<held, closed, unknown, upper>>

\* A content operation in flight changes the upper.
Touch ==
  /\ active # {}
  /\ upper' \in UpperStates
  /\ UNCHANGED <<active, held, closed, unknown>>

\* A content operation ends, with a known outcome or without one.
End(r) ==
  /\ r \in active
  /\ active' = active \ {r}
  /\ unknown' \in {unknown, TRUE}
  /\ UNCHANGED <<held, closed, upper>>

\* A handle close is lost or fails.
Lose ==
  /\ unknown' = TRUE
  /\ UNCHANGED <<active, held, closed, upper>>

\* A control operation shuts every mutation out for a while.
Hold ==
  /\ ~held /\ ~unknown /\ active = {}
  /\ held' = TRUE
  /\ UNCHANGED <<active, closed, unknown, upper>>

\* The holder rejects content mutations for good.
Close ==
  /\ held /\ ~unknown
  /\ closed' = TRUE
  /\ UNCHANGED <<active, held, unknown, upper>>

\* The holder leaves.
Free ==
  /\ held
  /\ held' = FALSE
  /\ UNCHANGED <<active, closed, unknown, upper>>

GateNext ==
  \/ \E r \in Requests : Begin(r) \/ End(r)
  \/ Touch \/ Lose \/ Hold \/ Close \/ Free

GateSpec == GateInit /\ [][GateNext]_gateVars
=============================================================================
