------------------------ MODULE MCWorkspaceLifecycle ------------------------
(***************************************************************************)
(* Instances of WorkspaceLifecycle for TLC.                                *)
(***************************************************************************)
EXTENDS WorkspaceLifecycle, TLC

\* Tasks are interchangeable.
TaskSymmetry == Permutations(Tasks)

\* For liveness, the operations that wait: create and destroy, which keep the lock over
\* many steps, and status, for all that keep it for one. Hydrations, edits and uncertainty
\* change what an operation answers, not whether it ends, and are left out.
LiveOps == {"none", "create", "status", "destroy"}

LiveNext ==
  /\ Next
  /\ \A t \in Tasks : req'[t].op \in LiveOps /\ (req'[t].op = "create" => ~req'[t].opt)
  /\ \A w \in Ws : ~env'[w].uncertain /\ (env'[w].edits = "dirty" => env[w].edits = "dirty")

LiveSpec == Init /\ [][LiveNext]_vars /\ Fairness
=============================================================================
