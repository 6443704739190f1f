----------------------------- MODULE MCService -----------------------------
(***************************************************************************)
(* Model checking, with liveness, of the parts that get content from the   *)
(* service: the fetch coordinator, the retention lease, path proofs and    *)
(* framed transfers.  They share no state in these models, so each         *)
(* behaviour runs one part and leaves the others at rest: the state space  *)
(* is the sum of theirs and not the product.                               *)
(***************************************************************************)
EXTENDS FetchCoordinator, LeaseKeeper, PathProof, FrameTransfer, TLC

CONSTANTS p1, k1

VARIABLE part
serviceVars == <<part, vars, leaseVars, proofVars, transferVars>>

MCMembers == p1 :> k1
Component(ps, k) == [pages |-> ps, kind |-> k]
MCPlan == ("d/f" :> <<Component(<<"r0", "r1">>, "dir"), Component(<<"d0">>, "file")>>)
          @@ ("l/g" :> <<Component(<<"r0">>, "symlink"), Component(<<"d0">>, "file")>>)
          @@ ("d" :> <<Component(<<"r0">>, "dir")>>)

MCLimits == {[body |-> 0, bytes |-> 4], [body |-> 2, bytes |-> 4], [body |-> 2, bytes |-> 3],
             [body |-> 2, bytes |-> 1]}

ServiceInit ==
    /\ part \in {"fetch", "lease", "proof", "transfer"}
    /\ Init /\ LeaseInit /\ ProofInit /\ TransferInit
    /\ part # "fetch" => pages

ServiceBusy == FetchBusy \/ LeaseBusy \/ ProofBusy \/ TransferBusy

\* A part may stop where it has nothing to do.
ServiceNext ==
    \/ part = "fetch" /\ Next /\ UNCHANGED <<part, leaseVars, proofVars, transferVars>>
    \/ part = "lease" /\ LeaseNext /\ UNCHANGED <<part, vars, proofVars, transferVars>>
    \/ part = "proof" /\ ProofNext /\ UNCHANGED <<part, vars, leaseVars, transferVars>>
    \/ part = "transfer" /\ TransferNext /\ UNCHANGED <<part, vars, leaseVars, proofVars>>
    \/ part # "fetch" /\ ~ServiceBusy /\ UNCHANGED serviceVars

\* Each fairness binds only its own part: the fair actions of a part at rest are disabled, and
\* LeaseFairness, whose clock would pass at rest too, is stated for a behaviour of the lease.
ServiceSpec ==
    /\ ServiceInit /\ [][ServiceNext]_serviceVars
    /\ Fairness /\ ProofFairness /\ TransferFairness
    /\ WF_leaseVars(part = "lease" /\ Tick)
    /\ WF_leaseVars(part = "lease" /\ \E t \in Tasks : Step(t))

\* What is begun ends.  A caller of the coordinator is answered or leaves, and every flight ends
\* and gives back its job permit, wanted or not.  An ensure of the lease ends although the
\* service may never answer.  A caller that waits for another's proof is not stranded: when that
\* one fails, runs into its deadline or is dropped, the flight passes on, and every call ends
\* without its own deadline having to end it.  A transfer is published or fails: the windows
\* make progress whatever the limits are.  Each part begins a bounded number of them, so
\* this is to say that in the end none is left.
ServiceSettles == ServiceBusy ~> ~ServiceBusy

\* The state of every part has its type.
ServiceTypeOK == TypeOK /\ LeaseTypeOK /\ ProofTypeOK /\ TransferTypeOK
=============================================================================
