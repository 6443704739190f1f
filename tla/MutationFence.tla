--------------------------- MODULE MutationFence ---------------------------
(***************************************************************************)
(* The fence between native FUSE mutations and the control operations that *)
(* scan, seal and retire a workspace's private upper                       *)
(* (util/mutation_fence.rs), as FencedFilesystem drives it                 *)
(* (util/fenced_fs.rs).                                                    *)
(*                                                                         *)
(* A request is a FUSE call.  A member of Muts is any content mutation     *)
(* that creates no handle (write, setattr, unlink, rename, ...).  A member *)
(* of Handles is a handle slot: open/opendir/create fill it and            *)
(* release/releasedir empty it.  A member of Controls is a control         *)
(* operation that pauses the fence (workspace destroy and status, the      *)
(* recovery around unmount, FUSE destroy).                                 *)
(*                                                                         *)
(* The fence is a tokio RwLock: admitted requests share it, a pause owns   *)
(* it.  Its waiters are served first come, first served.  The number of    *)
(* permits taken from each semaphore is the number of requests of its lane *)
(* that wait for the lock or hold it.                                      *)
(***************************************************************************)
EXTENDS Naturals, Sequences, FiniteSets

CONSTANTS
  Muts,         \* requests that mutate content and own no handle
  Handles,      \* handle slots
  Controls,     \* control operations that pause the fence
  MaxInFlight   \* permits of each lane (64 in the code)

Requests == Muts \cup Handles

ASSUME FenceAssumption ==
  /\ Muts \cap Handles = {}
  /\ Controls \cap Requests = {}
  /\ MaxInFlight \in Nat \ {0}

VARIABLES
  sealed,      \* the value the RwLock protects
  uncertain,   \* latch: some native outcome is unknown
  waiters,     \* who waits for the RwLock, in order
  phase,       \* where each request is
  op,          \* what each request is, or was last
  kernel,      \* the kernel holds a handle in this slot
  native,      \* the native filesystem has a handle open for this slot
  ctl,         \* where each control operation is
  seen,        \* what a paused control operation scanned, or "unscanned"
  upper        \* what a scan of the private upper would find

vars == <<sealed, uncertain, waiters, phase, op, kernel, native, ctl, seen, upper>>

Uppers == {"clean", "dirty"}
Ops    == {"mutate", "open", "release"}
Phases == {"idle", "permit", "lock", "running", "orphan", "cleanup"}
Ctls   == {"idle", "waiting", "paused", "sealed"}

\* An admission lives from the moment the read lock is granted until it is
\* dropped, whoever waits for the operation.
Admitted(r) == phase[r] \in {"running", "orphan", "cleanup"}

\* A control operation owns the write lock.
Paused(c) == ctl[c] \in {"paused", "sealed"}

\* The permits of a lane are held while queueing for the lock and while running.
Lane(cleanup) ==
  {r \in Requests : (Admitted(r) \/ phase[r] = "lock") /\ (op[r] = "release") = cleanup}

PermitFree(cleanup) == Cardinality(Lane(cleanup)) < MaxInFlight

ReadLockFree  == \A c \in Controls : ~Paused(c)
WriteLockFree == ReadLockFree /\ \A r \in Requests : ~Admitted(r)

Enqueue(x) == waiters' = Append(waiters, x)
IsNext(x)  == waiters # <<>> /\ Head(waiters) = x
LeaveQueue(x) ==
  \E i \in 1 .. Len(waiters) :
     /\ waiters[i] = x
     /\ waiters' = SubSeq(waiters, 1, i - 1) \o SubSeq(waiters, i + 1, Len(waiters))

Init ==
  /\ sealed = FALSE
  /\ uncertain = FALSE
  /\ waiters = <<>>
  /\ phase = [r \in Requests |-> "idle"]
  /\ op = [r \in Requests |-> IF r \in Muts THEN "mutate" ELSE "open"]
  /\ kernel = [h \in Handles |-> FALSE]
  /\ native = [h \in Handles |-> FALSE]
  /\ ctl = [c \in Controls |-> "idle"]
  /\ seen = [c \in Controls |-> "unscanned"]
  /\ upper \in Uppers

-----------------------------------------------------------------------------
(* Admission: MutationFence::admit.                                        *)

\* A content operation takes a permit of its lane without waiting (when there
\* is none the call returns EAGAIN and changes nothing) and queues for the lock.
AdmitContent(r) ==
  /\ phase[r] = "idle"
  /\ r \in Handles => ~kernel[r] /\ ~native[r]
  /\ PermitFree(FALSE)
  /\ phase' = [phase EXCEPT ![r] = "lock"]
  /\ op' = [op EXCEPT ![r] = IF r \in Muts THEN "mutate" ELSE "open"]
  /\ Enqueue(r)
  /\ UNCHANGED <<sealed, uncertain, kernel, native, ctl, seen, upper>>

\* The kernel closes a handle. It forgets the handle at once and never repeats
\* the call; the request waits for a permit of the cleanup lane.
AdmitCleanup(h) ==
  /\ phase[h] = "idle" /\ kernel[h]
  /\ kernel' = [kernel EXCEPT ![h] = FALSE]
  /\ op' = [op EXCEPT ![h] = "release"]
  /\ phase' = [phase EXCEPT ![h] = "permit"]
  /\ UNCHANGED <<sealed, uncertain, waiters, native, ctl, seen, upper>>

CleanupPermit(h) ==
  /\ phase[h] = "permit"
  /\ PermitFree(TRUE)
  /\ phase' = [phase EXCEPT ![h] = "lock"]
  /\ Enqueue(h)
  /\ UNCHANGED <<sealed, uncertain, op, kernel, native, ctl, seen, upper>>


\* Mutant: the seal is not looked at once the lock is granted.
AdmitReadUnchecked(r) ==
  /\ phase[r] = "lock" /\ IsNext(r) /\ ReadLockFree
  /\ waiters' = Tail(waiters)
  /\ phase' = [phase EXCEPT ![r] = "running"]
  /\ UNCHANGED <<sealed, uncertain, op, kernel, native, ctl, seen, upper>>

\* Mutant: a lock that lets readers pass a waiting pause.
AdmitReadBarging(r) ==
  /\ phase[r] = "lock" /\ ReadLockFree
  /\ LeaveQueue(r)
  /\ phase' = [phase EXCEPT ![r] =
                 IF sealed /\ op[r] # "release" THEN "idle" ELSE "running"]
  /\ UNCHANGED <<sealed, uncertain, op, kernel, native, ctl, seen, upper>>

\* The read lock is granted. A content operation that finds the fence sealed
\* returns EBUSY; closing a handle stays permitted.
AdmitRead(r) ==
  /\ phase[r] = "lock" /\ IsNext(r) /\ ReadLockFree
  /\ waiters' = Tail(waiters)
  /\ phase' = [phase EXCEPT ![r] =
                 IF sealed /\ op[r] # "release" THEN "idle" ELSE "running"]
  /\ UNCHANGED <<sealed, uncertain, op, kernel, native, ctl, seen, upper>>


\* Mutant: a close dropped while it waits is forgotten.
CancelAdmitSilent(r) ==
  /\ phase[r] \in {"permit", "lock"}
  /\ IF phase[r] = "lock" THEN LeaveQueue(r) ELSE UNCHANGED waiters
  /\ phase' = [phase EXCEPT ![r] = "idle"]
  /\ UNCHANGED <<sealed, uncertain, op, kernel, native, ctl, seen, upper>>

\* Mutant: the dropped request is parked, not ended.
CancelAdmitParked(r) ==
  /\ phase[r] \in {"permit", "lock"}
  /\ IF phase[r] = "lock" THEN LeaveQueue(r) ELSE UNCHANGED waiters
  /\ phase' = [phase EXCEPT ![r] = "cancelled"]
  /\ uncertain' = (uncertain \/ op[r] = "release")
  /\ UNCHANGED <<sealed, op, kernel, native, ctl, seen, upper>>

\* The FUSE request is dropped before it is admitted. Content has not been
\* touched, but a lost close leaves its handle unaccounted for (WaitingCleanup).
CancelAdmit(r) ==
  /\ phase[r] \in {"permit", "lock"}
  /\ IF phase[r] = "lock" THEN LeaveQueue(r) ELSE UNCHANGED waiters
  /\ phase' = [phase EXCEPT ![r] = "idle"]
  /\ uncertain' = (uncertain \/ op[r] = "release")
  /\ UNCHANGED <<sealed, op, kernel, native, ctl, seen, upper>>

-----------------------------------------------------------------------------
(* The native operation: NativeOperation and run_with_cleanup.             *)

\* An admitted content operation changes the upper.
NativeEffect(r) ==
  /\ Admitted(r) /\ op[r] # "release"
  /\ upper' \in Uppers
  /\ UNCHANGED <<sealed, uncertain, waiters, phase, op, kernel, native, ctl, seen>>

\* What the inner filesystem did when it returns: an open that succeeds leaves
\* a handle, a close that succeeds removes one, and a close that fails says
\* nothing about the handle and latches uncertain.
NativeReturn(r) ==
  \/ /\ op[r] = "mutate"
     /\ UNCHANGED <<native, uncertain>>
  \/ /\ op[r] = "open"
     /\ \E ok \in BOOLEAN : native' = [native EXCEPT ![r] = ok]
     /\ UNCHANGED uncertain
  \/ /\ op[r] = "release"
     /\ \/ /\ native' = [native EXCEPT ![r] = FALSE]
           /\ UNCHANGED uncertain
        \/ /\ \E open \in BOOLEAN : native' = [native EXCEPT ![r] = open]
           /\ uncertain' = TRUE

\* The operation returns to its caller and the admission is completed; the
\* reply hands a freshly opened handle to the kernel.
Complete(r) ==
  /\ phase[r] = "running"
  /\ NativeReturn(r)
  /\ kernel' = IF op[r] = "open" THEN [kernel EXCEPT ![r] = native'[r]] ELSE kernel
  /\ phase' = [phase EXCEPT ![r] = "idle"]
  /\ UNCHANGED <<sealed, waiters, op, ctl, seen, upper>>

\* The caller goes away; the operation moves to a detached task.
Detach(r) ==
  /\ phase[r] = "running"
  /\ phase' = [phase EXCEPT ![r] = "orphan"]
  /\ UNCHANGED <<sealed, uncertain, waiters, op, kernel, native, ctl, seen, upper>>

\* The detached operation returns; its cleanup starts with the admission.
OrphanReturn(r) ==
  /\ phase[r] = "orphan"
  /\ NativeReturn(r)
  /\ phase' = [phase EXCEPT ![r] = "cleanup"]
  /\ UNCHANGED <<sealed, waiters, op, kernel, ctl, seen, upper>>

\* The cleanup closes a handle nobody received. When that fails the admission
\* is dropped without completion, which latches uncertain.
OrphanCleanup(r) ==
  /\ phase[r] = "cleanup"
  /\ phase' = [phase EXCEPT ![r] = "idle"]
  /\ IF op[r] = "open" /\ native[r]
     THEN \/ /\ native' = [native EXCEPT ![r] = FALSE]
             /\ UNCHANGED uncertain
          \/ /\ \E open \in BOOLEAN : native' = [native EXCEPT ![r] = open]
             /\ uncertain' = TRUE
     ELSE UNCHANGED <<native, uncertain>>
  /\ UNCHANGED <<sealed, waiters, op, kernel, ctl, seen, upper>>

\* The operation or its cleanup panics: the admission is dropped without
\* completion, whatever the native filesystem has done.
Panic(r) ==
  /\ Admitted(r)
  /\ phase' = [phase EXCEPT ![r] = "idle"]
  /\ uncertain' = TRUE
  /\ IF r \in Handles
     THEN \E open \in BOOLEAN : native' = [native EXCEPT ![r] = open]
     ELSE UNCHANGED native
  /\ UNCHANGED <<sealed, waiters, op, kernel, ctl, seen, upper>>

-----------------------------------------------------------------------------
(* The control side: MutationFence::pause and MutationPause.               *)

PauseRequest(c) ==
  /\ ctl[c] = "idle"
  /\ ctl' = [ctl EXCEPT ![c] = "waiting"]
  /\ Enqueue(c)
  /\ UNCHANGED <<sealed, uncertain, phase, op, kernel, native, seen, upper>>


\* Mutant: the pause does not wait for the admitted operations.
PauseGrantUndrained(c) ==
  /\ ctl[c] = "waiting" /\ IsNext(c) /\ ReadLockFree
  /\ waiters' = Tail(waiters)
  /\ ctl' = [ctl EXCEPT ![c] = IF uncertain THEN "idle" ELSE "paused"]
  /\ UNCHANGED <<sealed, uncertain, phase, op, kernel, native, seen, upper>>

\* Mutant: the pause does not look at the latch.
PauseGrantUncertain(c) ==
  /\ ctl[c] = "waiting" /\ IsNext(c) /\ WriteLockFree
  /\ waiters' = Tail(waiters)
  /\ ctl' = [ctl EXCEPT ![c] = "paused"]
  /\ UNCHANGED <<sealed, uncertain, phase, op, kernel, native, seen, upper>>

\* Mutant: a lock that lets pauses pass waiting readers.
PauseGrantBarging(c) ==
  /\ ctl[c] = "waiting" /\ WriteLockFree
  /\ LeaveQueue(c)
  /\ ctl' = [ctl EXCEPT ![c] = IF uncertain THEN "idle" ELSE "paused"]
  /\ UNCHANGED <<sealed, uncertain, phase, op, kernel, native, seen, upper>>

\* The write lock is granted; an unknown outcome turns the pause into an error.
PauseGrant(c) ==
  /\ ctl[c] = "waiting" /\ IsNext(c) /\ WriteLockFree
  /\ waiters' = Tail(waiters)
  /\ ctl' = [ctl EXCEPT ![c] = IF uncertain THEN "idle" ELSE "paused"]
  /\ UNCHANGED <<sealed, uncertain, phase, op, kernel, native, seen, upper>>

\* The caller of pause() goes away.
PauseCancel(c) ==
  /\ ctl[c] = "waiting"
  /\ LeaveQueue(c)
  /\ ctl' = [ctl EXCEPT ![c] = "idle"]
  /\ UNCHANGED <<sealed, uncertain, phase, op, kernel, native, seen, upper>>

\* scan_upper reads the upper under the pause (upper_diff.rs).
PauseScan(c) ==
  /\ ctl[c] = "paused"
  /\ seen' = [seen EXCEPT ![c] = upper]
  /\ UNCHANGED <<sealed, uncertain, waiters, phase, op, kernel, native, ctl, upper>>


\* Mutant: the latch is not checked again before sealing.
PauseSealUnchecked(c) ==
  /\ ctl[c] = "paused"
  /\ ctl' = [ctl EXCEPT ![c] = "sealed"]
  /\ sealed' = TRUE
  /\ UNCHANGED <<uncertain, waiters, phase, op, kernel, native, seen, upper>>

\* MutationPause::seal checks the latch again; on error the caller returns and
\* drops the pause.
PauseSeal(c) ==
  /\ ctl[c] = "paused"
  /\ IF uncertain
     THEN /\ ctl' = [ctl EXCEPT ![c] = "idle"]
          /\ seen' = [seen EXCEPT ![c] = "unscanned"]
          /\ UNCHANGED sealed
     ELSE /\ ctl' = [ctl EXCEPT ![c] = "sealed"]
          /\ sealed' = TRUE
          /\ UNCHANGED seen
  /\ UNCHANGED <<uncertain, waiters, phase, op, kernel, native, upper>>


\* Mutant: dropping the pause reopens a sealed fence.
PauseDropReopens(c) ==
  /\ Paused(c)
  /\ ctl' = [ctl EXCEPT ![c] = "idle"]
  /\ seen' = [seen EXCEPT ![c] = "unscanned"]
  /\ sealed' = FALSE
  /\ UNCHANGED <<uncertain, waiters, phase, op, kernel, native, upper>>

\* The pause is dropped; mutations are admitted again unless it was sealed.
PauseDrop(c) ==
  /\ Paused(c)
  /\ ctl' = [ctl EXCEPT ![c] = "idle"]
  /\ seen' = [seen EXCEPT ![c] = "unscanned"]
  /\ UNCHANGED <<sealed, uncertain, waiters, phase, op, kernel, native, upper>>

-----------------------------------------------------------------------------

RequestStep(r) ==
  \/ AdmitContent(r) \/ AdmitRead(r) \/ CancelAdmit(r) \/ NativeEffect(r)
  \/ Complete(r) \/ Detach(r) \/ OrphanReturn(r) \/ OrphanCleanup(r) \/ Panic(r)

HandleStep(h) == AdmitCleanup(h) \/ CleanupPermit(h)

ControlStep(c) ==
  \/ PauseRequest(c) \/ PauseGrant(c) \/ PauseCancel(c)
  \/ PauseScan(c) \/ PauseSeal(c) \/ PauseDrop(c)

Next ==
  \/ \E r \in Requests : RequestStep(r)
  \/ \E h \in Handles : HandleStep(h)
  \/ \E c \in Controls : ControlStep(c)

Spec == Init /\ [][Next]_vars

\* The RwLock and the cleanup semaphore wake their waiters in order, a native
\* operation and an orphan's cleanup return, and a scan ends and drops its
\* pause. Nothing forces a request, a pause or a cancellation to happen.
Fairness ==
  /\ \A r \in Requests :
       /\ WF_vars(AdmitRead(r))
       /\ WF_vars(Complete(r)) /\ WF_vars(OrphanReturn(r)) /\ WF_vars(OrphanCleanup(r))
  /\ \A h \in Handles : SF_vars(CleanupPermit(h))
  /\ \A c \in Controls : WF_vars(PauseGrant(c)) /\ WF_vars(PauseDrop(c))

FairSpec == Spec /\ Fairness

-----------------------------------------------------------------------------
(* Properties.                                                             *)

\* Every variable stays in its range.
TypeOK ==
  /\ sealed \in BOOLEAN
  /\ uncertain \in BOOLEAN
  /\ waiters \in Seq(Requests \cup Controls)
  /\ phase \in [Requests -> Phases]
  /\ op \in [Requests -> Ops]
  /\ kernel \in [Handles -> BOOLEAN]
  /\ native \in [Handles -> BOOLEAN]
  /\ ctl \in [Controls -> Ctls]
  /\ seen \in [Controls -> Uppers \cup {"unscanned"}]
  /\ upper \in Uppers

\* A dirty verdict computed under a pause stays the truth for as long as the
\* pause is kept, sealed or not: destroy decides to delete the upper from it.
ScanStaysTrue ==
  \A c \in Controls : Paused(c) /\ seen[c] # "unscanned" => seen[c] = upper

\* After the fence is sealed only handle closes are in flight: no content
\* operation that queued or ran before the seal survives it.
NoContentAfterSeal ==
  sealed => \A r \in Requests : Admitted(r) => op[r] = "release"

\* As long as every outcome is known, each handle the native filesystem has
\* open belongs to the kernel or to a request that still accounts for it.
NoLeakedHandle ==
  ~uncertain => \A h \in Handles : native[h] => kernel[h] \/ phase[h] # "idle"

\* A seal and an unknown outcome are for good, and a sealed upper never moves.
LatchesHold ==
  [][ /\ sealed => sealed' /\ upper' = upper
      /\ uncertain => uncertain' ]_vars

\* At the moment the fence is sealed nothing native is in flight and each open
\* handle is the kernel's or that of a close that is still waiting.
SealAccountsForHandles ==
  [][ ~sealed /\ sealed' =>
        /\ \A r \in Requests : ~Admitted(r)
        /\ \A h \in Handles :
             native[h] => kernel[h] \/ (op[h] = "release" /\ phase[h] \in {"permit", "lock"})
    ]_vars

\* A pause is granted, refused or given up: later requests cannot keep it
\* waiting for ever behind the operations that were admitted before it.
PauseDrains ==
  \A c \in Controls : (ctl[c] = "waiting") ~> (ctl[c] # "waiting")

\* A close the kernel has sent ends, whatever pauses and seals happen meanwhile.
CloseEnds ==
  \A h \in Handles : (op[h] = "release" /\ phase[h] # "idle") ~> (phase[h] = "idle")

\* The RwLock: a paused control operation is alone, and only it has a scan.
LockInv ==
  \A c \in Controls :
    /\ Paused(c) => /\ \A r \in Requests : ~Admitted(r)
                    /\ \A d \in Controls : Paused(d) => d = c
    /\ ~Paused(c) => seen[c] = "unscanned"

\* What a slot's request is: a mutation owns no handle, only a close waits for
\* a cleanup permit, an open that has not returned has no handle yet, and a
\* detached close that has returned has none left.
RequestInv ==
  /\ \A m \in Muts : op[m] = "mutate"
  /\ \A h \in Handles :
       /\ op[h] \in {"open", "release"}
       /\ phase[h] = "permit" => op[h] = "release"
       /\ op[h] = "open" /\ phase[h] \in {"lock", "running", "orphan"} => ~native[h]
       /\ op[h] = "release" /\ phase[h] = "cleanup" => uncertain \/ ~native[h]
       /\ phase[h] # "idle" => ~kernel[h]

\* The inductive invariant: the lock alone does not give the properties above,
\* it needs what each request is and which handles it accounts for.
FenceInv ==
  /\ TypeOK
  /\ LockInv
  /\ RequestInv
  /\ NoContentAfterSeal
  /\ NoLeakedHandle
  /\ ScanStaysTrue

\* The fence implements the gate: a pause is a hold, a content admission is an
\* active operation.
Gate == INSTANCE MutationGate WITH
  active  <- {r \in Requests : Admitted(r) /\ op[r] # "release"},
  held    <- \E c \in Controls : Paused(c),
  closed  <- sealed,
  unknown <- uncertain

ImplementsGate == Gate!GateSpec

\* What a destroy rests on: the verdict of a scan stays true while its pause is
\* kept, and no content operation is left behind the seal (mutation_fence.rs pause,
\* admit and seal).
PauseExcludes == ScanStaysTrue /\ NoContentAfterSeal

\* A seal is granted only when every handle is accounted for, and is for good
\* (mutation_fence.rs seal).
SealSound == LatchesHold /\ SealAccountsForHandles

\* Neither pauses nor closes wait for ever on each other (the order of the RwLock
\* and of the two lanes in mutation_fence.rs).
FenceMovesOn == PauseDrains /\ CloseEnds
=============================================================================
