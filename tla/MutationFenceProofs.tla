------------------------ MODULE MutationFenceProofs ------------------------
(***************************************************************************)
(* Proofs that the fence keeps its invariants and implements the gate, for *)
(* every set of requests and control operations and every lane capacity.   *)
(***************************************************************************)
EXTENDS MutationFence, TLAPS

\* Leaving the queue leaves a queue (the cancellation of a waiting request).
LEMMA RemovalType ==
  ASSUME NEW S, NEW s \in Seq(S), NEW i \in 1 .. Len(s)
  PROVE  SubSeq(s, 1, i - 1) \o SubSeq(s, i + 1, Len(s)) \in Seq(S)
<1>1. SubSeq(s, 1, i - 1) \in Seq(S)
  OBVIOUS
<1>2. SubSeq(s, i + 1, Len(s)) \in Seq(S)
  OBVIOUS
<1> QED
  BY <1>1, <1>2

\* The queue stays a queue of requests and control operations.
LEMMA QueueType ==
  ASSUME waiters \in Seq(Requests \cup Controls),
         NEW x \in Requests \cup Controls,
         \/ Enqueue(x)
         \/ LeaveQueue(x)
         \/ IsNext(x) /\ waiters' = Tail(waiters)
         \/ UNCHANGED waiters
  PROVE  waiters' \in Seq(Requests \cup Controls)
<1>1. CASE Enqueue(x)
  BY <1>1 DEF Enqueue
<1>2. CASE LeaveQueue(x)
  BY <1>2, RemovalType DEF LeaveQueue
<1>3. CASE IsNext(x) /\ waiters' = Tail(waiters)
  BY <1>3 DEF IsNext
<1> QED
  BY <1>1, <1>2, <1>3

\* The initial state satisfies the invariant.
LEMMA FenceInit == Init => FenceInv
<1> SUFFICES ASSUME Init PROVE FenceInv
  OBVIOUS
<1> USE FenceAssumption DEF Init, Requests, Admitted, Paused
<1>1. TypeOK
  <2>1. sealed \in BOOLEAN /\ uncertain \in BOOLEAN /\ upper \in Uppers
    OBVIOUS
  <2>2. waiters \in Seq(Requests \cup Controls)
    OBVIOUS
  <2>3. phase \in [Requests -> Phases] /\ op \in [Requests -> Ops]
    BY DEF Phases, Ops
  <2>4. kernel \in [Handles -> BOOLEAN] /\ native \in [Handles -> BOOLEAN]
    OBVIOUS
  <2>5. ctl \in [Controls -> Ctls] /\ seen \in [Controls -> Uppers \cup {"unscanned"}]
    BY DEF Ctls
  <2> QED
    BY <2>1, <2>2, <2>3, <2>4, <2>5 DEF TypeOK
<1>2. LockInv
  BY DEF LockInv
<1>3. RequestInv
  BY DEF RequestInv
<1>4. NoContentAfterSeal /\ NoLeakedHandle /\ ScanStaysTrue
  BY DEF NoContentAfterSeal, NoLeakedHandle, ScanStaysTrue
<1> QED
  BY <1>1, <1>2, <1>3, <1>4 DEF FenceInv

\* Every step preserves the invariant.
LEMMA FenceStep == FenceInv /\ [Next]_vars => FenceInv'
<1> SUFFICES ASSUME FenceInv, [Next]_vars PROVE FenceInv'
  OBVIOUS
<1> USE FenceAssumption DEF FenceInv, Requests, Admitted, Paused
<1>1. ASSUME NEW r \in Requests, AdmitContent(r) PROVE FenceInv'
  <2>1. TypeOK'
    BY <1>1, QueueType DEF AdmitContent, TypeOK, Phases, Ops, Ctls, Uppers, Enqueue
  <2>2. LockInv'
    BY <1>1 DEF AdmitContent, LockInv, TypeOK, Enqueue
  <2>3. RequestInv'
    BY <1>1 DEF AdmitContent, RequestInv, TypeOK, Enqueue
  <2>4. NoContentAfterSeal'
    BY <1>1 DEF AdmitContent, NoContentAfterSeal, LockInv, TypeOK, Enqueue
  <2>5. NoLeakedHandle'
    BY <1>1 DEF AdmitContent, NoLeakedHandle, RequestInv, TypeOK, Enqueue
  <2>6. ScanStaysTrue'
    BY <1>1 DEF AdmitContent, ScanStaysTrue, LockInv, TypeOK, Enqueue
  <2> QED
    BY <2>1, <2>2, <2>3, <2>4, <2>5, <2>6 DEF FenceInv
<1>2. ASSUME NEW r \in Requests, AdmitRead(r) PROVE FenceInv'
  <2>1. TypeOK'
    BY <1>2, QueueType DEF AdmitRead, TypeOK, Phases, Ops, Ctls, Uppers, IsNext, ReadLockFree
  <2>2. LockInv'
    BY <1>2 DEF AdmitRead, LockInv, TypeOK, IsNext, ReadLockFree
  <2>3. RequestInv'
    BY <1>2 DEF AdmitRead, RequestInv, TypeOK, IsNext, ReadLockFree
  <2>4. NoContentAfterSeal'
    BY <1>2 DEF AdmitRead, NoContentAfterSeal, LockInv, TypeOK, IsNext, ReadLockFree
  <2>5. NoLeakedHandle'
    BY <1>2 DEF AdmitRead, NoLeakedHandle, RequestInv, TypeOK, IsNext, ReadLockFree
  <2>6. ScanStaysTrue'
    BY <1>2 DEF AdmitRead, ScanStaysTrue, LockInv, TypeOK, IsNext, ReadLockFree
  <2> QED
    BY <2>1, <2>2, <2>3, <2>4, <2>5, <2>6 DEF FenceInv
<1>3. ASSUME NEW r \in Requests, CancelAdmit(r) PROVE FenceInv'
  <2>1. TypeOK'
    BY <1>3, QueueType DEF CancelAdmit, TypeOK, Phases, Ops, Ctls, Uppers
  <2>2. LockInv'
    BY <1>3 DEF CancelAdmit, LockInv, TypeOK
  <2>3. RequestInv'
    BY <1>3 DEF CancelAdmit, RequestInv, TypeOK
  <2>4. NoContentAfterSeal'
    BY <1>3 DEF CancelAdmit, NoContentAfterSeal, LockInv, TypeOK
  <2>5. NoLeakedHandle'
    BY <1>3 DEF CancelAdmit, NoLeakedHandle, RequestInv, TypeOK
  <2>6. ScanStaysTrue'
    BY <1>3 DEF CancelAdmit, ScanStaysTrue, LockInv, TypeOK
  <2> QED
    BY <2>1, <2>2, <2>3, <2>4, <2>5, <2>6 DEF FenceInv
<1>4. ASSUME NEW r \in Requests, NativeEffect(r) PROVE FenceInv'
  <2>1. TypeOK'
    BY <1>4, QueueType DEF NativeEffect, TypeOK, Phases, Ops, Ctls, Uppers
  <2>2. LockInv'
    BY <1>4 DEF NativeEffect, LockInv, TypeOK
  <2>3. RequestInv'
    BY <1>4 DEF NativeEffect, RequestInv, TypeOK
  <2>4. NoContentAfterSeal'
    BY <1>4 DEF NativeEffect, NoContentAfterSeal, LockInv, TypeOK
  <2>5. NoLeakedHandle'
    BY <1>4 DEF NativeEffect, NoLeakedHandle, RequestInv, TypeOK
  <2>6. ScanStaysTrue'
    BY <1>4 DEF NativeEffect, ScanStaysTrue, LockInv, TypeOK
  <2> QED
    BY <2>1, <2>2, <2>3, <2>4, <2>5, <2>6 DEF FenceInv
<1>5. ASSUME NEW r \in Requests, Complete(r) PROVE FenceInv'
  <2>1. TypeOK'
    BY <1>5, QueueType DEF Complete, TypeOK, Phases, Ops, Ctls, Uppers, NativeReturn
  <2>2. LockInv'
    BY <1>5 DEF Complete, LockInv, TypeOK, NativeReturn
  <2>3. RequestInv'
    BY <1>5 DEF Complete, RequestInv, TypeOK, NativeReturn
  <2>4. NoContentAfterSeal'
    BY <1>5 DEF Complete, NoContentAfterSeal, LockInv, TypeOK, NativeReturn
  <2>5. NoLeakedHandle'
    BY <1>5 DEF Complete, NoLeakedHandle, RequestInv, TypeOK, NativeReturn
  <2>6. ScanStaysTrue'
    BY <1>5 DEF Complete, ScanStaysTrue, LockInv, TypeOK, NativeReturn
  <2> QED
    BY <2>1, <2>2, <2>3, <2>4, <2>5, <2>6 DEF FenceInv
<1>6. ASSUME NEW r \in Requests, Detach(r) PROVE FenceInv'
  <2>1. TypeOK'
    BY <1>6, QueueType DEF Detach, TypeOK, Phases, Ops, Ctls, Uppers
  <2>2. LockInv'
    BY <1>6 DEF Detach, LockInv, TypeOK
  <2>3. RequestInv'
    BY <1>6 DEF Detach, RequestInv, TypeOK
  <2>4. NoContentAfterSeal'
    BY <1>6 DEF Detach, NoContentAfterSeal, LockInv, TypeOK
  <2>5. NoLeakedHandle'
    BY <1>6 DEF Detach, NoLeakedHandle, RequestInv, TypeOK
  <2>6. ScanStaysTrue'
    BY <1>6 DEF Detach, ScanStaysTrue, LockInv, TypeOK
  <2> QED
    BY <2>1, <2>2, <2>3, <2>4, <2>5, <2>6 DEF FenceInv
<1>7. ASSUME NEW r \in Requests, OrphanReturn(r) PROVE FenceInv'
  <2>1. TypeOK'
    BY <1>7, QueueType DEF OrphanReturn, TypeOK, Phases, Ops, Ctls, Uppers, NativeReturn
  <2>2. LockInv'
    BY <1>7 DEF OrphanReturn, LockInv, TypeOK, NativeReturn
  <2>3. RequestInv'
    BY <1>7 DEF OrphanReturn, RequestInv, TypeOK, NativeReturn
  <2>4. NoContentAfterSeal'
    BY <1>7 DEF OrphanReturn, NoContentAfterSeal, LockInv, TypeOK, NativeReturn
  <2>5. NoLeakedHandle'
    BY <1>7 DEF OrphanReturn, NoLeakedHandle, RequestInv, TypeOK, NativeReturn
  <2>6. ScanStaysTrue'
    BY <1>7 DEF OrphanReturn, ScanStaysTrue, LockInv, TypeOK, NativeReturn
  <2> QED
    BY <2>1, <2>2, <2>3, <2>4, <2>5, <2>6 DEF FenceInv
<1>8. ASSUME NEW r \in Requests, OrphanCleanup(r) PROVE FenceInv'
  <2>1. TypeOK'
    BY <1>8, QueueType DEF OrphanCleanup, TypeOK, Phases, Ops, Ctls, Uppers
  <2>2. LockInv'
    BY <1>8 DEF OrphanCleanup, LockInv, TypeOK
  <2>3. RequestInv'
    BY <1>8 DEF OrphanCleanup, RequestInv, TypeOK
  <2>4. NoContentAfterSeal'
    BY <1>8 DEF OrphanCleanup, NoContentAfterSeal, LockInv, TypeOK
  <2>5. NoLeakedHandle'
    BY <1>8 DEF OrphanCleanup, NoLeakedHandle, RequestInv, TypeOK
  <2>6. ScanStaysTrue'
    BY <1>8 DEF OrphanCleanup, ScanStaysTrue, LockInv, TypeOK
  <2> QED
    BY <2>1, <2>2, <2>3, <2>4, <2>5, <2>6 DEF FenceInv
<1>9. ASSUME NEW r \in Requests, Panic(r) PROVE FenceInv'
  <2>1. TypeOK'
    BY <1>9, QueueType DEF Panic, TypeOK, Phases, Ops, Ctls, Uppers
  <2>2. LockInv'
    BY <1>9 DEF Panic, LockInv, TypeOK
  <2>3. RequestInv'
    BY <1>9 DEF Panic, RequestInv, TypeOK
  <2>4. NoContentAfterSeal'
    BY <1>9 DEF Panic, NoContentAfterSeal, LockInv, TypeOK
  <2>5. NoLeakedHandle'
    BY <1>9 DEF Panic, NoLeakedHandle, RequestInv, TypeOK
  <2>6. ScanStaysTrue'
    BY <1>9 DEF Panic, ScanStaysTrue, LockInv, TypeOK
  <2> QED
    BY <2>1, <2>2, <2>3, <2>4, <2>5, <2>6 DEF FenceInv
<1>10. ASSUME NEW h \in Handles, AdmitCleanup(h) PROVE FenceInv'
  <2>1. TypeOK'
    BY <1>10, QueueType DEF AdmitCleanup, TypeOK, Phases, Ops, Ctls, Uppers
  <2>2. LockInv'
    BY <1>10 DEF AdmitCleanup, LockInv, TypeOK
  <2>3. RequestInv'
    BY <1>10 DEF AdmitCleanup, RequestInv, TypeOK
  <2>4. NoContentAfterSeal'
    BY <1>10 DEF AdmitCleanup, NoContentAfterSeal, LockInv, TypeOK
  <2>5. NoLeakedHandle'
    BY <1>10 DEF AdmitCleanup, NoLeakedHandle, RequestInv, TypeOK
  <2>6. ScanStaysTrue'
    BY <1>10 DEF AdmitCleanup, ScanStaysTrue, LockInv, TypeOK
  <2> QED
    BY <2>1, <2>2, <2>3, <2>4, <2>5, <2>6 DEF FenceInv
<1>11. ASSUME NEW h \in Handles, CleanupPermit(h) PROVE FenceInv'
  <2>1. TypeOK'
    BY <1>11, QueueType DEF CleanupPermit, TypeOK, Phases, Ops, Ctls, Uppers, Enqueue
  <2>2. LockInv'
    BY <1>11 DEF CleanupPermit, LockInv, TypeOK, Enqueue
  <2>3. RequestInv'
    BY <1>11 DEF CleanupPermit, RequestInv, TypeOK, Enqueue
  <2>4. NoContentAfterSeal'
    BY <1>11 DEF CleanupPermit, NoContentAfterSeal, LockInv, TypeOK, Enqueue
  <2>5. NoLeakedHandle'
    BY <1>11 DEF CleanupPermit, NoLeakedHandle, RequestInv, TypeOK, Enqueue
  <2>6. ScanStaysTrue'
    BY <1>11 DEF CleanupPermit, ScanStaysTrue, LockInv, TypeOK, Enqueue
  <2> QED
    BY <2>1, <2>2, <2>3, <2>4, <2>5, <2>6 DEF FenceInv
<1>12. ASSUME NEW c \in Controls, PauseRequest(c) PROVE FenceInv'
  <2>1. TypeOK'
    BY <1>12, QueueType DEF PauseRequest, TypeOK, Phases, Ops, Ctls, Uppers, Enqueue
  <2>2. LockInv'
    BY <1>12 DEF PauseRequest, LockInv, TypeOK, Enqueue
  <2>3. RequestInv'
    BY <1>12 DEF PauseRequest, RequestInv, TypeOK, Enqueue
  <2>4. NoContentAfterSeal'
    BY <1>12 DEF PauseRequest, NoContentAfterSeal, LockInv, TypeOK, Enqueue
  <2>5. NoLeakedHandle'
    BY <1>12 DEF PauseRequest, NoLeakedHandle, RequestInv, TypeOK, Enqueue
  <2>6. ScanStaysTrue'
    BY <1>12 DEF PauseRequest, ScanStaysTrue, LockInv, TypeOK, Enqueue
  <2> QED
    BY <2>1, <2>2, <2>3, <2>4, <2>5, <2>6 DEF FenceInv
<1>13. ASSUME NEW c \in Controls, PauseGrant(c) PROVE FenceInv'
  <2>1. TypeOK'
    BY <1>13, QueueType DEF PauseGrant, TypeOK, Phases, Ops, Ctls, Uppers, IsNext, ReadLockFree, WriteLockFree
  <2>2. LockInv'
    BY <1>13 DEF PauseGrant, LockInv, TypeOK, IsNext, ReadLockFree, WriteLockFree
  <2>3. RequestInv'
    BY <1>13 DEF PauseGrant, RequestInv, TypeOK, IsNext, ReadLockFree, WriteLockFree
  <2>4. NoContentAfterSeal'
    BY <1>13 DEF PauseGrant, NoContentAfterSeal, LockInv, TypeOK, IsNext, ReadLockFree, WriteLockFree
  <2>5. NoLeakedHandle'
    BY <1>13 DEF PauseGrant, NoLeakedHandle, RequestInv, TypeOK, IsNext, ReadLockFree, WriteLockFree
  <2>6. ScanStaysTrue'
    BY <1>13 DEF PauseGrant, ScanStaysTrue, LockInv, TypeOK, IsNext, ReadLockFree, WriteLockFree
  <2> QED
    BY <2>1, <2>2, <2>3, <2>4, <2>5, <2>6 DEF FenceInv
<1>14. ASSUME NEW c \in Controls, PauseCancel(c) PROVE FenceInv'
  <2>1. TypeOK'
    BY <1>14, QueueType DEF PauseCancel, TypeOK, Phases, Ops, Ctls, Uppers
  <2>2. LockInv'
    BY <1>14 DEF PauseCancel, LockInv, TypeOK
  <2>3. RequestInv'
    BY <1>14 DEF PauseCancel, RequestInv, TypeOK
  <2>4. NoContentAfterSeal'
    BY <1>14 DEF PauseCancel, NoContentAfterSeal, LockInv, TypeOK
  <2>5. NoLeakedHandle'
    BY <1>14 DEF PauseCancel, NoLeakedHandle, RequestInv, TypeOK
  <2>6. ScanStaysTrue'
    BY <1>14 DEF PauseCancel, ScanStaysTrue, LockInv, TypeOK
  <2> QED
    BY <2>1, <2>2, <2>3, <2>4, <2>5, <2>6 DEF FenceInv
<1>15. ASSUME NEW c \in Controls, PauseScan(c) PROVE FenceInv'
  <2>1. TypeOK'
    BY <1>15, QueueType DEF PauseScan, TypeOK, Phases, Ops, Ctls, Uppers
  <2>2. LockInv'
    BY <1>15 DEF PauseScan, LockInv, TypeOK
  <2>3. RequestInv'
    BY <1>15 DEF PauseScan, RequestInv, TypeOK
  <2>4. NoContentAfterSeal'
    BY <1>15 DEF PauseScan, NoContentAfterSeal, LockInv, TypeOK
  <2>5. NoLeakedHandle'
    BY <1>15 DEF PauseScan, NoLeakedHandle, RequestInv, TypeOK
  <2>6. ScanStaysTrue'
    BY <1>15 DEF PauseScan, ScanStaysTrue, LockInv, TypeOK
  <2> QED
    BY <2>1, <2>2, <2>3, <2>4, <2>5, <2>6 DEF FenceInv
<1>16. ASSUME NEW c \in Controls, PauseSeal(c) PROVE FenceInv'
  <2>1. TypeOK'
    BY <1>16, QueueType DEF PauseSeal, TypeOK, Phases, Ops, Ctls, Uppers
  <2>2. LockInv'
    BY <1>16 DEF PauseSeal, LockInv, TypeOK
  <2>3. RequestInv'
    BY <1>16 DEF PauseSeal, RequestInv, TypeOK
  <2>4. NoContentAfterSeal'
    BY <1>16 DEF PauseSeal, NoContentAfterSeal, LockInv, TypeOK
  <2>5. NoLeakedHandle'
    BY <1>16 DEF PauseSeal, NoLeakedHandle, RequestInv, TypeOK
  <2>6. ScanStaysTrue'
    BY <1>16 DEF PauseSeal, ScanStaysTrue, LockInv, TypeOK
  <2> QED
    BY <2>1, <2>2, <2>3, <2>4, <2>5, <2>6 DEF FenceInv
<1>17. ASSUME NEW c \in Controls, PauseDrop(c) PROVE FenceInv'
  <2>1. TypeOK'
    BY <1>17, QueueType DEF PauseDrop, TypeOK, Phases, Ops, Ctls, Uppers
  <2>2. LockInv'
    BY <1>17 DEF PauseDrop, LockInv, TypeOK
  <2>3. RequestInv'
    BY <1>17 DEF PauseDrop, RequestInv, TypeOK
  <2>4. NoContentAfterSeal'
    BY <1>17 DEF PauseDrop, NoContentAfterSeal, LockInv, TypeOK
  <2>5. NoLeakedHandle'
    BY <1>17 DEF PauseDrop, NoLeakedHandle, RequestInv, TypeOK
  <2>6. ScanStaysTrue'
    BY <1>17 DEF PauseDrop, ScanStaysTrue, LockInv, TypeOK
  <2> QED
    BY <2>1, <2>2, <2>3, <2>4, <2>5, <2>6 DEF FenceInv
<1>18. CASE UNCHANGED vars
  BY <1>18 DEF vars, TypeOK, LockInv, RequestInv, NoContentAfterSeal, NoLeakedHandle,
     ScanStaysTrue
<1> QED
  BY <1>1, <1>2, <1>3, <1>4, <1>5, <1>6, <1>7, <1>8, <1>9, <1>10, <1>11, <1>12, <1>13, <1>14, <1>15, <1>16, <1>17, <1>18
     DEF Next, RequestStep, HandleStep, ControlStep

\* In every behaviour of the fence the invariant holds in every state.
THEOREM FenceInvariant == Spec => []FenceInv
<1> QED
  BY FenceInit, FenceStep, PTL DEF Spec

\* The safety properties the runs check: types, a scan that stays true, no
\* content operation after the seal, and no handle lost unless uncertain says so.
THEOREM FenceSafety ==
  Spec => [](TypeOK /\ PauseExcludes /\ NoLeakedHandle)
<1>1. FenceInv => TypeOK /\ PauseExcludes /\ NoLeakedHandle
  BY DEF FenceInv, PauseExcludes
<1> QED
  BY <1>1, FenceInvariant, PTL

\* Requests, handles, control operations and the queue of the lock stay of their kind
\* (mutation_fence.rs MutationFence, fenced_fs.rs).
THEOREM FenceTypes == Spec => []TypeOK
<1> QED
  BY FenceSafety, PTL

\* The verdict of a scan stays true while its pause is kept, and no content operation is
\* left behind the seal (mutation_fence.rs pause, admit and seal).
THEOREM FencePauseExcludes == Spec => []PauseExcludes
<1> QED
  BY FenceSafety, PTL

\* As long as every outcome is known, a native handle belongs to the kernel or to a request
\* that still accounts for it (fenced_fs.rs open and release paths).
THEOREM FenceNoLeakedHandle == Spec => []NoLeakedHandle
<1> QED
  BY FenceSafety, PTL

\* The seal and the uncertain latch are never lifted, and the upper does not
\* move once the fence is sealed.
THEOREM FenceLatches == Spec => LatchesHold
<1> DEFINE Step == /\ sealed => sealed' /\ upper' = upper
                   /\ uncertain => uncertain'
<1>1. FenceInv /\ [Next]_vars => [Step]_vars
  <2> SUFFICES ASSUME FenceInv, Next PROVE Step
    OBVIOUS
  <2> USE DEF FenceInv, TypeOK, NoContentAfterSeal, Requests
  <2>1. ASSUME NEW r \in Requests, RequestStep(r) PROVE Step
    BY <2>1 DEF RequestStep, AdmitContent, AdmitRead, CancelAdmit, NativeEffect, Complete,
       Detach, OrphanReturn, OrphanCleanup, Panic, NativeReturn
  <2>2. ASSUME NEW h \in Handles, HandleStep(h) PROVE Step
    BY <2>2 DEF HandleStep, AdmitCleanup, CleanupPermit
  <2>3. ASSUME NEW c \in Controls, ControlStep(c) PROVE Step
    BY <2>3 DEF ControlStep, PauseRequest, PauseGrant, PauseCancel, PauseScan, PauseSeal, PauseDrop
  <2> QED
    BY <2>1, <2>2, <2>3 DEF Next
<1> QED
  BY <1>1, FenceInvariant, PTL DEF Spec, LatchesHold

\* When the fence is sealed no native operation is in flight and every open
\* handle is the kernel's or that of a close that still waits.
THEOREM FenceSeal == Spec => SealAccountsForHandles
<1> DEFINE Step == ~sealed /\ sealed' =>
             /\ \A r \in Requests : ~Admitted(r)
             /\ \A h \in Handles :
                  native[h] => kernel[h] \/ (op[h] = "release" /\ phase[h] \in {"permit", "lock"})
<1>1. FenceInv /\ [Next]_vars => [Step]_vars
  <2> SUFFICES ASSUME FenceInv, Next, ~sealed, sealed'
               PROVE  /\ \A r \in Requests : ~Admitted(r)
                      /\ \A h \in Handles :
                           native[h] => kernel[h] \/ (op[h] = "release" /\ phase[h] \in {"permit", "lock"})
    OBVIOUS
  <2>1. PICK c \in Controls : PauseSeal(c) /\ ~uncertain
    BY DEF Next, RequestStep, HandleStep, ControlStep, AdmitContent, AdmitRead, CancelAdmit,
       NativeEffect, Complete, Detach, OrphanReturn, OrphanCleanup, Panic, NativeReturn, AdmitCleanup,
       CleanupPermit, PauseRequest, PauseGrant, PauseCancel, PauseScan, PauseSeal, PauseDrop
  <2>2. \A r \in Requests : ~Admitted(r)
    BY <2>1 DEF PauseSeal, FenceInv, LockInv, Paused
  <2>3. ASSUME NEW h \in Handles, native[h], ~kernel[h]
        PROVE  op[h] = "release" /\ phase[h] \in {"permit", "lock"}
    <3>1. phase[h] \in {"permit", "lock"}
      BY <2>1, <2>2, <2>3 DEF FenceInv, NoLeakedHandle, Admitted, TypeOK, Phases, Requests
    <3> QED
      BY <2>3, <3>1 DEF FenceInv, RequestInv
  <2> QED
    BY <2>2, <2>3
<1> QED
  BY <1>1, FenceInvariant, PTL DEF Spec, SealAccountsForHandles

\* A seal is granted only with every handle accounted for, and is never lifted.
THEOREM FenceSealSound == Spec => SealSound
<1> QED
  BY FenceLatches, FenceSeal DEF SealSound

\* A step of the fence is a step of the gate or leaves the gate unchanged.
LEMMA GateStep ==
  FenceInv /\ FenceInv' /\ [Next]_vars => [Gate!GateNext]_(Gate!gateVars)
<1> SUFFICES ASSUME FenceInv, FenceInv', [Next]_vars PROVE [Gate!GateNext]_(Gate!gateVars)
  OBVIOUS
<1> USE FenceAssumption DEF FenceInv, TypeOK, Requests, Admitted, Paused, Gate!gateVars
<1>1. ASSUME NEW r \in Requests, AdmitContent(r) PROVE UNCHANGED Gate!gateVars
  BY <1>1 DEF AdmitContent
<1>2. ASSUME NEW r \in Requests, AdmitRead(r) PROVE Gate!Begin(r) \/ UNCHANGED Gate!gateVars
  BY <1>2 DEF AdmitRead, ReadLockFree, Gate!Begin
<1>3. ASSUME NEW r \in Requests, CancelAdmit(r) PROVE Gate!Lose \/ UNCHANGED Gate!gateVars
  BY <1>3 DEF CancelAdmit, Gate!Lose
<1>4. ASSUME NEW r \in Requests, NativeEffect(r) PROVE Gate!Touch
  BY <1>4 DEF NativeEffect, Gate!Touch, Uppers, Gate!UpperStates
<1>5. ASSUME NEW r \in Requests, Complete(r)
      PROVE  Gate!End(r) \/ Gate!Lose \/ UNCHANGED Gate!gateVars
  BY <1>5 DEF Complete, NativeReturn, Gate!End, Gate!Lose
<1>6. ASSUME NEW r \in Requests, Detach(r) PROVE UNCHANGED Gate!gateVars
  BY <1>6 DEF Detach
<1>7. ASSUME NEW r \in Requests, OrphanReturn(r) PROVE Gate!Lose \/ UNCHANGED Gate!gateVars
  BY <1>7 DEF OrphanReturn, NativeReturn, Gate!Lose
<1>8. ASSUME NEW r \in Requests, OrphanCleanup(r)
      PROVE  Gate!End(r) \/ UNCHANGED Gate!gateVars
  BY <1>8 DEF OrphanCleanup, Gate!End
<1>9. ASSUME NEW r \in Requests, Panic(r) PROVE Gate!End(r) \/ Gate!Lose
  BY <1>9 DEF Panic, Gate!End, Gate!Lose
<1>10. ASSUME NEW h \in Handles, HandleStep(h) PROVE UNCHANGED Gate!gateVars
  <2>1. h \in Requests /\ ~Admitted(h) /\ ~(phase'[h] \in {"running", "orphan", "cleanup"})
    BY <1>10 DEF HandleStep, AdmitCleanup, CleanupPermit
  <2>2. \A r \in Requests : r # h => phase'[r] = phase[r] /\ op'[r] = op[r]
    BY <1>10 DEF HandleStep, AdmitCleanup, CleanupPermit
  <2>3. UNCHANGED <<sealed, uncertain, ctl, upper>>
    BY <1>10 DEF HandleStep, AdmitCleanup, CleanupPermit
  <2> QED
    BY <2>1, <2>2, <2>3
<1>11. ASSUME NEW c \in Controls, PauseRequest(c) \/ PauseCancel(c) \/ PauseScan(c)
       PROVE  UNCHANGED Gate!gateVars
  BY <1>11 DEF PauseRequest, PauseCancel, PauseScan, Ctls
<1>12. ASSUME NEW c \in Controls, PauseGrant(c) PROVE Gate!Hold \/ UNCHANGED Gate!gateVars
  BY <1>12 DEF PauseGrant, WriteLockFree, ReadLockFree, Gate!Hold
<1>13. ASSUME NEW c \in Controls, PauseSeal(c) PROVE Gate!Close \/ Gate!Free
  BY <1>13 DEF PauseSeal, LockInv, Gate!Close, Gate!Free
<1>14. ASSUME NEW c \in Controls, PauseDrop(c) PROVE Gate!Free
  BY <1>14 DEF PauseDrop, LockInv, Gate!Free
<1>15. CASE UNCHANGED vars
  BY <1>15 DEF vars
<1> QED
  BY <1>1, <1>2, <1>3, <1>4, <1>5, <1>6, <1>7, <1>8, <1>9, <1>10, <1>11, <1>12, <1>13, <1>14, <1>15
     DEF Next, RequestStep, ControlStep, Gate!GateNext

\* The fence implements the gate.
THEOREM FenceImplementsGate == Spec => ImplementsGate
<1>1. Init => Gate!GateInit
  BY DEF Init, Gate!GateInit, Admitted, Paused, Uppers, Gate!UpperStates
<1> QED
  BY <1>1, FenceInvariant, GateStep, PTL DEF Spec, ImplementsGate, Gate!GateSpec
=============================================================================
