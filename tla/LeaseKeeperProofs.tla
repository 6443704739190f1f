-------------------------- MODULE LeaseKeeperProofs --------------------------
(***************************************************************************)
(* Proofs about LeaseKeeper: for any tasks, grants and delays the lease of *)
(* a reader never outlives the grant of the service, a terminal failure is *)
(* final, a renewal keeps the reported epoch, and the background task      *)
(* neither oversleeps nor gives up too early.                              *)
(***************************************************************************)
EXTENDS LeaseKeeper, SequenceTheorems, TLAPS

\* Where a task holds the mutex, and where it has seen under the mutex that the window
\* needs renewal.
Held == {"second", "attempt", "waiting", "backoff", "answered", "sampled", "store"}
Renews == Held \ {"second"}

Queued(t) == \E i \in 1 .. Len(renewing) : renewing[i] = t

\* A task that awaits or holds the mutex is in its queue, the holder at the head: no two
\* tasks hold it.
QueueOK(t) ==
  /\ calls[t].at \in Held \cup {"queue"} => Queued(t)
  /\ calls[t].at \in Held => Head(renewing) = t

QueueInv == \A t \in Tasks : QueueOK(t)

\* Before the reader is open nobody has a lease or renews it.
ViewInv ==
  /\ view.sample <= clock
  /\ view.at \in {"closed", "resolving", "granted"} =>
       window = NoWindow /\ ~reported /\ \A t \in Tasks : calls[t].at = "idle"

WindowInv ==
  /\ window.deadline <= serverExpiry /\ window.renewAt <= window.deadline
  /\ window.failures <= window.renewAt

\* What a task knows while it renews: the window is as it saw it under the mutex, and
\* what it is about to store is covered by the grant and asks for no earlier renewal.
TaskOK(t) ==
  /\ calls[t].at \in Renews => ~window.failure /\ window.renewAt <= clock
  /\ calls[t].at = "answered" /\ calls[t].answer.kind = "grant" => calls[t].answer.expiry <= serverExpiry
  /\ calls[t].at \in {"sampled", "store"} =>
       /\ calls[t].answer.kind = "grant" /\ calls[t].answer.expiry <= serverExpiry
       /\ reported => calls[t].answer.epoch
  /\ calls[t].at = "sampled" => calls[t].sample <= clock /\ window.renewAt <= calls[t].sample
  /\ calls[t].at = "store" =>
       /\ calls[t].next.deadline <= serverExpiry /\ calls[t].next.renewAt <= calls[t].next.deadline
       /\ window.renewAt <= calls[t].next.renewAt /\ calls[t].next.failures = 0

TaskInv == \A t \in Tasks : TaskOK(t)

\* The inductive invariant.
LeaseInv ==
  /\ LeaseTypeOK
  /\ QueueInv /\ ViewInv /\ WindowInv /\ TaskInv
  /\ RenewerDiligent

-----------------------------------------------------------------------------
(* The queue of the mutex.                                                 *)

LEMMA CutElements ==
  ASSUME NEW S, NEW s \in Seq(S), NEW i \in 1 .. Len(s)
  PROVE  /\ Cut(s, i) \in Seq(S) /\ Len(Cut(s, i)) = Len(s) - 1
         /\ \A j \in 1 .. (Len(s) - 1) : Cut(s, i)[j] = IF j < i THEN s[j] ELSE s[j + 1]
<1> DEFINE a == SubSeq(s, 1, i - 1)
           b == SubSeq(s, i + 1, Len(s))
<1>1. a \in Seq(S) /\ Len(a) = i - 1 /\ \A j \in 1 .. (i - 1) : a[j] = s[j]
  OBVIOUS
<1>2. b \in Seq(S) /\ Len(b) = Len(s) - i /\ \A j \in 1 .. (Len(s) - i) : b[j] = s[i + j]
  OBVIOUS
<1>3. Cut(s, i) = a \o b
  BY DEF Cut
<1> HIDE DEF a, b
<1>4. /\ a \o b \in Seq(S) /\ Len(a \o b) = Len(s) - 1
      /\ \A j \in 1 .. (Len(s) - 1) : (a \o b)[j] = IF j <= Len(a) THEN a[j] ELSE b[j - Len(a)]
  <2>1. Len(a) \in Nat /\ Len(b) \in Nat /\ Len(a) + Len(b) = Len(s) - 1
    BY <1>1, <1>2
  <2>2. /\ a \o b \in Seq(S) /\ Len(a \o b) = Len(a) + Len(b)
        /\ \A j \in 1 .. (Len(a) + Len(b)) : (a \o b)[j] = IF j <= Len(a) THEN a[j] ELSE b[j - Len(a)]
    BY <1>1, <1>2, ConcatProperties
  <2> QED
    BY <2>1, <2>2
<1>5. ASSUME NEW j \in 1 .. (Len(s) - 1) PROVE (a \o b)[j] = IF j < i THEN s[j] ELSE s[j + 1]
  <2>1. CASE j < i
    BY <2>1, <1>1, <1>4
  <2>2. CASE ~(j < i)
    <3>1. j - Len(a) \in 1 .. (Len(s) - i) /\ i + (j - Len(a)) = j + 1
      BY <2>2, <1>1
    <3>2. b[j - Len(a)] = s[j + 1]
      BY <3>1, <1>2
    <3> QED
      BY <2>2, <3>2, <1>1, <1>4
  <2> QED
    BY <2>1, <2>2
<1> QED
  BY <1>3, <1>4, <1>5

\* A task that leaves the queue changes nobody else's place at its head or in it.
LEMMA UnlockQueue ==
  ASSUME renewing \in Seq(Tasks), NEW t, Unlock(t)
  PROVE  /\ renewing' \in Seq(Tasks)
         /\ \A u \in Tasks : u # t /\ Queued(u) => Queued(u)'
         /\ \A u \in Tasks : u # t /\ Queued(u) /\ Head(renewing) = u => Head(renewing') = u
<1> DEFINE places == {i \in DOMAIN renewing : renewing[i] = t}
<1>1. CASE places = {}
  BY <1>1 DEF Unlock, Queued
<1>2. CASE places # {}
  <2>1. PICK i \in 1 .. Len(renewing) : renewing[i] = t /\ renewing' = Cut(renewing, i)
    <3>1. (CHOOSE i \in places : TRUE) \in places
      BY <1>2
    <3>2. renewing' = Cut(renewing, CHOOSE i \in places : TRUE)
      BY <1>2 DEF Unlock
    <3>3. DOMAIN renewing = 1 .. Len(renewing)
      OBVIOUS
    <3> QED
      BY <3>1, <3>2, <3>3
  <2>2. /\ renewing' \in Seq(Tasks) /\ Len(renewing') = Len(renewing) - 1
        /\ \A j \in 1 .. (Len(renewing) - 1) :
             renewing'[j] = IF j < i THEN renewing[j] ELSE renewing[j + 1]
    BY <2>1, CutElements
  <2>3. ASSUME NEW u \in Tasks, u # t, Queued(u) PROVE Queued(u)'
    <3>1. PICK j \in 1 .. Len(renewing) : renewing[j] = u
      BY <2>3 DEF Queued
    <3>2. CASE j < i
      BY <2>1, <2>2, <3>1, <3>2 DEF Queued
    <3>3. CASE j > i
      <4>1. j - 1 \in 1 .. (Len(renewing) - 1) /\ ~(j - 1 < i) /\ (j - 1) + 1 = j
        BY <3>1, <3>3
      <4>2. renewing'[j - 1] = u
        BY <2>2, <3>1, <4>1
      <4> QED
        BY <2>2, <4>1, <4>2 DEF Queued
    <3> QED
      BY <2>1, <2>3, <3>1, <3>2, <3>3
  <2>4. ASSUME NEW u \in Tasks, u # t, Queued(u), Head(renewing) = u PROVE Head(renewing') = u
    <3>1. renewing[1] = u /\ Len(renewing) \in Nat
      BY <2>4 DEF Queued
    <3>2. i # 1 /\ 1 \in 1 .. (Len(renewing) - 1)
      BY <2>1, <2>4, <3>1
    <3>3. renewing'[1] = u
      BY <2>1, <2>2, <3>1, <3>2
    <3> QED
      BY <2>2, <3>2, <3>3
  <2> QED
    BY <2>2, <2>3, <2>4
<1> QED
  BY <1>1, <1>2

LEMMA AppendQueue ==
  ASSUME renewing \in Seq(Tasks), NEW t \in Tasks, renewing' = Append(renewing, t)
  PROVE  /\ renewing' \in Seq(Tasks) /\ Queued(t)'
         /\ \A u \in Tasks : Queued(u) => Queued(u)'
         /\ \A u \in Tasks : Queued(u) /\ Head(renewing) = u => Head(renewing') = u
<1>1. /\ renewing' \in Seq(Tasks) /\ Len(renewing') = Len(renewing) + 1
      /\ \A j \in 1 .. Len(renewing) : renewing'[j] = renewing[j]
      /\ renewing'[Len(renewing) + 1] = t
  BY AppendProperties
<1>2. Queued(t)' /\ \A u \in Tasks : Queued(u) => Queued(u)'
  BY <1>1 DEF Queued
<1>3. ASSUME NEW u \in Tasks, Queued(u), Head(renewing) = u PROVE Head(renewing') = u
  BY <1>1, <1>3 DEF Queued
<1> QED
  BY <1>1, <1>2, <1>3

-----------------------------------------------------------------------------
(* Windows and calls.                                                      *)

Stages ==
  {"idle", "loop", "sleep", "first", "queue", "second", "attempt", "waiting",
   "backoff", "answered", "sampled", "store", "stopped"}

LEMMA DelayPositive == \A n \in Nat \ {0} : Delay(n) \in Nat \ {0}
<1> TAKE n \in Nat \ {0}
<1>1. Least(n - 1, 3) \in {0, 1, 2, 3}
  BY DEF Least
<1>2. 2 ^ 0 = 1 /\ 2 ^ 1 = 2 /\ 2 ^ 2 = 4 /\ 2 ^ 3 = 8
  OBVIOUS
<1>3. Delay(n) \in {2 ^ 0, 2 ^ 1, 2 ^ 2, 2 ^ 3}
  BY <1>1, Zenon DEF Delay
<1>4. Delay(n) \in {1, 2, 4, 8}
  BY <1>2, <1>3, Zenon
<1> QED
  BY <1>4

LEMMA RestType == NoWindow \in Windows /\ Nothing \in Answers /\ Rest \in LeaseCalls
<1>1. NoWindow \in Windows
  BY LeaseAssumption DEF NoWindow, Windows, Times
<1>2. Nothing \in Answers
  BY LeaseAssumption DEF Nothing, Answers, Times
<1> QED
  BY <1>1, <1>2, LeaseAssumption DEF Rest, LeaseCalls, Times

\* Time that passes between the two clock reads shortens the window: it ends by the
\* grant's expiry and asks for renewal after the first read.
LEMMA WindowCovered ==
  ASSUME NEW sample \in Times, NEW expiry \in Times, clock \in Times,
         sample <= clock, clock < expiry
  PROVE  LET w == WindowOf(sample, expiry) IN
         /\ w \in Windows /\ ~w.failure /\ ~w.transient /\ w.failures = 0
         /\ w.deadline <= expiry /\ sample <= w.renewAt /\ w.renewAt <= w.deadline
<1> DEFINE d == sample + (expiry - clock)
           r == sample + ((expiry - clock) * 2) \div 3
<1>1. d \in Times /\ d <= expiry
  BY LeaseAssumption DEF Times
<1>2. ((expiry - clock) * 2) \div 3 \in 0 .. (expiry - clock)
  BY LeaseAssumption DEF Times
<1>3. r \in Times /\ sample <= r /\ r <= d
  BY <1>1, <1>2, LeaseAssumption DEF Times
<1> HIDE DEF d, r
<1> DEFINE v == [NoWindow EXCEPT !.deadline = d]
           w == [v EXCEPT !.renewAt = r]
<1>4. v \in Windows /\ v.deadline = d /\ ~v.failure /\ ~v.transient /\ v.failures = 0
  BY <1>1, RestType DEF Windows, NoWindow
<1>5. w \in Windows /\ w.deadline = d /\ w.renewAt = r /\ ~w.failure /\ ~w.transient /\ w.failures = 0
  BY <1>3, <1>4 DEF Windows
<1>6. WindowOf(sample, expiry) = w
  BY DEF WindowOf, d, r
<1> QED
  BY <1>1, <1>3, <1>5, <1>6

LEMMA LeaseInitInv == LeaseInit => LeaseInv
<1> SUFFICES ASSUME LeaseInit PROVE LeaseInv
  OBVIOUS
<1> USE DEF LeaseInit
<1>1. LeaseTypeOK
  <2>1. clock \in Times /\ serverExpiry \in Times
    BY LeaseAssumption DEF Times
  <2>4. reported \in BOOLEAN
    BY Zenon
  <2>2. view \in [at : {"closed", "resolving", "granted", "open", "dropped"}, sample : Times]
    BY LeaseAssumption DEF Times
  <2>3. renewing \in Seq(Tasks) /\ window \in Windows /\ calls \in [Tasks -> LeaseCalls]
    BY RestType
  <2> QED
    BY <2>1, <2>2, <2>3, <2>4 DEF LeaseTypeOK
<1>2. \A t \in Tasks : calls[t].at = "idle"
  BY DEF Rest
<1>3. QueueInv
  BY <1>2 DEF QueueInv, QueueOK, Held
<1>4. ViewInv /\ WindowInv
  BY <1>2 DEF ViewInv, WindowInv, NoWindow
<1>5. TaskInv
  BY <1>2 DEF TaskInv, TaskOK, Renews, Held
<1>6. RenewerDiligent
  BY <1>2 DEF RenewerDiligent, RenewerPersists, NeverOversleeps, Tasks
<1> QED
  BY <1>1, <1>3, <1>4, <1>5, <1>6 DEF LeaseInv

-----------------------------------------------------------------------------
(* One task's step and the others.                                         *)

\* Nobody else holds the mutex, so that nobody else relies on the window.
LEMMA OthersKept ==
  ASSUME LeaseInv, NEW t \in Tasks, \A u \in Tasks : u # t => calls'[u] = calls[u],
         renewing' = renewing \/ Unlock(t) \/ renewing' = Append(renewing, t),
         calls[t].at \in Held \/ (window' = window /\ reported' = reported),
         clock' = clock, serverExpiry' \in Times, serverExpiry <= serverExpiry'
  PROVE  renewing' \in Seq(Tasks) /\ \A u \in Tasks : u # t => QueueOK(u)' /\ TaskOK(u)'
<1>1. renewing \in Seq(Tasks) /\ QueueInv /\ TaskInv
  BY DEF LeaseInv, LeaseTypeOK
<1>2. /\ renewing' \in Seq(Tasks)
      /\ \A u \in Tasks : u # t /\ Queued(u) => Queued(u)'
      /\ \A u \in Tasks : u # t /\ Queued(u) /\ Head(renewing) = u => Head(renewing') = u
  <2>1. CASE renewing' = renewing
    BY <1>1, <2>1 DEF Queued
  <2>2. CASE Unlock(t)
    BY <1>1, <2>2, UnlockQueue
  <2>3. CASE renewing' = Append(renewing, t)
    BY <1>1, <2>3, AppendQueue
  <2> QED
    BY <2>1, <2>2, <2>3
<1> SUFFICES ASSUME NEW u \in Tasks, u # t PROVE QueueOK(u)' /\ TaskOK(u)'
  BY <1>2
<1>3. calls'[u] = calls[u] /\ QueueOK(u) /\ TaskOK(u)
  BY <1>1 DEF QueueInv, TaskInv
<1>4. QueueOK(u)'
  BY <1>2, <1>3 DEF QueueOK, Held
<1>5. TaskOK(u)'
  <2>1. CASE calls[u].at \in Held
    <3>1. calls[t].at \notin Held
      BY <1>1, <2>1 DEF QueueInv, QueueOK
    <3>2. window' = window /\ reported' = reported
      BY <3>1
    <3>3. calls[u].answer.kind = "grant" /\ calls[u].answer.expiry <= serverExpiry
            => calls[u].answer.expiry <= serverExpiry'
      <4>1. calls[u].answer \in Answers
        BY DEF LeaseInv, LeaseTypeOK, LeaseCalls
      <4>2. calls[u].answer.kind = "grant" => calls[u].answer.expiry \in Times
        BY <4>1 DEF Answers
      <4>3. serverExpiry \in Times
        BY DEF LeaseInv, LeaseTypeOK
      <4> QED
        BY <4>2, <4>3, LeaseAssumption DEF Times
    <3>4. calls[u].next.deadline <= serverExpiry => calls[u].next.deadline <= serverExpiry'
      <4>1. calls[u].next.deadline \in Times /\ serverExpiry \in Times
        BY DEF LeaseInv, LeaseTypeOK, LeaseCalls, Windows
      <4> QED
        BY <4>1, LeaseAssumption DEF Times
    <3> QED
      BY <1>3, <3>2, <3>3, <3>4 DEF TaskOK
  <2>2. CASE calls[u].at \notin Held
    BY <1>3, <2>2 DEF TaskOK, Renews, Held
  <2> QED
    BY <2>1, <2>2
<1> QED
  BY <1>4, <1>5

LEMMA OneTask ==
  ASSUME LeaseInv, NEW t \in Tasks, NEW x \in LeaseCalls, calls' = [calls EXCEPT ![t] = x],
         renewing' = renewing \/ Unlock(t) \/ renewing' = Append(renewing, t),
         calls[t].at \in Held \/ (window' = window /\ reported' = reported),
         clock' = clock, serverExpiry' \in Times, serverExpiry <= serverExpiry',
         view' = view, view.at = "open" \/ calls[t].at # "idle",
         reported' \in BOOLEAN, window' \in Windows, WindowInv',
         window.failure => window'.failure, window.renewAt <= window'.renewAt,
         QueueOK(t)', TaskOK(t)', t = Renewer => RenewerDiligent'
  PROVE  LeaseInv'
<1>1. calls \in [Tasks -> LeaseCalls]
  BY DEF LeaseInv, LeaseTypeOK
<1>2. calls' \in [Tasks -> LeaseCalls] /\ \A u \in Tasks : u # t => calls'[u] = calls[u]
  BY <1>1
<1>3. renewing' \in Seq(Tasks) /\ \A u \in Tasks : u # t => QueueOK(u)' /\ TaskOK(u)'
  BY <1>2, OthersKept, Zenon
<1>4. LeaseTypeOK'
  BY <1>2, <1>3, Zenon DEF LeaseInv, LeaseTypeOK
<1>5. QueueInv' /\ TaskInv'
  BY <1>3 DEF QueueInv, TaskInv
<1>6. ViewInv'
  BY DEF LeaseInv, ViewInv
<1>7. RenewerDiligent'
  <2>1. CASE t # Renewer
    <3>1. calls'[Renewer] = calls[Renewer] /\ calls[Renewer].wake \in Times
      BY <1>1, <1>2, <2>1 DEF Tasks, LeaseCalls
    <3>2. window.renewAt \in Times /\ window'.renewAt \in Times
      BY DEF LeaseInv, LeaseTypeOK, Windows
    <3>3. calls[Renewer].wake <= window.renewAt => calls[Renewer].wake <= window'.renewAt
      BY <3>1, <3>2, LeaseAssumption DEF Times
    <3> QED
      BY <3>1, <3>3 DEF LeaseInv, RenewerDiligent, RenewerPersists, NeverOversleeps
  <2> QED
    BY <2>1
<1> QED
  BY <1>4, <1>5, <1>6, <1>7 DEF LeaseInv

LEMMA Quiet ==
  ASSUME LeaseInv, NEW t \in Tasks, NEW x \in LeaseCalls, calls' = [calls EXCEPT ![t] = x],
         renewing' = renewing \/ Unlock(t) \/ renewing' = Append(renewing, t),
         UNCHANGED <<clock, serverExpiry, view, window, reported>>,
         view.at = "open" \/ calls[t].at # "idle",
         QueueOK(t)', TaskOK(t)', t = Renewer => RenewerDiligent'
  PROVE  LeaseInv'
<1>1. /\ serverExpiry \in Times /\ window \in Windows /\ reported \in BOOLEAN
      /\ window.renewAt <= window.renewAt /\ serverExpiry <= serverExpiry
  <2>1. serverExpiry \in Times /\ window \in Windows /\ reported \in BOOLEAN
    BY DEF LeaseInv, LeaseTypeOK
  <2> QED
    BY <2>1, LeaseAssumption DEF Windows, Times
<1>2. WindowInv'
  BY DEF LeaseInv, WindowInv
<1>3. /\ clock' = clock /\ serverExpiry' \in Times /\ serverExpiry <= serverExpiry'
      /\ view' = view /\ window' = window /\ reported' = reported
      /\ reported' \in BOOLEAN /\ window' \in Windows
      /\ (window.failure => window'.failure) /\ window.renewAt <= window'.renewAt
  BY <1>1, Zenon
<1> QED
  BY <1>2, <1>3, OneTask, Zenon

\* A call that is over leaves a task that does not touch the mutex.
LEMMA EndCallShape ==
  ASSUME LeaseInv, NEW t \in Tasks, NEW final, EndCall(t, final)
  PROVE  \E x \in LeaseCalls :
           /\ calls' = [calls EXCEPT ![t] = x]
           /\ x.at \in {"idle", "loop", "stopped"}
           /\ t = Renewer /\ x.at = "stopped" => final /\ x.until = window.deadline
<1>t. window.deadline \in Times
  BY DEF LeaseInv, LeaseTypeOK, Windows
<1>1. CASE t # Renewer
  <2>1. calls' = [calls EXCEPT ![t] = Rest]
    BY <1>1 DEF EndCall
  <2> QED
    BY <1>1, <2>1, RestType DEF Rest
<1>2. CASE t = Renewer
  <2> DEFINE a == IF final THEN "stopped" ELSE "loop"
             y == [Rest EXCEPT !.at = a]
             x == [y EXCEPT !.until = window.deadline]
  <2>1. y \in LeaseCalls /\ y.at = a
    BY RestType DEF LeaseCalls
  <2>2. x \in LeaseCalls /\ x.at = a /\ x.until = window.deadline
    BY <1>t, <2>1 DEF LeaseCalls
  <2>3. calls' = [calls EXCEPT ![t] = x]
    BY <1>2 DEF EndCall
  <2>4. a \in {"loop", "stopped"} /\ (a = "stopped" => final)
    BY Zenon
  <2> HIDE DEF a, x
  <2> QED
    BY <2>2, <2>3, <2>4
<1> QED
  BY <1>1, <1>2

\* A task that does not touch the mutex satisfies what is asked of tasks.
LEMMA OffMutex ==
  ASSUME NEW t \in Tasks, calls'[t].at \in {"idle", "loop", "sleep", "first", "stopped"}
  PROVE  QueueOK(t)' /\ TaskOK(t)'
BY DEF QueueOK, TaskOK, Renews, Held

\* LeaseState::fail, under the mutex.
LEMMA FailWindow ==
  ASSUME LeaseInv, NEW t \in Tasks, calls[t].at \in Renews, NEW recoverable, Fail(t, recoverable),
         serverExpiry' = serverExpiry
  PROVE  /\ window' \in Windows /\ WindowInv' /\ window.renewAt <= window'.renewAt
         /\ ~window.failure /\ (window'.failure \/ window'.transient)
         /\ ~(recoverable /\ ~Expired) => window'.failure
<1>t. /\ window \in Windows /\ clock \in Times /\ serverExpiry \in Times
      /\ window.renewAt <= clock /\ ~window.failure /\ WindowInv
  BY DEF LeaseInv, LeaseTypeOK, TaskInv, TaskOK
<1>w. /\ window.renewAt \in Times /\ window.deadline \in Times /\ window.failures \in Times
      /\ EndOfTime \in Nat
  BY <1>t, LeaseAssumption DEF Windows
<1>1. CASE recoverable /\ ~Expired
  <2> DEFINE n == window.failures + 1
             r == Least(clock + Delay(n), window.deadline)
             u == [window EXCEPT !.transient = TRUE]
             v == [u EXCEPT !.failures = n]
             w == [v EXCEPT !.renewAt = r]
  <2>1. Delay(n) \in Nat \ {0}
    <3>1. n \in Nat \ {0}
      BY <1>w DEF Times
    <3> QED
      BY <3>1, DelayPositive
  <2>2. clock < window.deadline
    BY <1>1, <1>t, <1>w DEF Expired, Times
  <2>3. r \in Times /\ clock < r /\ r <= window.deadline
    BY <1>t, <1>w, <2>1, <2>2 DEF Least, Times
  <2>4. n \in Times /\ n <= r
    BY <1>t, <1>w, <2>3 DEF WindowInv, Times
  <2> HIDE DEF n, r
  <2>5. u \in Windows /\ u.deadline = window.deadline /\ u.transient = TRUE
    BY <1>t DEF Windows
  <2>6. v \in Windows /\ v.deadline = window.deadline /\ v.transient = TRUE /\ v.failures = n
    BY <2>4, <2>5 DEF Windows
  <2>7. w \in Windows /\ w.deadline = window.deadline /\ w.transient = TRUE /\ w.failures = n /\ w.renewAt = r
    BY <2>3, <2>6 DEF Windows
  <2>8. window' = w
    BY <1>1, <1>t DEF Fail, n, r
  <2>9. WindowInv'
    BY <1>t, <2>3, <2>4, <2>7, <2>8 DEF WindowInv
  <2>10. window.renewAt <= r
    BY <1>t, <1>w, <2>3 DEF Times
  <2> QED
    BY <1>t, <1>1, <2>7, <2>8, <2>9, <2>10
<1>2. CASE ~(recoverable /\ ~Expired)
  <2>1. window' = [window EXCEPT !.failure = TRUE]
    BY <1>2, <1>t DEF Fail
  <2>2. /\ window' \in Windows /\ window'.failure = TRUE /\ window'.deadline = window.deadline
        /\ window'.renewAt = window.renewAt /\ window'.failures = window.failures
    BY <1>t, <2>1 DEF Windows
  <2>3. WindowInv' /\ window.renewAt <= window.renewAt
    BY <1>t, <1>w, <2>2 DEF WindowInv, Times
  <2> QED
    BY <1>t, <2>2, <2>3
<1> QED
  BY <1>1, <1>2

LEMMA FailStep ==
  ASSUME LeaseInv, NEW t \in Tasks, calls[t].at \in Renews, NEW recoverable, Fail(t, recoverable),
         UNCHANGED <<clock, serverExpiry, view, reported>>
  PROVE  LeaseInv'
<1>1. /\ window' \in Windows /\ WindowInv' /\ window.renewAt <= window'.renewAt
      /\ ~window.failure /\ (~(recoverable /\ ~Expired) => window'.failure)
  BY FailWindow
<1>2. EndCall(t, ~(recoverable /\ ~Expired)) /\ Unlock(t)
  BY DEF Fail
<1>3. PICK x \in LeaseCalls :
        /\ calls' = [calls EXCEPT ![t] = x] /\ x.at \in {"idle", "loop", "stopped"}
        /\ t = Renewer /\ x.at = "stopped" => ~(recoverable /\ ~Expired) /\ x.until = window.deadline
  BY <1>2, EndCallShape
<1>4. calls'[t] = x
  BY <1>3 DEF LeaseInv, LeaseTypeOK
<1>5. QueueOK(t)' /\ TaskOK(t)'
  BY <1>3, <1>4, OffMutex
<1>6. t = Renewer => RenewerDiligent'
  BY <1>1, <1>3, <1>4 DEF RenewerDiligent, RenewerPersists, NeverOversleeps
<1>7. calls[t].at \in Held /\ calls[t].at # "idle"
  BY DEF Renews, Held
<1>8. serverExpiry \in Times /\ reported \in BOOLEAN /\ serverExpiry <= serverExpiry
  <2>1. serverExpiry \in Times /\ reported \in BOOLEAN
    BY DEF LeaseInv, LeaseTypeOK
  <2> QED
    BY <2>1, LeaseAssumption DEF Times
<1>9. /\ clock' = clock /\ view' = view /\ serverExpiry' \in Times /\ serverExpiry <= serverExpiry'
      /\ reported' \in BOOLEAN
  BY <1>8, Zenon
<1> QED
  BY <1>1, <1>2, <1>3, <1>5, <1>6, <1>7, <1>9, OneTask, Zenon

-----------------------------------------------------------------------------
(* The steps of a task.                                                    *)

\* A task whose ensure is over, without a change of the window.
LEMMA EndStep ==
  ASSUME LeaseInv, NEW t \in Tasks, calls[t].at \in {"first", "second"},
         EndCall(t, window.failure \/ Expired), renewing' = renewing \/ Unlock(t),
         UNCHANGED <<clock, serverExpiry, view, window, reported>>
  PROVE  LeaseInv'
<1>1. PICK x \in LeaseCalls :
        /\ calls' = [calls EXCEPT ![t] = x] /\ x.at \in {"idle", "loop", "stopped"}
        /\ t = Renewer /\ x.at = "stopped" => (window.failure \/ Expired) /\ x.until = window.deadline
  BY EndCallShape
<1>2. calls'[t] = x
  BY <1>1 DEF LeaseInv, LeaseTypeOK
<1>3. QueueOK(t)' /\ TaskOK(t)'
  BY <1>1, <1>2, OffMutex
<1>4. t = Renewer => RenewerDiligent'
  BY <1>1, <1>2 DEF RenewerDiligent, RenewerPersists, NeverOversleeps, Expired
<1>5. calls[t].at # "idle"
  OBVIOUS
<1> QED
  BY <1>1, <1>3, <1>4, <1>5, Quiet, Zenon

\* The renewal goes on from one of its places under the mutex to another.
LEMMA HeldStep ==
  ASSUME LeaseInv, NEW t \in Tasks, calls[t].at \in Held, NEW x \in LeaseCalls, x.at \in Held,
         calls' = [calls EXCEPT ![t] = x], TaskOK(t)',
         UNCHANGED <<clock, serverExpiry, view, window, reported, renewing>>
  PROVE  LeaseInv'
<1>1. calls'[t] = x
  BY DEF LeaseInv, LeaseTypeOK
<1>2. QueueOK(t)'
  BY <1>1 DEF LeaseInv, QueueInv, QueueOK, Queued
<1>3. t = Renewer => RenewerDiligent'
  BY <1>1 DEF RenewerDiligent, RenewerPersists, NeverOversleeps, Held
<1>4. calls[t].at # "idle" /\ renewing' = renewing
  BY DEF Held
<1>5. UNCHANGED <<clock, serverExpiry, view, window, reported>>
  OBVIOUS
<1> QED
  BY <1>2, <1>3, <1>4, <1>5, Quiet, Zenon

LEMMA FirstStep == ASSUME LeaseInv, NEW t \in Tasks, First(t) PROVE LeaseInv'
<1>t. calls \in [Tasks -> LeaseCalls] /\ calls[t].at = "first" /\ renewing \in Seq(Tasks)
  BY DEF LeaseInv, LeaseTypeOK, First
<1>1. CASE NeedsRenewal
  <2> DEFINE x == [calls[t] EXCEPT !.at = "queue"]
  <2>1. calls' = [calls EXCEPT ![t] = x] /\ renewing' = Append(renewing, t)
    BY <1>1 DEF First
  <2>2. x \in LeaseCalls /\ calls'[t] = x /\ x.at = "queue"
    BY <1>t, <2>1 DEF LeaseCalls
  <2>3. QueueOK(t)' /\ TaskOK(t)'
    <3>1. Queued(t)'
      BY <1>t, <2>1, AppendQueue
    <3> QED
      BY <2>2, <3>1 DEF QueueOK, TaskOK, Held, Renews
  <2>4. t = Renewer => RenewerDiligent'
    BY <2>2 DEF RenewerDiligent, RenewerPersists, NeverOversleeps
  <2>5. calls[t].at # "idle" /\ UNCHANGED <<clock, serverExpiry, view, window, reported>>
    BY <1>t DEF First
  <2> HIDE DEF x
  <2> QED
    BY <2>1, <2>2, <2>3, <2>4, <2>5, Quiet, Zenon
<1>2. CASE ~NeedsRenewal
  BY <1>2, <1>t, EndStep DEF First
<1> QED
  BY <1>1, <1>2

LEMMA LockStep == ASSUME LeaseInv, NEW t \in Tasks, Lock(t) PROVE LeaseInv'
<1> DEFINE x == [calls[t] EXCEPT !.at = "second"]
<1>t. calls \in [Tasks -> LeaseCalls] /\ calls[t].at = "queue" /\ Head(renewing) = t
  BY DEF LeaseInv, LeaseTypeOK, Lock
<1>1. calls' = [calls EXCEPT ![t] = x] /\ renewing' = renewing
  BY DEF Lock
<1>2. x \in LeaseCalls /\ calls'[t] = x /\ x.at = "second"
  BY <1>t, <1>1 DEF LeaseCalls
<1>3. QueueOK(t)'
  BY <1>t, <1>1, <1>2 DEF LeaseInv, QueueInv, QueueOK, Queued
<1>4. TaskOK(t)'
  BY <1>2 DEF TaskOK, Held, Renews
<1>5. t = Renewer => RenewerDiligent'
  BY <1>2 DEF RenewerDiligent, RenewerPersists, NeverOversleeps
<1>6. calls[t].at # "idle" /\ UNCHANGED <<clock, serverExpiry, view, window, reported>>
  BY <1>t DEF Lock
<1> HIDE DEF x
<1> QED
  BY <1>1, <1>2, <1>3, <1>4, <1>5, <1>6, Quiet, Zenon

\* Under the mutex the window is looked at again: who renews has seen that it is live and
\* due.
LEMMA SecondStep == ASSUME LeaseInv, NEW t \in Tasks, Second(t) PROVE LeaseInv'
<1>t. /\ calls \in [Tasks -> LeaseCalls] /\ calls[t].at = "second"
      /\ window \in Windows /\ clock \in Times
  BY DEF LeaseInv, LeaseTypeOK, Second
<1>1. CASE NeedsRenewal
  <2> DEFINE x == [calls[t] EXCEPT !.at = "attempt"]
             y == [x EXCEPT !.until = window.deadline]
             z == [y EXCEPT !.end = clock + RequestTimeout]
  <2>1. calls' = [calls EXCEPT ![t] = z]
    BY <1>1 DEF Second
  <2>2. x \in LeaseCalls /\ x.at = "attempt"
    BY <1>t DEF LeaseCalls
  <2>3. y \in LeaseCalls /\ y.at = "attempt"
    BY <1>t, <2>2 DEF LeaseCalls, Windows
  <2>4. clock + RequestTimeout \in Nat
    BY <1>t, LeaseAssumption DEF Times
  <2>5. z \in LeaseCalls /\ z.at = "attempt" /\ calls'[t] = z
    BY <1>t, <2>1, <2>3, <2>4 DEF LeaseCalls
  <2>6. ~window.failure /\ window.renewAt <= clock
    BY <1>1, <1>t DEF NeedsRenewal, Windows, Times
  <2>7. UNCHANGED <<clock, serverExpiry, view, window, reported, renewing>>
    BY <1>1 DEF Second
  <2>8. TaskOK(t)'
    BY <2>5, <2>6, <2>7 DEF TaskOK
  <2>9. calls[t].at \in Held /\ z.at \in Held
    BY <1>t, <2>5 DEF Held
  <2> HIDE DEF z
  <2> QED
    BY <2>1, <2>5, <2>7, <2>8, <2>9, HeldStep, Zenon
<1>2. CASE ~NeedsRenewal
  BY <1>2, <1>t, EndStep DEF Second
<1> QED
  BY <1>1, <1>2

LEMMA AttemptStep == ASSUME LeaseInv, NEW t \in Tasks, Attempt(t) PROVE LeaseInv'
<1>t. /\ calls \in [Tasks -> LeaseCalls] /\ calls[t].at = "attempt" /\ calls[t].attempt < Attempts
      /\ TaskOK(t)
  BY DEF LeaseInv, LeaseTypeOK, Attempt, TaskInv
<1>1. CASE clock < calls[t].end
           /\ calls' = [calls EXCEPT ![t] = [@ EXCEPT !.at = "waiting", !.attempt = calls[t].attempt + 1]]
           /\ UNCHANGED <<window, renewing>>
  <2> DEFINE n == calls[t].attempt + 1
             x == [calls[t] EXCEPT !.at = "waiting"]
             y == [x EXCEPT !.attempt = n]
  <2>1. calls' = [calls EXCEPT ![t] = y]
    BY <1>1
  <2>2. n \in 0 .. Attempts
    BY <1>t, LeaseAssumption DEF LeaseCalls
  <2> HIDE DEF n
  <2>3. x \in LeaseCalls /\ x.at = "waiting"
    BY <1>t DEF LeaseCalls
  <2>4. y \in LeaseCalls /\ y.at = "waiting" /\ calls'[t] = y
    BY <1>t, <2>1, <2>2, <2>3 DEF LeaseCalls
  <2>5. UNCHANGED <<clock, serverExpiry, view, window, reported, renewing>>
    BY <1>1 DEF Attempt
  <2>6. TaskOK(t)'
    BY <1>t, <2>4, <2>5 DEF TaskOK, Renews, Held
  <2>7. calls[t].at \in Held /\ y.at \in Held
    BY <1>t, <2>4 DEF Held
  <2> HIDE DEF y
  <2> QED
    BY <2>1, <2>4, <2>5, <2>6, <2>7, HeldStep, Zenon
<1>2. CASE Fail(t, TRUE)
  <2>1. calls[t].at \in Renews /\ UNCHANGED <<clock, serverExpiry, view, reported>>
    BY <1>t DEF Renews, Held, Attempt
  <2> QED
    BY <1>2, <2>1, FailStep, Zenon
<1> QED
  BY <1>1, <1>2 DEF Attempt

LEMMA RetryStep == ASSUME LeaseInv, NEW t \in Tasks, Retry(t) PROVE LeaseInv'
<1>t. calls \in [Tasks -> LeaseCalls] /\ calls[t].at = "answered" /\ TaskOK(t)
  BY DEF LeaseInv, LeaseTypeOK, Retry, TaskInv
<1>1. CASE calls' = [calls EXCEPT ![t] = [@ EXCEPT !.at = "backoff", !.answer = Nothing]]
           /\ UNCHANGED <<window, renewing>>
  <2> DEFINE x == [calls[t] EXCEPT !.at = "backoff"]
             y == [x EXCEPT !.answer = Nothing]
  <2>1. calls' = [calls EXCEPT ![t] = y]
    BY <1>1
  <2>2. x \in LeaseCalls /\ x.at = "backoff"
    BY <1>t DEF LeaseCalls
  <2>3. y \in LeaseCalls /\ y.at = "backoff" /\ calls'[t] = y
    BY <1>t, <2>1, <2>2, RestType DEF LeaseCalls
  <2>4. UNCHANGED <<clock, serverExpiry, view, window, reported, renewing>>
    BY <1>1 DEF Retry
  <2>5. TaskOK(t)'
    BY <1>t, <2>3, <2>4 DEF TaskOK, Renews, Held
  <2>6. calls[t].at \in Held /\ y.at \in Held
    BY <1>t, <2>3 DEF Held
  <2> HIDE DEF y
  <2> QED
    BY <2>1, <2>3, <2>4, <2>5, <2>6, HeldStep, Zenon
<1>2. CASE Fail(t, calls[t].answer.recoverable)
  <2>1. calls[t].at \in Renews /\ UNCHANGED <<clock, serverExpiry, view, reported>>
    BY <1>t DEF Renews, Held, Retry
  <2> QED
    BY <1>2, <2>1, FailStep, Zenon
<1> QED
  BY <1>1, <1>2 DEF Retry

LEMMA BackoffStep == ASSUME LeaseInv, NEW t \in Tasks, Backoff(t) PROVE LeaseInv'
<1>t. calls \in [Tasks -> LeaseCalls] /\ calls[t].at = "backoff" /\ TaskOK(t)
  BY DEF LeaseInv, LeaseTypeOK, Backoff, TaskInv
<1>1. CASE calls' = [calls EXCEPT ![t].at = "attempt"] /\ UNCHANGED <<window, renewing>>
  <2> DEFINE x == [calls[t] EXCEPT !.at = "attempt"]
  <2>1. calls' = [calls EXCEPT ![t] = x]
    BY <1>1
  <2>2. x \in LeaseCalls /\ x.at = "attempt" /\ calls'[t] = x
    BY <1>t, <2>1 DEF LeaseCalls
  <2>3. UNCHANGED <<clock, serverExpiry, view, window, reported, renewing>>
    BY <1>1 DEF Backoff
  <2>4. TaskOK(t)'
    BY <1>t, <2>2, <2>3 DEF TaskOK, Renews, Held
  <2>5. calls[t].at \in Held /\ x.at \in Held
    BY <1>t, <2>2 DEF Held
  <2> HIDE DEF x
  <2> QED
    BY <2>1, <2>2, <2>3, <2>4, <2>5, HeldStep, Zenon
<1>2. CASE Fail(t, TRUE)
  <2>1. calls[t].at \in Renews /\ UNCHANGED <<clock, serverExpiry, view, reported>>
    BY <1>t DEF Renews, Held, Backoff
  <2> QED
    BY <1>2, <2>1, FailStep, Zenon
<1> QED
  BY <1>1, <1>2 DEF Backoff

LEMMA TimeoutStep == ASSUME LeaseInv, NEW t \in Tasks, Timeout(t) PROVE LeaseInv'
<1>1. calls[t].at \in Renews /\ UNCHANGED <<clock, serverExpiry, view, reported>>
  BY DEF Renews, Held, Timeout
<1>2. CASE Fail(t, TRUE)
  BY <1>1, <1>2, FailStep, Zenon
<1>3. CASE Fail(t, FALSE)
  BY <1>1, <1>3, FailStep, Zenon
<1> QED
  BY <1>2, <1>3 DEF Timeout

\* The receipt is bound to the epoch that was reported, and its sample is taken after
\* the window asked for a renewal.
LEMMA ValidateStep == ASSUME LeaseInv, NEW t \in Tasks, ValidateReceipt(t) PROVE LeaseInv'
<1>t. /\ calls \in [Tasks -> LeaseCalls] /\ calls[t].at = "answered" /\ TaskOK(t)
      /\ clock \in Times /\ serverExpiry \in Times /\ window \in Windows /\ WindowInv
  BY DEF LeaseInv, LeaseTypeOK, ValidateReceipt, TaskInv
<1>1. CASE clock < calls[t].until /\ Bound(t)
  <2> DEFINE x == [calls[t] EXCEPT !.at = "sampled"]
             y == [x EXCEPT !.sample = clock]
  <2>0. /\ calls' = [calls EXCEPT ![t] = y] /\ reported' = (reported \/ calls[t].answer.epoch)
        /\ UNCHANGED <<clock, serverExpiry, view, window, renewing>>
    BY <1>1 DEF ValidateReceipt
  <2>1. x \in LeaseCalls /\ x.at = "sampled" /\ x.answer = calls[t].answer
    BY <1>t DEF LeaseCalls
  <2>2. /\ y \in LeaseCalls /\ y.at = "sampled" /\ y.answer = calls[t].answer /\ y.sample = clock
        /\ calls'[t] = y
    BY <1>t, <2>0, <2>1 DEF LeaseCalls
  <2> HIDE DEF y
  <2>3. calls[t].answer.kind = "grant" /\ (reported => calls[t].answer.epoch)
    BY <1>1 DEF Bound
  <2>4. reported' \in BOOLEAN /\ (reported' => calls[t].answer.epoch)
    BY <2>0, <2>3, Zenon
  <2>5. TaskOK(t)'
    <3>1. ~window.failure /\ window.renewAt <= clock /\ calls[t].answer.expiry <= serverExpiry
      BY <1>t, <2>3 DEF TaskOK, Renews, Held
    <3>2. clock <= clock
      BY <1>t DEF Times
    <3> QED
      BY <2>0, <2>2, <2>3, <2>4, <3>1, <3>2 DEF TaskOK
  <2>6. QueueOK(t)'
    BY <1>t, <2>0, <2>2 DEF LeaseInv, QueueInv, QueueOK, Queued, Held
  <2>7. t = Renewer => RenewerDiligent'
    BY <2>2 DEF RenewerDiligent, RenewerPersists, NeverOversleeps
  <2>8. /\ window' \in Windows /\ serverExpiry' \in Times /\ serverExpiry <= serverExpiry'
        /\ window.renewAt <= window'.renewAt /\ (window.failure => window'.failure) /\ WindowInv'
    BY <1>t, <2>0 DEF WindowInv, Windows, Times
  <2>9. calls[t].at \in Held /\ calls[t].at # "idle" /\ clock' = clock /\ view' = view /\ renewing' = renewing
    BY <1>t, <2>0 DEF Held
  <2> QED
    BY <2>0, <2>2, <2>4, <2>5, <2>6, <2>7, <2>8, <2>9, OneTask, Zenon
<1>2. CASE Fail(t, FALSE) /\ UNCHANGED reported
  <2>1. calls[t].at \in Renews /\ UNCHANGED <<clock, serverExpiry, view, reported>>
    BY <1>t, <1>2 DEF Renews, Held, ValidateReceipt
  <2> QED
    BY <1>2, <2>1, FailStep, Zenon
<1> QED
  BY <1>1, <1>2 DEF ValidateReceipt

LEMMA SampledStep == ASSUME LeaseInv, NEW t \in Tasks, Sampled(t) PROVE LeaseInv'
<1>t. /\ calls \in [Tasks -> LeaseCalls] /\ calls[t].at = "sampled" /\ TaskOK(t)
      /\ clock \in Times /\ serverExpiry \in Times /\ window \in Windows
  BY DEF LeaseInv, LeaseTypeOK, Sampled, TaskInv
<1>1. CASE clock < calls[t].answer.expiry /\ clock < calls[t].until
  <2> DEFINE w == WindowOf(calls[t].sample, calls[t].answer.expiry)
             x == [calls[t] EXCEPT !.at = "store"]
             y == [x EXCEPT !.next = w]
  <2>0. /\ calls' = [calls EXCEPT ![t] = y]
        /\ UNCHANGED <<clock, serverExpiry, view, window, reported, renewing>>
    BY <1>1 DEF Sampled
  <2>1. /\ calls[t].sample \in Times /\ calls[t].sample <= clock /\ window.renewAt <= calls[t].sample
        /\ calls[t].answer \in Answers /\ calls[t].answer.kind = "grant"
        /\ calls[t].answer.expiry <= serverExpiry
    BY <1>t DEF TaskOK, LeaseCalls
  <2>2. calls[t].answer.expiry \in Times
    BY <2>1 DEF Answers
  <2>3. /\ w \in Windows /\ w.failures = 0 /\ w.deadline <= calls[t].answer.expiry
        /\ calls[t].sample <= w.renewAt /\ w.renewAt <= w.deadline
    BY <1>1, <1>t, <2>1, <2>2, WindowCovered
  <2> HIDE DEF w
  <2>4. x \in LeaseCalls /\ x.at = "store" /\ x.answer = calls[t].answer
    BY <1>t DEF LeaseCalls
  <2>5. y \in LeaseCalls /\ y.at = "store" /\ y.answer = calls[t].answer /\ y.next = w
    BY <2>3, <2>4 DEF LeaseCalls
  <2>6. calls'[t] = y
    BY <1>t, <2>0
  <2> HIDE DEF y
  <2>7. w.deadline <= serverExpiry /\ window.renewAt <= w.renewAt
    <3>1. w.deadline \in Times /\ w.renewAt \in Times /\ window.renewAt \in Times
      BY <1>t, <2>3 DEF Windows
    <3> QED
      BY <1>t, <2>1, <2>2, <2>3, <3>1, LeaseAssumption DEF Times
  <2>8. TaskOK(t)'
    <3>1. ~window.failure /\ window.renewAt <= clock /\ (reported => calls[t].answer.epoch)
      BY <1>t DEF TaskOK, Renews, Held
    <3> QED
      BY <2>0, <2>1, <2>3, <2>5, <2>6, <2>7, <3>1 DEF TaskOK
  <2>9. calls[t].at \in Held /\ y.at \in Held
    BY <1>t, <2>5 DEF Held
  <2> QED
    BY <2>0, <2>5, <2>8, <2>9, HeldStep, Zenon
<1>2. CASE Fail(t, FALSE)
  <2>1. calls[t].at \in Renews /\ UNCHANGED <<clock, serverExpiry, view, reported>>
    BY <1>t DEF Renews, Held, Sampled
  <2> QED
    BY <1>2, <2>1, FailStep, Zenon
<1> QED
  BY <1>1, <1>2 DEF Sampled

LEMMA StoreStep == ASSUME LeaseInv, NEW t \in Tasks, Store(t) PROVE LeaseInv'
<1>t. /\ calls \in [Tasks -> LeaseCalls] /\ calls[t].at = "store" /\ TaskOK(t)
      /\ serverExpiry \in Times /\ reported \in BOOLEAN
  BY DEF LeaseInv, LeaseTypeOK, Store, TaskInv
<1>1. /\ window' = calls[t].next /\ EndCall(t, FALSE) /\ Unlock(t)
      /\ clock' = clock /\ serverExpiry' = serverExpiry /\ view' = view /\ reported' = reported
  BY DEF Store
<1>2. PICK x \in LeaseCalls :
        /\ calls' = [calls EXCEPT ![t] = x] /\ x.at \in {"idle", "loop", "stopped"}
        /\ t = Renewer => x.at # "stopped"
  BY <1>1, EndCallShape
<1>3. calls'[t] = x
  BY <1>t, <1>2
<1>4. QueueOK(t)' /\ TaskOK(t)'
  BY <1>2, <1>3, OffMutex
<1>5. t = Renewer => RenewerDiligent'
  BY <1>2, <1>3 DEF RenewerDiligent, RenewerPersists, NeverOversleeps
<1>6. window' \in Windows /\ window.renewAt <= window'.renewAt /\ ~window.failure
  BY <1>t, <1>1 DEF TaskOK, LeaseCalls, Renews, Held
<1>7. WindowInv'
  <2>1. window'.renewAt \in Nat
    BY <1>6, LeaseAssumption DEF Windows, Times
  <2> QED
    BY <1>t, <1>1, <2>1 DEF TaskOK, WindowInv
<1>8. /\ calls[t].at \in Held /\ calls[t].at # "idle" /\ (window.failure => window'.failure)
      /\ serverExpiry' \in Times /\ serverExpiry <= serverExpiry' /\ reported' \in BOOLEAN
  <2>1. serverExpiry <= serverExpiry
    BY <1>t DEF Times
  <2> QED
    BY <1>t, <1>1, <1>6, <2>1 DEF Held
<1> QED
  BY <1>1, <1>2, <1>4, <1>5, <1>6, <1>7, <1>8, OneTask, Zenon

\* The service extends what it retains before it answers.
LEMMA ServeStep ==
  ASSUME LeaseInv, NEW t \in Tasks, NEW g \in Grants \cup {0}, NEW answer \in Replies(g),
         Serve(t, g, answer)
  PROVE  LeaseInv'
<1>t. /\ calls \in [Tasks -> LeaseCalls] /\ calls[t].at = "waiting" /\ TaskOK(t)
      /\ clock \in Times /\ serverExpiry \in Times /\ window \in Windows /\ WindowInv
      /\ reported \in BOOLEAN
  BY DEF LeaseInv, LeaseTypeOK, Serve, TaskInv
<1>g. g \in Nat /\ clock + g \in Times
  BY <1>t, LeaseAssumption DEF Serve, Times
<1> DEFINE x == [calls[t] EXCEPT !.at = "answered"]
           y == [x EXCEPT !.answer = answer]
<1>1. /\ calls' = [calls EXCEPT ![t] = y] /\ clock' = clock /\ view' = view /\ window' = window
      /\ reported' = reported /\ renewing' = renewing
  BY DEF Serve
<1>2. /\ serverExpiry' \in Times /\ serverExpiry <= serverExpiry'
      /\ answer.kind = "grant" => answer.expiry <= serverExpiry'
  <2>1. answer.kind = "grant" => g # 0 /\ answer.expiry = clock + g
    BY DEF Serve
  <2>2. serverExpiry' = IF g = 0 THEN serverExpiry
                        ELSE IF clock + g > serverExpiry THEN clock + g ELSE serverExpiry
    BY DEF Serve
  <2> QED
    BY <1>t, <1>g, <2>1, <2>2, LeaseAssumption DEF Times
<1>3. answer \in Answers
  <2>1. CASE answer \in [kind : {"grant"}, expiry : {clock + g}, epoch : BOOLEAN]
    BY <1>g, <2>1 DEF Answers
  <2>2. CASE answer = [kind |-> "other", expiry |-> 0, epoch |-> FALSE]
    <3>1. 0 \in Times
      BY LeaseAssumption DEF Times
    <3> QED
      BY <2>2, <3>1 DEF Answers
  <2>3. CASE answer \in [kind : {"error"}, again : BOOLEAN, recoverable : BOOLEAN]
    BY <2>3 DEF Answers
  <2> QED
    BY <2>1, <2>2, <2>3 DEF Replies
<1>4. x \in LeaseCalls /\ x.at = "answered"
  BY <1>t DEF LeaseCalls
<1>5. y \in LeaseCalls /\ y.at = "answered" /\ y.answer = answer
  BY <1>3, <1>4 DEF LeaseCalls
<1>6. calls'[t] = y
  BY <1>t, <1>1
<1> HIDE DEF y
<1>7. TaskOK(t)'
  <2>1. ~window.failure /\ window.renewAt <= clock
    BY <1>t DEF TaskOK, Renews, Held
  <2> QED
    BY <1>1, <1>2, <1>5, <1>6, <2>1 DEF TaskOK
<1>8. QueueOK(t)'
  BY <1>t, <1>1, <1>5, <1>6 DEF LeaseInv, QueueInv, QueueOK, Queued, Held
<1>9. t = Renewer => RenewerDiligent'
  BY <1>5, <1>6 DEF RenewerDiligent, RenewerPersists, NeverOversleeps
<1>10. WindowInv'
  <2>1. window.deadline \in Times
    BY <1>t DEF Windows
  <2>2. window.deadline <= serverExpiry'
    BY <1>t, <1>2, <2>1, LeaseAssumption DEF WindowInv, Times
  <2> QED
    BY <1>t, <1>1, <2>2 DEF WindowInv
<1>11. /\ calls[t].at # "idle" /\ reported' \in BOOLEAN /\ window' \in Windows
       /\ (window.failure => window'.failure) /\ window.renewAt <= window'.renewAt
  BY <1>t, <1>1, LeaseAssumption DEF Windows, Times
<1> QED
  BY <1>1, <1>2, <1>5, <1>7, <1>8, <1>9, <1>10, <1>11, OneTask, Zenon

LEMMA BeginStep == ASSUME LeaseInv, NEW o \in Operations, Begin(o) \/ Cancel(o) PROVE LeaseInv'
<1>t. calls \in [Tasks -> LeaseCalls] /\ o \in Tasks /\ o # Renewer
  BY LeaseAssumption DEF LeaseInv, LeaseTypeOK, Tasks, Renewer
<1>1. CASE Begin(o)
  <2> DEFINE x == [calls[o] EXCEPT !.at = "first"]
  <2>1. /\ calls' = [calls EXCEPT ![o] = x] /\ renewing' = renewing /\ view.at = "open"
        /\ UNCHANGED <<clock, serverExpiry, view, window, reported>>
    BY <1>1 DEF Begin
  <2>2. x \in LeaseCalls /\ x.at = "first" /\ calls'[o] = x
    BY <1>t, <2>1 DEF LeaseCalls
  <2>3. QueueOK(o)' /\ TaskOK(o)'
    BY <1>t, <2>2, OffMutex
  <2> HIDE DEF x
  <2> QED
    BY <1>t, <2>1, <2>2, <2>3, Quiet, Zenon
<1>2. CASE Cancel(o)
  <2>1. /\ calls' = [calls EXCEPT ![o] = Rest] /\ Unlock(o) /\ calls[o].at # "idle"
        /\ UNCHANGED <<clock, serverExpiry, view, window, reported>>
    BY <1>2 DEF Cancel
  <2>2. calls'[o].at = "idle"
    BY <1>t, <2>1 DEF Rest
  <2>3. QueueOK(o)' /\ TaskOK(o)'
    BY <1>t, <2>2, OffMutex
  <2> QED
    BY <1>t, <2>1, <2>3, RestType, Quiet, Zenon
<1> QED
  BY <1>1, <1>2

LEMMA SleepStep == ASSUME LeaseInv, Sleep \/ Wake PROVE LeaseInv'
<1>t. calls \in [Tasks -> LeaseCalls] /\ Renewer \in Tasks /\ window.renewAt \in Times
  BY DEF LeaseInv, LeaseTypeOK, Tasks, Windows
<1>1. CASE Sleep
  <2> DEFINE x == [calls[Renewer] EXCEPT !.at = "sleep"]
             y == [x EXCEPT !.wake = window.renewAt]
  <2>1. /\ calls' = [calls EXCEPT ![Renewer] = y] /\ renewing' = renewing /\ calls[Renewer].at # "idle"
        /\ UNCHANGED <<clock, serverExpiry, view, window, reported>>
    BY <1>1 DEF Sleep
  <2>2. x \in LeaseCalls /\ x.at = "sleep"
    BY <1>t DEF LeaseCalls
  <2>3. y \in LeaseCalls /\ y.at = "sleep" /\ y.wake = window.renewAt
    BY <1>t, <2>2 DEF LeaseCalls
  <2>4. calls'[Renewer] = y
    BY <1>t, <2>1
  <2> HIDE DEF y
  <2>5. QueueOK(Renewer)' /\ TaskOK(Renewer)'
    BY <1>t, <2>3, <2>4, OffMutex
  <2>6. RenewerDiligent'
    BY <1>t, <2>1, <2>3, <2>4, LeaseAssumption DEF RenewerDiligent, RenewerPersists, NeverOversleeps, Times
  <2> QED
    BY <1>t, <2>1, <2>3, <2>5, <2>6, Quiet, Zenon
<1>2. CASE Wake
  <2> DEFINE x == [calls[Renewer] EXCEPT !.at = "first"]
  <2>1. /\ calls' = [calls EXCEPT ![Renewer] = x] /\ renewing' = renewing /\ calls[Renewer].at # "idle"
        /\ UNCHANGED <<clock, serverExpiry, view, window, reported>>
    BY <1>2 DEF Wake
  <2>2. x \in LeaseCalls /\ x.at = "first" /\ calls'[Renewer] = x
    BY <1>t, <2>1 DEF LeaseCalls
  <2>3. QueueOK(Renewer)' /\ TaskOK(Renewer)'
    BY <1>t, <2>2, OffMutex
  <2>4. RenewerDiligent'
    BY <2>2 DEF RenewerDiligent, RenewerPersists, NeverOversleeps
  <2> HIDE DEF x
  <2> QED
    BY <1>t, <2>1, <2>2, <2>3, <2>4, Quiet, Zenon
<1> QED
  BY <1>1, <1>2

-----------------------------------------------------------------------------
(* The reader and time.                                                    *)

LEMMA TickStep == ASSUME LeaseInv, Tick PROVE LeaseInv'
<1>t. /\ clock \in Times /\ EndOfTime \in Nat /\ window \in Windows /\ calls \in [Tasks -> LeaseCalls]
      /\ view \in [at : {"closed", "resolving", "granted", "open", "dropped"}, sample : Times]
  BY LeaseAssumption DEF LeaseInv, LeaseTypeOK
<1>1. clock' \in Times /\ clock <= clock'
  BY <1>t DEF Tick, Times
<1>2. /\ serverExpiry' = serverExpiry /\ view' = view /\ window' = window /\ reported' = reported
      /\ renewing' = renewing /\ calls' = calls
  BY DEF Tick
<1>3. LeaseTypeOK'
  BY <1>1, <1>2, Zenon DEF LeaseInv, LeaseTypeOK
<1>4. QueueInv'
  BY <1>2 DEF LeaseInv, QueueInv, QueueOK, Queued
<1>5. ViewInv'
  <2>1. view.sample <= clock'
    BY <1>t, <1>1 DEF LeaseInv, ViewInv, Times
  <2> QED
    BY <1>2, <2>1 DEF LeaseInv, ViewInv
<1>6. WindowInv'
  BY <1>2 DEF LeaseInv, WindowInv
<1>7. TaskInv'
  <2> SUFFICES ASSUME NEW t \in Tasks PROVE TaskOK(t)'
    BY DEF TaskInv
  <2>1. /\ window.renewAt <= clock => window.renewAt <= clock'
        /\ calls[t].sample <= clock => calls[t].sample <= clock'
    <3>1. window.renewAt \in Times /\ calls[t].sample \in Times
      BY <1>t DEF Windows, LeaseCalls
    <3> QED
      BY <1>t, <1>1, <3>1 DEF Times
  <2>2. TaskOK(t)
    BY DEF LeaseInv, TaskInv
  <2> QED
    BY <1>2, <2>1, <2>2 DEF TaskOK
<1>8. RenewerDiligent'
  <2>1. clock >= calls[Renewer].until => clock' >= calls[Renewer].until
    <3>1. calls[Renewer].until \in Times
      BY <1>t DEF LeaseCalls, Tasks
    <3> QED
      BY <1>t, <1>1, <3>1 DEF Times
  <2> QED
    BY <1>2, <2>1 DEF LeaseInv, RenewerDiligent, RenewerPersists, NeverOversleeps
<1> QED
  BY <1>3, <1>4, <1>5, <1>6, <1>7, <1>8 DEF LeaseInv

\* Nobody has called ensure before the reader is open.
LEMMA ResolveStep ==
  ASSUME LeaseInv, ForResolve \/ (\E g \in Grants : ResolveAnswer(g)) \/ ResolveFail \/ ResolveDone
  PROVE  LeaseInv'
<1>t. /\ clock \in Times /\ serverExpiry \in Times /\ EndOfTime \in Nat /\ window \in Windows
      /\ reported \in BOOLEAN /\ renewing \in Seq(Tasks) /\ calls \in [Tasks -> LeaseCalls]
      /\ view \in [at : {"closed", "resolving", "granted", "open", "dropped"}, sample : Times]
      /\ Renewer \in Tasks
  BY LeaseAssumption DEF LeaseInv, LeaseTypeOK, Tasks
<1>0. view.at \in {"closed", "resolving", "granted"}
  BY DEF ForResolve, ResolveAnswer, ResolveFail, ResolveDone
<1>1. /\ window = NoWindow /\ ~reported /\ view.sample <= clock
      /\ \A t \in Tasks : calls[t].at = "idle"
  BY <1>0 DEF LeaseInv, ViewInv
<1>2. clock' = clock /\ reported' = reported /\ renewing' = renewing
  BY DEF ForResolve, ResolveAnswer, ResolveFail, ResolveDone
<1>3. ASSUME \A t \in Tasks : calls'[t].at \in {"idle", "loop"}
      PROVE  QueueInv' /\ TaskInv' /\ RenewerDiligent'
  <2>1. QueueInv' /\ TaskInv'
    BY <1>3, OffMutex DEF QueueInv, TaskInv
  <2>2. calls'[Renewer].at \in {"idle", "loop"}
    BY <1>3, <1>t
  <2> QED
    BY <2>1, <2>2 DEF RenewerDiligent, RenewerPersists, NeverOversleeps
<1>4. CASE ResolveDone /\ serverExpiry > clock
  <2>1. PICK at \in {"loop", "idle"} : calls' = [calls EXCEPT ![Renewer].at = at]
    BY <1>4, <1>t DEF ResolveDone, Times
  <2>2. /\ view' = [view EXCEPT !.at = "open"] /\ window' = WindowOf(view.sample, serverExpiry)
        /\ serverExpiry' = serverExpiry
    BY <1>4, <1>t DEF ResolveDone, Times
  <2>3. calls' \in [Tasks -> LeaseCalls] /\ \A t \in Tasks : calls'[t].at \in {"idle", "loop"}
    <3> DEFINE x == [calls[Renewer] EXCEPT !.at = at]
    <3>1. calls' = [calls EXCEPT ![Renewer] = x]
      BY <2>1
    <3>2. x \in LeaseCalls /\ x.at = at
      BY <1>t DEF LeaseCalls
    <3> HIDE DEF x
    <3> QED
      BY <1>t, <1>1, <3>1, <3>2
  <2>4. QueueInv' /\ TaskInv' /\ RenewerDiligent'
    BY <1>3, <2>3
  <2>5. /\ window' \in Windows /\ window'.failures = 0 /\ window'.deadline <= serverExpiry
        /\ view.sample <= window'.renewAt /\ window'.renewAt <= window'.deadline
    <3>1. view.sample \in Times /\ clock < serverExpiry
      BY <1>4, <1>t DEF Times
    <3> QED
      BY <1>t, <1>1, <2>2, <3>1, WindowCovered
  <2>6. WindowInv'
    <3>1. window'.renewAt \in Nat
      BY <1>t, <2>5 DEF Windows, Times
    <3> QED
      BY <2>2, <2>5, <3>1 DEF WindowInv
  <2>7. /\ view' \in [at : {"closed", "resolving", "granted", "open", "dropped"}, sample : Times]
        /\ view'.at = "open" /\ view'.sample = view.sample
    BY <1>t, <2>2
  <2>8. ViewInv'
    BY <1>1, <1>2, <2>7 DEF ViewInv
  <2>9. LeaseTypeOK'
    BY <1>t, <1>2, <2>2, <2>3, <2>5, <2>7, Zenon DEF LeaseTypeOK
  <2> QED
    BY <2>4, <2>6, <2>8, <2>9 DEF LeaseInv
<1>5. CASE ~(ResolveDone /\ serverExpiry > clock)
  <2>1. calls' = calls /\ window' = window
    BY <1>5 DEF ForResolve, ResolveAnswer, ResolveFail, ResolveDone
  <2>2. QueueInv' /\ TaskInv' /\ RenewerDiligent'
    BY <1>1, <1>3, <2>1
  <2>3. /\ serverExpiry' \in Times
        /\ view' \in [at : {"closed", "resolving", "granted", "open", "dropped"}, sample : Times]
        /\ view'.sample <= clock /\ view'.at \in {"closed", "resolving", "granted"}
    <3>1. CASE ForResolve \/ ResolveFail
      BY <3>1, <1>t, <1>1 DEF ForResolve, ResolveFail
    <3>2. ASSUME NEW g \in Grants, ResolveAnswer(g)
          PROVE  /\ serverExpiry' \in Times
                 /\ view' \in [at : {"closed", "resolving", "granted", "open", "dropped"}, sample : Times]
                 /\ view'.sample <= clock /\ view'.at \in {"closed", "resolving", "granted"}
      <4>1. serverExpiry' \in Times
        BY <3>2, <1>t, LeaseAssumption DEF ResolveAnswer, Times
      <4> DEFINE v == [view EXCEPT !.at = "granted"]
      <4>2. v \in [at : {"closed", "resolving", "granted", "open", "dropped"}, sample : Times]
            /\ v.at = "granted"
        BY <1>t
      <4>3. view' = [v EXCEPT !.sample = clock]
        BY <3>2 DEF ResolveAnswer
      <4>4. clock <= clock
        BY <1>t DEF Times
      <4> HIDE DEF v
      <4> QED
        BY <1>t, <4>1, <4>2, <4>3, <4>4
    <3>3. CASE ResolveDone /\ ~(serverExpiry > clock)
      BY <3>3, <1>t, <1>1 DEF ResolveDone, Times
    <3> QED
      BY <1>5, <3>1, <3>2, <3>3
  <2>4. WindowInv'
    BY <1>1, <2>1, <2>3, LeaseAssumption DEF WindowInv, NoWindow, Times
  <2>5. ViewInv'
    BY <1>1, <1>2, <2>1, <2>3 DEF ViewInv
  <2>6. LeaseTypeOK'
    BY <1>t, <1>2, <2>1, <2>3, Zenon DEF LeaseTypeOK
  <2> QED
    BY <2>2, <2>4, <2>5, <2>6 DEF LeaseInv
<1> QED
  BY <1>4, <1>5

LEMMA DropStep == ASSUME LeaseInv, DropReader PROVE LeaseInv'
<1>t. /\ calls \in [Tasks -> LeaseCalls] /\ Renewer \in Tasks /\ serverExpiry \in Times
      /\ view \in [at : {"closed", "resolving", "granted", "open", "dropped"}, sample : Times]
  BY DEF LeaseInv, LeaseTypeOK, Tasks
<1>1. /\ calls' = [calls EXCEPT ![Renewer] = Rest] /\ Unlock(Renewer)
      /\ view' = [view EXCEPT !.at = "dropped"]
      /\ clock' = clock /\ serverExpiry' = serverExpiry /\ window' = window /\ reported' = reported
  BY DEF DropReader
<1>2. /\ calls' \in [Tasks -> LeaseCalls] /\ calls'[Renewer].at = "idle"
      /\ \A u \in Tasks : u # Renewer => calls'[u] = calls[u]
  BY <1>t, <1>1, RestType DEF Rest
<1>3. serverExpiry' \in Times /\ serverExpiry <= serverExpiry'
  BY <1>t, <1>1, LeaseAssumption DEF Times
<1>4. renewing' \in Seq(Tasks) /\ \A u \in Tasks : u # Renewer => QueueOK(u)' /\ TaskOK(u)'
  BY <1>t, <1>1, <1>2, <1>3, OthersKept, Zenon
<1>5. QueueInv' /\ TaskInv'
  BY <1>t, <1>2, <1>4, OffMutex DEF QueueInv, TaskInv
<1>6. /\ view' \in [at : {"closed", "resolving", "granted", "open", "dropped"}, sample : Times]
      /\ view'.at = "dropped" /\ view'.sample = view.sample
  BY <1>t, <1>1
<1>7. LeaseTypeOK'
  BY <1>1, <1>2, <1>4, <1>6, Zenon DEF LeaseInv, LeaseTypeOK
<1>8. ViewInv' /\ WindowInv'
  BY <1>1, <1>6 DEF LeaseInv, ViewInv, WindowInv
<1>9. RenewerDiligent'
  BY <1>2 DEF RenewerDiligent, RenewerPersists, NeverOversleeps
<1> QED
  BY <1>5, <1>7, <1>8, <1>9 DEF LeaseInv

LEMMA LeaseStep == LeaseInv /\ [LeaseNext]_leaseVars => LeaseInv'
<1> SUFFICES ASSUME LeaseInv, [LeaseNext]_leaseVars PROVE LeaseInv'
  OBVIOUS
<1>1. CASE LeaseNext
  <2>1. ASSUME NEW t \in Tasks, Step(t) PROVE LeaseInv'
    BY <2>1, FirstStep, LockStep, SecondStep, AttemptStep, RetryStep, BackoffStep, TimeoutStep,
       ValidateStep, SampledStep, StoreStep DEF Step
  <2> QED
    BY <1>1, <2>1, ResolveStep, DropStep, BeginStep, SleepStep, ServeStep, TickStep DEF LeaseNext
<1>2. CASE UNCHANGED leaseVars
  <2> USE <1>2 DEF leaseVars
  <2>1. LeaseTypeOK'
    BY Zenon DEF LeaseInv, LeaseTypeOK
  <2>2. QueueInv' /\ ViewInv' /\ WindowInv'
    BY DEF LeaseInv, QueueInv, QueueOK, Queued, ViewInv, WindowInv
  <2>3. TaskInv'
    BY DEF LeaseInv, TaskInv, TaskOK
  <2>4. RenewerDiligent'
    BY DEF LeaseInv, RenewerDiligent, RenewerPersists, NeverOversleeps
  <2> QED
    BY <2>1, <2>2, <2>3, <2>4 DEF LeaseInv
<1> QED
  BY <1>1, <1>2

\* The inductive invariant holds for all operations, grants, timeouts and attempts
\* (reader.rs and client.rs).
THEOREM LeaseInvariant == LeaseSpec => []LeaseInv
BY LeaseInitInv, LeaseStep, PTL DEF LeaseSpec

\* Whatever renews, postpones or fails, the background task of reader.rs never sleeps past
\* the moment of renewal and gives up only when nothing can be repaired.
THEOREM LeaseRenewerDiligent == LeaseSpec => []RenewerDiligent
<1>1. LeaseInv => RenewerDiligent
  BY DEF LeaseInv
<1> QED
  BY <1>1, LeaseInvariant, PTL

\* The window changes when the reader opens and under the mutex only.
LEMMA WindowChange ==
  ASSUME LeaseInv, LeaseNext, window' # window
  PROVE  /\ ~window.failure
         /\ reported => \/ window'.failure \/ window'.transient
                        \/ \E t \in Tasks : calls[t].at = "store" /\ calls[t].answer.epoch
<1>1. CASE ResolveDone
  <2>1. view.at = "granted"
    BY <1>1 DEF ResolveDone
  <2> QED
    BY <2>1 DEF LeaseInv, ViewInv, NoWindow
<1>2. ASSUME NEW t \in Tasks, Store(t)
      PROVE  ~window.failure /\ calls[t].at = "store" /\ (reported => calls[t].answer.epoch)
  BY <1>2 DEF LeaseInv, TaskInv, TaskOK, Store, Renews, Held
<1>3. ASSUME NEW t \in Tasks, Attempt(t) \/ Retry(t) \/ Backoff(t) \/ Timeout(t) \/ ValidateReceipt(t) \/ Sampled(t)
      PROVE  ~window.failure /\ (window'.failure \/ window'.transient)
  <2>1. calls[t].at \in Renews /\ serverExpiry' = serverExpiry
    BY <1>3 DEF Attempt, Retry, Backoff, Timeout, ValidateReceipt, Sampled, Renews, Held
  <2>2. \E recoverable : Fail(t, recoverable)
    BY <1>3 DEF Attempt, Retry, Backoff, Timeout, ValidateReceipt, Sampled
  <2> QED
    BY <2>1, <2>2, FailWindow
<1>4. ASSUME NEW t \in Tasks, First(t) \/ Lock(t) \/ Second(t) PROVE FALSE
  BY <1>4 DEF First, Lock, Second
<1>5. ASSUME \/ ForResolve \/ (\E g \in Grants : ResolveAnswer(g)) \/ ResolveFail \/ DropReader
             \/ Sleep \/ Wake \/ Tick \/ (\E o \in Operations : Begin(o) \/ Cancel(o))
             \/ \E t \in Tasks, g \in Grants \cup {0} : \E answer \in Replies(g) : Serve(t, g, answer)
      PROVE  FALSE
  BY <1>5 DEF ForResolve, ResolveAnswer, ResolveFail, DropReader, Sleep, Wake, Tick, Begin, Cancel, Serve
<1> QED
  BY <1>1, <1>2, <1>3, <1>4, <1>5 DEF LeaseNext, Step

\* The lease of a reader never outlives what the service granted, a terminal failure is
\* latched for good, and a renewal never drops the epoch that was reported (reader.rs).
THEOREM LeaseIsSound == LeaseSpec => LeaseSound
<1>1. LeaseInv => GrantCovers
  <2> SUFFICES ASSUME LeaseInv, LocalLeaseStatus PROVE clock < serverExpiry
    BY DEF GrantCovers
  <2>1. clock \in Times /\ serverExpiry \in Times /\ window.deadline \in Times
    BY DEF LeaseInv, LeaseTypeOK, Windows
  <2> QED
    BY <2>1, LeaseAssumption DEF LeaseInv, WindowInv, LocalLeaseStatus, Times
<1>2. LeaseInv /\ [LeaseNext]_leaseVars => [window.failure => window'.failure]_window
  BY WindowChange DEF leaseVars
<1>3. LeaseInv /\ [LeaseNext]_leaseVars =>
        [(reported /\ window' # window /\ ~window'.failure /\ ~window'.transient)
           => \E t \in Tasks : calls[t].at = "store" /\ calls[t].answer.epoch]_leaseVars
  BY WindowChange DEF leaseVars
<1> QED
  BY <1>1, <1>2, <1>3, LeaseInvariant, PTL DEF LeaseSpec, LeaseSound, TerminalIsFinal, EpochNeverDropped
=============================================================================
