------------------------------ MODULE CasWork ------------------------------
(***************************************************************************)
(* Bounded local reads: the blocking jobs of cas_worker.rs, the payload    *)
(* credits of content.rs they and their replies hold, and the payload      *)
(* cache of fuse_store.rs.                                                 *)
(*                                                                         *)
(* A request reserves its reply, looks in the cache, and on a miss runs a  *)
(* blocking job that is admitted by its scope and by the process, waits    *)
(* for an execution slot of both, checks the lease twice and reads.  The   *)
(* future that waits for the job can be dropped at any point; the job, the *)
(* reply and the cache each keep what they own until they let go of it.    *)
(* Every request reads a file of its own, so a body is named by the        *)
(* request that read it.                                                   *)
(***************************************************************************)
EXTENDS Naturals, FiniteSets, Sequences, SequencesExt

CONSTANTS
    Scopes,              \* the content budgets: one per reader or local mount
    Requests,            \* the requests that may be in flight
    ScopeOf,             \* [Requests -> Scopes]
    LocalScopes,         \* the scopes whose access is established at construction
    Hung,                \* the scopes whose storage may never answer
    LOCAL_OUTSTANDING, LOCAL_RUNNING, PROCESS_OUTSTANDING, PROCESS_RUNNING,
    LocalCredits, ProcessCredits,
    BodySize,            \* [Requests -> Nat], the bytes of the file each reads
    CacheEntries, max_bytes   \* the limits of a cache

ASSUME WorkAssumption ==
    /\ ScopeOf \in [Requests -> Scopes]
    /\ LocalScopes \subseteq Scopes /\ Hung \subseteq Scopes
    /\ {LOCAL_OUTSTANDING, LOCAL_RUNNING, PROCESS_OUTSTANDING, PROCESS_RUNNING,
        LocalCredits, ProcessCredits, CacheEntries, max_bytes} \subseteq Nat \ {0}
    /\ BodySize \in [Requests -> Nat]

VARIABLES
    job,          \* each request: where it is, its atomic state, its waiting future
    owners,       \* who holds the body each request read
    permits,      \* free permits of the scopes and of the process
    credits,      \* free output credits of the scopes and of the process
    turn,         \* the FIFO queues of the execution semaphores
    cached,       \* StoreSmallCache of each scope, oldest use first
    granted       \* the lease of the online scopes still holds
workVars == <<job, owners, permits, credits, turn, cached, granted>>

Process == "process"
Pools == Scopes \cup {Process}
Limit(p, local, process) == IF p = Process THEN process ELSE local

\* Where a request waits with its future only, and where a job exists.
Waiting == {"first", "second"}
JobAt == {"dispatched", "working", "reading"}
Places == {"idle", "asked", "answered", "wire", "held", "replied"} \cup Waiting \cup JobAt
Holders == {"job", "future", "reply", "cache"}

Idle == [at |-> "idle", state |-> "FINISHED", waiter |-> FALSE, result |-> "none"]

WorkInit ==
    /\ job = [r \in Requests |-> Idle]
    /\ owners = [r \in Requests |-> {}]
    /\ permits = [outstanding |-> [p \in Pools |-> Limit(p, LOCAL_OUTSTANDING, PROCESS_OUTSTANDING)],
                  running |-> [p \in Pools |-> Limit(p, LOCAL_RUNNING, PROCESS_RUNNING)]]
    /\ credits = [p \in Pools |-> Limit(p, LocalCredits, ProcessCredits)]
    /\ turn = [p \in Pools |-> <<>>]
    /\ cached = [s \in Scopes |-> <<>>]
    /\ granted = TRUE

-----------------------------------------------------------------------------
(* Permits and credits.                                                    *)

\* free with n more in the pools of ps.
Back(free, ps, n) == [p \in Pools |-> free[p] + (IF p \in ps THEN n ELSE 0)]
Less(free, ps) == [p \in Pools |-> free[p] - (IF p \in ps THEN 1 ELSE 0)]

\* Mutant: a reservation the process refuses keeps the credit of its scope.
TakeLeaky(free, s) ==
    CASE free[s] = 0 -> free
      [] free[s] > 0 /\ free[Process] = 0 -> Less(free, {s})
      [] OTHER -> Less(free, {s, Process})

\* The scope first, then the process; a refusal of the second returns the first.
Take(free, s) ==
    IF free[s] > 0 /\ free[Process] > 0 THEN Less(free, {s, Process}) ELSE free

Accepts(free, s) == free[s] > 0 /\ free[Process] > 0

\* n credits return to the scope and to the process.
Refund(s, n) == credits' = Back(credits, {s, Process}, n)

\* The body of r loses the holders hs: one credit returns with its last holder.
Let(r, hs) == owners' = [owners EXCEPT ![r] = @ \ hs]
Freed(r, hs) == IF owners[r] # {} /\ owners[r] \subseteq hs THEN 1 ELSE 0

\* What a job holds from its dispatch to its end.
JobPermits(s) == [outstanding |-> Back(permits.outstanding, {s, Process}, 1),
                  running |-> Back(permits.running, {s, Process}, 1)]

\* Mutant: the process's execution slot is taken before the scope's.
ProcessFirst(s) == <<Process, s>>

\* No scope holds an execution slot of the process while it waits for its own.
SlotOrder(s) == <<s, Process>>

Accessible(s) == s \in LocalScopes \/ granted

Touch(q, r) == Append(SelectSeq(q, LAMBDA x : x # r), r)

-----------------------------------------------------------------------------
(* A request, until it holds its body.                                     *)

\* ReplyAdmission::reserve, before any body is read.
Reserve(r) ==
    /\ job[r].at = "idle"
    /\ credits' = Take(credits, ScopeOf[r])
    /\ job' = IF Accepts(credits, ScopeOf[r])
              THEN [job EXCEPT ![r] = [Idle EXCEPT !.at = "asked", !.waiter = TRUE]]
              ELSE job
    /\ UNCHANGED <<owners, permits, turn, cached, granted>>

\* The cache answers with another owner of the same body.
Hit(r) ==
    LET s == ScopeOf[r] IN
    /\ job[r].at = "asked" /\ "cache" \in owners[r]
    /\ owners' = [owners EXCEPT ![r] = @ \cup {"future"}]
    /\ cached' = [cached EXCEPT ![s] = Touch(@, r)]
    /\ job' = [job EXCEPT ![r].at = "held"]
    /\ UNCHANGED <<permits, credits, turn, granted>>

\* A miss is admitted by the scope and by the process, or refused.
Admit(r) ==
    LET s == ScopeOf[r] IN
    /\ job[r].at = "asked" /\ "cache" \notin owners[r]
    /\ permits' = [permits EXCEPT !.outstanding = Take(@, s)]
    /\ \/ /\ Accepts(permits.outstanding, s)
          /\ job' = [job EXCEPT ![r].at = "first", ![r].state = "PENDING"]
          /\ turn' = [turn EXCEPT ![SlotOrder(s)[1]] = Append(@, r)]
          /\ UNCHANGED credits
       \/ /\ ~Accepts(permits.outstanding, s)
          /\ job' = [job EXCEPT ![r] = Idle]
          /\ Refund(s, 1)
          /\ UNCHANGED turn
    /\ UNCHANGED <<owners, cached, granted>>

\* The semaphore of p is first come, first served.
HasTurn(r, p) == turn[p] # <<>> /\ Head(turn[p]) = r /\ permits.running[p] > 0

\* The first execution slot.
AcquireFirst(r) ==
    LET p == SlotOrder(ScopeOf[r])[1] IN
    /\ job[r].at = "first" /\ HasTurn(r, p)
    /\ permits' = [permits EXCEPT !.running = Less(@, {p})]
    /\ turn' = [turn EXCEPT ![p] = Tail(@), ![SlotOrder(ScopeOf[r])[2]] = Append(@, r)]
    /\ job' = [job EXCEPT ![r].at = "second"]
    /\ UNCHANGED <<owners, credits, cached, granted>>

\* The second one; the lease is checked before the job is spawned.
Dispatch(r) ==
    LET s == ScopeOf[r]
        p == SlotOrder(s)[2]
    IN
    /\ job[r].at = "second" /\ HasTurn(r, p)
    /\ turn' = [turn EXCEPT ![p] = Tail(@)]
    /\ \/ /\ Accessible(s)
          /\ permits' = [permits EXCEPT !.running = Less(@, {p})]
          /\ job' = [job EXCEPT ![r].at = "dispatched"]
          /\ UNCHANGED credits
       \/ /\ ~Accessible(s)
          /\ permits' = [outstanding |-> Back(permits.outstanding, {s, Process}, 1),
                         running |-> Back(permits.running, {SlotOrder(s)[1]}, 1)]
          /\ job' = [job EXCEPT ![r] = Idle]
          /\ Refund(s, 1)
    /\ UNCHANGED <<owners, cached, granted>>

\* The job ends: its permits return, and its result goes to the future if there
\* still is one; otherwise the reply's credit and the body go with it.
CompleteWork(r, result) ==
    LET s == ScopeOf[r] IN
    /\ permits' = JobPermits(s)
    /\ \/ /\ job[r].waiter
          /\ job' = [job EXCEPT ![r] = [Idle EXCEPT !.at = "answered", !.waiter = TRUE,
                                                    !.result = result]]
          /\ owners' = [owners EXCEPT ![r] = (@ \ {"job"}) \cup
                                             (IF result = "hit" THEN {"future"} ELSE {})]
          /\ Refund(s, IF result = "hit" THEN 0 ELSE Freed(r, {"job"}))
       \/ /\ ~job[r].waiter
          /\ job' = [job EXCEPT ![r] = Idle]
          /\ Let(r, {"job"})
          /\ Refund(s, 1 + Freed(r, {"job"}))

\* Mutant: the worker starts whatever the state says.
StartAnyway(r) ==
    /\ job[r].at = "dispatched"
    /\ \/ /\ Accessible(ScopeOf[r])
          /\ job' = [job EXCEPT ![r].at = "working", ![r].state = "RUNNING"]
          /\ UNCHANGED <<owners, permits, credits>>
       \/ /\ ~Accessible(ScopeOf[r])
          /\ CompleteWork(r, "error")
    /\ UNCHANGED <<turn, cached, granted>>

\* A blocking thread takes the job: the state has one winner, and the lease is
\* checked again.
Start(r) ==
    /\ job[r].at = "dispatched"
    /\ \/ /\ job[r].state = "PENDING" /\ Accessible(ScopeOf[r])
          /\ job' = [job EXCEPT ![r].at = "working", ![r].state = "RUNNING"]
          /\ UNCHANGED <<owners, permits, credits>>
       \/ /\ job[r].state # "PENDING" \/ ~Accessible(ScopeOf[r])
          /\ CompleteWork(r, "error")
    /\ UNCHANGED <<turn, cached, granted>>

\* The file is absent, cannot be opened, its buffer is refused, or it is allocated.
OpenObject(r) ==
    LET s == ScopeOf[r] IN
    /\ job[r].at = "working"
    /\ \/ /\ Accepts(credits, s)
          /\ credits' = Take(credits, s)
          /\ owners' = [owners EXCEPT ![r] = @ \cup {"job"}]
          /\ job' = [job EXCEPT ![r].at = "reading"]
          /\ UNCHANGED permits
       \/ \E result \in {"miss", "error"} : CompleteWork(r, result)
    /\ UNCHANGED <<turn, cached, granted>>

\* The verified body, or an error or a panic that drops the buffer.
EndRead(r) ==
    /\ job[r].at = "reading"
    /\ \E result \in {"hit", "error"} : CompleteWork(r, result)
    /\ UNCHANGED <<turn, cached, granted>>

\* The waiting future takes the answer, if the lease has outlived the queue and the read:
\* only a miss goes on to the wire.
Collect(r) ==
    LET s == ScopeOf[r]
        wanted == job[r].result = "hit" \/ (job[r].result = "miss" /\ s \notin LocalScopes)
    IN
    /\ job[r].at = "answered"
    /\ \/ /\ wanted /\ Accessible(s)
          /\ job' = [job EXCEPT ![r].at = IF job[r].result = "hit" THEN "held" ELSE "wire"]
          /\ UNCHANGED <<owners, credits>>
       \/ /\ ~wanted \/ ~Accessible(s)
          /\ job' = [job EXCEPT ![r] = Idle]
          /\ Let(r, {"future"})
          /\ Refund(s, 1 + Freed(r, {"future"}))
    /\ UNCHANGED <<permits, turn, cached, granted>>

\* A body from the service, in a buffer with credits of its own, or an error.
Wire(r) ==
    LET s == ScopeOf[r] IN
    /\ job[r].at = "wire"
    /\ \/ /\ Accepts(credits, s)
          /\ credits' = Take(credits, s)
          /\ owners' = [owners EXCEPT ![r] = @ \cup {"future"}]
          /\ job' = [job EXCEPT ![r].at = "held"]
       \/ /\ job' = [job EXCEPT ![r] = Idle]
          /\ Refund(s, 1)
          /\ UNCHANGED owners
    /\ UNCHANGED <<permits, turn, cached, granted>>

-----------------------------------------------------------------------------
(* The reply and the cache.                                                *)

\* How many of the oldest entries make room for the body of r.
Total(q) == FoldSeq(LAMBDA x, n : BodySize[x] + n, 0, q)
Room(q, r) ==
    Min({k \in 0..Len(q) : /\ Len(q) - k < CacheEntries
                           /\ Total(SubSeq(q, k + 1, Len(q))) + BodySize[r] <= max_bytes})

\* Mutant: an entry is evicted together with the credits of its body.
InsertRefunding(s, r) ==
    LET q == SelectSeq(cached[s], LAMBDA x : x # r)
        k == Room(q, r)
    IN IF BodySize[r] > max_bytes THEN [queue |-> q, evicted |-> {}, refund |-> 0]
       ELSE [queue |-> Append(SubSeq(q, k + 1, Len(q)), r),
             evicted |-> ToSet(SubSeq(q, 1, k)),
             refund |-> k]

\* insert_profiled: the entry of the same key is replaced, a body larger than the cache is
\* left out, and the entries used longest ago make room.  Only the last owner of an evicted
\* body returns credit.
Insert(s, r) ==
    LET q == SelectSeq(cached[s], LAMBDA x : x # r)
        k == Room(q, r)
        evicted == ToSet(SubSeq(q, 1, k))
    IN IF BodySize[r] > max_bytes THEN [queue |-> q, evicted |-> {}, refund |-> 0]
       ELSE [queue |-> Append(SubSeq(q, k + 1, Len(q)), r),
             evicted |-> evicted,
             refund |-> Cardinality({x \in evicted : owners[x] = {"cache"}})]

\* The reply takes over the future's share of the body, and the reservation.
Replied(r) == (owners[r] \ {"future"}) \cup {"reply"}

\* The reply is made, and the lease is checked under the state lock before the body is
\* cached; without it the reply is dropped unsent.
Publish(r) ==
    LET s == ScopeOf[r]
        new == Insert(s, r)
    IN
    /\ job[r].at = "held"
    /\ \/ /\ Accessible(s)
          /\ cached' = [cached EXCEPT ![s] = new.queue]
          /\ owners' = [x \in Requests |->
                          IF x = r THEN Replied(r) \cup (IF r \in ToSet(new.queue) THEN {"cache"} ELSE {})
                          ELSE IF x \in new.evicted THEN owners[x] \ {"cache"} ELSE owners[x]]
          /\ job' = [job EXCEPT ![r] = [Idle EXCEPT !.at = "replied"]]
          /\ Refund(s, new.refund)
       \/ /\ ~Accessible(s)
          /\ Let(r, {"future"})
          /\ job' = [job EXCEPT ![r] = Idle]
          /\ Refund(s, 1 + Freed(r, {"future"}))
          /\ UNCHANGED cached
    /\ UNCHANGED <<permits, turn, granted>>

\* External: the kernel's reply is written and its Bytes dropped.
DropReply(r) ==
    /\ job[r].at = "replied"
    /\ Let(r, {"reply"})
    /\ job' = [job EXCEPT ![r] = Idle]
    /\ Refund(ScopeOf[r], 1 + Freed(r, {"reply"}))
    /\ UNCHANGED <<permits, turn, cached, granted>>

\* Mutant: dropping the future of a running job returns the job's permits.
CancelRefunding(r) ==
    LET s == ScopeOf[r] IN
    /\ job[r].waiter
    /\ \/ /\ job[r].at \in JobAt
          /\ job' = [job EXCEPT ![r].waiter = FALSE,
                                ![r].state = IF @ = "PENDING" THEN "CANCELLED" ELSE @]
          /\ permits' = JobPermits(s)
          /\ UNCHANGED <<owners, credits, turn>>
       \/ /\ job[r].at \notin JobAt
          /\ job' = [job EXCEPT ![r] = Idle]
          /\ turn' = [p \in Pools |-> SelectSeq(turn[p], LAMBDA x : x # r)]
          /\ Let(r, {"future"})
          /\ Refund(s, 1 + Freed(r, {"future"}))
          /\ permits' =
               [outstanding |-> Back(permits.outstanding,
                                     IF job[r].at \in Waiting THEN {s, Process} ELSE {}, 1),
                running |-> Back(permits.running,
                                 IF job[r].at = "second" THEN {SlotOrder(s)[1]} ELSE {}, 1)]
    /\ UNCHANGED <<cached, granted>>

\* The future is dropped.  Before the job exists everything it holds returns; a
\* dispatched job is cancelled unless it has started; a started one is detached.
Cancel(r) ==
    LET s == ScopeOf[r] IN
    /\ job[r].waiter
    /\ \/ /\ job[r].at \in JobAt
          /\ job' = [job EXCEPT ![r].waiter = FALSE,
                                ![r].state = IF @ = "PENDING" THEN "CANCELLED" ELSE @]
          /\ UNCHANGED <<owners, permits, credits, turn>>
       \/ /\ job[r].at \notin JobAt
          /\ job' = [job EXCEPT ![r] = Idle]
          /\ turn' = [p \in Pools |-> SelectSeq(turn[p], LAMBDA x : x # r)]
          /\ Let(r, {"future"})
          /\ Refund(s, 1 + Freed(r, {"future"}))
          /\ permits' =
               [outstanding |-> Back(permits.outstanding,
                                     IF job[r].at \in Waiting THEN {s, Process} ELSE {}, 1),
                running |-> Back(permits.running,
                                 IF job[r].at = "second" THEN {SlotOrder(s)[1]} ELSE {}, 1)]
    /\ UNCHANGED <<cached, granted>>

\* The lease keeper's grant is over, for good.
Expire ==
    /\ granted
    /\ granted' = FALSE
    /\ UNCHANGED <<job, owners, permits, credits, turn, cached>>

-----------------------------------------------------------------------------
Running(r) == Start(r) \/ OpenObject(r) \/ EndRead(r)

WorkNext ==
    \/ Expire
    \/ \E r \in Requests :
          \/ Reserve(r) \/ Hit(r) \/ Admit(r) \/ AcquireFirst(r) \/ Dispatch(r)
          \/ Running(r) \/ Collect(r) \/ Wire(r) \/ Publish(r) \/ DropReply(r)
          \/ Cancel(r)

\* The runtime polls a woken future and a blocking thread takes a spawned job.
\* Nothing is assumed of the storage of a hung scope, of the kernel or of callers.
\* (That is weak fairness of these actions, with what enables them written out.)
CanGoOn(r) ==
    \/ job[r].at = "first" /\ HasTurn(r, SlotOrder(ScopeOf[r])[1])
    \/ job[r].at = "second" /\ HasTurn(r, SlotOrder(ScopeOf[r])[2])
    \/ job[r].at \in JobAt /\ ScopeOf[r] \notin Hung
WorkFairness == \A r \in Requests : []<>(~CanGoOn(r)) \/ []<><<TRUE>>_(job[r])

WorkSpec == WorkInit /\ [][WorkNext]_workVars /\ WorkFairness

-----------------------------------------------------------------------------
(* Properties.                                                             *)

\* Requests, owners and queues have their types (cas_worker.rs, content.rs).
WorkTypeOK ==
    /\ job \in [Requests -> [at : Places, waiter : BOOLEAN,
                             state : {"PENDING", "RUNNING", "CANCELLED", "FINISHED"},
                             result : {"none", "hit", "miss", "error"}]]
    /\ owners \in [Requests -> SUBSET Holders]
    /\ \A p \in Pools : /\ permits.outstanding[p] \in 0..LOCAL_OUTSTANDING + PROCESS_OUTSTANDING
                        /\ permits.running[p] \in 0..LOCAL_RUNNING + PROCESS_RUNNING
                        /\ credits[p] \in 0..LocalCredits + ProcessCredits
    /\ \A s \in Scopes : ToSet(cached[s]) = {r \in Requests : ScopeOf[r] = s /\ "cache" \in owners[r]}
    /\ \A p \in Pools : IsInjective(turn[p])

Of(p) == {r \in Requests : p = Process \/ ScopeOf[r] = p}

\* However many futures are dropped, the jobs that exist, started or not, never
\* exceed the execution slots of their scope or of the process: a dropped waiter
\* does not make room for another job while its own still runs.
WorkBounded ==
    \A p \in Pools :
        Cardinality({r \in Of(p) : job[r].at \in JobAt}) <= Limit(p, LOCAL_RUNNING, PROCESS_RUNNING)

\* The payloads and reply owners that are alive, wherever they are (a running or
\* detached job, a future, a reply the kernel still holds, the cache), never exceed
\* the credits of their scope or of the process.
MemoryBounded ==
    \A p \in Pools :
        Cardinality({r \in Of(p) : owners[r] # {}}) + Cardinality({r \in Of(p) : job[r].at # "idle"})
            <= Limit(p, LocalCredits, ProcessCredits)

\* When no request is in flight and nothing is cached, every permit and every
\* credit is back: no refusal, cancellation, error or eviction loses one.
NothingLeaks ==
    (\A r \in Requests : job[r].at = "idle" /\ owners[r] = {}) =>
        /\ credits = [p \in Pools |-> Limit(p, LocalCredits, ProcessCredits)]
        /\ permits.outstanding = [p \in Pools |-> Limit(p, LOCAL_OUTSTANDING, PROCESS_OUTSTANDING)]
        /\ permits.running = [p \in Pools |-> Limit(p, LOCAL_RUNNING, PROCESS_RUNNING)]

\* A job reads only for a future that is still there when the worker takes it, and
\* only under a lease that holds then, however long it waited in the queues.
ReadsOnlyWanted ==
    [][\A r \in Requests :
         job'[r].at = "working" /\ job[r].at # "working" =>
             job[r].waiter /\ Accessible(ScopeOf[r])]_workVars

\* The request r is admitted and waits for a slot.
Queued(r) == job[r].at \in Waiting

\* Work and memory stay bounded and are given back, and no slot is spent on a read nobody
\* may have, however futures are dropped (cas_worker.rs run, content.rs reserve).
WorkAccounted == []WorkBounded /\ []MemoryBounded /\ []NothingLeaks /\ ReadsOnlyWanted
=============================================================================
