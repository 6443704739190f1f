-------------------------- MODULE FetchCoordinator --------------------------
(***************************************************************************)
(* Single-flight content fetching (snapshot/coordinator.rs).               *)
(*                                                                         *)
(* Callers that want the same content join one flight.  The map of flights *)
(* and their waiters is behind one lock; the leader of a flight is a task  *)
(* of its own, so that a caller whose future is dropped, the first one     *)
(* included, takes nothing from the others.  The last waiter that leaves   *)
(* detaches the flight and cancels its leader, and a new flight for the    *)
(* same content may start while the old leader is still winding down.      *)
(* Three counts bound the work: callers, jobs and concurrent downloads.    *)
(*                                                                         *)
(* A reader without metadata pages has no flights: every caller makes      *)
(* its own request.                                                        *)
(***************************************************************************)
EXTENDS Naturals, FiniteSets

CONSTANTS
  Callers,         \* the futures of fetch_owned
  Paths, Keys,     \* files, and contents (content id and size)
  Members,         \* the content that the snapshot commits to for every path
  MaxCallers,      \* limits.max_active_callers
  MaxJobs,         \* limits.max_pending_jobs
  MaxConcurrent,   \* max_concurrent, as clamped by the constructor
  MaxId            \* the largest identity, u64::MAX in the program

\* A snapshot without files has no callers.
ASSUME CoordinatorAssumption ==
  /\ Paths # {} /\ Members \in [Paths -> Keys]
  /\ MaxCallers \in Nat \ {0} /\ MaxJobs \in Nat \ {0} /\ MaxId \in Nat
  /\ MaxConcurrent \in 1 .. MaxJobs

VARIABLES
  pages,     \* features.metadata_pages of the reader: membership can be proved
  call,      \* where every caller is
  entries,   \* inflight.entries: the flight that is joined for a key, 0 if none
  waiters,   \* the waiter identities of that entry
  flights,   \* every flight by its generation: the leader task and its guard
  nextId,    \* inflight.next_id
  callers, jobs, permits   \* permits taken of the three semaphores

vars == <<pages, call, entries, waiters, flights, nextId, callers, jobs, permits>>

Ids == 1 .. MaxId

\* flight and id are 0 outside "waiting"; box is the flight that has answered.
Calls ==
  [at : {"idle", "admitted", "validated", "waiting", "direct", "reading"},
   path : Paths, key : Keys, flight : 0 .. MaxId, id : 0 .. MaxId, box : 0 .. MaxId]

\* todo: the waiters that complete() has taken from the map and not yet answered.
Flights ==
  [at : {"none", "queued", "fetching", "completing", "sending", "gone"},
   key : Keys, cancel : BOOLEAN, todo : SUBSET Ids]

Idle == [at |-> "idle", path |-> CHOOSE p \in Paths : TRUE, key |-> CHOOSE k \in Keys : TRUE,
         flight |-> 0, id |-> 0, box |-> 0]

NoFlight == [at |-> "none", key |-> Idle.key, cancel |-> FALSE, todo |-> {}]

Init ==
  /\ pages \in BOOLEAN
  /\ call = [c \in Callers |-> Idle]
  /\ entries = [k \in Keys |-> 0] /\ waiters = [k \in Keys |-> {}]
  /\ flights = [g \in Ids |-> NoFlight]
  /\ nextId = 0 /\ callers = 0 /\ jobs = 0 /\ permits = 0

-----------------------------------------------------------------------------
(* A caller, up to its registration.                                       *)

\* Admission is immediate or refused; nobody queues for it. The process-wide
\* permit may be refused at any time, because of other coordinators.
Call(c, p, k) ==
  /\ call[c].at = "idle" /\ callers < MaxCallers
  /\ call' = [call EXCEPT ![c].at = "admitted", ![c].path = p, ![c].key = k]
  /\ callers' = callers + 1
  /\ UNCHANGED <<entries, waiters, flights, nextId, jobs, permits>>

\* The caller returns, or its future is dropped, and its permit goes with it.
Return(c) == call' = [call EXCEPT ![c] = Idle] /\ callers' = callers - 1

\* Mutant: a path of the snapshot may be named with any content.
ValidatePathOnly(c) ==
  /\ call[c].at = "admitted" /\ pages
  /\ call' = [call EXCEPT ![c].at = "validated"]
  /\ UNCHANGED <<entries, waiters, flights, nextId, callers, jobs, permits>>

\* validate_membership: the path is committed with this content.
Validate(c) ==
  /\ call[c].at = "admitted" /\ pages /\ Members[call[c].path] = call[c].key
  /\ call' = [call EXCEPT ![c].at = "validated"]
  /\ UNCHANGED <<entries, waiters, flights, nextId, callers, jobs, permits>>

\* The claim is wrong, the lease is gone, or the future is dropped while the
\* closure or the lease is awaited.
Leave(c) ==
  /\ call[c].at \in {"admitted", "validated"} /\ Return(c)
  /\ UNCHANGED <<entries, waiters, flights, nextId, jobs, permits>>

\* Under the lock: the caller becomes a waiter of the flight that is there.
Join(c) ==
  /\ call[c].at = "validated" /\ entries[call[c].key] # 0 /\ nextId < MaxId
  /\ LET k == call[c].key IN
     /\ call' = [call EXCEPT ![c].at = "waiting", ![c].flight = entries[k], ![c].id = nextId + 1]
     /\ waiters' = [waiters EXCEPT ![k] = @ \cup {nextId + 1}]
  /\ nextId' = nextId + 1
  /\ UNCHANGED <<entries, flights, callers, jobs, permits>>

\* Or it starts one, takes a job permit for it, and is its first waiter.
Start(c) ==
  /\ call[c].at = "validated" /\ entries[call[c].key] = 0
  /\ jobs < MaxJobs /\ nextId + 1 < MaxId
  /\ LET k == call[c].key
         g == nextId + 2 IN
     /\ call' = [call EXCEPT ![c].at = "waiting", ![c].flight = g, ![c].id = nextId + 1]
     /\ entries' = [entries EXCEPT ![k] = g]
     /\ waiters' = [waiters EXCEPT ![k] = {nextId + 1}]
     /\ flights' = [flights EXCEPT ![g].at = "queued", ![g].key = k]
  /\ nextId' = nextId + 2 /\ jobs' = jobs + 1
  /\ UNCHANGED <<callers, permits>>

\* Refused for want of an identity, or of a job permit, here or process-wide. The
\* identity taken before the refusal is not given back.
RefuseJoin(c) ==
  /\ call[c].at = "validated" /\ (nextId = MaxId \/ entries[call[c].key] = 0)
  /\ nextId' = IF nextId = MaxId THEN nextId ELSE nextId + 1
  /\ Return(c)
  /\ UNCHANGED <<entries, waiters, flights, jobs, permits>>

-----------------------------------------------------------------------------
(* The leader task of flight g.                                            *)

\* A download permit is given in order of arrival, and given up on cancellation.
Acquire(g) ==
  /\ flights[g].at = "queued" /\ ~flights[g].cancel /\ permits < MaxConcurrent
  /\ flights' = [flights EXCEPT ![g].at = "fetching"] /\ permits' = permits + 1
  /\ UNCHANGED <<call, entries, waiters, nextId, callers, jobs>>

\* Mutant: a leader that is still queued returns a permit too.
ReleaseAlways(g) == permits' = permits - 1

Release(g) == permits' = IF flights[g].at = "fetching" THEN permits - 1 ELSE permits

\* The reader answers with verified bytes of this content, or with an error: either
\* is the result for every waiter.
Fetched(g) ==
  /\ flights[g].at = "fetching" /\ ~flights[g].cancel
  /\ flights' = [flights EXCEPT ![g].at = "completing"] /\ Release(g)
  /\ UNCHANGED <<call, entries, waiters, nextId, callers, jobs>>

\* Mutant: a leader that is queued for its permit does not watch for cancellation.
CancelledFetching(g) ==
  /\ flights[g].at = "fetching" /\ flights[g].cancel
  /\ flights' = [flights EXCEPT ![g].at = "completing"] /\ Release(g)
  /\ UNCHANGED <<call, entries, waiters, nextId, callers, jobs>>

\* The biased select sees the latched cancellation before anything else. A leader
\* that panics is no different for its waiters: the guard's Drop completes it.
Cancelled(g) ==
  /\ flights[g].at \in {"queued", "fetching"} /\ flights[g].cancel
  /\ flights' = [flights EXCEPT ![g].at = "completing"] /\ Release(g)
  /\ UNCHANGED <<call, entries, waiters, nextId, callers, jobs>>

Panic(g) ==
  /\ flights[g].at \in {"queued", "fetching"}
  /\ flights' = [flights EXCEPT ![g].at = "completing"] /\ Release(g)
  /\ UNCHANGED <<call, entries, waiters, nextId, callers, jobs>>

\* Mutant: the entry is looked up by its key alone.
TakeAnyWaiters(g) ==
  LET k == flights[g].key IN
  /\ flights' = [flights EXCEPT ![g].at = "sending", ![g].todo = waiters[k]]
  /\ entries' = [entries EXCEPT ![k] = 0] /\ waiters' = [waiters EXCEPT ![k] = {}]

\* Mutant: a leader that ends leaves its waiters in the map.
TakeNoWaiters(g) ==
  flights' = [flights EXCEPT ![g].at = "sending"] /\ UNCHANGED <<entries, waiters>>

\* take_waiters, under the lock: only from the entry that is still this flight's.
TakeWaiters(g) ==
  LET k == flights[g].key IN
  IF entries[k] = g
  THEN /\ flights' = [flights EXCEPT ![g].at = "sending", ![g].todo = waiters[k]]
       /\ entries' = [entries EXCEPT ![k] = 0] /\ waiters' = [waiters EXCEPT ![k] = {}]
  ELSE /\ flights' = [flights EXCEPT ![g].at = "sending"]
       /\ UNCHANGED <<entries, waiters>>

Complete(g) ==
  /\ flights[g].at = "completing" /\ TakeWaiters(g)
  /\ UNCHANGED <<call, nextId, callers, jobs, permits>>

\* One answer, outside the lock; a receiver that has gone is not missed.
Send(g, i) ==
  /\ flights[g].at = "sending" /\ i \in flights[g].todo
  /\ flights' = [flights EXCEPT ![g].todo = @ \ {i}]
  /\ call' = [c \in Callers |-> IF call[c].at = "waiting" /\ call[c].id = i
                                THEN [call[c] EXCEPT !.box = g] ELSE call[c]]
  /\ UNCHANGED <<entries, waiters, nextId, callers, jobs, permits>>

\* Mutant: the job permit is lost with the guard.
DoneLeaking(g) ==
  /\ flights[g].at = "sending" /\ flights[g].todo = {}
  /\ flights' = [flights EXCEPT ![g].at = "gone"]
  /\ UNCHANGED <<call, entries, waiters, nextId, callers, jobs, permits>>

\* The guard is dropped, and the job permit with it.
Done(g) ==
  /\ flights[g].at = "sending" /\ flights[g].todo = {}
  /\ flights' = [flights EXCEPT ![g].at = "gone"] /\ jobs' = jobs - 1
  /\ UNCHANGED <<call, entries, waiters, nextId, callers, permits>>

-----------------------------------------------------------------------------
(* A caller, from its registration.                                        *)

\* Mutant: the last waiter detaches the flight and leaves its leader running.
UnregisterSilently(c) ==
  LET k == call[c].key
      left == waiters[k] \ {call[c].id} IN
  IF entries[k] = call[c].flight
  THEN /\ waiters' = [waiters EXCEPT ![k] = left]
       /\ entries' = [entries EXCEPT ![k] = IF left = {} THEN 0 ELSE @]
       /\ UNCHANGED flights
  ELSE UNCHANGED <<entries, waiters, flights>>

\* Mutant: any waiter that leaves cancels the leader.
UnregisterCancelling(c) ==
  LET k == call[c].key
      g == call[c].flight
      left == waiters[k] \ {call[c].id} IN
  IF entries[k] = g
  THEN /\ waiters' = [waiters EXCEPT ![k] = left]
       /\ entries' = [entries EXCEPT ![k] = IF left = {} THEN 0 ELSE @]
       /\ flights' = [flights EXCEPT ![g].cancel = TRUE]
  ELSE UNCHANGED <<entries, waiters, flights>>

\* WaiterRegistration's Drop, under the lock: the last waiter to leave detaches
\* the flight and cancels its leader.
Unregister(c) ==
  LET k == call[c].key
      g == call[c].flight
      left == waiters[k] \ {call[c].id} IN
  IF entries[k] = g
  THEN /\ waiters' = [waiters EXCEPT ![k] = left]
       /\ IF left = {}
          THEN entries' = [entries EXCEPT ![k] = 0] /\ flights' = [flights EXCEPT ![g].cancel = TRUE]
          ELSE UNCHANGED <<entries, flights>>
  ELSE UNCHANGED <<entries, waiters, flights>>

\* The caller has its answer.
Receive(c) ==
  /\ call[c].at = "waiting" /\ call[c].box # 0
  /\ Unregister(c) /\ Return(c)
  /\ UNCHANGED <<nextId, jobs, permits>>

\* The caller's future is dropped while it waits.
Drop(c) ==
  /\ call[c].at = "waiting"
  /\ Unregister(c) /\ Return(c)
  /\ UNCHANGED <<nextId, jobs, permits>>

-----------------------------------------------------------------------------
(* Without metadata pages.                                                 *)

\* The caller is its own leader, with a job permit and no cancellation.
LeadDirect(c) ==
  /\ call[c].at = "admitted" /\ ~pages /\ jobs < MaxJobs
  /\ call' = [call EXCEPT ![c].at = "direct"] /\ jobs' = jobs + 1
  /\ UNCHANGED <<entries, waiters, flights, nextId, callers, permits>>

AcquireDirect(c) ==
  /\ call[c].at = "direct" /\ permits < MaxConcurrent
  /\ call' = [call EXCEPT ![c].at = "reading"] /\ permits' = permits + 1
  /\ UNCHANGED <<entries, waiters, flights, nextId, callers, jobs>>

\* The request ends, or the future is dropped.
EndDirect(c) ==
  /\ call[c].at \in {"direct", "reading"} /\ Return(c) /\ jobs' = jobs - 1
  /\ permits' = IF call[c].at = "reading" THEN permits - 1 ELSE permits
  /\ UNCHANGED <<entries, waiters, flights, nextId>>

-----------------------------------------------------------------------------
Caller(c) ==
  \/ \E p \in Paths, k \in Keys : Call(c, p, k)
  \/ Validate(c) \/ Leave(c) \/ Join(c) \/ Start(c) \/ RefuseJoin(c) \/ Receive(c) \/ Drop(c)
  \/ LeadDirect(c) \/ AcquireDirect(c) \/ EndDirect(c)

\* What the leader task does whenever it is scheduled.
LeaderStep(g) ==
  Fetched(g) \/ Cancelled(g) \/ Complete(g) \/ Done(g) \/ \E i \in Ids : Send(g, i)

Leader(g) == Acquire(g) \/ LeaderStep(g) \/ Panic(g)

Next ==
  /\ (\E c \in Callers : Caller(c)) \/ (\E g \in Ids : Leader(g))
  /\ UNCHANGED pages

Spec == Init /\ [][Next]_vars

\* Tasks are scheduled, requests time out, the download semaphore is first come
\* first served, and a caller that has its answer takes it.  That some leader and
\* some caller always goes on is all that is assumed: no flight is favoured.
Fairness ==
  /\ SF_vars(\E g \in Ids : Acquire(g) /\ UNCHANGED pages)
  /\ WF_vars(\E g \in Ids : LeaderStep(g) /\ UNCHANGED pages)
  /\ WF_vars(\E c \in Callers : Receive(c) /\ UNCHANGED pages)
FairSpec == Spec /\ Fairness

-----------------------------------------------------------------------------
(* Properties.                                                             *)

\* Callers, flights and the map are of their kind.
TypeOK ==
  /\ pages \in BOOLEAN
  /\ call \in [Callers -> Calls] /\ flights \in [Ids -> Flights]
  /\ entries \in [Keys -> 0 .. MaxId] /\ waiters \in [Keys -> SUBSET Ids]
  /\ nextId \in 0 .. MaxId /\ callers \in Nat /\ jobs \in Nat /\ permits \in Nat

Live(g) == flights[g].at \in {"queued", "fetching", "completing"}
Waits(c) == call[c].at = "waiting" /\ call[c].box = 0

\* No caller is forgotten: one that waits without an answer is a waiter of the entry of
\* its own flight, whose leader is still to complete, or is on the list of waiters that
\* its leader has taken and is answering.
NoLostWaiter ==
  \A c \in Callers : Waits(c) =>
    LET k == call[c].key
        g == call[c].flight IN
    \/ entries[k] = g /\ call[c].id \in waiters[k] /\ Live(g)
    \/ flights[g].at = "sending" /\ call[c].id \in flights[g].todo

\* A download that some caller still needs is not cancelled: neither the first caller's
\* leaving nor that of a waiter of an older flight for the same content cancels it.
NeededNotCancelled ==
  \A c \in Callers : Waits(c) => ~flights[call[c].flight].cancel

\* At most one flight per content is still wanted: every other leader for it has been
\* cancelled or has taken its waiters.
SingleFlight ==
  \A g, h \in Ids :
    g # h /\ Live(g) /\ Live(h) /\ flights[g].key = flights[h].key =>
      flights[g].cancel \/ flights[h].cancel

\* A caller is answered by its own flight only, which fetched the content that the
\* snapshot commits to for the caller's own path.
OwnAnswer ==
  \A c \in Callers : call[c].box # 0 =>
    call[c].box = call[c].flight /\ flights[call[c].box].key = Members[call[c].path]

HoldsJob == {g \in Ids : Live(g) \/ flights[g].at = "sending"}
Active == {c \in Callers : call[c].at # "idle"}
Direct == {c \in Callers : call[c].at \in {"direct", "reading"}}
Reading == {c \in Callers : call[c].at = "reading"}
Fetching == {g \in Ids : flights[g].at = "fetching"}

\* The three counts are exactly the permits their holders hold, and stay in bounds: no
\* refusal, drop, cancellation or panic leaks a permit or returns it twice.
PermitsExact ==
  /\ callers = Cardinality(Active) /\ callers <= MaxCallers
  /\ jobs = Cardinality(HoldsJob) + Cardinality(Direct) /\ jobs <= MaxJobs
  /\ permits = Cardinality(Fetching) + Cardinality(Reading) /\ permits <= MaxConcurrent

\* A caller waits, or a flight has not given back its job permit.
FetchBusy == (\E c \in Callers : call[c].at = "waiting") \/ (\E g \in Ids : Live(g))

\* Every waiting caller has a download that will answer it and that nobody has
\* cancelled (coordinator.rs join, leave and complete).
WaitersServed == NoLostWaiter /\ NeededNotCancelled

\* Downloads are shared, and shared rightly: one flight per content, and every caller
\* gets the content of its own path (coordinator.rs join and validate).
SharedRightly == SingleFlight /\ OwnAnswer
=============================================================================
