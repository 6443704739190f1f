----------------------- MODULE FetchCoordinatorProofs -----------------------
(***************************************************************************)
(* Proofs about FetchCoordinator: for any callers, contents and limits no  *)
(* waiter is lost, no needed flight is cancelled, flights are shared       *)
(* rightly and the three counts are exact.                                 *)
(***************************************************************************)
EXTENDS FetchCoordinator, FiniteSetTheorems, TLAPS

\* What a caller's registration refers to: a flight for its own content, under an
\* identity that no other waiter has.
CallerOK(c) ==
  /\ call[c].at \in {"validated", "waiting"} => call[c].key = Members[call[c].path]
  /\ call[c].at # "waiting" => call[c].box = 0
  /\ call[c].at = "waiting" =>
       /\ call[c].id \in 1 .. nextId /\ call[c].flight \in 1 .. nextId
       /\ flights[call[c].flight].at # "none"
       /\ flights[call[c].flight].key = call[c].key
       /\ call[c].box \in {0, call[c].flight}
       /\ \A d \in Callers : call[d].at = "waiting" /\ call[d].id = call[c].id => d = c

\* A flight exists once its identity is taken; while it is live and not cancelled it is
\* the one in the map; it answers only its own waiters.
FlightOK(g) ==
  /\ g > nextId => flights[g].at = "none"
  /\ flights[g].at = "none" => ~flights[g].cancel
  /\ flights[g].at # "sending" => flights[g].todo = {}
  /\ Live(g) /\ ~flights[g].cancel => entries[flights[g].key] = g
  /\ \A i \in flights[g].todo :
       /\ i <= nextId
       /\ \A c \in Callers : call[c].at = "waiting" /\ call[c].id = i => call[c].flight = g

\* An entry of the map is a live flight for its key that nobody has cancelled, and its
\* waiters wait for that flight.
EntryOK(k) ==
  /\ entries[k] = 0 => waiters[k] = {}
  /\ entries[k] # 0 => /\ Live(entries[k]) /\ ~flights[entries[k]].cancel
                       /\ flights[entries[k]].key = k
  /\ \A i \in waiters[k] :
       /\ i <= nextId
       /\ \A c \in Callers : call[c].at = "waiting" /\ call[c].id = i => call[c].flight = entries[k]

CallerInv == \A c \in Callers : CallerOK(c)
FlightInv == \A g \in Ids : FlightOK(g)
EntryInv == \A k \in Keys : EntryOK(k)

\* The inductive invariant.
FetchInv ==
  /\ TypeOK
  /\ IsFiniteSet(Active) /\ PermitsExact
  /\ CallerInv /\ FlightInv /\ EntryInv
  /\ WaitersServed

-----------------------------------------------------------------------------
LEMMA IdleType == Idle \in Calls /\ NoFlight \in Flights
<1>1. Idle.path \in Paths /\ Idle.key \in Keys
  <2>1. PICK p \in Paths : TRUE
    BY CoordinatorAssumption
  <2>2. Members[p] \in Keys
    BY <2>1, CoordinatorAssumption
  <2> QED
    BY <2>1, <2>2 DEF Idle
<1> QED
  BY <1>1, CoordinatorAssumption DEF Idle, NoFlight, Calls, Flights, Ids

LEMMA FetchInit == Init => FetchInv
<1> SUFFICES ASSUME Init PROVE FetchInv
  OBVIOUS
<1> USE DEF Init
<1>1. TypeOK
  BY IdleType, CoordinatorAssumption DEF TypeOK, Ids
<1>2. Active = {} /\ HoldsJob = {} /\ Direct = {} /\ Fetching = {} /\ Reading = {}
  BY DEF Active, HoldsJob, Direct, Fetching, Reading, Live, Idle, NoFlight
<1>3. IsFiniteSet(Active) /\ PermitsExact
  BY <1>2, FS_EmptySet, CoordinatorAssumption DEF PermitsExact
<1>4. CallerInv /\ EntryInv /\ WaitersServed
  BY DEF CallerInv, CallerOK, EntryInv, EntryOK, WaitersServed, NoLostWaiter, NeededNotCancelled, Waits, Idle
<1>5. FlightInv
  BY DEF FlightInv, FlightOK, NoFlight, Live
<1> QED
  BY <1>1, <1>3, <1>4, <1>5 DEF FetchInv
-----------------------------------------------------------------------------
(* Types.                                                                  *)

\* A registration makes a call of a call.
LEMMA CallUpdate ==
  ASSUME NEW x \in Calls, NEW f \in 0 .. MaxId, NEW i \in 0 .. MaxId
  PROVE  [x EXCEPT !.at = "waiting", !.flight = f, !.id = i] \in Calls
<1>1. [x EXCEPT !.at = "waiting"] \in Calls
  BY DEF Calls
<1>2. ASSUME NEW y \in Calls PROVE [y EXCEPT !.flight = f] \in Calls
  BY DEF Calls
<1>3. ASSUME NEW y \in Calls PROVE [y EXCEPT !.id = i] \in Calls
  BY DEF Calls
<1> QED
  BY <1>1, <1>2, <1>3, Zenon

\* What the map and the leader do to a flight keeps it a flight.
LEMMA FlightUpdate ==
  ASSUME NEW x \in Flights, NEW k \in Keys, NEW t \in SUBSET Ids
  PROVE  /\ [x EXCEPT !.at = "queued", !.key = k] \in Flights
         /\ [x EXCEPT !.at = "sending", !.todo = t] \in Flights
         /\ [x EXCEPT !.at = "sending"] \in Flights
         /\ [x EXCEPT !.cancel = TRUE] \in Flights
<1>1. ASSUME NEW s \in {"queued", "sending"} PROVE [x EXCEPT !.at = s] \in Flights
  BY <1>1 DEF Flights
<1>2. ASSUME NEW y \in Flights
      PROVE  [y EXCEPT !.key = k] \in Flights /\ [y EXCEPT !.todo = t] \in Flights
  BY DEF Flights
<1>3. [x EXCEPT !.cancel = TRUE] \in Flights
  BY Zenon DEF Flights
<1> QED
  BY <1>1, <1>2, <1>3, Zenon

LEMMA TypeStep ==
  FetchInv /\ Next =>
    /\ call' \in [Callers -> Calls] /\ flights' \in [Ids -> Flights]
    /\ entries' \in [Keys -> 0 .. MaxId] /\ waiters' \in [Keys -> SUBSET Ids]
    /\ nextId' \in 0 .. MaxId
<1> DEFINE T == /\ call \in [Callers -> Calls] /\ flights \in [Ids -> Flights]
                /\ entries \in [Keys -> 0 .. MaxId] /\ waiters \in [Keys -> SUBSET Ids]
                /\ nextId \in 0 .. MaxId
<1> SUFFICES ASSUME FetchInv, Next PROVE T'
  OBVIOUS
<1> MaxId \in Nat /\ Idle \in Calls
  BY CoordinatorAssumption, IdleType
<1> T
  BY DEF FetchInv, TypeOK
<1> USE DEF Ids
<1>2. ASSUME NEW c \in Callers, Caller(c) PROVE T'
  <2>1. ASSUME NEW p \in Paths, NEW k \in Keys, Call(c, p, k) PROVE T'
    BY <2>1, ZenonT(30) DEF Call, Calls
  <2>2. CASE Validate(c)
    BY <2>2, Zenon DEF Validate, Calls
  <2>3. CASE Leave(c)
    BY <2>3 DEF Leave, Return
  <2> call[c].key \in Keys /\ call[c].flight \in 0 .. MaxId /\ call[c].id \in 0 .. MaxId
    BY DEF Calls
  <2>4. CASE Join(c)
    <3>0. call[c] \in Calls /\ nextId + 1 \in 0 .. MaxId
      BY <2>4 DEF Join
    <3>1. nextId + 1 \in Ids /\ entries[call[c].key] \in 0 .. MaxId
      BY <2>4 DEF Join
    <3>2. call' \in [Callers -> Calls]
      <4> DEFINE k == call[c].key
                 x == [call[c] EXCEPT !.at = "waiting", !.flight = entries[k], !.id = nextId + 1]
      <4>1. x \in Calls
        BY <3>1, <3>0, CallUpdate, Zenon
      <4>2. call' = [call EXCEPT ![c] = x]
        BY <2>4, Zenon DEF Join
      <4> QED
        BY <4>1, <4>2
    <3> QED
      BY <2>4, <3>1, <3>2 DEF Join
  <2>5. CASE Start(c)
    <3>0. call[c] \in Calls /\ nextId + 1 \in 0 .. MaxId /\ nextId + 2 \in 0 .. MaxId
      BY <2>5 DEF Start
    <3>1. nextId + 1 \in Ids /\ nextId + 2 \in Ids
      BY <2>5 DEF Start
    <3>2. call' \in [Callers -> Calls]
      <4> DEFINE x == [call[c] EXCEPT !.at = "waiting", !.flight = nextId + 2, !.id = nextId + 1]
      <4>1. x \in Calls
        BY <3>1, <3>0, CallUpdate, Zenon
      <4>2. call' = [call EXCEPT ![c] = x]
        BY <2>5, Zenon DEF Start
      <4> QED
        BY <4>1, <4>2
    <3>3. flights' \in [Ids -> Flights]
      <4> DEFINE x == [flights[nextId + 2] EXCEPT !.at = "queued", !.key = call[c].key]
      <4>1. x \in Flights
        BY <3>1, FlightUpdate, Zenon
      <4>2. flights' = [flights EXCEPT ![nextId + 2] = x]
        BY <2>5, Zenon DEF Start
      <4> QED
        BY <4>1, <4>2, Zenon
    <3> QED
      BY <2>5, <3>1, <3>2, <3>3 DEF Start
  <2>6. CASE RefuseJoin(c)
    BY <2>6 DEF RefuseJoin, Return
  <2>7. CASE Receive(c) \/ Drop(c)
    <3>1. Unregister(c) /\ Return(c) /\ nextId' = nextId
      BY <2>7 DEF Receive, Drop
    <3>2. call' \in [Callers -> Calls]
      BY <3>1 DEF Return
    <3>3. flights' \in [Ids -> Flights]
      <4> DEFINE x == [flights[call[c].flight] EXCEPT !.cancel = TRUE]
      <4>1. call[c].flight \in Ids => x \in Flights
        BY FlightUpdate, Zenon
      <4>2. flights' = flights \/ flights' = [flights EXCEPT ![call[c].flight] = x]
        BY <3>1 DEF Unregister
      <4> QED
        BY <4>1, <4>2
    <3>4. entries' \in [Keys -> 0 .. MaxId]
      BY <3>1 DEF Unregister
    <3>5. waiters' \in [Keys -> SUBSET Ids]
      BY <3>1, Zenon DEF Unregister
    <3> QED
      BY <3>1, <3>2, <3>3, <3>4, <3>5
  <2>9. CASE LeadDirect(c)
    BY <2>9, Zenon DEF LeadDirect, Calls
  <2>10. CASE AcquireDirect(c)
    BY <2>10, Zenon DEF AcquireDirect, Calls
  <2>11. CASE EndDirect(c)
    BY <2>11 DEF EndDirect, Return
  <2> QED
    BY <1>2, <2>1, <2>2, <2>3, <2>4, <2>5, <2>6, <2>7, <2>9, <2>10, <2>11 DEF Caller
<1>3. ASSUME NEW g \in Ids, Leader(g) PROVE T'
  <2>1. CASE Acquire(g)
    BY <2>1, Zenon DEF Acquire, Flights
  <2>2. CASE Fetched(g)
    BY <2>2, Zenon DEF Fetched, Flights
  <2>3. CASE Cancelled(g)
    BY <2>3, Zenon DEF Cancelled, Flights
  <2>4. CASE Panic(g)
    BY <2>4, Zenon DEF Panic, Flights
  <2>5. CASE Complete(g)
    <3>1. flights[g].key \in Keys
      BY DEF Flights
    <3>2. flights' \in [Ids -> Flights]
      <4> DEFINE x == [flights[g] EXCEPT !.at = "sending", !.todo = waiters[flights[g].key]]
                 y == [flights[g] EXCEPT !.at = "sending"]
      <4>1. x \in Flights /\ y \in Flights
        BY <3>1, FlightUpdate, Zenon
      <4>2. flights' = [flights EXCEPT ![g] = x] \/ flights' = [flights EXCEPT ![g] = y]
        BY <2>5 DEF Complete, TakeWaiters
      <4> QED
        BY <4>1, <4>2
    <3>3. entries' \in [Keys -> 0 .. MaxId]
      <4>1. entries' = entries \/ entries' = [entries EXCEPT ![flights[g].key] = 0]
        BY <2>5 DEF Complete, TakeWaiters
      <4> QED
        BY <4>1
    <3>4. waiters' \in [Keys -> SUBSET Ids]
      <4>1. waiters' = waiters \/ waiters' = [waiters EXCEPT ![flights[g].key] = {}]
        BY <2>5 DEF Complete, TakeWaiters
      <4> QED
        BY <4>1
    <3> QED
      BY <2>5, <3>2, <3>3, <3>4 DEF Complete
  <2>6. ASSUME NEW i \in Ids, Send(g, i) PROVE T'
    <3>1. call' \in [Callers -> Calls]
      <4>1. ASSUME NEW x \in Calls PROVE [x EXCEPT !.box = g] \in Calls
        BY <4>1, g \in 0 .. MaxId, Zenon DEF Calls
      <4>2. call' = [d \in Callers |-> IF call[d].at = "waiting" /\ call[d].id = i
                                       THEN [call[d] EXCEPT !.box = g] ELSE call[d]]
        BY <2>6 DEF Send
      <4> QED
        BY <4>1, <4>2
    <3>2. flights' \in [Ids -> Flights]
      BY <2>6, ZenonT(30) DEF Send, Flights
    <3> QED
      BY <2>6, <3>1, <3>2 DEF Send
  <2>7. CASE Done(g)
    BY <2>7, Zenon DEF Done, Flights
  <2> QED
    BY <1>3, <2>1, <2>2, <2>3, <2>4, <2>5, <2>6, <2>7 DEF Leader, LeaderStep
<1> QED
  BY <1>2, <1>3 DEF Next
-----------------------------------------------------------------------------
(* Counts.                                                                 *)

\* The sets whose members hold permits are finite, and a caller's or a leader's step
\* adds or removes at most that caller or leader.
LEMMA HoldersFinite ==
  ASSUME TypeOK, IsFiniteSet(Active)
  PROVE  /\ IsFiniteSet(Direct) /\ IsFiniteSet(Reading)
         /\ IsFiniteSet(HoldsJob) /\ IsFiniteSet(Fetching)
<1>1. Direct \subseteq Active /\ Reading \subseteq Active
  BY DEF Direct, Reading, Active
<1>2. HoldsJob \subseteq Ids /\ Fetching \subseteq Ids /\ IsFiniteSet(Ids)
  BY CoordinatorAssumption, FS_Interval DEF HoldsJob, Fetching, Ids
<1> QED
  BY <1>1, <1>2, FS_Subset

LEMMA CountStep == FetchInv /\ Next => IsFiniteSet(Active)' /\ PermitsExact'
<1> SUFFICES ASSUME FetchInv, Next PROVE IsFiniteSet(Active)' /\ PermitsExact'
  OBVIOUS
<1>t. /\ call \in [Callers -> Calls] /\ flights \in [Ids -> Flights]
      /\ MaxCallers \in Nat /\ MaxJobs \in Nat /\ MaxConcurrent \in Nat
  BY CoordinatorAssumption DEF FetchInv, TypeOK
<1>f. /\ IsFiniteSet(Active) /\ IsFiniteSet(Direct) /\ IsFiniteSet(Reading)
      /\ IsFiniteSet(HoldsJob) /\ IsFiniteSet(Fetching)
  BY HoldersFinite DEF FetchInv
<1>n. /\ Cardinality(Active) \in Nat /\ Cardinality(Direct) \in Nat /\ Cardinality(Reading) \in Nat
      /\ Cardinality(HoldsJob) \in Nat /\ Cardinality(Fetching) \in Nat
  BY <1>f, FS_CardinalityType
<1>e. /\ callers = Cardinality(Active) /\ callers <= MaxCallers
      /\ jobs = Cardinality(HoldsJob) + Cardinality(Direct) /\ jobs <= MaxJobs
      /\ permits = Cardinality(Fetching) + Cardinality(Reading) /\ permits <= MaxConcurrent
  BY DEF FetchInv, PermitsExact
<1>2. ASSUME NEW c \in Callers, Caller(c) PROVE IsFiniteSet(Active)' /\ PermitsExact'
  <2>1. ASSUME NEW p \in Paths, NEW k \in Keys, Call(c, p, k)
        PROVE IsFiniteSet(Active)' /\ PermitsExact'
    <3>1. c \notin Active /\ Active' = Active \cup {c}
      BY <1>t, <2>1 DEF Call, Active, Calls
    <3>2. Direct' = Direct /\ Reading' = Reading
      BY <1>t, <2>1 DEF Call, Direct, Reading, Calls
    <3>3. HoldsJob' = HoldsJob /\ Fetching' = Fetching
      BY <2>1 DEF Call, HoldsJob, Fetching, Live
    <3>4. IsFiniteSet(Active') /\ Cardinality(Active') = Cardinality(Active) + 1
      BY <3>1, <1>f, FS_AddElement
    <3> QED
      BY <1>e, <1>n, <1>t, <2>1, <3>2, <3>3, <3>4 DEF Call, PermitsExact
  <2>2. CASE Validate(c) \/ Join(c)
    <3>1. Active' = Active /\ Direct' = Direct /\ Reading' = Reading
      BY <1>t, <2>2 DEF Validate, Join, Active, Direct, Reading, Calls
    <3>2. HoldsJob' = HoldsJob /\ Fetching' = Fetching
      BY <2>2 DEF Validate, Join, HoldsJob, Fetching, Live
    <3> QED
      BY <1>e, <1>f, <2>2, <3>1, <3>2 DEF Validate, Join, PermitsExact
  <2>3. CASE Leave(c) \/ RefuseJoin(c) \/ Receive(c) \/ Drop(c)
    <3>0. /\ Return(c) /\ call[c].at \in {"admitted", "validated", "waiting"}
          /\ jobs' = jobs /\ permits' = permits /\ (flights' = flights \/ Unregister(c))
      BY <2>3 DEF Leave, RefuseJoin, Receive, Drop
    <3>1. c \in Active /\ Active' = Active \ {c}
      BY <1>t, <3>0 DEF Return, Active, Idle
    <3>2. Direct' = Direct /\ Reading' = Reading
      BY <1>t, <3>0 DEF Return, Direct, Reading, Idle
    <3>3. HoldsJob' = HoldsJob /\ Fetching' = Fetching
      <4>1. \A g \in Ids : flights'[g].at = flights[g].at
        BY <1>t, <3>0 DEF Unregister, Flights
      <4> QED
        BY <4>1 DEF HoldsJob, Fetching, Live
    <3>4. IsFiniteSet(Active') /\ Cardinality(Active') = Cardinality(Active) - 1
      BY <3>1, <1>f, FS_RemoveElement
    <3> QED
      BY <1>e, <1>n, <1>t, <3>0, <3>2, <3>3, <3>4 DEF Return, PermitsExact
  <2>4. CASE Start(c)
    <3> DEFINE g == nextId + 2
    <3>0. g \in Ids /\ flights[g].at = "none"
      BY <2>4, CoordinatorAssumption DEF Start, FetchInv, FlightInv, FlightOK, TypeOK, Ids
    <3>1. Active' = Active /\ Direct' = Direct /\ Reading' = Reading
      BY <1>t, <2>4 DEF Start, Active, Direct, Reading, Calls
    <3>2. /\ \A h \in Ids : h # g => flights'[h].at = flights[h].at
          /\ flights'[g].at = "queued"
      BY <1>t, <2>4, <3>0 DEF Start, Flights
    <3>3. g \notin HoldsJob /\ HoldsJob' = HoldsJob \cup {g} /\ Fetching' = Fetching
      BY <3>0, <3>2 DEF HoldsJob, Fetching, Live
    <3>4. Cardinality(HoldsJob') = Cardinality(HoldsJob) + 1
      BY <3>3, <1>f, FS_AddElement, Zenon
    <3> QED
      BY <1>e, <1>f, <1>n, <1>t, <2>4, <3>1, <3>3, <3>4 DEF Start, PermitsExact
  <2>5. CASE LeadDirect(c)
    <3>1. Active' = Active /\ c \notin Direct /\ Direct' = Direct \cup {c} /\ Reading' = Reading
      BY <1>t, <2>5 DEF LeadDirect, Active, Direct, Reading, Calls
    <3>2. HoldsJob' = HoldsJob /\ Fetching' = Fetching
      BY <2>5 DEF LeadDirect, HoldsJob, Fetching, Live
    <3>3. Cardinality(Direct') = Cardinality(Direct) + 1
      BY <3>1, <1>f, FS_AddElement, Zenon
    <3> QED
      BY <1>e, <1>f, <1>n, <1>t, <2>5, <3>1, <3>2, <3>3 DEF LeadDirect, PermitsExact
  <2>6. CASE AcquireDirect(c)
    <3>1. Active' = Active /\ Direct' = Direct /\ c \notin Reading /\ Reading' = Reading \cup {c}
      BY <1>t, <2>6 DEF AcquireDirect, Active, Direct, Reading, Calls
    <3>2. HoldsJob' = HoldsJob /\ Fetching' = Fetching
      BY <2>6 DEF AcquireDirect, HoldsJob, Fetching, Live
    <3>3. Cardinality(Reading') = Cardinality(Reading) + 1
      BY <3>1, <1>f, FS_AddElement, Zenon
    <3> QED
      BY <1>e, <1>f, <1>n, <1>t, <2>6, <3>1, <3>2, <3>3 DEF AcquireDirect, PermitsExact
  <2>7. CASE EndDirect(c)
    <3>1. /\ c \in Active /\ Active' = Active \ {c}
          /\ c \in Direct /\ Direct' = Direct \ {c} /\ Reading' = Reading \ {c}
          /\ c \in Reading <=> call[c].at = "reading"
      BY <1>t, <2>7 DEF EndDirect, Return, Active, Direct, Reading, Idle
    <3>2. HoldsJob' = HoldsJob /\ Fetching' = Fetching
      BY <2>7 DEF EndDirect, HoldsJob, Fetching, Live
    <3>3. /\ IsFiniteSet(Active') /\ Cardinality(Active') = Cardinality(Active) - 1
          /\ Cardinality(Direct') = Cardinality(Direct) - 1
          /\ Cardinality(Reading') = IF call[c].at = "reading" THEN Cardinality(Reading) - 1
                                     ELSE Cardinality(Reading)
      BY <3>1, <1>f, FS_RemoveElement, Zenon
    <3> QED
      BY <1>e, <1>n, <1>t, <2>7, <3>2, <3>3 DEF EndDirect, Return, PermitsExact
  <2> QED
    BY <1>2, <2>1, <2>2, <2>3, <2>4, <2>5, <2>6, <2>7 DEF Caller
<1>3. ASSUME NEW g \in Ids, Leader(g) PROVE IsFiniteSet(Active)' /\ PermitsExact'
  <2>0. Active' = Active /\ Direct' = Direct /\ Reading' = Reading
    <3>1. \A c \in Callers : call'[c].at = call[c].at
      BY <1>3, <1>t DEF Leader, LeaderStep, Acquire, Fetched, Cancelled, Panic, Complete, Send, Done, Calls
    <3> QED
      BY <3>1 DEF Active, Direct, Reading
  <2>1. CASE Acquire(g)
    <3>1. HoldsJob' = HoldsJob /\ g \notin Fetching /\ Fetching' = Fetching \cup {g}
      BY <1>t, <2>1 DEF Acquire, HoldsJob, Fetching, Live, Flights
    <3>2. Cardinality(Fetching') = Cardinality(Fetching) + 1
      BY <3>1, <1>f, FS_AddElement, Zenon
    <3> QED
      BY <1>e, <1>f, <1>n, <1>t, <2>0, <2>1, <3>1, <3>2 DEF Acquire, PermitsExact
  <2>2. CASE Fetched(g) \/ Cancelled(g) \/ Panic(g)
    <3>0. /\ flights[g].at \in {"queued", "fetching"} /\ Release(g) /\ callers' = callers /\ jobs' = jobs
          /\ flights' = [flights EXCEPT ![g].at = "completing"]
      BY <2>2 DEF Fetched, Cancelled, Panic
    <3>1. /\ HoldsJob' = HoldsJob /\ Fetching' = Fetching \ {g}
          /\ g \in Fetching <=> flights[g].at = "fetching"
      BY <1>t, <3>0 DEF HoldsJob, Fetching, Live, Flights
    <3>2. Cardinality(Fetching') = IF flights[g].at = "fetching" THEN Cardinality(Fetching) - 1
                                   ELSE Cardinality(Fetching)
      BY <3>1, <1>f, FS_RemoveElement, Zenon
    <3> QED
      BY <1>e, <1>f, <1>n, <1>t, <2>0, <3>0, <3>1, <3>2 DEF Release, PermitsExact
  <2>3. ASSUME Complete(g) \/ \E i \in Ids : Send(g, i)
        PROVE  IsFiniteSet(Active)' /\ PermitsExact'
    <3>1. HoldsJob' = HoldsJob /\ Fetching' = Fetching
      BY <1>t, <2>3 DEF Complete, TakeWaiters, Send, HoldsJob, Fetching, Live, Flights
    <3> QED
      BY <1>e, <1>f, <2>0, <2>3, <3>1 DEF Complete, Send, PermitsExact
  <2>4. CASE Done(g)
    <3>1. g \in HoldsJob /\ HoldsJob' = HoldsJob \ {g} /\ Fetching' = Fetching
      BY <1>t, <2>4 DEF Done, HoldsJob, Fetching, Live, Flights
    <3>2. Cardinality(HoldsJob') = Cardinality(HoldsJob) - 1
      BY <3>1, <1>f, FS_RemoveElement, Zenon
    <3> QED
      BY <1>e, <1>f, <1>n, <1>t, <2>0, <2>4, <3>1, <3>2 DEF Done, PermitsExact
  <2> QED
    BY <1>3, <2>1, <2>2, <2>3, <2>4 DEF Leader, LeaderStep
<1> QED
  BY <1>2, <1>3 DEF Next
-----------------------------------------------------------------------------
(* The map, its flights and its waiters.                                   *)

MapInv == CallerInv /\ FlightInv /\ EntryInv /\ WaitersServed

\* What a caller does before it is registered, and without metadata pages, concerns
\* neither the map nor any waiter.
LEMMA OffMapStep ==
  ASSUME FetchInv, NEW c \in Callers,
         \/ \E p \in Paths, k \in Keys : Call(c, p, k)
         \/ Validate(c) \/ Leave(c) \/ RefuseJoin(c)
         \/ LeadDirect(c) \/ AcquireDirect(c) \/ EndDirect(c)
  PROVE  MapInv'
<1>t. /\ call \in [Callers -> Calls] /\ flights \in [Ids -> Flights]
      /\ entries \in [Keys -> 0 .. MaxId] /\ waiters \in [Keys -> SUBSET Ids] /\ nextId \in 0 .. MaxId
      /\ MaxId \in Nat
  BY CoordinatorAssumption DEF FetchInv, TypeOK
<1>m. CallerInv /\ FlightInv /\ EntryInv /\ NoLostWaiter /\ NeededNotCancelled
  BY DEF FetchInv, WaitersServed
<1>1. /\ entries' = entries /\ waiters' = waiters /\ flights' = flights
      /\ nextId' \in {nextId, nextId + 1}
  BY Zenon DEF Call, Validate, Leave, RefuseJoin, LeadDirect, AcquireDirect, EndDirect
<1>2. \A d \in Callers : d # c => call'[d] = call[d]
  BY <1>t, Zenon DEF Call, Validate, Leave, RefuseJoin, LeadDirect, AcquireDirect, EndDirect, Return
<1>3. call[c].at # "waiting" /\ call'[c].at # "waiting" /\ call'[c].box = 0
  <2>1. call[c].at # "waiting"
    BY Zenon DEF Call, Validate, Leave, RefuseJoin, LeadDirect, AcquireDirect, EndDirect
  <2>2. call'[c].at # "waiting" /\ call'[c].box \in {0, call[c].box}
    <3>1. CASE Leave(c) \/ RefuseJoin(c) \/ EndDirect(c)
      BY <3>1, <1>t DEF Leave, RefuseJoin, EndDirect, Return, Idle
    <3>2. CASE Validate(c) \/ LeadDirect(c) \/ AcquireDirect(c)
      BY <3>2, <1>t DEF Validate, LeadDirect, AcquireDirect, Calls
    <3>3. ASSUME NEW p \in Paths, NEW k \in Keys, Call(c, p, k)
          PROVE  call'[c].at # "waiting" /\ call'[c].box \in {0, call[c].box}
      BY <3>3, <1>t, Zenon DEF Call, Calls
    <3> QED
      BY <3>1, <3>2, <3>3
  <2> QED
    BY <1>m, <2>1, <2>2 DEF CallerInv, CallerOK
<1>4. call'[c].at = "validated" => call'[c].key = Members[call'[c].path]
  <2>1. CASE Leave(c) \/ RefuseJoin(c) \/ EndDirect(c)
    BY <2>1, <1>t DEF Leave, RefuseJoin, EndDirect, Return, Idle
  <2>2. CASE Validate(c) \/ LeadDirect(c) \/ AcquireDirect(c)
    BY <2>2, <1>t DEF Validate, LeadDirect, AcquireDirect, Calls
  <2>3. ASSUME NEW p \in Paths, NEW k \in Keys, Call(c, p, k) PROVE call'[c].at # "validated"
    BY <2>3, <1>t, Zenon DEF Call, Calls
  <2> QED
    BY <2>1, <2>2, <2>3
<1>5. CallerInv'
  BY <1>t, <1>m, <1>1, <1>2, <1>3, <1>4, SMTT(30) DEF CallerInv, CallerOK, Calls
<1>6. FlightInv'
  <2>0. nextId' \in Nat /\ nextId <= nextId'
    BY <1>t, <1>1
  <2>1. \A g \in Ids : g > nextId' => flights[g].at = "none"
    BY <1>t, <1>m, <2>0 DEF FlightInv, FlightOK, Ids
  <2>2. \A g \in Ids : \A i \in flights[g].todo : i <= nextId'
    BY <1>t, <1>m, <1>1 DEF FlightInv, FlightOK, Ids, Flights
  <2> QED
    BY <1>m, <1>1, <1>2, <1>3, <2>1, <2>2 DEF FlightInv, FlightOK, Live
<1>7. EntryInv'
  <2>1. \A k \in Keys : \A i \in waiters[k] : i <= nextId'
    BY <1>t, <1>m, <1>1 DEF EntryInv, EntryOK, Ids
  <2> QED
    BY <1>m, <1>1, <1>2, <1>3, <2>1 DEF EntryInv, EntryOK, Live
<1>8. WaitersServed'
  BY <1>t, <1>m, <1>1, <1>2, <1>3 DEF WaitersServed, NoLostWaiter, NeededNotCancelled, Waits, Live
<1> QED
  BY <1>5, <1>6, <1>7, <1>8 DEF MapInv

\* A leader that has not completed stays live and stays its key's entry.
LEMMA LeaderMapStep ==
  ASSUME FetchInv, NEW g \in Ids,
         Acquire(g) \/ Fetched(g) \/ Cancelled(g) \/ Panic(g)
  PROVE  MapInv'
<1>t. /\ call \in [Callers -> Calls] /\ flights \in [Ids -> Flights]
      /\ entries \in [Keys -> 0 .. MaxId] /\ waiters \in [Keys -> SUBSET Ids] /\ nextId \in 0 .. MaxId
      /\ MaxId \in Nat
  BY CoordinatorAssumption DEF FetchInv, TypeOK
<1>m. CallerInv /\ FlightInv /\ EntryInv /\ NoLostWaiter /\ NeededNotCancelled
  BY DEF FetchInv, WaitersServed
<1>1. call' = call /\ entries' = entries /\ waiters' = waiters /\ nextId' = nextId
  BY DEF Acquire, Fetched, Cancelled, Panic
<1>2. \A h \in Ids : h # g => flights'[h] = flights[h]
  BY <1>t DEF Acquire, Fetched, Cancelled, Panic
<1>3. /\ flights'[g].key = flights[g].key /\ flights'[g].cancel = flights[g].cancel
      /\ flights'[g].todo = flights[g].todo
      /\ flights[g].at \in {"queued", "fetching"} /\ flights'[g].at \in {"fetching", "completing"}
  BY <1>t DEF Acquire, Fetched, Cancelled, Panic, Flights
<1>4. \A h \in Ids : /\ Live(h)' <=> Live(h)
                     /\ flights'[h].key = flights[h].key /\ flights'[h].cancel = flights[h].cancel
                     /\ flights'[h].todo = flights[h].todo
                     /\ flights'[h].at = "none" <=> flights[h].at = "none"
                     /\ flights'[h].at = "sending" <=> flights[h].at = "sending"
  BY <1>2, <1>3 DEF Live
<1>5. CallerInv'
  <2>1. \A d \in Callers : call[d].at = "waiting" => call[d].flight \in Ids
    BY <1>t, <1>m DEF CallerInv, CallerOK, Ids
  <2> QED
    BY <1>m, <1>1, <1>4, <2>1 DEF CallerInv, CallerOK
<1>6. FlightInv'
  BY <1>t, <1>m, <1>1, <1>4 DEF FlightInv, FlightOK
<1>7. EntryInv'
  <2> SUFFICES ASSUME NEW k \in Keys PROVE EntryOK(k)'
    BY DEF EntryInv
  <2> USE DEF EntryOK
  <2>1. entries[k] # 0 => entries[k] \in Ids
    BY <1>t DEF Ids
  <2> QED
    BY <1>m, <1>1, <1>4, <2>1 DEF EntryInv, EntryOK, Live
<1>8. WaitersServed'
  <2> SUFFICES ASSUME NEW c \in Callers, Waits(c)
               PROVE  /\ ~flights'[call[c].flight].cancel
                      /\ \/ entries[call[c].key] = call[c].flight /\ call[c].id \in waiters[call[c].key]
                            /\ flights'[call[c].flight].at \in {"queued", "fetching", "completing"}
                         \/ flights'[call[c].flight].at = "sending"
                            /\ call[c].id \in flights'[call[c].flight].todo
    BY <1>1 DEF WaitersServed, NoLostWaiter, NeededNotCancelled, Waits, Live
  <2>1. call[c].flight \in Ids
    BY <1>t, <1>m DEF CallerInv, CallerOK, Waits, Ids
  <2> QED
    BY <1>m, <1>4, <2>1 DEF NoLostWaiter, NeededNotCancelled, Live
<1> QED
  BY <1>5, <1>6, <1>7, <1>8 DEF MapInv

\* A caller that joins has an identity of its own and waits for the entry's flight.
LEMMA JoinMapStep == ASSUME FetchInv, NEW c \in Callers, Join(c) PROVE MapInv'
<1>t. /\ call \in [Callers -> Calls] /\ flights \in [Ids -> Flights]
      /\ entries \in [Keys -> 0 .. MaxId] /\ waiters \in [Keys -> SUBSET Ids] /\ nextId \in 0 .. MaxId
      /\ MaxId \in Nat
  BY CoordinatorAssumption DEF FetchInv, TypeOK
<1>m. CallerInv /\ FlightInv /\ EntryInv /\ NoLostWaiter /\ NeededNotCancelled
  BY DEF FetchInv, WaitersServed
<1> DEFINE k == call[c].key
           i == nextId + 1
<1>1. /\ k \in Keys /\ k = Members[call[c].path] /\ entries[k] \in Ids /\ i \in Ids
      /\ call[c].at = "validated" /\ call[c].box = 0
  BY <1>t, <1>m DEF Join, CallerInv, CallerOK, Calls, Ids
<1>2. entries' = entries /\ flights' = flights /\ nextId' = i
  BY DEF Join
<1>3. /\ \A d \in Callers : d # c => call'[d] = call[d]
      /\ call'[c].at = "waiting" /\ call'[c].flight = entries[k] /\ call'[c].id = i
      /\ call'[c].key = k /\ call'[c].path = call[c].path /\ call'[c].box = 0
  BY <1>t, <1>1 DEF Join, Calls
<1>4. \A l \in Keys : waiters'[l] = IF l = k THEN waiters[k] \cup {i} ELSE waiters[l]
  BY <1>t, <1>1 DEF Join
<1>5. /\ Live(entries[k]) /\ ~flights[entries[k]].cancel /\ flights[entries[k]].key = k
      /\ entries[k] <= nextId
  <2>1. EntryOK(k) /\ FlightOK(entries[k]) /\ entries[k] # 0
    BY <1>m, <1>1 DEF EntryInv, FlightInv, Ids
  <2>2. Live(entries[k]) /\ ~flights[entries[k]].cancel /\ flights[entries[k]].key = k
    BY <2>1 DEF EntryOK
  <2>3. ~(entries[k] > nextId)
    BY <2>1, <2>2 DEF FlightOK, Live
  <2>4. entries[k] \in Nat /\ nextId \in Nat
    BY <1>t, <1>1 DEF Ids
  <2> HIDE DEF k
  <2> QED BY <2>2, <2>3, <2>4
<1>6. ASSUME NEW d \in Callers, call[d].at = "waiting"
      PROVE  call[d].id \in 1 .. nextId /\ call[d].id # i /\ call[d].flight \in 1 .. nextId
  <2>1. call[d].id \in 1 .. nextId /\ call[d].flight \in 1 .. nextId
    BY <1>m, <1>6 DEF CallerInv, CallerOK
  <2> QED BY <1>t, <2>1
<1>7. CallerInv'
  <2> SUFFICES ASSUME NEW d \in Callers PROVE CallerOK(d)'
    BY DEF CallerInv
  <2>1. CASE d = c
    <3>1. i \in 1 .. nextId' /\ entries[k] \in 1 .. nextId'
      BY <1>t, <1>1, <1>2, <1>5 DEF Ids
    <3>2. flights'[entries[k]].at # "none" /\ flights'[entries[k]].key = k
      BY <1>2, <1>5 DEF Live
    <3>3. \A e \in Callers : call'[e].at = "waiting" /\ call'[e].id = i => e = c
      BY <1>3, <1>6
    <3> HIDE DEF i, k
    <3> QED
      BY <2>1, <1>1, <1>3, <3>1, <3>2, <3>3 DEF CallerOK
  <2>2. CASE d # c
    <3>1. CallerOK(d) /\ call'[d] = call[d]
      BY <1>m, <1>3, <2>2 DEF CallerInv
    <3>2. call[d].at = "waiting" =>
            /\ call[d].id \in 1 .. nextId' /\ call[d].flight \in 1 .. nextId'
            /\ call[d].id # i
      BY <1>t, <1>2, <1>6
    <3>3. \A e \in Callers :
            call[d].at = "waiting" /\ call'[e].at = "waiting" /\ call'[e].id = call[d].id => e = d
      BY <1>3, <3>1, <3>2 DEF CallerOK
    <3> HIDE DEF i
    <3> QED BY <1>2, <3>1, <3>2, <3>3 DEF CallerOK
  <2> QED
    BY <2>1, <2>2
<1>8. FlightInv'
  <2>1. \A g \in Ids : \A x \in flights[g].todo : x \in Nat /\ x <= nextId
    BY <1>t, <1>m DEF FlightInv, FlightOK, Ids, Flights
  <2>2. \A g \in Ids : g > nextId' => flights[g].at = "none"
    BY <1>t, <1>m, <1>2 DEF FlightInv, FlightOK, Ids
  <2>3. \A g \in Ids : \A x \in flights[g].todo :
          x <= nextId' /\ \A d \in Callers : call'[d].at = "waiting" /\ call'[d].id = x => call'[d].flight = g
    BY <1>t, <1>m, <1>2, <1>3, <2>1 DEF FlightInv, FlightOK
  <2> QED
    BY <1>m, <1>2, <2>2, <2>3 DEF FlightInv, FlightOK, Live
<1>9. EntryInv'
  <2>1. \A l \in Keys : \A x \in waiters[l] : x \in Nat /\ x <= nextId
    BY <1>t, <1>m DEF EntryInv, EntryOK, Ids
  <2>2. ASSUME NEW l \in Keys, NEW x \in waiters'[l]
        PROVE  x <= nextId' /\ \A d \in Callers : call'[d].at = "waiting" /\ call'[d].id = x
                                                    => call'[d].flight = entries[l]
    <3>1. CASE x \in waiters[l]
      BY <3>1, <1>t, <1>m, <1>2, <1>3, <2>1 DEF EntryInv, EntryOK
    <3>2. CASE l = k /\ x = i
      BY <3>2, <1>t, <1>2, <1>3, <1>6
    <3> QED
      BY <1>4, <2>2, <3>1, <3>2
  <2>3. \A l \in Keys : entries[l] = 0 => waiters'[l] = {}
    BY <1>m, <1>1, <1>4, 0 \notin Ids DEF EntryInv, EntryOK, Ids
  <2> QED
    BY <1>m, <1>2, <2>2, <2>3 DEF EntryInv, EntryOK, Live
<1>10. WaitersServed'
  <2> SUFFICES ASSUME NEW d \in Callers, call'[d].at = "waiting", call'[d].box = 0
               PROVE  /\ ~flights[call'[d].flight].cancel
                      /\ \/ /\ entries[call'[d].key] = call'[d].flight
                            /\ call'[d].id \in waiters'[call'[d].key]
                            /\ Live(call'[d].flight)
                         \/ flights[call'[d].flight].at = "sending"
                            /\ call'[d].id \in flights[call'[d].flight].todo
    BY <1>2 DEF WaitersServed, NoLostWaiter, NeededNotCancelled, Waits, Live
  <2>1. CASE d = c
    BY <2>1, <1>1, <1>3, <1>4, <1>5
  <2>2. CASE d # c
    <3>1. call[d].key \in Keys /\ waiters[call[d].key] \subseteq waiters'[call[d].key]
      BY <1>t, <1>4 DEF Calls
    <3> QED
      BY <2>2, <3>1, <1>m, <1>3 DEF NoLostWaiter, NeededNotCancelled, Waits
  <2> QED
    BY <2>1, <2>2
<1> QED
  BY <1>7, <1>8, <1>9, <1>10 DEF MapInv

\* A caller that starts a flight makes it the entry of its key; no other flight for the
\* key is live and wanted, because there was no entry.
LEMMA StartMapStep == ASSUME FetchInv, NEW c \in Callers, Start(c) PROVE MapInv'
<1>t. /\ call \in [Callers -> Calls] /\ flights \in [Ids -> Flights]
      /\ entries \in [Keys -> 0 .. MaxId] /\ waiters \in [Keys -> SUBSET Ids] /\ nextId \in 0 .. MaxId
      /\ MaxId \in Nat
  BY CoordinatorAssumption DEF FetchInv, TypeOK
<1>m. CallerInv /\ FlightInv /\ EntryInv /\ NoLostWaiter /\ NeededNotCancelled
  BY DEF FetchInv, WaitersServed
<1> DEFINE k == call[c].key
           i == nextId + 1
           f == nextId + 2
<1>1. /\ k \in Keys /\ k = Members[call[c].path] /\ entries[k] = 0 /\ i \in Ids /\ f \in Ids
      /\ call[c].at = "validated" /\ call[c].box = 0
  BY <1>t, <1>m DEF Start, CallerInv, CallerOK, Calls, Ids
<1>2. nextId' = f
  BY DEF Start
<1>3. /\ \A d \in Callers : d # c => call'[d] = call[d]
      /\ call'[c].at = "waiting" /\ call'[c].flight = f /\ call'[c].id = i
      /\ call'[c].key = k /\ call'[c].path = call[c].path /\ call'[c].box = 0
  BY <1>t, <1>1 DEF Start, Calls
<1>4. \A l \in Keys : /\ waiters'[l] = IF l = k THEN {i} ELSE waiters[l]
                      /\ entries'[l] = IF l = k THEN f ELSE entries[l]
  BY <1>t, <1>1 DEF Start
<1>5. /\ flights[f].at = "none" /\ ~flights[f].cancel /\ flights[f].todo = {}
      /\ \A g \in Ids : g > nextId => flights[g].at = "none"
  BY <1>t, <1>m, <1>1 DEF FlightInv, FlightOK, Ids
<1>6. /\ \A g \in Ids : g # f => flights'[g] = flights[g]
      /\ flights'[f].at = "queued" /\ flights'[f].key = k
      /\ ~flights'[f].cancel /\ flights'[f].todo = {}
  BY <1>t, <1>1, <1>5 DEF Start, Flights
<1>7. \A d \in Callers : call[d].at = "waiting" =>
        /\ call[d].id \in 1 .. nextId /\ call[d].id # i
        /\ call[d].flight \in 1 .. nextId /\ call[d].flight \in Ids /\ call[d].flight # f
  BY <1>t, <1>m DEF CallerInv, CallerOK, Ids
<1>8. \A g \in Ids : Live(g) /\ ~flights[g].cancel => flights[g].key # k
  BY <1>m, <1>1 DEF FlightInv, FlightOK, Ids
<1>9. CallerInv'
  <2> SUFFICES ASSUME NEW d \in Callers PROVE CallerOK(d)'
    BY DEF CallerInv
  <2> USE DEF CallerOK
  <2>1. CASE d = c
    BY <2>1, <1>t, <1>1, <1>2, <1>3, <1>6, <1>7 DEF Ids
  <2>2. CASE d # c
    BY <2>2, <1>t, <1>m, <1>2, <1>3, <1>6, <1>7 DEF CallerInv, CallerOK
  <2> QED
    BY <2>1, <2>2
<1>10. FlightInv'
  <2>1. \A g \in Ids : \A x \in flights[g].todo : x \in Nat /\ x <= nextId
    BY <1>t, <1>m DEF FlightInv, FlightOK, Ids, Flights
  <2>2. \A g \in Ids : g > nextId' => flights'[g].at = "none"
    BY <1>t, <1>2, <1>5, <1>6 DEF Ids
  <2>3. \A g \in Ids : \A x \in flights'[g].todo :
          x <= nextId' /\ \A d \in Callers : call'[d].at = "waiting" /\ call'[d].id = x => call'[d].flight = g
    BY <1>t, <1>m, <1>2, <1>3, <1>6, <2>1 DEF FlightInv, FlightOK
  <2>4. \A g \in Ids : flights'[g].at \in {"queued", "fetching", "completing"} /\ ~flights'[g].cancel
                         => entries'[flights'[g].key] = g
    <3>1. \A g \in Ids : g # f => flights[g].key \in Keys
      BY <1>t DEF Flights
    <3> QED
      BY <1>m, <1>1, <1>4, <1>6, <1>8, <3>1 DEF FlightInv, FlightOK, Live
  <2> QED
    BY <1>m, <1>6, <2>2, <2>3, <2>4 DEF FlightInv, FlightOK, Live
<1>11. EntryInv'
  <2>1. \A l \in Keys : \A x \in waiters[l] : x \in Nat /\ x <= nextId
    BY <1>t, <1>m DEF EntryInv, EntryOK, Ids
  <2> SUFFICES ASSUME NEW l \in Keys PROVE EntryOK(l)'
    BY DEF EntryInv
  <2> USE DEF EntryOK
  <2>2. CASE l = k
    <3>1. entries'[k] = f /\ waiters'[k] = {i} /\ f # 0 /\ i <= f
      BY <1>t, <1>1, <1>4 DEF Ids
    <3>2. \A d \in Callers : call'[d].at = "waiting" /\ call'[d].id = i => call'[d].flight = f
      BY <1>3, <1>7
    <3> HIDE DEF i, f, k
    <3> QED
      BY <2>2, <3>1, <3>2, <1>2, <1>6 DEF Live
  <2>3. CASE l # k
    <3>1. entries[l] # 0 => entries[l] \in Ids /\ entries[l] # f
        <4>1. entries[l] # 0 => entries[l] \in Ids /\ Live(entries[l])
        BY <1>t, <1>m DEF EntryInv, EntryOK, Ids
      <4> QED
        BY <4>1, <1>5 DEF Live
    <3>2. \A x \in waiters[l] : x <= nextId' /\ x # i
      BY <1>t, <1>2, <2>1
    <3> QED
      <4>1. EntryOK(l) /\ entries'[l] = entries[l] /\ waiters'[l] = waiters[l]
        BY <2>3, <1>m, <1>4 DEF EntryInv
      <4>2. \A x \in waiters[l] : \A d \in Callers :
              call'[d].at = "waiting" /\ call'[d].id = x => call'[d].flight = entries[l]
        BY <4>1, <3>2, <1>3 DEF EntryOK
      <4>3. entries[l] # 0 => flights'[entries[l]] = flights[entries[l]]
        BY <3>1, <1>6
      <4> HIDE DEF i, f, k
      <4> QED
        BY <4>1, <4>2, <4>3, <3>2 DEF EntryOK, Live
  <2> QED
    BY <2>2, <2>3
<1>12. WaitersServed'
  <2> SUFFICES ASSUME NEW d \in Callers, call'[d].at = "waiting", call'[d].box = 0
               PROVE  /\ ~flights'[call'[d].flight].cancel
                      /\ \/ /\ entries'[call'[d].key] = call'[d].flight
                            /\ call'[d].id \in waiters'[call'[d].key]
                            /\ flights'[call'[d].flight].at \in {"queued", "fetching", "completing"}
                         \/ flights'[call'[d].flight].at = "sending"
                            /\ call'[d].id \in flights'[call'[d].flight].todo
    BY DEF WaitersServed, NoLostWaiter, NeededNotCancelled, Waits, Live
  <2>1. CASE d = c
    BY <2>1, <1>1, <1>3, <1>4, <1>6
  <2>2. CASE d # c
    <3>1. call[d].key \in Keys /\ call[d].flight \in Ids /\ call[d].flight # f
      BY <2>2, <1>t, <1>3, <1>7 DEF Calls
    <3>2. entries[call[d].key] = call[d].flight => call[d].key # k
      BY <3>1, <1>1 DEF Ids
    <3> QED
      BY <2>2, <3>1, <3>2, <1>m, <1>3, <1>4, <1>6 DEF NoLostWaiter, NeededNotCancelled, Waits, Live
  <2> QED
    BY <2>1, <2>2
<1> QED
  BY <1>9, <1>10, <1>11, <1>12 DEF MapInv

\* A waiter that leaves, with its answer or without: when it is the last one of the
\* entry's flight, nobody else waits for that flight, so that its cancellation takes
\* nothing from anybody.
LEMMA LeaveMapStep == ASSUME FetchInv, NEW c \in Callers, Receive(c) \/ Drop(c) PROVE MapInv'
<1>t. /\ call \in [Callers -> Calls] /\ flights \in [Ids -> Flights]
      /\ entries \in [Keys -> 0 .. MaxId] /\ waiters \in [Keys -> SUBSET Ids] /\ nextId \in 0 .. MaxId
      /\ MaxId \in Nat
  BY CoordinatorAssumption DEF FetchInv, TypeOK
<1>m. CallerInv /\ FlightInv /\ EntryInv /\ NoLostWaiter /\ NeededNotCancelled
  BY DEF FetchInv, WaitersServed
<1> DEFINE k == call[c].key
           f == call[c].flight
           left == waiters[k] \ {call[c].id}
           last == entries[k] = f /\ left = {}
<1>0. Unregister(c) /\ Return(c) /\ nextId' = nextId /\ call[c].at = "waiting"
  BY DEF Receive, Drop
<1>1. k \in Keys /\ f \in Ids /\ flights[f].key = k
  BY <1>t, <1>m, <1>0 DEF CallerInv, CallerOK, Calls, Ids
<1>2. /\ \A d \in Callers : d # c => call'[d] = call[d]
      /\ call'[c].at = "idle" /\ call'[c].box = 0
  BY <1>t, <1>0 DEF Return, Idle
<1>3. \A l \in Keys : /\ waiters'[l] = IF l = k /\ entries[k] = f THEN left ELSE waiters[l]
                      /\ entries'[l] = IF l = k /\ last THEN 0 ELSE entries[l]
  BY <1>t, <1>0, <1>1, Zenon DEF Unregister
<1>4. /\ \A g \in Ids : g # f => flights'[g] = flights[g]
      /\ flights'[f].at = flights[f].at /\ flights'[f].key = k /\ flights'[f].todo = flights[f].todo
      /\ last => flights'[f].cancel
      /\ ~last => flights'[f].cancel = flights[f].cancel
  <2>1. CASE last
    <3>1. flights' = [flights EXCEPT ![f].cancel = TRUE]
      BY <2>1, <1>0 DEF Unregister
    <3>2. flights'[f] = [flights[f] EXCEPT !.cancel = TRUE] /\ \A g \in Ids : g # f => flights'[g] = flights[g]
      BY <3>1, <1>t, <1>1, Zenon
    <3>3. flights[f] \in Flights
      BY <1>t, <1>1
    <3>4. /\ flights'[f].at = flights[f].at /\ flights'[f].key = k /\ flights'[f].todo = flights[f].todo
      BY <3>2, <3>3, <1>1 DEF Flights
    <3>5. flights'[f].cancel = TRUE
      BY <3>2, <3>3 DEF Flights
    <3> QED
      BY <2>1, <3>2, <3>4, <3>5, Zenon
  <2>2. CASE ~last
    <3>1. flights' = flights
      BY <2>2, <1>0 DEF Unregister
    <3> QED
      BY <2>2, <3>1, <1>1
  <2> QED
    BY <2>1, <2>2, Zenon
<1>5. last => \A d \in Callers : d # c /\ Waits(d) => call[d].flight # f
  <2> SUFFICES ASSUME last, NEW d \in Callers, d # c, Waits(d), call[d].flight = f PROVE FALSE
    OBVIOUS
  <2>1. call[d].key = k /\ call[d].id # call[c].id
    BY <1>m, <1>0, <1>1 DEF CallerInv, CallerOK, Waits
  <2>2. flights[f].at # "sending"
    BY <1>m, <1>1 DEF EntryInv, EntryOK, Live, Ids
  <2> QED
    BY <1>m, <2>1, <2>2 DEF NoLostWaiter
<1>6. CallerInv'
  <2>1. \A g \in Ids : flights'[g].at = flights[g].at /\ flights'[g].key = flights[g].key
    BY <1>1, <1>4
  <2>2. \A d \in Callers : call[d].at = "waiting" => call[d].flight \in Ids
    BY <1>t, <1>m DEF CallerInv, CallerOK, Ids
  <2> QED
    BY <1>m, <1>0, <1>2, <2>1, <2>2 DEF CallerInv, CallerOK
<1>7. FlightInv'
  <2> SUFFICES ASSUME NEW g \in Ids PROVE FlightOK(g)'
    BY DEF FlightInv
  <2> USE DEF FlightOK
  <2>1. flights[f].at # "none"
    BY <1>m, <1>0 DEF CallerInv, CallerOK
  <2>2. flights[g].key \in Keys
    BY <1>t DEF Flights
  <2>3. flights'[g].todo = flights[g].todo /\ flights'[g].at = flights[g].at
        /\ flights'[g].key = flights[g].key
    BY <1>1, <1>4
  <2>4. flights'[g].at \in {"queued", "fetching", "completing"} /\ ~flights'[g].cancel
          => entries'[flights'[g].key] = g
    <3> SUFFICES ASSUME flights[g].at \in {"queued", "fetching", "completing"}, ~flights'[g].cancel
                 PROVE  entries'[flights[g].key] = g
      BY <2>3
    <3>1. ~flights[g].cancel /\ ~(last /\ g = f)
      BY <1>1, <1>4
    <3>2. entries[flights[g].key] = g
      BY <1>m, <3>1 DEF FlightInv, FlightOK, Live
    <3> QED
      BY <1>1, <1>3, <2>2, <3>1, <3>2
  <2> QED
    <3>1. FlightOK(g)
      BY <1>m DEF FlightInv
    <3>2. flights'[g].at = "none" => ~flights'[g].cancel
      BY <3>1, <1>4, <2>1, <2>3 DEF FlightOK
    <3>3. \A x \in flights[g].todo : \A d \in Callers :
            call'[d].at = "waiting" /\ call'[d].id = x => call'[d].flight = g
      BY <3>1, <1>2 DEF FlightOK
    <3> QED
      BY <3>1, <3>2, <3>3, <1>0, <2>3, <2>4 DEF FlightOK, Live
<1>8. EntryInv'
  <2> SUFFICES ASSUME NEW l \in Keys PROVE EntryOK(l)'
    BY DEF EntryInv
  <2> USE DEF EntryOK
  <2>1. entries[l] # 0 => entries[l] \in Ids
    BY <1>t DEF Ids
  <2>2. CASE l = k /\ entries[k] = f
    <3>1. waiters'[l] = left /\ entries'[l] = IF left = {} THEN 0 ELSE f
      BY <2>2, <1>3
    <3>2. f # 0 /\ Live(f) /\ ~flights[f].cancel
      BY <2>2, <1>m, <1>1 DEF EntryInv, EntryOK, Ids
    <3>3. \A i \in left : /\ i <= nextId
                          /\ \A d \in Callers : call[d].at = "waiting" /\ call[d].id = i => call[d].flight = f
      BY <2>2, <1>m, <1>1 DEF EntryInv, EntryOK
    <3>4. CASE left = {}
      BY <3>1, <3>4
    <3>5. CASE left # {}
      <4>1. entries'[l] = f /\ waiters'[l] = left /\ nextId' = nextId
        BY <1>0, <3>1, <3>5
      <4>2. flights'[f].at = flights[f].at /\ flights'[f].key = l /\ ~flights'[f].cancel
        BY <1>4, <2>2, <3>2, <3>5
      <4>3. \A d \in Callers : call'[d].at = "waiting" => call'[d] = call[d]
        BY <1>2
      <4> HIDE DEF k, f, left, last
      <4> QED BY <3>2, <3>3, <4>1, <4>2, <4>3 DEF Live
    <3> QED
      BY <3>4, <3>5
  <2>3. CASE ~(l = k /\ entries[k] = f)
    <3>1. entries'[l] = entries[l] /\ waiters'[l] = waiters[l]
      BY <2>3, <1>3
    <3>2. entries[l] # 0 => entries[l] # f
      BY <2>3, <1>m, <1>1, SMTT(30) DEF EntryInv, EntryOK
    <3>3. \A d \in Callers : call'[d].at = "waiting" => call'[d] = call[d]
      BY <1>2
    <3>4. entries[l] # 0 => flights'[entries[l]] = flights[entries[l]]
      BY <1>4, <2>1, <3>2
    <3>5. EntryOK(l) /\ nextId' = nextId
      BY <1>0, <1>m DEF EntryInv
    <3> HIDE DEF k, f, left, last
    <3> QED
      BY <3>1, <3>3, <3>4, <3>5 DEF EntryOK, Live
  <2> QED
    BY <2>2, <2>3
<1>9. WaitersServed'
  <2> SUFFICES ASSUME NEW d \in Callers, call'[d].at = "waiting", call'[d].box = 0
               PROVE  /\ ~flights'[call'[d].flight].cancel
                      /\ \/ /\ entries'[call'[d].key] = call'[d].flight
                            /\ call'[d].id \in waiters'[call'[d].key]
                            /\ flights'[call'[d].flight].at \in {"queued", "fetching", "completing"}
                         \/ flights'[call'[d].flight].at = "sending"
                            /\ call'[d].id \in flights'[call'[d].flight].todo
    BY DEF WaitersServed, NoLostWaiter, NeededNotCancelled, Waits, Live
  <2>1. d # c /\ call'[d] = call[d] /\ Waits(d)
    BY <1>2 DEF Waits
  <2>2. /\ call[d].key \in Keys /\ call[d].flight \in Ids /\ call[d].id # call[c].id
        /\ flights[call[d].flight].key = call[d].key
    BY <2>1, <1>t, <1>m, <1>0 DEF CallerInv, CallerOK, Calls, Ids, Waits
  <2>3. last => call[d].flight # f
    BY <1>5, <2>1
  <2>4. ~flights'[call[d].flight].cancel
    BY <1>m, <1>1, <1>4, <2>1, <2>2, <2>3 DEF NeededNotCancelled
  <2>5. CASE entries[call[d].key] = call[d].flight /\ call[d].id \in waiters[call[d].key] /\ Live(call[d].flight)
    <3>1. entries'[call[d].key] = entries[call[d].key] /\ call[d].id \in waiters'[call[d].key]
      BY <1>3, <2>2, <2>3, <2>5
    <3>2. flights'[call[d].flight].at = flights[call[d].flight].at
      BY <1>4, <2>2
    <3> HIDE DEF k, f, left, last
    <3> QED BY <2>1, <2>4, <2>5, <3>1, <3>2 DEF Live
  <2>6. CASE flights[call[d].flight].at = "sending" /\ call[d].id \in flights[call[d].flight].todo
    BY <2>6, <2>1, <2>2, <2>4, <1>1, <1>4
  <2> QED
    BY <2>1, <2>5, <2>6, <1>m DEF NoLostWaiter
<1> QED
  BY <1>6, <1>7, <1>8, <1>9 DEF MapInv

\* A leader that completes takes the waiters of its entry, and nobody else's: an entry
\* that a newer flight has taken is left alone.
LEMMA CompleteMapStep == ASSUME FetchInv, NEW g \in Ids, Complete(g) PROVE MapInv'
<1>t. /\ call \in [Callers -> Calls] /\ flights \in [Ids -> Flights]
      /\ entries \in [Keys -> 0 .. MaxId] /\ waiters \in [Keys -> SUBSET Ids] /\ nextId \in 0 .. MaxId
      /\ MaxId \in Nat
  BY CoordinatorAssumption DEF FetchInv, TypeOK
<1>m. CallerInv /\ FlightInv /\ EntryInv /\ NoLostWaiter /\ NeededNotCancelled
  BY DEF FetchInv, WaitersServed
<1> DEFINE k == flights[g].key
           mine == entries[k] = g
<1>1. call' = call /\ nextId' = nextId /\ flights[g].at = "completing" /\ TakeWaiters(g)
  BY DEF Complete
<1>2. k \in Keys /\ flights[g].todo = {} /\ g # 0
  BY <1>t, <1>m, <1>1 DEF FlightInv, FlightOK, Flights, Ids
<1>3. \A l \in Keys : /\ waiters'[l] = IF l = k /\ mine THEN {} ELSE waiters[l]
                      /\ entries'[l] = IF l = k /\ mine THEN 0 ELSE entries[l]
  BY <1>t, <1>1, <1>2, Zenon DEF TakeWaiters
<1>4. /\ \A h \in Ids : h # g => flights'[h] = flights[h]
      /\ flights'[g].at = "sending" /\ flights'[g].key = k /\ flights'[g].cancel = flights[g].cancel
      /\ flights'[g].todo = IF mine THEN waiters[k] ELSE {}
  <2>1. CASE mine
    BY <2>1, <1>t, <1>1, <1>2 DEF TakeWaiters, Flights
  <2>2. CASE ~mine
    BY <2>2, <1>t, <1>1, <1>2 DEF TakeWaiters, Flights
  <2> QED
    BY <2>1, <2>2
<1>5. CallerInv'
  <2>1. \A h \in Ids : (flights'[h].at # "none" \/ flights[h].at = "none") /\ flights'[h].key = flights[h].key
    BY <1>4
  <2>2. \A d \in Callers : call[d].at = "waiting" => call[d].flight \in Ids
    BY <1>t, <1>m DEF CallerInv, CallerOK, Ids
  <2> QED
    BY <1>m, <1>1, <2>1, <2>2 DEF CallerInv, CallerOK
<1>6. FlightInv'
  <2> SUFFICES ASSUME NEW h \in Ids PROVE FlightOK(h)'
    BY DEF FlightInv
  <2> USE DEF FlightOK
  <2>1. CASE h = g
    <3>1. g <= nextId
      BY <1>t, <1>m, <1>1 DEF FlightInv, FlightOK, Ids
    <3>2. \A i \in flights'[g].todo :
            i <= nextId /\ \A d \in Callers : call[d].at = "waiting" /\ call[d].id = i => call[d].flight = g
      BY <1>m, <1>2, <1>4 DEF EntryInv, EntryOK
    <3> QED
      <4>1. ~(g > nextId)
        BY <3>1, <1>t DEF Ids
      <4> HIDE DEF k, mine
      <4> QED
        BY <2>1, <3>2, <4>1, <1>1, <1>4 DEF Live
  <2>2. CASE h # g
    <3>1. flights[h].key \in Keys
      BY <1>t DEF Flights
    <3> QED
      <4>1. FlightOK(h) /\ flights'[h] = flights[h]
        BY <2>2, <1>m, <1>4 DEF FlightInv
      <4>2. entries[flights[h].key] = h => entries'[flights[h].key] = h
        BY <2>2, <3>1, <1>3
      <4> QED
        BY <4>1, <4>2, <1>1 DEF FlightOK, Live
  <2> QED
    BY <2>1, <2>2
<1>7. EntryInv'
  <2> SUFFICES ASSUME NEW l \in Keys PROVE EntryOK(l)'
    BY DEF EntryInv
  <2> USE DEF EntryOK
  <2>1. CASE l = k /\ mine
    BY <2>1, <1>3
  <2>2. CASE ~(l = k /\ mine)
    <3>1. entries'[l] = entries[l] /\ waiters'[l] = waiters[l]
      BY <2>2, <1>3
    <3>2. entries[l] # 0 => entries[l] \in Ids /\ entries[l] # g
      BY <2>2, <1>t, <1>m DEF EntryInv, EntryOK, Ids
    <3> QED
      <4>1. EntryOK(l)
        BY <1>m DEF EntryInv
      <4>2. entries[l] # 0 => flights'[entries[l]] = flights[entries[l]]
        BY <3>2, <1>4
      <4> QED
        BY <4>1, <4>2, <3>1, <1>1 DEF EntryOK, Live
  <2> QED
    BY <2>1, <2>2
<1>8. WaitersServed'
  <2> SUFFICES ASSUME NEW d \in Callers, call'[d].at = "waiting", call'[d].box = 0
               PROVE  /\ ~flights'[call'[d].flight].cancel
                      /\ \/ /\ entries'[call'[d].key] = call'[d].flight
                            /\ call'[d].id \in waiters'[call'[d].key]
                            /\ flights'[call'[d].flight].at \in {"queued", "fetching", "completing"}
                         \/ flights'[call'[d].flight].at = "sending"
                            /\ call'[d].id \in flights'[call'[d].flight].todo
    BY DEF WaitersServed, NoLostWaiter, NeededNotCancelled, Waits, Live
  <2>1. Waits(d) /\ call[d].key \in Keys /\ call[d].flight \in Ids /\ flights[call[d].flight].key = call[d].key
    BY <1>t, <1>m, <1>1 DEF CallerInv, CallerOK, Calls, Ids, Waits
  <2>2. ~flights'[call[d].flight].cancel
    BY <1>m, <1>4, <2>1 DEF NeededNotCancelled
  <2>3. CASE call[d].flight = g
    BY <2>1, <2>2, <2>3, <1>m, <1>1, <1>4 DEF NoLostWaiter
  <2>4. CASE call[d].flight # g
    <3>1. flights'[call[d].flight] = flights[call[d].flight]
      BY <2>1, <2>4, <1>4
    <3>2. \/ entries[call[d].key] = call[d].flight /\ call[d].id \in waiters[call[d].key]
             /\ Live(call[d].flight)
          \/ flights[call[d].flight].at = "sending" /\ call[d].id \in flights[call[d].flight].todo
      BY <2>1, <1>m DEF NoLostWaiter
    <3>3. entries[call[d].key] = call[d].flight =>
            entries'[call[d].key] = entries[call[d].key] /\ waiters'[call[d].key] = waiters[call[d].key]
      BY <2>1, <2>4, <1>3
    <3> QED
      BY <2>2, <3>1, <3>2, <3>3, <1>1 DEF Live
  <2> QED
    BY <2>3, <2>4
<1> QED
  BY <1>5, <1>6, <1>7, <1>8 DEF MapInv

\* An answer goes to the waiter whose identity the leader has taken, who waits for that
\* leader's flight.
LEMMA SendMapStep == ASSUME FetchInv, NEW g \in Ids, NEW i \in Ids, Send(g, i) PROVE MapInv'
<1>t. /\ call \in [Callers -> Calls] /\ flights \in [Ids -> Flights]
      /\ entries \in [Keys -> 0 .. MaxId] /\ waiters \in [Keys -> SUBSET Ids] /\ nextId \in 0 .. MaxId
      /\ MaxId \in Nat
  BY CoordinatorAssumption DEF FetchInv, TypeOK
<1>m. CallerInv /\ FlightInv /\ EntryInv /\ NoLostWaiter /\ NeededNotCancelled
  BY DEF FetchInv, WaitersServed
<1>1. entries' = entries /\ waiters' = waiters /\ nextId' = nextId /\ flights[g].at = "sending" /\ i \in flights[g].todo
  BY DEF Send
<1>2. /\ \A h \in Ids : h # g => flights'[h] = flights[h]
      /\ flights'[g].at = "sending" /\ flights'[g].key = flights[g].key
      /\ flights'[g].cancel = flights[g].cancel /\ flights'[g].todo = flights[g].todo \ {i}
  BY <1>t, <1>1 DEF Send, Flights
<1>3. \A d \in Callers : /\ call'[d].at = call[d].at /\ call'[d].id = call[d].id
                         /\ call'[d].key = call[d].key /\ call'[d].path = call[d].path
                         /\ call'[d].flight = call[d].flight
                         /\ call'[d].box = IF call[d].at = "waiting" /\ call[d].id = i THEN g ELSE call[d].box
  BY <1>t DEF Send, Calls
<1>4. \A d \in Callers : call[d].at = "waiting" /\ call[d].id = i => call[d].flight = g
  BY <1>m, <1>1 DEF FlightInv, FlightOK
<1>5. CallerInv'
  <2>1. \A h \in Ids : flights'[h].at = flights[h].at /\ flights'[h].key = flights[h].key
    BY <1>1, <1>2
  <2>2. \A d \in Callers : call[d].at = "waiting" => call[d].flight \in Ids
    BY <1>t, <1>m DEF CallerInv, CallerOK, Ids
  <2> QED
    <3> SUFFICES ASSUME NEW d \in Callers PROVE CallerOK(d)'
      BY DEF CallerInv
    <3>1. CallerOK(d)
      BY <1>m DEF CallerInv
    <3> QED
      BY <3>1, <1>1, <1>3, <1>4, <2>1, <2>2 DEF CallerOK
<1>6. FlightInv'
  <2> SUFFICES ASSUME NEW h \in Ids PROVE FlightOK(h)'
    BY DEF FlightInv
  <2>1. /\ flights'[h].at = flights[h].at /\ flights'[h].key = flights[h].key
        /\ flights'[h].cancel = flights[h].cancel /\ flights'[h].todo \subseteq flights[h].todo
    BY <1>1, <1>2
  <2>2. FlightOK(h)
    BY <1>m DEF FlightInv
  <2>3. (h > nextId => flights'[h].at = "none") /\ (flights'[h].at = "none" => ~flights'[h].cancel)
    BY <2>1, <2>2 DEF FlightOK
  <2>4. flights'[h].at # "sending" => flights'[h].todo = {}
    BY <2>1, <2>2 DEF FlightOK
  <2>5. Live(h)' /\ ~flights'[h].cancel => entries[flights'[h].key] = h
    BY <2>1, <2>2 DEF FlightOK, Live
  <2>6. \A j \in flights'[h].todo :
          j <= nextId /\ \A c \in Callers : call'[c].at = "waiting" /\ call'[c].id = j => call'[c].flight = h
    BY <2>1, <2>2, <1>3 DEF FlightOK
  <2> QED
    BY <2>3, <2>4, <2>5, <2>6, <1>1 DEF FlightOK
<1>7. EntryInv'
  <2> SUFFICES ASSUME NEW l \in Keys PROVE EntryOK(l)'
    BY DEF EntryInv
  <2> USE DEF EntryOK
  <2>1. entries[l] # 0 => entries[l] \in Ids /\ entries[l] # g
    BY <1>t, <1>m, <1>1 DEF EntryInv, EntryOK, Live, Ids
  <2> QED
    <3>1. EntryOK(l)
      BY <1>m DEF EntryInv
    <3>2. entries[l] # 0 => flights'[entries[l]] = flights[entries[l]]
      BY <2>1, <1>2
    <3> QED
      BY <3>1, <3>2, <1>1, <1>3 DEF EntryOK, Live
<1>8. WaitersServed'
  <2> SUFFICES ASSUME NEW d \in Callers, call'[d].at = "waiting", call'[d].box = 0
               PROVE  /\ ~flights'[call'[d].flight].cancel
                      /\ \/ /\ entries'[call'[d].key] = call'[d].flight
                            /\ call'[d].id \in waiters'[call'[d].key]
                            /\ flights'[call'[d].flight].at \in {"queued", "fetching", "completing"}
                         \/ flights'[call'[d].flight].at = "sending"
                            /\ call'[d].id \in flights'[call'[d].flight].todo
    BY DEF WaitersServed, NoLostWaiter, NeededNotCancelled, Waits, Live
  <2>1. Waits(d) /\ call[d].id # i /\ call[d].flight \in Ids
    BY <1>t, <1>m, <1>1, <1>3, SMTT(30) DEF CallerInv, CallerOK, Calls, Ids, Waits
  <2>2. /\ call'[d].flight = call[d].flight /\ call'[d].key = call[d].key /\ call'[d].id = call[d].id
        /\ entries' = entries /\ waiters' = waiters
    BY <1>1, <1>3
  <2>3. /\ flights'[call[d].flight].at = flights[call[d].flight].at
        /\ flights'[call[d].flight].cancel = flights[call[d].flight].cancel
        /\ call[d].id \in flights[call[d].flight].todo => call[d].id \in flights'[call[d].flight].todo
    BY <1>1, <1>2, <2>1
  <2>4. /\ ~flights[call[d].flight].cancel
        /\ \/ /\ entries[call[d].key] = call[d].flight /\ call[d].id \in waiters[call[d].key]
              /\ flights[call[d].flight].at \in {"queued", "fetching", "completing"}
           \/ flights[call[d].flight].at = "sending" /\ call[d].id \in flights[call[d].flight].todo
    BY <1>m, <2>1 DEF NoLostWaiter, NeededNotCancelled, Live
  <2> QED
    BY <2>2, <2>3, <2>4
<1> QED
  BY <1>5, <1>6, <1>7, <1>8 DEF MapInv

\* A leader that ends has answered everybody on its list.
LEMMA DoneMapStep == ASSUME FetchInv, NEW g \in Ids, Done(g) PROVE MapInv'
<1>t. /\ call \in [Callers -> Calls] /\ flights \in [Ids -> Flights]
      /\ entries \in [Keys -> 0 .. MaxId] /\ waiters \in [Keys -> SUBSET Ids] /\ nextId \in 0 .. MaxId
      /\ MaxId \in Nat
  BY CoordinatorAssumption DEF FetchInv, TypeOK
<1>m. CallerInv /\ FlightInv /\ EntryInv /\ NoLostWaiter /\ NeededNotCancelled
  BY DEF FetchInv, WaitersServed
<1>1. /\ call' = call /\ entries' = entries /\ waiters' = waiters /\ nextId' = nextId
      /\ flights[g].at = "sending" /\ flights[g].todo = {}
  BY DEF Done
<1>2. /\ \A h \in Ids : h # g => flights'[h] = flights[h]
      /\ flights'[g].at = "gone" /\ flights'[g].key = flights[g].key
      /\ flights'[g].cancel = flights[g].cancel /\ flights'[g].todo = {}
  BY <1>t, <1>1 DEF Done, Flights
<1>5. CallerInv'
  <2>1. \A h \in Ids : (flights'[h].at # "none" \/ flights[h].at = "none") /\ flights'[h].key = flights[h].key
    BY <1>2
  <2>2. \A d \in Callers : call[d].at = "waiting" => call[d].flight \in Ids
    BY <1>t, <1>m DEF CallerInv, CallerOK, Ids
  <2> QED
    BY <1>m, <1>1, <2>1, <2>2 DEF CallerInv, CallerOK
<1>6. FlightInv'
  <2> SUFFICES ASSUME NEW h \in Ids PROVE FlightOK(h)'
    BY DEF FlightInv
  <2>1. FlightOK(h)
    BY <1>m DEF FlightInv
  <2>2. CASE h = g
    BY <2>1, <2>2, <1>1, <1>2 DEF FlightOK, Live
  <2>3. CASE h # g
    <3>1. flights'[h] = flights[h]
      BY <2>3, <1>2
    <3> QED
      BY <2>1, <3>1, <1>1 DEF FlightOK, Live
  <2> QED
    BY <2>2, <2>3
<1>7. EntryInv'
  <2> SUFFICES ASSUME NEW l \in Keys PROVE EntryOK(l)'
    BY DEF EntryInv
  <2> USE DEF EntryOK
  <2>1. entries[l] # 0 => entries[l] \in Ids /\ entries[l] # g
    BY <1>t, <1>m, <1>1 DEF EntryInv, EntryOK, Live, Ids
  <2> QED
    <3>1. EntryOK(l)
      BY <1>m DEF EntryInv
    <3>2. entries[l] # 0 => flights'[entries[l]] = flights[entries[l]]
      BY <2>1, <1>2
    <3> QED
      BY <3>1, <3>2, <1>1 DEF EntryOK, Live
<1>8. WaitersServed'
  <2> SUFFICES ASSUME NEW d \in Callers, call'[d].at = "waiting", call'[d].box = 0
               PROVE  /\ ~flights'[call'[d].flight].cancel
                      /\ \/ /\ entries'[call'[d].key] = call'[d].flight
                            /\ call'[d].id \in waiters'[call'[d].key]
                            /\ flights'[call'[d].flight].at \in {"queued", "fetching", "completing"}
                         \/ flights'[call'[d].flight].at = "sending"
                            /\ call'[d].id \in flights'[call'[d].flight].todo
    BY DEF WaitersServed, NoLostWaiter, NeededNotCancelled, Waits, Live
  <2>1. Waits(d) /\ call[d].flight \in Ids
    BY <1>t, <1>m, <1>1 DEF CallerInv, CallerOK, Calls, Ids, Waits
  <2>2. call[d].flight # g
    BY <1>m, <1>1, <2>1 DEF NoLostWaiter, Live
  <2> QED
    BY <2>1, <2>2, <1>m, <1>1, <1>2 DEF NoLostWaiter, NeededNotCancelled, Live
<1> QED
  BY <1>5, <1>6, <1>7, <1>8 DEF MapInv

-----------------------------------------------------------------------------
LEMMA FetchStep == FetchInv /\ [Next]_vars => FetchInv'
<1> SUFFICES ASSUME FetchInv, [Next]_vars PROVE FetchInv'
  OBVIOUS
<1>1. CASE Next
  <2>1. IsFiniteSet(Active)' /\ PermitsExact'
    BY <1>1, CountStep
  <2>2. TypeOK'
    <3>1. /\ call' \in [Callers -> Calls] /\ flights' \in [Ids -> Flights]
          /\ entries' \in [Keys -> 0 .. MaxId] /\ waiters' \in [Keys -> SUBSET Ids]
          /\ nextId' \in 0 .. MaxId
      BY <1>1, TypeStep
    <3>2. pages' \in BOOLEAN
      BY <1>1, Zenon DEF Next, FetchInv, TypeOK
    <3>3. callers' \in Nat /\ jobs' \in Nat /\ permits' \in Nat
      <4>1. IsFiniteSet(Active') /\ Direct' \subseteq Active' /\ Reading' \subseteq Active'
        BY <2>1 DEF Direct, Reading, Active
      <4>2. HoldsJob' \subseteq Ids /\ Fetching' \subseteq Ids /\ IsFiniteSet(Ids)
        BY CoordinatorAssumption, FS_Interval DEF HoldsJob, Fetching, Ids
      <4>3. /\ Cardinality(Active') \in Nat /\ Cardinality(Direct') \in Nat /\ Cardinality(Reading') \in Nat
            /\ Cardinality(HoldsJob') \in Nat /\ Cardinality(Fetching') \in Nat
        BY <4>1, <4>2, FS_Subset, FS_CardinalityType
      <4> QED
        BY <2>1, <4>3 DEF PermitsExact
    <3> QED
      BY <3>1, <3>2, <3>3 DEF TypeOK
  <2>3. MapInv'
    <3>1. ASSUME NEW c \in Callers, Caller(c) PROVE MapInv'
      BY <3>1, OffMapStep, JoinMapStep, StartMapStep, LeaveMapStep DEF Caller
    <3>2. ASSUME NEW g \in Ids, Leader(g) PROVE MapInv'
      BY <3>2, LeaderMapStep, CompleteMapStep, SendMapStep, DoneMapStep DEF Leader, LeaderStep
    <3> QED
      BY <1>1, <3>1, <3>2 DEF Next
  <2> QED
    BY <2>1, <2>2, <2>3 DEF FetchInv, MapInv
<1>2. CASE UNCHANGED vars
  <2> USE <1>2 DEF vars, FetchInv
  <2>1. TypeOK' /\ IsFiniteSet(Active)'
    BY DEF TypeOK, Active
  <2>2. PermitsExact'
    BY DEF PermitsExact, Active, HoldsJob, Direct, Fetching, Reading, Live
  <2>3. CallerInv' /\ FlightInv' /\ EntryInv'
    <3>1. CallerInv'
      BY DEF CallerInv, CallerOK
    <3>2. FlightInv'
      BY DEF FlightInv, FlightOK, Live
    <3>3. EntryInv'
      BY DEF EntryInv, EntryOK, Live
    <3> QED
      BY <3>1, <3>2, <3>3
  <2>4. WaitersServed'
    BY DEF WaitersServed, NoLostWaiter, NeededNotCancelled, Waits, Live
  <2> QED
    BY <2>1, <2>2, <2>3, <2>4
<1> QED
  BY <1>1, <1>2

\* The inductive invariant holds for every set of callers, files and contents, and for
\* all limits (coordinator.rs).
THEOREM FetchInvariant == Spec => []FetchInv
BY FetchInit, FetchStep, PTL DEF Spec

\* Callers, flights and the map of coordinator.rs stay of their kind.
THEOREM FetchTypes == Spec => []TypeOK
<1>1. FetchInv => TypeOK
  BY DEF FetchInv
<1> QED
  BY <1>1, FetchInvariant, PTL

\* Whatever callers join, leave or are dropped, and whatever leaders do, a waiting caller
\* is never forgotten and the download that it waits for is never cancelled.
THEOREM FetchWaitersServed == Spec => []WaitersServed
<1>1. FetchInv => WaitersServed
  BY DEF FetchInv
<1> QED
  BY <1>1, FetchInvariant, PTL

\* At most one wanted flight per content, and every answer is the content that the
\* snapshot commits to for the caller's own path.
THEOREM FetchSharedRightly == Spec => []SharedRightly
<1>1. FetchInv => SharedRightly
  <2> SUFFICES ASSUME FetchInv PROVE SharedRightly
    OBVIOUS
  <2>1. SingleFlight
    BY DEF FetchInv, FlightInv, FlightOK, SingleFlight
  <2>2. OwnAnswer
    BY DEF FetchInv, CallerInv, CallerOK, OwnAnswer
  <2> QED
    BY <2>1, <2>2 DEF SharedRightly
<1> QED
  BY <1>1, FetchInvariant, PTL

\* The permits taken of the three semaphores are those of the callers, jobs and
\* downloads that exist, and stay within the limits.
THEOREM FetchPermitsExact == Spec => []PermitsExact
<1>1. FetchInv => PermitsExact
  BY DEF FetchInv
<1> QED
  BY <1>1, FetchInvariant, PTL
=============================================================================
