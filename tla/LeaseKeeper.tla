---------------------------- MODULE LeaseKeeper ----------------------------
(***************************************************************************)
(* The retention lease of a fixed-view reader (snapshot/reader.rs) and the *)
(* retrying request that renews it (snapshot/client.rs).                   *)
(*                                                                         *)
(* A resolve receives a lease and starts a background renewer.  Operations *)
(* that are about to reach the service call ensure() as well, so that      *)
(* several tasks compete to renew: a fair mutex admits one, and every task *)
(* looks at the window again once it has the mutex.  A renewal is one      *)
(* logical request of several attempts, with a deadline of its own inside  *)
(* the deadline of the grant.                                              *)
(*                                                                         *)
(* Time is one clock for the wall and the monotonic clock of the process   *)
(* and the clock of the service.                                           *)
(***************************************************************************)
EXTENDS Naturals, Sequences, FiniteSets

CONSTANTS
  Operations,        \* futures that call ensure_lease
  Grants,            \* the lengths of the leases that the service grants
  RequestTimeout,    \* request_timeout of the client
  Attempts,          \* MAX_ATTEMPTS
  EndOfTime          \* the bound on the clock; every grant ends by then

ASSUME LeaseAssumption ==
  /\ Grants \subseteq Nat \ {0} /\ Grants # {}
  /\ RequestTimeout \in Nat \ {0} /\ Attempts \in Nat \ {0} /\ EndOfTime \in Nat
  /\ "renewer" \notin Operations

VARIABLES
  clock,
  serverExpiry,    \* until when the service retains the snapshot
  view,            \* the reader: its stage, and the clock as its resolve sampled it
  window,          \* LeaseWindow
  reported,        \* authorization_epoch_reported
  renewing,        \* the queue of the mutex, its holder first
  calls            \* every caller of ensure, the background task included

leaseVars == <<clock, serverExpiry, view, window, reported, renewing, calls>>

Renewer == "renewer"
Tasks == Operations \cup {Renewer}
Times == 0 .. EndOfTime

\* failure: the latched error; transient: the recoverable error of the last renewal.
Windows == [deadline : Times, renewAt : Times, failure : BOOLEAN, transient : BOOLEAN, failures : Times]

\* An answer grants the lease until expiry, or denies it.
Answers ==
  [kind : {"none", "grant", "other"}, expiry : Times, epoch : BOOLEAN]
  \cup [kind : {"error"}, again : BOOLEAN, recoverable : BOOLEAN]

Nothing == [kind |-> "none", expiry |-> 0, epoch |-> FALSE]

LeaseCalls ==
  [at : {"idle", "loop", "sleep", "first", "queue", "second", "attempt", "waiting",
         "backoff", "answered", "sampled", "store", "stopped"},
   wake : Times,        \* sleep_until of the background task
   until : Times,       \* the deadline of the grant that this renewal must meet
   end : Nat,           \* the deadline of the logical request
   attempt : 0 .. Attempts,
   sample : Times,      \* Instant::now of lease_window
   answer : Answers,
   next : Windows]      \* the window that lease_window has computed

NoWindow == [deadline |-> 0, renewAt |-> 0, failure |-> FALSE, transient |-> FALSE, failures |-> 0]

Rest == [at |-> "idle", wake |-> 0, until |-> 0, end |-> 0, attempt |-> 0, sample |-> 0,
         answer |-> Nothing, next |-> NoWindow]

LeaseInit ==
  /\ clock = 0 /\ serverExpiry = 0
  /\ view = [at |-> "closed", sample |-> 0]
  /\ window = NoWindow
  /\ reported = FALSE
  /\ renewing = <<>>
  /\ calls = [t \in Tasks |-> Rest]

Least(a, b) == IF a < b THEN a ELSE b

\* Mutant: the wall clock is read first.
WindowOfLateInstant(sample, expiry) ==
  [NoWindow EXCEPT !.deadline = clock + (expiry - sample),
                   !.renewAt = clock + ((expiry - sample) * 2) \div 3]

\* The two clocks are read one after the other: time may pass between them.
WindowOf(sample, expiry) ==
  [NoWindow EXCEPT !.deadline = sample + (expiry - clock),
                   !.renewAt = sample + ((expiry - clock) * 2) \div 3]

\* local_lease_status: what metadata replies and CAS reads look at.
LocalLeaseStatus == ~window.failure /\ clock < window.deadline

\* The queue without its i-th task.
Cut(queue, i) == SubSeq(queue, 1, i - 1) \o SubSeq(queue, i + 1, Len(queue))

\* The guard of the mutex, or the future that waits for it, is dropped.
Unlock(t) ==
  LET places == {i \in DOMAIN renewing : renewing[i] = t} IN
  renewing' = IF places = {} THEN renewing ELSE Cut(renewing, CHOOSE i \in places : TRUE)

(***************************************************************************)
(* Resolve.                                                                *)
(***************************************************************************)
ForResolve ==
  /\ view.at = "closed"
  /\ view' = [view EXCEPT !.at = "resolving"]
  /\ UNCHANGED <<clock, serverExpiry, window, reported, renewing, calls>>

\* LeaseKeeper::new samples the monotonic clock of lease_window.
ResolveAnswer(g) ==
  /\ view.at = "resolving" /\ clock + g <= EndOfTime
  /\ serverExpiry' = clock + g
  /\ view' = [view EXCEPT !.at = "granted", !.sample = clock]
  /\ UNCHANGED <<clock, window, reported, renewing, calls>>

\* Discovery, the response or the authority that it claims is refused.
ResolveFail ==
  /\ view.at = "resolving"
  /\ view' = [view EXCEPT !.at = "closed"]
  /\ UNCHANGED <<clock, serverExpiry, window, reported, renewing, calls>>

\* A lease that is over on arrival refuses the resolve; otherwise the renewer is spawned,
\* where there is a runtime to spawn it on.
ResolveDone ==
  /\ view.at = "granted"
  /\ \/ /\ serverExpiry <= clock
        /\ view' = [view EXCEPT !.at = "closed"]
        /\ UNCHANGED <<window, calls>>
     \/ /\ serverExpiry > clock
        /\ view' = [view EXCEPT !.at = "open"]
        /\ window' = WindowOf(view.sample, serverExpiry)
        /\ \E at \in {"loop", "idle"} : calls' = [calls EXCEPT ![Renewer].at = at]
  /\ UNCHANGED <<clock, serverExpiry, reported, renewing>>

\* The last clone is dropped: the operations are over and the task is aborted.
DropReader ==
  /\ view.at = "open" /\ \A o \in Operations : calls[o].at = "idle"
  /\ view' = [view EXCEPT !.at = "dropped"]
  /\ calls' = [calls EXCEPT ![Renewer] = Rest]
  /\ Unlock(Renewer)
  /\ UNCHANGED <<clock, serverExpiry, window, reported>>

(***************************************************************************)
(* LeaseState::ensure.                                                     *)
(***************************************************************************)
Expired == clock >= window.deadline
NeedsRenewal == ~window.failure /\ ~Expired /\ clock >= window.renewAt

\* ensure returns to its caller: the background task loops unless the error is final.
EndCall(t, final) ==
  calls' = [calls EXCEPT ![t] =
    IF t # Renewer THEN Rest
    ELSE [Rest EXCEPT !.at = IF final THEN "stopped" ELSE "loop", !.until = window.deadline]]

Begin(o) ==
  /\ view.at = "open" /\ calls[o].at = "idle"
  /\ calls' = [calls EXCEPT ![o].at = "first"]
  /\ UNCHANGED <<clock, serverExpiry, view, window, reported, renewing>>

Sleep ==
  /\ calls[Renewer].at = "loop"
  /\ calls' = [calls EXCEPT ![Renewer] = [@ EXCEPT !.at = "sleep", !.wake = window.renewAt]]
  /\ UNCHANGED <<clock, serverExpiry, view, window, reported, renewing>>

Wake ==
  /\ calls[Renewer].at = "sleep" /\ clock >= calls[Renewer].wake
  /\ calls' = [calls EXCEPT ![Renewer].at = "first"]
  /\ UNCHANGED <<clock, serverExpiry, view, window, reported, renewing>>

First(t) ==
  /\ calls[t].at = "first"
  /\ \/ /\ NeedsRenewal
        /\ calls' = [calls EXCEPT ![t].at = "queue"]
        /\ renewing' = Append(renewing, t)
     \/ /\ ~NeedsRenewal
        /\ EndCall(t, window.failure \/ Expired)
        /\ UNCHANGED renewing
  /\ UNCHANGED <<clock, serverExpiry, view, window, reported>>

Lock(t) ==
  /\ calls[t].at = "queue" /\ Head(renewing) = t
  /\ calls' = [calls EXCEPT ![t].at = "second"]
  /\ UNCHANGED <<clock, serverExpiry, view, window, reported, renewing>>

\* Mutant: what the task found before it waited still holds.
SecondUnchecked(t) ==
  /\ calls[t].at = "second"
  /\ calls' = [calls EXCEPT ![t] =
       [@ EXCEPT !.at = "attempt", !.until = window.deadline, !.end = clock + RequestTimeout]]
  /\ UNCHANGED <<clock, serverExpiry, view, window, reported, renewing>>

\* What the task found before it waited may be out of date: it looks again.
Second(t) ==
  /\ calls[t].at = "second"
  /\ \/ /\ NeedsRenewal
        /\ calls' = [calls EXCEPT ![t] =
             [@ EXCEPT !.at = "attempt", !.until = window.deadline, !.end = clock + RequestTimeout]]
        /\ UNCHANGED renewing
     \/ /\ ~NeedsRenewal
        /\ EndCall(t, window.failure \/ Expired)
        /\ Unlock(t)
  /\ UNCHANGED <<clock, serverExpiry, view, window, reported>>

Delay(n) == 2 ^ Least(n - 1, 3)

\* Mutant: every error ends the background task.
FailStops(t, recoverable) ==
  LET postponed == recoverable /\ ~Expired IN
  /\ window' = IF window.failure THEN window
               ELSE IF postponed
               THEN [window EXCEPT !.transient = TRUE, !.failures = @ + 1,
                       !.renewAt = Least(clock + Delay(window.failures + 1), window.deadline)]
               ELSE [window EXCEPT !.failure = TRUE]
  /\ EndCall(t, TRUE)
  /\ Unlock(t)

\* Mutant: the delay is not counted from now.
FailUnanchored(t, recoverable) ==
  LET postponed == recoverable /\ ~Expired IN
  /\ window' = IF window.failure THEN window
               ELSE IF postponed
               THEN [window EXCEPT !.transient = TRUE, !.failures = @ + 1,
                       !.renewAt = Least(Delay(window.failures + 1), window.deadline)]
               ELSE [window EXCEPT !.failure = TRUE]
  /\ EndCall(t, ~postponed)
  /\ Unlock(t)

\* LeaseState::fail: a recoverable error inside the grant only postpones the renewal.
Fail(t, recoverable) ==
  LET postponed == recoverable /\ ~Expired IN
  /\ window' = IF window.failure THEN window
               ELSE IF postponed
               THEN [window EXCEPT !.transient = TRUE, !.failures = @ + 1,
                       !.renewAt = Least(clock + Delay(window.failures + 1), window.deadline)]
               ELSE [window EXCEPT !.failure = TRUE]
  /\ EndCall(t, ~postponed)
  /\ Unlock(t)

Attempt(t) ==
  /\ calls[t].at = "attempt" /\ calls[t].attempt < Attempts
  /\ \/ /\ clock < calls[t].end
        /\ calls' = [calls EXCEPT ![t] =
             [@ EXCEPT !.at = "waiting", !.attempt = calls[t].attempt + 1]]
        /\ UNCHANGED <<window, renewing>>
     \/ clock >= calls[t].end /\ Fail(t, TRUE)
  /\ UNCHANGED <<clock, serverExpiry, view, reported>>

\* The service (external).  A transport error says nothing of what it has done.
Serve(t, g, answer) ==
  /\ calls[t].at = "waiting" /\ clock + g <= EndOfTime
  /\ answer.kind = "grant" => g # 0 /\ answer.expiry = clock + g
  /\ serverExpiry' = IF g = 0 THEN serverExpiry
                     ELSE IF clock + g > serverExpiry THEN clock + g ELSE serverExpiry
  /\ calls' = [calls EXCEPT ![t] = [@ EXCEPT !.at = "answered", !.answer = answer]]
  /\ UNCHANGED <<clock, view, window, reported, renewing>>

\* send_retrying: an error that allows it is tried again after a pause.
Retry(t) ==
  /\ calls[t].at = "answered" /\ calls[t].answer.kind = "error"
  /\ \/ /\ calls[t].answer.again /\ calls[t].attempt < Attempts
        /\ calls' = [calls EXCEPT ![t] = [@ EXCEPT !.at = "backoff", !.answer = Nothing]]
        /\ UNCHANGED <<window, renewing>>
     \/ /\ ~(calls[t].answer.again /\ calls[t].attempt < Attempts)
        /\ Fail(t, calls[t].answer.recoverable)
  /\ UNCHANGED <<clock, serverExpiry, view, reported>>

Backoff(t) ==
  /\ calls[t].at = "backoff"
  /\ \/ /\ clock < calls[t].end
        /\ calls' = [calls EXCEPT ![t].at = "attempt"]
        /\ UNCHANGED <<window, renewing>>
     \/ clock >= calls[t].end /\ Fail(t, TRUE)
  /\ UNCHANGED <<clock, serverExpiry, view, reported>>

\* Mutant: a request that is not answered is awaited for ever.
TimeoutNever(t) == FALSE /\ UNCHANGED leaseVars

\* The request, or the grant that it renews, is over while an answer is awaited.
Timeout(t) ==
  /\ \/ calls[t].at = "waiting" /\ clock >= calls[t].end /\ Fail(t, TRUE)
     \/ /\ calls[t].at \in {"attempt", "waiting", "backoff"} /\ clock >= calls[t].until
        /\ Fail(t, FALSE)
  /\ UNCHANGED <<clock, serverExpiry, view, reported>>

\* Mutant: a renewal may leave the epoch out.
BoundLoosely(t) == calls[t].answer.kind = "grant"

\* The authority of a renewal: the same lease, and an epoch that never disappears again.
Bound(t) ==
  calls[t].answer.kind = "grant" /\ (reported => calls[t].answer.epoch)

ValidateReceipt(t) ==
  /\ calls[t].at = "answered" /\ calls[t].answer.kind # "error"
  /\ \/ /\ clock < calls[t].until /\ Bound(t)
        /\ reported' = (reported \/ calls[t].answer.epoch)
        /\ calls' = [calls EXCEPT ![t] = [@ EXCEPT !.at = "sampled", !.sample = clock]]
        /\ UNCHANGED <<window, renewing>>
     \/ /\ ~(clock < calls[t].until /\ Bound(t))
        /\ Fail(t, FALSE)
        /\ UNCHANGED reported
  /\ UNCHANGED <<clock, serverExpiry, view>>

\* Mutant: a lease that is over on arrival is taken.
SampledUnchecked(t) ==
  /\ calls[t].at = "sampled"
  /\ calls' = [calls EXCEPT ![t] =
       [@ EXCEPT !.at = "store", !.next = WindowOf(calls[t].sample, calls[t].answer.expiry)]]
  /\ UNCHANGED <<clock, serverExpiry, view, window, reported, renewing>>

\* lease_window reads the wall clock, and the grant must still be running after it.
Sampled(t) ==
  /\ calls[t].at = "sampled"
  /\ \/ /\ clock < calls[t].answer.expiry /\ clock < calls[t].until
        /\ calls' = [calls EXCEPT ![t] =
             [@ EXCEPT !.at = "store", !.next = WindowOf(calls[t].sample, calls[t].answer.expiry)]]
        /\ UNCHANGED <<window, renewing>>
     \/ /\ ~(clock < calls[t].answer.expiry /\ clock < calls[t].until)
        /\ Fail(t, FALSE)
  /\ UNCHANGED <<clock, serverExpiry, view, reported>>

Store(t) ==
  /\ calls[t].at = "store"
  /\ window' = calls[t].next
  /\ EndCall(t, FALSE)
  /\ Unlock(t)
  /\ UNCHANGED <<clock, serverExpiry, view, reported>>

\* The caller drops its future at one of its awaits.
Cancel(o) ==
  /\ calls[o].at \in {"queue", "attempt", "waiting", "backoff"}
  /\ calls' = [calls EXCEPT ![o] = Rest]
  /\ Unlock(o)
  /\ UNCHANGED <<clock, serverExpiry, view, window, reported>>

Tick ==
  /\ clock < EndOfTime
  /\ clock' = clock + 1
  /\ UNCHANGED <<serverExpiry, view, window, reported, renewing, calls>>

\* The service (external): what it answers to a renewal for which it grants g, 0 for nothing.
Replies(g) ==
  [kind : {"grant"}, expiry : {clock + g}, epoch : BOOLEAN]
  \cup {[kind |-> "other", expiry |-> 0, epoch |-> FALSE]}
  \cup [kind : {"error"}, again : BOOLEAN, recoverable : BOOLEAN]

Step(t) ==
  \/ First(t) \/ Lock(t) \/ Second(t) \/ Attempt(t) \/ Retry(t) \/ Backoff(t)
  \/ Timeout(t) \/ ValidateReceipt(t) \/ Sampled(t) \/ Store(t)

LeaseNext ==
  \/ ForResolve
  \/ \E g \in Grants : ResolveAnswer(g)
  \/ ResolveFail \/ ResolveDone
  \/ DropReader
  \/ \E o \in Operations : Begin(o) \/ Cancel(o)
  \/ Sleep \/ Wake
  \/ \E t \in Tasks : Step(t)
  \/ \E t \in Tasks, g \in Grants \cup {0} : \E answer \in Replies(g) : Serve(t, g, answer)
  \/ Tick

\* Tasks that are ready run, and time passes.  Nothing makes the service answer.
LeaseFairness ==
  /\ WF_leaseVars(Tick)
  /\ WF_leaseVars(\E t \in Tasks : Step(t))

LeaseSpec == LeaseInit /\ [][LeaseNext]_leaseVars /\ LeaseFairness

(***************************************************************************)
(* Properties.                                                             *)
(***************************************************************************)
LeaseTypeOK ==
  /\ clock \in Times /\ serverExpiry \in Times /\ reported \in BOOLEAN
  /\ view \in [at : {"closed", "resolving", "granted", "open", "dropped"}, sample : Times]
  /\ window \in Windows
  /\ renewing \in Seq(Tasks)
  /\ calls \in [Tasks -> LeaseCalls]

\* "must never extend the server grant": whenever a reply or a local read finds the lease
\* live, the service still retains the snapshot, whatever delays the two clock reads saw.
GrantCovers == LocalLeaseStatus => clock < serverExpiry

\* A terminal failure is latched for good: no renewal that was queued or in flight when
\* it happened brings the lease of the reader back.
TerminalIsFinal == [][window.failure => window'.failure]_window

\* The background task gives up only for a terminal failure or at the end of the grant
\* that it has just looked at, never for an error that a later renewal may repair.
RenewerPersists ==
  calls[Renewer].at = "stopped" => window.failure \/ clock >= calls[Renewer].until

\* The background task never sleeps past the moment the current window asks for a
\* renewal, although operations renew and postpone the window while it sleeps.
NeverOversleeps == calls[Renewer].at = "sleep" => calls[Renewer].wake <= window.renewAt

\* Once the service has reported the authorization epoch, no renewal without it extends
\* the lease, even one that was answered before and is handled after the report.
EpochNeverDropped ==
  [][(reported /\ window' # window /\ ~window'.failure /\ ~window'.transient)
       => \E t \in Tasks : calls[t].at = "store" /\ calls[t].answer.epoch]_leaseVars

\* An ensure has not ended.
LeaseBusy == \E o \in Operations : calls[o].at # "idle"

\* The lease of the reader never claims more than the service granted: it ends in time,
\* a terminal failure is final and a renewal keeps the reported epoch (reader.rs renew).
LeaseSound == []GrantCovers /\ TerminalIsFinal /\ EpochNeverDropped

\* The background renewer is awake when the window asks for a renewal and gives up only
\* when nothing can be repaired (reader.rs renewal task).
RenewerDiligent == RenewerPersists /\ NeverOversleeps
=============================================================================
