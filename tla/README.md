# ScorpioFS: TLA+ models, model checking and proofs

ScorpioFS serves fixed snapshots of a monorepo as writable workspaces: a
read-only lower layer over verified, cached content, a private upper directory
on top, both behind a FUSE overlay mount, all owned by a service that creates,
hydrates, releases and destroys workspaces. This directory holds specifications
of the parts of it that run concurrently or must survive a crash, the TLC models
that check them, and TLAPS proofs. Every definition is written from the Rust
sources (`src/src/...`); `PROJECT.json` maps each one to its lines.

## 1. Inventory

### Parts, their state and operations

| part (sources) | state | operations |
|---|---|---|
| mutation fence (`util/mutation_fence.rs`, `util/fenced_fs.rs`) | RwLock over `sealed`, two permit lanes, `uncertain` latch | admit, complete, detach, orphan cleanup, pause, seal, drop |
| control plane (`workspace/service.rs`, `workspace/mount.rs`) | map of entries, runtime record and lock per workspace, capacity, operation and hydration permits, shutdown flag, mount ownership | create, status, hydrate, cancel, release pin, destroy, shutdown, cache worker, unmount with retry |
| local pin (`snapshot/workspace_pins.rs`, `snapshot/durable.rs`) | owner record, registration, revocation, view, pin, completion marker, manifest and pages, contents, repair note, use record, journal | open, audit, hydrate, publish, release, retire, journal append and replay |
| fetch coordinator (`snapshot/coordinator.rs`) | map from content to flight and waiters, identities, three semaphores | fetch, join, leave, lead, complete, cancel |
| managed cache (`snapshot/cache_retention.rs`, `workspace/cache.rs`) | ledger, intents, temporaries, scope locks, use records | admit a write, reserve, consume, retain, retire, collect, recover |
| FUSE view (`snapshot/fuse.rs`, `fuse_owned.rs`, `fuse_store.rs`, `layer.rs`) | inode table, page hints, directory streams, LRU of contents | lookup, path states, load a directory, readdir, read |
| reader (`snapshot/reader.rs`) | lease window and deadline, renewal mutex, terminal failure | resolve, read, renew |
| proven files (`snapshot/proven_file.rs`) | table of path cells, admissions | prove a path, wait for another's proof, validate a token |
| CAS workers and content budget (`snapshot/cas_worker.rs`, `content.rs`) | outstanding and running permits, job state, byte credits | submit, start, cancel, finish, reserve |
| local content store (`snapshot/cas_index.rs`, `cas_content.rs`, `cas_range.rs`) | facts about chunks, their budget, credits | read whole, strictly or a range, build and evict facts |
| closure and incremental sync (`snapshot/closure.rs`, `incremental.rs`) | page files and closure index of the scope, its lock | collect, prove, reuse a subtree, store, prune |
| upper difference (`snapshot/upper_diff.rs`) | what was seen of the tree | walk, compare, walk again |
| owned ranges (`snapshot/owned_range.rs`) | caches of map pages and chunks, output budget | open, read a range |
| transport (`snapshot/client.rs`, `frames.rs`, `owned_transport.rs`, `*_wire.rs`) | coverage and output of one transfer | batch, request, consume frames, publish |
| front ends (`workspace/http.rs`, `cli.rs`, `doctor.rs`, `server/`) | none of their own | translate requests |

How they interact: the service owns a mount, the mount a fenced overlay. Destroy
pauses and seals the fence to trust a scan of the upper. A hydration runs as a
task of the service; it fetches through the coordinator and writes through the
managed cache into the files of a local pin. The cache worker promotes and
collects while the service's operations go on. A mounted view collects metadata
pages into the scope's index, answers lookups from its inode table, and reads
content from the local store or, under a lease, from the service. `PROJECT.json`
("components") lists every part, with the reason for those that have no module.

### The behaviours that make it hard

- FUSE requests whose caller goes away keep running, and may own a handle.
- A decision to delete user edits rests on a scan, which other actors can make
  stale, and is spread over steps each of which may fail and be retried.
- Operations, hydration tasks, shutdown and a background worker share workspaces.
- Success and revocation are spread over several files, each written by rename
  and directory sync, with a crash or an I/O error possible at each point.
- Waiters of a shared download come and go; its leader may be cancelled or panic.
- A lease is renewed by a background task and by whoever is about to use it,
  with retries and deadlines inside the deadline of the grant.
- Futures are dropped at any await, while the blocking job they started, the
  reply it fills and the cache that keeps it go on owning memory.
- Files in the local store and in the upper tree change while they are read.
- A service, or what stands between, truncates, repeats and reorders its answers.
- The disk charge is kept by a ledger that must stay conservative across crashes,
  concurrent writers and a collector.

`PROJECT.json` ("hazards") gives each one its source line and the properties
that would catch it going wrong.

### What correctness means here

Edits are lost only on request; nothing is removed under a user of it; a success
or a revocation that was reported survives any crash; a failed operation can be
retried; nobody who waits is forgotten; permits and charges are exact or
conservative; pinned content is never collected; what is served, listed,
recorded or reported as a difference is what the snapshot commits to, or an
error; an honest service and an intact file do get served; shutdown ends and
leaves nothing running.

## 2. Modules

| module | models | instance for TLC | proofs |
|---|---|---|---|
| `MutationGate` | what the fence promises (abstract specification) | | |
| `MutationFence` | the fence as `FencedFilesystem` drives it | `MCMutationFence` | `MutationFenceProofs` |
| `WorkspaceLifecycle` | service, mount, hydration task, worker, shutdown | `MCWorkspaceLifecycle` | |
| `LocalPin` | the durable files of one owner | `MCLocalStore`, `MCLocalPin` | `LocalPinProofs` |
| `CasRange` | reads of the local content store and the facts about chunks | `MCLocalStore` | |
| `UpperDiff` | the scan of the upper tree | `MCLocalStore` | |
| `OwnedRange` | ranges of a large file read from the service | `MCLocalStore` | |
| `FetchCoordinator` | single-flight fetching | `MCFetchCoordinator`, `MCService` | `FetchCoordinatorProofs` |
| `LeaseKeeper` | the lease, its renewer and the retrying request | `MCService` | `LeaseKeeperProofs` |
| `PathProof` | proofs that a path is a file, and their table | `MCService` | `PathProofProofs` |
| `FrameTransfer` | requests in windows, and the frames that answer them | `MCService` | |
| `SnapshotSync` | collecting metadata, the closure proof and the index | `MCMount` | |
| `FixedView` | the inode table and the calls on it | `MCMount` | |
| `CasWork` | blocking reads, their slots and credits, the payload cache | `MCMount` | |
| `CacheRetention` | admission and collection in one managed scope | `MCCacheRetention` | `CacheRetentionProofs`, `CacheLedgerProofs` |

Operators introduced by a comment `Mutant:` are no part of any specification:
each is a plausible mistake in the definition that follows it, and is used to
confirm that a property notices it (`PROJECT.json`, "mutants").

`MCLocalStore`, `MCMount` and `MCService` each check several modules in one run.
In the models these parts share no state, so a behaviour of such an instance
picks one part in its initial state, runs it, and leaves the others at rest: the
states are the sum of theirs. It is not a composition, and no property relies on
two of the parts moving together. Where parts do interact, one side appears in
the other's module as what it may do at any time: the lease may end, a caller may
be dropped, the disk may be damaged, the pause may become uncertain.

### MutationGate and MutationFence

A request of `Muts` is a FUSE call that changes content and owns no handle; a
member of `Handles` is a slot that open fills and release empties; `Controls`
pause the fence. `phase[r]` follows a request from `admit` (permit, queue for the
RwLock, admitted) through `NativeOperation` (running in its caller, or detached
as an orphan, then cleanup); `ctl[c]` follows `pause`, `seal` and the drop.
`waiters` is tokio's first-come queue, `kernel` and `native` say who believes a
handle to be open. The two permit lanes are the numbers of requests in them.
`NativeReturn` includes each outcome that the inner filesystem may report, and
`Panic` an operation that reports none. `upper` is what a scan would find.

`MutationGate` is the contract without lock, lanes or handles: operations run
only while nobody holds the gate, closing is final, and once an outcome is
unknown nobody holds or closes it again. `ImplementsGate` is the refinement.

### WorkspaceLifecycle

An actor is a control operation (`Tasks`), or a workspace, which stands for its
own cleanup in shutdown. `at` is the actor's next step, one per place in
`service.rs` or `mount.rs` where the order matters or an error may end the
operation; `rt` is the `Runtime` with the ownership of its mount, `env` the
world: directories, edits, kernel mount, late native requests, the fence's two
latches, and the pin and use record as the service sees them. `owned` takes the
permit, then reads the flag (`Begin`, `Admit`); the worker reads the flag first
(`WorkerTick`, `WorkerAcquire`). The fence is used through its abstract gate: a
scan under a pause and the seal that follows are one step.

### LocalPin

One owner. `disk` is what a process sees, `loose[f]` what a crash may bring back
for file `f`: a rename whose directory was not synced is undone or not, each
file independently; a sync makes all earlier changes in that directory durable
(`Synced`, `Unsynced`). A section under the owner's transaction lock runs from
its first to its last step, hence one `pc`. A hydration has two of them: it
retains its root (`RetainBegin`, `Retain`), drops the lock, and takes it again to
prepare and publish (`HydratePrepare` on); `between` says that one waits there,
and audits, releases and reopenings may come in between. Only a retirement may
not, because destroy joins the hydration first (`RetireBegin`). View, pin and
marker carry the hydration that wrote them, which is what their digests tell
apart. Fetching the contents is one step that succeeds or fails: which of them
were found, batched or streamed is left out. `promise` records what a caller was
last told.

### FetchCoordinator

`call[c]` is a future of `fetch_owned`, `entries`/`waiters` the map under its
lock, `flights[g]` the leader task and its guard by generation. Completing takes
the waiters under the lock and answers them outside it, one at a time. A reader
without metadata pages takes the direct path. `MaxId` stands for `u64::MAX`, so
that identities do run out.

### LeaseKeeper

One clock stands for the wall clock, the monotonic clock and that of the service,
which retains the snapshot until `serverExpiry`. A resolve samples the clock, and
the window of a grant is computed from the sample and a second reading
(`WindowOf`); `window` is `LeaseWindow`, in which a terminal failure is latched, and
`renewing` the queue of the tokio mutex with its holder first. A task that has the
mutex looks at the window again and then makes one logical request: attempts,
backoff, the deadline of the request and that of the grant. The service may accept
a renewal whose answer is lost or late. Each of `calls` is an operation that calls
`ensure`, or the renewer, which sleeps until `window.renewAt`.

### PathProof

`cells` is the fixed table with its rotating search for a free cell, `prover[c]` a
call of `prove_file`. A cell's `queue` is that of tokio's `OnceCell`: its head runs
the proof, and when that fails, ends at its deadline or is dropped the next one
does. The proof goes over the components of the path, and in each over its radix
pages; a page is asked for under the lease, and the answer comes in a step of its
own, before which the lease may end. The service may omit the page, repeat it,
spoil it, or add others (`Witnesses`). A finding that the path is no file needs no
lease any more; a token does. `Truth` is what a complete closure would answer.

### FrameTransfer

A transfer has units (chunks of a file, or small objects), asks for them in
windows that shrink when the serialized request would be too large, and consumes
the frames of each answer; `xfer.coverage` is the word of bits with its width. An
answer is a sequence of frames that may be short, long, repeated, out of order,
or not end. `Limits` are what one request may hold and what one batch may weigh.
The streaming reader and the collecting one of `frames.rs` run on the same stream,
and must agree, except that the collecting one leaves it to its caller to compare
the bytes of a chunk with their digest. `request_batches` and the leaves of a
chunk map are operators checked over all small inputs.

### SnapshotSync

Pages are constants, named by their content, and form radix trees of directories
that share subtrees; one root lies about the count of a child, one gives a content
two sizes, and one is not the page that its entries would build. Three collectors:
`files` (`IncrementalSync::sync`) reuses recorded subtrees under the index lock;
`full` (`sync_snapshot`) reuses bytes of page files, proves the root, and only
then takes the lock; `bounded` (`snapshot_closure_for_cache`) takes everything
from the service under a budget. `SubtreeFacts` and `RadixEntries` are recursive
functions, as in `closure.rs`. The reuse of a subtree, the visit of a page and the
cascade of completed directories are operators on the collector's own state
(`Walk`), folded over a batch. The rename of a new index may be followed by a
failed sync of its directory (`CommitUnsynced`). Releases prune the index under the
same lock, if every other owner of the snapshot has been audited as inactive; one
that cannot be audited counts as neither.

### FixedView

`nodes` is the table by inode, `call[c]` a FUSE call and how far it has walked, or
what it is about to load. Loading takes pages from the hints or the service,
proves them, leaves them to a bounded learning job, checks the lease for the last
time, and applies the children under the state lock, where another call may have
done so before. A directory stream reads its listing by offset. A call may be
dropped anywhere and the lease may end; then no call answers from the table, and
only a load that has passed its last check still adds to it.

### CasWork

A request reserves its reply, looks in the cache, and else runs a blocking job:
admitted by its scope and by the process, queueing for a slot of each in that
order, with the lease checked before it is dispatched and when it starts.
`owners[r]` is the set of those that hold the body (job, future, reply, cache),
whose last one refunds the credit; the cache is bounded in entries and in bytes. An
answer is taken only if the lease still holds. Dropping the future cancels a job that is
pending and detaches one that runs. A scope in `Hung` may never answer.

### CasRange

A file is a sequence of cells, and a digest the sequence it was computed from.
Small objects and strict reads are scanned whole; ranges, of files within
`MAX_FILE_SIZE`, use the facts about the
chunks, if there are any, or build them during a scan. `facts` are reference
counted, `entries` is the cache of them by recency, `owned` the budget of the
index, `credit` that of content. Damage may happen between any two reads.

### UpperDiff

`fs` is the upper tree by inode with a version that every change advances, which
is what the fingerprint compares. `scan.stack` is the recursion of
`collect_directory` and `verify_directory`; each system call is a step, between
which the host may write, create, remove, replace, or swap the root. Extended
attributes are refused where the code refuses them. The
comparison with the lower view, with whiteouts and opaque markers, is
`Changes`; `TrueChanges`, its reference, merges the two trees and compares paths.

### OwnedRange

`task[t]` is a read of a range; `objs` are the verified chunks that are alive,
counted by the cache and the tasks that hold them; `charged` is the output budget
with the reply, the chunk being fetched and the chunks kept. A refused admission
empties the cache and tries once more.

### CacheRetention

`ledger`, `intents` and `temps` are what `WriteAdmission` and the reservations
leave on disk; `op[o]` is the operation of owner `o` and how far its current
write has come (charged, declared, temporary); `Publish` is the rename with the
drop of the admission. `col` is a pass of the collector: what it has proved to be
stale and not yet unlinked; the reset of the ledger is a step of its own.
Entries stand for bytes as well, which are charged, bounded and reset with them.

## 3. Runs

States are the distinct ones. A property of a run is often a conjunction of a few
that belong together, each with a name and a comment of its own beside it in the
module; a mutant is kept for every conjunct.

| run | instance | states | checks |
|---|---|---|---|
| `fence` | 1 mutation, 2 handles, 2 controls, 2 permits per lane | 58,798 | `PauseExcludes`: a scan stays true, no content after the seal; `NoLeakedHandle`; `SealSound`: the seal accounts for handles, seal and latch are final; `ImplementsGate`: refinement; `FenceMovesOn`: pauses drain, closes end |
| `lifecycle` | 1 workspace, 2 operations, shutdown, worker | 1,675,242 | `NoLostEdits`; `TeardownOrdered`: the upper outlives native users, a released pin stays released, retired means unused; `DestroySound`: destroy can be retried and removes everything; `ShutdownSound`: shutdown is quiet and preserves |
| `lifecycle_live` | 1 workspace, 2 operations (create, status, destroy), shutdown, worker | 130,345 | `LifecycleEnds`: every operation ends, shutdown returns |
| `lifecycle_maintenance` | the same, 2 permits | violation | maintenance may begin after shutdown has returned |
| `lifecycle_partial` | the same, 2 permits | violation | an owner registered by a failed create is left unlisted |
| `local_pin` | `MCLocalStore`: 3 hydrations; 2 readers of 5 files; 11 upper trees; 2 readers of ranges | 523,369 | pin: `PromisesSurvive` (success and revocation survive a crash), `HalfDoneIsSafe` (an owner is never wedged, a retired use owns nothing); store: `CasReadsTrue` (bytes and facts are true under damage, an intact file is served), `CasCharges` (index budget and credits are exact); `DiffSound`: a result is the true difference at one moment, a quiet tree gets one, limits hold, an uncertain pause delivers none; `RangesSound`: bytes are true and under the lease, a lone reader of a file is served, no chunk is cached twice, the charge is exact; `StoreSettles`: all of them end |
| `local_pin_damaged` | 2 hydrations | violation | a damaged owner may be taken for inactive |
| `fetch` | 3 callers, 2 contents, 2 jobs, 1 download, 6 identities | 934,349 | `WaitersServed`: no lost waiter, needed work is not cancelled; `SharedRightly`: single flight, own answer; `PermitsExact` |
| `fetch_live` | `MCService`: 2 callers of the coordinator; renewer and one operation; 3 proofs over 2 cells; 3 units in windows of 2 | 434,587 | `LeaseSound`: a window never exceeds the service's grant, a terminal failure is final, an epoch is kept; `RenewerDiligent`: the renewer does not give up or oversleep; `ProofSound`: one flight per path, definite answers are true, requests and tokens need a lease; `TransferExact`: exactly the file is published, both readers agree but for the digest of a chunk, an honest service succeeds within its limits, batches fit, requests need a lease; `ServiceSettles`: callers are answered, flights and all the others end |
| `mount` | `MCMount`: 2 collections of 5 snapshots; 2 calls; 4 reads of 2 scopes | 247,263 | `SyncExact`: the index is true, manifests are exact, an honest service is accepted, routes are bounded; `RecordsFollowPins`: what a release has dropped is not written back by another transaction, live records are kept; `TableExact`: one inode per path, a bounded table; `ViewTrue`: answers and listings are the snapshot's, inodes are stable, hints are proved, nothing is answered or begun after the lease; `WorkAccounted`: jobs and memory are bounded, nothing leaks, only wanted reads start; `MountAnswers`: whoever waits gets out, beside one hung scope |
| `cache` | 2 owners, 1 shared content, 1 fault | 1,229,003 | `DiskAccounted`: the ledger covers the disk and leftovers stay declared; `PinnedSurvives` |
| `cache_refused` | the same, 24 entries, no faults | violation | a refused opening stops every later collection |

Every passing run of safety also checks the types of its modules, in `cache` with
the bound of the ledger.

### Bounds and why they are enough

- `fence`: a race of the fence needs a mutation or a handle on one side and a
  pause on the other; two handles let one be closed while another opens, two
  controls let one seal while another waits. Two permits per lane fill up. The
  safety results are proved for every size, so only liveness rests on the bound.
- `lifecycle`: workspaces share only permits and the entry map. Two operations on
  one workspace give every pairing of operations, together with shutdown, the
  worker, the hydration task and native requests. The liveness run has two
  operations as well, but only create and destroy, which keep the lock over many
  steps, and status for all that keep it for one (`LiveNext`): hydrations, edits and
  uncertainty change what an operation answers, and not whether it ends.
- `local_pin`: three hydrations reach a complete one, its release or damage, and
  a further one that is cut short; a crash may happen any number of times.
- `fetch`: three callers give a waiter that leaves, one that stays, and one of a
  newer flight for the same content; six identities give at least two
  generations and their exhaustion. `MaxConcurrent < MaxJobs` makes leaders queue.
  The liveness run has two callers, enough for a waiter and the leader it needs.
- `local_pin`, store: chunks of 2 cells and files of 1 to 5, so that ranges begin
  and end on, before and after a boundary; one slot for facts and a budget that
  two facts exceed; a file over the size limit; 3 reads and one fault. Diff: one
  tree per kind of change (rewritten, replaced, deleted, opaque, changed kind,
  conflicting, malformed, unsupported, too deep, a file and a link with extended
  attributes), limits that some of them reach, and two writes of the
  host, so that one can undo the other. Ranges: 5 cells in 3 chunks over 2 pages,
  a cache smaller than the file, and credits that the cache can use up.
- `fetch_live`, lease: the clock ends at 5, after two grants of up to 3; two
  attempts of a request of 2 outlast a short grant. Proofs: three callers over
  two cells make the table full, and paths end in a file, a directory and below a
  link. Transfer: 3 units at 2 per request, a coverage word that is exactly full,
  requests that may hold no item at all, and batches that may weigh less than two
  units or less than one.
- `mount`, sync: the shared directory occurs in two snapshots and three times in
  one of them; batches of 2; an index with a record of an older program and one
  whose pages are gone; a bad page file that is removed and one that stays; one
  damage. View: six
  inodes in a tree with a limit of 5; targets below a file, at a directory and
  absent. Work: two requests in each scope, one slot per scope and two in the
  process, credits that do not suffice for everybody, a cache of two entries and
  two bytes, and bodies that fill it, fit beside another, or exceed it.
- `cache`: 22 entries with a headroom of 3 let both owners be pinned and also let
  openings be refused; two deletions cover a temporary and its intent;
  `MaxFaults` bounds crashes and failed cleanups, after each of which everything
  may go on. Three identities suffice for two writers and a leftover.

Symmetry is used for tasks, callers and owners in runs without liveness, where
the constants given to them are interchangeable. Deadlock is not checked where
the system may stop: after shutdown has returned (`lifecycle*`), and when the
scope is exhausted or the bound of faults is spent (`cache*`). In the three
instances of several modules it is checked, and a disjunct of the next-state
relation lets a part stop where nothing is under way.

### Fairness

- Fence: the RwLock and the cleanup semaphore of tokio serve in order of arrival
  (weak fairness of the lock, whose queue is modelled; strong fairness of the
  cleanup permit, whose queue is not); a native operation returns, an orphan's
  cleanup ends, a pause is dropped. Nothing forces a request, a pause, a
  cancellation or a panic.
- Lifecycle: detached tasks run to their end because each of their waits has a
  deadline or fails; the runtime lock is tokio's fair mutex (strong fairness of
  `Lock`); shutdown and the cleanups it spawned are scheduled; the worker visits
  a bounded number of owners (`WorkerLeave`, and strong fairness of `WorkerEnd`).
  Native requests and the kernel get none: owners may never retire.
- Coordinator: leaders are scheduled and their requests time out, the download
  semaphore is first come first served (strong fairness of `Acquire`), a caller
  with an answer takes it. Nobody has to call, leave or panic.
- The other modules: weak fairness of "some task of this module takes a step of
  its own", which is what a running executor gives; system calls return and
  requests time out. Nobody has to begin, to drop a future, to damage a file or to
  let the lease end. The clock of `LeaseKeeper` passes. In `CasWork` the jobs of a
  scope in `Hung` get none. In `FixedView`, `CasWork` and `SnapshotSync` the
  fairness names the condition under which the step is possible, because that is
  cheaper for TLC than to compute it.

In an instance of several modules the fair actions of a part at rest are
disabled, so that its fairness says nothing about behaviours of the others; the
clock of the lease, which could pass at rest, is fair only in behaviours of the
lease. Their liveness properties have the form `Busy ~> ~Busy`: the number of
operations that a part begins is bounded, or a part may stop, so this says that
what has been begun comes to an end.

## 4. Proofs

Each theorem holds for every value of the constants that the assumptions named
here allow. All of them have the same shape: an inductive invariant, a lemma that
`Init` implies it, a lemma per action (or per kind of action) that a step keeps
it, and then the property, which the invariant implies, or, for a property of
steps, which follows from the invariant and one look at every action.

| module | theorems | invariant | assumptions |
|---|---|---|---|
| `MutationFenceProofs` | `FenceTypes`, `FencePauseExcludes`, `FenceNoLeakedHandle`, `FenceSealSound`, `FenceImplementsGate` | `FenceInv` | `FenceAssumption`: the kinds of identity are disjoint, a lane has a permit |
| `FetchCoordinatorProofs` | `FetchTypes`, `FetchWaitersServed`, `FetchSharedRightly`, `FetchPermitsExact` | `FetchInv` | `CoordinatorAssumption`: every path has a content, limits are positive, downloads are no more than jobs |
| `LeaseKeeperProofs` | `LeaseRenewerDiligent`, `LeaseIsSound` | `LeaseInv` | `LeaseAssumption`: grants and timeouts are positive, the renewer is no operation |
| `PathProofProofs` | `PathProofTypes`, `PathProofSound` | `ProofInv` | `ProofAssumption`: there is a cell, every path has a component |
| `LocalPinProofs` | `PinTypes`, `PinPromisesSurvive`, `PinHalfDoneIsSafe` | `PinInv` | `LocalPinAssumption`: the number of hydrations is a number |
| `CacheRetentionProofs`, `CacheLedgerProofs` | `CacheTypes`, `CacheDiskAccounted`, `CachePinnedSurvives` | `CacheInv`, with the ledger `AccountInv` | `CacheAssumption`, `BlobsAssumption`: finitely many owners and contents, contents are no control files, headroom and slack fit the limit |

### The arguments

**Fence.** The properties are not inductive. That a scan stays true needs mutual
exclusion of pauses and admitted requests (`LockInv`), and that no handle is lost
needs, for each phase of a request, which handle it accounts for (`RequestInv`:
an open that has not returned has none, a detached close that has returned leaves
none unless the outcome is unknown, the kernel holds none while a request is
under way). `FenceStep` has one step per action. `FenceSeal` needs more than the
state: the latch is checked again by `seal`, because a waiting close may have been
cancelled since the pause was granted. `GateStep` maps each action to one of the
gate or to a stutter.

**Coordinator.** `MapInv` ties the three views of a flight together: what a caller
believes (`CallerOK`), what a leader is doing (`FlightOK`), and what the map holds
for a content (`EntryOK`). A waiter without an answer is in the entry of its own
flight, or on the list that the leader took under the lock; this is what makes a
completion that answers outside the lock lose nobody. Identities are fresh because
every one in use is at most `nextId`. The permits are cardinalities of sets of
callers, jobs and downloads, each of which a step changes by one member.

**Lease.** `WindowInv` and `TaskOK` say what a task that sampled the window still
knows when it uses the sample: whoever holds the mutex is alone in changing the
window, so a computed next window (`store`) ends no later than `serverExpiry` and
renews no earlier than the present one. A failure that is latched is kept because
every writer has looked at it under the mutex. `QueueOK` is the mutual exclusion.

**Path proofs.** A cell's queue holds exactly the callers that refer to the cell,
once each (`CellInv`), so a cell with an empty queue can be given to another path
without moving anybody, and the head of a queue is alone in proving (`OneFlight`).
What a proof has learned is in `Knows`: all components before the present one are
directories, from which `TruthAt` concludes what the whole path is. That a request is
sent, and a token handed out, only under the lease is read off the two actions that
do so.

**Pin.** `May(f)` is the set of contents that file `f` may have after a crash. The
invariant says, for each step of a hydration or a release, which `May(f)` are
already narrowed to one content (`HydrateInv`, `ReleaseInv`), which combinations
never occur (`FilesInv`), and what a promise pins down for good (`PromiseInv`).
Since it speaks of all that a crash may leave, a crash keeps it. While a hydration
waits between its two sections, the invariant says that no retirement is under way
and that what was retained still is; this is where destroy's join is used.

**Cache.** `CacheInv` says which identities an operation owns, which files a pin
needs at every step of its operation, and that a collector that has planned runs
alone and plans only stale files. The ledger is the difficult part: it covers the
disk, the declarations, the temporaries and also what operations have charged and
not yet written. `LedgerInv` counts the latter as a set of tokens (`Debts`, one
pair per entry an operation owes), so that every action moves tokens between sets
of which only cardinalities matter; no sum over owners is needed.

### What stays with TLC

- Liveness, and with it fairness and `ENABLED`: outside the prover.
- `CasRange`, `SnapshotSync`, `OwnedRange`, `UpperDiff`, `FrameTransfer`: their
  properties are about what a fold, a selection or a recursive function over a
  sequence computes (bytes of chunks, facts about subtrees, the difference of two
  trees, the coverage of an answer), which needs induction over data.
- `FixedView` and `CasWork`: the invariants have the same form as those proved
  above, but are only model-checked so far.
- `WorkspaceLifecycle`: only model-checked so far.
- The four findings are counterexamples, and need no proof.

## 5. Where the code and its comments disagree

1. `service.rs:189`: the worker reads the shutdown flag before it takes its
   permit, so that maintenance can start after shutdown has returned; the comment
   at line 222 says that shutdown joins it (`lifecycle_maintenance`).
2. `service.rs:461`: a create that fails after the store has registered its owner
   leaves a registration that destroy does not know; line 386 promises to retain
   every partial owner (`lifecycle_partial`).
3. `durable.rs:2165`: a bad marker is removed before the repair note is written;
   the comment at line 993 says that a damaged owner remains unknown
   (`local_pin_damaged`).
4. `workspace_pins.rs:211`: an opening that is refused for capacity leaves an
   owner directory without a registration, at which every later discovery fails,
   also that of the collection which the refusal asks for (`cache_refused`).

## 6. What is not modelled

Within the modelled parts:

- pin: the journal of `durable.rs` and the resumption of a partial hydration,
  offline grants;
- cache: the configuration of a scope that already holds files, the time and
  metadata budgets of the collector (any of them ends a pass as a failure does)
  and a rename that a crash undoes;
- coordinator and proofs: the process-wide semaphores, which only refuse more often;
- local store: the fallback after a failed allocation, which reads the same bytes
  without a fact, the meters, and the scope's I/O guard, which is in
  `CacheRetention`;
- diff: a change that leaves the fingerprint as it was: two writes of one size
  within a tick of a coarse file clock are a matter of the kernel and its filesystems;
- sync: the encoding of a page; a page file is good, bad or absent. A collection of
  a snapshot that has been released writes its records again;
- ranges: the fixed charge of the chunk table itself, which the credits exclude, and
  a second open file of the same scope, whose cache a refused read does not empty;
- work: more than one hung scope; two of them fill the slots of the process, and
  then the other scopes wait too;
- lifecycle: a mount that is not ready within its deadline keeps its handle but has
  no recorded identity, so that an unmount refuses it while the kernel shows it.
  The model has this outcome, and `DestroySound` promises a retry only for what was
  recorded;
- view: attributes, file handles, statfs and kernel cache policy, which only read
  what is modelled;
- digests, names, paths and wording everywhere.

Of the other parts, `layer.rs` delegates every call; the wire formats, the HTTP
routes, the command line, configuration, tracing and the wrappers of system calls
are stateless or pure I/O; `workspace/hydrate.rs` is a loop of batches whose task,
fetches and writes are modelled where they happen; `auth.rs` writes one binding
record per directory, once. `PROJECT.json` ("components") has the list.

## 7. Plan

1. `Journal`: append, torn tail and replay (`durable.rs`), and the resumption of a
   hydration from it; implements the contents step of `LocalPin`.
2. Refinement: the pin and use record of `WorkspaceLifecycle` by `LocalPin`; an
   abstract "pinned content is present" specification of `CacheRetention`; a pool
   that refunds a job only when it has ended, by `CasWork`.
3. Composition: `SnapshotSync` under the admission of `CacheRetention`, and
   `FixedView` over the tokens of `PathProof`.
4. Proofs: `WorkspaceLifecycle` (`TeardownOrdered`, `NoLostEdits`); `FixedView`
   (`TableExact`); `CasWork` (`NothingLeaks`) and `OwnedRange` (`OwnedLedger`), whose
   accounting can be counted in tokens as in `CacheLedgerProofs`.
