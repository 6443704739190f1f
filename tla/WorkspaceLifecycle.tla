------------------------- MODULE WorkspaceLifecycle -------------------------
(***************************************************************************)
(* The control plane of v3 workspaces: WorkspaceService                    *)
(* (workspace/service.rs) and the native mount it owns                     *)
(* (workspace/mount.rs).                                                   *)
(*                                                                         *)
(* A member of Tasks is a control operation (create, status, hydrate,      *)
(* cancel, release, destroy) that runs detached from its HTTP caller under *)
(* an operation permit.  Shutdown runs one cleanup per workspace: the      *)
(* workspace itself names that actor.  An actor works on a workspace while *)
(* it holds the workspace's runtime lock; native requests, the hydration   *)
(* task and the kernel run without it.                                     *)
(*                                                                         *)
(* The mutation fence is its abstract gate (MutationGate): a scan under a  *)
(* pause and the seal that follows it are one step, which fails when the   *)
(* fence is uncertain, and a native write needs an unsealed fence.  The    *)
(* durable pin and the cache-use record are reduced to the states the      *)
(* service tells apart.                                                    *)
(***************************************************************************)
EXTENDS Naturals, FiniteSets

CONSTANTS
  Ws,             \* workspace identities (each is used once: uuid)
  Tasks,          \* control operations that may run at the same time
  None,           \* no actor
  MaxWorkspaces, MaxOperations, MaxHydrations   \* WorkspaceConfig capacities

Actors == Tasks \cup Ws

ASSUME LifecycleAssumption ==
  /\ Tasks \cap Ws = {}
  /\ None \notin Actors
  /\ MaxWorkspaces \in Nat \ {0} /\ MaxOperations \in Nat \ {0} /\ MaxHydrations \in Nat \ {0}

VARIABLES
  entries,   \* the workspaces the service lists
  born,      \* the identities handed out so far
  lock,      \* who holds each workspace's runtime lock
  at,        \* where each actor is
  req,       \* what each task does, to which workspace, with which option
  rt,        \* the Runtime record of each workspace, with its WorkspaceMount
  env,       \* the world of each workspace: disk, kernel, native requests, cache
  shut,      \* shutdown_cleanup
  worker     \* the background cache worker

vars == <<entries, born, lock, at, req, rt, env, shut, worker>>

Ops == {"create", "status", "hydrate", "cancel", "release", "destroy"}
Parts == {"store", "lower", "dir", "upper", "mountpoint", "mount"}

\* The steps of an operation after it has its lock.
CreateSteps  == {"prepare", "lower", "paths", "native", "mount", "ready"}
RetireSteps  == {"retire", "detach", "owners", "recover", "unmounted"}
RemoveSteps  == {"checked", "released", "upper_gone", "paths_gone", "use_retired"}
Steps == {"idle", "permitted", "queued", "locked", "ok", "failed"}
           \cup CreateSteps \cup RetireSteps \cup RemoveSteps

\* handle is the mount's ownership: a MountHandle ("mounted"), a pending retry
\* of the unmount ("retry"), neither yet ("none"), or retired. known says that
\* the identity of the mounted root was read (mounted_identity).
Runtimes ==
  [state : {"Creating", "Mounted", "Retiring", "Unmounted", "Failed"},
   hyd   : {"Idle", "Running", "Complete", "Cancelled", "Failed"},
   job   : {"none", "started", "hydrating", "full", "failed"},
   built : SUBSET Parts, removed : SUBSET {"upper", "mountpoint"},
   handle : {"none", "mounted", "retry", "retired"}, known : BOOLEAN]

\* edits is the private upper, kmount the kernel mount, native says that some
\* session or request still owns the overlay.
Worlds ==
  [dir : BOOLEAN, mountpoint : BOOLEAN, edits : {"absent", "clean", "dirty"},
   kmount : BOOLEAN, native : BOOLEAN, sealed : BOOLEAN, uncertain : BOOLEAN,
   pin : {"none", "open", "complete", "revoking", "released"},
   use : {"none", "live", "retired"}]

NoRequest == [op |-> "none", ws |-> None, opt |-> FALSE]

Target(a) == IF a \in Ws THEN a ELSE req[a].ws
Op(a) == IF a \in Ws THEN "shutdown" ELSE req[a].op
Option(a) == a \in Tasks /\ req[a].opt   \* Full for create, discard_dirty for destroy

Init ==
  /\ entries = {} /\ born = {}
  /\ lock = [w \in Ws |-> None]
  /\ at = [a \in Actors |-> "idle"]
  /\ req = [t \in Tasks |-> NoRequest]
  /\ rt = [w \in Ws |-> [state |-> "Creating", hyd |-> "Idle", job |-> "none",
                         built |-> {}, removed |-> {}, handle |-> "none", known |-> FALSE]]
  /\ env = [w \in Ws |-> [dir |-> FALSE, mountpoint |-> FALSE, edits |-> "absent",
                          kmount |-> FALSE, native |-> FALSE, sealed |-> FALSE,
                          uncertain |-> FALSE, pin |-> "none", use |-> "none"]]
  /\ shut = "no"
  /\ worker = "idle"

-----------------------------------------------------------------------------
(* Permits, the lock, and how a step of an actor ends.                     *)

PermitsTaken == Cardinality({t \in Tasks : at[t] # "idle"})
                  + (IF worker \in {"working"} \cup Ws THEN 1 ELSE 0)

NoPermitTaken == (\A t \in Tasks : at[t] = "idle") /\ worker \notin {"working"} \cup Ws

\* A capacity permit lives as long as the workspace: while it is listed or
\* some operation still refers to it.
Alive == entries \cup {req[t].ws : t \in {u \in Tasks : at[u] # "idle"}}

\* try_acquire_owned on the operations semaphore: shutdown's drain takes what
\* is released as soon as it waits, and keeps all of it until it returns.
PermitFree == PermitsTaken < MaxOperations /\ shut \in {"no", "flagged", "done"}

\* The worker may hold a runtime lock as well (try_lock in maintain_cache_scope).
Free(w) == lock[w] = None /\ worker # w

Hydrating == {w \in Ws : rt[w].job \in {"started", "hydrating"}}
                \cup {t \in Tasks : at[t] \in CreateSteps \ {"prepare"} /\ Option(t)}

Go(a, step) == at' = [at EXCEPT ![a] = step] /\ UNCHANGED req

\* An actor ends: it drops the lock and its permit. Shutdown remembers whether
\* its cleanup succeeded.
Finish(a, result) ==
  /\ at' = [at EXCEPT ![a] = IF a \in Ws THEN result ELSE "idle"]
  /\ req' = [t \in Tasks |-> IF t = a THEN NoRequest ELSE req[t]]
  /\ lock' = [lock EXCEPT ![Target(a)] = None]

Static == UNCHANGED <<entries, born, shut, worker>>

\* The entry is found, then WorkspaceService::owned takes an operation permit.
Begin(t, op, w, opt) ==
  /\ at[t] = "idle" /\ op \in Ops \ {"create"} /\ w \in entries
  /\ opt => op = "destroy"
  /\ PermitFree
  /\ req' = [req EXCEPT ![t] = [op |-> op, ws |-> w, opt |-> opt]]
  /\ at' = [at EXCEPT ![t] = "permitted"]
  /\ UNCHANGED <<entries, born, lock, rt, env, shut, worker>>

\* create reads the shutdown flag and takes a capacity permit first.
BeginCreate(t, w, full) ==
  /\ at[t] = "idle" /\ w \notin born
  /\ shut = "no" /\ PermitFree
  /\ Cardinality(Alive) < MaxWorkspaces
  /\ born' = born \cup {w}
  /\ req' = [req EXCEPT ![t] = [op |-> "create", ws |-> w, opt |-> full]]
  /\ at' = [at EXCEPT ![t] = "permitted"]
  /\ UNCHANGED <<entries, lock, rt, env, shut, worker>>

\* Mutant: owned does not read the flag again under its permit.
AdmitUnflagged(t) ==
  /\ at[t] = "permitted"
  /\ entries' = IF Op(t) = "create" THEN entries \cup {Target(t)} ELSE entries
  /\ Go(t, "queued")
  /\ UNCHANGED <<born, lock, rt, env, shut, worker>>

\* owned reads the shutdown flag under its permit, then runs the operation
\* detached; create publishes its entry before it asks for the runtime lock.
Admit(t) ==
  /\ at[t] = "permitted" /\ shut = "no"
  /\ entries' = IF Op(t) = "create" THEN entries \cup {Target(t)} ELSE entries
  /\ Go(t, "queued")
  /\ UNCHANGED <<born, lock, rt, env, shut, worker>>

Refuse(t) ==
  /\ at[t] = "permitted" /\ shut # "no"
  /\ at' = [at EXCEPT ![t] = "idle"]
  /\ req' = [req EXCEPT ![t] = NoRequest]
  /\ Static /\ UNCHANGED <<lock, rt, env>>

Lock(a) ==
  /\ at[a] = "queued" /\ Free(Target(a))
  /\ lock' = [lock EXCEPT ![Target(a)] = a]
  /\ Go(a, IF Op(a) = "create" THEN "prepare" ELSE "locked")
  /\ Static /\ UNCHANGED <<rt, env>>

-----------------------------------------------------------------------------
(* Path bindings and the dirty check.                                      *)

\* check_private_paths: a recorded path is there unless it was removed, and an
\* unrecorded one is not.
PathsBound(w) ==
  /\ env[w].dir = ("dir" \in rt[w].built)
  /\ (env[w].edits # "absent") = ("upper" \in rt[w].built /\ "upper" \notin rt[w].removed)

\* check_retired_mountpoint: the plain directory, not a mounted root.
MountpointBound(w) ==
  /\ ~env[w].kmount
  /\ env[w].mountpoint = ("mountpoint" \in rt[w].built /\ "mountpoint" \notin rt[w].removed)

\* WorkspaceService::dirty: with a native overlay the scan needs a pause, which
\* an uncertain fence refuses; a failed preparation is scanned without one.
Dirty(w) ==
  IF env[w].edits = "absent" THEN "Clean"
  ELSE IF "lower" \notin rt[w].built \/ ("mount" \in rt[w].built /\ env[w].uncertain) THEN "Unknown"
  ELSE IF env[w].edits = "dirty" THEN "Dirty" ELSE "Clean"

\* refuse_dirty lets a clean upper pass, and a dirty one with discard_dirty.
Accepted(a, dirty) == dirty = "Clean" \/ (dirty = "Dirty" /\ Option(a))

-----------------------------------------------------------------------------
(* Hydration: reconcile_hydrate, spawn_hydrate and observe.                *)

\* A finished task is joined; its result becomes the hydration state. A task that
\* succeeds has published a full snapshot: hydrate_workspace has no other success.
JobResult(job) ==
  CASE job = "full" -> "Complete" [] job = "failed" -> "Failed" [] OTHER -> "Cancelled"

\* reconcile_hydrate(runtime, true) aborts the task and waits for it. Blocking jobs
\* that the task had started (the retention of its root, a pass of the collector)
\* are not waited for; each takes the owner's lock and looks at its use again.
Joined(r) ==
  IF r.job = "none" THEN r ELSE [r EXCEPT !.hyd = JobResult(r.job), !.job = "none"]

\* reconcile_hydrate(runtime, false) leaves an unfinished task alone.
Reconciled(r) == IF r.job \in {"full", "failed"} THEN Joined(r) ELSE r

\* The handle is held and the kernel shows the directory that was mounted.
IsReady(w, r) == r.handle = "mounted" /\ r.known /\ env[w].kmount

\* observe: a mounted workspace that is not ready has failed, and a completed
\* hydration is only believed when the durable pin still says so.
Observed(w, r, ready, audited) ==
  LET s == Reconciled(r)
      mounted == IsReady(w, r) /\ ready
  IN  [s EXCEPT
         !.state = IF @ = "Mounted" /\ ~mounted THEN "Failed" ELSE @,
         !.hyd = IF @ = "Complete" /\ ~(audited /\ env[w].pin = "complete") THEN "Idle" ELSE @]

\* spawn_hydrate.
Spawned(r) == [r EXCEPT !.job = "started", !.hyd = "Running"]

\* The task takes the publication lock: COMPLETE and a release record go.
JobBegin(w) ==
  /\ rt[w].job = "started"
  /\ rt' = [rt EXCEPT ![w].job = "hydrating"]
  /\ env' = [env EXCEPT ![w].pin = "open"]
  /\ Static /\ UNCHANGED <<lock, at, req>>

\* The durable commit, then the task's result.
JobPublish(w) ==
  /\ rt[w].job = "hydrating"
  /\ rt' = [rt EXCEPT ![w].job = "full"]
  /\ env' = [env EXCEPT ![w].pin = "complete"]
  /\ Static /\ UNCHANGED <<lock, at, req>>

JobFail(w) ==
  /\ rt[w].job \in {"started", "hydrating"}
  /\ rt' = [rt EXCEPT ![w].job = "failed"]
  /\ Static /\ UNCHANGED <<lock, at, req, env>>

-----------------------------------------------------------------------------
(* create: prepare_inner. Whatever fails, the entry stays and records it.  *)

\* The hydration permit of a full delivery, the reader, and the durable store
\* with its registration and its cache use. The maintenance of the scope that comes
\* before it tries the locks of other workspaces and never waits for one.
CreateBind(t) ==
  /\ at[t] = "prepare"
  /\ Option(t) => Cardinality(Hydrating) < MaxHydrations
  /\ LET w == Target(t) IN
       /\ rt' = [rt EXCEPT ![w].built = @ \cup {"store"}]
       /\ env' = [env EXCEPT ![w].pin = "open", ![w].use = "live"]
  /\ Go(t, "lower")
  /\ Static /\ UNCHANGED lock

CreateLower(t) ==
  /\ at[t] = "lower"
  /\ rt' = [rt EXCEPT ![Target(t)].built = @ \cup {"lower"}]
  /\ Go(t, "paths")
  /\ Static /\ UNCHANGED <<lock, env>>

\* The private directories are created and bound one after the other, then
\* checked: paths that a destroy has already declared removed do not pass.
CreatePaths(t) ==
  /\ at[t] = "paths"
  /\ LET w == Target(t) IN
       /\ rt' = [rt EXCEPT ![w].built = @ \cup {"dir", "upper", "mountpoint"},
                           ![w].state = IF rt[w].removed = {} THEN @ ELSE "Failed"]
       /\ env' = [env EXCEPT ![w].dir = TRUE, ![w].edits = "clean", ![w].mountpoint = TRUE]
       /\ IF rt[w].removed = {}
          THEN Go(t, "native") /\ UNCHANGED lock
          ELSE Finish(t, "failed")
  /\ Static

\* One of them fails: a prefix of them is created and bound, and the next one
\* may exist although its identity was never recorded.
CreatePathsFail(t) ==
  /\ at[t] = "paths"
  /\ \E n \in 0 .. 2, torn \in BOOLEAN :
       LET w == Target(t)
           bound == {p \in {"dir", "upper"} : (p = "dir" /\ n >= 1) \/ (p = "upper" /\ n >= 2)}
           made == n + (IF torn THEN 1 ELSE 0)
       IN /\ rt' = [rt EXCEPT ![w].built = @ \cup bound, ![w].state = "Failed"]
          /\ env' = [env EXCEPT ![w].dir = made >= 1,
                                ![w].edits = IF made >= 2 THEN "clean" ELSE @,
                                ![w].mountpoint = made >= 3]
  /\ Finish(t, "failed")
  /\ Static

CreateNative(t) ==
  /\ at[t] = "native"
  /\ rt' = [rt EXCEPT ![Target(t)].built = @ \cup {"mount"}]
  /\ Go(t, "mount")
  /\ Static /\ UNCHANGED <<lock, env>>

\* WorkspaceMount::mount keeps the handle before it waits for readiness: the root
\* has not answered yet, and its identity is not known.
CreateMount(t) ==
  /\ at[t] = "mount"
  /\ rt' = [rt EXCEPT ![Target(t)].handle = "mounted"]
  /\ env' = [env EXCEPT ![Target(t)].kmount = TRUE, ![Target(t)].native = TRUE]
  /\ Go(t, "ready")
  /\ Static /\ UNCHANGED lock

\* The mounted root has answered and its identity is recorded; a full delivery
\* starts its hydration with the permit it took first, and create answers with an
\* observation.
CreateReady(t) ==
  /\ at[t] = "ready" /\ env[Target(t)].kmount
  /\ LET w == Target(t)
         r == [rt[w] EXCEPT !.state = "Mounted", !.known = TRUE]
     IN \E ready, audited \in BOOLEAN :
          rt' = [rt EXCEPT ![w] = Observed(w, IF Option(t) THEN Spawned(r) ELSE r, ready, audited)]
  /\ Finish(t, "ok")
  /\ Static /\ UNCHANGED env

\* Any step of create may fail. Opening the store can fail after it has
\* registered the owner, before the runtime has the store. Readiness can time out
\* with the identity unknown, and the path check after it fail with it known.
CreateFail(t) ==
  /\ at[t] \in CreateSteps
  /\ \E known \in {FALSE} \cup (IF at[t] = "ready" THEN {env[Target(t)].kmount} ELSE {}) :
       rt' = [rt EXCEPT ![Target(t)].state = "Failed", ![Target(t)].known = known]
  /\ IF at[t] = "prepare"
     THEN \E pin \in {env[Target(t)].pin, "open"} : env' = [env EXCEPT ![Target(t)].pin = pin]
     ELSE UNCHANGED env
  /\ Finish(t, "failed")
  /\ Static

-----------------------------------------------------------------------------
(* status (and each entry of list), hydrate, cancel and release.           *)

Status(t) ==
  /\ at[t] = "locked" /\ Op(t) = "status"
  /\ \E ready, audited \in BOOLEAN :
       rt' = [rt EXCEPT ![Target(t)] = Observed(Target(t), @, ready, audited)]
  /\ Finish(t, "ok")
  /\ Static /\ UNCHANGED env

\* Mutant: start_hydrate does not ask whether the workspace is mounted.
StartHydrateUnmounted(t) ==
  /\ at[t] = "locked" /\ Op(t) = "hydrate"
  /\ LET w == Target(t)
         r == Reconciled(rt[w])
     IN rt' = [rt EXCEPT ![w] = IF r.job = "none" /\ "store" \in r.built THEN Spawned(r) ELSE r]
  /\ Finish(t, "ok")
  /\ Static /\ UNCHANGED env

\* start_hydrate: a finished task is joined first, a running one kept.
StartHydrate(t) ==
  /\ at[t] = "locked" /\ Op(t) = "hydrate"
  /\ LET w == Target(t)
         r == Reconciled(rt[w])
         admitted == r.state = "Mounted" /\ Cardinality(Hydrating) < MaxHydrations
     IN IF r.job = "none" /\ ~admitted
        THEN rt' = [rt EXCEPT ![w] = r]
        ELSE \E ready, audited \in BOOLEAN :
               rt' = [rt EXCEPT ![w] =
                        Observed(w, IF r.job = "none" THEN Spawned(r) ELSE r, ready, audited)]
  /\ Finish(t, "ok")
  /\ Static /\ UNCHANGED env

CancelHydrate(t) ==
  /\ at[t] = "locked" /\ Op(t) = "cancel"
  /\ \E ready, audited \in BOOLEAN :
       rt' = [rt EXCEPT ![Target(t)] = Observed(Target(t), Joined(@), ready, audited)]
  /\ Finish(t, "ok")
  /\ Static /\ UNCHANGED env

\* release_local_pin joins the task, then revokes; it may fail before, or after
\* the revocation has begun.
ReleasePin(t) ==
  /\ at[t] = "locked" /\ Op(t) = "release"
  /\ LET w == Target(t)
         r == Joined(rt[w])
     IN \E pin \in {"revoking", "released", env[w].pin} :
          IF "store" \in r.built /\ pin = "released"
          THEN /\ rt' = [rt EXCEPT ![w] = [r EXCEPT !.hyd = "Idle"]]
               /\ env' = [env EXCEPT ![w].pin = pin]
          ELSE /\ rt' = [rt EXCEPT ![w] = r]
               /\ env' = [env EXCEPT ![w].pin =
                            IF "store" \in r.built /\ @ # "released" THEN pin ELSE @]
  /\ Finish(t, "ok")
  /\ Static

-----------------------------------------------------------------------------
(* WorkspaceMount::unmount, for destroy and for shutdown.                  *)

\* Mutant: the wait for the overlay's owners has no deadline.
FailNotWaiting(a) ==
  /\ at[a] \in (RetireSteps \cup RemoveSteps \cup {"locked"}) \ {"owners"}
  /\ Op(a) \in {"destroy", "shutdown"}
  /\ rt' = [rt EXCEPT ![Target(a)] = IF Op(a) = "shutdown" THEN Joined(@) ELSE @]
  /\ Finish(a, "failed")
  /\ Static /\ UNCHANGED env

\* Any error ends the operation; what it has done so far stays. Past the paths
\* nothing is left that could fail when there is neither a store nor a directory.
Fail(a) ==
  /\ \/ at[a] \in RetireSteps \cup RemoveSteps
     \/ at[a] = "locked" /\ Op(a) \in {"destroy", "shutdown"}
  /\ at[a] \in {"paths_gone", "use_retired"} => {"store", "dir"} \cap rt[Target(a)].built # {}
  /\ rt' = [rt EXCEPT ![Target(a)] = IF Op(a) = "shutdown" THEN Joined(@) ELSE @]
  /\ Finish(a, "failed")
  /\ Static /\ UNCHANGED env

\* The fence is sealed and pending copy-ups are recovered, which may leave an
\* upper that a scan reports as dirty.
Recovered(w) ==
  {[env[w] EXCEPT !.sealed = TRUE, !.edits = e] :
      e \in {env[w].edits} \cup (IF env[w].edits = "clean" THEN {"dirty"} ELSE {})}

\* The mountpoint is the plain directory of the workspace, or the mounted root that
\* mount() saw: a mount whose root never answered in time is neither.
Identified(w) == env[w].mountpoint /\ (env[w].kmount => rt[w].known)

\* First recovery. A retired mount only recovers; otherwise the mountpoint is
\* identified, the handle, if any, is taken and the retry obligation recorded.
Retire(a) ==
  /\ at[a] = "retire"
  /\ LET w == Target(a) IN
       /\ ~env[w].uncertain
       /\ \E e \in Recovered(w) : env' = [env EXCEPT ![w] = e]
       /\ IF rt[w].handle = "retired"
          THEN /\ rt' = [rt EXCEPT ![w].state = "Unmounted"]
               /\ Go(a, "unmounted")
          ELSE /\ Identified(w)
               /\ rt' = [rt EXCEPT ![w].handle = "retry"]
               /\ Go(a, IF rt[w].handle = "none" THEN "owners" ELSE "detach")
  /\ Static /\ UNCHANGED lock

\* handle.unmount(), or unmount_path when that fails or times out.
Detach(a) ==
  /\ at[a] = "detach"
  /\ env' = [env EXCEPT ![Target(a)].kmount = FALSE]
  /\ Go(a, "owners")
  /\ Static /\ UNCHANGED <<lock, rt>>

\* Mutant: the session's teardown is taken for the end of its requests.
OwnersUnwaited(a) ==
  /\ at[a] = "owners"
  /\ Go(a, "recover")
  /\ Static /\ UNCHANGED <<lock, rt, env>>

\* wait_for_retired_owners: the overlay has no other owner left.
Owners(a) ==
  /\ at[a] = "owners" /\ ~env[Target(a)].native
  /\ Go(a, "recover")
  /\ Static /\ UNCHANGED <<lock, rt, env>>

Recover(a) ==
  /\ at[a] = "recover"
  /\ LET w == Target(a) IN
       /\ ~env[w].uncertain
       /\ \E e \in Recovered(w) : env' = [env EXCEPT ![w] = e]
       /\ rt' = [rt EXCEPT ![w].handle = "retired", ![w].state = "Unmounted"]
  /\ Go(a, "unmounted")
  /\ Static /\ UNCHANGED lock

-----------------------------------------------------------------------------
(* destroy.                                                                *)

\* Mutant: the hydration task is aborted but not waited for.
DestroyAdmitUnjoined(t) ==
  /\ at[t] = "locked" /\ Op(t) = "destroy"
  /\ LET w == Target(t)
         mount == "mount" \in rt[w].built
     IN /\ PathsBound(w) /\ Accepted(t, Dirty(w))
        /\ mount => ~env[w].uncertain
        /\ rt' = [rt EXCEPT ![w].state = IF mount THEN "Retiring" ELSE "Unmounted"]
        /\ env' = [env EXCEPT ![w].sealed = @ \/ mount]
        /\ Go(t, IF mount THEN "retire" ELSE "unmounted")
  /\ Static /\ UNCHANGED lock

\* The first scan, under the pause whose seal keeps its answer true; then the
\* hydration task is aborted and joined. Without a native overlay the upper is
\* scanned as it is.
DestroyAdmit(t) ==
  /\ at[t] = "locked" /\ Op(t) = "destroy"
  /\ LET w == Target(t)
         mount == "mount" \in rt[w].built
     IN /\ PathsBound(w) /\ Accepted(t, Dirty(w))
        /\ mount => ~env[w].uncertain
        /\ rt' = [rt EXCEPT ![w] = [Joined(rt[w]) EXCEPT
                                      !.state = IF mount THEN "Retiring" ELSE "Unmounted"]]
        /\ env' = [env EXCEPT ![w].sealed = @ \/ mount]
        /\ Go(t, IF mount THEN "retire" ELSE "unmounted")
  /\ Static /\ UNCHANGED lock

\* Mutant: the scan before the unmount is taken for the final one.
DestroyCheckOnce(t) ==
  /\ at[t] = "unmounted" /\ Op(t) = "destroy"
  /\ PathsBound(Target(t)) /\ MountpointBound(Target(t))
  /\ Go(t, "checked")
  /\ Static /\ UNCHANGED <<lock, rt, env>>

\* The final scan follows the retirement of every native owner.
DestroyCheck(t) ==
  /\ at[t] = "unmounted" /\ Op(t) = "destroy"
  /\ LET w == Target(t)
     IN PathsBound(w) /\ Accepted(t, Dirty(w)) /\ MountpointBound(w)
  /\ Go(t, "checked")
  /\ Static /\ UNCHANGED <<lock, rt, env>>

\* release_local_pin of the durable store, if there is one; it may fail after
\* the revocation has begun.
DestroyRelease(t) ==
  /\ at[t] = "checked"
  /\ env' = [env EXCEPT ![Target(t)].pin = IF "store" \in rt[Target(t)].built THEN "released" ELSE @]
  /\ Go(t, "released")
  /\ Static /\ UNCHANGED <<lock, rt>>

DestroyReleaseTorn(t) ==
  /\ at[t] = "checked" /\ "store" \in rt[Target(t)].built
  /\ env[Target(t)].pin # "released"
  /\ env' = [env EXCEPT ![Target(t)].pin = "revoking"]
  /\ Finish(t, "failed")
  /\ Static /\ UNCHANGED rt

\* Mutant: the removal of the upper is not recorded.
DestroyUpperUnmarked(t) ==
  /\ at[t] = "released"
  /\ PathsBound(Target(t)) /\ MountpointBound(Target(t))
  /\ env' = [env EXCEPT ![Target(t)].edits = "absent"]
  /\ Go(t, "upper_gone")
  /\ Static /\ UNCHANGED <<lock, rt>>

\* Mutant: every private path is recorded as removed with the upper.
DestroyUpperAll(t) ==
  /\ at[t] = "released"
  /\ PathsBound(Target(t)) /\ MountpointBound(Target(t))
  /\ rt' = [rt EXCEPT ![Target(t)].removed = {"dir", "upper", "mountpoint"}]
  /\ env' = [env EXCEPT ![Target(t)].edits = "absent"]
  /\ Go(t, "upper_gone")
  /\ Static /\ UNCHANGED lock

\* remove_dir_all(upper). A preparation that never bound its directory has
\* nothing to remove, provided that it has no native overlay.
DestroyUpper(t) ==
  /\ at[t] = "released"
  /\ LET w == Target(t) IN
       /\ PathsBound(w) /\ MountpointBound(w)
       /\ IF "dir" \in rt[w].built
          THEN /\ rt' = [rt EXCEPT ![w].removed = @ \cup {"upper"}]
               /\ env' = [env EXCEPT ![w].edits = "absent"]
               /\ Go(t, "upper_gone")
          ELSE /\ "mount" \notin rt[w].built
               /\ rt' = [rt EXCEPT ![w].removed = {"upper", "mountpoint"}]
               /\ Go(t, "paths_gone")
               /\ UNCHANGED env
  /\ Static /\ UNCHANGED lock

\* It may fail after removing some or all of the upper's contents.
DestroyUpperTorn(t) ==
  /\ at[t] = "released" /\ "dir" \in rt[Target(t)].built
  /\ PathsBound(Target(t)) /\ MountpointBound(Target(t))
  /\ env[Target(t)].edits = "dirty"
  /\ env' = [env EXCEPT ![Target(t)].edits = "clean"]
  /\ Finish(t, "failed")
  /\ Static /\ UNCHANGED rt

DestroyMountpoint(t) ==
  /\ at[t] = "upper_gone"
  /\ rt' = [rt EXCEPT ![Target(t)].removed = @ \cup {"mountpoint"}]
  /\ env' = [env EXCEPT ![Target(t)].mountpoint = FALSE]
  /\ Go(t, "paths_gone")
  /\ Static /\ UNCHANGED lock

\* Mutant: only a workspace with private paths has its cache use retired.
DestroyUsePathsOnly(t) ==
  /\ at[t] = "paths_gone"
  /\ env' = [env EXCEPT ![Target(t)].use = IF "dir" \in rt[Target(t)].built THEN "retired" ELSE @]
  /\ Go(t, "use_retired")
  /\ Static /\ UNCHANGED <<lock, rt>>

\* retire_cache_use refuses while the pin is not completely released.
DestroyUse(t) ==
  /\ at[t] = "paths_gone"
  /\ LET w == Target(t) IN
       /\ PathsBound(w) /\ MountpointBound(w)
       /\ IF "store" \in rt[w].built
          THEN /\ env[w].pin = "released"
               /\ env' = [env EXCEPT ![w].use = "retired"]
          ELSE UNCHANGED env
  /\ Go(t, "use_retired")
  /\ Static /\ UNCHANGED <<lock, rt>>

\* The directory and then the entry go.
DestroyEntry(t) ==
  /\ at[t] = "use_retired"
  /\ env' = [env EXCEPT ![Target(t)].dir = IF "dir" \in rt[Target(t)].built THEN FALSE ELSE @]
  /\ entries' = entries \ {Target(t)}
  /\ Finish(t, "ok")
  /\ UNCHANGED <<born, rt, shut, worker>>

-----------------------------------------------------------------------------
(* shutdown_cleanup.                                                       *)

ShutdownFlag ==
  /\ shut = "no" /\ shut' = "flagged"
  /\ UNCHANGED <<entries, born, lock, at, req, rt, env, worker>>

ShutdownDrain ==
  /\ shut = "flagged" /\ shut' = "draining"
  /\ UNCHANGED <<entries, born, lock, at, req, rt, env, worker>>

\* Every operation permit is back: one cleanup for each listed workspace.
ShutdownEntries ==
  /\ shut = "draining" /\ NoPermitTaken
  /\ shut' = "cleanup"
  /\ at' = [a \in Actors |-> IF a \in entries THEN "queued" ELSE at[a]]
  /\ UNCHANGED <<entries, born, lock, req, rt, env, worker>>

\* The hydration task is joined and the mount, if there is one, retired.
ShutdownJoin(w) ==
  /\ at[w] = "locked" /\ PathsBound(w)
  /\ rt' = [rt EXCEPT ![w] = Joined(@)]
  /\ IF "mount" \in rt[w].built THEN Go(w, "retire") /\ UNCHANGED lock ELSE Finish(w, "ok")
  /\ Static /\ UNCHANGED env

\* Mutant: shutdown releases the pin as destroy does.
ShutdownUnmountedReleasing(w) ==
  /\ at[w] = "unmounted"
  /\ env' = [env EXCEPT ![w].pin = "released"]
  /\ Finish(w, "ok")
  /\ Static /\ UNCHANGED rt

ShutdownUnmounted(w) ==
  /\ at[w] = "unmounted"
  /\ Finish(w, "ok")
  /\ Static /\ UNCHANGED <<rt, env>>

ShutdownReturn ==
  /\ shut = "cleanup" /\ \A w \in entries : at[w] \in {"ok", "failed"}
  /\ shut' = "done"
  /\ UNCHANGED <<entries, born, lock, at, req, rt, env, worker>>

-----------------------------------------------------------------------------
(* The background cache worker, and the world around the service.          *)

\* The worker, started by the first create, reads the flag and only then takes
\* an operation permit.
WorkerTick ==
  /\ worker = "idle" /\ born # {}
  /\ worker' = IF shut = "no" THEN "checked" ELSE "stopped"
  /\ UNCHANGED <<entries, born, lock, at, req, rt, env, shut>>

WorkerAcquire ==
  /\ worker = "checked"
  /\ worker' = IF PermitFree THEN "working" ELSE "idle"
  /\ UNCHANGED <<entries, born, lock, at, req, rt, env, shut>>

\* It promotes an owner under that owner's lock, if it gets it at once.
WorkerVisit(w) ==
  /\ worker = "working" /\ lock[w] = None
  /\ "store" \in rt[w].built /\ "upper" \notin rt[w].removed
  /\ worker' = w
  /\ UNCHANGED <<entries, born, lock, at, req, rt, env, shut>>

WorkerLeave ==
  /\ worker \in Ws
  /\ worker' = "working"
  /\ UNCHANGED <<entries, born, lock, at, req, rt, env, shut>>

WorkerEnd ==
  /\ worker = "working" /\ worker' = "idle"
  /\ UNCHANGED <<entries, born, lock, at, req, rt, env, shut>>

\* A native request changes the upper unless the fence is sealed.
NativeWrite(w) ==
  /\ env[w].native /\ ~env[w].sealed /\ env[w].edits = "clean"
  /\ env' = [env EXCEPT ![w].edits = "dirty"]
  /\ Static /\ UNCHANGED <<lock, at, req, rt>>

\* A native mutation is lost track of: the fence latches uncertain.
NativeUncertain(w) ==
  /\ env[w].native /\ ~env[w].sealed /\ ~env[w].uncertain
  /\ env' = [env EXCEPT ![w].uncertain = TRUE]
  /\ Static /\ UNCHANGED <<lock, at, req, rt>>

\* The kernel mount may go away on its own; the session's requests end later.
KernelGone(w) ==
  /\ env[w].kmount
  /\ env' = [env EXCEPT ![w].kmount = FALSE]
  /\ Static /\ UNCHANGED <<lock, at, req, rt>>

NativeEnds(w) ==
  /\ env[w].native /\ ~env[w].kmount
  /\ env' = [env EXCEPT ![w].native = FALSE]
  /\ Static /\ UNCHANGED <<lock, at, req, rt>>

-----------------------------------------------------------------------------

CreateStep(t) ==
  \/ CreateBind(t) \/ CreateLower(t) \/ CreatePaths(t) \/ CreatePathsFail(t)
  \/ CreateNative(t) \/ CreateMount(t) \/ CreateReady(t) \/ CreateFail(t)

RetireStep(a) == Retire(a) \/ Detach(a) \/ Owners(a) \/ Recover(a) \/ Fail(a)

DestroyStep(t) ==
  \/ DestroyAdmit(t) \/ DestroyCheck(t) \/ DestroyRelease(t) \/ DestroyReleaseTorn(t)
  \/ DestroyUpper(t) \/ DestroyUpperTorn(t) \/ DestroyMountpoint(t) \/ DestroyUse(t)
  \/ DestroyEntry(t)

TaskStep(t) ==
  \/ Admit(t) \/ Refuse(t)
  \/ CreateStep(t) \/ DestroyStep(t) \/ RetireStep(t)
  \/ Status(t) \/ StartHydrate(t) \/ CancelHydrate(t) \/ ReleasePin(t)

CleanupStep(w) == ShutdownJoin(w) \/ ShutdownUnmounted(w) \/ RetireStep(w)

ShutdownStep == ShutdownDrain \/ ShutdownEntries \/ ShutdownReturn

World(w) ==
  \/ JobBegin(w) \/ JobPublish(w) \/ JobFail(w)
  \/ NativeWrite(w) \/ NativeUncertain(w) \/ KernelGone(w) \/ NativeEnds(w)

Next ==
  \/ \E t \in Tasks, w \in Ws, opt \in BOOLEAN :
       BeginCreate(t, w, opt) \/ \E op \in Ops : Begin(t, op, w, opt)
  \/ \E a \in Actors : Lock(a)
  \/ \E t \in Tasks : TaskStep(t)
  \/ \E w \in Ws : CleanupStep(w) \/ World(w) \/ WorkerVisit(w)
  \/ ShutdownFlag \/ ShutdownStep
  \/ WorkerTick \/ WorkerAcquire \/ WorkerLeave \/ WorkerEnd

Spec == Init /\ [][Next]_vars

\* Detached tasks run to their end: every wait in them has a deadline or fails.
\* The runtime lock is tokio's fair mutex. The worker visits a bounded number
\* of owners before it gives its permit back.
Fairness ==
  /\ \A t \in Tasks : WF_vars(TaskStep(t))
  /\ \A w \in Ws : WF_vars(CleanupStep(w))
  /\ \A a \in Actors : SF_vars(Lock(a))
  /\ WF_vars(ShutdownStep)
  /\ WF_vars(WorkerAcquire) /\ WF_vars(WorkerLeave) /\ SF_vars(WorkerEnd)

FairSpec == Spec /\ Fairness

-----------------------------------------------------------------------------
(* Properties.                                                             *)

\* Every variable has its type.
TypeOK ==
  /\ entries \subseteq Ws /\ born \subseteq Ws
  /\ lock \in [Ws -> Actors \cup {None}]
  /\ at \in [Actors -> Steps]
  /\ req \in [Tasks -> [op : Ops, ws : Ws, opt : BOOLEAN] \cup {NoRequest}]
  /\ rt \in [Ws -> Runtimes]
  /\ env \in [Ws -> Worlds]
  /\ shut \in {"no", "flagged", "draining", "cleanup", "done"}
  /\ worker \in {"idle", "checked", "working", "stopped"} \cup Ws

\* The steps of a destroy after its final scan.
Removing(t) == at[t] \in RemoveSteps

\* Edits are only ever lost to a destroy that asked for it: neither a write
\* between its two scans, nor a late recovery, nor shutdown, nor the retry of a
\* destroy that failed half way (service.rs destroy: both refuse_dirty calls).
NoLostEdits ==
  [][\A w \in Ws :
       (env[w].edits = "dirty" /\ env'[w].edits # "dirty")
         => \E t \in Tasks : /\ req[t] = [op |-> "destroy", ws |-> w, opt |-> TRUE]
                             /\ Removing(t) /\ lock[w] = t]_vars

\* As long as the kernel or a late request can reach the overlay, its private
\* directory, upper and mountpoint are there (service.rs destroy removes them
\* only after WorkspaceMount::unmount has waited for every owner).
UpperOutlivesNative ==
  \A w \in Ws : env[w].kmount \/ env[w].native
                  => env[w].dir /\ env[w].mountpoint /\ env[w].edits # "absent"

\* From the release in a destroy on, no hydration can publish again: the pin
\* stays released until the operation ends (service.rs destroy joins the
\* hydration task before it releases, and start_hydrate needs a Mounted state).
ReleasedStaysReleased ==
  \A t \in Tasks :
    (Removing(t) /\ at[t] # "checked" /\ "store" \in rt[Target(t)].built)
      => env[Target(t)].pin = "released" /\ rt[Target(t)].job = "none"

\* A retired cache use protects nothing any more, so nothing may be left that
\* needs it: no task, native request, kernel mount, upper or pin. This holds for
\* good, whatever operations are still queued on the workspace.
RetiredUseOwnsNothing ==
  \A w \in Ws : env[w].use = "retired" =>
    /\ env[w].pin = "released" /\ rt[w].job = "none"
    /\ ~env[w].native /\ ~env[w].kmount
    /\ env[w].edits = "absent" /\ ~env[w].mountpoint

\* A path on disk or a mount that no runtime has recorded: a preparation that failed
\* between creating a directory and reading its identity, or before the mounted root
\* had answered.
Unrecorded(w) ==
  \/ env[w].dir /\ "dir" \notin rt[w].built
  \/ env[w].edits # "absent" /\ "upper" \notin rt[w].built
  \/ env[w].mountpoint /\ "mountpoint" \notin rt[w].built
  \/ env[w].kmount /\ ~rt[w].known

\* A destroy that failed at any step can be tried again: while no operation
\* works on a listed workspace, the checks a destroy and its unmount start with
\* pass, provided that the fence is certain and every path and mount was recorded.
\* A workspace that has been mounted, and one whose unmount has got past the
\* mountpoint once, is recorded for good; a create that failed may not be: a mount
\* that was not ready in time has no recorded identity, and while the kernel shows
\* it the unmount takes it for a replaced one.
DestroyCanBeRetried ==
  \A w \in entries :
    /\ rt[w].state = "Mounted" \/ rt[w].handle \in {"retry", "retired"} => ~Unrecorded(w)
    /\ (lock[w] = None /\ rt[w].state # "Creating" /\ ~env[w].uncertain /\ ~Unrecorded(w))
         => /\ PathsBound(w) /\ Dirty(w) # "Unknown"
            /\ rt[w].handle = "retired" => MountpointBound(w)
            /\ rt[w].handle \in {"mounted", "retry"} => Identified(w)

\* An entry disappears only when nothing of the workspace is left in the
\* service, on disk, in the kernel or, if it had a store, in the cache.
RemovedLeavesNothing ==
  [][\A w \in entries \ entries' :
       /\ rt'[w].job = "none" /\ ~env'[w].native /\ ~env'[w].kmount
       /\ ~env'[w].dir /\ ~env'[w].mountpoint /\ env'[w].edits = "absent"
       /\ "store" \in rt'[w].built => env'[w].pin = "released" /\ env'[w].use = "retired"]_vars

\* Shutdown "preserves dirty uppers and durable pins" (service.rs
\* shutdown_cleanup): once it cleans up, no entry, upper or use record goes, and
\* a pin is not revoked.
ShutdownPreserves ==
  [][shut = "cleanup" =>
       /\ entries' = entries
       /\ \A w \in Ws :
            /\ env[w].edits # "absent" => env'[w].edits # "absent"
            /\ env'[w].use = env[w].use
            /\ env[w].pin = "complete" /\ rt[w].job # "started" => env'[w].pin = "complete"
            /\ env'[w].pin \in {"revoking", "released"} => env'[w].pin = env[w].pin]_vars

\* When shutdown has returned, no control operation is running, no hydration task
\* is (blocking jobs of an aborted one may be), and every workspace whose cleanup
\* succeeded has no native owner. The order permit, flag in WorkspaceService::owned
\* is what this rests on.
ShutdownQuiet ==
  shut = "done" =>
    /\ \A t \in Tasks : at[t] \in {"idle", "permitted"}
    /\ \A w \in Ws : lock[w] = None
    /\ \A w \in entries : /\ rt[w].job = "none"
                          /\ at[w] = "ok" => ~env[w].native /\ ~env[w].kmount

\* Every admitted operation ends, whoever else wants the workspace.
OperationsEnd == \A t \in Tasks : at[t] # "idle" ~> at[t] = "idle"

\* shutdown_cleanup returns.
ShutdownEnds == shut = "flagged" ~> shut = "done"

\* The worker's comment (service.rs:222): "Shutdown joins this actual
\* maintenance [...] through the operation permit." After shutdown has
\* returned, the worker would be neither working nor promoting an owner.
MaintenanceJoined == shut = "done" => worker \notin {"working"} \cup Ws

\* create's comment (service.rs:386): "Retain every partial native/cache owner
\* for observable retry." A workspace that no operation works on, and that has
\* left a registration in the cache or a directory, would be listed.
PartialOwnersObservable ==
  \A w \in Ws :
    (\A t \in Tasks : Target(t) # w) /\ (env[w].pin \notin {"none", "released"} \/ env[w].dir)
      => w \in entries

\* A workspace is taken down in order: native owners before the upper, hydration
\* before the pin, everything before the use record, however a destroy, a late
\* hydration and a shutdown meet (service.rs destroy, mount.rs unmount).
TeardownOrdered == UpperOutlivesNative /\ ReleasedStaysReleased /\ RetiredUseOwnsNothing

\* A destroy that fails can be repeated, and one that succeeds leaves nothing
\* (service.rs destroy).
DestroySound == []DestroyCanBeRetried /\ RemovedLeavesNothing

\* Shutdown stops everything that runs and loses nothing that is kept (service.rs
\* shutdown_cleanup).
ShutdownSound == []ShutdownQuiet /\ ShutdownPreserves

\* Operations and shutdown end although they wait for each other's permits and locks
\* (service.rs owned, shutdown_cleanup).
LifecycleEnds == OperationsEnd /\ ShutdownEnds
=============================================================================
