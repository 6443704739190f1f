------------------------------ MODULE LocalPin ------------------------------
(***************************************************************************)
(* The durable local pin of one workspace owner: opening its store,        *)
(* hydrating and publishing, auditing, releasing and retiring              *)
(* (snapshot/workspace_pins.rs, the publication half of                    *)
(* snapshot/durable.rs, the use record of snapshot/cache_retention.rs).    *)
(*                                                                         *)
(* Every operation holds the owner's transaction lock from its first to    *)
(* its last step, but for a hydration: it retains its root in one section  *)
(* and publishes in another, and any other operation may come between.     *)
(* What makes the protocol hard is that every write may fail, and that the *)
(* process may crash, between any two steps.  A write is a rename followed *)
(* by a sync of its directory.  When the sync fails or is not reached, a   *)
(* crash may bring the old file back: "loose" holds, for every file, the   *)
(* older contents that may still be the durable ones.                      *)
(*                                                                         *)
(* Of its callers the store assumes one thing, which WorkspaceService      *)
(* sees to: one hydration at a time, and none when the use is retired,     *)
(* since destroy aborts and joins the hydration task first.                *)
(***************************************************************************)
EXTENDS Naturals

CONSTANT MaxEpoch   \* bound: hydrations attempted

ASSUME LocalPinAssumption == MaxEpoch \in Nat

VARIABLES
  disk,     \* the owner's files, as a running process sees them
  loose,    \* for each file, the older contents that a crash may restore
  pc,       \* the next step of the operation that holds the transaction lock
  epoch,    \* the hydrations begun: names the bytes each of them writes
  between,  \* a hydration has retained its root and not taken the lock again
  opened,   \* this process has the store open
  promise,  \* what the last operation that succeeded told its caller
  damaged   \* an audit has found a bad commitment that nothing has repaired

vars == <<disk, loose, pc, epoch, between, opened, promise, damaged>>

\* view, pin and complete carry the epoch that wrote them (0: absent). meta
\* and blobs stand for the manifest with its metadata pages, and the contents.
Files ==
  [owner : BOOLEAN, reg : {"none", "Active", "Released"},
   revoke : {"none", "Revoking", "Revoked"},
   view : 0 .. MaxEpoch, pin : 0 .. MaxEpoch, complete : 0 .. MaxEpoch,
   meta : {"none", "ok", "bad"}, blobs : {"none", "ok", "bad"},
   repair : BOOLEAN, use : {"none", "live", "retained", "retired"}]

Names == {"owner", "reg", "revoke", "view", "pin", "complete", "meta", "blobs", "repair", "use"}

\* The registry and the shared contents have directories of their own.
Directory(f) == IF f \in {"reg", "blobs"} THEN f ELSE "root"

OpenSteps    == {"o_owner", "o_reg", "o_audit", "o_invalidate", "o_repair", "o_use"}
AuditSteps   == {"a_check", "a_invalidate", "a_repair"}
HydrateSteps == {"h_retain", "h_invalidate", "h_register", "h_unrevoke", "h_view", "h_content",
                 "h_meta", "h_pin", "h_publish", "h_repair", "h_complete", "h_abort"}
ReleaseSteps == {"r_intent", "r_complete", "r_pin", "r_reg", "r_index", "r_revoked"}
Steps == {"idle", "retire", "retain"} \cup OpenSteps \cup AuditSteps \cup HydrateSteps \cup ReleaseSteps

Init ==
  /\ disk = [owner |-> FALSE, reg |-> "none", revoke |-> "none", view |-> 0, pin |-> 0,
             complete |-> 0, meta |-> "none", blobs |-> "none", repair |-> FALSE, use |-> "none"]
  /\ loose = [f \in Names |-> {}]
  /\ pc = "idle" /\ epoch = 0 /\ between = FALSE
  /\ opened = FALSE /\ promise = "none" /\ damaged = FALSE

\* What a crash may leave on disk: each file as it is, or as it may have been.
May(f) == loose[f] \cup {disk[f]}

Survivors ==
  [owner : May("owner"), reg : May("reg"), revoke : May("revoke"), view : May("view"),
   pin : May("pin"), complete : May("complete"), meta : May("meta"), blobs : May("blobs"),
   repair : May("repair"), use : May("use")]

-----------------------------------------------------------------------------
(* Writing.                                                                *)

\* write_atomic, or remove_file and sync_dir: the file changes, and the sync of
\* its directory makes all earlier changes there durable.
Synced(f, v) ==
  /\ disk' = [disk EXCEPT ![f] = v]
  /\ loose' = [g \in Names |-> IF Directory(g) = Directory(f) THEN {} ELSE loose[g]]

\* The sync fails: the file has changed, but perhaps not durably.
Unsynced(f, v) ==
  /\ disk' = [disk EXCEPT ![f] = v]
  /\ loose' = [loose EXCEPT ![f] = @ \cup {disk[f]}]

Write(f, v, next) == Synced(f, v) /\ pc' = next
WriteTorn(f, v, next) == Unsynced(f, v) /\ pc' = next

\* Removing a file that is not there succeeds, without any sync.
RemoveDurable(f, absent, next) ==
  IF disk[f] = absent THEN pc' = next /\ UNCHANGED <<disk, loose>> ELSE Write(f, absent, next)

RemoveTorn(f, absent, next) == disk[f] # absent /\ WriteTorn(f, absent, next)

-----------------------------------------------------------------------------
(* What a reader of the files concludes.                                   *)

\* require_registration, and complete_allowed's demand that a pin has its view.
Registered(d) == d.reg # "none" /\ ~(d.reg = "Released" /\ d.revoke = "none")
HasView(d) == d.view # 0 \/ (d.complete = 0 /\ d.pin = 0)

\* complete_allowed.
Allowed(d) == d.revoke = "none" /\ d.reg = "Active"

\* verify_commit: the marker's digests match the view, pin, metadata, contents.
Verified(d) == d.view = d.complete /\ d.pin = d.complete /\ d.meta = "ok" /\ d.blobs = "ok"

Complete(d) == Registered(d) /\ HasView(d) /\ Allowed(d) /\ d.complete # 0 /\ Verified(d)

\* audit_pin, for the inventory of the scope's owners.
PinAudit(d) ==
  CASE ~Allowed(d) -> "Inactive"
    [] Allowed(d) /\ d.repair -> "Unknown"
    [] Allowed(d) /\ ~d.repair /\ d.complete = 0 -> "Inactive"
    [] OTHER -> IF Verified(d) THEN "Active" ELSE "Unknown"

\* A marker that is to be believed and does not verify.
Bad(d) == Allowed(d) /\ d.complete # 0 /\ ~Verified(d)

\* has_guarantee_artifacts.
Artifacts(d) == d.complete # 0 \/ d.pin # 0 \/ d.revoke # "none"

\* Any step may end in an error before it has changed anything, and a hydration
\* may be aborted while it waits for contents: the lock is dropped.
Fail ==
  /\ pc \notin {"idle", "h_complete"} /\ pc' = "idle"
  /\ UNCHANGED <<disk, loose, epoch, between, opened, promise, damaged>>

-----------------------------------------------------------------------------
(* open_workspace_context.                                                 *)

OpenBegin ==
  /\ pc = "idle" /\ ~opened /\ pc' = "o_owner"
  /\ UNCHANGED <<disk, loose, epoch, between, opened, promise, damaged>>

OpenOwner ==
  /\ pc = "o_owner"
  /\ IF disk.owner
     THEN pc' = "o_reg" /\ UNCHANGED <<disk, loose>>
     ELSE ~Artifacts(disk) /\ (Write("owner", TRUE, "o_reg") \/ WriteTorn("owner", TRUE, "idle"))
  /\ UNCHANGED <<epoch, between, opened, promise, damaged>>

\* An existing registration is kept as it is.
OpenRegister ==
  /\ pc = "o_reg"
  /\ IF disk.reg # "none"
     THEN Registered(disk) /\ pc' = "o_audit" /\ UNCHANGED <<disk, loose>>
     ELSE /\ ~Artifacts(disk)
          /\ Write("reg", "Active", "o_audit") \/ WriteTorn("reg", "Active", "idle")
  /\ UNCHANGED <<epoch, between, opened, promise, damaged>>

OpenAudit ==
  /\ pc = "o_audit" /\ Registered(disk) /\ HasView(disk)
  /\ pc' = IF Bad(disk) THEN "o_invalidate" ELSE "o_use"
  /\ UNCHANGED <<disk, loose, epoch, between, opened, promise, damaged>>

\* A retired use is established afresh before anything is exposed again.
OpenUse ==
  /\ pc = "o_use"
  /\ IF disk.use \in {"live", "retained"}
     THEN pc' = "idle" /\ opened' = TRUE /\ UNCHANGED <<disk, loose>>
     ELSE \/ Write("use", "live", "idle") /\ opened' = TRUE
          \/ WriteTorn("use", "live", "idle") /\ UNCHANGED opened
  /\ UNCHANGED <<epoch, between, promise, damaged>>

-----------------------------------------------------------------------------
(* completed_manifest_locked: open, status and every audit of the owner    *)
(* revoke a marker that does not verify, and leave a repair note.          *)

AuditBegin ==
  /\ pc = "idle" /\ disk.reg # "none" /\ pc' = "a_check"
  /\ UNCHANGED <<disk, loose, epoch, between, opened, promise, damaged>>

AuditCheck ==
  /\ pc = "a_check" /\ Registered(disk) /\ HasView(disk)
  /\ pc' = IF Bad(disk) THEN "a_invalidate" ELSE "idle"
  /\ UNCHANGED <<disk, loose, epoch, between, opened, promise, damaged>>

AuditInvalidate(at, next) ==
  /\ pc = at
  /\ RemoveDurable("complete", 0, next) \/ RemoveTorn("complete", 0, "idle")
  /\ damaged' = TRUE
  /\ UNCHANGED <<epoch, between, opened, promise>>

AuditRepair(at, next) ==
  /\ pc = at
  /\ Write("repair", TRUE, next) \/ WriteTorn("repair", TRUE, "idle")
  /\ UNCHANGED <<epoch, between, opened, promise, damaged>>

-----------------------------------------------------------------------------
(* Hydration.                                                              *)

HydrateBegin ==
  /\ pc = "idle" /\ opened /\ ~between /\ epoch < MaxEpoch
  /\ epoch' = epoch + 1 /\ pc' = "h_retain"
  /\ UNCHANGED <<disk, loose, between, opened, promise, damaged>>

\* retain_snapshot_root: an earlier call of hydrate_workspace, or promotion by
\* the cache worker, does the same on its own.
RetainBegin ==
  /\ pc = "idle" /\ opened /\ pc' = "retain"
  /\ UNCHANGED <<disk, loose, epoch, between, opened, promise, damaged>>

\* A retired use is refused. kept says whether a hydration goes on from here.
Retain(at, kept) ==
  /\ pc = at /\ pc' = "idle"
  /\ \/ disk.use = "retained" /\ between' = kept /\ UNCHANGED <<disk, loose>>
     \/ disk.use = "live" /\ between' = kept /\ Synced("use", "retained")
     \/ disk.use = "live" /\ UNCHANGED between /\ Unsynced("use", "retained")
  /\ UNCHANGED <<epoch, opened, promise, damaged>>

\* prepare_hydration_for_kind, in a section of its own: the checks that come before
\* anything is revoked. The use is not looked at again.
HydratePrepare ==
  /\ pc = "idle" /\ between /\ between' = FALSE
  /\ Registered(disk) /\ pc' = "h_invalidate"
  /\ UNCHANGED <<disk, loose, epoch, opened, promise, damaged>>

\* The lock is busy, or one of the checks fails.
HydrateRefused ==
  /\ between /\ between' = FALSE
  /\ UNCHANGED <<disk, loose, pc, epoch, opened, promise, damaged>>

\* Mutant: the registration is left to publish_pin, after the revocation has gone.
HydrateInvalidateUnregistered ==
  /\ pc = "h_invalidate"
  /\ RemoveDurable("complete", 0, "h_unrevoke") \/ RemoveTorn("complete", 0, "idle")
  /\ promise' = "none" /\ damaged' = FALSE
  /\ UNCHANGED <<epoch, between, opened>>

HydrateInvalidate ==
  /\ pc = "h_invalidate"
  /\ RemoveDurable("complete", 0, "h_register") \/ RemoveTorn("complete", 0, "idle")
  /\ promise' = "none" /\ damaged' = FALSE
  /\ UNCHANGED <<epoch, between, opened>>

\* begin_hydration: the registration is active again before the revocation goes.
HydrateRegister ==
  /\ pc = "h_register"
  /\ Write("reg", "Active", "h_unrevoke") \/ WriteTorn("reg", "Active", "idle")
  /\ UNCHANGED <<epoch, between, opened, promise, damaged>>

HydrateUnrevoke ==
  /\ pc = "h_unrevoke"
  /\ RemoveDurable("revoke", "none", "h_view") \/ RemoveTorn("revoke", "none", "idle")
  /\ UNCHANGED <<epoch, between, opened, promise, damaged>>

\* The fixed view is bound even if the first pass is interrupted.
HydrateView ==
  /\ pc = "h_view"
  /\ Write("view", epoch, "h_content") \/ WriteTorn("view", epoch, "idle")
  /\ UNCHANGED <<epoch, between, opened, promise, damaged>>

\* Mutant: the contents' directory is not synced before the metadata is written.
HydrateContentUnsynced ==
  /\ pc = "h_content" /\ WriteTorn("blobs", "ok", "h_meta")
  /\ UNCHANGED <<epoch, between, opened, promise, damaged>>

\* The contents are fetched, verified and synced, and then their directory.
HydrateContent ==
  /\ pc = "h_content"
  /\ Write("blobs", "ok", "h_meta") \/ WriteTorn("blobs", "ok", "idle")
  /\ UNCHANGED <<epoch, between, opened, promise, damaged>>

\* Manifest, metadata pages, descriptor and index.
HydrateMeta ==
  /\ pc = "h_meta"
  /\ Write("meta", "ok", "h_pin") \/ WriteTorn("meta", "ok", "idle")
  /\ UNCHANGED <<epoch, between, opened, promise, damaged>>

HydratePin ==
  /\ pc = "h_pin"
  /\ Write("pin", epoch, "h_publish") \/ WriteTorn("pin", epoch, "idle")
  /\ UNCHANGED <<epoch, between, opened, promise, damaged>>

\* publish_pin refuses a revoked epoch.
HydratePublish ==
  /\ pc = "h_publish" /\ disk.revoke = "none"
  /\ Write("reg", "Active", "h_repair") \/ WriteTorn("reg", "Active", "idle")
  /\ UNCHANGED <<epoch, between, opened, promise, damaged>>

HydrateRepaired ==
  /\ pc = "h_repair"
  /\ RemoveDurable("repair", FALSE, "h_complete") \/ RemoveTorn("repair", FALSE, "idle")
  /\ UNCHANGED <<epoch, between, opened, promise, damaged>>

\* The marker's rename and sync are the linearization point; an error takes the
\* marker away again before it is reported.
HydrateComplete ==
  /\ pc = "h_complete"
  /\ \/ Write("complete", epoch, "idle") /\ promise' = "complete"
     \/ WriteTorn("complete", epoch, "h_abort") /\ UNCHANGED promise
     \/ pc' = "h_abort" /\ UNCHANGED <<disk, loose, promise>>
  /\ UNCHANGED <<epoch, between, opened, damaged>>

HydrateAbort ==
  /\ pc = "h_abort"
  /\ RemoveDurable("complete", 0, "idle") \/ RemoveTorn("complete", 0, "idle")
  /\ UNCHANGED <<epoch, between, opened, promise, damaged>>

-----------------------------------------------------------------------------
(* release_local_pin.                                                      *)

ReleaseBegin ==
  /\ pc = "idle" /\ opened /\ disk.owner /\ Registered(disk) /\ pc' = "r_intent"
  /\ UNCHANGED <<disk, loose, epoch, between, opened, promise, damaged>>

\* Mutant: a new record takes the registration's state for its phase.
ReleaseRecordReleased == IF disk.revoke = "none" THEN "Released" ELSE disk.revoke

\* A record that is already there, in either phase, is written again as it is.
ReleaseRecord == IF disk.revoke = "none" THEN "Revoking" ELSE disk.revoke

ReleaseIntent ==
  /\ pc = "r_intent"
  /\ Write("revoke", ReleaseRecord, "r_complete") \/ WriteTorn("revoke", ReleaseRecord, "idle")
  /\ promise' = "none" /\ damaged' = FALSE
  /\ UNCHANGED <<epoch, between, opened>>

ReleaseComplete ==
  /\ pc = "r_complete"
  /\ RemoveDurable("complete", 0, "r_pin") \/ RemoveTorn("complete", 0, "idle")
  /\ UNCHANGED <<epoch, between, opened, promise, damaged>>

ReleasePin ==
  /\ pc = "r_pin"
  /\ RemoveDurable("pin", 0, "r_reg") \/ RemoveTorn("pin", 0, "idle")
  /\ UNCHANGED <<epoch, between, opened, promise, damaged>>

\* Mutant: the registry directory is not synced before the release goes on.
ReleaseRegisterUnsynced ==
  /\ pc = "r_reg" /\ WriteTorn("reg", "Released", "r_index")
  /\ UNCHANGED <<epoch, between, opened, promise, damaged>>

ReleaseRegister ==
  /\ pc = "r_reg"
  /\ Write("reg", "Released", "r_index") \/ WriteTorn("reg", "Released", "idle")
  /\ UNCHANGED <<epoch, between, opened, promise, damaged>>

\* drop_records_for_released_owner: the index is pruned of this owner's hints.
ReleaseIndex ==
  /\ pc = "r_index" /\ pc' = "r_revoked"
  /\ UNCHANGED <<disk, loose, epoch, between, opened, promise, damaged>>

ReleaseRevoked ==
  /\ pc = "r_revoked"
  /\ \/ Write("revoke", "Revoked", "idle") /\ promise' = "revoked"
     \/ WriteTorn("revoke", "Revoked", "idle") /\ UNCHANGED promise
  /\ UNCHANGED <<epoch, between, opened, damaged>>

-----------------------------------------------------------------------------
(* retire_cache_use, only from the service's destroy.                      *)

\* Mutant: destroy aborts the hydration but does not wait for its end.
RetireBeginUnjoined ==
  /\ pc = "idle" /\ opened /\ disk.use # "none" /\ pc' = "retire"
  /\ UNCHANGED <<disk, loose, epoch, between, opened, promise, damaged>>

\* destroy has joined the hydration task, and under the runtime lock starts no other.
RetireBegin ==
  /\ pc = "idle" /\ ~between /\ opened /\ disk.use # "none" /\ pc' = "retire"
  /\ UNCHANGED <<disk, loose, epoch, between, opened, promise, damaged>>

Retire ==
  /\ pc = "retire" /\ disk.complete = 0 /\ disk.pin = 0
  /\ disk.reg = "Released" /\ disk.revoke = "Revoked"
  /\ Write("use", "retired", "idle") \/ WriteTorn("use", "retired", "idle")
  /\ UNCHANGED <<epoch, between, opened, promise, damaged>>

-----------------------------------------------------------------------------
(* The environment.                                                        *)

\* The process dies, or the machine does: unsynced changes may be undone.
Crash ==
  /\ disk' \in Survivors /\ loose' = [f \in Names |-> {}]
  /\ pc' = "idle" /\ between' = FALSE /\ opened' = FALSE
  /\ UNCHANGED <<epoch, promise, damaged>>

\* Committed bytes rot, or are changed by another program.
Damage ==
  /\ pc = "idle"
  /\ \/ disk.meta = "ok" /\ disk' = [disk EXCEPT !.meta = "bad"]
     \/ disk.blobs = "ok" /\ disk' = [disk EXCEPT !.blobs = "bad"]
  /\ promise' = IF promise = "complete" THEN "none" ELSE promise
  /\ UNCHANGED <<loose, pc, epoch, between, opened, damaged>>

Open ==
  \/ OpenBegin \/ OpenOwner \/ OpenRegister \/ OpenAudit \/ OpenUse
  \/ AuditInvalidate("o_invalidate", "o_repair") \/ AuditRepair("o_repair", "o_use")

Audit ==
  \/ AuditBegin \/ AuditCheck
  \/ AuditInvalidate("a_invalidate", "a_repair") \/ AuditRepair("a_repair", "idle")

Hydrate ==
  \/ HydrateBegin \/ Retain("h_retain", TRUE) \/ HydratePrepare \/ HydrateRefused \/ HydrateInvalidate
  \/ HydrateRegister \/ HydrateUnrevoke \/ HydrateView \/ HydrateContent \/ HydrateMeta
  \/ HydratePin \/ HydratePublish \/ HydrateRepaired \/ HydrateComplete \/ HydrateAbort

Release ==
  \/ ReleaseBegin \/ ReleaseIntent \/ ReleaseComplete \/ ReleasePin \/ ReleaseRegister
  \/ ReleaseIndex \/ ReleaseRevoked

Next ==
  \/ Open \/ Audit \/ Hydrate \/ Release
  \/ RetainBegin \/ Retain("retain", between) \/ RetireBegin \/ Retire
  \/ Fail \/ Crash \/ Damage

Spec == Init /\ [][Next]_vars

-----------------------------------------------------------------------------
(* Properties.                                                             *)

\* The files, the older contents behind them and the program are of their kind.
TypeOK ==
  /\ disk \in Files /\ DOMAIN loose = Names /\ Survivors \subseteq Files
  /\ pc \in Steps /\ epoch \in 0 .. MaxEpoch /\ between \in BOOLEAN /\ opened \in BOOLEAN
  /\ promise \in {"none", "complete", "revoked"} /\ damaged \in BOOLEAN

\* Once a hydration has returned success, whatever fails and whenever the process
\* crashes, what is left on disk verifies as the complete snapshot, until a later
\* hydration or release revokes it or its bytes are damaged.
SuccessSurvives == promise = "complete" => \A d \in Survivors : Complete(d)

\* Once release_local_pin has returned its receipt no crash, reopen or audit
\* brings the guarantee back: only a fresh hydration can.
RevokedSurvives ==
  promise = "revoked" =>
    \A d \in Survivors : /\ d.reg = "Released" /\ d.revoke = "Revoked"
                         /\ d.complete = 0 /\ d.pin = 0

\* An owner with its record and its registration can be opened again after any crash
\* and any failed write: its revocation and its view are never lost from under the
\* files whose presence makes opening demand them.
NeverWedged == \A d \in Survivors : d.owner /\ d.reg # "none" => Registered(d) /\ HasView(d)

\* An owner whose use is retired, and whose pages the collector may therefore
\* delete, holds no pin and no completion, now and after any crash, however its
\* reopening and a new hydration were cut short and whatever came between the
\* two lock sections of a hydration. It rests on destroy's join of the hydration:
\* the second section does not ask whether the use is still there.
RetiredOwnsNothing ==
  \A d \in Survivors : d.use = "retired" => d.complete = 0 /\ d.pin = 0

\* What the comment in audit_pin says: an owner whose bad marker was revoked is Unknown
\* to the inventory until a hydration repairs or a release revokes it. It fails: the
\* marker is removed before the repair note is written.
DamagedStaysUnknown ==
  damaged /\ pc = "idle" /\ disk.owner /\ Registered(disk) => PinAudit(disk) # "Inactive"

\* What hydration and release have answered holds after every crash (durable.rs
\* publication of a completion, workspace_pins.rs release).
PromisesSurvive == SuccessSurvives /\ RevokedSurvives

\* What a crash leaves half done neither blocks the owner nor exposes its pages to the
\* collector (workspace_pins.rs open and retain, durable.rs hydrate).
HalfDoneIsSafe == NeverWedged /\ RetiredOwnsNothing
=============================================================================
