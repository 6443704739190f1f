--------------------------- MODULE CacheRetention ---------------------------
(***************************************************************************)
(* Disk admission and collection of one managed cache scope                *)
(* (snapshot/cache_retention.rs).                                          *)
(*                                                                         *)
(* Workspace owners share the content files of a scope.  Every file is     *)
(* written through a temporary that is charged to a ledger and declared by *)
(* an intent before it is created; charges are never given back.  The      *)
(* collector, alone in the scope, proves what every live owner needs,      *)
(* unlinks some of the rest and only then sets the ledger to what is left. *)
(* A hydration takes the locks twice: to retain its root, and to reserve   *)
(* all of its writes at once.  That no one retires its use in between is   *)
(* the service's doing: a destroy joins the hydration first.  The process  *)
(* may crash between any two steps; what it left on disk stays.            *)
(*                                                                         *)
(* Bytes and entries are charged, bounded and reset together; the model    *)
(* counts entries, and a reservation counts the writes that it pays for.   *)
(* Directories, lock files and torn control records are not counted: the   *)
(* slack of the ledger is for them.  The files of an owner are its record, *)
(* its registration, its use, the root (descriptor and pages) that a       *)
(* retained use names, its revocation and its pin, which stands for        *)
(* pin.json and DURABLE_COMPLETE; what those promise by themselves is the  *)
(* subject of LocalPin.  The closure index belongs to the scope.           *)
(***************************************************************************)
EXTENDS Naturals, FiniteSets

CONSTANTS
  Owners, Blobs,
  Needs,        \* the contents that an owner's snapshot refers to
  MaxIds,       \* bound: identities of writers at a time, leftovers included
  MaxEntries,   \* limits.max_entries
  Headroom,     \* what is held back from ordinary writes
  Slack,        \* entries for the scope's own control files (8 in the code)
  MaxDelete,    \* limits.max_delete_entries
  MaxFaults     \* bound: crashes and failed cleanups

ASSUME CacheAssumption ==
  /\ Needs \in [Owners -> SUBSET Blobs] /\ IsFiniteSet(Owners) /\ IsFiniteSet(Blobs)
  /\ MaxIds \in Nat /\ MaxDelete \in Nat \ {0} /\ MaxFaults \in Nat
  /\ MaxEntries \in Nat /\ Headroom \in 1 .. MaxEntries /\ Slack \in 1 .. MaxEntries

VARIABLES
  files,      \* the final files of the scope
  dirs,       \* the owner directories
  use,        \* what CACHE_USE.json says, for the owners that have one
  released,   \* the owners whose registration says released
  finished,   \* the owners whose revocation says revoked
  intents,    \* the identities with a durable declaration
  temps,      \* the identities whose temporary exists
  ctl,        \* a torn temporary of a control record is there
  ledger,     \* the charges on record
  ready,      \* the owners with a hydration that has retained its root
  op,         \* the operation that runs for every owner
  col,        \* the collector: idle, or what it has still to unlink
  faults      \* crashes and failed cleanups so far

vars == <<files, dirs, use, released, finished, intents, temps, ctl, ledger, ready,
          op, col, faults>>

Ids == 1 .. MaxIds
Kinds == {"rec", "reg", "use", "root", "revoke", "pin"}
Index == <<"scope", "index">>
Files == Blobs \cup (Owners \X Kinds) \cup {Index}

\* The contents of a scope have a directory of their own.
ASSUME BlobsAssumption == Blobs \cap ((Owners \X Kinds) \cup {Index}) = {}
Uses == {"fresh", "retained", "retired"}

\* Where the writes of an operation stand: charged to the ledger, declared by an
\* intent, or in a temporary.
Writes == {"none", "charged", "declared", "temp"}

\* left: reserved writes not yet made; hold: the identity of the reservation (0: none).
Operations ==
  [at : {"idle", "record", "register", "use", "retain", "invalidate", "activate", "unrevoke",
         "hydrate", "revoke", "unpin", "unregister", "index", "revoked", "retire"},
   write : Writes, id : 0 .. MaxIds, target : Files, left : Nat, hold : 0 .. MaxIds]

Idle == [at |-> "idle", write |-> "none", id |-> 0, target |-> Index,
         left |-> 0, hold |-> 0]

\* What a pass of the collector has still to unlink.
NoPass == [on |-> FALSE, files |-> {}, temps |-> {}, intents |-> {}, ctl |-> FALSE]

Has(o, kind) == <<o, kind>> \in files

\* configure_scope on an empty scope.
Init ==
  /\ files = {} /\ dirs = {} /\ use = [o \in Owners |-> "fresh"] /\ released = {} /\ finished = {}
  /\ intents = {} /\ temps = {} /\ ctl = FALSE /\ ledger = Slack
  /\ ready = {} /\ op = [o \in Owners |-> Idle] /\ col = NoPass /\ faults = 0

-----------------------------------------------------------------------------
(* Locks and charges.                                                      *)

\* Mutant: a reservation does not hold the lifecycle fence between its writes.
QuiescentBetweenWrites == \A o \in Owners : op[o].write = "none"

\* Every operation holds the lifecycle fence shared, the collector owns it.
Quiescent == \A o \in Owners : op[o].at = "idle"

\* The admission lock is held from reading the ledger to the durable declaration.
AdmissionFree == \A o \in Owners : op[o].write # "charged"

\* What a write or a reservation of this kind may bring the ledger to.
Capacity(tier) ==
  CASE tier = "emergency" -> MaxEntries
    [] tier = "proof" -> MaxEntries - (IF Headroom \div 4 = 0 THEN 1 ELSE Headroom \div 4)
    [] tier = "normal" -> MaxEntries - Headroom

\* Mutant: an ordinary write is not refused.
FitsAlways(n, tier) == TRUE

Fits(n, tier) == ledger + n <= Capacity(tier)

\* Revocations, registrations and use records may take the last reserve; the owner's
\* record and the closure index may not.
Tier(o) == IF op[o].at \in {"record", "index"} THEN "normal" ELSE "emergency"

FreeIds == Ids \ (intents \cup temps)
NewId == CHOOSE i \in FreeIds : TRUE

\* Discovery: a missing registration cannot hide an owner directory.
Discoverable == \A o \in dirs : Has(o, "reg")

Set(o, operation) == op' = [op EXCEPT ![o] = operation]
Kept == UNCHANGED <<dirs, use, released, finished, col, ctl>>

-----------------------------------------------------------------------------
(* Beginning an operation.                                                 *)

Begin(o, operation) ==
  /\ op[o].at = "idle" /\ ~col.on
  /\ Set(o, operation)

\* open_workspace_context: owners are admitted one at a time, after a discovery, and
\* the owner's directory is created before anything is written to it.
Open(o) ==
  /\ Discoverable /\ \A p \in Owners : op[p].at \notin {"record", "register", "use"}
  /\ Begin(o, [Idle EXCEPT !.at = IF Has(o, "reg") THEN "use" ELSE "record"])
  /\ dirs' = dirs \cup {o}
  /\ UNCHANGED <<files, use, released, finished, intents, temps, ctl, ledger, col>>

\* reserve_charge: the ledger first, then the declaration, and nothing is written before.
Reserve(o, at, writes, tier) ==
  /\ AdmissionFree /\ Fits(3 * writes + Slack, tier)
  /\ Begin(o, [Idle EXCEPT !.at = at, !.write = "charged", !.left = writes])
  /\ ledger' = ledger + 3 * writes + Slack
  /\ UNCHANGED <<files, intents, temps>> /\ Kept

\* retain_snapshot_root: the root, then the use that names it.
Retain(o) ==
  /\ Has(o, "use") /\ use[o] # "retired" /\ ~(use[o] = "retained" /\ Has(o, "root"))
  /\ Reserve(o, "retain", 2, "proof")

\* The registration, the content that is missing, and the pin.
HydrationWrites(o) == Cardinality(Needs[o] \ files) + 2

\* A hydration finds its root retained, by its own Retain or before, and drops the locks.
HydrateRetained(o) ==
  /\ op[o].at = "idle" /\ ~col.on
  /\ Has(o, "use") /\ use[o] = "retained" /\ Has(o, "root")
  /\ ready' = ready \cup {o}
  /\ UNCHANGED <<files, intents, temps, ledger, op>> /\ Kept

\* It takes them again, and does not look at the use or the root: all of its writes are
\* reserved before the old completion is invalidated.
Hydrate(o) ==
  /\ o \in ready /\ ready' = ready \ {o}
  /\ Reserve(o, "invalidate", HydrationWrites(o), "normal")

\* The locks are taken, a check fails or the reservation does not fit.
HydrateRefused(o) ==
  /\ o \in ready /\ ready' = ready \ {o}
  /\ UNCHANGED <<files, intents, temps, ledger, op>> /\ Kept

\* release_local_pin: the revocation, the pin, the registration, the index, the revocation
\* again. A retry starts over.
Release(o) ==
  /\ Has(o, "reg") /\ Has(o, "use")
  /\ Begin(o, [Idle EXCEPT !.at = "revoke"])
  /\ UNCHANGED <<files, intents, temps, ledger>> /\ Kept

\* Mutant: a destroy does not join the hydration.
RetireUnjoined(o) ==
  /\ Has(o, "use") /\ use[o] # "retired" /\ ~Has(o, "pin") /\ Discoverable
  /\ o \in released \cap finished
  /\ Begin(o, [Idle EXCEPT !.at = "retire"])
  /\ UNCHANGED <<files, dirs, use, released, finished, intents, temps, ctl, ledger, col>>

\* retire_cache_use, for a destroy that has joined the hydration: no pin, a discovery, and
\* a finished revocation.
Retire(o) ==
  /\ o \notin ready
  /\ Has(o, "use") /\ use[o] # "retired" /\ ~Has(o, "pin") /\ Discoverable
  /\ o \in released \cap finished
  /\ Begin(o, [Idle EXCEPT !.at = "retire"])
  /\ UNCHANGED <<files, dirs, use, released, finished, intents, temps, ctl, ledger, col>>

-----------------------------------------------------------------------------
(* One write: WriteAdmission, write_atomic and Drop.                       *)

\* The file that the operation writes next.
Targets(o) ==
  CASE op[o].at = "record" -> {<<o, "rec">>}
    [] op[o].at \in {"register", "unregister", "activate"} -> {<<o, "reg">>}
    [] op[o].at \in {"use", "retire"} -> {<<o, "use">>}
    [] op[o].at \in {"revoke", "revoked"} -> {<<o, "revoke">>}
    [] op[o].at = "index" -> IF Discoverable THEN {Index} ELSE {}
    [] op[o].at = "retain" -> IF op[o].left = 2 THEN {<<o, "root">>} ELSE {<<o, "use">>}
    [] op[o].at = "hydrate" -> IF Needs[o] \subseteq files THEN Needs[o] \cup {<<o, "pin">>}
                               ELSE Needs[o]
    [] OTHER -> {}

Reserved(o) == op[o].at \in {"retain", "activate", "hydrate"}

\* Opening an owner whose use is live writes nothing more.
Needless(o) == op[o].at = "use" /\ Has(o, "use") /\ use[o] # "retired"

\* begin_with_budget without a reservation: the ledger first.
Charge(o) ==
  /\ ~Reserved(o) /\ op[o].write = "none" /\ ~Needless(o) /\ AdmissionFree
  /\ Fits(3, Tier(o))
  /\ \E f \in Targets(o) : Set(o, [op[o] EXCEPT !.write = "charged", !.target = f])
  /\ ledger' = ledger + 3
  /\ UNCHANGED <<files, intents, temps>> /\ Kept

Refuse(o) ==
  /\ ~Reserved(o) /\ op[o].write = "none" /\ ~Needless(o) /\ Targets(o) # {}
  /\ ~Fits(3, Tier(o))
  /\ Set(o, Idle)
  /\ UNCHANGED <<files, intents, temps, ledger>> /\ Kept

\* consume: a repair that the reservation did not foresee is charged on its own.
ChargeExtra(o) ==
  /\ op[o].at = "hydrate" /\ op[o].write = "none" /\ op[o].left = 0 /\ AdmissionFree
  /\ Fits(3, "normal")
  /\ Set(o, [op[o] EXCEPT !.left = 1]) /\ ledger' = ledger + 3
  /\ UNCHANGED <<files, intents, temps>> /\ Kept

\* The declaration of a write, or of a reservation, becomes durable.
Declare(o) ==
  /\ op[o].write = "charged" /\ FreeIds # {}
  /\ Set(o, IF op[o].left > 0 THEN [op[o] EXCEPT !.write = "none", !.hold = NewId]
            ELSE [op[o] EXCEPT !.write = "declared", !.id = NewId])
  /\ intents' = intents \cup {NewId}
  /\ UNCHANGED <<files, temps, ledger>> /\ Kept

\* A write that the reservation pays for.
DeclareReserved(o) ==
  /\ Reserved(o) /\ op[o].write = "none" /\ op[o].left > 0 /\ FreeIds # {}
  /\ \E f \in Targets(o) :
       Set(o, [op[o] EXCEPT !.write = "declared", !.id = NewId, !.target = f,
                            !.left = op[o].left - 1])
  /\ intents' = intents \cup {NewId}
  /\ UNCHANGED <<files, temps, ledger>> /\ Kept

CreateTemp(o) ==
  /\ op[o].write = "declared"
  /\ Set(o, [op[o] EXCEPT !.write = "temp"]) /\ temps' = temps \cup {op[o].id}
  /\ UNCHANGED <<files, intents, ledger>> /\ Kept

\* invalidate_complete, remove_durable: files that an operation removes.
Remove(o) ==
  /\ op[o].write = "none" /\ op[o].at \in {"invalidate", "unpin", "unrevoke"}
  /\ Set(o, [op[o] EXCEPT !.at = CASE op[o].at = "invalidate" -> "activate"
                                   [] op[o].at = "unpin" -> "unregister"
                                   [] op[o].at = "unrevoke" -> "hydrate"])
  /\ files' = files \ {IF op[o].at = "unrevoke" THEN <<o, "revoke">> ELSE <<o, "pin">>}
  /\ finished' = IF op[o].at = "unrevoke" THEN finished \ {o} ELSE finished
  /\ UNCHANGED <<dirs, use, released, intents, temps, ctl, ledger, col>>

\* What follows a published write.
After(o) ==
  CASE op[o].at = "record" -> "register"
    [] op[o].at = "register" -> "use"
    [] op[o].at = "activate" -> "unrevoke"
    [] op[o].at = "revoke" -> "unpin"
    [] op[o].at = "unregister" -> "index"
    [] op[o].at = "index" -> "revoked"
    [] op[o].at = "retain" /\ op[o].target = <<o, "root">> -> "retain"
    [] op[o].at = "hydrate" /\ op[o].target # <<o, "pin">> -> "hydrate"
    [] OTHER -> "idle"

\* Drop: the intents go, unless that fails.
Dropped(gone) ==
  \/ intents' = intents \ gone /\ UNCHANGED faults
  \/ /\ faults < MaxFaults /\ faults' = faults + 1
     /\ \E kept \in (SUBSET (gone \cap intents)) \ {{}} : intents' = intents \ (gone \ kept)

\* The rename makes the temporary the final file, with the content of the operation; then
\* the write drops its intent, and the last write of a reservation the reservation.
Publish(o) ==
  /\ op[o].write = "temp"
  /\ temps' = temps \ {op[o].id} /\ files' = files \cup {op[o].target}
  /\ use' = IF op[o].target # <<o, "use">> THEN use
            ELSE [use EXCEPT ![o] = CASE op[o].at = "retain" -> "retained"
                                      [] op[o].at = "retire" -> "retired"
                                      [] OTHER -> "fresh"]
  /\ released' = CASE op[o].at = "unregister" -> released \cup {o}
                   [] op[o].at = "activate" -> released \ {o}
                   [] OTHER -> released
  /\ finished' = IF op[o].at = "revoked" THEN finished \cup {o} ELSE finished
  /\ IF After(o) = "idle" THEN Set(o, Idle) /\ Dropped({op[o].id, op[o].hold})
     ELSE /\ Set(o, [op[o] EXCEPT !.at = After(o), !.write = "none", !.id = 0, !.target = Index])
          /\ Dropped({op[o].id})
  /\ UNCHANGED <<dirs, ctl, ledger, col>>

OpenDone(o) ==
  /\ Needless(o) /\ op[o].write = "none" /\ Set(o, Idle)
  /\ UNCHANGED <<files, intents, temps, ledger>> /\ Kept

\* An error or a cancellation, at any point: the temporary is removed, then the intent.
\* When the cleanup fails too, the intent stays with what it declares.
Fail(o) ==
  /\ op[o].at # "idle" /\ Set(o, Idle)
  /\ \/ temps' = temps \ {op[o].id} /\ Dropped({op[o].id, op[o].hold})
     \/ /\ op[o].write = "temp" /\ faults < MaxFaults /\ faults' = faults + 1
        /\ UNCHANGED temps /\ intents' = intents \ {op[o].hold}
  /\ UNCHANGED <<files, ledger>> /\ Kept

-----------------------------------------------------------------------------
(* The collector.                                                          *)

\* Every temporary is one that a writer's intent declares; an unknown entry blocks collection.
Declared == temps \subseteq intents

\* Everything the proof looks at is known and consistent: otherwise it returns before the
\* first unlink, and so it does for a live use without its complete metadata proof.
Proved ==
  /\ Discoverable
  /\ \A o \in dirs :
       /\ Has(o, "use")
       /\ IF use[o] = "retired" THEN o \in released \cap finished /\ ~Has(o, "pin")
          ELSE use[o] = "retained" /\ Has(o, "root")
  /\ Declared

Live == {o \in dirs : use[o] # "retired"}

\* Content that no live owner needs, and the metadata of the retired.
Stale == (Blobs \ UNION {Needs[o] : o \in Live}) \cup {<<o, "root">> : o \in dirs \ Live}

\* A torn control temporary is all that its pass removes; a writer's leftovers go together,
\* the temporary before its intent.
CollectBegin ==
  /\ Quiescent /\ ~col.on /\ Proved
  /\ \E gone \in SUBSET (files \cap Stale), left \in SUBSET intents :
       /\ ctl => gone = {} /\ left = {}
       /\ Cardinality(gone) + Cardinality(left) + Cardinality(left \cap temps) <= MaxDelete
       /\ col' = [on |-> TRUE, files |-> gone, temps |-> left \cap temps, intents |-> left, ctl |-> ctl]
  /\ UNCHANGED <<files, dirs, use, released, finished, intents, temps, ctl, ledger, op>>

\* Mutant: the intent goes first.
UnlinkIntentFirst ==
  \E i \in col.intents :
    /\ col' = [col EXCEPT !.intents = @ \ {i}] /\ intents' = intents \ {i}
    /\ UNCHANGED temps

UnlinkIntent ==
  \E i \in col.intents :
    /\ i \notin col.temps
    /\ col' = [col EXCEPT !.intents = @ \ {i}] /\ intents' = intents \ {i}
    /\ UNCHANGED temps

UnlinkTemp ==
  \E i \in col.temps :
    /\ col' = [col EXCEPT !.temps = @ \ {i}] /\ temps' = temps \ {i}
    /\ UNCHANGED intents

Unlink ==
  /\ col.on
  /\ \/ UnlinkIntent /\ UNCHANGED <<files, ctl>>
     \/ UnlinkTemp /\ UNCHANGED <<files, ctl>>
     \/ /\ \E f \in col.files : col' = [col EXCEPT !.files = @ \ {f}] /\ files' = files \ {f}
        /\ UNCHANGED <<intents, temps, ctl>>
     \/ /\ col.ctl /\ col' = [col EXCEPT !.ctl = FALSE] /\ ctl' = FALSE
        /\ UNCHANGED <<files, intents, temps>>
  /\ UNCHANGED <<dirs, use, released, finished, ledger, op>>

Physical == Cardinality(files) + Cardinality(intents) + Cardinality(temps)

\* The ledger is what the inventory found, less what was deleted.
CollectReset ==
  /\ col = [NoPass EXCEPT !.on = TRUE]
  /\ col' = NoPass /\ ledger' = Physical + Slack
  /\ UNCHANGED <<files, dirs, use, released, finished, intents, temps, ctl, op>>

\* An unlink fails: what was deleted stays deleted and the ledger is not touched.
CollectFail ==
  /\ col.on /\ col' = NoPass
  /\ UNCHANGED <<files, dirs, use, released, finished, intents, temps, ctl, ledger, op>>

-----------------------------------------------------------------------------
\* The process ends. A control record that was being written may leave its temporary.
Crash ==
  /\ col.on \/ ~Quiescent
  /\ faults < MaxFaults /\ faults' = faults + 1
  /\ op' = [o \in Owners |-> Idle] /\ col' = NoPass /\ ready' = {}
  /\ ctl' \in {ctl, TRUE}
  /\ UNCHANGED <<files, dirs, use, released, finished, intents, temps, ledger>>

Write(o) ==
  \/ Charge(o) \/ ChargeExtra(o) \/ Declare(o) \/ DeclareReserved(o) \/ CreateTemp(o)
  \/ Remove(o) \/ OpenDone(o)

Collect == CollectBegin \/ Unlink \/ CollectReset \/ CollectFail

Next ==
  \/ /\ \/ Collect
        \/ \E o \in Owners :
             Open(o) \/ Retain(o) \/ Release(o) \/ Retire(o) \/ Write(o) \/ Refuse(o)
     /\ UNCHANGED <<ready, faults>>
  \/ /\ \E o \in Owners : HydrateRetained(o) \/ Hydrate(o) \/ HydrateRefused(o)
     /\ UNCHANGED faults
  \/ /\ \E o \in Owners : Publish(o) \/ Fail(o)
     /\ UNCHANGED ready
  \/ Crash

Spec == Init /\ [][Next]_vars

-----------------------------------------------------------------------------
(* Properties.                                                             *)

\* The files, the operations and the collector are of their kind, and no admission brings
\* the ledger above the capacity of the scope.
TypeOK ==
  /\ files \subseteq Files /\ dirs \subseteq Owners /\ use \in [Owners -> Uses]
  /\ released \subseteq Owners /\ finished \subseteq Owners /\ intents \subseteq Ids /\ temps \subseteq Ids
  /\ faults \in 0 .. MaxFaults /\ ctl \in BOOLEAN /\ op \in [Owners -> Operations]
  /\ ledger \in 0 .. MaxEntries /\ ready \subseteq Owners
  /\ col \in [on : BOOLEAN, files : SUBSET Files, temps : SUBSET Ids, intents : SUBSET Ids,
               ctl : BOOLEAN]

\* The charges never fall below what is on disk, with concurrent writers, reservations,
\* repairs, failed cleanups, collections cut short and crashes: admission bounds the disk.
Conservative == Physical <= ledger

\* A pinned snapshot keeps its content, its root and a use that says so: no collection,
\* retirement or reopening takes a file away from under a pin.
PinnedSurvives ==
  \A o \in Owners : Has(o, "pin") =>
    /\ Needs[o] \subseteq files /\ Has(o, "root") /\ use[o] = "retained" /\ o \notin released

\* No crash, failed cleanup or collection leaves a temporary that nothing declares: such a
\* file would stop every later collection as an unknown entry.
LeftoversDeclared == temps \subseteq intents

\* What a refusal says ("collect and retry"): once the scope is quiet again, what the
\* refused operation left behind does not stop the collector. It does: an opening that is
\* refused leaves an owner directory without a registration, and discovery then refuses
\* every opening, release, retirement and collection in the scope.
RefusedCanCollect ==
  [][\A o \in Owners :
       Refuse(o) /\ Quiescent' /\ (\A p \in dirs \ {o} : Has(p, "reg")) => Discoverable']_vars

\* Everything on disk is accounted for: charged to the ledger and, while it is
\* temporary, declared by an intent (cache_retention.rs admission, recovery, collect).
DiskAccounted == Conservative /\ LeftoversDeclared
=============================================================================
