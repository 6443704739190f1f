---------------------------- MODULE SnapshotSync ----------------------------
(***************************************************************************)
(* Collecting the metadata of a fixed view, and the closure index of a     *)
(* scope (reader.rs, closure.rs, incremental.rs).                          *)
(*                                                                         *)
(* A directory is a radix tree of pages named by their content, and a view *)
(* is the directory its descriptor names.  Equal directories share their   *)
(* pages, so the logical tree is larger than the set of pages.  Three      *)
(* collectors walk it: "files" reuses the subtrees the index records,      *)
(* "full" reuses page bytes only and proves the whole root before it       *)
(* writes the index, "bounded" takes everything from the service under a   *)
(* budget.  They share the page files and the index of the scope with each *)
(* other, with the release of pins, and with whatever damages files.       *)
(***************************************************************************)
EXTENDS Naturals, FiniteSets, Sequences, SequencesExt, TLC

CONSTANTS
    PageOf,          \* per page id: its entries, its children, and whether it is canonical
    Views,           \* the snapshots of the scope
    RootOf,          \* their metadata roots
    Owners, Pinned,  \* the workspaces that may pin a view, and the earlier pins
    Jobs, TasksOf,   \* the collections, and the [view, mode] each may be started for
    PAGES_BATCH,
    max_root_nodes,
    StaleIndexes,    \* the indexes an earlier program may have left
    StaysBad,        \* the pages whose damaged file a read leaves where it is
    MaxDamage        \* bound on the damage done to the files

ASSUME SyncAssumption ==
    /\ PAGES_BATCH \in Nat \ {0} /\ max_root_nodes \in Nat /\ MaxDamage \in Nat
    /\ RootOf \in [Views -> DOMAIN PageOf]
    /\ \A j \in Jobs : TasksOf[j] \subseteq [view : Views, mode : {"files", "full", "bounded"}]

VARIABLES
    files,      \* the page files of the scope: "absent", "good" or "bad"
    index,      \* closures.json: per subtree root, its record
    holder,     \* who holds closures.lock
    sync,        \* the collections
    pins,       \* per view and owner: "none", "active", "inactive" or "released"
    damage
syncVars == <<files, index, holder, sync, pins, damage>>

PageIds == DOMAIN PageOf
View(j) == sync[j].task.view
Mode(j) == sync[j].task.mode
Root(j) == RootOf[View(j)]
EmptyIndex == <<>>
NoTransaction == [records |-> EmptyIndex, live |-> {}, dirty |-> FALSE]
NoTask == [view |-> "none", mode |-> "none"]
NoJob == [at |-> "idle", task |-> NoTask, frontier |-> <<>>, batch |-> <<>>, ask |-> {},
          have |-> {}, routes |-> 0, visits |-> 0, dirs |-> <<>>, tx |-> NoTransaction, result |-> {}, why |-> "none"]

SyncInit ==
    /\ files = [id \in PageIds |-> "absent"]
    /\ index \in StaleIndexes
    /\ holder = "none"
    /\ sync = [j \in Jobs |-> NoJob]
    /\ pins = [v \in Views |-> [w \in Owners |->
                             IF <<v, w>> \in Pinned THEN "active" ELSE "none"]]
    /\ damage = 0

-----------------------------------------------------------------------------
(* The tree a root commits to.  Paths and routes are sequences.            *)

RadixIds[id \in PageIds] == {id} \cup UNION {RadixIds[c.id] : c \in PageOf[id].children}
RadixEntries[id \in PageIds] ==
    PageOf[id].entries \cup UNION {RadixEntries[c.id] : c \in PageOf[id].children}
IsDir(e) == e.kind = "directory"
Under(name, fs) == {[f EXCEPT !.path = <<name>> \o @] : f \in fs}

\* The reference: what the names of a path lead to.
EntryNames == {e.name : e \in UNION {PageOf[id].entries : id \in PageIds}}
Step(at, name) ==
    LET found == {e \in (IF IsDir(at) THEN RadixEntries[at.ref] ELSE {}) : e.name = name}
    IN IF found = {} THEN [name |-> name, kind |-> "missing", ref |-> "none", size |-> 0]
                     ELSE CHOOSE e \in found : TRUE
Resolve(root, path) == FoldLeft(Step, [name |-> "", kind |-> "directory", ref |-> root, size |-> 0], path)
MaxTreeDepth == 3
TreePaths == UNION {[1..n -> EntryNames] : n \in 1..MaxTreeDepth}
TreeOf == [root \in PageIds |-> {p \in TreePaths : Resolve(root, p).kind # "missing"}]
TrueFiles == [root \in PageIds |->
    {[path |-> p, content |-> Resolve(root, p).ref] :
        p \in {q \in TreeOf[root] : ~IsDir(Resolve(root, q))}}]
TrueDirs == [root \in PageIds |->
    {root} \cup {Resolve(root, p).ref : p \in {q \in TreeOf[root] : IsDir(Resolve(root, q))}}]
TruePages == [root \in PageIds |-> UNION {RadixIds[d] : d \in TrueDirs[root]}]

-----------------------------------------------------------------------------
(* What the program derives from pages: the facts of a subtree, the proof  *)
(* of a closure, the members of a response.                                *)

SubtreeFacts[root \in PageIds] ==
    LET dirs == {e \in RadixEntries[root] : IsDir(e)}
    IN [pages |-> RadixIds[root] \cup UNION {SubtreeFacts[e.ref].pages : e \in dirs},
        files |-> {[path |-> <<e.name>>, content |-> e.ref] : e \in RadixEntries[root] \ dirs}
                  \cup UNION {Under(e.name, SubtreeFacts[e.ref].files) : e \in dirs},
        total |-> Cardinality(RadixEntries[root])
                  + MapThenSumSet(LAMBDA e : SubtreeFacts[e.ref].total, dirs)]

\* Each branch declares how many entries lie below each of its children.
CountsAgree(ids) ==
    \A id \in ids : \A c \in PageOf[id].children : c.n = Cardinality(RadixEntries[c.id])

\* One content has one size, wherever it is named.
SizesAgree(ids) ==
    LET named == {e \in UNION {PageOf[id].entries : id \in ids} : ~IsDir(e)}
    IN \A e, f \in named : e.ref = f.ref => e.size = f.size

\* A page is rebuilt from the entries below it, and has to be the same page.
Canonical(ids) == \A id \in ids : PageOf[id].canonical

\* Every logical directory and file is visited once.
LogicalPaths(root) == SubtreeFacts[root].total + 1

\* Pages are named by their content, so the cycles that the proof looks for cannot be built.
Consistent(ids) == CountsAgree(ids) /\ SizesAgree(ids) /\ Canonical(ids)
ProvesClosure(root, have) == SubtreeFacts[root].pages = have /\ Consistent(have)

\* Mutant: only the page asked for is allowed.
AllowedTerminal(ask) == {i.id : i \in ask}

\* The pages on the routes of a request, as the walk has come to know them.
Expected(ask) == UNION {i.chain : i \in ask}

ParentsIn(pages, label, ids) ==
    {p \in pages : \E c \in PageOf[p].children : c.label = label /\ c.id \in ids}

CheckMetadataMembers(ask, pages) ==
    LET Back(i) == [n \in 0..Len(i.route) |->
                      FoldRight(LAMBDA label, ids : ParentsIn(pages, label, ids),
                                SubSeq(i.route, n + 1, Len(i.route)), {i.id})]
        levels == UNION {{Back(i)[n] : n \in 0..Len(i.route)} : i \in ask}
    IN {} \notin levels /\ UNION levels = pages

\* A response is taken whole or not at all.
MetadataPages(ask, pages) == ask = {} \/ CheckMetadataMembers(ask, pages)

-----------------------------------------------------------------------------
(* One page of the walk of "files".  The walk in progress is a record of   *)
(* the fields that its steps change.                                       *)

Forget(f, x) == [y \in DOMAIN f \ {x} |-> f[y]]
PutRecord(tx, root, rec) ==
    IF root \in DOMAIN tx.records /\ tx.records[root] = rec THEN tx
    ELSE [tx EXCEPT !.records = (root :> rec) @@ @, !.dirty = TRUE]

\* A page that fails its hash is a miss, and its file is removed.  One that is too long, or
\* lies in a managed scope, is a miss as well and stays.
AfterRead(fs, id) == IF fs[id] = "bad" /\ id \notin StaysBad THEN [fs EXCEPT ![id] = "absent"] ELSE fs

\* A finished subtree, handed to its parent directory or to the caller.
HandUp(w, dir, rec) ==
    IF dir = <<>> THEN [w EXCEPT !.result = rec.files]
    ELSE [w EXCEPT !.dirs[Front(dir)] =
            [@ EXCEPT !.files = @ \cup Under(Last(dir), rec.files),
                      !.ids = @ \cup rec.pages, !.total = @ + rec.total]]

Reusable(w, root) ==
    /\ root \in DOMAIN w.tx.records
    /\ LET r == w.tx.records[root] IN r.compatible /\ r.pin \in w.tx.live /\ root \in r.pages

\* The record's pages are read in order, up to the first that is missing.
TryReuse(w, dir, root, view) ==
    LET r == w.tx.records[root]
        miss == {id \in r.pages : w.files[id] # "good"}
    IN IF miss # {} THEN [w EXCEPT !.files = AfterRead(@, CHOOSE id \in miss : TRUE)]
       ELSE [HandUp(w, dir, r) EXCEPT
               !.tx = IF r.pin = view THEN @
                      ELSE [@ EXCEPT !.records[root].pin = view, !.dirty = TRUE]]

\* A page to visit, with the pages above it in its directory.
RootPage(dir, root) == [dir |-> dir, route |-> <<>>, id |-> root, chain |-> {root}]
NewDir(root) == [root |-> root, ids |-> {}, files |-> {}, total |-> 0, pages |-> 1, kids |-> 0]

EnqueueDir(w, dir, root, view) ==
    LET tried == IF Reusable(w, root) THEN TryReuse(w, dir, root, view) ELSE w
        reused == Reusable(w, root) /\ \A id \in w.tx.records[root].pages : w.files[id] = "good"
        counted == IF dir = <<>> THEN tried ELSE [tried EXCEPT !.dirs[Front(dir)].kids = @ + 1]
    IN IF reused THEN tried
       ELSE [counted EXCEPT !.dirs = (dir :> NewDir(root)) @@ @,
                            !.frontier = Append(@, RootPage(dir, root))]

\* The directories and the child pages that a page leads to.
SubRoutes(item) ==
    {[dir |-> item.dir, route |-> Append(item.route, c.label), id |-> c.id,
      chain |-> item.chain \cup {c.id}] :
        c \in PageOf[item.id].children}
SubDirs(item) ==
    {RootPage(Append(item.dir, e.name), e.ref) :
        e \in {e \in PageOf[item.id].entries : IsDir(e)}}

VisitPage(w, item, view) ==
    LET page == PageOf[item.id]
        own == {[path |-> <<e.name>>, content |-> e.ref] : e \in {e \in page.entries : ~IsDir(e)}}
        read == [w EXCEPT
            !.dirs[item.dir] = [@ EXCEPT !.ids = @ \cup {item.id}, !.files = @ \cup own,
                                         !.total = @ + Cardinality(page.entries),
                                         !.pages = @ + Cardinality(page.children) - 1],
            !.frontier = @ \o SetToSeq(SubRoutes(item))]
    IN FoldLeft(LAMBDA v, d : EnqueueDir(v, d.dir, d.id, view), read, SetToSeq(SubDirs(item)))

\* Mutant: a directory is complete when its own pages are.
CompleteOwn(d) == d.pages = 0

SubtreeDone(d) == d.pages = 0 /\ d.kids = 0

FinishDir(w, dir, view) ==
    LET d == w.dirs[dir]
        rec == [pages |-> d.ids, files |-> d.files, total |-> d.total, pin |-> view,
                compatible |-> TRUE]
        up == HandUp([w EXCEPT !.tx = PutRecord(@, d.root, rec)], dir, rec)
        left == [up EXCEPT !.dirs = Forget(@, dir)]
    IN IF dir = <<>> THEN left ELSE [left EXCEPT !.dirs[Front(dir)].kids = @ - 1]

\* A parent can only complete after its children: the longest paths come first.
Cascade(w, view) ==
    LET level(v, n) == FoldSet(LAMBDA d, u : IF SubtreeDone(u.dirs[d]) THEN FinishDir(u, d, view)
                                             ELSE u,
                               v, {d \in DOMAIN v.dirs : Len(d) = n})
    IN FoldLeft(level, w, [k \in 1..MaxTreeDepth + 1 |-> MaxTreeDepth + 1 - k])

-----------------------------------------------------------------------------
(* The steps of a collection.                                              *)

Walk(j) == [dirs |-> sync[j].dirs, frontier |-> sync[j].frontier, tx |-> sync[j].tx,
            result |-> sync[j].result, files |-> files]
WithWalk(j, w) == [sync[j] EXCEPT !.dirs = w.dirs, !.frontier = w.frontier, !.tx = w.tx,
                                 !.result = w.result]

\* Mutant: a failed transaction keeps the lock.
FailSyncHolding(j, why) ==
    /\ sync' = [sync EXCEPT ![j] = [NoJob EXCEPT !.at = "failed", !.task = sync[j].task, !.why = why]]
    /\ UNCHANGED holder

FailSync(j, why) ==
    /\ sync' = [sync EXCEPT ![j] = [NoJob EXCEPT !.at = "failed", !.task = sync[j].task, !.why = why]]
    /\ holder' = IF holder = j THEN "none" ELSE holder

StartSync(j) ==
    /\ sync[j].at = "idle"
    /\ \E t \in TasksOf[j] :
         sync' = [sync EXCEPT ![j] =
            IF t.mode = "files" THEN [NoJob EXCEPT !.at = "lock", !.task = t]
            ELSE [NoJob EXCEPT !.at = "walk", !.task = t, !.routes = 1,
                               !.frontier = <<RootPage(<<>>, RootOf[t.view])>>]]
    /\ UNCHANGED <<files, index, holder, pins, damage>>

Live == {v \in Views : \E w \in Owners : pins[v][w] = "active"}

\* Mutant: the index is read without the lock.
LockFree(j) == sync[j].at = "lock"

LockWait(j) == sync[j].at = "lock" /\ holder = "none"

\* sync_transaction and full_proof_transaction; only the first trusts records, and only those
\* of snapshots with an owner that could be audited.
LockIndex(j) ==
    /\ LockWait(j)
    /\ holder' = j
    /\ \E live \in IF Mode(j) = "files" THEN SUBSET Live ELSE {{}} :
         LET tx == [records |-> index, live |-> live, dirty |-> FALSE]
             w == EnqueueDir([Walk(j) EXCEPT !.tx = tx], <<>>, Root(j), View(j))
         IN IF Mode(j) = "files"
            THEN sync' = [sync EXCEPT ![j] = [WithWalk(j, w) EXCEPT !.at = "walk"]] /\ files' = w.files
            ELSE sync' = [sync EXCEPT ![j] = [@ EXCEPT !.at = "commit", !.tx = tx]] /\ UNCHANGED files
    /\ UNCHANGED <<index, pins, damage>>

\* The next batch: what the page files hold need not be asked for.
NextBatch(j) ==
    /\ sync[j].at = "walk" /\ sync[j].frontier # <<>>
    /\ LET f == sync[j].frontier
           take == IF Len(f) < PAGES_BATCH THEN Len(f) ELSE PAGES_BATCH
           batch == SubSeq(f, 1, take)
           before == IF Mode(j) = "files" THEN {} ELSE sync[j].have
           read == IF Mode(j) = "bounded" THEN {} ELSE {i.id : i \in ToSet(batch)} \ before
           have == before \cup {id \in read : files[id] = "good"}
           unknown == {i \in ToSet(batch) : i.id \notin have}
           firsts == {batch[k] : k \in {k \in 1..take : \A m \in 1..k - 1 : batch[m].id # batch[k].id}}
           ask == IF Mode(j) = "files" THEN unknown ELSE unknown \cap firsts
       IN /\ sync' = [sync EXCEPT ![j] = [@ EXCEPT !.at = "ask", !.batch = batch, !.have = have,
                                        !.ask = ask, !.frontier = SubSeq(f, take + 1, Len(f))]]
          /\ files' = [id \in PageIds |-> IF id \in read THEN AfterRead(files, id)[id]
                                          ELSE files[id]]
    /\ UNCHANGED <<index, holder, pins, damage>>

\* The service answers with the witness chains, or with a page too few or too many.
Honest(j) == UNION {i.chain : i \in sync[j].ask}
Responses(j) ==
    IF sync[j].ask = {} THEN {{}}
    ELSE {Honest(j)} \cup {Honest(j) \ {id} : id \in Honest(j)}
         \cup {Honest(j) \cup {id} : id \in PageIds \ Honest(j)}

\* Mutant: only the pages of a batch are counted, an alias is free.
RoutesOfPages(j, have) == Cardinality(have)

RoutesOf(j, have) ==
    sync[j].routes + FoldSet(LAMBDA i, n : n + Cardinality(SubRoutes(i) \cup SubDirs(i)), 0,
                            ToSet(sync[j].batch))

\* Every page of the batch is there: what it leads to joins the frontier.
ExpandFiles(j, fs) ==
    Cascade(FoldLeft(LAMBDA w, i : VisitPage(w, i, View(j)),
                     [Walk(j) EXCEPT !.files = fs], sync[j].batch), View(j))
ExpandPages(j, have) ==
    LET batch == sync[j].batch
        more == FlattenSeq([k \in 1..Len(batch) |->
                    SetToSeq(SubDirs(batch[k])) \o SetToSeq(SubRoutes(batch[k]))])
    IN [sync[j] EXCEPT !.frontier = @ \o more, !.have = have, !.routes = RoutesOf(j, have),
                        !.visits = @ + Len(batch)]

\* Pages enter the store as the response is read, before all of it is accepted.
Stored(j, got) ==
    IF Mode(j) = "bounded" THEN files
    ELSE [id \in PageIds |-> IF id \in got THEN "good" ELSE files[id]]

Received(j) ==
    /\ sync[j].at = "ask"
    /\ \E got \in Responses(j) :
         LET have == sync[j].have \cup got
             allowed == Expected(sync[j].ask)
             whole == \A i \in ToSet(sync[j].batch) : i.id \in have
             w == ExpandFiles(j, Stored(j, got))
         IN IF ~MetadataPages(sync[j].ask, got)
            THEN FailSync(j, IF got = Honest(j) THEN "integrity" ELSE "lie") /\ UNCHANGED files
            ELSE IF ~(got \subseteq allowed /\ whole)
            THEN /\ FailSync(j, IF got = Honest(j) THEN "integrity" ELSE "lie")
                 /\ \E part \in SUBSET (got \cap allowed) : files' = Stored(j, part)
            ELSE IF Mode(j) = "bounded" /\ RoutesOf(j, have) > max_root_nodes
            THEN FailSync(j, "limit") /\ UNCHANGED files
            ELSE /\ sync' = [sync EXCEPT ![j] =
                       [(IF Mode(j) = "files" THEN WithWalk(j, w) ELSE ExpandPages(j, have))
                          EXCEPT !.at = "walk", !.batch = <<>>, !.ask = {},
                                 !.have = IF Mode(j) = "files" THEN {} ELSE @]]
                 /\ files' = IF Mode(j) = "files" THEN w.files ELSE Stored(j, got)
                 /\ UNCHANGED holder
    /\ UNCHANGED <<index, pins, damage>>

\* Nothing is left to visit: the records of a "files" walk are complete.
EndAcquire(j) ==
    /\ sync[j].at = "walk" /\ sync[j].frontier = <<>> /\ Mode(j) = "files"
    /\ sync' = [sync EXCEPT ![j].at = "commit"]
    /\ UNCHANGED <<files, index, holder, pins, damage>>

\* The other collections now prove the root they started from.  The bounded one counts the
\* logical paths as well, and keeps no index.
LogicalFits(j) == Mode(j) = "bounded" => LogicalPaths(Root(j)) <= max_root_nodes

ProveRoot(j) ==
    /\ sync[j].at = "walk" /\ sync[j].frontier = <<>> /\ Mode(j) # "files"
    /\ IF ~ProvesClosure(Root(j), sync[j].have) THEN FailSync(j, "integrity")
       ELSE IF ~LogicalFits(j) THEN FailSync(j, "limit")
       ELSE /\ sync' = [sync EXCEPT ![j] =
                  [@ EXCEPT !.at = IF Mode(j) = "full" THEN "lock" ELSE "done",
                            !.have = {}, !.result = SubtreeFacts[Root(j)].files]]
            /\ UNCHANGED holder
    /\ UNCHANGED <<files, index, pins, damage>>

\* The records of every directory of a proved root.
FactRecord(root, view) ==
    [pages |-> SubtreeFacts[root].pages, files |-> SubtreeFacts[root].files,
     total |-> SubtreeFacts[root].total, pin |-> view, compatible |-> TRUE]
FactRoots(root) ==
    {root} \cup {e.ref : e \in {e \in UNION {PageOf[id].entries : id \in SubtreeFacts[root].pages} :
                                  IsDir(e)}}

\* The index that a transaction publishes.
Published(j) ==
    LET tx == IF Mode(j) = "files" THEN sync[j].tx
              ELSE FoldSet(LAMBDA r, t : PutRecord(t, r, FactRecord(r, View(j))),
                           sync[j].tx, FactRoots(Root(j)))
    IN IF tx.dirty THEN tx.records ELSE index

CommitIndex(j) ==
    /\ sync[j].at = "commit"
    /\ index' = Published(j)
    /\ sync' = [sync EXCEPT ![j] = [NoJob EXCEPT !.at = "done", !.task = sync[j].task, !.result = sync[j].result]]
    /\ holder' = "none"
    /\ UNCHANGED <<files, pins, damage>>

\* An error anywhere else, a lost lease, a dropped future or the end of the process.
Abandon(j) ==
    /\ sync[j].at \in {"lock", "walk", "ask", "commit"}
    /\ FailSync(j, "error")
    /\ UNCHANGED <<files, index, pins, damage>>

\* The new index is in its place, and the directory cannot be synced: the collection fails.
CommitUnsynced(j) ==
    /\ sync[j].at = "commit" /\ Published(j) # index
    /\ index' = Published(j)
    /\ FailSync(j, "error")
    /\ UNCHANGED <<files, pins, damage>>

-----------------------------------------------------------------------------
(* The owners of a view, and what happens to files.                        *)

\* A workspace has completed its pin of a view that was collected in full.
CompletePin(v, w) ==
    /\ pins[v][w] = "none"
    /\ \E j \in Jobs : sync[j].task = [view |-> v, mode |-> "full"] /\ sync[j].at = "done"
    /\ pins' = [pins EXCEPT ![v][w] = "active"]
    /\ UNCHANGED <<files, index, holder, sync, damage>>

\* The owner's registry row is released first, its records are dropped later.
ReleaseOwner(v, w) ==
    /\ pins[v][w] = "active"
    /\ pins' = [pins EXCEPT ![v][w] = "inactive"]
    /\ UNCHANGED <<files, index, holder, sync, damage>>

\* Mutant: the records are dropped whoever holds the lock.
IndexUnlocked == TRUE

IndexLock == holder = "none"

\* The other owners of the snapshot are audited; one that is busy or damaged is unknown.
Inventory(v, w, unknown) ==
    [x \in Owners |-> IF x = w THEN "Inactive" ELSE IF x \in unknown THEN "Unknown"
                      ELSE IF pins[v][x] = "active" THEN "Active" ELSE "Inactive"]

\* Mutant: an owner that could not be audited does not count.
DroppableUnlessActive(v, w, unknown) == "Active" \notin Range(Inventory(v, w, unknown))

\* Only proof that nobody keeps the snapshot lets its records go.
Droppable(v, w, unknown) == Range(Inventory(v, w, unknown)) = {"Inactive"}

\* drop_records_for_released_owner: refused, and retried, while the index is locked.  The owner
\* is released whether or not records were dropped, unless the directory cannot be synced.
DropRecords(v, w) ==
    /\ pins[v][w] = "inactive" /\ IndexLock
    /\ \E unknown \in SUBSET (Owners \ {w}) :
         index' = IF Droppable(v, w, unknown)
                  THEN [r \in {r \in DOMAIN index : index[r].pin # v} |-> index[r]] ELSE index
    /\ \/ pins' = [pins EXCEPT ![v][w] = "released"]
       \/ index' # index /\ UNCHANGED pins
    /\ UNCHANGED <<files, holder, sync, damage>>

\* A page file is damaged, or the index becomes unreadable and counts as empty.
DamageFile ==
    /\ damage < MaxDamage /\ damage' = damage + 1
    /\ \/ /\ \E id \in PageIds : files[id] = "good" /\ files' = [files EXCEPT ![id] = "bad"]
          /\ UNCHANGED index
       \/ index # EmptyIndex /\ index' = EmptyIndex /\ UNCHANGED files
    /\ UNCHANGED <<holder, sync, pins>>

SyncStep(j) ==
    LockIndex(j) \/ NextBatch(j) \/ Received(j) \/ EndAcquire(j) \/ ProveRoot(j)
    \/ CommitIndex(j)
SyncNext ==
    \/ \E j \in Jobs : StartSync(j) \/ SyncStep(j) \/ Abandon(j) \/ CommitUnsynced(j)
    \/ \E v \in Views, w \in Owners : CompletePin(v, w) \/ ReleaseOwner(v, w) \/ DropRecords(v, w)
    \/ DamageFile

\* A started collection is polled until it ends, and a release is retried.  That is
\* weak fairness of the two together, with the condition that enables them written out.
CanStep ==
    \/ \E j \in Jobs : sync[j].at \in {"walk", "ask", "commit"}
    \/ holder = "none" /\ \E j \in Jobs : sync[j].at = "lock"
    \/ holder = "none" /\ \E v \in Views, w \in Owners : pins[v][w] = "inactive"
SyncFairness == []<>(~CanStep) \/ []<><<TRUE>>_<<sync, pins>>
SyncSpec == SyncInit /\ [][SyncNext]_syncVars /\ SyncFairness

-----------------------------------------------------------------------------
(* Properties.                                                             *)

SyncTypeOK ==
    /\ files \in [PageIds -> {"absent", "good", "bad"}]
    /\ DOMAIN index \subseteq PageIds
    /\ holder \in Jobs \cup {"none"}
    /\ holder # "none" => sync[holder].at \in {"walk", "ask", "commit"}
    /\ \A j \in Jobs : sync[j].at \in {"idle", "lock", "walk", "ask", "commit", "done", "failed"}

\* Every record that a walk may trust describes exactly the subtree its root commits to:
\* the files of every logical directory below, the aliased ones included, the number of
\* entries, and all the pages.  A record is staged when its directory is complete, and the
\* walks that build records reuse other records (incremental.rs:1003, closure.rs:407).
Trusted(root, r) == r.compatible /\ root \in r.pages
TrueRecord(root, r) ==
    /\ r.files = TrueFiles[root] /\ r.pages = TruePages[root]
    /\ r.total = Cardinality(TreeOf[root])
IndexTrue == \A r \in DOMAIN index : Trusted(r, index[r]) => TrueRecord(r, index[r])

ConsistentRoots == {root \in PageIds : Consistent(TruePages[root])}

\* A collection that ends well has listed the files of its view, whatever the index an
\* older program left, the damaged pages and the responses it met; and one that promises
\* a proof has also checked what the pages declare about each other and about content.
ManifestExact ==
    \A j \in Jobs : sync[j].at = "done" =>
        /\ sync[j].result = TrueFiles[Root(j)]
        /\ Mode(j) # "files" => Root(j) \in ConsistentRoots

\* Damage to the caches and sharing between directories never turn into an error: a walk
\* served with the pages it asked for is not refused (reader.rs:948, frames.rs:1124).
HonestAccepted ==
    \A j \in Jobs : sync[j].why = "integrity" => Root(j) \notin ConsistentRoots

\* Aliased directories share pages but not the budget: no bounded collection visits more
\* logical routes than it may (reader.rs:46).
RoutesBounded ==
    \A j \in Jobs : Mode(j) = "bounded" =>
        sync[j].visits + Len(sync[j].batch) + Len(sync[j].frontier) <= max_root_nodes

\* A record leaves the index only when the file is damaged, or when no owner pins its
\* snapshot any more; what one collection has committed no other one loses.
RecordsKept ==
    [][\A r \in DOMAIN index \ DOMAIN index' :
          damage' # damage \/ \A w \in Owners : pins[index[r].pin][w] # "active"]_syncVars

\* A record leans on a snapshot anew only through a collection of that snapshot: what a
\* release has dropped is not brought back by a transaction of another snapshot that read the
\* index earlier and writes it later.  (What is lost with the file, such a transaction restores.)
RecordsRenewed ==
    [][\A r \in DOMAIN index' :
          \/ damage > 0
          \/ r \in DOMAIN index /\ index[r].pin = index'[r].pin
          \/ \E j \in Jobs : /\ sync[j].at = "commit" /\ sync'[j].at # "commit"
                            /\ View(j) = index'[r].pin]_syncVars

\* A collection has not ended, or a release is not carried out.
SyncBusy ==
    \/ \E j \in Jobs : sync[j].at \in {"lock", "walk", "ask", "commit"}
    \/ \E v \in Views, w \in Owners : pins[v][w] = "inactive"

\* A collection is exact: records and manifests say what the roots commit to, honest pages
\* are accepted and routes are bounded (incremental.rs, closure.rs).
SyncExact == IndexTrue /\ ManifestExact /\ HonestAccepted /\ RoutesBounded

\* The records of a pinned snapshot stay, and those that a release dropped stay away until the
\* snapshot is collected again, although collections and releases overlap (incremental.rs
\* sync_transaction, commit and drop_records_for_pin_impl).
RecordsFollowPins == RecordsRenewed /\ RecordsKept
=============================================================================
