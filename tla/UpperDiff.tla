----------------------------- MODULE UpperDiff -----------------------------
(***************************************************************************)
(* What a workspace has changed: the upper layer compared with the fixed   *)
(* lower view (upper_diff.rs).                                             *)
(*                                                                         *)
(* The scan owns the pause of the mount, so nothing changes through it,    *)
(* but programs on the host may still change the files of the upper layer. *)
(* The scan walks the tree through open directories and remembers the      *)
(* fingerprint of everything it saw, then asks the lower view, then walks  *)
(* the tree again and gives up when a fingerprint differs.  A fingerprint  *)
(* is the inode and a version, which every change of the inode advances.   *)
(***************************************************************************)
EXTENDS Naturals, FiniteSets, Sequences, SequencesExt, TLC

CONSTANTS
    Lower,           \* the lower view: per path (a sequence of names), its identity
    UpperTrees,          \* the upper layers the scan may find: per inode, its node
    RootIno, Spare,  \* the inode of the upper root, and those the host may create
    max_nodes, max_bytes, max_depth,
    MaxHostWrites    \* bound on the changes made by the host during a scan

ASSUME DiffAssumption ==
    /\ max_nodes \in Nat \ {0} /\ max_bytes \in Nat /\ max_depth \in 0..256
    /\ MaxHostWrites \in Nat
    /\ Lower[<<>>].kind = "dir"
    /\ \A u \in UpperTrees : u[RootIno].kind = "dir"

VARIABLES
    fs,         \* the inodes: [kind, body, xattrs, ver, entries]
    rootAt,     \* the inode the path of the upper layer leads to
    scan,       \* the scan: [at, stack, facts, bytes, changes]
    certain,    \* the pause still vouches for the mount
    wrote,      \* how often the host has changed the upper layer
    truth       \* the difference there was when the verification began
diffVars == <<fs, rootAt, scan, certain, wrote, truth>>

Opaque == ".wh..wh..opq"
Whiteout(name) == ".wh." \o name
Marks == {Opaque} \cup {Whiteout(p[Len(p)]) : p \in DOMAIN Lower \ {<<>>}}
Identity(node) == [kind |-> node.kind, body |-> node.body]
\* What a node is to its readers: attributes have no place in the identity of the lower view.
Appearance(node) == IF node.xattrs THEN [kind |-> node.kind, body |-> "attributed"] ELSE Identity(node)
Stamp(ino) == [ino |-> ino, ver |-> fs[ino].ver]
NoScan == [at |-> "idle", stack |-> <<>>, facts |-> <<>>, bytes |-> 0, changes |-> {}]

DiffInit ==
    /\ fs \in UpperTrees
    /\ rootAt = RootIno
    /\ scan = NoScan
    /\ certain = TRUE
    /\ wrote = 0
    /\ truth = {}

-----------------------------------------------------------------------------
(* The difference, as the code derives it from the facts of the scan.      *)

Kids(facts, dir) == facts[dir].children
Visible(facts, dir) == Kids(facts, dir) \ Marks
InLower(path) == path \in DOMAIN Lower
LowerDir(path) == InLower(path) /\ Lower[path].kind = "dir"
Change(path, kind) == [path |-> path, kind |-> kind]

\* Mutant: an opaque directory hides only its own lower entries.
OpaqueAtOwn(facts, dir) == Opaque \in Kids(facts, dir)

\* Opaque markers count for everything below them.
OpaqueAt(facts, dir) == \E p \in Prefixes(dir) : Opaque \in Kids(facts, p)

\* A marker is an empty regular file, and does not contradict a name beside it.
MarkersSound(facts) ==
    \A dir \in {d \in DOMAIN facts : facts[d].id.kind = "dir"} :
        /\ \A n \in Kids(facts, dir) \cap Marks :
             facts[Append(dir, n)].id = [kind |-> "file", body |-> "empty"]
        /\ \A n \in Visible(facts, dir) : Whiteout(n) \notin Kids(facts, dir)

Deletions(facts, dir) ==
    LET below == {p \in DOMAIN Lower : p # <<>> /\ Front(p) = dir /\ LowerDir(dir)}
        gone(p) == \/ Whiteout(Last(p)) \in Kids(facts, dir)
                   \/ OpaqueAt(facts, dir) /\ Last(p) \notin Visible(facts, dir)
    IN {Change(p, "Deleted") : p \in {p \in below : gone(p)}}

ChangeOf(facts, path) ==
    IF ~InLower(path) THEN {Change(path, "Added")}
    ELSE IF facts[path].id # Lower[path] THEN {Change(path, "Modified")} ELSE {}

Changes(facts) ==
    LET dirs == {d \in DOMAIN facts : facts[d].id.kind = "dir"}
        nodes == {p \in DOMAIN facts : p = <<>> \/ p[Len(p)] \notin Marks}
    IN UNION {ChangeOf(facts, p) : p \in nodes} \cup UNION {Deletions(facts, d) : d \in dirs}

(* The reference: a path is seen in the upper layer, or in the lower one   *)
(* unless something on the way hides it.                                   *)
Follow(ino, name) ==
    IF ino # 0 /\ name \in DOMAIN fs[ino].entries THEN fs[ino].entries[name] ELSE 0
UpperAt(path) == FoldLeft(Follow, rootAt, path)
Hides(path, k) ==
    LET parent == UpperAt(SubSeq(path, 1, k - 1))
    IN parent # 0 /\ \/ fs[parent].kind # "dir"
                     \/ {Opaque, Whiteout(path[k])} \cap DOMAIN fs[parent].entries # {}
NoNode == [kind |-> "none", body |-> "none"]
Merged(path) ==
    IF UpperAt(path) # 0 THEN Appearance(fs[UpperAt(path)])
    ELSE IF InLower(path) /\ \A k \in 1..Len(path) : ~Hides(path, k) THEN Lower[path] ELSE NoNode
LowerOr(path) == IF InLower(path) THEN Lower[path] ELSE NoNode
UpperPaths ==
    LET names == UNION {DOMAIN fs[i].entries : i \in DOMAIN fs} \ Marks
        all == UNION {[1..n -> names] : n \in 0..3}
    IN {p \in all : UpperAt(p) # 0}
TrueChanges ==
    LET changed == {p \in DOMAIN Lower \cup UpperPaths :
                      /\ Merged(p) # LowerOr(p)
                      /\ p = <<>> \/ Merged(Front(p)).kind = "dir"}
    IN {Change(p, IF ~InLower(p) THEN "Added"
                  ELSE IF Merged(p) = NoNode THEN "Deleted" ELSE "Modified") : p \in changed}

-----------------------------------------------------------------------------
(* Walking the tree.  A frame is an open directory; its name is the entry  *)
(* in hand.                                                                *)

Nowhere == [ino |-> 0, ver |-> 0]
Give(at) == scan' = [NoScan EXCEPT !.at = at]
Frame(ino, path) == [ino |-> ino, path |-> path, stage |-> "enter", before |-> Nowhere,
                     todo |-> {}, name |-> "none", stamp |-> Nowhere, open |-> 0, body |-> "none"]
Top == Last(scan.stack)
Here == Append(Top.path, Top.name)
SetTop(frame) == [scan EXCEPT !.stack = Append(Front(@), frame)]
StatAt(dir, name) ==
    IF name \in DOMAIN fs[dir].entries THEN Stamp(fs[dir].entries[name]) ELSE Nowhere
Size(node) == IF node.kind = "dir" \/ node.body = "empty" THEN 0 ELSE 1

\* collect: the root is opened and described.
BeginScan ==
    /\ scan.at = "idle"
    /\ IF ~certain THEN Give("unknown")
       ELSE scan' = [NoScan EXCEPT !.at = "collect", !.stack = <<Frame(rootAt, <<>>)>>,
               !.facts = <<>> :> [id |-> Identity(fs[rootAt]), children |-> {},
                                  stamp |-> Stamp(rootAt)]]

In(at, stage) == scan.at = at /\ scan.stack # <<>> /\ Top.stage = stage

EnterDir ==
    /\ In("collect", "enter")
    /\ IF Len(Top.path) > max_depth THEN Give("budget")
       ELSE scan' = SetTop([Top EXCEPT !.stage = "list", !.before = Stamp(Top.ino)])

\* Mutant: attributes are left to the other checks.
HasXattrsIgnored(ino) == FALSE

\* no_xattrs and no_symlink_xattrs: attributes cannot be represented in the lower view.
HasXattrs(ino) == fs[ino].xattrs

ListDir ==
    /\ In("collect", "list")
    /\ LET names == DOMAIN fs[Top.ino].entries
       IN IF HasXattrs(Top.ino) THEN Give("unsupported")
          ELSE IF Cardinality(names) + Cardinality(DOMAIN scan.facts) > max_nodes THEN Give("budget")
          ELSE scan' = [SetTop([Top EXCEPT !.stage = "next", !.todo = names])
                          EXCEPT !.facts[Top.path].children = names]

\* Mutant: the limit is compared with what was hashed before.
AffordableLate(size) == scan.bytes <= max_bytes

Affordable(size) == scan.bytes + size <= max_bytes

\* Mutant: an entry that has vanished is asked for again.
VanishedRetry == scan' = scan

Vanished == Give("unknown")

\* The next entry is looked at without being opened, and its size taken from the budget.
StatChild ==
    /\ In("collect", "next") /\ Top.todo # {}
    /\ LET name == CHOOSE n \in Top.todo : TRUE
           stamp == StatAt(Top.ino, name)
           node == fs[stamp.ino]
       IN IF Cardinality(DOMAIN scan.facts) >= max_nodes THEN Give("budget")
          ELSE IF stamp = Nowhere THEN Vanished
          ELSE IF node.kind \notin {"dir", "file", "link"} THEN Give("unsupported")
          ELSE IF ~Affordable(Size(node)) THEN Give("budget")
          ELSE scan' = [SetTop([Top EXCEPT !.stage = "open", !.todo = @ \ {name},
                                           !.name = name, !.stamp = stamp])
                          EXCEPT !.bytes = @ + Size(node)]

\* Mutant: a directory is described only after it has been walked.
DescribedLater(ino) == scan.facts

Described(ino) ==
    (Here :> [id |-> Identity(fs[ino]), children |-> {}, stamp |-> Top.stamp]) @@ scan.facts

\* It is opened, and must still be what was looked at. A link is not opened: its attributes
\* are listed by its name before it is compared.
OpenChild ==
    /\ In("collect", "open")
    /\ LET now == StatAt(Top.ino, Top.name) IN
       IF now # Nowhere /\ fs[Top.stamp.ino].kind = "link" /\ HasXattrs(now.ino)
       THEN Give("unsupported")
       ELSE IF now # Top.stamp THEN Give("unknown")
       ELSE IF fs[Top.stamp.ino].kind # "dir" THEN scan' = SetTop([Top EXCEPT !.stage = "read"])
       ELSE scan' =
         [scan EXCEPT !.facts = Described(Top.stamp.ino),
                      !.stack = Append(Append(Front(@), [Top EXCEPT !.stage = "back"]),
                                       Frame(Top.stamp.ino, Here))]

\* A file is hashed from its descriptor, a link is read by its name.
ReadChild ==
    /\ In("collect", "read")
    /\ LET link == fs[Top.stamp.ino].kind = "link"
           ino == IF link THEN StatAt(Top.ino, Top.name).ino ELSE Top.stamp.ino
       IN IF ino = 0 \/ (link /\ fs[ino].kind # "link") THEN Give("unknown")
          ELSE IF ~link /\ HasXattrs(ino) THEN Give("unsupported")
          ELSE scan' = SetTop([Top EXCEPT !.stage = "check", !.body = fs[ino].body])

CheckChild ==
    /\ In("collect", "check")
    /\ IF Stamp(Top.stamp.ino) # Top.stamp \/ StatAt(Top.ino, Top.name) # Top.stamp
       THEN Give("unknown")
       ELSE scan' = [SetTop([Top EXCEPT !.stage = "next", !.body = "none"]) EXCEPT
                !.facts = (Here :> [id |-> [kind |-> fs[Top.stamp.ino].kind, body |-> Top.body],
                                    children |-> {}, stamp |-> Top.stamp]) @@ @]

\* Back from a subdirectory: its entry must not have changed.
BackInParent ==
    /\ In("collect", "back")
    /\ IF StatAt(Top.ino, Top.name) # Top.stamp THEN Give("unknown")
       ELSE scan' = SetTop([Top EXCEPT !.stage = "next"])

LeaveDir ==
    /\ In("collect", "next") /\ Top.todo = {}
    /\ IF Stamp(Top.ino) # Top.before THEN Give("unknown")
       ELSE scan' = [scan EXCEPT !.stack = Front(@),
                                 !.at = IF Len(scan.stack) = 1 THEN "compare" ELSE "collect"]

CollectStep ==
    /\ \/ BeginScan \/ EnterDir \/ ListDir \/ StatChild \/ OpenChild \/ ReadChild \/ CheckChild
       \/ BackInParent \/ LeaveDir
    /\ UNCHANGED truth

\* The lower view never changes. A query of it that fails (its lease is over, its metadata
\* cannot be had) ends the scan with its error: an error is never taken for an absent path.
LowerFails ==
    /\ scan.at = "compare" /\ Give("lower")
    /\ UNCHANGED truth

OpaqueEntries(facts) ==
    MapThenSumSet(LAMBDA d : Cardinality({p \in DOMAIN Lower : p # <<>> /\ Front(p) = d}),
                  {d \in DOMAIN facts : facts[d].id.kind = "dir" /\ OpaqueAt(facts, d) /\ LowerDir(d)})
Compare ==
    /\ scan.at = "compare"
    /\ IF ~MarkersSound(scan.facts) THEN Give("unknown")
       ELSE IF OpaqueEntries(scan.facts) > max_nodes
               \/ Cardinality(Changes(scan.facts)) > max_nodes THEN Give("budget")
       ELSE IF ~certain THEN Give("unknown")
       ELSE scan' = [scan EXCEPT !.at = "compared", !.changes = Changes(scan.facts)]
    /\ UNCHANGED truth

BeginVerify ==
    /\ scan.at = "compared"
    /\ truth' = TrueChanges
    /\ IF Stamp(rootAt) # scan.facts[<<>>].stamp THEN Give("unknown")
       ELSE scan' = [scan EXCEPT !.at = "verify",
                                 !.stack = <<Frame(scan.facts[<<>>].stamp.ino, <<>>)>>]

VerifyDir ==
    /\ In("verify", "enter")
    /\ IF Stamp(Top.ino) # scan.facts[Top.path].stamp THEN Give("unknown")
       ELSE scan' = SetTop([Top EXCEPT !.stage = "list"])
    /\ UNCHANGED truth

\* Mutant: the second listing starts where the first one ended.
RelistedRest(ino) == {}

Relisted(ino) == DOMAIN fs[ino].entries

VerifyList ==
    /\ In("verify", "list")
    /\ LET children == scan.facts[Top.path].children
       IN IF Cardinality(Relisted(Top.ino)) > Cardinality(children) THEN Give("budget")
          ELSE IF Relisted(Top.ino) # children THEN Give("unknown")
          ELSE scan' = SetTop([Top EXCEPT !.stage = "next", !.todo = children])
    /\ UNCHANGED truth

\* Mutant: only directories are compared again.
SameAgainDir(name) ==
    LET fact == scan.facts[Append(Top.path, name)]
    IN fact.id.kind = "dir" => StatAt(Top.ino, name) = fact.stamp

SameAgain(name) == StatAt(Top.ino, name) = scan.facts[Append(Top.path, name)].stamp

VerifyChild ==
    /\ In("verify", "next") /\ Top.todo # {}
    /\ LET name == CHOOSE n \in Top.todo : TRUE
           path == Append(Top.path, name)
           rest == Append(Front(scan.stack), [Top EXCEPT !.todo = @ \ {name}])
       IN IF ~SameAgain(name) THEN Give("unknown")
          ELSE scan' = [scan EXCEPT !.stack =
                   IF scan.facts[path].id.kind = "dir"
                   THEN Append(rest, Frame(StatAt(Top.ino, name).ino, path)) ELSE rest]
    /\ UNCHANGED truth

VerifyLeave ==
    /\ In("verify", "next") /\ Top.todo = {}
    /\ IF Stamp(Top.ino) # scan.facts[Top.path].stamp THEN Give("unknown")
       ELSE scan' = [scan EXCEPT !.stack = Front(@),
                                 !.at = IF Len(scan.stack) = 1 THEN "verified" ELSE "verify"]
    /\ UNCHANGED truth

\* Mutant: the pause is not asked again.
StillPausedOnce == TRUE

StillPaused == certain

Deliver ==
    /\ scan.at = "verified"
    /\ IF StillPaused THEN scan' = [NoScan EXCEPT !.at = "done", !.changes = scan.changes]
       ELSE Give("unknown")
    /\ UNCHANGED truth

DiffStep ==
    /\ \/ CollectStep \/ LowerFails \/ Compare \/ BeginVerify \/ VerifyDir \/ VerifyList \/ VerifyChild
       \/ VerifyLeave \/ Deliver
    /\ UNCHANGED <<fs, rootAt, certain, wrote>>

-----------------------------------------------------------------------------
(* The host: programs that change the upper layer beside the mount.        *)

Scanning == scan.at \in {"collect", "compare", "compared", "verify", "verified"}
Linked == {rootAt} \cup UNION {{fs[i].entries[n] : n \in DOMAIN fs[i].entries} : i \in DOMAIN fs}
Bump(i) == [fs EXCEPT ![i].ver = @ + 1]

HostWrite ==
    /\ Scanning /\ wrote < MaxHostWrites /\ wrote' = wrote + 1
    /\ \/ \E i \in Linked :
            /\ fs[i].kind # "dir"
            /\ fs' \in {[Bump(i) EXCEPT ![i].body = "written"], [Bump(i) EXCEPT ![i].xattrs = TRUE]}
            /\ UNCHANGED rootAt
       \/ \E d \in Linked : \E n \in DOMAIN fs[d].entries :
            /\ fs' = [Bump(d) EXCEPT ![d].entries = [m \in DOMAIN @ \ {n} |-> @[m]],
                                     ![fs[d].entries[n]].ver = @ + 1]
            /\ UNCHANGED rootAt
       \/ \E d \in Linked, i \in Spare \ Linked : \E n \in DOMAIN fs[d].entries \cup {"new"} :
            /\ fs[d].kind = "dir"
            /\ fs' = [Bump(d) EXCEPT ![d].entries = (n :> i) @@ @]
            /\ UNCHANGED rootAt
       \/ \E i \in Spare \ Linked : fs[i].kind = "dir" /\ rootAt' = i /\ UNCHANGED fs
    /\ UNCHANGED <<scan, certain, truth>>

\* A request of the mount ends in a way that makes the pause uncertain.
LoseCertainty ==
    /\ certain /\ (Scanning \/ scan.at = "idle")
    /\ certain' = FALSE
    /\ UNCHANGED <<fs, rootAt, scan, wrote, truth>>

DiffNext == DiffStep \/ HostWrite \/ LoseCertainty
\* A scan that was begun goes on; nothing makes anybody begin one.
DiffFairness == WF_diffVars(scan.at # "idle" /\ DiffStep)
DiffSpec == DiffInit /\ [][DiffNext]_diffVars /\ DiffFairness

-----------------------------------------------------------------------------
(* Properties.                                                             *)

DiffTypeOK ==
    /\ rootAt \in DOMAIN fs
    /\ scan.at \in {"idle", "collect", "compare", "compared", "verify", "verified", "done",
                    "unknown", "unsupported", "budget", "lower"}
    /\ \A k \in 1..Len(scan.stack) : scan.stack[k].path \in DOMAIN scan.facts
    /\ certain \in BOOLEAN /\ wrote \in 0..MaxHostWrites

\* A difference that is delivered is the difference there was when the verification began,
\* although the host may have changed any file before, during and after the walk.  Markers,
\* opaque directories and replaced kinds mean what they mean to the merged view.
DiffTrue == scan.at = "done" => scan.changes = truth

\* Unless the host interferes, a scan of a sound upper layer does not end as unknown.  A failure
\* of the lower view is reported as such and is not among the causes.
UnsoundMarker ==
    \E i \in Linked : \E n \in DOMAIN fs[i].entries :
        \/ n \in Marks /\ Identity(fs[fs[i].entries[n]]) # [kind |-> "file", body |-> "empty"]
        \/ n \notin Marks /\ Whiteout(n) \in DOMAIN fs[i].entries
QuietKnown == scan.at = "unknown" /\ wrote = 0 /\ certain => UnsoundMarker

\* The scan never holds more nodes, nor hashes more, than its limits allow.
WithinLimits == Cardinality(DOMAIN scan.facts) <= max_nodes /\ scan.bytes <= max_bytes

\* Nothing is delivered under a pause that has become uncertain at any time of the scan.
UncertainIsUnknown == [][scan.at # "done" /\ scan'.at = "done" => certain]_diffVars

\* A scan has begun and not ended.
ScanBusy == scan.at \notin {"idle", "done", "unknown", "unsupported", "budget", "lower"}

\* A difference is delivered only if it is true and its pause certain; a quiet sound upper is
\* not reported unknown, and no scan exceeds its limits (upper_diff.rs).
DiffSound == []DiffTrue /\ []QuietKnown /\ []WithinLimits /\ UncertainIsUnknown
=============================================================================
