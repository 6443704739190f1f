----------------------------- MODULE FixedView -----------------------------
(***************************************************************************)
(* The namespace of one mounted snapshot (fuse.rs): inodes are created     *)
(* lazily, a directory at a time, by calls that run concurrently, may be   *)
(* dropped, and may outlive the lease.                                     *)
(*                                                                         *)
(* A call walks from an inode along names.  Before it looks a name up it   *)
(* loads the directory: fetches its pages (from the page hints on disk or  *)
(* from the service), proves them, lets a blocking job keep the proved     *)
(* pages as hints, and creates the children under the state lock.  The     *)
(* content of a directory is fixed by the snapshot: it is the constant     *)
(* Tree, and whatever else a server or a disk returns fails the proof.     *)
(***************************************************************************)
EXTENDS Naturals, FiniteSets, Sequences, SequencesExt

CONSTANTS
    Tree,         \* [paths of directories -> Seq([name, kind])]
    Targets,      \* the paths that calls ask about
    Callers,      \* the calls that may be in flight
    OpsOf,        \* the operations each of them makes
    max_cached_nodes,
    PAGE_LEARNING_JOBS

ASSUME ViewAssumption ==
    /\ <<>> \in DOMAIN Tree
    /\ max_cached_nodes \in Nat \ {0} /\ PAGE_LEARNING_JOBS \in Nat

VARIABLES
    nodes,        \* the inode table: inode i is the i-th node created
    call,         \* what each caller does
    handle,       \* each caller's directory stream: what the kernel has been given
    hints,        \* the page hints on disk, per directory
    learning,     \* the blocking jobs that write hints: [dir, from]
    leased        \* the lease holds
viewVars == <<nodes, call, handle, hints, learning, leased>>

ROOT_INODE == 1
Dirs == DOMAIN Tree

\* path_state and directory_entries of the upper diff run under a mutation pause.
WalkOps == {"lookup", "path_state", "diff_state"}
ListOps == {"readdir", "entries", "diff_entries"}
DiffOps == {"diff_state", "diff_entries"}

NoAnswer == [is |-> "none", inode |-> 0]
Resting == [op |-> "none", at |-> "idle", inode |-> 0, rest |-> <<>>, target |-> <<>>,
            pages |-> "none", answer |-> NoAnswer]

\* A new node: a directory that is not loaded, unless its kind is set to another.
Dir(path, parent) == [path |-> path, kind |-> "dir", parent |-> parent,
                      loaded |-> FALSE, children |-> <<>>]

\* The inode of a name in a directory, or 0.
Child(n, name) == IF name \in DOMAIN n.children THEN n.children[name] ELSE 0

\* The table with the entries of directory i that it lacks, in the order of its pages.
WithEntries(table, i) ==
    LET n == table[i]
        missing == SelectSeq(Tree[n.path], LAMBDA e : Child(n, e.name) = 0)
        inodeOf(name) == Len(table) + (CHOOSE k \in DOMAIN missing : missing[k].name = name)
        fresh == [k \in DOMAIN missing |->
                    [Dir(Append(n.path, missing[k].name), i) EXCEPT !.kind = missing[k].kind]]
    IN [table EXCEPT ![i].loaded = TRUE,
                     ![i].children = [name \in {e.name : e \in ToSet(Tree[n.path])} |->
                        IF Child(n, name) # 0 THEN Child(n, name) ELSE inodeOf(name)]] \o fresh

\* The constructor loads the root before the mount exists.
ViewInit ==
    /\ nodes = WithEntries(<<Dir(<<>>, ROOT_INODE)>>, ROOT_INODE)
    /\ call = [c \in Callers |-> Resting]
    /\ handle = [c \in Callers |-> [inode |-> 0, offset |-> 0, seen |-> <<>>, over |-> FALSE]]
    /\ hints = [d \in Dirs |-> "none"]
    /\ learning = {}
    /\ leased = TRUE

-----------------------------------------------------------------------------
(* Calls, and the checks around them.                                      *)

\* check_metadata_lease.  A diff is allowed by its mutation pause instead, which is
\* the subject of MutationFence.
Allowed(op) == op \in DiffOps \/ leased

Answer(c, is, inode) ==
    call' = [call EXCEPT ![c] = [Resting EXCEPT !.target = call[c].target,
                                                !.answer = [is |-> is, inode |-> inode]]]
Refuse(c) == Answer(c, "error", 0)

Unloaded(i) == nodes[i].kind = "dir" /\ ~nodes[i].loaded

\* Under the lock: a loaded directory, or a file, needs no load.
Goto(i) == IF Unloaded(i) THEN "fetch" ELSE "look"

\* A call begins with the first check of the lease or of the pause.
Enter(c, op, i, rest, target) ==
    call' = [call EXCEPT ![c] =
               IF Allowed(op)
               THEN [Resting EXCEPT !.op = op, !.inode = i, !.rest = rest, !.target = target,
                                    !.at = IF rest = <<>> /\ op \in WalkOps THEN "look" ELSE Goto(i)]
               ELSE [Resting EXCEPT !.target = target, !.answer = [is |-> "error", inode |-> 0]]]

\* A query from the root, or a lookup below an inode the kernel knows.
Query(c) ==
    /\ call[c].at = "idle"
    /\ \E op \in OpsOf[c] \ {"lookup", "readdir"}, target \in Targets :
          Enter(c, op, ROOT_INODE, target, target)
    /\ UNCHANGED <<nodes, handle, hints, learning, leased>>

Lookup(c) ==
    /\ call[c].at = "idle" /\ "lookup" \in OpsOf[c]
    /\ \E i \in DOMAIN nodes, target \in Targets :
          /\ target # <<>> /\ Front(target) = nodes[i].path
          /\ Enter(c, "lookup", i, <<Last(target)>>, target)
    /\ UNCHANGED <<nodes, handle, hints, learning, leased>>

\* A readdir of an opened directory starts a stream, or resumes one that was cut at
\* the offset it reached.
Readdir(c) ==
    /\ call[c].at = "idle" /\ "readdir" \in OpsOf[c] /\ ~handle[c].over
    /\ \E i \in {n \in DOMAIN nodes : nodes[n].kind = "dir"} :
          /\ handle[c].inode \in {0, i}
          /\ handle' = [handle EXCEPT ![c].inode = i]
          /\ Enter(c, "readdir", i, <<>>, nodes[i].path)
    /\ UNCHANGED <<nodes, hints, learning, leased>>

-----------------------------------------------------------------------------
(* load_directory.                                                         *)

\* Mutant: pages from the wire are taken as they come.
ProvedOnTrust(pages) == TRUE

\* Every page is one the parent committed to, and together they are the complete
\* canonical directory.
Proved(pages) == pages # "unproved"

\* The pages of the directory, a good hint or the service's answer, fetched and
\* proved under a lease.  A walk over the page budget, a failed request and a
\* failed proof are errors.
Fetch(c) ==
    LET d == nodes[call[c].inode].path IN
    /\ call[c].at = "fetch"
    /\ \/ \E p \in IF hints[d] = "good" THEN {"hint"} ELSE {"wire", "unproved"} :
            /\ leased /\ Proved(p)
            /\ call' = [call EXCEPT ![c].at = IF p = "hint" THEN "apply" ELSE "learn",
                                    ![c].pages = IF p = "hint" THEN "none" ELSE p]
       \/ Refuse(c)
    /\ UNCHANGED <<nodes, handle, hints, learning, leased>>

\* admit_page_learning never waits for a slot.
Admitted == Cardinality(learning) < PAGE_LEARNING_JOBS

\* Mutant: a refused admission starts the job all the same.
LearnUnadmitted(c) ==
    /\ call[c].at = "learn"
    /\ learning' = learning \cup {[dir |-> nodes[call[c].inode].path,
                                   pages |-> call[c].pages, by |-> c]}
    /\ call' = [call EXCEPT ![c].at = "learning", ![c].pages = "none"]
    /\ UNCHANGED <<nodes, handle, hints, leased>>

\* Only pages from the wire are learned, under a lease, by a job with an admission
\* of its own; when every job is taken, or the pages exceed the construction budget,
\* the learning is skipped.
Learn(c) ==
    /\ call[c].at = "learn"
    /\ \/ ~leased /\ Refuse(c) /\ UNCHANGED learning
       \/ /\ leased /\ Admitted
          /\ learning' = learning \cup {[dir |-> nodes[call[c].inode].path,
                                         pages |-> call[c].pages, by |-> c]}
          /\ call' = [call EXCEPT ![c].at = "learning", ![c].pages = "none"]
       \/ /\ leased
          /\ call' = [call EXCEPT ![c].at = "apply", ![c].pages = "none"]
          /\ UNCHANGED learning
    /\ UNCHANGED <<nodes, handle, hints, leased>>

\* Mutant: the job tells its caller nothing.
LearnedSilently(j) ==
    /\ j \in learning
    /\ learning' = learning \ {j}
    /\ UNCHANGED <<nodes, handle, hints, call, leased>>

\* The job ends, with its page written or not; whoever waits for it goes on.
Learned(j) ==
    /\ j \in learning
    /\ learning' = learning \ {j}
    /\ \/ hints' = [hints EXCEPT ![j.dir] = IF j.pages = "wire" THEN "good" ELSE "unproved"]
       \/ UNCHANGED hints
    /\ call' = IF call[j.by].at = "learning" THEN [call EXCEPT ![j.by].at = "apply"] ELSE call
    /\ UNCHANGED <<nodes, handle, leased>>

\* The last check of the lease, before the state is locked.
Recheck(c) ==
    /\ call[c].at = "apply"
    /\ IF leased THEN call' = [call EXCEPT ![c].at = "insert"] ELSE Refuse(c)
    /\ UNCHANGED <<nodes, handle, hints, learning, leased>>

\* Mutant: a directory that another call loaded meanwhile is built again.
ApplyAgain(c) ==
    LET i == call[c].inode
        again == [nodes EXCEPT ![i].children = <<>>]
        fresh == [k \in DOMAIN Tree[nodes[i].path] |->
                    [Dir(Append(nodes[i].path, Tree[nodes[i].path][k].name), i) EXCEPT
                        !.kind = Tree[nodes[i].path][k].kind]]
    IN
    /\ call[c].at = "insert"
    /\ IF Len(nodes) + Len(fresh) > max_cached_nodes
       THEN Refuse(c) /\ UNCHANGED nodes
       ELSE /\ call' = [call EXCEPT ![c].at = "look"]
            /\ nodes' = IF nodes[i].loaded THEN again \o fresh ELSE WithEntries(nodes, i)
    /\ UNCHANGED <<handle, hints, learning, leased>>

\* Mutant: the budget counts the nodes there are, not those the directory adds.
ApplyUnbounded(c) ==
    LET i == call[c].inode IN
    /\ call[c].at = "insert"
    /\ IF ~nodes[i].loaded /\ Len(nodes) >= max_cached_nodes
       THEN Refuse(c) /\ UNCHANGED nodes
       ELSE /\ call' = [call EXCEPT ![c].at = "look"]
            /\ nodes' = IF nodes[i].loaded THEN nodes ELSE WithEntries(nodes, i)
    /\ UNCHANGED <<handle, hints, learning, leased>>

\* Mutant: a directory over the node budget is published with what fits.
ApplyPartly(c) ==
    LET i == call[c].inode IN
    /\ call[c].at = "insert"
    /\ call' = [call EXCEPT ![c].at = "look"]
    /\ nodes' = IF nodes[i].loaded THEN nodes
                ELSE IF Len(WithEntries(nodes, i)) > max_cached_nodes
                THEN [nodes EXCEPT ![i].loaded = TRUE]
                ELSE WithEntries(nodes, i)
    /\ UNCHANGED <<handle, hints, learning, leased>>

\* The children, under the lock: nothing when another call has loaded the directory, an
\* error when the table would overflow.
Apply(c) ==
    LET i == call[c].inode IN
    /\ call[c].at = "insert"
    /\ IF ~nodes[i].loaded /\ Len(nodes) + Len(Tree[nodes[i].path]) > max_cached_nodes
       THEN Refuse(c) /\ UNCHANGED nodes
       ELSE /\ call' = [call EXCEPT ![c].at = "look"]
            /\ nodes' = IF nodes[i].loaded THEN nodes ELSE WithEntries(nodes, i)
    /\ UNCHANGED <<handle, hints, learning, leased>>

-----------------------------------------------------------------------------
(* Lookups and listings over what is loaded.                               *)

\* The next name of a walk.  An ancestor that is no directory is an error, except
\* that lookup answers ENOENT; an absent name ends the walk.
Look(c) ==
    LET n == nodes[call[c].inode]
        child == IF n.kind = "dir" THEN Child(n, Head(call[c].rest)) ELSE 0
    IN
    /\ call[c].at = "look" /\ call[c].rest # <<>>
    /\ \/ /\ n.kind # "dir" /\ call[c].op # "lookup"
          /\ Refuse(c)
       \/ /\ n.kind = "dir" \/ call[c].op = "lookup"
          /\ IF child # 0
             THEN call' = [call EXCEPT ![c].inode = child, ![c].rest = Tail(@),
                                       ![c].at = IF Len(call[c].rest) > 1 \/ call[c].op \in ListOps
                                                 THEN Goto(child) ELSE "look"]
             ELSE IF ~Allowed(call[c].op) \/ call[c].op \in ListOps THEN Refuse(c) ELSE Answer(c, "absent", 0)
    /\ UNCHANGED <<nodes, handle, hints, learning, leased>>

\* Mutant: the answer of a walk is given whatever became of the lease.
FoundUnchecked(c) ==
    /\ call[c].at = "look" /\ call[c].rest = <<>> /\ call[c].op \in WalkOps
    /\ Answer(c, "present", call[c].inode)
    /\ UNCHANGED <<nodes, handle, hints, learning, leased>>

\* The end of a walk: the identity of the node, after the last check.
Found(c) ==
    /\ call[c].at = "look" /\ call[c].rest = <<>> /\ call[c].op \in WalkOps
    /\ IF Allowed(call[c].op) THEN Answer(c, "present", call[c].inode) ELSE Refuse(c)
    /\ UNCHANGED <<nodes, handle, hints, learning, leased>>

\* directory_entries: the complete children of a directory.
Entries(c) ==
    LET n == nodes[call[c].inode] IN
    /\ call[c].at = "look" /\ call[c].rest = <<>> /\ call[c].op \in {"entries", "diff_entries"}
    /\ IF Allowed(call[c].op) /\ n.kind = "dir" THEN Answer(c, "list", call[c].inode) ELSE Refuse(c)
    /\ UNCHANGED <<nodes, handle, hints, learning, leased>>

\* readdir starts its stream from the sealed index of the directory.
OpenStream(c) ==
    /\ call[c].at = "look" /\ call[c].op = "readdir"
    /\ IF leased THEN call' = [call EXCEPT ![c].at = "stream"] ELSE Refuse(c)
    /\ UNCHANGED <<nodes, handle, hints, learning, leased>>

\* ".", "..", then the children in order.
Listing(i) ==
    <<i, nodes[i].parent>> \o
    [k \in DOMAIN Tree[nodes[i].path] |-> Child(nodes[i], Tree[nodes[i].path][k].name)]

\* Mutant: an entry carries its own offset, so a resumed stream repeats it.
OffsetAfter(n) == n - 1

\* Entry n carries the offset of entry n + 1.
Offset(n) == n

\* One entry of a stream, with a check of the lease before each, or its end.  The
\* kernel keeps the offset that came with the last entry it was given.
Emit(c) ==
    LET entries == Listing(call[c].inode)
        at == handle[c].offset + 1
    IN
    /\ call[c].at = "stream"
    /\ \/ /\ leased /\ at <= Len(entries)
          /\ handle' = [handle EXCEPT ![c].seen = Append(@, entries[at]),
                                      ![c].offset = Offset(at)]
          /\ UNCHANGED call
       \/ /\ leased /\ at > Len(entries)
          /\ handle' = [handle EXCEPT ![c].over = TRUE]
          /\ Answer(c, "list", call[c].inode)
       \/ /\ ~leased
          /\ Refuse(c)
          /\ UNCHANGED handle
    /\ UNCHANGED <<nodes, hints, learning, leased>>

\* The future of a call is dropped (a learning job goes on), or the buffer of a
\* readdir is full and the kernel will resume at its offset.
Drop(c) ==
    /\ call[c].at # "idle"
    /\ call' = [call EXCEPT ![c] = Resting]
    /\ UNCHANGED <<nodes, handle, hints, learning, leased>>

\* External: the lease ends, or retention or the disk takes a hint away.
Environment ==
    /\ \/ leased /\ leased' = FALSE /\ UNCHANGED hints
       \/ /\ \E d \in Dirs : hints[d] # "none" /\ hints' = [hints EXCEPT ![d] = "none"]
          /\ UNCHANGED leased
    /\ UNCHANGED <<nodes, call, handle, learning>>

-----------------------------------------------------------------------------
Proceed(c) ==
    \/ Fetch(c) \/ Learn(c) \/ Recheck(c) \/ Apply(c) \/ Look(c)
    \/ Found(c) \/ Entries(c) \/ OpenStream(c) \/ Emit(c)

ViewNext ==
    \/ \E c \in Callers : Query(c) \/ Lookup(c) \/ Readdir(c) \/ Proceed(c) \/ Drop(c)
    \/ \E j \in learning : Learned(j)
    \/ Environment

\* A call is polled while it can go on (every request has a timeout), and a
\* blocking job ends.  (That is weak fairness of Proceed and of Learned, with what
\* enables them written out.)
CanProceed(c) == call[c].at \notin {"idle", "learning"}
ViewFairness ==
    /\ \A c \in Callers : []<>(~CanProceed(c)) \/ []<><<TRUE>>_<<call[c], handle[c]>>
    /\ []<>(learning = {}) \/ []<><<TRUE>>_learning

ViewSpec == ViewInit /\ [][ViewNext]_viewVars /\ ViewFairness

-----------------------------------------------------------------------------
(* Properties.                                                             *)

\* The inode table, the calls and the hints have their types (fuse.rs State).
ViewTypeOK ==
    /\ \A i \in DOMAIN nodes :
          /\ nodes[i].kind \in {"dir", "file", "link"}
          /\ nodes[i].parent \in DOMAIN nodes
          /\ \A n \in DOMAIN nodes[i].children : nodes[i].children[n] \in DOMAIN nodes
    /\ \A c \in Callers : call[c].inode \in {0} \cup DOMAIN nodes
    /\ Cardinality(learning) <= PAGE_LEARNING_JOBS

KindIn(path) ==
    IF path = <<>> THEN "dir"
    ELSE IF Front(path) \notin Dirs THEN "absent"
    ELSE LET es == {e \in ToSet(Tree[Front(path)]) : e.name = Last(path)}
         IN IF es = {} THEN "absent" ELSE (CHOOSE e \in es : TRUE).kind

\* However loads interleave, a path has one inode, the inode has the kind the
\* snapshot gives the path, and a loaded directory has exactly its entries.
OneInodePerPath ==
    /\ \A i, j \in DOMAIN nodes : nodes[i].path = nodes[j].path => i = j
    /\ \A i \in DOMAIN nodes :
          /\ nodes[i].kind = KindIn(nodes[i].path)
          /\ nodes[i].kind = "dir" =>
               DOMAIN nodes[i].children =
                 IF nodes[i].loaded THEN {e.name : e \in ToSet(Tree[nodes[i].path])} ELSE {}

\* Concurrent loads never take the table over its budget, though each of them
\* would fit alone.
NodesBounded == Len(nodes) <= max_cached_nodes

\* "Absent" is answered only for a path the snapshot does not have, and "present"
\* with the inode of that very path; a listing has all the names of its directory: a
\* failed, refused or interrupted load never reads as an empty or partial directory.
AnswersTrue ==
    \A c \in Callers :
        /\ call[c].answer.is = "absent" => KindIn(call[c].target) = "absent"
        /\ call[c].answer.is = "present" => nodes[call[c].answer.inode].path = call[c].target
        /\ call[c].answer.is = "list" =>
              /\ nodes[call[c].answer.inode].path = call[c].target
              /\ DOMAIN nodes[call[c].answer.inode].children = {e.name : e \in ToSet(Tree[call[c].target])}

\* A directory stream that reached its end, in as many readdir calls as it took,
\* has given the kernel every entry once and in order.
ListingExact ==
    \A c \in Callers :
        handle[c].seen # <<>> =>
            /\ IsPrefix(handle[c].seen, Listing(handle[c].inode))
            /\ handle[c].over => handle[c].seen = Listing(handle[c].inode)

\* No page reaches the hints before the directory it belongs to was proved.
HintsProven == \A d \in Dirs : hints[d] # "unproved"

\* An inode, once created, keeps its path and kind for the life of the mount, and
\* the children of a loaded directory never change.
InodesStable ==
    [][\A i \in DOMAIN nodes :
         /\ i \in DOMAIN nodes'
         /\ nodes'[i].path = nodes[i].path /\ nodes'[i].kind = nodes[i].kind
         /\ nodes[i].loaded => nodes'[i] = nodes[i]]_viewVars

\* After the lease is over a mount answers nothing but the facts a paused diff asks
\* for and that were recorded before: no call succeeds, no entry is streamed, and no
\* inode is created except by a load that passed its last check before (fuse.rs:795).
RevokedIsSilent ==
    [][~leased =>
        /\ (\A c \in Callers : call[c].at # "insert") => nodes' = nodes
        /\ \A c \in Callers :
              /\ call'[c].at = "insert" => call[c].at = "insert"
              /\ handle'[c].seen = handle[c].seen
              /\ call'[c].answer # call[c].answer /\ call'[c].answer.is \notin {"none", "error"} =>
                    call[c].op \in DiffOps]_viewVars

\* The call of c has not ended.
Calling(c) == call[c].at # "idle"

\* The inode table is a bounded picture of the snapshot, however loads interleave (fuse.rs
\* load and apply).
TableExact == OneInodePerPath /\ NodesBounded

\* What a mount answers is true of the snapshot, is answered under the lease, and stays true
\* for as long as the kernel knows the inode (fuse.rs lookup, readdir, path states and page
\* hints).
ViewTrue == []AnswersTrue /\ []ListingExact /\ []HintsProven /\ InodesStable /\ RevokedIsSilent
=============================================================================
