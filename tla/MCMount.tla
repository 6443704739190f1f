------------------------------ MODULE MCMount ------------------------------
(***************************************************************************)
(* Model checking of the parts behind a mount: the collection of metadata  *)
(* pages with their index, the inode table of a fixed view and the bounded *)
(* local reads.  They share no state in these models, so each behaviour    *)
(* runs one part and leaves the others at rest: the state space is the sum *)
(* of theirs and not the product.                                          *)
(***************************************************************************)
EXTENDS SnapshotSync, FixedView, CasWork

CONSTANTS j1, j2, c1, c2, a1, a2, b1, b2, A, B

VARIABLE part
mountVars == <<part, syncVars, viewVars, workVars>>

DirEntry(n, r) == [name |-> n, kind |-> "directory", ref |-> r, size |-> 0]
FileEntry(n, c) == [name |-> n, kind |-> "regular", ref |-> c, size |-> 1]
Leaf(es) == [entries |-> es, children |-> {}, canonical |-> TRUE]
Branch(es, kids) == [entries |-> es, children |-> kids, canonical |-> TRUE]
Kid(l, i, n) == [label |-> l, id |-> i, n |-> n]
MCPages ==
    ("R1" :> Branch({FileEntry("t", "c3")}, {Kid("a", "A", 1), Kid("b", "B", 1)}))
    @@ ("A" :> Leaf({DirEntry("a1", "D")})) @@ ("B" :> Leaf({FileEntry("b1", "c2")}))
    @@ ("D" :> Leaf({FileEntry("f", "c1"), DirEntry("e", "E")})) @@ ("E" :> Leaf({}))
    @@ ("R2" :> Leaf({DirEntry("x", "D"), DirEntry("y", "D"), DirEntry("z", "D")}))
    @@ ("R3" :> Branch({}, {Kid("b", "B", 2)}))   \* lies about its child
    @@ ("R4" :> Leaf({FileEntry("x", "c1"), [FileEntry("y", "c1") EXCEPT !.size = 2]}))
    @@ ("R5" :> [Leaf({FileEntry("x", "c1")}) EXCEPT !.canonical = FALSE])
MCRoots == ("s1" :> "R1") @@ ("s2" :> "R2") @@ ("s3" :> "R3") @@ ("s4" :> "R4") @@ ("s5" :> "R5")
Sync(v, m) == [view |-> v, mode |-> m]
MCTasks == (j1 :> {Sync("s1", "full")})
           @@ (j2 :> {Sync("s2", "files"), Sync("s1", "bounded"), Sync("s2", "bounded"), Sync("s3", "full"),
                      Sync("s4", "bounded"), Sync("s5", "bounded")})
StaleRecord(ps, ok) == [pages |-> ps, files |-> {}, total |-> 0, pin |-> "s1", compatible |-> ok]
MCStale == {<<>>, ("D" :> StaleRecord({"D"}, FALSE)) @@ ("E" :> StaleRecord({}, TRUE))}
MCPinned == {<<"s1", "w1">>}

Entry(n, k) == [name |-> n, kind |-> k]
MCTree == (<<>> :> <<Entry("a", "dir"), Entry("b", "dir")>>)
          @@ (<<"a">> :> <<Entry("x", "file")>>) @@ (<<"b">> :> <<Entry("y", "link"), Entry("z", "file")>>)
MCTargets == {<<"a", "x", "q">>, <<"b">>, <<"w">>}
MCOps == (c1 :> {"readdir"}) @@ (c2 :> {"lookup", "path_state", "diff_entries"})

MCSizes == (a1 :> 1) @@ (a2 :> 2) @@ (b1 :> 1) @@ (b2 :> 3)
MCScopes == (a1 :> A) @@ (a2 :> A) @@ (b1 :> B) @@ (b2 :> B)

MountInit ==
    /\ part \in {"sync", "view", "work"}
    /\ SyncInit /\ ViewInit /\ WorkInit
    /\ part # "sync" => index = <<>>

\* A collection may stop where there is nothing to do.
MountNext ==
    \/ part = "sync" /\ SyncNext /\ UNCHANGED <<part, viewVars, workVars>>
    \/ part = "view" /\ ViewNext /\ UNCHANGED <<part, syncVars, workVars>>
    \/ part = "work" /\ WorkNext /\ UNCHANGED <<part, syncVars, viewVars>>
    \/ part = "sync" /\ ~SyncBusy /\ UNCHANGED mountVars

\* The fair actions of a part at rest are disabled, so each fairness binds only its own part.
MountSpec ==
    MountInit /\ [][MountNext]_mountVars /\ SyncFairness /\ ViewFairness /\ WorkFairness

\* Collections end and releases are carried out, for nobody keeps the lock of the index.  Every
\* call of the view ends, with an answer, an error or because it was dropped.  A request admitted
\* in the scope whose storage answers gets out of the queues, though every job of the hung scope
\* runs for ever: a scope holds its own slots at most, and waits for them without holding one of
\* the process.  This is about one hung scope; as many of them as fill the slots of the process
\* (two, with LOCAL_RUNNING 2 and PROCESS_RUNNING 4) stop the others.  A release that finds the
\* index locked fails, and is carried out because its caller tries again.
Pending(c, r) == SyncBusy \/ Calling(c) \/ Queued(r)
MountAnswers ==
    /\ Pending(c1, b1) ~> ~Pending(c1, b1)
    /\ Pending(c2, b2) ~> ~Pending(c2, b2)

\* The state of every part has its type.
MountTypeOK == SyncTypeOK /\ ViewTypeOK /\ WorkTypeOK
=============================================================================
