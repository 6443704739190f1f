---------------------------- MODULE MCLocalStore ----------------------------
(***************************************************************************)
(* Model checking of the parts that keep and read files on this machine:   *)
(* the pin of an owner, reads of the local content store, the diff of the  *)
(* upper tree and the cached ranges of large files.  They share no state   *)
(* in these models, so each behaviour runs one part and leaves the others  *)
(* at rest: the state space is the sum of theirs and not the product.      *)
(***************************************************************************)
EXTENDS LocalPin, CasRange, UpperDiff, OwnedRange

CONSTANTS r1, r2, t1, t2

VARIABLE part
pinVars == vars
storeVars == <<part, pinVars, casVars, diffVars, ownedVars>>

MCSizes == ("f" :> 3) @@ ("g" :> 4) @@ ("h" :> 5) @@ ("s" :> 1) @@ ("z" :> 6)
Ask(m, f, o, l) == [mode |-> m, file |-> f, offset |-> o, len |-> l]
MCReads == (r1 :> {Ask("range", "f", 0, 2), Ask("small", "s", 0, 1), Ask("strict", "s", 0, 1),
                   Ask("range", "z", 0, 1)})
           @@ (r2 :> {Ask("range", "f", 1, 5), Ask("legacy", "g", 2, 2), Ask("legacy", "g", 0, 4),
                      Ask("range", "h", 5, 1)})

\* The tree the snapshot commits.
LowerFile(b) == [kind |-> "file", body |-> b]
LowerDirectory == [kind |-> "dir", body |-> "m"]
MCLower ==
    (<<>> :> LowerDirectory) @@ (<<"a">> :> LowerFile("A")) @@ (<<"d">> :> LowerDirectory)
    @@ (<<"d", "f">> :> LowerFile("f1")) @@ (<<"d", "k">> :> LowerDirectory)
    @@ (<<"d", "k", "m">> :> LowerFile("m1"))

\* The upper trees, by inode: 1 is the root, 6 and 7 are at hand for the host.
Node(k, b, es) == [kind |-> k, body |-> b, xattrs |-> FALSE, ver |-> 0, entries |-> es]
Dir(es) == Node("dir", "m", es)
Fil(b) == Node("file", b, <<>>)
Upper(root, x, y, z, marker) == <<Dir(root), x, y, z, Fil(marker), Fil("s"), Dir(<<>>)>>
MCUppers == {
    \* a rewritten with its own content, d deleted
    Upper(("a" :> 2) @@ (Whiteout("d") :> 5), Fil("A"), Fil("u"), Fil("u"), "empty"),
    \* d replaced, its k now a file
    Upper("d" :> 2, Dir((Opaque :> 5) @@ ("k" :> 3)), Fil("u"), Fil("u"), "empty"),
    \* d/f deleted
    Upper("d" :> 2, Dir(Whiteout("f") :> 5), Fil("u"), Fil("u"), "empty"),
    \* a now a link
    Upper("a" :> 2, Node("link", "l", <<>>), Fil("u"), Fil("u"), "empty"),
    \* the file a now a directory
    Upper("a" :> 3, Fil("u"), Dir("n" :> 4), Fil("u"), "empty"),
    \* a both written and deleted
    Upper(("a" :> 2) @@ (Whiteout("a") :> 5), Fil("B"), Fil("u"), Fil("u"), "empty"),
    \* a marker with content, and a kind the diff does not support
    Upper("d" :> 2, Dir(Opaque :> 5), Fil("u"), Fil("u"), "junk"),
    Upper("b" :> 2, Node("socket", "s", <<>>), Fil("u"), Fil("u"), "empty"),
    \* a file and a link that have attributes
    Upper(("b" :> 2), [Fil("u") EXCEPT !.xattrs = TRUE], Fil("u"), Fil("u"), "empty"),
    Upper(("a" :> 2), [Node("link", "l", <<>>) EXCEPT !.xattrs = TRUE], Fil("u"), Fil("u"), "empty"),
    \* deeper than max_depth
    Upper("d" :> 2, Dir("k" :> 3), Dir("x" :> 4), Dir(<<>>), "empty") }

MCRanges == (t1 :> {<<0, 3>>, <<1, 2>>}) @@ (t2 :> {<<1, 9>>, <<3, 4>>, <<5, 1>>, <<2, 1>>})

StoreInit ==
    /\ part \in {"pin", "cas", "diff", "range"}
    /\ Init /\ CasInit /\ DiffInit /\ OwnedInit
    /\ part # "diff" => fs = CHOOSE u \in UpperTrees : TRUE

StoreBusy == CasBusy \/ ScanBusy \/ RangeBusy

\* A part may stop where it has nothing to do.
StoreNext ==
    \/ part = "pin" /\ Next /\ UNCHANGED <<part, casVars, diffVars, ownedVars>>
    \/ part = "cas" /\ CasNext /\ UNCHANGED <<part, pinVars, diffVars, ownedVars>>
    \/ part = "diff" /\ DiffNext /\ UNCHANGED <<part, pinVars, casVars, ownedVars>>
    \/ part = "range" /\ OwnedNext /\ UNCHANGED <<part, pinVars, casVars, diffVars>>
    \/ part # "pin" /\ ~StoreBusy /\ UNCHANGED storeVars

\* The fair actions of a part at rest are disabled, so each fairness binds only its own part.
StoreSpec ==
    StoreInit /\ [][StoreNext]_storeVars /\ CasFairness /\ DiffFairness /\ OwnedFairness

\* What is begun ends: a read of the local store, also of a file that is cut or grows under it;
\* the scan of an upper tree, whatever the host does to the tree it walks; a range of a large file,
\* though ranges compete for one budget.  Each part begins a bounded number of them, so this is to
\* say that in the end none is left.
StoreSettles == StoreBusy ~> ~StoreBusy

\* The state of every part has its type.
StoreTypeOK == TypeOK /\ CasRangeTypeOK /\ DiffTypeOK /\ OwnedTypeOK
=============================================================================
