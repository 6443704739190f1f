--------------------------- MODULE PathProofProofs ---------------------------
EXTENDS PathProof, FiniteSetTheorems, SequenceTheorems, TLAPS

\* A caller occurs once in a queue.
OnceIn(q) == \A i, j \in DOMAIN q : q[i] = q[j] => i = j
InQueue(c, q) == \E i \in DOMAIN q : q[i] = c

CellRecords == [path : ProofPaths \cup {"none"}, token : ProofPaths \cup {"none"}, queue : Seq(Provers)]
ProverRecords == [at : {"idle", "enter", "wait", "prove", "page", "mint", "validate"},
                  path : ProofPaths \cup {"none"}, cell : 0..CELLS, part : Nat, page : Nat,
                  visits : Nat, answer : Definite \cup {"none", "error"}]

\* A path is in one cell, a token is the one of its cell's path, and the queue of a cell is
\* the callers that hold it.
CellInv(k) ==
    /\ \A j \in 1..CELLS : k # j /\ cells[k].path # "none" => cells[k].path # cells[j].path
    /\ cells[k].token # "none" => cells[k].token = cells[k].path /\ Truth(cells[k].path) = "token"
    /\ OnceIn(cells[k].queue)
    /\ \A c \in Provers : InQueue(c, cells[k].queue) <=> prover[c].cell = k

\* What a call in state me knows at each of its steps.
Knows(c, me) ==
    /\ me.visits <= MAX_VISITS
    /\ me.at # "idle" => me.path \in ProofPaths /\ me.answer = "none"
    /\ me.at \in {"enter", "wait"} => me.part = 1
    /\ me.at \in {"idle", "enter"} => me.cell = 0
    /\ me.at \notin {"idle", "enter"} => me.cell # 0 /\ cells[me.cell].path = me.path
    /\ me.at \in Flying => Head(cells[me.cell].queue) = c
    /\ me.at \in {"prove", "page"} =>
         /\ me.part \in 1..Len(Plan[me.path])
         /\ \A k \in 1..(me.part - 1) : Plan[me.path][k].kind = "dir"
    /\ me.at = "mint" => Truth(me.path) = "token"
    /\ me.at = "validate" => cells[me.cell].token = me.path
    /\ me.answer \in Definite => me.answer = Truth(me.path)

ProofInv ==
    /\ cells \in [1..CELLS -> CellRecords]
    /\ prover \in [Provers -> ProverRecords]
    /\ next \in 1..CELLS /\ seeded \in BOOLEAN /\ current \in BOOLEAN
    /\ \A k \in 1..CELLS : CellInv(k)
    /\ \A c \in Provers : Knows(c, prover[c])

\* Without the lease nobody asks for a page, and nobody learns more than that a page which
\* was asked for before shows there is no such file.
Learns == ~current => \A c \in Provers :
    /\ prover'[c].at = "page" => prover[c].at = "page"
    /\ prover'[c].answer # prover[c].answer =>
         /\ prover'[c].answer \notin Tokens
         /\ prover'[c].answer \in Definite => prover[c].at = "page"

-----------------------------------------------------------------------------
\* What a path is, once all components before one are known to be directories.
LEMMA TruthAt ==
    ASSUME NEW p \in ProofPaths, NEW n \in 1..Len(Plan[p]),
           \A k \in 1..(n - 1) : Plan[p][k].kind = "dir",
           n # Len(Plan[p]) => Plan[p][n].kind # "dir"
    PROVE  Truth(p) = IF Plan[p][n].kind = "absent" THEN "PathNotFound"
                      ELSE IF n < Len(Plan[p])
                      THEN IF Plan[p][n].kind = "symlink" THEN "SymlinkTraversal" ELSE "NotDirectory"
                      ELSE IF Plan[p][n].kind = "dir" THEN "NotFile" ELSE "token"
<1> DEFINE bad == {k \in 1..(Len(Plan[p]) - 1) : Plan[p][k].kind # "dir"}
           first == IF bad = {} THEN Len(Plan[p]) ELSE CHOOSE k \in bad : \A j \in bad : k <= j
<1>l. Len(Plan[p]) \in Nat \ {0}
  BY ProofAssumption DEF ProofPaths
<1>1. first = n
  <2>1. CASE n = Len(Plan[p])
    <3>1. bad = {}
      BY <2>1, <1>l
    <3> QED
      BY <3>1, <2>1
  <2>2. CASE n # Len(Plan[p])
    <3>1. n \in bad
      BY <2>2, <1>l
    <3>2. \A j \in bad : n <= j
      BY <1>l
    <3>3. \A k \in bad : (\A j \in bad : k <= j) => k = n
      BY <3>1, <3>2, <1>l
    <3> QED
      BY <3>1, <3>2, <3>3
  <2> QED
    BY <2>1, <2>2
<1> HIDE DEF first
<1>2. Truth(p) = LET kind == Plan[p][first].kind
                 IN IF kind = "absent" THEN "PathNotFound"
                    ELSE IF first < Len(Plan[p])
                    THEN IF kind = "symlink" THEN "SymlinkTraversal" ELSE "NotDirectory"
                    ELSE IF kind = "dir" THEN "NotFile" ELSE "token"
  BY DEF Truth, first
<1> QED
  BY <1>1, <1>2

\* Every fact is definite.
LEMMA TruthIs ==
    ASSUME NEW p
    PROVE  Truth(p) \in Definite \ {"wrong token"}
BY DEF Truth, Definite, Tokens

\* What is left of a queue that a caller leaves (the semaphore of the cell, and the reference
\* count of the table).
LEMMA LeftQueue ==
    ASSUME NEW q \in Seq(Provers), NEW c \in Provers, OnceIn(q)
    PROVE  /\ Without(q, c) \in Seq(Provers)
           /\ OnceIn(Without(q, c))
           /\ \A d \in Provers : InQueue(d, Without(q, c)) <=> d # c /\ InQueue(d, q)
           /\ \A d \in Provers : InQueue(d, q) /\ d # c /\ Head(q) = d => Head(Without(q, c)) = d
<1>1. CASE ~InQueue(c, q)
  <2>0. ~\E i \in 1..Len(q) : q[i] = c
    BY <1>1 DEF InQueue
  <2>1. Without(q, c) = q
    BY <2>0, Zenon DEF Without
  <2> QED
    BY <2>1, <1>1
<1>2. CASE InQueue(c, q)
  <2>1. PICK i \in 1..Len(q) : q[i] = c
    BY <1>2 DEF InQueue
  <2> DEFINE r == SubSeq(q, 1, i - 1) \o SubSeq(q, i + 1, Len(q))
  <2>2. \A j \in 1..Len(q) : q[j] = c => j = i
    BY <2>1 DEF OnceIn
  <2>3. (CHOOSE j \in 1..Len(q) : q[j] = c) = i
    BY <2>1, <2>2, Zenon
  <2>5. Without(q, c) = r
    BY <2>1, <2>3, Zenon DEF Without
  <2>6. /\ r \in Seq(Provers) /\ Len(r) = Len(q) - 1
        /\ \A k \in 1..(Len(q) - 1) : r[k] = IF k < i THEN q[k] ELSE q[k + 1]
    <3> DEFINE u == SubSeq(q, 1, i - 1)
               v == SubSeq(q, i + 1, Len(q))
    <3>1. u \in Seq(Provers) /\ Len(u) = i - 1 /\ \A k \in 1..(i - 1) : u[k] = q[k]
      OBVIOUS
    <3>2. v \in Seq(Provers) /\ Len(v) = Len(q) - i /\ \A k \in 1..(Len(q) - i) : v[k] = q[k + i]
      OBVIOUS
    <3> HIDE DEF u, v
    <3>3. /\ u \o v \in Seq(Provers) /\ Len(u \o v) = Len(u) + Len(v)
          /\ \A k \in 1..(Len(u) + Len(v)) : (u \o v)[k] = IF k <= Len(u) THEN u[k] ELSE v[k - Len(u)]
      BY <3>1, <3>2, ConcatProperties, Zenon
    <3>4. ASSUME NEW k \in 1..(Len(q) - 1)
          PROVE  (u \o v)[k] = IF k < i THEN q[k] ELSE q[k + 1]
      <4>1. CASE k < i
        BY <4>1, <3>1, <3>2, <3>3
      <4>2. CASE ~(k < i)
        <5>1. k - (i - 1) \in 1..(Len(q) - i) /\ (k - (i - 1)) + i = k + 1
          BY <4>2
        <5>2. (u \o v)[k] = v[k - (i - 1)]
          BY <4>2, <3>1, <3>2, <3>3
        <5>3. v[k - (i - 1)] = q[k + 1]
          BY <5>1, <3>2
        <5> QED
          BY <4>2, <5>2, <5>3
      <4> QED
        BY <4>1, <4>2, Zenon
    <3>5. r = u \o v /\ Len(u) + Len(v) = Len(q) - 1
      BY <3>1, <3>2 DEF u, v
    <3> QED
      BY <3>3, <3>4, <3>5, Zenon
  <2>0. DOMAIN q = 1..Len(q) /\ \A j, k \in 1..Len(q) : q[j] = q[k] => j = k
    BY DEF OnceIn
  <2> HIDE DEF r
  <2>d. DOMAIN r = 1..(Len(q) - 1)
    BY <2>6
  <2>7. OnceIn(r)
    <3> SUFFICES ASSUME NEW j \in 1..(Len(q) - 1), NEW k \in 1..(Len(q) - 1), r[j] = r[k]
                 PROVE  j = k
      BY <2>d DEF OnceIn
    <3>1. /\ j \in 1..Len(q) /\ j + 1 \in 1..Len(q) /\ k \in 1..Len(q) /\ k + 1 \in 1..Len(q)
      OBVIOUS
    <3>2. /\ r[j] = IF j < i THEN q[j] ELSE q[j + 1]
          /\ r[k] = IF k < i THEN q[k] ELSE q[k + 1]
      BY <2>6
    <3>3. CASE j < i /\ k < i
      BY <3>1, <3>2, <3>3, <2>0, Zenon
    <3>4. CASE j < i /\ ~(k < i)
      <4>1. j = k + 1
        BY <3>1, <3>2, <3>4, <2>0, Zenon
      <4> QED
        BY <4>1, <3>4
    <3>5. CASE ~(j < i) /\ k < i
      <4>1. j + 1 = k
        BY <3>1, <3>2, <3>5, <2>0, Zenon
      <4> QED
        BY <4>1, <3>5
    <3>6. CASE ~(j < i) /\ ~(k < i)
      <4>1. j + 1 = k + 1
        BY <3>1, <3>2, <3>6, <2>0, Zenon
      <4> QED
        BY <4>1
    <3> QED
      BY <3>3, <3>4, <3>5, <3>6
  <2>8. ASSUME NEW d \in Provers
        PROVE  InQueue(d, r) <=> d # c /\ InQueue(d, q)
    <3>1. ASSUME NEW k \in 1..Len(r) PROVE r[k] # c /\ InQueue(r[k], q)
      <4>1. k \in 1..(Len(q) - 1) /\ k \in 1..Len(q) /\ k + 1 \in 1..Len(q)
        BY <2>6
      <4> QED
        BY <4>1, <2>0, <2>1, <2>6 DEF InQueue
    <3>2. ASSUME NEW k \in 1..Len(q), q[k] # c PROVE InQueue(q[k], r)
      <4>1. CASE k < i
        BY <4>1, <2>6 DEF InQueue
      <4>2. CASE k > i
        <5>1. k - 1 \in 1..(Len(q) - 1) /\ r[k - 1] = q[k]
          BY <4>2, <2>6
        <5> QED
          BY <5>1, <2>6 DEF InQueue
      <4> QED
        BY <4>1, <4>2, <3>2, <2>1
    <3> QED
      BY <3>1, <3>2, <2>0, <2>6, <2>d DEF InQueue
  <2>9. ASSUME NEW d \in Provers, InQueue(d, q), d # c, Head(q) = d
        PROVE  Head(r) = d
    <3>1. i > 1
      BY <2>1, <2>9
    <3> QED
      BY <3>1, <2>1, <2>6, <2>9
  <2> QED
    BY <2>5, <2>6, <2>7, <2>8, <2>9
<1> QED
  BY <1>1, <1>2

\* A call that goes on, or ends, in the cell it has, and leaves the table alone.
LEMMA MoveStep ==
    ASSUME ProofInv, NEW c \in Provers, NEW me \in ProverRecords,
           prover' = [prover EXCEPT ![c] = me], UNCHANGED <<cells, next, seeded, current>>,
           me.cell = prover[c].cell, Knows(c, me),
           current \/ (me.at # "page" /\ me.answer \notin Definite)
    PROVE  ProofInv' /\ Learns
<1>1. prover'[c] = me /\ \A d \in Provers \ {c} : prover'[d] = prover[d]
  BY DEF ProofInv
<1>2. prover' \in [Provers -> ProverRecords]
  BY DEF ProofInv
<1>3. \A k \in 1..CELLS : CellInv(k)'
  BY <1>1 DEF ProofInv, CellInv
<1>4. \A d \in Provers : Knows(d, prover[d])'
  BY <1>1, SMTT(30) DEF ProofInv, Knows
<1>5. Learns
  BY <1>1, Zenon DEF Learns, Definite, Tokens
<1> QED
  BY <1>2, <1>3, <1>4, <1>5 DEF ProofInv

\* A call that ends leaves its cell, its place in the queue and its admissions.
LEMMA EndsStep ==
    ASSUME ProofInv, NEW c \in Provers, NEW answer, Ends(c, answer),
           UNCHANGED <<next, seeded, current>>,
           \/ answer = "error"
           \/ /\ answer \in Definite /\ answer = Truth(prover[c].path)
              /\ current \/ (prover[c].at = "page" /\ answer \notin Tokens)
    PROVE  ProofInv' /\ Learns
<1> DEFINE me == [Waiting EXCEPT !.path = prover[c].path, !.answer = answer]
<1>0. prover[c] \in ProverRecords
  BY DEF ProofInv
<1>1. /\ me \in ProverRecords /\ me.at = "idle" /\ me.cell = 0 /\ me.visits = 0
      /\ me.answer = answer /\ me.path = prover[c].path
  <2>2. /\ prover[c].path \in ProofPaths \cup {"none"} /\ 0 \in 0..CELLS
        /\ answer \in Definite \cup {"none", "error"}
    BY <1>0, ProofAssumption DEF ProverRecords
  <2> QED
    BY <2>2, Zenon DEF Waiting, ProverRecords
<1>2. prover'[c] = me /\ \A d \in Provers \ {c} : prover'[d] = prover[d]
  BY DEF ProofInv, Ends, Over
<1>3. prover' \in [Provers -> ProverRecords]
  BY <1>1 DEF ProofInv, Ends, Over
<1> HIDE DEF me
<1>4. ASSUME NEW k \in 1..CELLS
      PROVE  /\ cells'[k] \in CellRecords
             /\ cells'[k].path = cells[k].path /\ cells'[k].token = cells[k].token
             /\ cells'[k].queue = Without(cells[k].queue, c)
  <2>1. cells[k] \in CellRecords /\ OnceIn(cells[k].queue)
    BY DEF ProofInv, CellInv
  <2>2. cells'[k] = [cells[k] EXCEPT !.queue = Without(@, c)]
    BY DEF Ends, Vacated
  <2>3. Without(cells[k].queue, c) \in Seq(Provers)
    BY <2>1, LeftQueue DEF CellRecords
  <2> QED
    BY <2>1, <2>2, <2>3 DEF CellRecords
<1>5. cells' \in [1..CELLS -> CellRecords]
  BY <1>4 DEF Ends, Vacated
<1>6. ASSUME NEW k \in 1..CELLS PROVE CellInv(k)'
  <2>1. cells[k] \in CellRecords /\ CellInv(k)
    BY DEF ProofInv
  <2>q. cells[k].queue \in Seq(Provers) /\ OnceIn(cells[k].queue)
    BY <2>1 DEF CellRecords, CellInv
  <2>2. /\ OnceIn(cells'[k].queue)
        /\ \A d \in Provers : InQueue(d, cells'[k].queue) <=> d # c /\ InQueue(d, cells[k].queue)
    <3> DEFINE r == Without(cells[k].queue, c)
    <3>1. /\ OnceIn(r)
          /\ \A d \in Provers : InQueue(d, r) <=> d # c /\ InQueue(d, cells[k].queue)
      BY <2>q, LeftQueue
    <3>2. cells'[k].queue = r
      BY <1>4
    <3> HIDE DEF r
    <3> QED
      BY <3>1, <3>2
  <2>3. \A d \in Provers : InQueue(d, cells'[k].queue) <=> prover'[d].cell = k
    BY <2>1, <2>2, <1>1, <1>2 DEF CellInv
  <2> QED
    BY <2>1, <2>2, <2>3, <1>4 DEF CellInv
<1>7. ASSUME NEW d \in Provers PROVE Knows(d, prover[d])'
  <2>1. CASE d = c
    <3>1. answer \in Definite => answer = Truth(prover[c].path)
      BY Zenon DEF Definite, Tokens
    <3>2. prover'[d] = me /\ 0 <= MAX_VISITS
      BY <2>1, <1>2, ProofAssumption
    <3> QED
      BY <3>1, <3>2, <1>1 DEF Knows, Flying
  <2>2. CASE d # c
    <3>1. Knows(d, prover[d]) /\ prover'[d] = prover[d] /\ prover[d] \in ProverRecords
      BY <2>2, <1>2 DEF ProofInv
    <3>2. CASE prover[d].cell = 0
      BY <3>1, <3>2 DEF Knows, Flying
    <3>3. CASE prover[d].cell # 0
      <4> DEFINE k == prover[d].cell
      <4>1. k \in 1..CELLS
        BY <3>1, <3>3, ProofAssumption DEF ProverRecords
      <4>2. cells[k].queue \in Seq(Provers) /\ OnceIn(cells[k].queue) /\ InQueue(d, cells[k].queue)
        BY <4>1 DEF ProofInv, CellInv, CellRecords
      <4>3. Head(cells[k].queue) = d => Head(cells'[k].queue) = d
        BY <4>1, <4>2, <2>2, <1>4, LeftQueue, Zenon
      <4> QED
        BY <4>1, <4>3, <3>1, <1>4 DEF Knows
    <3> QED
      BY <3>2, <3>3
  <2> QED
    BY <2>1, <2>2
<1>8. Learns
  BY <1>1, <1>2, Zenon DEF Learns, Definite, Tokens
<1> QED
  BY <1>3, <1>5, <1>6, <1>7, <1>8 DEF ProofInv

\* A call is made.
LEMMA ProveStep ==
    ASSUME ProofInv, NEW c \in Provers, Prove(c)
    PROVE  ProofInv' /\ Learns
<1>1. PICK p \in ProofPaths :
        \/ prover' = [prover EXCEPT ![c] = [Waiting EXCEPT !.at = "enter", !.path = p]]
        \/ prover' = [prover EXCEPT ![c] = [Waiting EXCEPT !.path = p, !.answer = "error"]]
  BY Zenon DEF Prove
<1>2. prover[c].cell = 0 /\ UNCHANGED <<cells, next, seeded, current>>
  BY DEF Prove, ProofInv, Knows
<1> DEFINE A == [Waiting EXCEPT !.at = "enter", !.path = p]
           B == [Waiting EXCEPT !.path = p, !.answer = "error"]
<1>a. /\ A \in ProverRecords /\ A.cell = 0 /\ A.at = "enter" /\ A.path = p /\ A.part = 1
      /\ A.visits = 0 /\ A.answer = "none"
  <2>2. 0 \in 0..CELLS
    BY ProofAssumption
  <2> QED
    BY <2>2, Zenon DEF Waiting, ProverRecords
<1>b. /\ B \in ProverRecords /\ B.cell = 0 /\ B.at = "idle" /\ B.visits = 0 /\ B.answer = "error"
  <2>2. 0 \in 0..CELLS
    BY ProofAssumption
  <2> QED
    BY <2>2, Zenon DEF Waiting, ProverRecords
<1> HIDE DEF A, B
<1>d. "none" \notin Definite /\ "error" \notin Definite /\ 0 <= MAX_VISITS
  BY ProofAssumption DEF Definite, Tokens
<1>3. /\ Knows(c, A) /\ A.answer \notin Definite /\ A.at # "page"
      /\ Knows(c, B) /\ B.answer \notin Definite /\ B.at # "page"
  BY <1>a, <1>b, <1>d DEF Knows, Flying
<1>4. prover' = [prover EXCEPT ![c] = A] \/ prover' = [prover EXCEPT ![c] = B]
  BY <1>1 DEF A, B
<1> QED
  BY <1>2, <1>3, <1>4, <1>a, <1>b, MoveStep

\* A caller joins the cell of its path, behind those that hold it.
LEMMA JoinStep ==
    ASSUME ProofInv, NEW c \in Provers, NEW k \in 1..CELLS,
           prover[c].at = "enter", cells[k].path = prover[c].path,
           prover' = [prover EXCEPT ![c].at = "wait", ![c].cell = k],
           cells' = [cells EXCEPT ![k].queue = Append(@, c)],
           UNCHANGED <<next, seeded, current>>
    PROVE  ProofInv' /\ Learns
<1> DEFINE q == cells[k].queue
<1>1. /\ prover[c] \in ProverRecords /\ Knows(c, prover[c]) /\ prover[c].cell = 0
      /\ cells[k] \in CellRecords /\ CellInv(k) /\ q \in Seq(Provers)
  BY DEF ProofInv, Knows, CellRecords
<1>2. /\ prover' \in [Provers -> ProverRecords]
      /\ prover'[c] = [prover[c] EXCEPT !.at = "wait", !.cell = k]
      /\ \A d \in Provers \ {c} : prover'[d] = prover[d]
  <2> DEFINE me == [prover[c] EXCEPT !.at = "wait", !.cell = k]
  <2>1. k \in 0..CELLS
    BY ProofAssumption
  <2>2. me \in ProverRecords
    BY <1>1, <2>1, Zenon DEF ProverRecords
  <2>3. prover' = [prover EXCEPT ![c] = me]
    BY Zenon DEF ProofInv
  <2> HIDE DEF me
  <2>4. prover' \in [Provers -> ProverRecords] /\ prover'[c] = me
        /\ \A d \in Provers \ {c} : prover'[d] = prover[d]
    BY <2>2, <2>3, Zenon DEF ProofInv
  <2> QED
    BY <2>4 DEF me
<1>3. /\ cells' \in [1..CELLS -> CellRecords]
      /\ cells'[k] = [cells[k] EXCEPT !.queue = Append(q, c)]
      /\ \A j \in 1..CELLS \ {k} : cells'[j] = cells[j]
  <2> DEFINE new == [cells[k] EXCEPT !.queue = Append(q, c)]
  <2>1. Append(q, c) \in Seq(Provers)
    BY <1>1
  <2>2. new \in CellRecords
    BY <1>1, <2>1, Zenon DEF CellRecords
  <2>3. cells' = [cells EXCEPT ![k] = new]
    BY DEF ProofInv
  <2> HIDE DEF new
  <2>4. cells' \in [1..CELLS -> CellRecords] /\ cells'[k] = new
        /\ \A j \in 1..CELLS \ {k} : cells'[j] = cells[j]
    BY <2>2, <2>3, Zenon DEF ProofInv
  <2> QED
    BY <2>4 DEF new
<1>4. \A j \in 1..CELLS : cells'[j].path = cells[j].path /\ cells'[j].token = cells[j].token
  BY <1>1, <1>3 DEF CellRecords
<1>5. cells'[k].queue = Append(q, c)
  BY <1>1, <1>3 DEF CellRecords
<1>6. /\ ~InQueue(c, q) /\ OnceIn(q)
      /\ \A j \in 1..CELLS : ~InQueue(c, cells[j].queue)
  BY <1>1 DEF ProofInv, CellInv
<1>7. OnceIn(Append(q, c)) /\ \A d \in Provers : InQueue(d, Append(q, c)) <=> d = c \/ InQueue(d, q)
  <2> DEFINE r == Append(q, c)
  <2>1. DOMAIN q = 1..Len(q) /\ Len(q) \in Nat
    BY <1>1
  <2>2. /\ DOMAIN r = 1..(Len(q) + 1) /\ r[Len(q) + 1] = c
        /\ \A j \in 1..Len(q) : r[j] = q[j]
    BY <1>1
  <2> HIDE DEF r
  <2>3. \A j \in 1..(Len(q) + 1) : j \in 1..Len(q) \/ j = Len(q) + 1
    BY <2>1
  <2>4. OnceIn(r)
    BY <2>1, <2>2, <2>3, <1>6 DEF OnceIn, InQueue
  <2>5. \A d \in Provers : InQueue(d, r) <=> d = c \/ InQueue(d, q)
    <3> SUFFICES ASSUME NEW d \in Provers
                 PROVE  InQueue(d, r) <=> d = c \/ InQueue(d, q)
      OBVIOUS
    <3>1. InQueue(d, r) => d = c \/ InQueue(d, q)
      BY <2>1, <2>2, <2>3 DEF InQueue
    <3>2. InQueue(d, q) => InQueue(d, r)
      <4> SUFFICES ASSUME NEW j \in 1..Len(q), q[j] = d PROVE InQueue(d, r)
        BY <2>1 DEF InQueue
      <4>1. j \in DOMAIN r
        BY <2>1, <2>2
      <4> QED
        BY <4>1, <2>2 DEF InQueue
    <3>3. InQueue(c, r)
      <4>1. Len(q) + 1 \in DOMAIN r
        BY <2>1, <2>2
      <4> QED
        BY <4>1, <2>2 DEF InQueue
    <3> QED
      BY <3>1, <3>2, <3>3
  <2> QED
    BY <2>4, <2>5 DEF r
<1>8. ASSUME NEW d \in Provers, InQueue(d, q)
      PROVE  Head(Append(q, c)) = Head(q)
  BY <1>1, <1>8 DEF InQueue
<1> HIDE DEF q
<1>9. /\ prover'[c].cell = k /\ prover'[c].at = "wait" /\ prover'[c].path = prover[c].path
      /\ prover'[c].answer = prover[c].answer /\ prover'[c].visits = prover[c].visits
      /\ prover'[c].part = prover[c].part
  BY <1>1, <1>2 DEF ProverRecords
<1>10. ASSUME NEW j \in 1..CELLS PROVE CellInv(j)'
  <2>1. CellInv(j)
    BY DEF ProofInv
  <2>2. CASE j = k
    BY <2>1, <2>2, <1>2, <1>4, <1>5, <1>7, <1>9 DEF CellInv, q
  <2>3. CASE j # k
    BY <2>1, <2>3, <1>2, <1>3, <1>4, <1>6, <1>9 DEF CellInv
  <2> QED
    BY <2>2, <2>3
<1>11. ASSUME NEW d \in Provers PROVE Knows(d, prover[d])'
  <2>1. CASE d = c
    BY <2>1, <1>1, <1>4, <1>9 DEF Knows, Flying
  <2>2. CASE d # c
    <3>1. Knows(d, prover[d]) /\ prover'[d] = prover[d] /\ prover[d] \in ProverRecords
      BY <2>2, <1>2 DEF ProofInv
    <3>2. CASE prover[d].cell = 0
      BY <3>1, <3>2 DEF Knows, Flying
    <3>3. CASE prover[d].cell # 0
      <4>1. prover[d].cell \in 1..CELLS
        BY <3>1, <3>3, ProofAssumption DEF ProverRecords
      <4>2. InQueue(d, cells[prover[d].cell].queue)
        BY <4>1 DEF ProofInv, CellInv
      <4>3. Head(cells'[prover[d].cell].queue) = Head(cells[prover[d].cell].queue)
        BY <4>1, <4>2, <1>3, <1>5, <1>8 DEF q
      <4> QED
        BY <4>1, <4>3, <3>1, <1>4, ZenonT(30) DEF Knows
    <3> QED
      BY <3>2, <3>3
  <2> QED
    BY <2>1, <2>2
<1>12. Learns
  BY <1>2, <1>9 DEF Learns
<1> QED
  BY <1>2, <1>3, <1>10, <1>11, <1>12 DEF ProofInv

\* A caller puts a new cell of its path in the place of one that only the table holds.
LEMMA ReplaceStep ==
    ASSUME ProofInv, NEW c \in Provers, NEW k \in 1..CELLS,
           prover[c].at = "enter", FreeCell(k),
           \A j \in 1..CELLS : cells[j].path # prover[c].path,
           prover' = [prover EXCEPT ![c].at = "wait", ![c].cell = k],
           cells' = [cells EXCEPT ![k] = [NoCell EXCEPT !.path = prover[c].path, !.queue = <<c>>]],
           next' \in 1..CELLS, UNCHANGED <<seeded, current>>
    PROVE  ProofInv' /\ Learns
<1>1. /\ prover[c] \in ProverRecords /\ Knows(c, prover[c]) /\ prover[c].cell = 0
      /\ prover[c].path \in ProofPaths /\ prover[c].path # "none"
  BY ProofAssumption DEF ProofInv, Knows, ProofPaths
<1>2. /\ prover' \in [Provers -> ProverRecords]
      /\ prover'[c] = [prover[c] EXCEPT !.at = "wait", !.cell = k]
      /\ \A d \in Provers \ {c} : prover'[d] = prover[d]
  <2> DEFINE me == [prover[c] EXCEPT !.at = "wait", !.cell = k]
  <2>1. k \in 0..CELLS
    BY ProofAssumption
  <2>2. me \in ProverRecords
    BY <1>1, <2>1, Zenon DEF ProverRecords
  <2>3. prover' = [prover EXCEPT ![c] = me]
    BY Zenon DEF ProofInv
  <2> HIDE DEF me
  <2>4. prover' \in [Provers -> ProverRecords] /\ prover'[c] = me
        /\ \A d \in Provers \ {c} : prover'[d] = prover[d]
    BY <2>2, <2>3, Zenon DEF ProofInv
  <2> QED
    BY <2>4 DEF me
<1>3. /\ cells' \in [1..CELLS -> CellRecords]
      /\ cells'[k].path = prover[c].path /\ cells'[k].token = "none" /\ cells'[k].queue = <<c>>
      /\ \A j \in 1..CELLS \ {k} : cells'[j] = cells[j]
  <2> DEFINE new == [NoCell EXCEPT !.path = prover[c].path, !.queue = <<c>>]
  <2>1. <<c>> \in Seq(Provers)
    OBVIOUS
  <2>2. /\ new \in CellRecords
        /\ new.path = prover[c].path /\ new.token = "none" /\ new.queue = <<c>>
    BY <1>1, <2>1, Zenon DEF CellRecords, NoCell
  <2> HIDE DEF new
  <2>3. cells' = [cells EXCEPT ![k] = new]
    BY DEF new
  <2>4. cells' \in [1..CELLS -> CellRecords] /\ cells'[k] = new
        /\ \A j \in 1..CELLS \ {k} : cells'[j] = cells[j]
    BY <2>2, <2>3 DEF ProofInv
  <2> QED
    BY <2>2, <2>4, Zenon
<1>4. /\ prover'[c].cell = k /\ prover'[c].at = "wait" /\ prover'[c].path = prover[c].path
      /\ prover'[c].answer = prover[c].answer /\ prover'[c].visits = prover[c].visits
      /\ prover'[c].part = prover[c].part
  BY <1>1, <1>2 DEF ProverRecords
<1>5. OnceIn(<<c>>) /\ \A d \in Provers : InQueue(d, <<c>>) <=> d = c
  BY DEF OnceIn, InQueue
<1>6. \A d \in Provers : prover[d].cell # k
  BY DEF FreeCell, Holders
<1>7. ASSUME NEW j \in 1..CELLS PROVE CellInv(j)'
  <2>1. CellInv(j)
    BY DEF ProofInv
  <2>2. CASE j = k
    BY <2>2, <1>1, <1>2, <1>3, <1>4, <1>5, <1>6 DEF CellInv
  <2>3. CASE j # k
    BY <2>1, <2>3, <1>1, <1>2, <1>3, <1>4 DEF CellInv
  <2> QED
    BY <2>2, <2>3
<1>8. ASSUME NEW d \in Provers PROVE Knows(d, prover[d])'
  <2>1. CASE d = c
    BY <2>1, <1>1, <1>3, <1>4 DEF Knows
  <2>2. CASE d # c
    <3>1. Knows(d, prover[d]) /\ prover'[d] = prover[d] /\ prover[d] \in ProverRecords
      BY <2>2, <1>2 DEF ProofInv
    <3>2. prover[d].cell # 0 => prover[d].cell \in 1..CELLS \ {k}
      BY <3>1, <1>6, ProofAssumption DEF ProverRecords
    <3>3. prover[d].cell # 0 => cells'[prover[d].cell] = cells[prover[d].cell]
      BY <3>2, <1>3
    <3>4. CASE prover[d].cell = 0
      BY <3>1, <3>4, Zenon DEF Knows, Flying
    <3>5. CASE prover[d].cell # 0
      BY <3>1, <3>3, <3>5, Zenon DEF Knows
    <3> QED
      BY <3>4, <3>5
  <2> QED
    BY <2>1, <2>2
<1>9. Learns
  BY <1>2, <1>4 DEF Learns
<1> QED
  BY <1>2, <1>3, <1>7, <1>8, <1>9 DEF ProofInv

\* The table is asked: an error, a verified closure, the known cell or a free one.
LEMMA GetCellStep ==
    ASSUME ProofInv, NEW c \in Provers, GetCell(c)
    PROVE  ProofInv' /\ Learns
<1> DEFINE p == prover[c].path
           hold(k) == prover' = [prover EXCEPT ![c].at = "wait", ![c].cell = k]
           me(answer) == [Waiting EXCEPT !.path = p, !.answer = answer]
<1>1. /\ prover[c].at = "enter" /\ UNCHANGED <<seeded, current>>
      /\ prover[c] \in ProverRecords /\ Knows(c, prover[c]) /\ prover[c].cell = 0
  BY DEF GetCell, ProofInv, Knows
<1>2. ASSUME NEW answer, prover' = Over(c, answer), UNCHANGED <<cells, next>>,
             answer = "error" \/ (current /\ answer = Truth(p))
      PROVE  ProofInv' /\ Learns
  <2>1. answer \in Definite => answer = Truth(p)
    BY <1>2, Zenon DEF Definite, Tokens
  <2>2. answer \in Definite \cup {"error"}
    BY <1>2, TruthIs, Zenon
  <2>r. /\ me(answer) \in ProverRecords /\ me(answer).cell = 0 /\ me(answer).answer = answer
        /\ me(answer).at = "idle" /\ me(answer).visits = 0 /\ me(answer).path = p
    BY <1>1, <2>2, ProofAssumption, Zenon DEF Waiting, ProverRecords
  <2>4. current \/ (me(answer).at # "page" /\ answer \notin Definite)
    BY <1>2, <2>r, Zenon DEF Definite, Tokens
  <2>5. prover' = [prover EXCEPT ![c] = me(answer)]
    BY <1>2 DEF Over
  <2> HIDE DEF me
  <2>3. Knows(c, me(answer))
    BY <2>1, <2>r, ProofAssumption DEF Knows, Flying
  <2> QED
    BY <1>1, <1>2, <2>r, <2>3, <2>4, <2>5, MoveStep, Zenon
<1>3. ASSUME NEW k \in 1..CELLS, cells[k].path = p, hold(k),
             cells' = [cells EXCEPT ![k].queue = Append(@, c)], UNCHANGED next
      PROVE  ProofInv' /\ Learns
  BY <1>1, <1>3, JoinStep, Zenon
<1>4. ASSUME NEW d \in 1..CELLS, FreeCell(Search[d]), \A j \in 1..CELLS : cells[j].path # p,
             hold(Search[d]), next' = (Search[d] % CELLS) + 1,
             cells' = [cells EXCEPT ![Search[d]] = [NoCell EXCEPT !.path = p, !.queue = <<c>>]]
      PROVE  ProofInv' /\ Learns
  <2>1. next \in 1..CELLS /\ CELLS \in Nat \ {0}
    BY ProofAssumption DEF ProofInv
  <2>2. \A n \in Nat : (n % CELLS) + 1 \in 1..CELLS
    BY <2>1
  <2>3. Search[d] = ((next + d - 2) % CELLS) + 1 /\ next + d - 2 \in Nat
    BY <2>1 DEF Search
  <2>4. Search[d] \in 1..CELLS
    BY <2>2, <2>3
  <2>5. next' \in 1..CELLS
    BY <2>1, <2>2, <2>4, <1>4
  <2> QED
    BY <2>4, <2>5, <1>1, <1>4, ReplaceStep, Zenon
<1> QED
  BY <1>1, <1>2, <1>3, <1>4 DEF GetCell

\* The flight of a cell is taken by the first of its queue, or the token is there.
LEMMA GetOrInitStep ==
    ASSUME ProofInv, NEW c \in Provers, GetOrInit(c)
    PROVE  ProofInv' /\ Learns
<1> DEFINE k == prover[c].cell
           to(at) == [prover[c] EXCEPT !.at = at]
<1>1. /\ prover[c].at = "wait" /\ UNCHANGED <<next, seeded, current>>
      /\ prover[c] \in ProverRecords /\ Knows(c, prover[c]) /\ prover[c].answer = "none"
  BY DEF GetOrInit, ProofInv, Knows
<1>2. k \in 1..CELLS /\ cells[k].path = prover[c].path /\ prover[c].path \in ProofPaths
  BY <1>1, ProofAssumption DEF Knows, ProverRecords
<1>3. ASSUME NEW a \in {"validate", "prove"}, UNCHANGED cells, Knows(c, to(a)),
             prover' = [prover EXCEPT ![c].at = a]
      PROVE  ProofInv' /\ Learns
  <2>1. to(a) \in ProverRecords /\ to(a).cell = k /\ to(a).answer \notin Definite /\ to(a).at # "page"
    BY <1>1, Zenon DEF ProverRecords, Definite, Tokens
  <2>2. prover' = [prover EXCEPT ![c] = to(a)]
    BY <1>3 DEF ProofInv
  <2> HIDE DEF to
  <2> QED
    BY <1>1, <1>3, <2>1, <2>2, MoveStep, Zenon
<1>4. cells[k].token # "none" => Knows(c, to("validate"))
  <2>1. cells[k].token # "none" => cells[k].token = prover[c].path
    BY <1>2 DEF ProofInv, CellInv
  <2> QED
    BY <1>1, <2>1 DEF Knows, Flying, ProverRecords
<1>5. Head(cells[k].queue) = c => Knows(c, to("prove"))
  <2>1. 1 \in 1..Len(Plan[prover[c].path])
    BY <1>2, ProofAssumption DEF ProofPaths
  <2> QED
    BY <1>1, <2>1 DEF Knows, ProverRecords, Flying
<1>6. CASE Ends(c, "error")
  BY <1>1, <1>6, EndsStep
<1> HIDE DEF to
<1> QED
  BY <1>1, <1>3, <1>4, <1>5, <1>6 DEF GetOrInit

\* A page is asked for under the lease, by the call that has the flight.
LEMMA AskPageStep ==
    ASSUME ProofInv, NEW c \in Provers, AskPage(c)
    PROVE  ProofInv' /\ Learns
<1> DEFINE me == [prover[c] EXCEPT !.at = "page"]
<1>1. /\ prover[c].at = "prove" /\ UNCHANGED <<next, seeded, current>>
      /\ prover[c] \in ProverRecords /\ Knows(c, prover[c]) /\ prover[c].answer = "none"
  BY DEF AskPage, ProofInv, Knows
<1>2. CASE Ends(c, "error")
  BY <1>1, <1>2, EndsStep
<1>3. CASE current /\ UNCHANGED cells /\ prover' = [prover EXCEPT ![c].at = "page"]
  <2>1. me \in ProverRecords /\ me.cell = prover[c].cell
    BY <1>1, Zenon DEF ProverRecords
  <2>2. prover' = [prover EXCEPT ![c] = me]
    BY <1>3 DEF ProofInv
  <2>3. Knows(c, me)
    BY <1>1 DEF Knows, ProverRecords, Flying
  <2> HIDE DEF me
  <2> QED
    BY <1>1, <1>3, <2>1, <2>2, <2>3, MoveStep, Zenon
<1> QED
  BY <1>2, <1>3 DEF AskPage

\* A witness is accepted only with the page that was asked for.
LEMMA WitnessHasPage ==
    ASSUME NEW expected, NEW chain, AcceptsWitness(<<>>, expected, chain)
    PROVE  FALSE
<1>1. {k \in DOMAIN <<>> : <<>>[k].id = expected} = {}
  OBVIOUS
<1> QED
  BY <1>1, FS_EmptySet DEF AcceptsWitness

\* The answers of the service have a length.
LEMMA WitnessLength ==
    ASSUME NEW expected, NEW chain, NEW pages \in Witnesses(expected, chain)
    PROVE  Len(pages) \in Nat
BY DEF Witnesses

\* One request of a proof: what it finds is what the fixed root says of the path so far.
LEMMA DescendStep ==
    ASSUME ProofInv, NEW c \in Provers, Descend(c)
    PROVE  ProofInv' /\ Learns
<1> DEFINE p == prover[c].path
           n == prover[c].part
           kind == Plan[p][n].kind
           last == n = Len(Plan[p])
           to(part, page, visits) ==
               [prover[c] EXCEPT !.at = "prove", !.part = part, !.page = page, !.visits = visits]
           mint == [prover[c] EXCEPT !.at = "mint", !.part = 1, !.page = 1, !.visits = 0]
<1>1. /\ prover[c].at = "page" /\ UNCHANGED <<next, seeded, current>>
      /\ prover[c] \in ProverRecords /\ Knows(c, prover[c]) /\ prover[c].answer = "none"
  BY Zenon DEF Descend, ProofInv, Knows
<1>2. /\ p \in ProofPaths /\ n \in 1..Len(Plan[p]) /\ Len(Plan[p]) \in Nat
      /\ \A k \in 1..(n - 1) : Plan[p][k].kind = "dir"
  BY <1>1, ProofAssumption DEF Knows, ProofPaths
<1>3. CASE Ends(c, "error")
  BY <1>1, <1>3, EndsStep
<1>4. ASSUME NEW me \in ProverRecords, prover' = [prover EXCEPT ![c] = me], UNCHANGED cells,
             me.cell = prover[c].cell, me.answer = "none", me.at # "page",
             Knows(c, me)
      PROVE  ProofInv' /\ Learns
  <2>1. me.answer \notin Definite
    BY <1>4 DEF Definite, Tokens
  <2> QED
    BY <1>1, <1>4, <2>1, MoveStep, Zenon
<1>5. ASSUME NEW visits \in Nat, visits <= MAX_VISITS, UNCHANGED cells,
             prover' = [prover EXCEPT ![c].at = "prove", ![c].page = @ + 1, ![c].visits = visits]
      PROVE  ProofInv' /\ Learns
  <2> DEFINE me == to(n, prover[c].page + 1, visits)
  <2>0. prover' = [prover EXCEPT ![c] = me]
    BY <1>5, Zenon DEF ProofInv
  <2>1. /\ me \in ProverRecords /\ me.cell = prover[c].cell /\ me.answer = "none"
        /\ me.at = "prove" /\ me.path = p /\ me.part = n /\ me.visits = visits
    <3>1. n \in Nat /\ n + 1 \in Nat /\ prover[c].page + 1 \in Nat
      BY <1>1 DEF ProverRecords
    <3> QED
      BY <3>1, <1>1, <1>5, Zenon DEF ProverRecords
  <2>2. Knows(c, me)
    BY <1>1, <1>5, <2>1 DEF Knows, Flying
  <2> HIDE DEF me
  <2> QED
    BY <1>4, <1>5, <2>0, <2>1, <2>2, Zenon
<1>6. ASSUME NEW visits \in Nat, visits <= MAX_VISITS, UNCHANGED cells, kind = "dir", ~last,
             prover' = [prover EXCEPT ![c].at = "prove", ![c].part = @ + 1, ![c].page = 1,
                                         ![c].visits = visits]
      PROVE  ProofInv' /\ Learns
  <2> DEFINE me == to(n + 1, 1, visits)
  <2>0. prover' = [prover EXCEPT ![c] = me]
    BY <1>6, Zenon DEF ProofInv
  <2>1. /\ me \in ProverRecords /\ me.cell = prover[c].cell /\ me.answer = "none"
        /\ me.at = "prove" /\ me.path = p /\ me.part = n + 1 /\ me.visits = visits
    <3>1. n \in Nat /\ n + 1 \in Nat /\ prover[c].page + 1 \in Nat
      BY <1>1 DEF ProverRecords
    <3> QED
      BY <3>1, <1>1, <1>6, Zenon DEF ProverRecords
  <2>2. n + 1 \in 1..Len(Plan[p]) /\ \A k \in 1..(n + 1 - 1) : Plan[p][k].kind = "dir"
    <3>1. \A k \in 1..(n + 1 - 1) : k \in 1..(n - 1) \/ k = n
      BY <1>2
    <3> QED
      BY <3>1, <1>2, <1>6 DEF ProofPaths
  <2>3. Knows(c, me)
    BY <1>1, <1>6, <2>1, <2>2, SMTT(30) DEF Knows, Flying
  <2> HIDE DEF me
  <2> QED
    BY <1>4, <1>6, <2>0, <2>1, <2>3, Zenon
<1>7. ASSUME UNCHANGED cells, kind \notin {"absent", "dir"}, last,
             prover' = [prover EXCEPT ![c].at = "mint", ![c].part = 1, ![c].page = 1, ![c].visits = 0]
      PROVE  ProofInv' /\ Learns
  <2>1. Truth(p) = "token"
    BY <1>2, <1>7, TruthAt
  <2>2. /\ mint \in ProverRecords /\ mint.cell = prover[c].cell /\ mint.answer = "none"
        /\ mint.at = "mint"
        /\ prover' = [prover EXCEPT ![c] = mint]
    BY <1>1, <1>7, Zenon DEF ProverRecords, ProofInv
  <2>3. Knows(c, mint)
    BY <1>1, <2>1, ProofAssumption DEF Knows, ProverRecords, Flying
  <2> HIDE DEF mint
  <2> QED
    BY <1>4, <1>7, <2>2, <2>3, Zenon
<1>8. ASSUME ~last \/ kind \in {"absent", "dir"}, ~(kind = "dir" /\ ~last),
             Ends(c, CASE kind = "absent" -> "PathNotFound"
                       [] kind = "dir" -> "NotFile"
                       [] kind = "symlink" -> "SymlinkTraversal"
                       [] OTHER -> "NotDirectory")
      PROVE  ProofInv' /\ Learns
  <2> DEFINE answer == CASE kind = "absent" -> "PathNotFound"
                         [] kind = "dir" -> "NotFile"
                         [] kind = "symlink" -> "SymlinkTraversal"
                         [] OTHER -> "NotDirectory"
  <2>1. answer = Truth(p) /\ answer \in Definite /\ answer \notin Tokens
    <3>1. ~last => n < Len(Plan[p])
      BY <1>2
    <3>2. ~last => kind # "dir"
      BY <1>8, Zenon
    <3>3. Truth(p) = IF kind = "absent" THEN "PathNotFound"
                      ELSE IF n < Len(Plan[p])
                      THEN IF kind = "symlink" THEN "SymlinkTraversal" ELSE "NotDirectory"
                      ELSE IF kind = "dir" THEN "NotFile" ELSE "token"
      BY <1>2, <3>2, TruthAt
    <3>4. last => ~(n < Len(Plan[p]))
      BY <1>2
    <3>5. answer = Truth(p)
      BY <3>1, <3>3, <3>4, <1>8, Zenon
    <3>6. answer \notin Tokens
      BY Zenon DEF Tokens
    <3> QED
      BY <3>5, <3>6, TruthIs, Zenon
  <2> HIDE DEF answer
  <2>2. Ends(c, answer)
    BY <1>8, Zenon DEF answer
  <2> QED
    BY <1>1, <1>8, <2>1, <2>2, EndsStep, Zenon
<1> QED
  <2> DEFINE component == Plan[p][n]
             expected == component.pages[prover[c].page]
             chain == Chain(component, prover[c].page - 1)
  <2>1. ASSUME NEW pages \in Witnesses(expected, chain),
               WithinWork(prover[c].visits, Len(pages)), AcceptsWitness(pages, expected, chain)
        PROVE  /\ pages # <<>> /\ Selected(pages, component) = kind
               /\ prover[c].visits + Len(pages) \in Nat
               /\ prover[c].visits + Len(pages) <= MAX_VISITS
    <3>1. pages # <<>>
      BY <2>1, WitnessHasPage, Zenon
    <3>2. Len(pages) \in Nat
      BY <2>1, WitnessLength, Zenon
    <3>3. prover[c].visits \in Nat
      BY <1>1 DEF ProverRecords
    <3>4. prover[c].visits + Len(pages) <= MAX_VISITS
      BY <2>1, Zenon DEF WithinWork
    <3>5. Selected(pages, component) = kind
      BY <3>1 DEF Selected
    <3> QED
      BY <3>1, <3>2, <3>3, <3>4, <3>5, SMTT(30)
  <2> QED
    BY <1>1, <1>3, <1>5, <1>6, <1>7, <1>8, <2>1, Zenon DEF Descend

\* The proof is finished: its token is in the cell, for everyone who waits there.
LEMMA MintStep ==
    ASSUME ProofInv, NEW c \in Provers, Mint(c)
    PROVE  ProofInv' /\ Learns
<1> DEFINE k == prover[c].cell
<1>1. /\ prover[c].at = "mint" /\ UNCHANGED <<next, seeded, current>>
      /\ prover[c] \in ProverRecords /\ Knows(c, prover[c]) /\ prover[c].answer = "none"
  BY DEF Mint, ProofInv, Knows
<1>2. /\ k \in 1..CELLS /\ cells[k].path = prover[c].path /\ prover[c].path \in ProofPaths
      /\ Truth(prover[c].path) = "token" /\ prover[c].path # "none"
  BY <1>1, ProofAssumption DEF Knows, ProverRecords, ProofPaths
<1>3. CASE Ends(c, "error")
  BY <1>1, <1>3, EndsStep
<1>4. ASSUME cells' = [cells EXCEPT ![k].token = prover[c].path],
             prover' = [prover EXCEPT ![c].at = "validate"]
      PROVE  ProofInv' /\ Learns
  <2>1. /\ prover' \in [Provers -> ProverRecords]
        /\ prover'[c] = [prover[c] EXCEPT !.at = "validate"]
        /\ \A d \in Provers \ {c} : prover'[d] = prover[d]
    BY <1>1, <1>4, Zenon DEF ProofInv, ProverRecords
  <2>2. /\ cells' \in [1..CELLS -> CellRecords]
        /\ cells'[k] = [cells[k] EXCEPT !.token = prover[c].path]
        /\ \A j \in 1..CELLS \ {k} : cells'[j] = cells[j]
        /\ cells[k] \in CellRecords
    BY <1>2, <1>4, Zenon DEF ProofInv, CellRecords
  <2>3. /\ \A j \in 1..CELLS : cells'[j].path = cells[j].path /\ cells'[j].queue = cells[j].queue
        /\ cells'[k].token = prover[c].path
    BY <2>2 DEF CellRecords
  <2>4. /\ prover'[c].cell = k /\ prover'[c].at = "validate" /\ prover'[c].path = prover[c].path
        /\ prover'[c].answer = "none" /\ prover'[c].visits = prover[c].visits
    BY <1>1, <2>1 DEF ProverRecords
  <2>5. ASSUME NEW j \in 1..CELLS PROVE CellInv(j)'
    <3>1. CellInv(j)
      BY DEF ProofInv
    <3>2. \A d \in Provers : prover'[d].cell = prover[d].cell
      BY <2>1, <2>4, Zenon
    <3>3. cells'[j].token # "none" => cells'[j].token = cells'[j].path /\ Truth(cells'[j].path) = "token"
      BY <3>1, <1>2, <2>2, <2>3, Zenon DEF CellInv
    <3> QED
      BY <3>1, <3>2, <3>3, <2>3 DEF CellInv
  <2>6. ASSUME NEW d \in Provers PROVE Knows(d, prover[d])'
    <3>1. CASE d = c
      BY <3>1, <1>1, <1>2, <2>3, <2>4, ProofAssumption DEF Knows, Flying, Definite, Tokens
    <3>2. CASE d # c
      <4>1. Knows(d, prover[d]) /\ prover'[d] = prover[d] /\ prover[d] \in ProverRecords
        BY <3>2, <2>1 DEF ProofInv
      <4>2. prover[d].cell # 0 => prover[d].cell \in 1..CELLS
        BY <4>1, ProofAssumption DEF ProverRecords
      <4>3. prover[d].at = "validate" => cells'[prover[d].cell].token = prover[d].path
        BY <4>1, <4>2, <1>2, <2>2, <2>3, Zenon DEF Knows
      <4> QED
        BY <4>1, <4>2, <4>3, <2>3 DEF Knows, Flying
    <3> QED
      BY <3>1, <3>2
  <2>7. Learns
    BY <2>1, <2>4, Zenon DEF Learns, Definite, Tokens
  <2> QED
    BY <1>1, <2>1, <2>2, <2>5, <2>6, <2>7 DEF ProofInv
<1> QED
  BY <1>3, <1>4 DEF Mint

\* A token leaves the reader under the lease of the call that takes it.
LEMMA ValidateStep ==
    ASSUME ProofInv, NEW c \in Provers, ValidateToken(c)
    PROVE  ProofInv' /\ Learns
<1>1. /\ prover[c].at = "validate" /\ UNCHANGED <<next, seeded, current>>
      /\ prover[c] \in ProverRecords /\ Knows(c, prover[c])
  BY Zenon DEF ValidateToken, ProofInv
<1>2. /\ prover[c].cell \in 1..CELLS /\ cells[prover[c].cell].token = prover[c].path
      /\ prover[c].path # "none" /\ cells[prover[c].cell].path = prover[c].path
  BY <1>1, ProofAssumption DEF Knows, ProverRecords, ProofPaths
<1>3. Truth(prover[c].path) = "token"
  BY <1>2 DEF ProofInv, CellInv
<1>4. Ends(c, IF ~current THEN "error" ELSE "token")
  BY <1>2 DEF ValidateToken
<1>5. CASE current
  BY <1>1, <1>3, <1>4, <1>5, EndsStep, Zenon DEF Definite, Tokens
<1>6. CASE ~current
  BY <1>1, <1>4, <1>6, EndsStep
<1> QED
  BY <1>5, <1>6

\* Every step keeps the invariant, and what a step does without the lease is harmless.
LEMMA ProofStepKeeps ==
    ASSUME ProofInv, [ProofNext]_proofVars
    PROVE  ProofInv' /\ Learns
<1>1. ASSUME NEW c \in Provers, GiveUp(c) PROVE ProofInv' /\ Learns
  BY <1>1, EndsStep DEF GiveUp
<1>2. CASE ProofWorld
  <2>1. seeded' \in BOOLEAN /\ current' \in BOOLEAN /\ UNCHANGED <<cells, next, prover>>
    BY <1>2, Zenon DEF ProofWorld, ProofInv
  <2> QED
    BY <2>1, SMTT(30) DEF ProofInv, CellInv, Knows, Learns
<1>3. CASE UNCHANGED proofVars
  BY <1>3, SMTT(30) DEF proofVars, ProofInv, CellInv, Knows, Learns
<1> QED
  BY <1>1, <1>2, <1>3, ProveStep, GetCellStep, GetOrInitStep, AskPageStep, DescendStep,
     MintStep, ValidateStep
     DEF ProofNext, ProofStep

LEMMA ProofInitKeeps ==
    ASSUME ProofInit
    PROVE  ProofInv
<1>1. CELLS \in Nat \ {0} /\ MAX_VISITS \in Nat
  BY ProofAssumption
<1>2. /\ \A k \in 1..CELLS : cells[k] = NoCell
      /\ \A c \in Provers : prover[c] = Waiting
  BY DEF ProofInit
<1>3. NoCell \in CellRecords /\ Waiting \in ProverRecords
  BY <1>1 DEF NoCell, Waiting, CellRecords, ProverRecords
<1>4. \A k \in 1..CELLS : CellInv(k)
  BY <1>1, <1>2 DEF CellInv, NoCell, Waiting, OnceIn, InQueue
<1>5. \A c \in Provers : Knows(c, prover[c])
  <2>1. /\ Waiting.at = "idle" /\ Waiting.cell = 0 /\ Waiting.visits = 0 /\ 0 <= MAX_VISITS
        /\ Waiting.answer = "none" /\ Waiting.answer \notin Definite
    BY <1>1 DEF Waiting, Definite, Tokens
  <2> QED
    BY <1>2, <2>1 DEF Knows, Flying
<1>6. next \in 1..CELLS
  BY <1>1 DEF ProofInit
<1>8. seeded \in BOOLEAN /\ current \in BOOLEAN
  BY Zenon DEF ProofInit
<1>7. cells \in [1..CELLS -> CellRecords] /\ prover \in [Provers -> ProverRecords]
  BY <1>3 DEF ProofInit
<1> QED
  BY <1>4, <1>5, <1>6, <1>7, <1>8 DEF ProofInv

\* The invariant holds throughout (proven_file.rs prove_file_admitted, CellTable::get).
THEOREM PathProofInvariant == ProofSpec => []ProofInv
BY ProofInitKeeps, ProofStepKeeps, PTL DEF ProofSpec

\* The table keeps its types: a path is in one cell, and a cell that is held keeps the path it
\* was taken for (CellTable::get replaces a cell only while nobody else refers to it).
THEOREM PathProofTypes == ProofSpec => []ProofTypeOK
<1>1. ProofInv => ProofTypeOK
  <2> SUFFICES ASSUME ProofInv PROVE ProofTypeOK
    OBVIOUS
  <2>1. \A k, j \in 1..CELLS : k # j /\ cells[k].path # "none" => cells[k].path # cells[j].path
    BY DEF ProofInv, CellInv
  <2>2. \A c \in Provers : prover[c].cell # 0 => cells[prover[c].cell].path = prover[c].path
    BY DEF ProofInv, Knows
  <2>3. \A c \in Provers : prover[c].visits <= MAX_VISITS
    BY DEF ProofInv, Knows
  <2> QED
    BY <2>1, <2>2, <2>3 DEF ProofTypeOK, ProofInv
<1> QED
  BY <1>1, PathProofInvariant, PTL

\* Callers share one proof per path; what they learn is what the fixed root says; and after the
\* lease has ended no page is asked for and no token leaves the reader, only the finding that
\* there is no such file, by a call whose page was asked for before (proven_file.rs prove_file,
\* get_or_try_init, prove_component, validate).
THEOREM PathProofSound == ProofSpec => ProofSound
<1>1. ProofInv => OneFlight
  <2> SUFFICES ASSUME ProofInv, NEW c \in Provers, NEW d \in Provers, c # d,
                      {prover[c].at, prover[d].at} \subseteq Flying,
                      prover[c].path = prover[d].path
               PROVE  FALSE
    BY DEF OneFlight
  <2>1. /\ Knows(c, prover[c]) /\ Knows(d, prover[d])
        /\ prover[c] \in ProverRecords /\ prover[d] \in ProverRecords
    BY DEF ProofInv
  <2>2. /\ prover[c].cell \in 1..CELLS /\ cells[prover[c].cell].path = prover[c].path
        /\ Head(cells[prover[c].cell].queue) = c
        /\ prover[d].cell \in 1..CELLS /\ cells[prover[d].cell].path = prover[d].path
        /\ Head(cells[prover[d].cell].queue) = d
        /\ prover[c].path # "none"
    <3>1. ASSUME NEW e \in Provers, prover[e].at \in Flying
          PROVE  /\ prover[e].cell \in 1..CELLS /\ cells[prover[e].cell].path = prover[e].path
                 /\ Head(cells[prover[e].cell].queue) = e /\ prover[e].path # "none"
      <4>1. Knows(e, prover[e]) /\ prover[e] \in ProverRecords
        BY DEF ProofInv
      <4> QED
        BY <3>1, <4>1, ProofAssumption DEF Knows, ProverRecords, ProofPaths, Flying
    <3> QED
      BY <3>1
  <2>3. prover[c].cell = prover[d].cell
    BY <2>2 DEF ProofInv, CellInv
  <2> QED
    BY <2>2, <2>3
<1>2. ProofInv => DefiniteIsTrue
  BY DEF ProofInv, Knows, DefiniteIsTrue
<1>3. ProofInv /\ [ProofNext]_proofVars =>
        [~current => \A c \in Provers :
           /\ prover'[c].at = "page" => prover[c].at = "page"
           /\ prover'[c].answer # prover[c].answer =>
                /\ prover'[c].answer \notin Tokens
                /\ prover'[c].answer \in Definite => prover[c].at = "page"]_proofVars
  BY ProofStepKeeps DEF Learns
<1>4. ProofSpec => []OneFlight /\ []DefiniteIsTrue
  BY <1>1, <1>2, PathProofInvariant, PTL
<1>5. ProofSpec => ProofsNeedLease
  BY <1>3, PathProofInvariant, PTL DEF ProofSpec, ProofsNeedLease
<1> QED
  BY <1>4, <1>5 DEF ProofSound
=============================================================================
