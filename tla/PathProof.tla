----------------------------- MODULE PathProof -----------------------------
(***************************************************************************)
(* Proving that a path is a file of the fixed root (proven_file.rs).       *)
(*                                                                         *)
(* The clones of a reader share a small table of path cells.  A cell holds *)
(* the token of its path once some caller has proved it; until then one of *)
(* the callers that hold the cell runs the proof and the others wait.  A   *)
(* proof walks the directories of the path, and in each the radix pages    *)
(* that lead to the name; every page is checked against the id its parent  *)
(* commits to.  Callers have a deadline, and their futures may be dropped  *)
(* at any await: the table, the admissions and the single flight have to   *)
(* survive that.                                                           *)
(***************************************************************************)
EXTENDS Naturals, FiniteSets, Sequences

CONSTANTS
    Provers,            \* the calls of prove_file, each made once
    Plan,               \* per path, its components: [pages |-> Seq(page id), kind |-> kind]
    CELLS,
    LocalCallers, LocalInitializers,
    MAX_VISITS

ASSUME ProofAssumption ==
    /\ CELLS \in Nat \ {0} /\ MAX_VISITS \in Nat
    /\ LocalCallers \in Nat /\ LocalInitializers \in Nat
    /\ \A p \in DOMAIN Plan : Len(Plan[p]) \in Nat \ {0}
    /\ "none" \notin DOMAIN Plan

VARIABLES
    cells,        \* the table: [path, token, queue], the queue being the callers that
                  \* hold the cell, in the order in which they get the flight
    next,         \* where the search for a free cell starts
    prover,       \* what each caller does
    seeded,       \* a complete closure has been verified
    current       \* the lease holds
proofVars == <<cells, next, prover, seeded, current>>

ProofPaths == DOMAIN Plan
\* "error" stands for every error that says nothing of the path.
Tokens == {"token", "wrong token"}
Definite == Tokens \cup {"PathNotFound", "NotFile", "NotDirectory", "SymlinkTraversal"}
NoCell == [path |-> "none", token |-> "none", queue |-> <<>>]
Waiting == [at |-> "idle", path |-> "none", cell |-> 0, part |-> 1, page |-> 1,
            visits |-> 0, answer |-> "none"]

ProofInit ==
    /\ cells = [k \in 1..CELLS |-> NoCell]
    /\ next = 1
    /\ prover = [c \in Provers |-> Waiting]
    /\ seeded = FALSE
    /\ current = TRUE

-----------------------------------------------------------------------------
(* Admission and the table of cells.                                       *)

InFlight == {c \in Provers : prover[c].at # "idle"}
Flying == {"prove", "page", "mint"}
Proving == {c \in Provers : prover[c].at \in Flying}
Holders(k) == {c \in Provers : prover[c].cell = k}

\* A permit of the reader, and one of the process, which other readers may hold.
Admits(held, local) == Cardinality(held) < local

\* What a path is, by the fixed root: what the first component that is no directory
\* makes of it, or its last one.
Truth(p) ==
    LET bad == {k \in 1..(Len(Plan[p]) - 1) : Plan[p][k].kind # "dir"}
        first == IF bad = {} THEN Len(Plan[p]) ELSE CHOOSE k \in bad : \A j \in bad : k <= j
        kind == Plan[p][first].kind
    IN IF kind = "absent" THEN "PathNotFound"
       ELSE IF first < Len(Plan[p])
       THEN IF kind = "symlink" THEN "SymlinkTraversal" ELSE "NotDirectory"
       ELSE IF kind = "dir" THEN "NotFile" ELSE "token"

\* The call is over: its cell, its permits and its proof go with it. A caller is in a
\* queue at most once.
Over(c, answer) == [prover EXCEPT ![c] = [Waiting EXCEPT !.path = prover[c].path, !.answer = answer]]
Without(q, c) ==
    IF \E i \in 1..Len(q) : q[i] = c
    THEN LET i == CHOOSE j \in 1..Len(q) : q[j] = c
         IN SubSeq(q, 1, i - 1) \o SubSeq(q, i + 1, Len(q))
    ELSE q
Vacated(c) == [k \in 1..CELLS |-> [cells[k] EXCEPT !.queue = Without(@, c)]]
Ends(c, answer) == prover' = Over(c, answer) /\ cells' = Vacated(c)

\* prove_file: a valid path, and the admission of a caller.
Prove(c) ==
    /\ prover[c].at = "idle" /\ prover[c].answer = "none"
    /\ \E p \in ProofPaths :
          \/ /\ Admits(InFlight, LocalCallers)
             /\ prover' = [prover EXCEPT ![c] = [Waiting EXCEPT !.at = "enter", !.path = p]]
          \/ prover' = [prover EXCEPT ![c] = [Waiting EXCEPT !.path = p, !.answer = "error"]]
    /\ UNCHANGED <<cells, next, seeded, current>>

\* Mutant: the cell at the cursor is replaced, held or not.
FreeCellAny(k) == TRUE

\* A cell may be replaced when only the table refers to it.
FreeCell(k) == Holders(k) = {}

\* CellTable::get: the slots in the order of the search.
Search == [d \in 1..CELLS |-> ((next + d - 2) % CELLS) + 1]

\* The lease, then the seeded closure when there is one, then a cell of the path:
\* the one in the table, or the first free one from the cursor on.
GetCell(c) ==
    LET p == prover[c].path
        known == {k \in 1..CELLS : cells[k].path = p}
        free == {d \in 1..CELLS : FreeCell(Search[d])}
        hold(k) == prover' = [prover EXCEPT ![c].at = "wait", ![c].cell = k]
        new == [NoCell EXCEPT !.path = p, !.queue = <<c>>]
    IN
    /\ prover[c].at = "enter"
    /\ \/ /\ ~current /\ prover' = Over(c, "error")
          /\ UNCHANGED <<cells, next>>
       \/ /\ current /\ seeded /\ prover' = Over(c, Truth(p))
          /\ UNCHANGED <<cells, next>>
       \/ /\ current /\ ~seeded /\ known # {}
          /\ \E k \in known : hold(k) /\ cells' = [cells EXCEPT ![k].queue = Append(@, c)]
          /\ UNCHANGED next
       \/ /\ current /\ ~seeded /\ known = {}
          /\ \E d \in free :
                /\ \A e \in free : d <= e
                /\ hold(Search[d])
                /\ cells' = [cells EXCEPT ![Search[d]] = new]
                /\ next' = (Search[d] % CELLS) + 1
       \/ /\ current /\ ~seeded /\ known = {} /\ free = {}
          /\ prover' = Over(c, "error")
          /\ UNCHANGED <<cells, next>>
    /\ UNCHANGED <<seeded, current>>

\* Mutant: whoever finds the cell empty proves the path.
GetOrInitEager(c) ==
    /\ prover[c].at = "wait"
    /\ prover' = [prover EXCEPT ![c].at =
                    IF cells[prover[c].cell].token # "none" THEN "validate" ELSE "prove"]
    /\ UNCHANGED <<cells, next, seeded, current>>

\* OnceCell::get_or_try_init: the token, or the flight for the first of the queue; it
\* needs an admission of its own, and a refusal leaves the flight to the next waiter.
GetOrInit(c) ==
    LET k == prover[c].cell IN
    /\ prover[c].at = "wait"
    /\ \/ /\ cells[k].token # "none"
          /\ prover' = [prover EXCEPT ![c].at = "validate"]
          /\ UNCHANGED cells
       \/ /\ cells[k].token = "none" /\ Head(cells[k].queue) = c
          /\ \/ /\ Admits(Proving, LocalInitializers)
                /\ prover' = [prover EXCEPT ![c].at = "prove"] /\ UNCHANGED cells
             \/ Ends(c, "error")
    /\ UNCHANGED <<next, seeded, current>>

-----------------------------------------------------------------------------
(* prove_path and prove_component.                                         *)

\* A page of an answer: its advertised id, and whether its bytes hash to it.
Good(id) == [id |-> id, hashed |-> TRUE]

\* External: what a service may answer to a request for one page of a chain.
Witnesses(expected, chain) ==
    {<<Good(expected)>>, <<[id |-> expected, hashed |-> FALSE]>>, <<>>,
     <<Good(expected), Good(expected)>>, <<Good("unrelated"), Good(expected)>>}
      \cup {<<Good(q), Good(expected)>> : q \in chain}

\* Mutant: an answer without the page asked for is read as an empty leaf.
AcceptsOmission(pages, expected, chain) == \A k \in DOMAIN pages : pages[k].hashed

\* The page asked for, once, with nothing else but ancestors seen before, and every
\* page hashes to its id.
AcceptsWitness(pages, expected, chain) ==
    /\ \A k \in DOMAIN pages : pages[k].hashed /\ pages[k].id \in chain \cup {expected}
    /\ Cardinality({k \in DOMAIN pages : pages[k].id = expected}) = 1

\* ProofWork: one more request, then what it brought, within the budget of a proof.
WithinWork(visits, more) == visits + more <= MAX_VISITS

\* What the last page says of the name: the entry of a canonical leaf, or the terminal
\* of a branch, or nothing.
Selected(pages, component) == IF pages = <<>> THEN "absent" ELSE component.kind

Chain(component, upto) == {component.pages[k] : k \in 1..upto}

\* The work of one more request and the lease, and the request is sent.
AskPage(c) ==
    /\ prover[c].at = "prove"
    /\ IF current /\ WithinWork(prover[c].visits, prover[c].page)
       THEN prover' = [prover EXCEPT ![c].at = "page"] /\ UNCHANGED cells
       ELSE Ends(c, "error")
    /\ UNCHANGED <<next, seeded, current>>

\* The answer to a request.  An accepted page leads on in its directory, to the next
\* component, to the definite answer that there is no such file, or to the end.  The
\* lease is not looked at: an error needs none.
Descend(c) ==
    LET me == prover[c]
        component == Plan[me.path][me.part]
        expected == component.pages[me.page]
        chain == Chain(component, me.page - 1)
        lastPage == me.page = Len(component.pages)
        lastPart == me.part = Len(Plan[me.path])
        found(pages) == Selected(pages, component)
    IN
    /\ me.at = "page"
    /\ \E pages \in Witnesses(expected, chain) :
       LET visits == me.visits + Len(pages) IN
       IF ~WithinWork(me.visits, Len(pages)) \/ ~AcceptsWitness(pages, expected, chain)
       THEN Ends(c, "error")
       ELSE \/ /\ pages # <<>> /\ ~lastPage
               /\ prover' = [prover EXCEPT ![c].at = "prove", ![c].page = @ + 1,
                                           ![c].visits = visits]
               /\ UNCHANGED cells
            \/ /\ pages = <<>> \/ lastPage
               /\ found(pages) = "dir" /\ ~lastPart
               /\ prover' = [prover EXCEPT ![c].at = "prove", ![c].part = @ + 1,
                                           ![c].page = 1, ![c].visits = visits]
               /\ UNCHANGED cells
            \/ /\ pages = <<>> \/ lastPage
               /\ ~lastPart \/ found(pages) \in {"absent", "dir"}
               /\ ~(found(pages) = "dir" /\ ~lastPart)
               /\ Ends(c, CASE found(pages) = "absent" -> "PathNotFound"
                             [] found(pages) = "dir" -> "NotFile"
                             [] found(pages) = "symlink" -> "SymlinkTraversal"
                             [] OTHER -> "NotDirectory")
            \/ /\ pages # <<>> /\ lastPage /\ lastPart
               /\ found(pages) \notin {"absent", "dir"}
               /\ prover' = [prover EXCEPT ![c].at = "mint", ![c].part = 1, ![c].page = 1,
                                           ![c].visits = 0]
               /\ UNCHANGED cells
    /\ UNCHANGED <<next, seeded, current>>

\* The lease once more, and the token; the waiters find it in the cell. A file over the
\* size limit is an error, like the ones of GiveUp.
Mint(c) ==
    /\ prover[c].at = "mint"
    /\ IF current
       THEN /\ cells' = [cells EXCEPT ![prover[c].cell].token = prover[c].path]
            /\ prover' = [prover EXCEPT ![c].at = "validate"]
       ELSE Ends(c, "error")
    /\ UNCHANGED <<next, seeded, current>>

\* Mutant: a token taken from a cell needs no lease.
ValidateNothing(c) ==
    /\ prover[c].at = "validate"
    /\ Ends(c, "token")
    /\ UNCHANGED <<next, seeded, current>>

\* The token is handed out under the lease of this call, whoever proved it and when.
ValidateToken(c) ==
    /\ prover[c].at = "validate"
    /\ Ends(c, IF ~current THEN "error"
                ELSE IF cells[prover[c].cell].token = prover[c].path THEN "token"
                ELSE "wrong token")
    /\ UNCHANGED <<next, seeded, current>>

\* Mutant: the flight stays taken when the caller that runs it goes away.
GiveUpHolding(c) ==
    /\ prover[c].at # "idle"
    /\ prover' = Over(c, "error")
    /\ UNCHANGED <<cells, next, seeded, current>>

\* The deadline of the call, or of the flight it runs, or its future is dropped.
GiveUp(c) ==
    /\ prover[c].at # "idle"
    /\ Ends(c, "error")
    /\ UNCHANGED <<next, seeded, current>>

\* External: a closure is verified, the lease ends.
ProofWorld ==
    /\ \/ ~seeded /\ current /\ seeded' = TRUE /\ UNCHANGED current
       \/ current /\ current' = FALSE /\ UNCHANGED seeded
    /\ UNCHANGED <<cells, next, prover>>

-----------------------------------------------------------------------------
ProofStep(c) ==
    GetCell(c) \/ GetOrInit(c) \/ AskPage(c) \/ Descend(c) \/ Mint(c) \/ ValidateToken(c)

ProofNext ==
    \/ \E c \in Provers : Prove(c) \/ ProofStep(c) \/ GiveUp(c)
    \/ ProofWorld

\* A call that can go on is polled, none before another; a request ends, by its own timeout at the
\* latest.  The deadline of the call is not relied upon.
ProofFairness == WF_proofVars(\E c \in Provers : ProofStep(c))

ProofSpec == ProofInit /\ [][ProofNext]_proofVars /\ ProofFairness

-----------------------------------------------------------------------------
(* Properties.                                                             *)

\* The table is an injective map from cells to paths, and a cell that is held keeps
\* the path it was taken for (CellTable::get).
ProofTypeOK ==
    /\ next \in 1..CELLS
    /\ \A k, j \in 1..CELLS : k # j /\ cells[k].path # "none" => cells[k].path # cells[j].path
    /\ \A c \in Provers : prover[c].cell # 0 => cells[prover[c].cell].path = prover[c].path
    /\ \A c \in Provers : prover[c].visits <= MAX_VISITS

\* One proof per path: however callers come, wait and are dropped, and however cells
\* are replaced, no two callers prove the same path at the same time.
OneFlight ==
    \A c, d \in Provers :
        /\ c # d
        /\ {prover[c].at, prover[d].at} \subseteq Flying
        => prover[c].path # prover[d].path

\* A definite answer (a token, not found, not a directory, not a file) is what the
\* fixed root says of the path, whatever pages the service sent and in which order
\* the callers shared the proof.  Anything else is an error that says nothing.
DefiniteIsTrue ==
    \A c \in Provers :
        prover[c].answer \in Definite => prover[c].answer = Truth(prover[c].path)

\* Once the lease has ended no token leaves the reader, not even one that another call
\* proved and a waiter took from the cell, and no page is asked for. That a path is not a
\* file may still be said, by a call whose page was asked for under the lease: only what
\* succeeds looks at the lease again (prove_component, prove_path, validate).
ProofsNeedLease ==
    [][~current => \A c \in Provers :
         /\ prover'[c].at = "page" => prover[c].at = "page"
         /\ prover'[c].answer # prover[c].answer =>
              /\ prover'[c].answer \notin Tokens
              /\ prover'[c].answer \in Definite => prover[c].at = "page"]_proofVars

\* A caller has not got its answer.
ProofBusy == \E c \in Provers : prover[c].at # "idle"

\* Callers share one proof per path, what they learn from it is true, and it was asked for,
\* or for a token handed out, under the lease (proven_file.rs prove_file_admitted,
\* prove_component, validate).
ProofSound == []OneFlight /\ []DefiniteIsTrue /\ ProofsNeedLease
=============================================================================
