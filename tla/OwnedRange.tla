----------------------------- MODULE OwnedRange -----------------------------
(***************************************************************************)
(* Ranges of a large file read from the service (owned_range.rs).          *)
(*                                                                         *)
(* An open file caches the digests of its map pages (leaves) and a few     *)
(* verified chunks.  Reads of several tasks share both.  Every buffer is   *)
(* charged to one output budget: the reply of a read, a chunk that is      *)
(* being fetched, and a verified chunk for as long as the cache or a task  *)
(* holds it.  The retention lease is asked before and after every wait.    *)
(***************************************************************************)
EXTENDS Naturals, FiniteSets, Sequences, SequencesExt, FiniteSetsExt

CONSTANTS
    RangeTasks,           \* the tasks that read the file
    RangesOf,        \* per task, its possible ranges: <<offset, length>>
    FILE_SIZE, CHUNK_CELLS, CHUNKS_PER_PAGE,
    CACHED_CHUNKS, CACHED_LEAVES,
    OUTPUT_CREDITS, RANGE_LIMIT,
    Pool,            \* names for the verified chunks that are alive
    MaxRanges,       \* bound on the reads of a behaviour
    MaxBadReplies    \* bound on the replies that are wrong or fail

ASSUME OwnedAssumption ==
    /\ {FILE_SIZE, CHUNK_CELLS, CHUNKS_PER_PAGE, CACHED_CHUNKS, CACHED_LEAVES} \subseteq Nat \ {0}
    /\ {OUTPUT_CREDITS, RANGE_LIMIT, MaxRanges, MaxBadReplies} \subseteq Nat

VARIABLES
    opening,     \* "no", "asked", "yes", "refused"
    task,       \* per task, its read
    objs,       \* the verified chunks: [index, good, refs], refs = 0 for a free name
    chunkLru,   \* the cached chunks, the least recently used first
    leafLru,    \* the cached leaves, likewise
    charged,    \* output credits in use
    retained,   \* the lease has not ended
    ranges, badReplies
ownedVars == <<opening, task, objs, chunkLru, leafLru, charged, retained, ranges, badReplies>>

Free == [index |-> 0, good |-> TRUE, refs |-> 0]
Asleep == [st |-> "idle", offset |-> 0, want |-> 0, out |-> <<>>, index |-> 0,
           paying |-> "reply", held |-> 0, paid |-> 0, obj |-> 0, alone |-> TRUE]

OwnedInit ==
    /\ opening = "no"
    /\ task = [t \in RangeTasks |-> Asleep]
    /\ objs = [o \in Pool |-> Free]
    /\ chunkLru = <<>> /\ leafLru = <<>>
    /\ charged = 0
    /\ retained = TRUE
    /\ ranges = 0 /\ badReplies = 0

-----------------------------------------------------------------------------
(* Helpers.                                                                *)

Smaller(a, b) == IF a < b THEN a ELSE b
ChunkStart(k) == k * CHUNK_CELLS
ChunkSize(k) == Smaller(FILE_SIZE - ChunkStart(k), CHUNK_CELLS)
Clip(offset, length) == IF offset >= FILE_SIZE THEN 0 ELSE Smaller(length, FILE_SIZE - offset)
EndOf(t) == task[t].offset + task[t].want
Become(t, new) == task' = [task EXCEPT ![t] = new]

\* Mutant: an evicted chunk gives its credits back at once.
FreedAtOnce(o) == ChunkSize(objs[o].index)

\* Dropping one reference frees the credits of a chunk nobody else holds.
Freed(o) == IF objs[o].refs = 1 THEN ChunkSize(objs[o].index) ELSE 0
LetGo(o) == [objs EXCEPT ![o] = IF @.refs = 1 THEN Free ELSE [@ EXCEPT !.refs = @ - 1]]

\* A read ends: its buffers are dropped, except the reply of a read that succeeded.
Finish(t, st) ==
    /\ Become(t, [Asleep EXCEPT !.st = st, !.offset = task[t].offset, !.want = task[t].want,
                                !.out = task[t].out, !.alone = task[t].alone,
                                !.held = IF st = "done" THEN task[t].held ELSE 0])
    /\ charged' = charged - (IF st = "done" THEN 0 ELSE task[t].held) - task[t].paid
                          - (IF task[t].obj = 0 THEN 0 ELSE Freed(task[t].obj))
    /\ objs' = IF task[t].obj = 0 THEN objs ELSE LetGo(task[t].obj)

\* Move on unless the lease has ended.
WhileRetained(t, new) ==
    IF retained THEN Become(t, new) /\ UNCHANGED <<charged, objs>> ELSE Finish(t, "lease")
Elsewhere == <<opening, chunkLru, leafLru, retained, ranges, badReplies>>

Touched(lru, x) == Append(SelectSeq(lru, LAMBDA y : y # x), x)

-----------------------------------------------------------------------------
(* Opening the file.                                                       *)

AskMap ==
    /\ opening = "no"
    /\ opening' = IF retained THEN "asked" ELSE "refused"
    /\ UNCHANGED <<task, objs, chunkLru, leafLru, charged, retained, ranges, badReplies>>

\* The map must have the size of the fixed file, and the lease must have survived the wait.
MapAnswers ==
    /\ opening = "asked"
    /\ \/ opening' = (IF retained THEN "yes" ELSE "refused") /\ UNCHANGED badReplies
       \/ badReplies < MaxBadReplies /\ badReplies' = badReplies + 1 /\ opening' = "refused"
    /\ UNCHANGED <<task, objs, chunkLru, leafLru, charged, retained, ranges>>

-----------------------------------------------------------------------------
(* One read.                                                               *)

BeginRange(t) ==
    /\ opening = "yes" /\ task[t].st = "idle" /\ ranges < MaxRanges
    /\ \E range \in RangesOf[t] :
         LET want == Clip(range[1], range[2])
             st == IF ~retained THEN "lease" ELSE IF want > RANGE_LIMIT THEN "limit" ELSE "admit"
             others == \E u \in RangeTasks \ {t} : task[u].st # "idle"
         IN task' = [u \in RangeTasks |->
               IF u = t THEN [Asleep EXCEPT !.st = st, !.offset = range[1], !.want = want,
                                !.index = range[1] \div CHUNK_CELLS, !.alone = ~others]
               ELSE [task[u] EXCEPT !.alone = FALSE]]
    /\ ranges' = ranges + 1
    /\ UNCHANGED <<opening, objs, chunkLru, leafLru, charged, retained, badReplies>>

\* What the task asks credits for: its reply, or the chunk it is about to fetch.
Need(t) == IF task[t].paying = "reply" THEN task[t].want ELSE ChunkSize(task[t].index)
Paid(t) ==
    /\ charged' = charged + Need(t)
    /\ Become(t, IF task[t].paying = "reply"
                 THEN [task[t] EXCEPT !.st = "loop", !.held = Need(t), !.paying = "chunk"]
                 ELSE [task[t] EXCEPT !.st = "ask", !.paid = Need(t)])
    /\ UNCHANGED objs

\* Mutant: a full budget is final.
FullIsFinal(t) == Finish(t, "limit")

Full(t) == Become(t, [task[t] EXCEPT !.st = "clear"]) /\ UNCHANGED <<charged, objs>>

\* admit_output: the first attempt, what it does when the budget is full, and the second.
Admit(t) ==
    /\ task[t].st = "admit"
    /\ IF charged + Need(t) > OUTPUT_CREDITS THEN Full(t) ELSE Paid(t)
    /\ UNCHANGED Elsewhere

\* The cache gives up its chunks; those a task holds stay charged.
Clear(t) ==
    /\ task[t].st = "clear"
    /\ charged' = charged - MapThenSumSet(Freed, Range(chunkLru))
    /\ objs' = [o \in Pool |-> IF o \in Range(chunkLru) THEN LetGo(o)[o] ELSE objs[o]]
    /\ chunkLru' = <<>>
    /\ Become(t, [task[t] EXCEPT !.st = "readmit"])
    /\ UNCHANGED <<opening, leafLru, retained, ranges, badReplies>>

NoRoom(t) == Finish(t, "limit")

Readmit(t) ==
    /\ task[t].st = "readmit"
    /\ IF charged + Need(t) > OUTPUT_CREDITS THEN NoRoom(t) ELSE Paid(t)
    /\ UNCHANGED Elsewhere

\* Mutant: the lease is not asked again when the range is complete.
CompleteRangeAnyway(t) == Finish(t, "done")

\* Mutant: a complete range whose lease has ended waits for another.
CompleteRangeWaits(t) ==
    IF retained THEN Finish(t, "done") ELSE Become(t, task[t]) /\ UNCHANGED <<charged, objs>>

\* The range is complete: the lease must still hold, and every cell must be there.
CompleteRange(t) ==
    Finish(t, IF ~retained THEN "lease" ELSE IF Len(task[t].out) # task[t].want THEN "invalid" ELSE "done")

\* The next covering chunk, or the end.
NextChunk(t) ==
    /\ task[t].st = "loop"
    /\ IF ChunkStart(task[t].index) >= EndOf(t) \/ task[t].want = 0 THEN CompleteRange(t)
       ELSE WhileRetained(t, [task[t] EXCEPT !.st = "cache"])
    /\ UNCHANGED Elsewhere

\* ensure_chunk: a cached chunk is used and becomes the most recently used.
LookChunk(t) ==
    /\ task[t].st = "cache"
    /\ LET hits == {o \in Range(chunkLru) : objs[o].index = task[t].index}
           o == CHOOSE h \in hits : TRUE
       IN IF hits = {} \/ ~retained
          THEN WhileRetained(t, [task[t] EXCEPT !.st = "leaf"]) /\ UNCHANGED chunkLru
          ELSE /\ Become(t, [task[t] EXCEPT !.st = "copy", !.obj = o])
               /\ objs' = [objs EXCEPT ![o].refs = @ + 1]
               /\ chunkLru' = Touched(chunkLru, o)
               /\ UNCHANGED charged
    /\ UNCHANGED <<opening, leafLru, retained, ranges, badReplies>>

Page(t) == task[t].index \div CHUNKS_PER_PAGE

\* ensure_leaf: the digests of the page are cached, or fetched and verified.
LookLeaf(t) ==
    /\ task[t].st = "leaf"
    /\ LET cached == Page(t) \in Range(leafLru)
       IN /\ WhileRetained(t, [task[t] EXCEPT !.st = IF cached THEN "admit" ELSE "askLeaf"])
          /\ leafLru' = IF cached /\ retained THEN Touched(leafLru, Page(t)) ELSE leafLru
    /\ UNCHANGED <<opening, chunkLru, retained, ranges, badReplies>>

\* Mutant: the cache grows.
ShrunkNever(lru, limit) == lru

Shrunk(lru, limit) == IF Len(lru) >= limit THEN Tail(lru) ELSE lru

LeafAnswers(t) ==
    /\ task[t].st = "askLeaf"
    /\ \/ /\ WhileRetained(t, [task[t] EXCEPT !.st = "admit"])
          /\ leafLru' = IF ~retained THEN leafLru
                        ELSE Append(Shrunk(SelectSeq(leafLru, LAMBDA p : p # Page(t)), CACHED_LEAVES), Page(t))
          /\ UNCHANGED badReplies
       \/ /\ badReplies < MaxBadReplies /\ badReplies' = badReplies + 1
          /\ Finish(t, "invalid") /\ UNCHANGED leafLru
    /\ UNCHANGED <<opening, chunkLru, retained, ranges>>

AskChunk(t) ==
    /\ task[t].st = "ask"
    /\ WhileRetained(t, [task[t] EXCEPT !.st = "fetch"])
    /\ UNCHANGED Elsewhere

\* Mutant: the chunk is taken by its length.
GenuineLength(good) == TRUE

Genuine(good) == good

\* The reply: the chunk, other bytes of the same length, or a stream that breaks off.  It becomes a
\* verified chunk in the buffer paid for.
ChunkAnswers(t) ==
    /\ task[t].st = "fetch"
    /\ \E good \in BOOLEAN, broken \in BOOLEAN :
         /\ ~good \/ broken => badReplies < MaxBadReplies
         /\ badReplies' = badReplies + IF ~good \/ broken THEN 1 ELSE 0
         /\ LET o == CHOOSE o \in Pool : objs[o].refs = 0
            IN IF broken THEN Finish(t, "invalid")
               ELSE IF ~retained THEN Finish(t, "lease")
               ELSE IF ~Genuine(good) THEN Finish(t, "invalid")
               ELSE /\ Become(t, [task[t] EXCEPT !.st = "insert", !.paid = 0, !.obj = o])
                    /\ objs' = [objs EXCEPT ![o] = [index |-> task[t].index, good |-> good, refs |-> 1]]
                    /\ UNCHANGED charged
    /\ UNCHANGED <<opening, chunkLru, leafLru, retained, ranges>>

\* Mutant: a chunk another task has cached meanwhile stays.
StaleNone(index) == {}

Stale(index) == {o \in Range(chunkLru) : objs[o].index = index}

\* The lease is asked again under the lock of the cache; an older copy and the least recently used
\* chunk make room.
Insert(t) ==
    /\ task[t].st = "insert"
    /\ LET stale == Stale(task[t].index)
           rest == SelectSeq(chunkLru, LAMBDA o : o \notin stale)
           gone == stale \cup IF Len(rest) >= CACHED_CHUNKS THEN {Head(rest)} ELSE {}
       IN IF ~retained THEN Finish(t, "lease") /\ UNCHANGED chunkLru
          ELSE /\ Become(t, [task[t] EXCEPT !.st = "copy"])
               /\ charged' = charged - MapThenSumSet(Freed, gone)
               /\ objs' = [o \in Pool |-> IF o = task[t].obj THEN [objs[o] EXCEPT !.refs = @ + 1]
                                          ELSE IF o \in gone THEN LetGo(o)[o] ELSE objs[o]]
               /\ chunkLru' = Append(Shrunk(rest, CACHED_CHUNKS), task[t].obj)
    /\ UNCHANGED <<opening, leafLru, retained, ranges, badReplies>>

\* The covered part of the chunk is appended, and the chunk let go.
Copy(t) ==
    /\ task[t].st = "copy"
    /\ LET start == ChunkStart(task[t].index)
           from == IF task[t].offset > start THEN task[t].offset - start ELSE 0
           to == Smaller(EndOf(t) - start, ChunkSize(task[t].index))
           cells == [i \in 1..(to - from) |-> IF objs[task[t].obj].good THEN start + from + i ELSE 0]
       IN Become(t, [task[t] EXCEPT !.st = "loop", !.index = @ + 1, !.obj = 0, !.out = @ \o cells])
    /\ charged' = charged - Freed(task[t].obj)
    /\ objs' = LetGo(task[t].obj)
    /\ UNCHANGED Elsewhere

DropRange(t) ==
    /\ task[t].st \in {"done", "limit", "lease", "invalid"}
    /\ Become(t, Asleep)
    /\ charged' = charged - task[t].held
    /\ UNCHANGED <<objs, Elsewhere>>

EndLease ==
    /\ retained /\ retained' = FALSE
    /\ UNCHANGED <<opening, task, objs, chunkLru, leafLru, charged, ranges, badReplies>>

InRange(t) == task[t].st \notin {"idle", "done", "limit", "lease", "invalid"}
RangeStep(t) ==
    \/ Admit(t) \/ Clear(t) \/ Readmit(t) \/ NextChunk(t) \/ LookChunk(t) \/ LookLeaf(t)
    \/ LeafAnswers(t) \/ AskChunk(t) \/ ChunkAnswers(t) \/ Insert(t) \/ Copy(t)
OwnedNext ==
    \/ AskMap \/ MapAnswers \/ EndLease
    \/ \E t \in RangeTasks : BeginRange(t) \/ RangeStep(t) \/ DropRange(t)
\* A range that can go on is not left alone for ever, though no range is favoured.
OwnedFairness == WF_ownedVars(\E t \in RangeTasks : RangeStep(t))
OwnedSpec == OwnedInit /\ [][OwnedNext]_ownedVars /\ OwnedFairness

-----------------------------------------------------------------------------
(* Properties.                                                             *)

OwnedTypeOK ==
    /\ opening \in {"no", "asked", "yes", "refused"} /\ retained \in BOOLEAN
    /\ Len(leafLru) <= CACHED_LEAVES /\ Len(chunkLru) <= CACHED_CHUNKS
    /\ \A t \in RangeTasks : task[t].obj \in Pool \cup {0}
    /\ charged \in 0..OUTPUT_CREDITS

\* A range that is returned consists of the cells of the fixed file, clipped at its end.
OwnedTrue ==
    \A t \in RangeTasks : task[t].st = "done" =>
        task[t].out = [i \in 1..task[t].want |-> task[t].offset + i]

\* Every credit in use belongs to a reply, a fetch or a living chunk, and a chunk lives exactly as
\* long as the cache or a task holds it.
OwnedLedger ==
    /\ charged = MapThenSumSet(LAMBDA t : task[t].held + task[t].paid, RangeTasks)
                 + MapThenSumSet(LAMBDA o : IF objs[o].refs > 0 THEN ChunkSize(objs[o].index) ELSE 0, Pool)
    /\ \A o \in Pool : objs[o].refs = Cardinality({t \in RangeTasks : task[t].obj = o})
                                      + Cardinality({k \in DOMAIN chunkLru : chunkLru[k] = o})

\* No chunk is cached twice, although two tasks may fetch it at the same time.
CachedOnce ==
    \A j, k \in DOMAIN chunkLru : objs[chunkLru[j]].index = objs[chunkLru[k]].index => j = k

\* A read that nobody runs beside fails for want of credits only if its reply and one chunk do not
\* fit into the budget: what earlier reads left in the cache never stands in its way.  This is
\* about one file: admit_output empties the cache of its own file only, and another open file of
\* the scope may keep the rest of a shared budget.
AloneServed ==
    \A t \in RangeTasks : task[t].st = "limit" /\ task[t].alone =>
        task[t].want > RANGE_LIMIT \/ task[t].want + CHUNK_CELLS > OUTPUT_CREDITS

\* A range is handed out, and a chunk cached, only under a living lease.
RangesNeedLease ==
    [][~retained => /\ \A t \in RangeTasks : task[t].st # "done" => task'[t].st # "done"
                    /\ Len(chunkLru') <= Len(chunkLru)]_ownedVars

\* A range is neither handed out nor failed.
RangeBusy == \E t \in RangeTasks : InRange(t)

\* A range of a large file is true and handed out under the lease, a lone read is not starved
\* by the cache, chunks are cached once, and every credit has its owner (owned_range.rs read,
\* fetch and insert).
RangesSound ==
    /\ []OwnedTrue /\ []AloneServed /\ RangesNeedLease
    /\ []CachedOnce /\ []OwnedLedger
=============================================================================
