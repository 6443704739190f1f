------------------------------ MODULE CasRange ------------------------------
(***************************************************************************)
(* Reading the local content store: whole small objects (cas_content.rs),  *)
(* ranges of large files (cas_range.rs) and the facts about chunks that    *)
(* make a second range cheap (cas_index.rs).                               *)
(*                                                                         *)
(* A file is a sequence of cells; cell i of the true content is i.  The    *)
(* cas may be damaged while it is read: a cell is overwritten (0), the    *)
(* file is cut, grows or disappears.  A digest is the sequence it was      *)
(* computed from, so two digests are equal when the contents are.          *)
(***************************************************************************)
EXTENDS Naturals, FiniteSets, Sequences, SequencesExt, FiniteSetsExt

CONSTANTS
    CasReaders,      \* the threads that read
    CasFiles,        \* the files named by the fixed view
    SizeOf,          \* per file, its size in cells
    ReadsOf,         \* per reader, its possible reads: [mode, file, offset, len]
    CHUNK_SIZE, MAX_CHUNKS, OBJECT_CAP, MAX_FILE_SIZE, MAX_BUFFERED, READ_SCRATCH,
    CACHE_ENTRIES, INDEX_OVERHEAD, INDEX_LIMIT,
    OUTPUT_LIMIT, CONSTRUCTION_LIMIT,  \* INDEX_LIMIT excludes the fixed slots of the cache
    MaxReads,        \* bound on the reads of a behaviour
    MaxFaults        \* bound on damages of the cas and failed reads

ASSUME CasRangeAssumption ==
    /\ {CHUNK_SIZE, MAX_CHUNKS, CACHE_ENTRIES, READ_SCRATCH} \subseteq Nat \ {0}
    /\ {OBJECT_CAP, MAX_FILE_SIZE, MAX_BUFFERED, INDEX_OVERHEAD, INDEX_LIMIT, OUTPUT_LIMIT, CONSTRUCTION_LIMIT,
        MaxReads, MaxFaults} \subseteq Nat
    /\ SizeOf \in [CasFiles -> Nat]

VARIABLES
    cas,      \* per file, its cells on the cas
    present,   \* the files that have a name
    rd,        \* per reader, its read
    facts,     \* the facts ever published: [file, chunks, refs]
    entries,   \* the cached facts, the least recently used first
    owned,     \* bytes of index charged to the process
    credit,    \* cells charged: [output, construction]
    reads, faults
casVars == <<cas, present, rd, facts, entries, owned, credit, reads, faults>>

Cells(f) == [i \in 1..SizeOf[f] |-> i]
NoRead == [mode |-> "none", file |-> "none", offset |-> 0, len |-> 0]
NotReading == [st |-> "idle", read |-> NoRead, end |-> 0, got |-> <<>>, out |-> <<>>, chunks |-> <<>>,
         part |-> <<>>, fact |-> 0, reserved |-> FALSE, next |-> 0]

CasInit ==
    /\ cas = [f \in CasFiles |-> Cells(f)]
    /\ present = CasFiles
    /\ rd = [r \in CasReaders |-> NotReading]
    /\ facts = <<>> /\ entries = <<>>
    /\ owned = 0
    /\ credit = [output |-> 0, construction |-> 0]
    /\ reads = 0 /\ faults = 0

-----------------------------------------------------------------------------
(* Geometry and accounting.                                                *)

FileOf(r) == rd[r].read.file
Total(r) == SizeOf[FileOf(r)]
Sub(a, b) == IF a > b THEN a - b ELSE 0
Least(a, b) == IF a < b THEN a ELSE b
NumChunks(f) == (SizeOf[f] + CHUNK_SIZE - 1) \div CHUNK_SIZE
ChunkCells(f, k) == SubSeq(Cells(f), k * CHUNK_SIZE + 1, Least((k + 1) * CHUNK_SIZE, SizeOf[f]))
ChunkLen(f, k) == Least(SizeOf[f] - k * CHUNK_SIZE, CHUNK_SIZE)
Wanted(read) == Least(read.len, Sub(SizeOf[read.file], read.offset))

NextPowerOfTwo(n) == CHOOSE p \in {2 ^ k : k \in 0..n} : p >= n /\ \A k \in 0..n : 2 ^ k >= n => p <= 2 ^ k
Charge(f) == NextPowerOfTwo(NumChunks(f)) + INDEX_OVERHEAD

\* The credits a read holds: its output until the reply is dropped, its scratch until it returns.
Admitted(read) == read.mode \in {"small", "range"}
OutputOf(read) == IF ~Admitted(read) THEN 0
                  ELSE IF read.mode = "small" THEN SizeOf[read.file] ELSE Wanted(read)
ScratchOf(read) == IF ~Admitted(read) THEN 0
                   ELSE IF read.mode = "small" THEN READ_SCRATCH
                   ELSE Least(SizeOf[read.file], CHUNK_SIZE)

\* Mutant: a dropped fact gives its charge back although others still hold it.
ReleasedEarly(id) == IF id = 0 THEN 0 ELSE Charge(facts[id].file)

\* What the last holder of a fact gives back.
Released(id) == IF id # 0 /\ facts[id].refs = 1 THEN Charge(facts[id].file) ELSE 0
Unref(id) == [k \in DOMAIN facts |-> IF k = id THEN [facts[k] EXCEPT !.refs = @ - 1] ELSE facts[k]]

Reservation(r) == IF rd[r].reserved THEN Charge(FileOf(r)) ELSE 0

\* Mutant: a read that finds nothing returns without its credits.
KeepsOutputMiss(st) == st \in {"done", "miss"}

KeepsOutput(st) == st = "done"

\* The call returns st; what it held is dropped.
Return(r, st) ==
    /\ rd' = [rd EXCEPT ![r] = [NotReading EXCEPT !.st = st, !.read = rd[r].read, !.out = rd[r].out]]
    /\ owned' = owned - Reservation(r) - Released(rd[r].fact)
    /\ facts' = Unref(rd[r].fact)
    /\ credit' = [output |-> credit.output - IF KeepsOutput(st) THEN 0 ELSE OutputOf(rd[r].read),
                  construction |-> credit.construction - ScratchOf(rd[r].read)]

Goto(r, new) == rd' = [rd EXCEPT ![r] = new]
Holding == <<facts, entries, owned, credit>>

-----------------------------------------------------------------------------
(* One read.                                                               *)

\* A whole read is of a small object, an admitted range of a file of the large-file profile.
TooLarge(read) ==
    CASE read.mode = "small" -> SizeOf[read.file] > OBJECT_CAP
      [] read.mode = "range" -> SizeOf[read.file] \notin (OBJECT_CAP + 1)..MAX_FILE_SIZE
                                \/ Wanted(read) > MAX_BUFFERED
      [] OTHER -> FALSE

\* Both allocations are admitted before the object is opened.
Begin(r) ==
    /\ rd[r].st = "idle" /\ reads < MaxReads
    /\ \E read \in ReadsOf[r] :
         LET output == credit.output + OutputOf(read)
             construction == credit.construction + ScratchOf(read)
             fits == output <= OUTPUT_LIMIT /\ construction <= CONSTRUCTION_LIMIT
         IN IF TooLarge(read) \/ ~fits
            THEN /\ Goto(r, [NotReading EXCEPT !.st = "limit"])
                 /\ UNCHANGED credit
            ELSE /\ Goto(r, [NotReading EXCEPT !.st = "open", !.read = read,
                                         !.end = read.offset + Wanted(read)])
                 /\ credit' = [output |-> output, construction |-> construction]
    /\ reads' = reads + 1
    /\ UNCHANGED <<cas, present, facts, entries, owned, faults>>

SameSize(r) == Len(cas[FileOf(r)]) = Total(r)

OpenCas(r) ==
    /\ rd[r].st = "open"
    /\ IF FileOf(r) \notin present THEN Return(r, "miss")
       ELSE IF ~SameSize(r) THEN Return(r, "mismatch")
       ELSE IF ~Admitted(rd[r].read) /\ Wanted(rd[r].read) > MAX_BUFFERED THEN Return(r, "limit")
       ELSE /\ Goto(r, [rd[r] EXCEPT !.st = IF rd[r].read.mode \in {"small", "strict"} THEN "scan"
                                            ELSE "lookup"])
            /\ UNCHANGED <<facts, owned, credit>>
    /\ UNCHANGED <<cas, present, entries, reads, faults>>

\* The cached facts about the reader's file.
Hits(r) == {id \in Range(entries) : facts[id].file = FileOf(r)}

\* A fact about the file is used; otherwise room for a new one is asked for.
Lookup(r) ==
    /\ rd[r].st = "lookup"
    /\ \/ Goto(r, [rd[r] EXCEPT !.st = "scan"]) /\ UNCHANGED <<facts, entries>>   \* no domain
       \/ /\ NumChunks(FileOf(r)) > MAX_CHUNKS
          /\ Goto(r, [rd[r] EXCEPT !.st = "scan"]) /\ UNCHANGED <<facts, entries>>
       \/ /\ NumChunks(FileOf(r)) <= MAX_CHUNKS
          /\ LET id == CHOOSE h \in Hits(r) : TRUE
             IN IF Hits(r) = {} THEN Goto(r, [rd[r] EXCEPT !.st = "reserve"]) /\ UNCHANGED <<facts, entries>>
                ELSE /\ Goto(r, [rd[r] EXCEPT !.st = "chunks", !.fact = id,
                                              !.next = rd[r].read.offset \div CHUNK_SIZE])
                     /\ facts' = [facts EXCEPT ![id].refs = @ + 1]
                     /\ entries' = Append(SelectSeq(entries, LAMBDA e : e # id), id)
    /\ UNCHANGED <<cas, present, owned, credit, reads, faults>>

\* Cached facts are dropped, the oldest first, until the charge fits or none is left.
OwnedAfter(k) == owned - MapThenSumSet(LAMBDA j : Released(entries[j]), 1..k)
Evicted(k) == [id \in DOMAIN facts |->
                 IF id \in {entries[j] : j \in 1..k} THEN [facts[id] EXCEPT !.refs = @ - 1] ELSE facts[id]]

\* Mutant: the new charge is not counted.
RoomNow(k, need) == OwnedAfter(k) <= INDEX_LIMIT

Room(k, need) == OwnedAfter(k) + need <= INDEX_LIMIT

ReserveIndex(r) ==
    /\ rd[r].st = "reserve"
    /\ LET need == Charge(FileOf(r))
           enough == {k \in 0..Len(entries) : Room(k, need)}
           k == IF enough = {} THEN Len(entries) ELSE Min(enough)
       IN /\ entries' = SubSeq(entries, k + 1, Len(entries))
          /\ facts' = Evicted(k)
          /\ owned' = OwnedAfter(k) + IF enough = {} THEN 0 ELSE need
          /\ Goto(r, [rd[r] EXCEPT !.st = "scan", !.reserved = enough # {}])
    /\ UNCHANGED <<cas, present, credit, reads, faults>>

\* The cells of buf, which starts at cell start, that the caller asked for.
Intersection(r, buf, start) ==
    LET from == IF start > rd[r].read.offset THEN start ELSE rd[r].read.offset
        to == Least(start + Len(buf), rd[r].end)
    IN IF from < to THEN SubSeq(buf, from - start + 1, to - start) ELSE <<>>

\* Chunk digests are completed at every boundary, however short the reads are.
Hashed(acc, cell) ==
    IF Len(acc.part) + 1 = CHUNK_SIZE
    THEN [chunks |-> Append(acc.chunks, Append(acc.part, cell)), part |-> <<>>]
    ELSE [acc EXCEPT !.part = Append(@, cell)]

\* What a read of at most n cells at position pos may return.
ReadAt(r, pos, n) ==
    LET left == Sub(Len(cas[FileOf(r)]), pos)
    IN {SubSeq(cas[FileOf(r)], pos + 1, pos + k) :
          k \in IF left = 0 THEN {0} ELSE 1..Least(n, left)}

\* Mutant: the size is compared but not the digest of the whole.
WholeSize(r) == Len(rd[r].got) = Total(r) /\ Len(rd[r].out) = rd[r].end - rd[r].read.offset

Whole(r) ==
    /\ rd[r].got = Cells(FileOf(r))
    /\ Len(rd[r].out) = rd[r].end - rd[r].read.offset

\* One read of the scan; it asks for one cell more than the file has.
ScanRead(r) ==
    /\ rd[r].st = "scan"
    /\ \E buf \in ReadAt(r, Len(rd[r].got), Least(READ_SCRATCH, Total(r) + 1 - Len(rd[r].got))) :
         LET pos == Len(rd[r].got)
             acc == FoldLeft(Hashed, [chunks |-> rd[r].chunks, part |-> rd[r].part], buf)
             tail == IF rd[r].part = <<>> THEN <<>> ELSE <<rd[r].part>>
         IN IF buf # <<>> /\ pos + Len(buf) > Total(r) THEN Return(r, "mismatch")
            ELSE IF buf # <<>>
            THEN /\ Goto(r, [rd[r] EXCEPT !.got = @ \o buf, !.out = @ \o Intersection(r, buf, pos),
                               !.chunks = IF rd[r].reserved THEN acc.chunks ELSE <<>>,
                               !.part = IF rd[r].reserved THEN acc.part ELSE <<>>])
                 /\ UNCHANGED <<facts, owned, credit>>
            ELSE IF ~Whole(r) THEN Return(r, "mismatch")
            ELSE IF rd[r].read.mode = "small" THEN Return(r, "done")
            ELSE /\ Goto(r, [rd[r] EXCEPT !.st = "meta", !.got = <<>>, !.part = <<>>,
                                          !.chunks = @ \o tail])
                 /\ UNCHANGED <<facts, owned, credit>>
    /\ UNCHANGED <<cas, present, entries, reads, faults>>

\* check_metadata, once the last cell has been read.
CheckMeta(r) ==
    /\ rd[r].st = "meta"
    /\ IF ~SameSize(r) THEN Return(r, "mismatch")
       ELSE IF ~rd[r].reserved THEN Return(r, "done")
       ELSE IF Len(rd[r].chunks) # NumChunks(FileOf(r)) THEN Return(r, "mismatch")
       ELSE Goto(r, [rd[r] EXCEPT !.st = "publish"]) /\ UNCHANGED <<facts, owned, credit>>
    /\ UNCHANGED <<cas, present, entries, reads, faults>>

\* The fact takes the reservation over, unless another builder was faster.
PublishFact(r) ==
    /\ rd[r].st = "publish"
    /\ IF Hits(r) # {}
       THEN Return(r, "done") /\ UNCHANGED entries
       ELSE LET full == Len(entries) >= CACHE_ENTRIES
                kept == IF full THEN Tail(entries) ELSE entries
                gone == IF full THEN Head(entries) ELSE 0
            IN /\ entries' = Append(kept, Len(facts) + 1)
               /\ facts' = Append(Unref(gone), [file |-> FileOf(r), chunks |-> rd[r].chunks, refs |-> 1])
               /\ owned' = owned - Released(gone)
               /\ Goto(r, [NotReading EXCEPT !.st = "done", !.read = rd[r].read, !.out = rd[r].out])
               /\ credit' = [credit EXCEPT !.construction = @ - ScratchOf(rd[r].read)]
    /\ UNCHANGED <<cas, present, reads, faults>>

-----------------------------------------------------------------------------
(* A warm read proves the covering chunks only.                            *)

\* Mutant: the chunk of the end is taken for covered.
CoveredToEnd(r) == rd[r].next >= rd[r].end \div CHUNK_SIZE

Covered(r) == rd[r].end <= rd[r].read.offset \/ rd[r].next > (rd[r].end - 1) \div CHUNK_SIZE

\* Mutant: a read that returns nothing is tried again.
TruncatedRetry(r) == Goto(r, rd[r]) /\ UNCHANGED <<facts, owned, credit>>

Truncated(r) == Return(r, "mismatch")

ChunkRead(r) ==
    /\ rd[r].st = "chunks" /\ ~Covered(r)
    /\ Len(rd[r].got) < ChunkLen(FileOf(r), rd[r].next)
    /\ LET filled == Len(rd[r].got)
       IN \E buf \in ReadAt(r, rd[r].next * CHUNK_SIZE + filled, ChunkLen(FileOf(r), rd[r].next) - filled) :
            IF buf = <<>> THEN Truncated(r)
            ELSE Goto(r, [rd[r] EXCEPT !.got = @ \o buf]) /\ UNCHANGED <<facts, owned, credit>>
    /\ UNCHANGED <<cas, present, entries, reads, faults>>

\* Mutant: the chunk is only measured.
ProvenLength(r) == Len(rd[r].got) = Len(facts[rd[r].fact].chunks[rd[r].next + 1])

Proven(r) == rd[r].got = facts[rd[r].fact].chunks[rd[r].next + 1]

ChunkProve(r) ==
    /\ rd[r].st = "chunks" /\ ~Covered(r)
    /\ Len(rd[r].got) = ChunkLen(FileOf(r), rd[r].next)
    /\ IF ~Proven(r) THEN Return(r, "mismatch")
       ELSE /\ Goto(r, [rd[r] EXCEPT !.got = <<>>, !.next = @ + 1,
                          !.out = @ \o Intersection(r, rd[r].got, rd[r].next * CHUNK_SIZE)])
            /\ UNCHANGED <<facts, owned, credit>>
    /\ UNCHANGED <<cas, present, entries, reads, faults>>

ChunkEnd(r) ==
    /\ rd[r].st = "chunks" /\ Covered(r)
    /\ Return(r, IF Len(rd[r].out) = rd[r].end - rd[r].read.offset /\ SameSize(r) THEN "done"
                 ELSE "mismatch")
    /\ UNCHANGED <<cas, present, entries, reads, faults>>

CasRunning(r) == rd[r].st \in {"open", "lookup", "reserve", "scan", "meta", "publish", "chunks"}

CasStep(r) ==
    \/ OpenCas(r) \/ Lookup(r) \/ ReserveIndex(r) \/ ScanRead(r) \/ CheckMeta(r) \/ PublishFact(r)
    \/ ChunkRead(r) \/ ChunkProve(r) \/ ChunkEnd(r)

\* The reply is dropped, and with it the credit of its output.
DropBytes(r) ==
    /\ rd[r].st \in {"done", "miss", "mismatch", "limit", "io"}
    /\ Goto(r, NotReading)
    /\ credit' = [credit EXCEPT !.output = @ - IF rd[r].st = "done" THEN OutputOf(rd[r].read) ELSE 0]
    /\ UNCHANGED <<cas, present, facts, entries, owned, reads, faults>>

\* Every other error of the file system ends the read.
ReadFails(r) ==
    /\ rd[r].st \in {"open", "scan", "meta", "chunks"} /\ faults < MaxFaults
    /\ Return(r, "io")
    /\ faults' = faults + 1
    /\ UNCHANGED <<cas, present, entries, reads>>

\* The cas is damaged behind the readers; only a file that is being read is worth damaging, since
\* nothing looks at the others.
DamageDisk ==
    /\ faults < MaxFaults /\ faults' = faults + 1
    /\ \E f \in {FileOf(r) : r \in {q \in CasReaders : CasRunning(q)}} :
         \/ /\ \E i \in DOMAIN cas[f] : cas' = [cas EXCEPT ![f][i] = 0]
            /\ UNCHANGED present
         \/ /\ cas[f] # <<>>
            /\ cas' = [cas EXCEPT ![f] = Front(@)] /\ UNCHANGED present
         \/ /\ Len(cas[f]) <= SizeOf[f]
            /\ cas' = [cas EXCEPT ![f] = Append(@, 0)] /\ UNCHANGED present
         \/ f \in present /\ present' = present \ {f} /\ UNCHANGED cas
    /\ UNCHANGED <<rd, facts, entries, owned, credit, reads>>

CasNext == DamageDisk \/ \E r \in CasReaders : Begin(r) \/ CasStep(r) \/ ReadFails(r) \/ DropBytes(r)
\* A read that can go on is not left alone for ever, though no read is favoured.
CasFairness == WF_casVars(\E r \in CasReaders : CasStep(r))
CasSpec == CasInit /\ [][CasNext]_casVars /\ CasFairness

-----------------------------------------------------------------------------
(* Properties.                                                             *)

CasRangeTypeOK ==
    /\ present \subseteq CasFiles
    /\ \A r \in CasReaders : rd[r].fact \in 0..Len(facts) /\ rd[r].next \in Nat
    /\ Range(entries) \subseteq DOMAIN facts /\ Len(entries) <= CACHE_ENTRIES
    /\ owned \in 0..INDEX_LIMIT
    /\ credit.output \in 0..OUTPUT_LIMIT /\ credit.construction \in 0..CONSTRUCTION_LIMIT

\* Whatever happens to the cas during the read, the bytes that are returned are those of the
\* fixed file, clipped at its end.
RangeTrue ==
    \A r \in CasReaders : rd[r].st = "done" =>
        LET read == rd[r].read
        IN rd[r].out = SubSeq(Cells(read.file), read.offset + 1, read.offset + Wanted(read))

\* A fact is the true list of chunk digests of its file: a scan of a damaged file leaves none.
FactsTrue ==
    \A id \in DOMAIN facts :
        facts[id].chunks = [k \in 1..NumChunks(facts[id].file) |-> ChunkCells(facts[id].file, k - 1)]

\* A read reports a miss or a mismatch only when the file is really gone or damaged.
IntactServed ==
    \A r \in CasReaders :
        /\ rd[r].st = "mismatch" => cas[FileOf(r)] # Cells(FileOf(r))
        /\ rd[r].st = "miss" => FileOf(r) \notin present

\* The charge of the index is the charge of the facts that are alive: cached, held by a reader
\* after their eviction, or being built.
LedgerExact ==
    /\ owned = MapThenSumSet(LAMBDA id : IF facts[id].refs > 0 THEN Charge(facts[id].file) ELSE 0, DOMAIN facts)
               + MapThenSumSet(Reservation, CasReaders)
    /\ \A id \in DOMAIN facts :
         facts[id].refs = Cardinality({r \in CasReaders : rd[r].fact = id})
                          + (IF id \in Range(entries) THEN 1 ELSE 0)

\* The credits in use are those of running reads and of replies still held.
CreditsExact ==
    /\ credit.output = MapThenSumSet(LAMBDA r : IF CasRunning(r) \/ rd[r].st = "done"
                                               THEN OutputOf(rd[r].read) ELSE 0, CasReaders)
    /\ credit.construction = MapThenSumSet(LAMBDA r : IF CasRunning(r) THEN ScratchOf(rd[r].read) ELSE 0,
                                           CasReaders)

\* A read has not ended.
CasBusy == \E r \in CasReaders : CasRunning(r)

\* A read of the local store returns the bytes of the fixed file or reports a real miss or
\* mismatch, from facts that are true (cas_index.rs, cas_range.rs).
CasReadsTrue == RangeTrue /\ FactsTrue /\ IntactServed

\* Every charge and credit of the local store is that of something alive (cas_index.rs facts,
\* cas_range.rs buffers).
CasCharges == LedgerExact /\ CreditsExact
=============================================================================
