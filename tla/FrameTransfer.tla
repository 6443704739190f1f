--------------------------- MODULE FrameTransfer ---------------------------
(***************************************************************************)
(* Bringing content over the wire (owned_transport.rs, the batches of      *)
(* frames.rs, read_owned_file of reader.rs, read_content_batch of          *)
(* owned_reader.rs).                                                       *)
(*                                                                         *)
(* A transfer asks for its units - the chunks of one file, or a batch of   *)
(* small objects - in several requests.  The answer to a request is a      *)
(* stream of frames that a service, a proxy or a cut connection may        *)
(* truncate, repeat, reorder or extend.  The streaming reader consumes it  *)
(* frame by frame into the output buffer; the collecting reader of         *)
(* frames.rs takes the whole stream at once.  Nothing is published before  *)
(* the last request has ended, and then only what hashes to the digest     *)
(* the fixed view names.                                                   *)
(***************************************************************************)
EXTENDS Integers, FiniteSets, Sequences, SequencesExt

CONSTANTS
    Counts,           \* how many units a transfer may have
    WORD,             \* the width of the coverage word, in bits
    item_limit,       \* request_item_limit
    Limits,           \* what a service may allow: the items a serialized request can
                      \* hold (body), the logical bytes of one batch (bytes)
    LEAF,             \* hashes in a leaf page of a chunk map
    ItemBytes,        \* the encoded sizes an item may have, for request_batches
    OVERHEAD, LIMIT   \* of a request envelope, and of a whole request

ASSUME TransferAssumption ==
    /\ WORD \in Nat \ {0} /\ Counts \subseteq 1..WORD
    /\ item_limit \in Nat \ {0} /\ Limits \subseteq [body : Nat, bytes : Nat] /\ LEAF \in Nat \ {0}
    /\ ItemBytes \subseteq Nat \ {0} /\ OVERHEAD \in Nat /\ LIMIT \in Nat

VARIABLES
    xfer,         \* the transfer: its mode, window, counters, coverage and output
    sent,         \* the frames of the current response, all that were sent
    asked,        \* how far the windows that ended well reach, without gap or overlap
    plan,         \* request_batches: the items and the batches made of them
    honest,       \* no fault so far: what was sent is what was asked for
    lease         \* the lease holds
transferVars == <<xfer, sent, asked, plan, honest, lease>>

Modes == {"chunks", "objects", "raw"}

\* A unit has two bytes, the last of a file one.
ChunkSize == 2
Length(u, n) == IF u = n THEN 1 ELSE ChunkSize
Bytes(from, to, n) == FoldLeft(LAMBDA s, u : s + Length(u, n), 0, [k \in 1..(to - from) |-> from + k])

Settled == [at |-> "idle", mode |-> "none", count |-> 0, limit |-> [body |-> 0, bytes |-> 0],
            hashes |-> 0, start |-> 0, end |-> 0, units |-> 0, logical |-> 0, frames |-> 0, coverage |-> 0, out |-> <<>>]

TransferInit ==
    /\ xfer = Settled
    /\ sent = <<>> /\ asked = 0
    /\ plan = [items |-> <<>>, batches |-> <<>>]
    /\ honest = TRUE
    /\ lease = TRUE

Failed == [Settled EXCEPT !.at = "failed", !.mode = xfer.mode, !.count = xfer.count,
                             !.limit = xfer.limit]

-----------------------------------------------------------------------------
(* A transfer begins: the file is a member of the fixed root, its output   *)
(* is admitted, and a chunked file has its map and leaf pages proved.      *)

StartTransfer(mode, n, limit) ==
    /\ xfer.at = "idle"
    /\ xfer' = [Settled EXCEPT !.at = IF ~lease THEN "failed"
                                      ELSE IF mode = "chunks" THEN "map" ELSE "ask",
                               !.mode = mode, !.count = n, !.limit = limit,
                               !.out = [u \in 1..n |-> "none"]]
    /\ UNCHANGED <<sent, asked, plan, honest, lease>>

\* The chunk map: it names the content and the size of the view, its fields follow
\* from them, and it fits the bounded output.
ChunkMap ==
    /\ xfer.at = "map"
    /\ \/ /\ lease
          /\ xfer' = [xfer EXCEPT !.at = "leaf"] /\ UNCHANGED honest
       \/ xfer' = Failed /\ honest' = FALSE
       \/ ~lease /\ xfer' = Failed /\ UNCHANGED honest
    /\ UNCHANGED <<sent, asked, plan, lease>>

\* How many hashes the next leaf page must have.
ExpectedCount == IF xfer.count - xfer.hashes < LEAF THEN xfer.count - xfer.hashes ELSE LEAF

\* One leaf page, with its proof to the root of the map; then the requests.
ChunkMapPage ==
    /\ xfer.at = "leaf"
    /\ \/ /\ lease
          /\ xfer' = [xfer EXCEPT !.hashes = @ + ExpectedCount,
                                  !.at = IF xfer.hashes + ExpectedCount = xfer.count
                                         THEN "ask" ELSE "leaf"]
          /\ UNCHANGED honest
       \/ xfer' = Failed /\ honest' = FALSE
       \/ ~lease /\ xfer' = Failed /\ UNCHANGED honest
    /\ UNCHANGED <<sent, asked, plan, lease>>

-----------------------------------------------------------------------------
(* The requests.                                                           *)

\* The next window before its body is known: within the item limit, and within the byte
\* limit of a batch by whole chunks, or by the sizes of the objects; one unit at least.
Window ==
    LET n == xfer.count - xfer.start
        k == IF n < item_limit THEN n ELSE item_limit
        most == xfer.limit.bytes \div ChunkSize
        sum(e) == Bytes(xfer.start, xfer.start + e, xfer.count)
        fit == {e \in 1..k : e = 1 \/ sum(e) <= xfer.limit.bytes}
    IN CASE xfer.mode = "raw" -> xfer.count
         [] xfer.mode = "chunks" -> IF most < 1 THEN 1 ELSE IF most < k THEN most ELSE k
         [] OTHER -> CHOOSE e \in fit : \A d \in fit : d <= e

\* Mutant: halving goes on below one item.
HalvedToNothing(k, body) ==
    LET f[i \in Nat] == IF i <= body THEN i ELSE f[i \div 2] IN f[k]

\* The window is halved until its body fits; a single item is not halved.
Fitted(k, body) ==
    LET f[i \in Nat] == IF i <= body \/ i <= 1 THEN i ELSE f[i \div 2] IN f[k]

\* Mutant: the lease is checked when the transfer begins, not before each request.
AskUnchecked(start) == TRUE

MayAsk(start) == lease

\* One request: the next window, if its body can be made and one batch may have its
\* bytes.  A single item that is too large, as a request or as an answer, is an error.
Ask ==
    LET most == IF xfer.mode = "raw" THEN Window ELSE Fitted(Window, xfer.limit.body)
        allowed == \/ xfer.mode = "raw"
                   \/ /\ most <= xfer.limit.body
                      /\ Bytes(xfer.start, xfer.start + most, xfer.count) <= xfer.limit.bytes
    IN
    /\ xfer.at = "ask"
    /\ xfer' = IF MayAsk(xfer.start) /\ allowed
               THEN [xfer EXCEPT !.at = "stream", !.end = xfer.start + most,
                                 !.units = 0, !.logical = 0, !.frames = 0]
               ELSE Failed
    /\ sent' = <<>>
    /\ UNCHANGED <<asked, plan, honest, lease>>

\* The width of the window, and what a response may hold at most.
Items == xfer.end - xfer.start
LogicalMax == Bytes(xfer.start, xfer.end, xfer.count)

-----------------------------------------------------------------------------
(* External: the frames of a response.                                     *)

Data(u, good) == [k |-> "data", inSeq |-> TRUE, id |-> u, good |-> good]
End(units, bytes, sha) == [k |-> "end", inSeq |-> TRUE, units |-> units, bytes |-> bytes, sha |-> sha]

DataIn(stream) == SelectSeq(stream, LAMBDA f : f.k = "data")

\* What an honest service sends next.
HonestFrame ==
    LET k == Len(sent) IN
    IF k < Items THEN Data(xfer.start + k + 1, TRUE) ELSE End(Items, LogicalMax, TRUE)

Frames ==
    LET units == DataIn(sent)
        bytes == FoldLeft(LAMBDA s, f : s + Length(f.id, xfer.count), 0, units)
    IN {Data(u, TRUE) : u \in 1..(xfer.count + 1)}
       \cup {Data(IF xfer.start + Len(sent) < xfer.end THEN xfer.start + Len(sent) + 1 ELSE xfer.end, FALSE)}
       \cup {End(Len(units), bytes, TRUE), End(Items, LogicalMax, TRUE), End(Items, LogicalMax, FALSE)}
       \cup {[HonestFrame EXCEPT !.inSeq = FALSE], [k |-> "error", inSeq |-> TRUE]}

-----------------------------------------------------------------------------
(* consume_frames, and the sinks of the two readers.                       *)

Bit(u) == 2^(u - 1)
Covered(u) == (xfer.coverage \div Bit(u)) % 2 = 1

\* The header of a frame continues the stream, and the response stays within the
\* budget of its request.
HeaderOK(f) == f.inSeq /\ xfer.frames + 1 <= Items + 2

\* Mutant: a sink takes every unit of the file, requested or not.
AnyUnit(f) == f.good /\ f.id \in 1..xfer.count /\ ~Covered(f.id)

\* A sink takes a unit of the window, once, with the bytes its digest names.
SinkOK(f) == f.good /\ f.id \in (xfer.start + 1)..xfer.end /\ ~Covered(f.id)

\* A raw body is appended as it comes, up to the expected size.
RawOK(f) == Len(DataIn(sent)) < xfer.count

Written(f) ==
    LET at == IF xfer.mode = "raw" THEN Len(DataIn(sent)) + 1 ELSE f.id IN
    [xfer EXCEPT !.frames = @ + 1,
                 !.units = @ + 1,
                 !.logical = @ + Length(at, xfer.count),
                 !.coverage = IF xfer.mode = "raw" THEN @ ELSE (@ + Bit(f.id)) % 2^WORD,
                 !.out[at] = IF f.good /\ f.id = at THEN "good" ELSE "bad"]

EndOK(f) == f.units = Items /\ xfer.units = Items /\ f.bytes = xfer.logical /\ f.sha

\* Mutant: bytes after END are never looked at.
AfterEndIgnored(f) == TRUE

AfterEnd(f) == FALSE

\* One frame, or one piece of a raw body.
Consume(f) ==
    CASE xfer.at = "refused" -> xfer
      [] xfer.at = "ended" -> IF AfterEnd(f) THEN xfer ELSE [xfer EXCEPT !.at = "refused"]
      [] xfer.mode = "raw" /\ xfer.at = "stream" ->
            IF f.k = "data" /\ RawOK(f) THEN Written(f) ELSE [xfer EXCEPT !.at = "refused"]
      [] OTHER ->
            IF ~HeaderOK(f) \/ f.k = "error" THEN [xfer EXCEPT !.at = "refused"]
            ELSE IF f.k = "end"
            THEN [xfer EXCEPT !.at = IF EndOK(f) THEN "ended" ELSE "refused"]
            ELSE IF SinkOK(f) /\ xfer.units < Items
                    /\ xfer.logical + Length(f.id, xfer.count) <= LogicalMax
            THEN Written(f) ELSE [xfer EXCEPT !.at = "refused"]

\* A frame arrives.  What follows a refused frame is sent, but not read.
ReceiveFrame ==
    /\ xfer.at \in {"stream", "ended", "refused"}
    /\ Len(sent) < Items + 2
    /\ \E f \in Frames :
          /\ xfer.mode = "raw" => f.k = "data" /\ f.inSeq
          /\ xfer' = Consume(f)
          /\ sent' = Append(sent, f)
          /\ honest' = (honest /\ f = HonestFrame /\ xfer.at = "stream")
    /\ UNCHANGED <<asked, plan, lease>>

\* The response ends.  Only END and then EOF, or a raw body of the exact size, is a
\* success; the next window begins where this one ended.
Eof ==
    LET whole == xfer.mode = "raw" /\ xfer.at = "stream" /\ Len(sent) = xfer.count
        ok == xfer.at = "ended" \/ whole
    IN
    /\ xfer.at \in {"stream", "ended", "refused"}
    /\ xfer' = IF ~ok THEN Failed
               ELSE [xfer EXCEPT !.start = xfer.end,
                                 !.at = IF xfer.end < xfer.count THEN "ask" ELSE "publish"]
    /\ asked' = IF ~ok THEN asked ELSE IF asked = xfer.start THEN xfer.end ELSE -1
    /\ honest' = (honest /\ ok)
    /\ UNCHANGED <<sent, plan, lease>>

-----------------------------------------------------------------------------
(* Publication.                                                            *)

\* Mutant: the mask of a full word is computed like any other.
CoverageShifted(n) == ((2^n) % 2^WORD) - 1

\* The word with the n lowest bits set; the shift by the whole width is a case of its own.
ExpectedCoverage(n) == IF n = WORD THEN 2^WORD - 1 ELSE ((2^n) % 2^WORD) - 1

\* Mutant: the digest of the whole is not computed.
DigestSkipped(out) == TRUE

\* The whole output hashes to the digest of the view.
DigestOK(out) == \A u \in DOMAIN out : out[u] = "good"

PublishTransfer ==
    /\ xfer.at = "publish"
    /\ xfer' = IF \/ xfer.mode # "raw" /\ xfer.coverage # ExpectedCoverage(xfer.count)
                  \/ ~DigestOK(xfer.out)
               THEN Failed ELSE [xfer EXCEPT !.at = "done"]
    /\ UNCHANGED <<sent, asked, plan, honest, lease>>

\* The caller lets the result go and another transfer may begin.
Settle ==
    /\ xfer.at \in {"done", "failed"}
    /\ xfer' = Settled /\ sent' = <<>> /\ asked' = 0 /\ honest' = TRUE
    /\ UNCHANGED <<plan, lease>>

LeaseEnds ==
    /\ lease /\ lease' = FALSE
    /\ UNCHANGED <<xfer, sent, asked, plan, honest>>

-----------------------------------------------------------------------------
(* request_batches: the same split for the collecting reader, by bytes.    *)

EncodedBytes(batch) == FoldLeft(LAMBDA s, b : s + b, OVERHEAD, batch) + (Len(batch) - 1)

\* Mutant: the comma before an item is counted in the size, but not in the test.
AddItemNoComma(acc, size) ==
    LET full == acc.bytes + size > LIMIT \/ Len(acc.open) >= item_limit IN
    IF acc.open # <<>> /\ full
    THEN [done |-> Append(acc.done, acc.open), open |-> <<size>>, bytes |-> OVERHEAD + size]
    ELSE [done |-> acc.done, open |-> Append(acc.open, size),
          bytes |-> acc.bytes + size + (IF acc.open = <<>> THEN 0 ELSE 1)]

AddItem(acc, size) ==
    LET comma == IF acc.open = <<>> THEN 0 ELSE 1
        full == acc.bytes + comma + size > LIMIT \/ Len(acc.open) >= item_limit
    IN
    IF acc.open # <<>> /\ full
    THEN [done |-> Append(acc.done, acc.open), open |-> <<size>>, bytes |-> OVERHEAD + size]
    ELSE [done |-> acc.done, open |-> Append(acc.open, size), bytes |-> acc.bytes + comma + size]

RequestBatches(items) ==
    LET last == FoldLeft(AddItem, [done |-> <<>>, open |-> <<>>, bytes |-> OVERHEAD], items)
    IN IF \E k \in DOMAIN items : OVERHEAD + items[k] > LIMIT THEN <<>>
       ELSE IF last.open = <<>> THEN last.done ELSE Append(last.done, last.open)

PlanBatches ==
    /\ xfer.at = "idle" /\ plan.items = <<>>
    /\ \E n \in 1..4 : \E items \in [1..n -> ItemBytes] :
          plan' = [items |-> items, batches |-> RequestBatches(items)]
    /\ UNCHANGED <<xfer, sent, asked, honest, lease>>

-----------------------------------------------------------------------------
Client == ChunkMap \/ ChunkMapPage \/ Ask \/ Eof \/ PublishTransfer

TransferNext ==
    \/ plan.items = <<>> /\ \E m \in Modes, n \in Counts, l \in Limits : StartTransfer(m, n, l)
    \/ Client \/ ReceiveFrame \/ Settle \/ LeaseEnds \/ PlanBatches

\* Every response ends, at the latest by the timeout of the client.
TransferFairness == WF_transferVars(Client)

TransferSpec == TransferInit /\ [][TransferNext]_transferVars /\ TransferFairness

-----------------------------------------------------------------------------
(* The collecting reader (response_frames, check_end, objects_batch,       *)
(* chunks_batch): the whole stream at once.                                *)

\* The frames are in order, within the budget, and the only terminal one is the last. An
\* OBJECT frame whose bytes do not have its digest does not parse; a CHUNK frame names no
\* digest of its bytes.
ResponseFrames(stream) ==
    /\ Len(stream) <= Items + 2
    /\ \A k \in DOMAIN stream : stream[k].inSeq /\ (stream[k].k = "data" <=> k < Len(stream))
    /\ \A k \in DOMAIN stream : xfer.mode = "objects" /\ stream[k].k = "data" => stream[k].good

CheckEnd(stream) ==
    /\ stream # <<>> /\ Last(stream).k = "end"
    /\ Last(stream).sha

\* Every unit was requested, and none comes twice.
Requested(units) ==
    /\ \A k \in DOMAIN units : units[k].id \in (xfer.start + 1)..xfer.end
    /\ \A k, j \in DOMAIN units : units[k].id = units[j].id => k = j

\* Every requested unit once, nothing else, and END counts them. The bytes of a chunk are
\* not compared with anything.
Collects(stream) ==
    LET units == DataIn(stream)
        bytes == FoldLeft(LAMBDA s, f : s + Length(f.id, xfer.count), 0, units)
    IN /\ ResponseFrames(stream) /\ CheckEnd(stream)
       /\ Requested(units) /\ Len(units) = Items
       /\ Last(stream).units = Len(units) /\ Last(stream).bytes = bytes

-----------------------------------------------------------------------------
(* Properties.                                                             *)

\* The counters, the window and the coverage word of a transfer have their ranges,
\* and no bit is set outside the windows requested (read_owned_file, consume_frames).
TransferTypeOK ==
    /\ xfer.start \in 0..xfer.count /\ xfer.end \in 0..xfer.count
    /\ xfer.coverage \in 0..(2^WORD - 1)
    /\ \A u \in 1..xfer.count : Covered(u) => u <= xfer.end
    /\ xfer.at = "stream" => xfer.units <= Items

\* What is published is the file of the view, every byte of it, and every request it
\* took ended with END and EOF, the windows one after the other without gap or overlap.
PublishedExact ==
    xfer.at = "done" =>
        /\ \A u \in 1..xfer.count : xfer.out[u] = "good"
        /\ asked = xfer.count

\* The streaming and the collecting reader agree on every stream: what the one accepts
\* frame by frame the other accepts as a whole, and the other way round, but for chunks whose
\* bytes are not those of their leaf page: the streaming reader refuses them (reader.rs), the
\* collecting one hands them to its caller (chunks_batch).
SameVerdict ==
    xfer.mode \in {"chunks", "objects"} /\ xfer.at \in {"stream", "ended", "refused"} =>
        /\ xfer.at = "ended" => Collects(sent)
        /\ Collects(sent) /\ (\A k \in DOMAIN DataIn(sent) : DataIn(sent)[k].good) => xfer.at = "ended"

\* Each unit by itself is within what the service allows.
Allowed ==
    \/ xfer.mode = "raw"
    \/ /\ xfer.limit.body > 0
       /\ \A u \in 1..xfer.count : Length(u, xfer.count) <= xfer.limit.bytes

\* A service that sends exactly what was asked for is never refused, at any count of units
\* up to the width of the coverage word, if its limits admit each unit by itself: however
\* they are, the windows are cut so that no request is refused for the units it combines.
HonestSucceeds == honest /\ lease /\ Allowed => xfer.at # "failed"

\* request_batches: the batches are the items in order, none is empty, each fits the
\* limits, and no batch could have taken the first item of the next.
BatchesFit ==
    LET bs == plan.batches IN
    bs # <<>> =>
        /\ FlattenSeq(bs) = plan.items
        /\ \A k \in DOMAIN bs :
              bs[k] # <<>> /\ Len(bs[k]) <= item_limit /\ EncodedBytes(bs[k]) <= LIMIT
        /\ \A k \in 1..(Len(bs) - 1) :
              Len(bs[k]) = item_limit \/ EncodedBytes(Append(bs[k], bs[k + 1][1])) > LIMIT

\* A request is sent only under the lease, also in the middle of a file.
RequestsNeedLease == [][~lease => ~(xfer.at = "ask" /\ xfer'.at = "stream")]_transferVars

\* A transfer is neither published nor failed.
TransferBusy == xfer.at \notin {"idle", "done", "failed"}

\* A transfer publishes exactly the file and refuses only what is wrong: both readers agree,
\* an honest service is accepted, and requests fit their limits and are sent under the lease
\* (reader.rs read_owned_file, owned_transport.rs, frames.rs request_batches).
TransferExact ==
    /\ []PublishedExact /\ []SameVerdict /\ []HonestSucceeds
    /\ []BatchesFit /\ RequestsNeedLease
=============================================================================
