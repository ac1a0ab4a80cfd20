-------------------------- MODULE CachedFilelike ---------------------------
(***************************************************************************)
(* CachedFilelike: the reads of a remote file, served from a cache that a  *)
(* single stream at a time fills, with the VirtualLRUBuffer that forgets   *)
(* the least recently used blocks and getNewConnection, which decides what *)
(* the next stream asks for.  A step is a call of read, a chunk or an      *)
(* error of a stream, or the passing of the 100 ms that tell one bad       *)
(* connection from a serious error.                                        *)
(*                                                                         *)
(* A range is a record of its first position and the position after its    *)
(* last; the contents of the cache are a function on the positions that    *)
(* have data, and the right byte at a position is the position itself.     *)
(* The file is opened before it is read, as both callers do.  Empty reads, *)
(* reads past the end or larger than the cache, which are answered at      *)
(* once, and logging are left out.                                         *)
(***************************************************************************)
EXTENDS Integers, Sequences, SequencesExt

CONSTANTS
  Size,           \* of the file
  Caches,         \* the values of cacheSizeInBytes
  BlockSize,      \* CACHE_BLOCK_SIZE
  Threshold,      \* CLOSE_ENOUGH_BYTES_TO_NOT_START_NEW_CONNECTION
  Reads,          \* the ranges that are read
  Nil,
  MaxChunk,       \* bound: the longest chunk, no longer than a block
  MaxReads,       \* bound: calls of read
  MaxErrors       \* bound: errors of streams

ASSUME FileAssumption ==
  /\ {Size, BlockSize, MaxChunk} \subseteq Nat \ {0}
  /\ {Threshold, MaxReads, MaxErrors} \subseteq Nat
  /\ Caches \subseteq Nat \ {0} /\ MaxChunk <= BlockSize
  /\ Reads \subseteq [from : Nat, to : 0 .. Size]
  /\ \A r \in Reads : r.from < r.to /\ \A c \in Caches : r.to - r.from <= c

VARIABLES
  cache,          \* cacheSizeInBytes, which never changes
  retries,        \* is keepReconnectingCallback given; it never changes
  buffer,         \* the bytes of #virtualBuffer: position -> byte
  lru,            \* #lastAccessedBlockIndices
  requests,       \* #readRequests: the ranges and numbers of pending reads
  conn,           \* #currentConnection: a range, and how much was read, or Nil
  late,           \* a destroyed stream with a chunk on its way, or Nil
  lastEnd,        \* #lastResolvedCallbackEnd, or Nil
  errorTime,      \* #lastErrorTime: "none", "recent" (< 100 ms ago) or "old"
  closed,         \* #closed
  answers,        \* what became of each read
  errors

options == <<cache, retries>>
vars == <<options, buffer, lru, requests, conn, late, lastEnd, errorTime,
          closed, answers, errors>>

-----------------------------------------------------------------------------
(* VirtualLRUBuffer.                                                        *)

Positions(r) == r.from .. (r.to - 1)
WholeFile == cache >= Size
BlockOf(p) == IF WholeFile THEN 0 ELSE p \div BlockSize

(* filter: the elements of s that are in S, in their order.                 *)
Filter(s, S) ==
  LET kept[n \in 0 .. Len(s)] ==
        IF n = 0 THEN <<>>
        ELSE IF s[n] \in S THEN Append(kept[n - 1], s[n]) ELSE kept[n - 1]
  IN kept[Len(s)]

(* A mutant: no blocks to spare for a range that does not start at a block. *)
TightBlocks ==
  IF WholeFile THEN 1 ELSE (cache + BlockSize - 1) \div BlockSize

NumberOfBlocks ==
  IF WholeFile THEN 1 ELSE (cache + BlockSize - 1) \div BlockSize + 2

(* A mutant: the oldest block goes, and it is still said to have data.      *)
TouchKeepingRanges(mem, b) ==
  LET used == Append(Filter(mem.lru, ToSet(mem.lru) \ {b}), b)
  IN [mem EXCEPT !.lru = IF Len(used) > NumberOfBlocks
                         THEN Tail(used) ELSE used]

(* #getBlock: the block becomes the most recently used one, and the least   *)
(* recently used one goes, with its data, when there are too many.          *)
Touch(mem, b) ==
  LET used == Append(Filter(mem.lru, ToSet(mem.lru) \ {b}), b)
  IN IF Len(used) > NumberOfBlocks
     THEN [lru |-> Tail(used),
           data |-> {p \in mem.data : BlockOf(p) # Head(used)}]
     ELSE [mem EXCEPT !.lru = used]

(* The walk of copyFrom and of slice: the blocks of a range, one by one.    *)
TouchAll(mem, r) ==
  LET first == BlockOf(r.from)
      last == BlockOf(r.to - 1)
      upTo[b \in (first - 1) .. last] ==
        IF b < first THEN mem ELSE Touch(upTo[b - 1], b)
  IN upTo[last]

(* The slices of several ranges.                                            *)
SliceAll(mem, ranges) ==
  LET sliced[n \in 0 .. Len(ranges)] ==
        IF n = 0 THEN mem ELSE TouchAll(sliced[n - 1], ranges[n])
  IN sliced[Len(ranges)]

HasData(r, data) == Positions(r) \subseteq data

-----------------------------------------------------------------------------
(* getNewConnection.                                                        *)

(* The first of missingRanges, or Nil.                                      *)
FirstMissing(r, data) ==
  LET from == Min(Positions(r) \ data)
  IN IF HasData(r, data) THEN Nil
     ELSE [from |-> from,
           to |-> Min({r.to} \cup {p \in data : from < p /\ p < r.to})]

Remaining(c) ==
  IF c = Nil THEN Nil ELSE [from |-> c.from + c.read, to |-> c.to]

(* getNewConnectionWithExistingReadRequest.                                 *)
ForRequest(r, left, data) ==
  LET gap == FirstMissing(r, data)
      useless == \/ left = Nil
                 \/ Positions(left) \cap (Positions(r) \ data) = {}
                 \/ left.from + Threshold < gap.from
  IN CASE ~useless -> Nil
       [] useless /\ WholeFile -> FirstMissing([gap EXCEPT !.to = Size], data)
       [] useless /\ ~WholeFile /\ gap.to = r.to ->
            [gap EXCEPT !.to = Min({r.from + cache, Size})]
       [] OTHER -> gap

(* getNewConnectionWithoutExistingConnection: what to read ahead.           *)
ReadAhead(end, data) ==
  LET next == [from |-> IF end = Nil THEN 0 ELSE end,
               to |-> IF WholeFile THEN Size ELSE Min({end + cache, Size})]
  IN CASE WholeFile /\ HasData(next, data) ->
            FirstMissing([from |-> 0, to |-> Size], data)
       [] ~WholeFile /\ end = Nil -> Nil
       [] OTHER -> FirstMissing(next, data)

NewConnection(reqs, c, data, end) ==
  CASE reqs # <<>> -> ForRequest(Head(reqs), Remaining(c), data)
    [] reqs = <<>> /\ c = Nil -> ReadAhead(end, data)
    [] OTHER -> Nil

-----------------------------------------------------------------------------
(* CachedFilelike.                                                          *)

Init ==
  /\ cache \in Caches /\ retries \in BOOLEAN
  /\ buffer = <<>> /\ lru = <<>> /\ requests = <<>>
  /\ conn = Nil /\ late = Nil /\ lastEnd = Nil
  /\ errorTime = "none" /\ closed = FALSE
  /\ answers = <<>> /\ errors = 0

Judge(range, buf) ==
  IF \A p \in Positions(range) : buf[p] = p THEN "right" ELSE "wrong"

(* #setConnection: the stream there is is destroyed; a chunk of it may be   *)
(* on its way.                                                              *)
SetConnection(c, range) ==
  /\ conn' = [from |-> range.from, to |-> range.to, read |-> 0]
  /\ late' = IF c # Nil /\ c.from + c.read < c.to THEN c ELSE late

Ids(reqs) == {r.id : r \in ToSet(reqs)}

(* #updateState, with the pending reads, the answers, the connection, the   *)
(* bytes and the order of the blocks as they now are: answer the reads      *)
(* whose data is there, then see whether another stream is needed.          *)
UpdateState(reqs, given, c, buf, order) ==
  LET have == {r \in ToSet(reqs) : HasData(r, DOMAIN buf)}
      ready == Filter(reqs, have)
      rest == Filter(reqs, ToSet(reqs) \ have)
      end == IF ready = <<>> THEN lastEnd ELSE Last(ready).to
      new == NewConnection(rest, c, DOMAIN buf, end)
  IN
  /\ requests' = rest
  /\ answers' = [i \in DOMAIN given |->
                   IF i \in Ids(ready)
                   THEN Judge(CHOOSE r \in ToSet(ready) : r.id = i, buf)
                   ELSE given[i]]
  /\ lastEnd' = end
  /\ lru' = SliceAll([lru |-> order, data |-> DOMAIN buf], ready).lru
  /\ buffer' = buf
  /\ IF new = Nil THEN conn' = c /\ UNCHANGED late ELSE SetConnection(c, new)

(* read, once open has been awaited.                                        *)
Read(range) ==
  LET request == [from |-> range.from, to |-> range.to,
                  id |-> Len(answers) + 1]
  IN
  /\ Len(answers) < MaxReads
  /\ \/ /\ ~closed
        /\ UpdateState(Append(requests, request), Append(answers, "pending"),
                       conn, buffer, lru)
     \/ /\ closed
        /\ requests' = Append(requests, request)
        /\ answers' = Append(answers, "pending")
        /\ UNCHANGED <<buffer, lru, conn, late, lastEnd>>
  /\ UNCHANGED <<options, errorTime, closed, errors>>

(* copyFrom, then the end of the stream or the next of its chunks.          *)
Receive(first, n) ==
  LET at == conn.from + conn.read
      chunk == [from |-> at, to |-> at + n]
      mem == TouchAll([lru |-> lru, data |-> DOMAIN buffer], chunk)
      bytes == [p \in mem.data \cup Positions(chunk) |->
                  IF p \in Positions(chunk) THEN first + p - at ELSE buffer[p]]
      left == IF HasData(conn, DOMAIN bytes) THEN Nil
              ELSE [conn EXCEPT !.read = conn.read + n]
  IN
  /\ errorTime' = "none"
  /\ UpdateState(requests, answers, left, bytes, mem.lru)
  /\ UNCHANGED <<options, closed, errors>>

(* The stream's "data".  The file is closed when its stream fails, and a    *)
(* stream that has failed (FetchReader's read) gives no more data.          *)
Data(n) ==
  /\ ~closed /\ conn # Nil /\ conn.from + conn.read + n <= conn.to
  /\ Receive(conn.from + conn.read, n)

(* A mutant: a chunk of a stream that was replaced is copied, too.          *)
LateDataTaken ==
  /\ late # Nil /\ ~closed
  /\ conn # Nil /\ conn.from + conn.read < conn.to
  /\ Receive(late.from + late.read, 1)

(* A chunk of a stream that was replaced is ignored.                        *)
LateData ==
  /\ late # Nil
  /\ late' = Nil
  /\ UNCHANGED <<options, buffer, lru, requests, conn, lastEnd, errorTime,
                 closed, answers, errors>>

(* The stream's "error": the file is closed when the callback is not given  *)
(* and this is the second error in 100 ms.                                  *)
Error ==
  /\ ~closed /\ conn # Nil /\ errors < MaxErrors
  /\ errors' = errors + 1
  /\ \/ /\ ~retries /\ errorTime = "recent"
        /\ closed' = TRUE
        /\ answers' = [i \in DOMAIN answers |->
                         IF i \in Ids(requests) THEN "rejected" ELSE answers[i]]
        /\ UNCHANGED <<buffer, lru, requests, conn, late, lastEnd, errorTime>>
     \/ /\ retries \/ errorTime # "recent"
        /\ errorTime' = "recent"
        /\ UpdateState(requests, answers, Nil, buffer, lru)
        /\ UNCHANGED closed
  /\ UNCHANGED options

(* 100 ms pass.                                                             *)
Later ==
  /\ errorTime = "recent"
  /\ errorTime' = "old"
  /\ UNCHANGED <<options, buffer, lru, requests, conn, late, lastEnd, closed,
                 answers, errors>>

Next ==
  \/ \E range \in Reads : Read(range)
  \/ \E n \in 1 .. MaxChunk : Data(n)
  \/ LateData \/ Error \/ Later

(* A stream that has not failed goes on: WF_vars(\E n : Data(n)), with what *)
(* it is enabled in written out.  Nothing else is promised.                 *)
Streaming == ~closed /\ conn # Nil /\ conn.from + conn.read < conn.to

Fairness ==
  []<>~Streaming \/ []<><<\E n \in 1 .. MaxChunk : Data(n)>>_vars

Spec == Init /\ [][Next]_vars /\ Fairness

-----------------------------------------------------------------------------
(* The cache holds no more blocks than numberOfBlocks, and what is said to  *)
(* have data is in one of them; the pending reads are the unanswered ones.  *)
TypeOK ==
  /\ IsInjective(lru) /\ Len(lru) <= NumberOfBlocks
  /\ DOMAIN buffer \subseteq 0 .. (Size - 1)
  /\ {BlockOf(p) : p \in DOMAIN buffer} \subseteq ToSet(lru)
  /\ ToSet(answers) \subseteq {"pending", "right", "wrong", "rejected"}
  /\ ~closed => Ids(requests)
                   = {i \in DOMAIN answers : answers[i] = "pending"}

(* A read is given the bytes of the file at its range, whatever streams     *)
(* were replaced, failed or were late, and whatever blocks were dropped.    *)
BytesRight == "wrong" \notin ToSet(answers)

Waiting(i) == i \in DOMAIN answers /\ answers[i] = "pending"

(* A read, even one as long as the cache allows and while others are        *)
(* served, is answered, unless the file has been closed by errors.          *)
ReadsSettle == \A i \in 1 .. MaxReads : Waiting(i) ~> (closed \/ ~Waiting(i))

=============================================================================
