--------------------------- MODULE CachingSource ---------------------------
(***************************************************************************)
(* CachingIterableSource: an iterator over the underlying source that      *)
(* keeps what it reads in blocks of contiguous time, reads again from the  *)
(* blocks what it has read before, and evicts blocks to make room.         *)
(*                                                                         *)
(* Its user, the producer of BufferedIterableSource, has one iterator at a *)
(* time and may abandon it wherever it yields.  A step here is the code    *)
(* between two yields or awaits, except in the loop between two blocks     *)
(* ("loop"), during which nothing else runs.  getBackfillMessages changes  *)
(* nothing: it is the operator CacheBackfill, asked in every state.        *)
(***************************************************************************)
EXTENDS Integers, FiniteSets, SequencesExt

CONSTANTS
  Source,         \* the results: [type, time, topic, size], in their order
  End,            \* the time the source ends at; it starts at 0
  Starts, Ends,   \* the times an iterator may be opened at, and end at
  TopicSets,      \* the topic selections an iterator may be opened with
  MaxBlockSize,   \* #maxBlockSizeBytes
  MaxTotalSize,   \* #maxTotalSizeBytes
  MaxOpens        \* bound: how many iterators are opened

None == -1

ASSUME CachingAssumption ==
  /\ Len(Source) \in Nat
  /\ \A i, j \in 1..Len(Source) : i < j => Source[i].time <= Source[j].time
  /\ \A i \in 1..Len(Source) :
       /\ Source[i].type \in {"message-event", "problem", "stamp"}
       /\ Source[i].time \in 0..End
       /\ Source[i].size \in IF Source[i].type = "message-event"
                             THEN Nat ELSE {0}
  /\ End \in Nat /\ Starts \cup Ends \subseteq 0..End
  /\ MaxBlockSize \in Nat \ {0} /\ MaxTotalSize \in Nat

VARIABLES
  cachedTopics,     \* #cachedTopics
  cache,            \* #cache: [start, end, items, size]; items hold the time
                    \* and the index of a result
  totalSize,        \* #totalSizeBytes
  currentReadHead,  \* #currentReadHead
  candidates,       \* #evictableBlockCandidates, by the blocks' starts
  pc,               \* where the iterator stands
  readHead, maxEnd, \* locals of messageIterator
  block,            \* local: the start of the block in use, None if undefined
  item,             \* local: the next item of that block to yield
  unread,           \* the results the source's iterator has still to yield
  sourceReadEnd, lastTime, pending,  \* locals of messageIterator
  first, at,        \* history: index of the first result, and of the next
  consumed,         \* history: the time of the last result but one
  opens             \* how many iterators were opened

store == <<cachedTopics, cache, totalSize>>
eviction == <<currentReadHead, candidates>>
reading == <<block, unread, sourceReadEnd, lastTime, pending>>
history == <<first, at, consumed, opens>>
vars == <<store, eviction, pc, readHead, maxEnd, item, reading, history>>

-----------------------------------------------------------------------------
(* Blocks.  A block is named by its start: no two of the cache share it     *)
(* (BlocksDisjoint).                                                        *)

Covers(b, t) == b.start <= t /\ t <= b.end

(* findIndex: the first block that satisfies Test, 0 if none does. *)
FirstIndex(s, Test(_)) ==
  LET found == {k \in 1..Len(s) : Test(s[k])}
  IN IF found = {} THEN 0 ELSE CHOOSE k \in found : \A l \in found : k <= l

IndexOf(s, start) == FirstIndex(s, LAMBDA b : b.start = start)
BlockAt(t) == FirstIndex(cache, LAMBDA b : Covers(b, t))
BlockAfter(t) == FirstIndex(cache, LAMBDA b : t < b.start)

NewBlock(start, end, items, size) ==
  [start |-> start, end |-> end, items |-> items, size |-> size]

(* splice at lodash's sortedIndexBy. *)
Inserted(s, b) ==
  LET k == FirstIndex(s, LAMBDA other : other.start >= b.start)
  IN InsertAt(s, IF k = 0 THEN Len(s) + 1 ELSE k, b)

SizeOf(items) ==
  FoldLeft(LAMBDA sum, x : sum + Source[x.index].size, 0, items)

(* A block that was started and that no result was written to. *)
Unfinished(b) == b.start = b.end /\ b.items = <<>>

Adjacent(b, next) == b.end + 1 = next.start

(* The last block of the chain of adjacent blocks from block k on. *)
ChainEnd(s, k) ==
  CHOOSE l \in k..Len(s) :
    /\ \A n \in k..(l - 1) : Adjacent(s[n], s[n + 1])
    /\ l = Len(s) \/ ~Adjacent(s[l], s[l + 1])

(* findEvictableBlockCandidates.  Without a block at the read head it is    *)
(* the one whose last access, in milliseconds, is oldest: any block but the *)
(* active one, which was accessed last; of equally old ones the first.      *)
EvictableLists(s, head, active) ==
  LET k == FirstIndex(s, LAMBDA b : Covers(b, head))
      starts == [n \in 1..Len(s) |-> s[n].start]
  IN IF s = <<>> THEN { <<>> }
     ELSE IF k = 0
     THEN { <<starts[n]>> : n \in {m \in 1..Len(s) :
                                      starts[m] # active \/ m = 1} }
     ELSE { SubSeq(starts, 1, k - 1)
              \o Reverse(SubSeq(starts, ChainEnd(s, k) + 1, Len(s))) }

-----------------------------------------------------------------------------
Matches(i) ==
  Source[i].type = "message-event" => Source[i].topic \in cachedTopics

SourceResults(from, to) ==
  {i \in 1..Len(Source) : Matches(i) /\ Source[i].time \in from..to}

Least(S) == CHOOSE i \in S : \A j \in S : i <= j

(* The first result an iterator from t on yields. *)
FirstFrom(t) == Cardinality({i \in 1..Len(Source) : Source[i].time < t}) + 1

Init ==
  /\ cachedTopics = {} /\ cache = <<>> /\ totalSize = 0
  /\ currentReadHead = 0 /\ candidates = <<>>
  /\ pc = "none"
  /\ readHead = 0 /\ maxEnd = End
  /\ block = None /\ item = 0
  /\ unread = {} /\ sourceReadEnd = 0 /\ lastTime = 0 /\ pending = <<>>
  /\ first = 1 /\ at = 1 /\ consumed = 0 /\ opens = 0

(* messageIterator up to its loop; other topics purge the cache. *)
Open(start, end, topics) ==
  /\ pc = "none" /\ opens < MaxOpens
  /\ IF topics # cachedTopics
     THEN cachedTopics' = topics /\ cache' = <<>> /\ totalSize' = 0
     ELSE UNCHANGED store
  /\ readHead' = start
  /\ maxEnd' = end
  /\ currentReadHead' = start
  /\ candidates' \in EvictableLists(cache', start, None)
  /\ pc' = "loop"
  /\ block' = None /\ item' = 0 /\ unread' = {} /\ pending' = <<>>
  /\ sourceReadEnd' = 0 /\ lastTime' = 0
  /\ first' = FirstFrom(start) /\ at' = first'
  /\ consumed' = start
  /\ opens' = opens + 1

(* The top of the loop. *)
Exhausted ==
  /\ pc = "loop" /\ readHead > maxEnd
  /\ pc' = "done"
  /\ UNCHANGED <<store, eviction, readHead, maxEnd, item, reading, history>>

DropUnfinished ==
  /\ pc = "loop" /\ readHead <= maxEnd
  /\ BlockAt(readHead) # 0
  /\ Unfinished(cache[BlockAt(readHead)])
  /\ cache' = RemoveAt(cache, BlockAt(readHead))
  /\ UNCHANGED <<cachedTopics, totalSize, eviction, pc, readHead, maxEnd, item,
                 reading, history>>

(* A mutant: an item at the read head is skipped. *)
FindStartItemAfter(b) ==
  LET k == FirstIndex(b.items, LAMBDA x : x.time > readHead)
  IN IF k = 0 THEN Len(b.items) + 1 ELSE k

(* FindStartCacheItemIndex: the first item not before the read head. *)
FindStartItem(b) ==
  LET k == FirstIndex(b.items, LAMBDA x : x.time >= readHead)
  IN IF k = 0 THEN Len(b.items) + 1 ELSE k

EnterBlock ==
  /\ pc = "loop" /\ readHead <= maxEnd
  /\ BlockAt(readHead) # 0
  /\ LET b == cache[BlockAt(readHead)] IN
       /\ ~Unfinished(b)
       /\ block' = b.start
       /\ item' = FindStartItem(b)
  /\ pc' = "cached"
  /\ UNCHANGED <<store, eviction, readHead, maxEnd, unread, sourceReadEnd,
                 lastTime, pending, history>>

(* The read from the source ends where the next block starts. *)
GapEnd ==
  LET k == BlockAfter(readHead)
  IN IF k # 0 /\ cache[k].start - 1 < maxEnd THEN cache[k].start - 1 ELSE maxEnd

OpenSource ==
  /\ pc = "loop" /\ readHead <= maxEnd /\ BlockAt(readHead) = 0
  /\ sourceReadEnd' = GapEnd
  /\ unread' = SourceResults(readHead, GapEnd)
  /\ lastTime' = readHead
  /\ pending' = <<>>
  /\ block' = None
  /\ pc' = "read"
  /\ UNCHANGED <<store, eviction, readHead, maxEnd, item, history>>

-----------------------------------------------------------------------------
(* Reading a block of the cache.                                            *)

Yielded(i) ==
  /\ at' = i + 1
  /\ consumed' = IF at = first THEN consumed ELSE Source[at - 1].time
  /\ UNCHANGED <<first, opens>>

YieldCached ==
  /\ pc = "cached"
  /\ LET items == cache[IndexOf(cache, block)].items IN
       /\ item <= Len(items)
       /\ items[item].time <= maxEnd
       /\ Yielded(items[item].index)
  /\ item' = item + 1
  /\ UNCHANGED <<store, eviction, pc, readHead, maxEnd, reading>>

CachedPastEnd ==
  /\ pc = "cached"
  /\ LET items == cache[IndexOf(cache, block)].items IN
       /\ item <= Len(items)
       /\ items[item].time > maxEnd
  /\ pc' = "done"
  /\ UNCHANGED <<store, eviction, readHead, maxEnd, item, reading, history>>

(* A mutant: the read head stays on the block. *)
AfterBlockStays(b) == b.end

AfterBlock(b) == b.end + 1

BlockRead ==
  /\ pc = "cached"
  /\ LET b == cache[IndexOf(cache, block)] IN
       /\ item > Len(b.items)
       /\ readHead' = AfterBlock(b)
  /\ pc' = "loop"
  /\ UNCHANGED <<store, eviction, maxEnd, item, reading, history>>

-----------------------------------------------------------------------------
(* Reading from the source.                                                 *)

(* Mutants: the block ends with the time of the result; its size stays.    *)
FlushedThrough(b, time) ==
  NewBlock(b.start, time, b.items \o pending, b.size + SizeOf(pending))

FlushedUnsized(b, time) ==
  NewBlock(b.start, time - 1, b.items \o pending, b.size)

(* Time moves on: what waited is written, and the block is known to be      *)
(* complete up to just before that time.                                    *)
Flushed(b, time) ==
  NewBlock(b.start, time - 1, b.items \o pending, b.size + SizeOf(pending))

(* A mutant: what waits to be written is not counted. *)
TotalWithoutPending(gone, size) == totalSize - gone

(* A result counts as soon as it waits to be written. *)
TotalWith(gone, size) == totalSize - gone + size

(* maybePurgeCache, on the cache s: at most one block goes.  It throws when *)
(* that is the active one.                                                  *)
MaybePurge(s, active, size) ==
  IF totalSize + size <= MaxTotalSize
  THEN /\ cache' = s
       /\ totalSize' = TotalWith(0, size)
       /\ pc' = "read"
       /\ UNCHANGED candidates
  ELSE \E list \in EvictableLists(s, currentReadHead, active) :
         IF list = <<>>
         THEN /\ cache' = s
              /\ totalSize' = TotalWith(0, size)
              /\ candidates' = list
              /\ pc' = "read"
         ELSE LET k == IndexOf(s, Head(list)) IN
              /\ candidates' = Tail(list)
              /\ IF s[k].start = active
                 THEN pc' = "failed" /\ cache' = s /\ UNCHANGED totalSize
                 ELSE /\ pc' = "read"
                      /\ cache' = RemoveAt(s, k)
                      /\ totalSize' = TotalWith(s[k].size, size)

(* One result: it starts a block if there is none, writes what waited when  *)
(* time has moved, closes a block that is too big, and, unless evicting     *)
(* throws, waits itself and is yielded.                                     *)
ReadResult ==
  /\ pc = "read" /\ unread # {}
  /\ LET i == Least(unread)
         moves == Source[i].type # "problem" /\ Source[i].time > lastTime
         opened == IF block = None
                   THEN Inserted(cache, NewBlock(readHead, readHead, <<>>, 0))
                   ELSE cache
         k == IndexOf(opened, IF block = None THEN readHead ELSE block)
         b == IF moves THEN Flushed(opened[k], Source[i].time) ELSE opened[k]
         full == b.size >= MaxBlockSize
         waiting == IF moves THEN <<>> ELSE pending
     IN /\ unread' = unread \ {i}
        /\ lastTime' = IF moves THEN Source[i].time ELSE lastTime
        /\ readHead' = IF full THEN b.end + 1 ELSE readHead
        /\ block' = IF full THEN None ELSE b.start
        /\ MaybePurge([opened EXCEPT ![k] = b], block', Source[i].size)
        /\ IF pc' = "failed"
           THEN pending' = waiting /\ UNCHANGED history
           ELSE /\ pending' = Append(waiting, [time |-> lastTime', index |-> i])
                /\ Yielded(i)
  /\ UNCHANGED <<cachedTopics, currentReadHead, maxEnd, item, sourceReadEnd>>

(* The source's iterator ends: the block is closed, or an empty one says    *)
(* that there is nothing more.                                              *)
SourceEnds ==
  /\ pc = "read" /\ unread = {}
  /\ LET k == IndexOf(cache, block) IN
     cache' =
       IF block # None
       THEN [cache EXCEPT ![k] = Flushed(@, sourceReadEnd + 1)]
       ELSE Inserted(cache, NewBlock(readHead, sourceReadEnd, pending,
                                     SizeOf(pending)))
  /\ readHead' = sourceReadEnd + 1
  /\ pending' = <<>>
  /\ block' = None
  /\ pc' = "loop"
  /\ UNCHANGED <<cachedTopics, totalSize, eviction, maxEnd, item, unread,
                 sourceReadEnd, lastTime, history>>

-----------------------------------------------------------------------------
(* The user returns the iterator where it yielded, or reading the source    *)
(* rejects: the generator is gone and what waited with it.                  *)
Return ==
  /\ pc \in {"cached", "read", "done", "failed"}
  /\ pc' = "none"
  /\ block' = None /\ pending' = <<>> /\ unread' = {}
  /\ UNCHANGED <<store, eviction, readHead, maxEnd, item, sourceReadEnd,
                 lastTime, history>>

(* The producer tells how far its consumer has read: it has enqueued the    *)
(* last result, so the consumer has at most the one before.  It tells with  *)
(* a message only when that is ahead of the consumer.                       *)
SetCurrentReadHead(t) ==
  /\ pc \in {"cached", "read"} /\ at > first
  /\ t \in currentReadHead..consumed
  /\ Source[at - 1].type = "message-event" => t < Source[at - 1].time
  /\ currentReadHead' = t
  /\ UNCHANGED <<store, candidates, pc, readHead, maxEnd, item, reading,
                 history>>

Terminate ==
  /\ pc = "none"
  /\ cache' = <<>> /\ cachedTopics' = {}
  /\ pc' = "terminated"
  /\ UNCHANGED <<totalSize, eviction, readHead, maxEnd, item, reading, history>>

Iterate ==
  \/ Exhausted \/ DropUnfinished \/ EnterBlock \/ OpenSource
  \/ YieldCached \/ CachedPastEnd \/ BlockRead
  \/ ReadResult \/ SourceEnds

Next ==
  \/ \E start \in Starts, end \in Ends, topics \in TopicSets :
       Open(start, end, topics)
  \/ Iterate
  \/ Return
  \/ \E t \in 0..End : SetCurrentReadHead(t)
  \/ Terminate

(* The user goes on reading, or returns the iterator. *)
Spec == Init /\ [][Next]_vars /\ WF_vars(Iterate)

-----------------------------------------------------------------------------
TypeOK ==
  /\ cachedTopics \in TopicSets \cup {{}}
  /\ \A k \in 1..Len(cache) :
       /\ cache[k].start \in 0..End /\ cache[k].end \in 0..End
       /\ cache[k].size = SizeOf(cache[k].items)
  /\ totalSize \in Nat /\ currentReadHead \in 0..End
  /\ \A k \in 1..Len(candidates) : candidates[k] \in 0..End
  /\ pc \in {"none", "loop", "cached", "read", "done", "failed", "terminated"}
  /\ readHead \in 0..(End + 1) /\ maxEnd \in Ends \cup {End}
  /\ block \in {None} \cup 0..End
  /\ unread \subseteq 1..Len(Source)
  /\ at \in 1..(Len(Source) + 1)

(* The blocks are in the order of time and do not overlap, which every      *)
(* search of the cache takes for granted.                                   *)
BlocksDisjoint ==
  \A k \in 1..Len(cache) :
    /\ cache[k].start <= cache[k].end
    /\ k > 1 => cache[k - 1].end < cache[k].start

MessagesOf(items) ==
  {items[n].index : n \in {m \in 1..Len(items) :
                             Source[items[m].index].type = "message-event"}}

(* A block that a later iterator reads instead of the source holds every    *)
(* message of its time, however the iterator that filled it was abandoned.  *)
BlocksComplete ==
  \A k \in 1..Len(cache) :
    LET b == cache[k] IN
    ~Unfinished(b) =>
      MessagesOf(b.items) =
        {i \in SourceResults(b.start, b.end) : Source[i].type = "message-event"}

(* What messageIterator and getBackfillMessages rely on when they answer    *)
(* from the cache alone: the blocks are apart and complete.                 *)
CacheIsRight == BlocksDisjoint /\ BlocksComplete

Held == SizeOf(pending) + FoldLeft(LAMBDA sum, b : sum + b.size, 0, cache)

(* The total never says less than what is held, so that blocks are evicted  *)
(* in time.                                                                 *)
SizeIsCounted == totalSize >= Held

(* An iterator that goes on being read ends, through any blocks and gaps.   *)
IteratorEnds == pc = "loop" ~> pc \in {"done", "failed", "none"}

-----------------------------------------------------------------------------
(* getBackfillMessages.                                                     *)

(* A mutant: the walk backwards crosses gaps. *)
BackfillBlocksAny(t) == IF BlockAt(t) = 0 THEN {} ELSE 1..BlockAt(t)

(* The block at t and those before it without a gap. *)
BackfillBlocks(t) ==
  {k \in 1..BlockAt(t) : ChainEnd(cache, k) >= BlockAt(t)}

(* The message the cache has for a topic, 0 when the source is asked. *)
CacheBackfill(topic, t) ==
  LET found == UNION { {x.index : x \in {cache[k].items[n] :
                                           n \in 1..Len(cache[k].items)}} :
                        k \in BackfillBlocks(t) }
      wanted == {i \in found : /\ Source[i].type = "message-event"
                               /\ Source[i].topic = topic
                               /\ Source[i].time <= t}
  IN IF wanted = {} THEN 0 ELSE CHOOSE i \in wanted : \A j \in wanted : j <= i

LastMessage(topic, t) ==
  LET before == {i \in 1..Len(Source) : /\ Source[i].type = "message-event"
                                        /\ Source[i].topic = topic
                                        /\ Source[i].time <= t}
  IN IF before = {} THEN 0 ELSE CHOOSE i \in before : \A j \in before : j <= i

(* "Load the most recent messages per topic that occurred before or at the  *)
(* target time": what the cache answers for the source is what the source   *)
(* would have answered.                                                     *)
BackfillIsLast ==
  \A topic \in UNION TopicSets, t \in 0..End :
    CacheBackfill(topic, t) \in {0, LastMessage(topic, t)}

(* The same while every block of the cache has been written to. *)
BackfillOfFinishedIsLast ==
  (\A k \in 1..Len(cache) : ~Unfinished(cache[k])) => BackfillIsLast

(* findEvictableBlockCandidates: that no block contains the read head "can  *)
(* only happen when seeked to a new time and no message has been read yet", *)
(* so that the block being filled is never the one to evict.                *)
NeverEvictsActive == pc # "failed"

(* maybePurgeCache purges "if adding sizeInBytes to the cache would exceed  *)
(* the maxTotalSizeBytes": the total is no more than what is held.          *)
SizeIsExact == pc # "terminated" => totalSize = Held

-----------------------------------------------------------------------------
(* What an iterator was opened for: the messages of its topics up to its    *)
(* end.  Problems and stamps may come again or not, from the cache or from  *)
(* the source.                                                              *)
MessagesFor(topicSet, end) ==
  {i \in 1..Len(Source) : /\ Source[i].type = "message-event"
                          /\ Source[i].topic \in topicSet
                          /\ Source[i].time <= end}
OpenedFor ==
  IF pc \in {"none", "terminated"} THEN {} ELSE MessagesFor(cachedTopics, maxEnd)

NextOf(i) ==
  Least({j \in OpenedFor \cup {Len(Source) + 1} : j >= i})

Phase == CASE pc \in {"none", "terminated"} -> "closed"
           [] pc = "done" -> "ended"
           [] pc = "failed" -> "failed"
           [] OTHER -> "open"

(* An iterator is the stream its user is promised, whatever blocks, gaps    *)
(* and evictions it meets.                                                  *)
Stream == INSTANCE MessageStream WITH
  Wants <- {MessagesFor(topicSet, end) : topicSet \in TopicSets, end \in Ends},
  wanted <- OpenedFor,
  first <- NextOf(first),
  at <- NextOf(at),
  phase <- Phase,
  waiting <- FALSE

ImplementsStream == Stream!Promise

=============================================================================
