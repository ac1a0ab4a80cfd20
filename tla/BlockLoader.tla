---------------------------- MODULE BlockLoader ----------------------------
(***************************************************************************)
(* BlockLoader: preloads the messages of a selection of topics into blocks *)
(* of a fixed time span.  The loader is one asynchronous loop; setTopics   *)
(* and stopLoading run between its awaits, abort what it reads and wake it *)
(* through a condition variable.                                           *)
(*                                                                         *)
(* A selection is a set of subscriptions <<topic, payload>>, at most one   *)
(* for a topic.  The messages of a topic in a block are represented by the *)
(* subscription they were loaded with.                                     *)
(***************************************************************************)
EXTENDS Integers, FiniteSets, FiniteSetsExt

CONSTANTS
  BlockCount,     \* the number of blocks
  Selections,     \* the selections setTopics is called with
  Sizes,          \* the size of a topic's messages in a block, 0 for none
  MaxCacheSize,   \* #maxCacheSize
  MayFail,        \* may the source reject
  MaxCalls        \* bound: how many times setTopics changes the selection

Blocks == 1..BlockCount

ASSUME LoaderAssumption ==
  /\ BlockCount \in Nat /\ MaxCacheSize \in Nat /\ MaxCalls \in Nat
  /\ MayFail \in BOOLEAN
  /\ \A sel \in Selections :
       /\ IsFiniteSet(sel)
       /\ \A p, q \in sel :
            /\ Sizes[p[1]] \in [Blocks -> Nat]
            /\ p[1] = q[1] => p = q

VARIABLES
  blocks,       \* #blocks: [need, has, size], or NoBlock
  topics,       \* #topics
  stopped,      \* #stopped
  aborted,      \* is the current #abortController aborted
  cacheFull,    \* is the problem "cache-full" reported
  pc,           \* where the loader stands
  changed,      \* has #topics been replaced since the loop took it
  loadTopics,   \* locals of #load: topics,
  fetch,        \* topicsToFetch,
  current,      \* currentBlockId,
  endBlock,     \* endBlockId
  total,        \* and totalBlockSizeBytes
  outdated,     \* history: were results stored that were asked for before
                \* the last change of the selection
  calls         \* how many times setTopics changed the selection

load == <<loadTopics, fetch, current, endBlock, total>>
count == <<outdated, calls>>
vars == <<blocks, topics, stopped, aborted, cacheFull, pc, changed, load,
          count>>

NoBlock == [need |-> {}, has |-> {}, size |-> -1]
Exists(b) == b # NoBlock

TopicsOf(sel) == {p[1] : p \in sel}

SizeOf(sel, k) == MapThenSumSet(LAMBDA p : Sizes[p[1]][k], sel)

(* #cacheSize *)
CacheSize(bs) ==
  MapThenSumSet(LAMBDA k : IF Exists(bs[k]) THEN bs[k].size ELSE 0, Blocks)

Init ==
  /\ blocks = [k \in Blocks |-> NoBlock]
  /\ topics = {} /\ stopped = FALSE /\ aborted = FALSE /\ cacheFull = FALSE
  /\ pc = "off" /\ changed = FALSE
  /\ loadTopics = {} /\ fetch = {} /\ current = 0 /\ endBlock = 0 /\ total = 0
  /\ outdated = FALSE /\ calls = 0

-----------------------------------------------------------------------------
(* A mutant: nobody is woken. *)
NotifiedLost == pc

(* The condition variable: the waiting loop goes on. *)
Notified == IF pc = "wait" THEN "woken" ELSE pc

(* What a block needs of a new selection: all but the topics it has whose   *)
(* subscription is the same in the selection before.                        *)
NeedTopics(b, sel) ==
  {p \in sel : ~(p[1] \in TopicsOf(b.has) /\ p \in topics)}

SetTopics(sel) ==
  /\ sel # topics
  /\ calls < MaxCalls
  /\ calls' = calls + 1
  /\ aborted' = TRUE
  /\ pc' = Notified
  /\ blocks' = [k \in Blocks |->
                  IF Exists(blocks[k])
                  THEN [blocks[k] EXCEPT !.need = NeedTopics(blocks[k], sel)]
                  ELSE NoBlock]
  /\ topics' = sel
  /\ changed' = TRUE
  /\ outdated' = FALSE
  /\ UNCHANGED <<stopped, cacheFull, load>>

StopLoading ==
  /\ pc # "off" /\ ~stopped
  /\ stopped' = TRUE
  /\ aborted' = TRUE
  /\ pc' = Notified
  /\ UNCHANGED <<blocks, topics, cacheFull, changed, load, count>>

-----------------------------------------------------------------------------
(* #load from a block on, with the selection sel, until its first await: it *)
(* looks for the next block that needs loading and for those after it that  *)
(* need the same.                                                           *)

Wanted(k, sel) == IF Exists(blocks[k]) THEN blocks[k].need ELSE sel
Loads(k, sel) == Exists(blocks[k]) => blocks[k].need # {}

(* A mutant: the range goes one block too far. *)
RangeEndPast(k, sel) ==
  Max({l \in k..BlockCount : \A n \in k..l : Wanted(n, sel) = Wanted(k, sel)}) + 1

RangeEnd(k, sel) ==
  Max({l \in k..BlockCount : \A n \in k..l : Wanted(n, sel) = Wanted(k, sel)})

LoadFrom(from, sel) ==
  LET todo == {k \in Blocks : k >= from /\ Loads(k, sel)} IN
  IF sel = {} \/ todo = {}
  THEN /\ pc' = "loaded"
       /\ UNCHANGED <<fetch, current, endBlock>>
  ELSE /\ fetch' = Wanted(Min(todo), sel)
       /\ current' = Min(todo)
       /\ endBlock' = RangeEnd(Min(todo), sel)
       /\ pc' = "read"

(* A mutant: the loop compares with a copy, which is never the same. *)
LoopTopCopies ==
  /\ aborted' = FALSE
  /\ changed' = TRUE
  /\ loadTopics' = topics
  /\ total' = CacheSize(blocks)
  /\ LoadFrom(1, topics)

(* startLoading, and each turn of its loop. *)
LoopTop ==
  /\ aborted' = FALSE
  /\ changed' = FALSE
  /\ loadTopics' = topics
  /\ total' = CacheSize(blocks)
  /\ LoadFrom(1, topics)

StartLoading ==
  /\ pc = "off"
  /\ LoopTop
  /\ UNCHANGED <<blocks, topics, stopped, cacheFull, count>>

LoopAgain ==
  /\ ~stopped
  /\ \/ pc = "woken"
     \/ pc = "loaded" /\ changed
  /\ LoopTop
  /\ UNCHANGED <<blocks, topics, stopped, cacheFull, count>>

LoopWaits ==
  /\ pc = "loaded" /\ ~stopped /\ ~changed
  /\ pc' = "wait"
  /\ UNCHANGED <<blocks, topics, stopped, aborted, cacheFull, changed, load,
                 count>>

LoopStops ==
  /\ pc \in {"loaded", "woken"} /\ stopped
  /\ pc' = "stopped"
  /\ UNCHANGED <<blocks, topics, stopped, aborted, cacheFull, changed, load,
                 count>>

-----------------------------------------------------------------------------
(* readUntil answers for the current block.                                 *)

(* Aborted: no results. *)
ReadAborted ==
  /\ pc = "read" /\ aborted
  /\ pc' = "endAborted"
  /\ UNCHANGED <<blocks, topics, stopped, aborted, cacheFull, changed, load,
                 count>>

(* The results came although the selection has changed. *)
ReadOutdated ==
  /\ pc = "read" /\ topics # loadTopics
  /\ pc' = "loaded"
  /\ UNCHANGED <<blocks, topics, stopped, aborted, cacheFull, changed, load,
                 count>>

(* removeUnusedBlockTopics, of one block; nothing changes when nothing of   *)
(* any size goes.                                                           *)
Unused(b) ==
  {p \in b.has : p[1] \notin TopicsOf(topics) \/ p[1] \in TopicsOf(b.need)}

Trimmed(b, k) ==
  LET gone == SizeOf(Unused(b), k) IN
  IF Exists(b) /\ gone > 0
  THEN [b EXCEPT !.has = @ \ Unused(b), !.size = @ - gone]
  ELSE b

TrimmedBlocks == [k \in Blocks |-> Trimmed(blocks[k], k)]

(* A mutant: what is overridden counts, too. *)
LoadedTwice(b, k) ==
  LET old == IF Exists(b) THEN b ELSE [need |-> {}, has |-> {}, size |-> 0]
      kept == {p \in old.has : p[1] \notin TopicsOf(fetch)}
  IN [need |-> {}, has |-> kept \cup fetch, size |-> old.size + SizeOf(fetch, k)]

Overridden(b, k) ==
  IF Exists(b) THEN SizeOf({p \in b.has : p[1] \in TopicsOf(fetch)}, k) ELSE 0

(* The block with the fetched messages, which override those it has. *)
Loaded(b, k) ==
  LET old == IF Exists(b) THEN b ELSE [need |-> {}, has |-> {}, size |-> 0]
      kept == {p \in old.has : p[1] \notin TopicsOf(fetch)}
  IN [need |-> {}, has |-> kept \cup fetch,
      size |-> (old.size - Overridden(b, k)) + SizeOf(fetch, k)]

(* A message brings the cache to its capacity: unused topics are removed. *)
Crosses ==
  /\ SizeOf(fetch, current) > 0
  /\ total + SizeOf(fetch, current) >= MaxCacheSize

Stays == total + SizeOf(fetch, current)
           - (CacheSize(blocks) - CacheSize(TrimmedBlocks))

(* The messages of the block are kept; a message that fits takes the        *)
(* problem back.                                                            *)
ReadResults ==
  /\ pc = "read" /\ topics = loadTopics
  /\ ~(Crosses /\ Stays > MaxCacheSize)
  /\ LET base == IF Crosses THEN TrimmedBlocks ELSE blocks IN
       /\ blocks' = [base EXCEPT ![current] = Loaded(@, current)]
       /\ total' = (IF Crosses THEN Stays ELSE total + SizeOf(fetch, current))
                     - Overridden(base[current], current)
  /\ cacheFull' \in IF SizeOf(fetch, current) = 0 THEN {cacheFull}
                    ELSE IF Crosses THEN {cacheFull, FALSE}
                    ELSE {FALSE}
  /\ IF current < endBlock
     THEN current' = current + 1 /\ UNCHANGED pc
     ELSE pc' = "endRange" /\ UNCHANGED current
  /\ outdated' = (outdated \/ changed)
  /\ UNCHANGED <<topics, stopped, aborted, changed, loadTopics, fetch, endBlock,
                 calls>>

(* The cache is full without what can be removed: loading is over. *)
ReadFull ==
  /\ pc = "read" /\ topics = loadTopics
  /\ Crosses /\ Stays > MaxCacheSize
  /\ blocks' = TrimmedBlocks
  /\ cacheFull' = TRUE
  /\ pc' = "loaded"
  /\ UNCHANGED <<topics, stopped, aborted, changed, load, count>>

(* cursor.end resolves. *)
CursorEnded ==
  /\ \/ /\ pc = "endRange"
        /\ LoadFrom(endBlock + 1, loadTopics)
     \/ /\ pc = "endAborted"
        /\ pc' = "loaded"
        /\ UNCHANGED <<fetch, current, endBlock>>
  /\ UNCHANGED <<blocks, topics, stopped, aborted, cacheFull, changed,
                 loadTopics, total, count>>

(* The source rejects: startLoading does. *)
LoadFails ==
  /\ MayFail
  /\ pc \in {"read", "endRange", "endAborted"}
  /\ pc' = "failed"
  /\ UNCHANGED <<blocks, topics, stopped, aborted, cacheFull, changed, load,
                 count>>

LoaderStep ==
  \/ LoopAgain \/ LoopWaits \/ LoopStops
  \/ ReadAborted \/ ReadOutdated \/ ReadResults \/ ReadFull
  \/ CursorEnded \/ LoadFails

Next ==
  \/ \E sel \in Selections : SetTopics(sel)
  \/ StartLoading
  \/ StopLoading
  \/ LoaderStep

(* The source answers; nobody need call.                                    *)
Spec == Init /\ [][Next]_vars /\ WF_vars(LoaderStep)

-----------------------------------------------------------------------------
Subscriptions == UNION Selections

TypeOK ==
  /\ \A k \in Blocks : Exists(blocks[k]) =>
       /\ blocks[k].need \subseteq Subscriptions
       /\ blocks[k].has \subseteq Subscriptions
       /\ blocks[k].size \in Nat
  /\ topics \in Selections \cup {{}} /\ loadTopics \in Selections \cup {{}}
  /\ {stopped, aborted, cacheFull, changed, outdated} \subseteq BOOLEAN
  /\ pc \in {"off", "read", "endAborted", "endRange", "loaded", "wait", "woken",
             "stopped", "failed"}
  /\ fetch \subseteq Subscriptions
  /\ current \in 0..BlockCount /\ endBlock \in 0..BlockCount
  /\ total \in Nat

(* What the loader counts while it loads is what the blocks hold, whatever  *)
(* was overridden, removed or asked for in the meantime, and the blocks are *)
(* as big as their messages.                                                *)
SizesAgree ==
  /\ \A k \in Blocks : Exists(blocks[k]) =>
       blocks[k].size = SizeOf(blocks[k].has, k)
  /\ pc = "read" => total = CacheSize(blocks)

(* Preloading stays within its memory. *)
CacheBounded == CacheSize(blocks) <= MaxCacheSize

(* A block has the messages of a topic of one subscription only.            *)
OneSubscription ==
  \A k \in Blocks : \A p, q \in blocks[k].has : p[1] = q[1] => p = q

(* The accounts by which the cache is kept within its size agree with what  *)
(* the blocks hold, and they hold nothing twice.                            *)
CacheAccounted == SizesAgree /\ CacheBounded /\ OneSubscription

AllLoaded ==
  \A k \in Blocks : TopicsOf(topics) \subseteq TopicsOf(blocks[k].has)

(* When the loader waits, nothing is left to do: every block has the topics *)
(* of the selection, or the problem that the cache is full is reported.  It *)
(* is what a lost wake-up or an abort at the wrong moment would break.  Not *)
(* so when a selection was taken back before the results came that had been *)
(* asked for; they are stored, and what was needed meanwhile is forgotten.  *)
LoadedWhenWaiting == pc = "wait" /\ ~cacheFull /\ ~outdated => AllLoaded

(* The loader comes to rest after a change of topics, and stops when asked. *)
LoaderSettles == pc = "read" ~> pc \in {"wait", "stopped", "failed"}
StopEnds == stopped ~> pc \in {"stopped", "failed"}
LoaderRests == LoaderSettles /\ StopEnds

(* load: "abort this loading instance because the results may no longer be  *)
(* valid for the data we should be loading".                                *)
OutdatedDiscarded == pc = "wait" /\ ~cacheFull => AllLoaded

(* setTopics: a topic is needed "unless the subscription is identical to    *)
(* the subscription for this topic at the time blocks were loaded".         *)
LoadedAsSubscribed ==
  pc = "wait" /\ ~cacheFull => \A k \in Blocks : topics \subseteq blocks[k].has

=============================================================================
