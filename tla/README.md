# Lichtblick in TLA+

Lichtblick is a viewer for robotics data. Its core is a *player*, which reads
messages from a file or a live connection and hands them, together with the
time they belong to, to panels. This directory models the parts of it whose
correctness depends on the order in which asynchronous functions interleave,
checks them with TLC and proves some of the results with TLAPS.

All of the code runs on one JavaScript thread. Nothing is preempted, but every
`await`, every `yield` and every callback is a place where any other call may
run; state read before one and used after it may be stale. **In every module an
action is the code between two such places**, with everything it calls.

## The system

For recorded data the layers are, from the panels down:

    panels -> MessagePipeline -> IterablePlayer -> BufferedIterableSource
                                      |               -> CachingIterableSource
                                      |                  -> WorkerIterableSource -> file
                                      +-> BlockLoader -> IteratorCursor -> file
    file = a library for the format -> CachedFilelike -> HTTP, or a local file

For live data `FoxgloveWebSocketPlayer` (or one of its kin) takes the place of
`IterablePlayer` and everything below it.

| component | state it keeps | operations | hard part |
|---|---|---|---|
| IterablePlayer | `#state`, `#nextState`, an abort controller, play/seek/until intents, the playback iterator, last message and stamp, messages to emit | play, playUntil, pause, seek, setSubscriptions, setPlaybackSpeed, setListener, close; one async function per state; `#tick` | every call lands between two awaits of the running state, and only leaves it a request |
| BufferedIterableSource | a queue, read head, read-done and abort flags, two condition variables, the producer's promise | messageIterator (a generator), stopProducer, terminate, getBackfillMessages | two loops that wait for each other; stop, fail and reopen in the middle |
| CachingIterableSource | blocks of contiguous time with sizes, the topics they hold, candidates for eviction, read head | messageIterator, getBackfillMessages, setCurrentReadHead, terminate | yields in the middle of block changes; abandoned iterators; same-time messages at a block's edge |
| BlockLoader | blocks with messages by topic and the topics still needed, current selection, abort controller, condition variable | setTopics, startLoading, stopLoading | selection changes while loading; bounded memory |
| CachedFilelike, VirtualLRUBuffer | blocks of a remote file in order of use, pending reads, the running stream, time of the last error | read; the stream's data and error | one stream serves many reads; streams that are replaced, fail or are late; eviction |
| MessagePipeline | a store of subscriptions and messages per panel, last message per topic, pauses of the frame | setSubscriptions, pauseFrame, the player's listener, React's commits | a frame is not over before every panel says so, or a time-out; subscriptions that the player learns of late; a player that is replaced |
| FoxgloveWebSocketPlayer | channels, subscriptions resolved and not, publications, service calls and assets, session, timers | listener calls as above, publish, callService, fetchAsset, and the connection's events | events that are read late; reconnection, with the same session or another |
| UserScriptPlayer, TopicAliasingPlayer | a wrapped player, registrations, alias maps | the player interface | rewriting subscriptions and messages while both change |
| LayoutManager | layouts in a local store and on a server, the running sync | get, save, update, delete, overwrite, revert, copy, sync | read, remote call and write in separate critical sections |
| CurrentLayoutProvider, PlayerManager, ExtensionCatalog, ... | React state | reducers | none that is not elsewhere |
| file sources, workers, shells, rendering, parsers | - | I/O and data | out of scope |

What makes each of them correct, and where it could go wrong, is the list
`hazards` of `PROJECT.json`, each entry with its line.

## The modules

| module | models | state and actions |
|---|---|---|
| `MessageStream` | what `messageIterator` promises (`IIterableSource.ts`): abstract | an iterator yields what it was opened for, in order and once, and answers every question |
| `BufferedSource` | `BufferedIterableSource.ts` and `den/async/Condvar.ts` | variables are its fields; `producer` and `consumer` are the places where `#startProducer` and the generator are suspended; one action per resumption; the user's calls are actions of `ClientStep` |
| `IterablePlayer` | `IterablePlayer.ts` with `den/async/debouncePromise.ts` | `pc` is where the running state is suspended; `Enter*` actions are the states up to their first await, the others resume them; `SetState`, `EndIn` and `TakeState` are `#setState` and the loop of `#runState`; `QueueEmit`, `EmitDone` the debounced emit; `CleanupListener` is what the provider does to the listener when it closes the player |
| `CachingSource` | `CachingIterableSource.ts` | one action per stretch between two yields or awaits of `messageIterator`; `CacheBackfill` is `getBackfillMessages` as an operator |
| `BlockLoader` | `BlockLoader.ts`, answers of `IteratorCursor.readUntil` | `pc` is where the load loop is suspended |
| `CachedFilelike` | `CachedFilelike.ts`, `VirtualLRUBuffer.ts`, `getNewConnection.ts` | `Read`, `Data`, `LateData`, `Error` are `read` and the handlers of a stream; `buffer` and `lru` are the cache, `conn` the running stream; the stream's other side (HTTP) is external |
| `MessagePipeline` | `components/MessagePipeline/` (`index.tsx`, `store.ts`, `pauseFrameForPromise.ts`) and the frame handling of `PanelExtensionAdapter.tsx` | `Emit` is the player's listener, `Commit` a commit of React with the effects of provider and panels, `FrameTimer`, `PausesOver`, `PauseTimeout` the end of a frame, `FireDebounce` the call of the player's `setSubscriptions`, `ChangePlayer` another player or id |
| `FoxgloveWebSocketPlayer` | `FoxgloveWebSocketPlayer/index.ts`, `WorkerSocketAdapter.ts`; the client library and the server, external | `inbox` holds what happened to the socket and has not reached the player; `HandleEvent` is one event handler; `Open`, `AttemptTimeout` its timers; `subs`, `serverPubs`, `asked` what the server knows |
| `LayoutManager` | `LayoutManager.ts`, `computeLayoutSyncOperations.ts`, `MutexLocked.ts`, the sync loop of `LayoutManagerProvider.tsx`; the server, external | `queue` holds the critical sections that wait for the mutex, `ops` the user's calls and how far they are, `sync`, `uploads`, `cleanups` the running sync; an action is one critical section or one answer of the server |
| `BufferedSource_proofs`, `IterablePlayer_proofs`, `CachingSource_proofs`, `BlockLoader_proofs`, `CachedFilelike_proofs`, `MessagePipeline_proofs`, `FoxgloveWebSocketPlayer_proofs`, `LayoutManager_proofs` | - | inductive invariants and theorems (below) |

The modules of the player share their view of the source: a constant sequence
`Source` of results with a type and a time, in time order. What is said of
`Source` is what `IIterableSource.messageIterator` documents; the file formats
behind it are not modelled. They compose through `MessageStream`:
`BufferedSource` and `CachingSource` are each checked, and proved but for
liveness, to implement it, and `IterablePlayer` reads from an iterator that behaves like it.
`IterablePlayer` and `MessagePipeline` meet in the listener: the player waits
for a promise that is answered when the frame ends, at any time after
(`EmitDone`), unless the provider drops the frame, and the pipeline is given
frames one after the other, each after the end of the one before.

Messages are indexes of `Source`, or numbers of frames, or left out; times are
small numbers, and a topic's messages in a block are represented by the
subscription they were loaded with. Nothing that the properties speak of depends
on what is inside a message.

Some definitions come with a variant next to them that is commented "A mutant":
the same code with a plausible mistake. They are not part of any specification;
each is there to show that a property notices that mistake.

## The runs

Each `MC<module>.tla` gives the larger constants values; a `.cfg` file gives the
others and says what is checked.

| run | configuration | outcome |
|---|---|---|
| `buffered_source` | `MCBufferedSource.cfg` | holds |
| `player` | `MCIterablePlayer.cfg` | holds |
| `player_lost_close`, `player_unclosed` | `MCPlayerLostClose.cfg`, `MCPlayerUnclosed.cfg` | violated |
| `caching` | `MCCachingSource.cfg` | holds |
| `blocks` | `MCBlockLoader.cfg` | holds |
| `filelike` | `MCCachedFilelike.cfg` | holds |
| `pipeline` | `MCMessagePipeline.cfg` | holds |
| `pipeline_stale` | `MCPipelineStale.cfg` | violated |
| `ws` | `MCFoxgloveWebSocketPlayer.cfg` | holds |
| `layouts` | `MCLayoutManager.cfg` | holds |
| `layouts_conflict` | `MCLayoutConflict.cfg` | violated |

**Buffered source.** A source of eight results with messages within and past the
read-ahead, two at one time, a problem and two stamps, one of them far ahead; it
may reject anywhere. The user opens, asks, returns, stops and reopens at four
times, without a bound on how often. The queue stays contiguous
(`CacheContiguous`), the two loops never both sleep (`NoMutualWait`), a stop
always settles (`StopSettles`), a second producer is never found
(`OneProducer`), the end comes after everything (`EndMeansAll`) and the
whole implements `MessageStream`, questions being answered included
(`ImplementsStream`).

**Player.** Four messages, two at one time, one in the initial read and one at
the end, a problem, and a stamp past a tick; ticks of one or two units; three
calls of the user in any order anywhere, enough for every pair of requests to
race and a third to observe the result; a listener of any speed. Whether the
source has any topic, so that there is something to read, and whether it may
reject, is chosen in the initial state. No invariant error of the
code is thrown (`NoInvariantError`: two abort controllers, a missing iterator, a
second producer), outside seeks the listener is given each message once, in
order, and all of them (`EmitsAllOnce`, except those that a tick throws away
when a call interrupts it, and those behind a stamp that a seek left; see
below), a seek's backfill is what the listener sees first after it
(`SeekShowsBackfill`), a close is carried out (`CloseCompletes`, when the source
does not reject and no dropped frame is waited for) and playback ends
(`PlaybackEnds`).

**Caching source.** Four messages of two topics with a problem and a stamp among
them, room for three units, so that an eviction may make way or hit the active
block, blocks of two; three iterators, for one or both
topics and over several ranges, each abandoned anywhere: the third meets blocks
that the second left in every state. The blocks are disjoint and hold exactly
the results of their range (`CacheIsRight`), the total size is no less than
what is held (`SizeIsCounted`), a finished block answers a backfill with the
last message of each topic (`BackfillOfFinishedIsLast`), an iterator ends
(`IteratorEnds`) and yields what `MessageStream` promises (`ImplementsStream`,
its safety part: here nothing waits for the user).

**Block loader.** Three blocks, two topics, one unit of memory too little for
both, four changes of the selection or of a topic's subscription. Sizes agree,
memory is bounded and a topic has the messages of one subscription in a block
(`CacheAccounted`), a loader that waits has loaded what it could
(`LoadedWhenWaiting`, but for a selection that was taken back while its results
were on their way; see below), and it comes to rest, stopped or not
(`LoaderRests`).

**Remote file.** A file of nine bytes, read with a cache that holds it or with
one of four bytes, in blocks of two; five ranges, some overlapping, some far
apart, some as long as the smaller cache, the last block short; three reads,
chunks of one or two bytes, two errors, and a late chunk of a stream that was
replaced. A read is given the bytes of its range (`BytesRight`) and is answered
unless errors closed the file (`ReadsSettle`).

**Pipeline.** Two panels, two topics, two frames, three changes of
subscriptions, panels that render at any speed or not at all, and another player
or player id at any time. A panel is handed what the frame has for it before
the frame ends, and nothing of an earlier player (`MessagesHanded`; its comment
lists who may miss something), every frame ends (`FramesEnd`), and the player is
told what the panels subscribe to (`PlayerTold`).

**WebSocket.** Two topics, one with two channels and one with a channel that
cannot be parsed next to one that can; two calls of the user (subscribe,
publish, call a service, fetch an asset), and a close; two acts of the server
(advertise, unadvertise, send); one connection that is lost, refused or never
comes, with the session kept or another. No requested topic is forgotten
(`SubscriptionsKept`), player and server agree when nothing is under way
(`ServerAgrees`), fetches settle (`AssetsSettle`), and the connection is made
again, or stays closed (`Settles`). The two invariants are proved for any bounds;
the third act of the server that one exception of `ServerAgrees` needs (a message
for a channel that came back before the player heard that it went) is beyond
this run, which would take too long with it.

**Layouts.** Two layouts, with or without a server, one of them personal, shared
or imported from before the login, with or without an edit that is not saved; one
operation of the user with any arguments,
one call of the server that rejects (carried out or not) or one aborted sync,
one change of another client, at any point of any number of syncs. What is in
step by its time has the server's data (`TrackedAgrees`), and store and server
agree again and again (`Converges`). A sync neither loses an edit nor brings back
a deletion (`SyncKeepsChanges`); this covers what was stored before the sync's
list, whatever other operations, failures and changes of the server come between,
and *not* an edit or a deletion that the last section of an operation stores
between the list and the sync's writes, which the code does not keep
(`SyncKeepsAll`, below). A deletion that was carried out while nothing else was
under way is final (`DeletionIsFinal`); one that crosses a sync or another
operation is not covered. The server is code that is not in
this repository: it carries requests out one after the other, gives every change
a new time, and may answer late, or never.

The bounds: times of 0 to 4 give every relation between two times and a tick
that the code compares (before, at, one after, beyond). Two of everything that
is compared by identity (topics, panels, layouts, channels of a topic) give a
pair that is alike and a pair that is not; three calls let two race and one
observe. `MaxCalls`, `MaxOpens`, `MaxFailures`, `MaxOthers`, `MaxEvents`,
`MaxDrops`, `MaxFrames`, `MaxPlayers`, `MaxReads`, `MaxErrors` are the only
counters that are cut off; the buffered source, the syncs and the renderings
need none.

`CHECK_DEADLOCK FALSE` is set where the system really comes to rest: a closed or
idle player, a loader that waits, a user whose calls are used up. Being stuck
there when something should happen is what the liveness properties are for.

## Fairness

Weak fairness on the steps of the code itself: the event loop runs every ready
continuation and hands over every event, timers fire, React renders what is
dispatched, and the source answers or rejects. The user need not do anything: no
call is fair, and neither is the user's next question. Panels need not render:
the time-out of a paused frame stands in for those that do not.

What is outside the code is assumed to answer where a liveness property depends
on it, and only there:

* the file layer answers each question of the player, or rejects;
* the listener's promise is answered, unless the provider cleaned the listener
  up first, which it does before it closes the player (`CleanupListener`);
* a connection that is tried is accepted after finitely many drops, and the
  server of a live connection answers what it is asked;
* a stream of a remote file that has not failed gives its next chunk in the end:
  `CachedFilelike` sets no time-out of its own;
* the application goes on starting syncs of layouts, as the loop of
  `LayoutManagerProvider` does while the window is visible and online; aborts
  and rejections share one bound, so that some sync is left alone.

## What the checks found

Runs whose outcome is a violation each show one place where the code does not do
what a comment, a type's documentation or a log line says of it; `findings` in
`PROJECT.json` quotes both.

* `player_lost_close` (`CloseIsFinal`): a close requested while a failing
  state runs is lost.
* `player_unclosed` (`CloseTerminates`): the provider cleans the listener up
  before it closes the player; a tick that waits for the frame it emitted then
  waits for ever, and the player is never closed, though no source fails.
* `pipeline_stale` (`NoStaleMessage`): the store saves the last message of
  topics that nobody is subscribed to any more, so that a panel that subscribes
  again is given a message that is older than frames played meanwhile.
* `layouts_conflict` (`TrackedAgrees`): after a conflict the local data is kept
  under the server's time, and the two differ for good.

The modules state more of what the code's comments say and it does not keep.
These properties are in no run; each was tried once with the constants of the
run in parentheses, and TLC finds it violated:

* `MessagesFollow` (`player`): a pause during a tick loses the messages read by
  it.
* `SeekTargetMeansSeeking` (`player`): a pause after a seek within one turn drops
  the seek and keeps its target.
* `IdleMeansPaused` (`player`): playback started while a state is on its way to
  idle is forgotten.
* `PlayingIsSeen` (`player`): playback started and paused again at once leaves a
  player that has no state running, so that a later play only sets a flag.
* `UntilIsAhead` (`player`): a playUntil during a seek ends up behind the current
  time.
* `StampMeansNothingToRead` (`player`): a seek leaves `#lastStamp`
  (`IterablePlayer.ts:785`), and the first tick after it may trust it and skip
  messages.
* `BackfillIsLast` (`caching`): a block whose results are still pending
  (`CachingIterableSource.ts:417`; the comment at 401-403) answers a backfill
  without them.
* `SizeIsExact` (`caching`): sizes of results that are never stored stay
  counted.
* `NeverEvictsActive` (`caching`): the active block is evicted and the iterator
  throws.
* `LoadedAsSubscribed` (`blocks`): two changes of topics in a row keep messages
  of the first (`BlockLoader.ts:112`).
* `OutdatedDiscarded` (`blocks`): a selection that is changed and changed back
  while results are on their way passes the comparison that should discard them
  (`BlockLoader.ts:280`). They are stored as if nothing else were needed (line
  366), which forgets what a block needed meanwhile; when the full cache has
  removed a topic's messages to load them again, they are missing for good.
* `SyncKeepsAll` (`layouts`): a sync writes what it planned from its list. An
  edit stored after the list is overwritten (`LayoutManager.ts:578`, or by the
  cleanup of an upload, `:641`, `:660`), and a layout that is deleted while its
  first upload is in flight is put back by the upload's cleanup (`:641`).
  `SyncKeepsChanges` exempts these layouts (`late`).
* `SubscribesAsRequested` (`ws`): a topic dropped while there is no connection
  is subscribed again when there is one
  (`FoxgloveWebSocketPlayer/index.ts:223-225`, `:974`).
* `UnknownIsServerBug` (`ws`, with `MaxEvents` = 3): a channel is withdrawn and
  advertised again, under its id, before the player has heard of either; a
  subscription made meanwhile is accepted, and dropped when the player hears of
  the withdrawal (`index.ts:509-513`). It is not put into
  `#recentlyCanceledSubscriptions`, as `setSubscriptions` does (`:990`), so that
  messages already sent for it are reported as "Received message on unknown
  subscription id [...] This might be a WebSocket server bug." (`:527-532`).

Where a property had to be weakened to hold (`EmitsAllOnce`, `CloseCompletes`,
`BackfillOfFinishedIsLast`, `SizeIsCounted`, `SubscriptionsKept`, `ServerAgrees`,
`MessagesHanded`, `LoadedWhenWaiting`, `ReadsSettle`, `SyncKeepsChanges`,
`DeletionIsFinal`), its comment says so.

Reading the code for the models also showed what no property is about:

* Layouts, two operations of the user on one layout at a time (`MaxCalls` of
  two; the runs have one): an operation writes back the whole layout as it read
  it in an earlier critical section, so that an update that crosses a deletion
  brings the layout back, and of two updates one is lost. The comment on the
  mutex (`LayoutManager.ts:70-73`) means to prevent this, but only
  `revertLayout` and `makePersonalCopy` read and write under one lock. This is
  also why `SyncKeepsChanges` exempts layouts that an operation stores between
  the list of a sync and its writes, and `deleted` is about deletions that
  nothing crosses. No property covers two operations on one layout.
* Block loader: a load that is left because the selection changed, or because the
  cache is full, does not end its cursor (`BlockLoader.ts:281`, `:347`), so that
  the source's iterator is not returned.
* WebSocket: a new connection drops the callbacks of service calls
  (`index.ts:221`), so that they never settle; `AssetsSettle` is about assets
  only. Of two channels with one topic the second is ignored, and is not
  taken up when the first goes away; `unadvertiseServices` looks for services
  with `Object.values` of a `Map`, which is empty (`index.ts:784`).
* Pipeline: a pause that is requested after the frame's timer fired is waited
  for only by the next frame (`store.ts:222`); changed subscriptions replace
  messages that are not rendered yet (`store.ts:305`); the pauses of panels that
  are gone hold up the next player's first frame until the time-out.
* Remote file: a read after errors closed the file never settles
  (`CachedFilelike.ts:187-189`), and a stream that ends short is not noticed,
  since "end" has no handler.

## The proofs

The theorems are in the eight modules named `..._proofs`, each with the lemmas
about numbers, sums and sequences that it needs. Between them they state every
invariant of the passing runs, the action property of `layouts`, and the safety
part of both refinements. Each holds for every value of the constants, so for
any source, any number of calls and any panels, topics, blocks and channels. The
temporal step is the usual invariance rule everywhere. The assumptions are those
that the models name.

**`BufferedSource_proofs`**: `TypeOK`, `NoMutualWait`, `CacheContiguous`,
`OneProducer` and `EndMeansAll` hold in every reachable state. Assumed: the
source is a sequence in time order, and the minimum read-ahead is at most the
read-ahead, which the constructor enforces. None of the five is inductive alone.
`IInv` adds

* `Control`: which places of the producer, the generator and the user can occur
  together (a stopping user has an aborted producer, a generator that waits has
  a user that waits for it, ...);
* `ProducerInv`: what the producer's place says of its flags, above all that it
  sleeps only with something in the queue and not aborted;
* `StampInv`: where a stamp waits, it is the one just read;
* `EndInv`: read-done means that the source ended, failed or was aborted.

There is one lemma for each action; `NoMutualWait` is preserved because whoever
puts the queue in the state for which the other waits also wakes it, in the same
step.

Its last theorem is `ImplementsPromise`, the safety part of the refinement
`ImplementsStream`: under its mapping (the next result is the one
after the last given, `phase` is read off the user's place and the last answer)
each action of `BufferedSource` is an action of `MessageStream` or leaves its
variables alone. It needs `IInv`, which says what the first result of the buffer
is (`CacheContiguous`: the next, or a stamp again) and that an end means that
nothing is left (`EndInv`), and `Told`: an iterator that has told its user of
its end has ended, so that no answer follows. That every question is answered
is liveness and stays with TLC.

**`IterablePlayer_proofs`**: `TypeOK` and `NoInvariantError`. `TypeOK` is not
inductive: a tick adds to the current time, which has to be set. `Control` says
when it is: `Places` gives the state each place of `pc` belongs to, `Requests`
what may be requested there, `Timed` which times are set, `Iterating` who has an
iterator and a producer, `Topics` which topics a tick started with. That no
invariant error is thrown follows from these, action by action.

The second half of the module is about the messages: `EmitsAllOnce` and
`SeekShowsBackfill`, so that all four invariants of the run `player` are proved.
Between two emits a message is
in one of four places: given to the listener, waiting in `messages`, read for
this tick or the next, or still in the iterator. `Ready` says that these are in
order (`Ordered`), that nothing falls between them (`Kept`), that what the
iterator will still yield is later than the last stamp (`StampKnown`), that a
tick about to end has read up to its end (`ReadToGoal`), and that what is not
given yet is not due (`UpToDate`). `Data` states `Ready` of what the next emit
would give; `EmitReady` shows that the emit itself then keeps both properties.
The actions fall into those that leave the messages alone (`QuietKeeps`), those
that set an error (`ErrorKeeps`), those that read and those that give, each with
a lemma of its own.

Assumed, next to the time order (`PlayerAssumption`): a message that follows a
stamp is later than the stamp (`StampAssumption`), which is what a stamp means
in `IIterableSource.ts`; without it a tick that stops at a stamp could leave a
message behind.

**`BlockLoader_proofs`**: `LoadedWhenWaiting` and `OneSubscription`, for any
blocks, selections, sizes of messages and capacity. What is asked for need not
be what is wanted when it comes, so `IInv` speaks of stretches of blocks, for as
long as the selection was left alone: those behind the loader are `Finished`,
those of the range it reads lack at most what is being `Fetched`, and any block
needs what it does not have (`Known`). When the loop is through, all are behind
it (`Rested`). The attempt to prove it without the condition `outdated` is how
the case of `OutdatedDiscarded` was found: it takes four changes of the
selection, one more than the run then had.

`TypeOK` and `CacheAccounted` need a second invariant, `Counted`: the size of a
block is the sum of what it has, what was read and not stored yet is of the
topics that were asked for, and the sum of the blocks stays within the maximum,
because a block is only added to after enough others were emptied. Sums over
sets are folds, which the provers cannot unfold by induction; what is needed of
them (a sum of natural numbers is one, a sum changes by as much as one of its
terms) is proved by looking at a least counterexample. Assumed in addition: a selection is a finite set of topics.

**`CachingSource_proofs`**: `TypeOK`, `CacheIsRight`, `SizeIsCounted` and
`BackfillOfFinishedIsLast`, so all of the invariants of the run `caching`, and
the refinement `ImplementsStream`, for any source in time order, any room and
block size and any iterators. Of the parts of `IInv`, `Sorts` is the types,
`Sized` says that a block's size is that of its items, `Ordered` that the blocks are in order and apart, and `Whole` that
a finished block holds exactly the messages of its time and topics. The rest is
about what is under way. `Active`: the block being filled is complete up to just
before the time of the last result (`Filling`), and the other blocks are clear
of the stretch that is read from the source (`Apart`). `Reading`: what is still
unread, with what is read but not written to the block yet, is exactly what the
source has from that time on. The total is at least what blocks and pending
results hold. For `BackfillRight`, blocks without a gap between them cover the
times between (`ChainCovers`).

`ImplementsPromise` is the refinement. `IInv` says which messages a block
holds, not in which order nor with which times, so it is joined by two more
invariants (TLC checked both before they were proved). `TidyInv`: items are in
the order of the source, whether written to a block, waiting or unread, and an
item carries a time by which every message before it has come (`Stamped`; a
problem may carry an earlier time than its own, since only messages and stamps
move the time of the iterator on). `Position`: the messages that were given are
those before the read head between two blocks (`AtGap`), those the source does
not have still to yield (`AtSource`), and those before the next item of the
block (`AtItem`), so that no message is skipped or given twice where a block
meets the source. `FirstFromIs` gives the same for the start of an iterator.
Then the next item is the next message of the stream, or one that does not show
(`YieldShows`), and an iterator that ends has given every message (`EndShows`).
An eviction that throws is a failure of the stream.

The attempt to prove `SizeIsCounted` showed a step of the model that the code
does not take: when `#maybePurgeCache` throws, the result just read is neither
kept nor yielded (`CachingIterableSource.ts:327`, `:651`). The model kept it; it
no longer does, and the run was given a source and room with which this happens.

**`CachedFilelike_proofs`**: `TypeOK` and `BytesRight`, for any file, cache,
block size and threshold, any reads no longer than the cache, and chunks no
longer than a block. That a cached byte is right is the easy part of `IInv`: a
chunk is copied to where its stream is. The harder part is that what is said to
have data has it (`Contents`). A chunk may drop the least recently used block,
and must drop none that it was itself copied to: it touches two blocks at most,
and there is room for two (`BlocksEnough`, `TouchAllFacts`). A slice drops none,
which `VirtualLRUBuffer.ts:123-124` claims: all its blocks are there, so moving
them to the end changes only the order (`SliceAllFacts`); several slices in one
`#updateState` therefore give every read what was there when it was looked at.
`Asked` and `Unanswered` tie pending reads to their answers, and a new stream
stays within the file because the range it is for does (`NewConnectionFacts`).
`filter`, the walk over blocks and the slices of several reads are recursive
functions in the model, so that the provers can reason about them: that such a
function exists (`StepsExist`) is proved from a least number it fails for.

**`MessagePipeline_proofs`**: `TypeOK` and `MessagesHanded`, for any panels and
topics and any bounds. `MessagesHanded` is not inductive: a panel that renders
skips a commit, so one has to know that none renders when a frame comes, but
those that were given up. `IInv` adds `RenderingPauses` (a panel that renders
holds the frame up, or its pause was given up), `OwedIsReady` (until the commit,
what the frame owes a panel is in its bucket) and `NothingOld` (what may still
be handed out is from the player there is).

**`FoxgloveWebSocketPlayer_proofs`**: `TypeOK`, `SubscriptionsKept` and
`ServerAgrees`, for any finite set of channels, any topics and any bounds. `SubscriptionsKept` speaks of
open connections only; to keep it one has to know what happens before the
player knows that it has one. `Connected` says that it handles nothing before
"open", and that nothing follows "close". `ChannelsAgree` says that the two maps
of channels are inverse, `Requested` that what is subscribed belongs to topics
that are asked for or waiting, `OwnTopic` that a subscription belongs to the
topic of its channel and to no other, and `Subscribed` that the subscriptions in
use have numbers below `nextSub`, so that a new one never takes the number of
another. `TypeOK` needs in addition that each promise is of a call (`Requests`).

`ServerAgrees` speaks of the moment in which nothing is on its way; `AgreeInv`
says what is on its way at any other. The last event about a channel tells the
truth (`NewsRight`), and what the player knows of a channel is true or an event
that corrects it is in the inbox (`KnownRight`). Each subscription of the server
is one the player knows or made before it knew of the connection, and one that
only the player knows is of a channel whose withdrawal it is about to hear
(`SubsKnown`). Each message on its way is for a subscription that is known with
this channel, was cancelled, or was made while the withdrawal of its channel was
on its way (`MessagesKnown`). TLC checks `AgreeInv` with up to five acts of the
server. The attempt showed that `ServerAgrees` did not hold as it was stated at
first, without the last exception: the run's two acts of the server are one too
few to see it (`UnknownIsServerBug` above).

**`LayoutManager_proofs`**: `TypeOK`, `DeletionIsFinal`, `SyncKeepsChanges` and, for
a server that refuses no update as a conflict, `TrackedAgrees`, for any layouts,
names, data, calls, failures and changes of other clients. A layout that is in step by its time got time and data
from some answer of the server, possibly long ago, through the running sync,
an operation that waits for its second critical section, or an upload that
outlived its sync. So the invariant has to speak of everything that carries a
version, and of what the server gave at each of its times, which is in no
variable. `IInv` therefore says that there *are* a function `g` of what the
server gave at each time, and one `s` of which layouts are shared, with which
everything agrees (`Typed`): the stores, the fetched and listed layouts, the
operations in the queue and before the server, the planned steps of a sync,
uploads, cleanups and orphans. A step of the server takes a new time and extends
`g` there (`Grows`); every other step moves versions from one place to another.
`Places` and `Queued` say who may wait for the mutex, and with what.

That a deletion is final needs to know that nobody who will write holds a copy
of a deleted layout. `Typed` says so of the same places: such a copy is
"locally-deleted", and what is planned for it deletes it. Once the local store
has dropped it, neither the server nor the layouts that a sync has fetched have
it (`Safe`), so no later sync brings it back. `DeletionIsFinal` is about layouts
that were deleted while nothing else was under way (`Alone`), but a step that
marks a layout as deleted on the server makes nobody drop its copy, and such a
step must not meet a layout that the server has. A shared layout that the server
does not have never comes to it again (`Gone`), and one that came to the server
after a sync had fetched is not on the list of that sync: the sync has read the
local store, or will read it before the section that stores the new layout, and
until then nobody else knows its id (`Born`, `Late`, `Missed`, `Shield`).

`SyncKeepsChanges` is about steps, so it needs to know what the section at the
head of the queue was planned from. `EditsInv` says that all that a sync has
still to do in the local store (`InHand`) is at most one operation for each
layout, and was planned from the layout as it is now, if that is edited and not
saved, or from one marked as deleted, if it is marked as deleted (`UpToDate`,
`DeletionKnown`); both unless the last section of an operation has stored the
layout since the list. An operation with a single section, whose store may come
at any time, leaves no edits in what it stores and marks nothing as deleted
(`Bare`). The mutex serves sections in
their order, so what an aborted or failed sync left in the queue is done before
the next one reads its list (`Stages`); that is why a leftover plan never meets
a newer one.

The provers showed where the model read an overlapping `CASE` as TLC does, the
first guard that holds; TLA+ leaves open which it is. `Written` and `PlanFor`
now have guards that exclude each other.

## Only model-checked, and not modelled

Checked by TLC alone: liveness under fairness, and with it that
`BufferedSource` answers every question of `MessageStream`.
Liveness and ENABLED are out of reach of the installed provers.

Left out of modelled components: contents of messages, progress and problem
reporting, the metrics collector, the ranges shown in the scrubber, playback
speed (a tick covers any of `TickRanges`), `#lastRangeMillis` smoothing, the
connection graph, parameters and the clock of a live connection, publishing,
preloading and message converters in the pipeline, failures of the local
layout store, a server of layouts without save times.

Small details left out, each named at its definition too, where no property can
tell the difference: a copied layout is stored with a time (`Copied`,
`LayoutManager.ts:469`) that nothing reads while it is new; a panel also renders
when only settings, hover or the time change (`Commit`); a player may still emit
topics that it was just told to drop (`Emit`); between a reconnection and the
event that opens it, a topic may wait to be resolved although it is still
subscribed on the old connection (`Resubscribed`, `index.ts:978-1009`), until
"open" starts again (`:223-227`). The remote file takes no data once it has
closed on an error (`Data`): the handler would copy it, but a stream that has
failed gives none (`FetchReader.read`).

Components that are not modelled, and why:

* `WorkerIterableSource`, the layout storage wrappers, extension loading: each
  call is passed on, or made one after the other; no state of their own.
* File sources, message parsing, 3D rendering and transforms, panels: data,
  formats and numbers, whose correctness is not one of order. They are most of
  the repository's lines.
* Rosbridge, ROS 1 and Velodyne players: live connections of the shape of
  `FoxgloveWebSocketPlayer`, with less state.
* `UserScriptPlayer`, `TopicAliasingPlayer`, `PlotCoordinator`: see the plan.
* `CurrentLayoutProvider`, `PlayerManager`: React components over pure
  reducers; the hand-over to `LayoutManager` and the order in which a player is
  cleaned up are modelled there.
* Shells: entry points, menus, native files.

## Plan

Done: the layers of recorded data from the panels to the remote file, one live
connection, and the layouts; the proofs about the buffered and the caching
source, the player, the block loader, the remote file, the pipeline, the live
connection and the layouts, and that the buffered and the caching source
implement the stream but for liveness.

Left, in this order:

1. `UserScriptPlayer` and `TopicAliasingPlayer` as wrappers that keep what
   `MessagePipeline` is told and given; `PlotCoordinator`.
2. The Rosbridge player, where it differs from the live connection modelled.
