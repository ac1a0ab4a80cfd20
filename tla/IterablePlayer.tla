--------------------------- MODULE IterablePlayer ---------------------------
(***************************************************************************)
(* IterablePlayer: the player of recorded data, a state machine on one     *)
(* JavaScript thread.  Every state is an asynchronous function; a request  *)
(* for another state is stored in nextState and seen by the running state  *)
(* at its next await.  A step here is what runs between two awaits.        *)
(*                                                                         *)
(* The buffered source is what MessageStream promises: an iterator yields  *)
(* the results from its start on, in order, and fails for good.            *)
(***************************************************************************)
EXTENDS Integers, FiniteSets, Sequences

CONSTANTS
  Source,       \* the results of the source: [type, time], in its order
  End,          \* the time the source ends at; it starts at 0
  StopTime,     \* the end of the initial read, SEEK_ON_START after the start
  TickRanges,   \* how much time a tick may cover
  SeekTimes,    \* the times the user seeks to
  UntilTimes,   \* the times the user plays until
  MaxCalls      \* bound: how many calls the user makes

None == -1

ASSUME PlayerAssumption ==
  /\ Source \in Seq([type : {"message-event", "problem", "stamp"}, time : Nat])
  /\ \A i, j \in 1..Len(Source) : i < j => Source[i].time <= Source[j].time
  /\ End \in Nat /\ StopTime \in 0..End
  /\ TickRanges \subseteq Nat \ {0}
  /\ SeekTimes \cup UntilTimes \subseteq Nat
  /\ MaxCalls \in Nat

(* A stamp tells that the source has reached its time: the messages after it *)
(* are later.                                                               *)
ASSUME StampAssumption ==
  \A i, j \in 1..Len(Source) :
    i < j /\ Source[i].type = "stamp" /\ Source[j].type = "message-event"
      => Source[i].time < Source[j].time

VARIABLES
  hasTopics,           \* does the source have any topic; never changes
  mayFail,             \* may the source reject; never changes
  state, nextState,    \* #state, #nextState ("none" when undefined)
  pc,                  \* where the running state stands, "off" if none runs
  abort,               \* whose abort controller #abort is, "none" if unset
  goal,                \* local: the end of the tick, or the target of the seek
  playTopics,          \* local: the topics statePlay started with
  isPlaying, hasError, currentTime, seekTarget, untilTime,
  topics,              \* #allTopics: "empty", "tf" or "all"
  iterator,            \* the index #playbackIterator yields next, 0 if unset
  producer,            \* the buffered source's producer
  lastMessage,         \* #lastMessageEvent: its index, 0 if unset
  lastStamp,           \* #lastStamp
  batch,               \* local: the messages read for this tick
  messages,            \* #messages: indexes, 0 stands for a backfill
  calling, pending,    \* the debounced emit: is the listener running, is a
                       \* further call waiting
  newSeek,             \* has lastSeekEmitTime changed since the last emit
  ahead,               \* history: is currentTime set before its data is read
  calls,               \* how many calls the user made
  closeCalled,         \* did the user call close
  abandoned,           \* did the pipeline drop, just before it closed the
                       \* player, the listener's promise that is awaited
  wantPlay,            \* history: was playback started and not stopped since
  oldStamp,            \* history: did a seek leave a stamp behind, and are the
                       \* messages that it hides not given yet
  dropped,             \* history: did a tick throw away what it had read
  shown,               \* history: the index the next messages start at
  out                  \* history: the last emit

machine == <<state, nextState, pc, abort, goal, playTopics>>
intent == <<isPlaying, untilTime, seekTarget, wantPlay>>
reading == <<iterator, producer, lastMessage, lastStamp, batch, dropped>>
emitting == <<messages, calling, pending, newSeek, ahead, shown, out>>
rest == <<hasError, topics, calls, closeCalled>>
kind == <<hasTopics, mayFail>>
vars == <<machine, intent, reading, emitting, rest, currentTime, kind,
          oldStamp, abandoned>>

-----------------------------------------------------------------------------
Clamp(t, low, high) == IF t < low THEN low ELSE IF t > high THEN high ELSE t

(* What the source yields: nothing when it has no topics. *)
Results == IF hasTopics THEN Source ELSE <<>>

(* The first result later than t. *)
After(t) == Cardinality({i \in 1..Len(Results) : Results[i].time <= t}) + 1

Messages == {i \in 1..Len(Results) : Results[i].type = "message-event"}
NoEmit == [batch |-> {}, time |-> None, seek |-> FALSE, ahead |-> TRUE,
           from |-> 1, dropped |-> FALSE, oldStamp |-> FALSE]

Init ==
  /\ hasTopics \in BOOLEAN /\ mayFail \in BOOLEAN
  /\ state = "preinit" /\ nextState = "none"
  /\ pc = "off" /\ abort = "none" /\ goal = None /\ playTopics = "empty"
  /\ isPlaying = FALSE /\ hasError = FALSE
  /\ currentTime = None /\ seekTarget = None /\ untilTime = None
  /\ topics = "empty"
  /\ iterator = 0 /\ producer = "none"
  /\ lastMessage = 0 /\ lastStamp = None /\ batch = {}
  /\ messages = {} /\ calling = FALSE /\ pending = FALSE
  /\ newSeek = FALSE /\ ahead = TRUE
  /\ calls = 0 /\ closeCalled = FALSE /\ abandoned = FALSE
  /\ wantPlay = FALSE /\ dropped = FALSE /\ oldStamp = FALSE
  /\ shown = 1 /\ out = NoEmit

-----------------------------------------------------------------------------
(* Emitting: queueEmitState is emitStateImpl behind debouncePromise.        *)

(* emitStateImpl up to the listener's promise: it takes the messages; with  *)
(* an error it emits no data and takes none.                                *)
EmitStateImpl(given, time, seek, error) ==
  /\ calling' = TRUE
  /\ pending' = FALSE
  /\ IF error
     THEN messages' = given /\ newSeek' = seek /\ UNCHANGED <<shown, out>>
     ELSE /\ messages' = {}
          /\ newSeek' = FALSE
          /\ out' = [batch |-> given, time |-> time, seek |-> seek,
                     ahead |-> ahead', from |-> shown, dropped |-> dropped,
                     oldStamp |-> oldStamp]
          /\ shown' = IF seek THEN After(time)
                      ELSE IF given = {} THEN shown
                      ELSE 1 + CHOOSE i \in given : \A j \in given : j <= i

(* A call of queueEmitState, with what the fields hold by then. *)
QueueEmitWith(given, time, seek, error) ==
  IF calling
  THEN /\ pending' = TRUE
       /\ messages' = given
       /\ newSeek' = seek
       /\ UNCHANGED <<calling, shown, out>>
  ELSE EmitStateImpl(given, time, seek, error)

QueueEmit ==
  UNCHANGED ahead /\ QueueEmitWith(messages, currentTime, newSeek, hasError)

(* The running state's code between two awaits is one piece: nothing else   *)
(* happens while the loop of runState goes on to the next state.            *)
Sync == pc \in {"top", "enter", "playLoop"}

(* The listener's promise resolves; a queued call starts. *)
EmitDone ==
  /\ ~Sync /\ calling /\ ~abandoned
  /\ IF pending
     THEN /\ UNCHANGED ahead
          /\ EmitStateImpl(messages, currentTime, newSeek, hasError)
     ELSE calling' = FALSE
          /\ UNCHANGED <<messages, pending, newSeek, ahead, shown, out>>
  /\ pc' = IF pc = "tickEmitWait" THEN "tickEmit" ELSE pc
  /\ UNCHANGED <<state, nextState, abort, goal, playTopics, intent, reading,
                 rest, currentTime>>

-----------------------------------------------------------------------------
(* runState and setState.                                                   *)

(* A mutant: the running state is not aborted. *)
SetStateNoAbort(s) ==
  IF nextState = "close"
  THEN UNCHANGED machine
  ELSE /\ nextState' = s
       /\ pc' = IF pc = "off" THEN "top" ELSE pc
       /\ UNCHANGED <<state, abort, goal, playTopics>>

(* setState from outside: nothing overrides close. *)
SetState(s) ==
  IF nextState = "close"
  THEN UNCHANGED machine
  ELSE /\ nextState' = s
       /\ abort' = "none"
       /\ pc' = IF pc = "off" THEN "top" ELSE pc
       /\ UNCHANGED <<state, goal, playTopics>>

(* Mutants: close is overridden; the abort controller is kept. *)
EndInOverClose(s) == nextState' = s /\ abort' = "none" /\ pc' = "top"

EndInKeepsAbort(s) ==
  /\ nextState' = IF nextState = "close" THEN "close" ELSE s
  /\ UNCHANGED abort
  /\ pc' = "top"

(* setState as the last thing a state does. *)
EndIn(s) ==
  /\ nextState' = IF nextState = "close" THEN "close" ELSE s
  /\ abort' = "none"
  /\ pc' = "top"

(* A state ends without asking for another one. *)
EndState == pc' = "top" /\ UNCHANGED <<nextState, abort>>

(* An exception leaves runState's loop: no state runs any more. *)
Crash ==
  /\ pc' = "off"
  /\ hasError' = TRUE
  /\ isPlaying' = FALSE
  /\ wantPlay' = FALSE
  /\ UNCHANGED ahead
  /\ QueueEmitWith(messages, currentTime, newSeek, TRUE)

(* The top of the loop: the iterator survives only idle and play. *)
TakeState ==
  /\ pc = "top"
  /\ IF nextState = "none"
     THEN pc' = "off" /\ UNCHANGED <<state, nextState>>
     ELSE /\ state' = nextState
          /\ nextState' = "none"
          /\ pc' = IF state' \notin {"idle", "play"} /\ iterator # 0
                   THEN "iterReturn" ELSE "enter"
  /\ UNCHANGED <<abort, goal, playTopics, intent, reading, emitting, rest,
                 currentTime>>

IteratorReturned ==
  /\ pc = "iterReturn"
  /\ pc' = "enter"
  /\ iterator' = 0
  /\ UNCHANGED <<state, nextState, abort, goal, playTopics, intent, producer,
                 lastMessage, lastStamp, batch, dropped, emitting, rest,
                 currentTime>>

(* The generator's finally awaits a producer that rejected. The generator   *)
(* has ended then, so returning it again succeeds.                          *)
IteratorReturnFails ==
  /\ pc = "iterReturn" /\ mayFail /\ producer = "set"
  /\ producer' = "failed"
  /\ Crash
  /\ UNCHANGED <<state, nextState, abort, goal, playTopics, untilTime,
                 seekTarget, iterator, lastMessage, lastStamp, batch, dropped,
                 topics, calls, closeCalled, currentTime>>

Enter(s) == pc = "enter" /\ state = s

-----------------------------------------------------------------------------
(* initialize                                                               *)

EnterInitialize ==
  /\ Enter("initialize")
  /\ QueueEmit
  /\ pc' = "initWait"
  /\ UNCHANGED <<state, nextState, abort, goal, playTopics, intent, reading,
                 rest, currentTime>>

Initialized ==
  /\ pc = "initWait"
  /\ seekTarget' = IF seekTarget = None THEN None
                 ELSE Clamp(seekTarget, 0, End)
  /\ currentTime' = IF seekTarget = None THEN 0 ELSE seekTarget'
  /\ topics' = IF hasTopics THEN "all" ELSE topics
  /\ UNCHANGED ahead
  /\ QueueEmitWith(messages, currentTime', newSeek, hasError)
  /\ pc' = "initDelay"
  /\ UNCHANGED <<state, nextState, abort, goal, playTopics, isPlaying,
                 untilTime, wantPlay, reading, hasError, calls, closeCalled>>

InitializeFails ==
  /\ pc = "initWait" /\ mayFail
  /\ EndState
  /\ hasError' = TRUE
  /\ isPlaying' = FALSE
  /\ wantPlay' = FALSE
  /\ UNCHANGED ahead
  /\ QueueEmitWith(messages, currentTime, newSeek, TRUE)
  /\ UNCHANGED <<state, goal, playTopics, untilTime, seekTarget, reading,
                 topics, calls, closeCalled, currentTime>>

StartDelayOver ==
  /\ pc = "initDelay"
  /\ EndIn("start-play")
  /\ UNCHANGED <<state, goal, playTopics, intent, reading, emitting, rest,
                 currentTime>>

-----------------------------------------------------------------------------
(* start-play: the initial read                                             *)

EnterStartPlaySeek ==
  /\ Enter("start-play") /\ seekTarget # None
  /\ EndIn("seek-backfill")
  /\ UNCHANGED <<state, goal, playTopics, intent, reading, emitting, rest,
                 currentTime>>

EnterStartPlay ==
  /\ Enter("start-play") /\ seekTarget = None
  /\ iterator' = IF topics = "empty" THEN Len(Results) + 1 ELSE 1
  /\ producer' = "set"
  /\ lastMessage' = 0
  /\ messages' = {}
  /\ batch' = {}
  /\ goal' = StopTime
  /\ pc' = "startNext"
  /\ UNCHANGED <<state, nextState, abort, playTopics, intent, lastStamp,
                 dropped, calling, pending, newSeek, ahead, shown, out, rest,
                 currentTime>>

(* The result of an iterator.next() that this step awaits. *)
Done == iterator > Len(Results)
Item == Results[iterator]

(* The reading loop of a tick and of the initial read, on one result: go on *)
(* (keeping a message for the batch), or stop with what is past the goal.   *)
GoesOn ==
  /\ ~Done
  /\ \/ Item.type = "problem"
     \/ Item.type = "stamp" /\ Item.time < goal
     \/ Item.type = "message-event" /\ Item.time <= goal

Keep ==
  /\ iterator' = iterator + 1
  /\ batch' = IF iterator \in Messages THEN batch \cup {iterator} ELSE batch
  /\ UNCHANGED <<producer, lastMessage, lastStamp, dropped>>

(* A mutant: the result past the goal is saved unseen. *)
SaveUnseen ==
  /\ iterator' = IF Done THEN iterator ELSE iterator + 1
  /\ lastMessage' = iterator
  /\ UNCHANGED <<producer, batch, dropped, lastStamp>>

(* The result past the goal is saved for the next tick. *)
Save ==
  /\ iterator' = IF Done THEN iterator ELSE iterator + 1
  /\ lastMessage' = IF iterator \in Messages THEN iterator ELSE lastMessage
  /\ lastStamp' = IF ~Done /\ Item.type = "stamp" THEN Item.time ELSE lastStamp
  /\ UNCHANGED <<producer, batch, dropped>>

(* What was read is not kept because a state was requested. *)
Discard ==
  /\ iterator' = IF Done THEN iterator ELSE iterator + 1
  /\ dropped' = (dropped \/ batch # {} \/ iterator \in Messages)
  /\ batch' = {}
  /\ UNCHANGED <<producer, lastMessage, lastStamp>>

StartReads ==
  /\ pc = "startNext" /\ nextState = "none" /\ GoesOn
  /\ Keep
  /\ UNCHANGED <<machine, intent, emitting, rest, currentTime>>

StartInterrupted ==
  /\ pc = "startNext" /\ nextState # "none" /\ ~Done
  /\ Discard
  /\ EndState
  /\ UNCHANGED <<state, goal, playTopics, intent, emitting, rest, currentTime>>

(* The end of the iterator is seen before the requested state is. *)
StartFinishes ==
  /\ pc = "startNext"
  /\ Done \/ (nextState = "none" /\ ~GoesOn)
  /\ Save
  /\ currentTime' = StopTime
  /\ ahead' = FALSE
  /\ QueueEmitWith(batch, StopTime, newSeek, hasError)
  /\ EndIn("idle")
  /\ UNCHANGED <<state, goal, playTopics, intent, rest>>

StartFails ==
  /\ pc = "startNext" /\ mayFail /\ producer = "set"
  /\ producer' = "failed"
  /\ iterator' = Len(Results) + 1
  /\ Crash
  /\ UNCHANGED <<state, nextState, abort, goal, playTopics, untilTime,
                 seekTarget, lastMessage, lastStamp, batch, dropped, topics,
                 calls, closeCalled, currentTime>>

-----------------------------------------------------------------------------
(* seek-backfill                                                            *)

EnterSeekBackfill ==
  /\ Enter("seek-backfill")
  /\ IF seekTarget = None
     THEN pc' = "top" /\ UNCHANGED <<abort, goal, lastMessage>>
     ELSE /\ goal' = Clamp(seekTarget, 0, End)
          /\ lastMessage' = 0
          /\ abort' = "backfill"
          /\ pc' = "backfill"
  /\ UNCHANGED <<state, nextState, playTopics, intent, iterator, producer,
                 lastStamp, batch, dropped, emitting, rest, currentTime>>

(* seekAckTimeout: the backfill takes long, show where we go. *)
SeekAck ==
  /\ pc = "backfill" /\ (~ahead \/ currentTime # goal)
  /\ ahead' = TRUE
  /\ currentTime' = goal
  /\ QueueEmitWith({}, goal, newSeek, hasError)
  /\ UNCHANGED <<machine, intent, reading, rest>>

(* The finally block: the target is kept only for a further seek. *)
ClearTarget(next) ==
  seekTarget' = IF next = "seek-backfill" THEN seekTarget ELSE None

BackfillLoaded ==
  /\ pc = "backfill" /\ nextState = "none"
  /\ currentTime' = goal
  /\ ahead' = FALSE
  /\ dropped' = FALSE
  /\ QueueEmitWith({0}, goal, TRUE, hasError)
  /\ pc' = "seekStop"
  /\ UNCHANGED <<state, nextState, abort, goal, playTopics, intent, iterator,
                 producer, lastMessage, lastStamp, batch, rest>>

(* Loaded or aborted, and another state is wanted. *)
BackfillInterrupted ==
  /\ pc = "backfill" /\ nextState # "none"
  /\ ClearTarget(nextState)
  /\ pc' = "top"
  /\ abort' = "none"
  /\ UNCHANGED <<state, nextState, goal, playTopics, isPlaying, untilTime,
                 wantPlay, reading, emitting, rest, currentTime>>

SeekFails ==
  /\ \/ pc = "backfill" /\ mayFail /\ UNCHANGED producer
     \/ pc = "seekStop" /\ producer = "failed" /\ UNCHANGED producer
     \/ pc = "seekStop" /\ mayFail /\ producer = "set" /\ producer' = "failed"
  /\ Crash
  /\ ClearTarget(nextState)
  /\ abort' = "none"
  /\ UNCHANGED <<state, nextState, goal, playTopics, untilTime, iterator,
                 lastMessage, lastStamp, batch, dropped, topics, calls,
                 closeCalled, currentTime>>

(* A mutant: the iterator starts at the current time. *)
NewIteratorAtCurrent ==
  /\ producer' = "set"
  /\ iterator' = IF topics = "empty" THEN Len(Results) + 1
                 ELSE After(currentTime - 1)

(* resetPlaybackIterator: the producer stopped, the next iterator starts    *)
(* right after the current time.                                            *)
NewIterator ==
  /\ producer' = "set"
  /\ iterator' = IF topics = "empty" THEN Len(Results) + 1
                 ELSE After(currentTime)

Resume == IF isPlaying THEN "play" ELSE "idle"

SeekEnds ==
  /\ pc = "seekStop" /\ producer # "failed"
  /\ NewIterator
  /\ EndIn(Resume)
  /\ ClearTarget(nextState')
  /\ UNCHANGED <<state, goal, playTopics, isPlaying, untilTime, wantPlay,
                 lastMessage, lastStamp, batch, dropped, emitting, rest,
                 currentTime>>

-----------------------------------------------------------------------------
(* reset-playback-iterator                                                  *)

EnterReset ==
  /\ Enter("reset-playback-iterator")
  /\ pc' = "resetStop"
  /\ UNCHANGED <<state, nextState, abort, goal, playTopics, intent, reading,
                 emitting, rest, currentTime>>

ResetEnds ==
  /\ pc = "resetStop" /\ producer # "failed"
  /\ NewIterator
  /\ EndIn(Resume)
  /\ UNCHANGED <<state, goal, playTopics, intent, lastMessage, lastStamp,
                 batch, dropped, emitting, rest, currentTime>>

ResetFails ==
  /\ pc = "resetStop" /\ (producer = "failed" \/ mayFail)
  /\ producer' = "failed"
  /\ Crash
  /\ UNCHANGED <<state, nextState, abort, goal, playTopics, untilTime,
                 seekTarget, iterator, lastMessage, lastStamp, batch, dropped,
                 topics, calls, closeCalled, currentTime>>

-----------------------------------------------------------------------------
(* idle                                                                     *)

EnterIdle ==
  /\ Enter("idle")
  /\ isPlaying' = FALSE
  /\ abort' = "idle"
  /\ QueueEmit
  /\ pc' = "idleWait"
  /\ UNCHANGED <<state, nextState, goal, playTopics, untilTime, seekTarget,
                 wantPlay, reading, rest, currentTime>>

IdleAborted ==
  /\ pc = "idleWait" /\ abort = "none"
  /\ EndState
  /\ UNCHANGED <<state, goal, playTopics, intent, reading, emitting, rest,
                 currentTime>>

-----------------------------------------------------------------------------
(* play                                                                     *)

EnterPlay ==
  /\ Enter("play")
  /\ playTopics' = topics
  /\ pc' = "playLoop"
  /\ UNCHANGED <<state, nextState, abort, goal, intent, reading, emitting,
                 rest, currentTime>>

MayTick == isPlaying /\ ~hasError /\ nextState = "none"

PlayStops ==
  /\ pc = "playLoop" /\ ~MayTick
  /\ EndState
  /\ UNCHANGED <<state, goal, playTopics, intent, reading, emitting, rest,
                 currentTime>>

PlayReachesEnd ==
  /\ pc = "playLoop" /\ MayTick /\ currentTime >= End
  /\ lastStamp' = None
  /\ wantPlay' = FALSE
  /\ EndIn("idle")
  /\ UNCHANGED <<state, goal, playTopics, isPlaying, untilTime, seekTarget,
                 iterator, producer, lastMessage, batch, dropped, emitting,
                 rest, currentTime>>

TickEnd(range) ==
  Clamp(currentTime + range, 0, IF untilTime = None THEN End ELSE untilTime)

(* A mutant: the previous emit is not awaited. *)
AwaitNothing == "tickEmit"

AwaitEmit == IF calling THEN "tickEmitWait" ELSE "tickEmit"

StampPast == lastStamp # None /\ lastStamp >= goal'

(* tick up to its first await: nothing to read when the last stamp or the   *)
(* message read last is past the tick's end.                                *)
TickStarts(range) ==
  /\ pc = "playLoop" /\ MayTick /\ currentTime < End
  /\ goal' = TickEnd(range)
  /\ LET messagePast == lastMessage # 0 /\ Results[lastMessage].time > goal'
     IN /\ lastStamp' = IF StampPast THEN lastStamp ELSE None
        /\ IF StampPast \/ messagePast
           THEN batch' = {} /\ pc' = AwaitEmit /\ UNCHANGED lastMessage
           ELSE /\ batch' = {lastMessage} \ {0}
                /\ lastMessage' = 0
                /\ pc' = "tickNext"
  /\ UNCHANGED <<state, nextState, abort, playTopics, intent, iterator,
                 producer, dropped, emitting, rest, currentTime>>

TickReads ==
  /\ pc = "tickNext" /\ nextState = "none" /\ GoesOn
  /\ Keep
  /\ UNCHANGED <<machine, intent, emitting, rest, currentTime>>

TickInterrupted ==
  /\ pc = "tickNext" /\ nextState # "none"
  /\ Discard
  /\ EndState
  /\ UNCHANGED <<state, goal, playTopics, intent, emitting, rest, currentTime>>

TickReadsAll ==
  /\ pc = "tickNext" /\ nextState = "none" /\ ~GoesOn
  /\ Save
  /\ pc' = AwaitEmit
  /\ UNCHANGED <<state, nextState, abort, goal, playTopics, intent, emitting,
                 rest, currentTime>>

TickFails ==
  /\ pc = "tickNext" /\ mayFail /\ producer = "set"
  /\ producer' = "failed"
  /\ iterator' = Len(Results) + 1
  /\ hasError' = TRUE
  /\ isPlaying' = FALSE
  /\ wantPlay' = FALSE
  /\ UNCHANGED ahead
  /\ QueueEmitWith(messages, currentTime, newSeek, TRUE)
  /\ EndState
  /\ UNCHANGED <<state, goal, playTopics, untilTime, seekTarget, lastMessage,
                 lastStamp, batch, dropped, topics, calls, closeCalled,
                 currentTime>>

(* The end of a tick, and what statePlay does after it. *)
TickEmits ==
  /\ pc = "tickEmit"
  /\ currentTime' = goal
  /\ UNCHANGED ahead
  /\ QueueEmitWith(batch, goal, newSeek, hasError)
  /\ batch' = {}
  /\ LET pauses == untilTime # None /\ goal >= untilTime /\ isPlaying
     IN /\ IF pauses
           THEN isPlaying' = FALSE /\ untilTime' = None /\ wantPlay' = FALSE
           ELSE UNCHANGED <<isPlaying, untilTime, wantPlay>>
        /\ CASE pauses -> EndIn("idle") /\ UNCHANGED lastMessage
             [] ~pauses /\ nextState # "none" ->
                  EndState /\ UNCHANGED lastMessage
             [] ~pauses /\ nextState = "none" /\ topics # playTopics ->
                  EndIn("reset-playback-iterator") /\ lastMessage' = 0
             [] OTHER -> /\ pc' = "playDelay"
                         /\ UNCHANGED <<nextState, abort, lastMessage>>
  /\ UNCHANGED <<state, goal, playTopics, seekTarget, iterator, producer,
                 lastStamp, dropped, rest>>

FrameOver ==
  /\ pc = "playDelay"
  /\ pc' = "playLoop"
  /\ UNCHANGED <<state, nextState, abort, goal, playTopics, intent, reading,
                 emitting, rest, currentTime>>

-----------------------------------------------------------------------------
(* close                                                                    *)

EnterClose ==
  /\ Enter("close")
  /\ isPlaying' = FALSE
  /\ wantPlay' = FALSE
  /\ pc' = "closeStop"
  /\ UNCHANGED <<state, nextState, abort, goal, playTopics, untilTime,
                 seekTarget, reading, emitting, rest, currentTime>>

CloseEnds ==
  /\ pc = "closeStop" /\ producer # "failed"
  /\ producer' = "none"
  /\ pc' = "closed"
  /\ UNCHANGED <<state, nextState, abort, goal, playTopics, intent, iterator,
                 lastMessage, lastStamp, batch, dropped, emitting, rest,
                 currentTime>>

CloseFails ==
  /\ pc = "closeStop" /\ (producer = "failed" \/ (mayFail /\ producer = "set"))
  /\ producer' = "failed"
  /\ Crash
  /\ UNCHANGED <<state, nextState, abort, goal, playTopics, untilTime,
                 seekTarget, iterator, lastMessage, lastStamp, batch, dropped,
                 topics, calls, closeCalled, currentTime>>

(* Block loading, started by initialize, rejects in the background: the     *)
(* error is set and nothing is emitted.                                     *)
BlockLoadingFails ==
  /\ mayFail /\ ~Sync /\ ~hasError
  /\ state \notin {"preinit", "initialize"} /\ pc # "closed"
  /\ hasError' = TRUE
  /\ isPlaying' = FALSE
  /\ wantPlay' = FALSE
  /\ UNCHANGED <<machine, untilTime, seekTarget, reading, emitting, topics,
                 calls, closeCalled, currentTime>>

-----------------------------------------------------------------------------
(* The user's calls, each between two steps of the machine.                 *)

Call ==
  /\ ~Sync /\ ~closeCalled /\ state # "preinit" /\ calls < MaxCalls
  /\ calls' = calls + 1

SetListener ==
  /\ state = "preinit" /\ pc = "off"
  /\ SetState("initialize")
  /\ UNCHANGED <<intent, reading, emitting, rest, currentTime>>

(* startPlayImpl; start and end are set once currentTime is. *)
StartPlayback(until) ==
  /\ Call
  /\ ~isPlaying /\ untilTime = None /\ currentTime # None
  /\ until # None => until > currentTime
  /\ untilTime' = IF until = None THEN None ELSE Clamp(until, 0, End)
  /\ isPlaying' = TRUE
  /\ wantPlay' = TRUE
  /\ IF state = "idle" /\ nextState \in {"none", "idle"}
     THEN SetState("play") /\ UNCHANGED emitting
     ELSE QueueEmit /\ UNCHANGED machine
  /\ UNCHANGED <<seekTarget, reading, hasError, topics, closeCalled,
                 currentTime>>

PausePlayback ==
  /\ Call
  /\ isPlaying
  /\ isPlaying' = FALSE
  /\ untilTime' = None
  /\ wantPlay' = FALSE
  /\ IF state = "play"
     THEN SetState("idle") /\ UNCHANGED emitting
     ELSE QueueEmit /\ UNCHANGED machine
  /\ UNCHANGED <<seekTarget, reading, hasError, topics, closeCalled,
                 currentTime>>

SeekEarly(time) ==
  /\ Call
  /\ state = "initialize"
  /\ seekTarget' = time
  /\ UNCHANGED <<machine, isPlaying, untilTime, wantPlay, reading, emitting,
                 hasError, topics, closeCalled, currentTime>>

SeekPlayback(time) ==
  /\ Call
  /\ state # "initialize"
  /\ LET target == Clamp(time, 0, End) IN
       /\ seekTarget # target
       /\ currentTime # target
       /\ seekTarget' = target
  /\ untilTime' = None
  /\ SetState("seek-backfill")
  /\ UNCHANGED <<isPlaying, wantPlay, reading, emitting, hasError, topics,
                 closeCalled, currentTime>>

(* setSubscriptions ignores what it is asked for and takes every topic the  *)
(* source has, and /tf: the topics change once before the source is known   *)
(* and, when it has no topics, may change once after.                       *)
SetSubscriptions ==
  /\ Call
  /\ LET wanted == IF hasTopics /\ currentTime # None THEN "all" ELSE "tf" IN
       /\ wanted # topics
       /\ topics' = wanted
  /\ IF state \in {"idle", "seek-backfill", "play", "start-play"}
        /\ ~isPlaying /\ currentTime # None
     THEN /\ seekTarget' = IF seekTarget = None THEN currentTime
                           ELSE seekTarget
          /\ untilTime' = None
          /\ SetState("seek-backfill")
     ELSE UNCHANGED <<seekTarget, untilTime, machine>>
  /\ UNCHANGED <<isPlaying, wantPlay, reading, emitting, hasError, closeCalled,
                 currentTime>>

(* setPlaybackSpeed, progress of the block loader, a buffering time-out:    *)
(* they only emit again, which changes nothing while an emit is queued.     *)
EmitAgain ==
  /\ Call
  /\ ~pending
  /\ QueueEmit
  /\ UNCHANGED <<machine, intent, reading, hasError, topics, closeCalled,
                 currentTime>>

(* The last call: MessagePipelineProvider closes the player that it leaves. *)
CallClose ==
  /\ ~Sync /\ ~closeCalled /\ state # "preinit"
  /\ closeCalled' = TRUE
  /\ SetState("close")
  /\ UNCHANGED <<intent, reading, emitting, hasError, topics, calls,
                 currentTime>>

UserStep ==
  \/ SetListener
  \/ \E until \in UntilTimes \cup {None} : StartPlayback(until)
  \/ PausePlayback
  \/ \E time \in SeekTimes : SeekEarly(time) \/ SeekPlayback(time)
  \/ SetSubscriptions
  \/ EmitAgain
  \/ CallClose

MachineStep ==
  \/ TakeState \/ IteratorReturned \/ IteratorReturnFails
  \/ EnterInitialize \/ Initialized \/ InitializeFails \/ StartDelayOver
  \/ EnterStartPlaySeek \/ EnterStartPlay \/ StartReads \/ StartInterrupted
  \/ StartFinishes \/ StartFails
  \/ EnterSeekBackfill \/ SeekAck \/ BackfillLoaded \/ BackfillInterrupted
  \/ SeekFails \/ SeekEnds
  \/ EnterReset \/ ResetEnds \/ ResetFails
  \/ EnterIdle \/ IdleAborted
  \/ EnterPlay \/ PlayStops \/ PlayReachesEnd
  \/ \E range \in TickRanges : TickStarts(range)
  \/ TickReads \/ TickInterrupted \/ TickReadsAll \/ TickFails \/ TickEmits
  \/ FrameOver
  \/ EnterClose \/ CloseEnds \/ CloseFails

(* Before it closes the player the provider calls cleanupListener: a frame  *)
(* that is not rendered yet never resolves, later ones resolve at once.     *)
CleanupListener ==
  abandoned' = (abandoned \/ (closeCalled' /\ ~closeCalled /\ calling))

(* No state clears #lastStamp for a seek, as they do #lastMessageEvent. *)
History ==
  /\ UNCHANGED kind
  /\ CleanupListener
  /\ oldStamp' = IF pc = "seekStop" /\ pc' # pc THEN lastStamp # None
                 ELSE oldStamp /\ (out' = out \/ out'.seek \/ out'.batch = {})

Next ==
  /\ MachineStep \/ EmitDone \/ BlockLoadingFails \/ UserStep
  /\ History

(* Timers fire, the source answers, and so does the listener, as long as it *)
(* is not cleaned up; the user need not call.                               *)
Spec ==
  /\ Init /\ [][Next]_vars
  /\ WF_vars(MachineStep /\ History)
  /\ WF_vars(EmitDone /\ History)

-----------------------------------------------------------------------------
(* Every variable keeps its type. *)
States == {"preinit", "initialize", "start-play", "idle", "seek-backfill",
           "play", "close", "reset-playback-iterator"}

TypeOK ==
  /\ state \in States /\ nextState \in States \cup {"none"}
  /\ pc \in {"off", "top", "enter", "iterReturn", "initWait", "initDelay",
             "startNext", "backfill", "seekStop", "resetStop", "idleWait",
             "playLoop", "tickNext", "tickEmitWait", "tickEmit", "playDelay",
             "closeStop", "closed"}
  /\ abort \in {"none", "idle", "backfill"}
  /\ {topics, playTopics} \subseteq {"empty", "tf", "all"}
  /\ {hasTopics, mayFail, oldStamp, abandoned, isPlaying, hasError, calling,
      pending, newSeek, ahead, closeCalled, wantPlay, dropped}
        \subseteq BOOLEAN
  /\ {goal, currentTime, untilTime, seekTarget} \subseteq {None} \cup Nat
  /\ lastStamp \in {None} \cup Nat
  /\ iterator \in 0..(Len(Results) + 1)
  /\ producer \in {"none", "set", "failed"}
  /\ lastMessage \in {0} \cup Messages /\ batch \subseteq Messages
  /\ messages \subseteq {0} \cup Messages
  /\ calls \in 0..MaxCalls /\ shown \in 1..(Len(Results) + 1)

(* None of the player's own "Invariant: ..." exceptions is thrown: idle     *)
(* finds no abort controller, a tick finds its iterator, the initial read   *)
(* finds neither an iterator nor a producer, and a new iterator starts from *)
(* a time that is set.                                                      *)
NoInvariantError ==
  /\ Enter("idle") => abort = "none"
  /\ pc = "tickNext" => iterator # 0
  /\ Enter("start-play") => iterator = 0 /\ producer = "none"
  /\ pc \in {"seekStop", "resetStop", "playLoop"} => currentTime # None

(* Players.types, messages and currentTime: unless there was a seek, the    *)
(* listener is given only messages that it was not given before, none later *)
(* than the time it is given.                                               *)
EmitsForward ==
  ~out.seek =>
    \A i \in out.batch : i >= out.from /\ Results[i].time <= out.time

(* What a seek loaded reaches the listener: the emit that announces the     *)
(* seek carries the backfill, whatever was emitted around it (only the      *)
(* feedback on a further seek may come before it).                          *)
SeekShowsBackfill == out.seek /\ ~out.ahead => out.batch = {0}

(* "Without waiting on the emit state to finish we might drop messages":    *)
(* the messages up to the time the listener is given were all given to it,  *)
(* unless it is told of a seek, a tick was interrupted, or the tick trusts  *)
(* a stamp that was read before a seek.                                     *)
NothingSkippedBut(exempt) ==
  out.seek \/ out.ahead \/ exempt
  \/ \A i \in Messages :
       i >= out.from /\ Results[i].time <= out.time => i \in out.batch

NothingSkipped == NothingSkippedBut(out.dropped \/ out.oldStamp)

(* Playback gives the listener each message once, in order, and all of them.*)
EmitsAllOnce == EmitsForward /\ NothingSkipped

(* A close that was requested is carried out, by a source that does not     *)
(* reject, whatever states run or wait when it is called; only a tick that  *)
(* waits for a frame the provider has dropped waits for ever.               *)
CloseCompletes ==
  ~mayFail /\ closeCalled
    ~> pc = "closed" \/ (abandoned /\ pc = "tickEmitWait")

(* Playback that some state of the machine sees comes to its end and pauses,*)
(* whatever seeks and changes of topics there were on the way, unless an    *)
(* error is set or the listener is taken away.                              *)
PlaybackEnds ==
  isPlaying /\ pc # "off" ~> ~isPlaying \/ hasError \/ abandoned

-----------------------------------------------------------------------------
(* What comments and documentation of the player say, and the code does not *)
(* keep.                                                                    *)

(* isClosed: "Promise that resolves when the player is closed"; setState:   *)
(* "nothing should override closing the player".                            *)
CloseIsFinal == closeCalled ~> pc = "closed"

(* types.ts, close: "Close the player; i.e. terminate any connections it    *)
(* might have open".                                                        *)
CloseTerminates == ~mayFail /\ closeCalled ~> pc = "closed"

(* types.ts, messages: they "should be immediately following the previous   *)
(* array of messages that was emitted".                                     *)
MessagesFollow == NothingSkippedBut(out.oldStamp)

(* tick: "If this stamp is after our current tick's end time then we don't  *)
(* need to read any messages".                                              *)
StampMeansNothingToRead == NothingSkippedBut(out.dropped)

(* seekPlayback, when it ignores a seek to the seek target: "We are already *)
(* seeking to this time".                                                   *)
SeekTargetMeansSeeking ==
  seekTarget # None /\ pc = "idleWait" =>
    nextState \in {"seek-backfill", "close"}

(* startPlayImpl: "if we have a next state queued we let that state finish  *)
(* and it will see that we should be playing".                              *)
IdleMeansPaused == pc = "idleWait" /\ nextState = "none" => ~wantPlay

(* The same comment, when no state is queued and none runs either: the      *)
(* player says that it plays and nothing will ever make it play.            *)
PlayingIsSeen == isPlaying => pc # "off"

(* startPlayImpl: "playUntil time must be after the current time".          *)
UntilIsAhead ==
  untilTime # None /\ pc = "tickNext" => currentTime < untilTime

=============================================================================
