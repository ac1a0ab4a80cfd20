-------------------------- MODULE MessagePipeline --------------------------
(***************************************************************************)
(* MessagePipelineProvider, its store, and the panels (their               *)
(* PanelExtensionAdapter): what a player emits is put into a store, React  *)
(* renders the provider and the panels, and the frame ends, so that the    *)
(* player may emit the next one, when the panels are done with it or took  *)
(* too long.  Panels change their subscriptions at any time, the player    *)
(* learns of it later, and it may be replaced, or change its id, at any    *)
(* time.  A step is one dispatch, one commit of React with its effects,    *)
(* one timer, or a call of a panel.                                        *)
(*                                                                         *)
(* A message is the number of the frame it was emitted in.  Publishers,    *)
(* capabilities, datatypes, preloading, fields and message converters are  *)
(* left out.                                                               *)
(***************************************************************************)
EXTENDS Integers, FiniteSets, Sequences, Functions

CONSTANTS
  Panels, Topics,
  MaxFrames,      \* bound: how many frames are emitted
  MaxCalls,       \* bound: how many times panels change their subscriptions
  MaxPlayers      \* bound: players and player ids, one after the other

ASSUME PipelineAssumption ==
  MaxFrames \in Nat /\ MaxCalls \in Nat /\ MaxPlayers \in Nat \ {0}

VARIABLES
  subs,          \* subscriptionsById: the topics of each panel
  last,          \* lastMessageEventByTopic: topic -> frame
  bucket,        \* messageEventsBySubscriberId: panel -> {<<topic, frame>>}
  changed,       \* what changed in the store since the last commit
  fresh,         \* the panels whose bucket is new since the last commit
  phase,         \* of the frame: "idle" when resolveFn is unset, "render"
                 \* until renderDone is called, "timer" until the frame's
                 \* time is over, "waiting" while panels pause it
  asked,         \* promisesToWaitForRef: the pauses no frame waits for yet
  waitFor,       \* the pauses that the frame waits for
  debounced,     \* what debouncedPlayerSetSubscriptions will pass on, or Nil
  told,          \* of the player: the subscriptions it was given
  player,        \* the number of the player, or of its id
  frame,         \* the number of the last frame
  rendering,     \* renderingRef of each panel
  calls,
  since,         \* history: the last frame of the player before
  owed,          \* history: what the frame has for each panel
  handed,        \* history: what each panel was given since the frame came
  excused,       \* history: the panels that may miss what the frame has
  slow,          \* history: the panels whose pause was given up
  unheard,       \* history: the topics with a last message after which a frame
                 \* came while the player was not to emit the topic
  stale          \* history: was a panel given such a last message

store == <<subs, last, bucket, changed, fresh>>
listener == <<phase, asked, waitFor>>
playerSide == <<debounced, told, player, frame, since>>
history == <<owed, handed, excused, slow, unheard, stale>>
vars == <<store, listener, playerSide, rendering, calls, history>>

Nil == {"nothing"}
NoTopics == [p \in Panels |-> {}]

(* mergeSubscriptions, without fields and preload types. *)
Merged(s) == UNION {s[p] : p \in Panels}

(* The panels are mounted again when the player, or its id, is another.     *)
Mounted == IF "id" \in changed THEN player - 1 ELSE player
Pause(p) == <<p, Mounted>>

Init ==
  /\ subs = NoTopics /\ last = <<>> /\ bucket = NoTopics
  /\ changed = {} /\ fresh = {}
  /\ phase = "idle" /\ asked = {} /\ waitFor = {}
  /\ debounced = Nil /\ told = {} /\ player = 1 /\ frame = 0 /\ since = 0
  /\ rendering = [p \in Panels |-> FALSE] /\ calls = 0
  /\ owed = NoTopics /\ handed = NoTopics /\ excused = {} /\ slow = {}
  /\ unheard = {} /\ stale = FALSE

-----------------------------------------------------------------------------
(* The listener and the store.                                              *)

(* reset empties what the store keeps of the panels.                        *)
Reset(reset, empty, old) == IF reset THEN empty ELSE old

(* updatePlayerStateAction: each panel's messages of the next frame.        *)
Bucketed(listed, topics) ==
  [p \in Panels |-> {<<t, frame + 1>> : t \in listed[p] \cap topics}]

(* The player emits a frame with messages on topics it was told of, and the *)
(* listener dispatches it.  When the id is new the store is reset first.    *)
(* Left out: a frame with topics that the player has just been told to drop.*)
Emit(topics, reset) ==
  LET listed == Reset(reset, NoTopics, subs)
      lasts == Reset(reset, <<>>, last)
  IN
  /\ phase = "idle" /\ frame < MaxFrames
  /\ topics \subseteq told
  /\ reset => player < MaxPlayers /\ frame > 0 /\ "id" \notin changed
  /\ frame' = frame + 1
  /\ player' = IF reset THEN player + 1 ELSE player
  /\ since' = IF reset THEN frame ELSE since
  /\ subs' = listed
  /\ last' = [t \in topics \cup DOMAIN lasts |->
                IF t \in topics THEN frame' ELSE lasts[t]]
  /\ bucket' = Bucketed(listed, topics)
  /\ fresh' = {p \in Panels : bucket'[p] # bucket[p]}
  /\ changed' = changed \cup {"frame"}
                  \cup (IF reset THEN {"id", "subscriptions"} ELSE {})
  /\ phase' = "render"
  /\ owed' = bucket'
  /\ excused' = {p \in Panels : /\ rendering[p]
                                /\ p \in slow \/ Pause(p) \in asked}
  /\ unheard' = (DOMAIN lasts \ topics) \cap (unheard \cup (Topics \ told))
  /\ handed' = NoTopics
  /\ UNCHANGED <<asked, waitFor, debounced, told, rendering, calls, slow,
                 stale>>

(* A mutant: the messages of the other panels are dropped. *)
InjectAlone(p, pairs) == [NoTopics EXCEPT ![p] = pairs]

(* The last messages on a panel's new topics take the place of what the     *)
(* store had for the panel; the other panels keep theirs.                   *)
Inject(p, pairs) == [bucket EXCEPT ![p] = pairs]

(* updateSubscriberAction.  A topic that nobody is subscribed to any more   *)
(* has no last message.                                                     *)
SetSubscriptions(p, topics) ==
  LET gone == subs[p] \ Merged(subs')
      new == (topics \ subs[p]) \cap DOMAIN last
  IN
  /\ calls < MaxCalls /\ topics # subs[p]
  /\ calls' = calls + 1
  /\ subs' = [subs EXCEPT ![p] = topics]
  /\ last' = Restrict(last, DOMAIN last \ gone)
  /\ IF new = {} THEN UNCHANGED <<bucket, fresh, excused>>
     ELSE /\ bucket' = Inject(p, {<<t, last[t]>> : t \in new})
          /\ fresh' = fresh \cup {p}
          /\ excused' = excused \cup {p}
  /\ changed' = changed \cup {"subscriptions"}
  /\ unheard' = unheard \ gone
  /\ stale' = (stale \/ new \cap unheard # {})
  /\ UNCHANGED <<listener, playerSide, rendering, owed, handed, slow>>

-----------------------------------------------------------------------------
(* React commits: panels render, and the provider calls renderDone.         *)

(* A mutant: renderDone is not only called for a frame that is new. *)
RenderDoneAgain == phase' = IF phase = "idle" THEN "idle" ELSE "timer"

RenderDone == phase' = IF phase = "render" THEN "timer" ELSE phase

(* A mutant: of the calls in one timeout cycle the first one counts. *)
DebounceFirst ==
  debounced' = IF "subscriptions" \notin changed \/ debounced # Nil
               THEN debounced ELSE Merged(subs)

(* The effects pass new subscriptions to the debounced function.            *)
Debounce ==
  debounced' = IF "subscriptions" \in changed THEN Merged(subs) ELSE debounced

(* A panel that is given something new pauses the frame and renders, but    *)
(* skips what comes while it still renders.  Left out: it also renders when *)
(* no messages have come, but settings, hover or the time have changed.     *)
Commit ==
  LET start == {p \in fresh : ~rendering[p]} IN
  /\ changed # {} /\ "id" \notin changed
  /\ changed' = {} /\ fresh' = {}
  /\ rendering' = [p \in Panels |-> rendering[p] \/ p \in start]
  /\ asked' = asked \cup {Pause(p) : p \in start}
  /\ handed' = [p \in Panels |-> IF p \in start THEN handed[p] \cup bucket[p]
                                 ELSE handed[p]]
  /\ RenderDone
  /\ Debounce
  /\ UNCHANGED <<subs, last, bucket, waitFor, told, player, frame, since,
                 calls, owed, excused, slow, unheard, stale>>

(* The id is new: the old panels are unmounted and end their subscriptions, *)
(* and new ones take their place.                                           *)
CommitRemount ==
  /\ "id" \in changed
  /\ changed' = {"subscriptions"} /\ fresh' = {}
  /\ subs' = NoTopics
  /\ last' = Restrict(last, DOMAIN last \ Merged(subs))
  /\ unheard' = unheard \ Merged(subs)
  /\ rendering' = [p \in Panels |-> FALSE]
  /\ owed' = NoTopics /\ handed' = NoTopics /\ excused' = {} /\ slow' = {}
  /\ RenderDone
  /\ Debounce
  /\ UNCHANGED <<bucket, asked, waitFor, told, player, frame, since, calls,
                 stale>>

(* The panel's done: its pause is over.                                     *)
Resume(pause) ==
  /\ asked' = asked \ {pause} /\ waitFor' = waitFor \ {pause}
  /\ UNCHANGED <<store, phase, playerSide, calls, owed, handed, excused,
                 unheard, stale>>

Done(p) ==
  /\ rendering[p]
  /\ rendering' = [rendering EXCEPT ![p] = FALSE]
  /\ slow' = slow \ {p}
  /\ Resume(Pause(p))

(* A panel that is not mounted any more may still be done, or never.        *)
UnmountedDone(pause) ==
  /\ pause \in asked \cup waitFor /\ pause[2] < Mounted
  /\ Resume(pause)
  /\ UNCHANGED <<rendering, slow>>

-----------------------------------------------------------------------------
(* The frame ends.                                                          *)

(* A mutant: the pauses are forgotten instead of waited for. *)
FrameOverAtOnce ==
  /\ phase = "timer"
  /\ asked' = {} /\ phase' = "idle"
  /\ UNCHANGED waitFor

(* The frame's time is over: it ends unless it is paused.                   *)
FrameOver ==
  /\ phase = "timer"
  /\ waitFor' = asked /\ asked' = {}
  /\ phase' = IF asked = {} THEN "idle" ELSE "waiting"

FrameTimer ==
  /\ FrameOver
  /\ UNCHANGED <<store, playerSide, rendering, calls, history>>

PausesOver ==
  /\ phase = "waiting" /\ waitFor = {}
  /\ phase' = "idle"
  /\ UNCHANGED <<store, asked, waitFor, playerSide, rendering, calls, history>>

(* A mutant: a pause may last for ever. *)
NoTimeout == FALSE /\ UNCHANGED vars

(* The panels took five seconds.                                            *)
PauseTimeout ==
  /\ phase = "waiting" /\ waitFor # {}
  /\ phase' = "idle" /\ waitFor' = {}
  /\ slow' = slow \cup {p \in Panels : Pause(p) \in waitFor}
  /\ UNCHANGED <<store, asked, playerSide, rendering, calls, owed, handed,
                 excused, unheard, stale>>

-----------------------------------------------------------------------------
(* The player.                                                              *)

FireDebounce ==
  /\ debounced # Nil
  /\ told' = debounced /\ debounced' = Nil
  /\ UNCHANGED <<store, listener, player, frame, since, rendering, calls,
                 history>>

(* Another player: a new store and new panels, and the old listener closed. *)
(* promisesToWaitForRef stays, with the pauses of panels that are gone.     *)
ChangePlayer ==
  /\ player < MaxPlayers
  /\ player' = player + 1 /\ since' = frame
  /\ subs' = NoTopics /\ last' = <<>> /\ bucket' = NoTopics
  /\ changed' = {} /\ fresh' = {}
  /\ phase' = "idle" /\ waitFor' = {}
  /\ debounced' = {} /\ told' = {}
  /\ rendering' = [p \in Panels |-> FALSE]
  /\ owed' = NoTopics /\ handed' = NoTopics /\ excused' = {} /\ slow' = {}
  /\ unheard' = {}
  /\ UNCHANGED <<asked, frame, calls, stale>>

-----------------------------------------------------------------------------
React == Commit \/ CommitRemount
Timers == FrameTimer \/ PausesOver \/ PauseTimeout

Next ==
  \/ \E topics \in SUBSET Topics, reset \in BOOLEAN : Emit(topics, reset)
  \/ \E p \in Panels, topics \in SUBSET Topics : SetSubscriptions(p, topics)
  \/ React \/ Timers \/ FireDebounce \/ ChangePlayer
  \/ \E p \in Panels : Done(p)
  \/ \E pause \in asked \cup waitFor : UnmountedDone(pause)

(* React commits and timers fire; panels and players need not do anything.  *)
Spec ==
  /\ Init /\ [][Next]_vars
  /\ WF_vars(React) /\ WF_vars(Timers) /\ WF_vars(FireDebounce)

-----------------------------------------------------------------------------
(* Every variable keeps its type, and the frame's parts agree.              *)
TypeOK ==
  /\ subs \in [Panels -> SUBSET Topics]
  /\ DOMAIN last \subseteq Topics /\ Range(last) \subseteq 1..frame
  /\ {bucket, owed, handed} \subseteq [Panels -> SUBSET (Topics \X (1..frame))]
  /\ changed \subseteq {"frame", "subscriptions", "id"}
  /\ fresh \cup excused \cup slow \subseteq Panels
  /\ rendering \in [Panels -> BOOLEAN]
  /\ phase \in {"idle", "render", "timer", "waiting"}
  /\ asked \cup waitFor \subseteq Panels \X (1..MaxPlayers)
  /\ debounced \in {Nil} \cup SUBSET Topics /\ told \subseteq Topics
  /\ player \in 1..MaxPlayers /\ frame \in 0..MaxFrames /\ since \in 0..frame
  /\ calls \in 0..MaxCalls /\ unheard \subseteq DOMAIN last
  /\ stale \in BOOLEAN
  /\ fresh # {} => changed # {}
  /\ waitFor # {} => phase = "waiting"
  /\ phase = "render" => "frame" \in changed

(* pauseFrame: "Don't render the next frame until the returned function has *)
(* been called".  Once the frame is rendered every panel has been given     *)
(* what the frame has for it, unless the panel took too long for an earlier *)
(* one, still rendered what it was given between two frames, or subscribed  *)
(* to a new topic meanwhile; and no panel is given what an earlier player   *)
(* emitted.                                                                 *)
MessagesHanded ==
  /\ phase # "render" =>
       \A p \in Panels \ excused : owed[p] \subseteq handed[p]
  /\ \A p \in Panels : \A m \in handed[p] : m[2] > since

(* Every frame ends, so that the player can emit the next, even if a panel  *)
(* that paused it never renders, or is gone.                                *)
FramesEnd == phase # "idle" ~> phase = "idle"

(* When panels leave their subscriptions alone the player is told of them.  *)
PlayerTold == <>[](told = Merged(subs))

-----------------------------------------------------------------------------
(* What a comment of the store says, and the code does not keep.            *)

(* updateSubscriberAction: "if a panel unsubscribes, triggers playback, and *)
(* then resubscribes, they won't get this old stale message".               *)
NoStaleMessage == ~stale

=============================================================================
