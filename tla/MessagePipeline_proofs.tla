----------------------- MODULE MessagePipeline_proofs -----------------------
(***************************************************************************)
(* Proofs about MessagePipeline, for any panels, topics and bounds: what   *)
(* the frame has for a panel reaches the panel before the frame ends.      *)
(*                                                                         *)
(* MessagesHanded is not inductive.  A panel that renders skips a commit,  *)
(* so that one has to know that no panel renders when a frame comes but    *)
(* the excused ones.  That follows from what keeps a frame from ending:    *)
(* a panel that renders has a pause that is waited for, or was given up.   *)
(***************************************************************************)
EXTENDS MessagePipeline, TLAPS

(* A panel that renders has its pause, or was too slow for it.              *)
RenderingPauses ==
  \A p \in Panels :
    rendering[p] => p \in slow \/ Pause(p) \in asked \cup waitFor

(* Until the frame is committed a panel's bucket has what the frame owes it *)
(* and the panel is ready to be given it.                                   *)
OwedIsReady ==
  phase = "render" =>
    \A p \in Panels \ excused :
      /\ ~rendering[p]
      /\ owed[p] \subseteq bucket[p]
      /\ owed[p] # {} => p \in fresh

(* What may still be handed to a panel is from the player there is now.     *)
NothingOld ==
  /\ \A t \in DOMAIN last : last[t] > since
  /\ \A p \in fresh : \A m \in bucket[p] : m[2] > since

IInv ==
  TypeOK /\ RenderingPauses /\ OwedIsReady /\ NothingOld /\ MessagesHanded

-----------------------------------------------------------------------------
(* The initial state and the steps.                                         *)

LEMMA InitIInv == Init => IInv
<1> SUFFICES ASSUME Init PROVE IInv
  OBVIOUS
<1>1. TypeOK
  <2>1. /\ DOMAIN last = {} /\ Range(last) = {}
        /\ NoTopics \in [Panels -> SUBSET Topics]
        /\ NoTopics \in [Panels -> SUBSET (Topics \X (1..frame))]
    BY DEF Init, NoTopics, Range
  <2>2. player \in 1..MaxPlayers /\ frame \in 0..MaxFrames
        /\ since \in 0..frame /\ calls \in 0..MaxCalls
    BY PipelineAssumption DEF Init
  <2> QED
    BY <2>1, <2>2 DEF Init, TypeOK
<1>2. RenderingPauses /\ OwedIsReady /\ NothingOld
  BY DEF Init, RenderingPauses, OwedIsReady, NothingOld
<1>3. MessagesHanded
  BY DEF Init, MessagesHanded, NoTopics
<1> QED
  BY <1>1, <1>2, <1>3 DEF IInv

LEMMA EmitKeeps ==
  ASSUME IInv, NEW topics \in SUBSET Topics, NEW reset \in BOOLEAN,
         Emit(topics, reset)
  PROVE  IInv'
<1> DEFINE listed == Reset(reset, NoTopics, subs)
           lasts == Reset(reset, <<>>, last)
<1>1. /\ listed \in [Panels -> SUBSET Topics]
      /\ DOMAIN lasts \subseteq Topics
      /\ \A t \in DOMAIN lasts : lasts[t] \in 1..frame /\ lasts[t] > since'
  BY DEF IInv, TypeOK, NothingOld, Emit, Reset, NoTopics, Range
<1>2. /\ frame' = frame + 1 /\ frame \in Nat /\ frame' \in 0..MaxFrames
      /\ since' \in 0..frame
  BY PipelineAssumption DEF IInv, TypeOK, Emit
<1>3. /\ bucket' = [p \in Panels |-> {<<t, frame'>> : t \in listed[p] \cap topics}]
      /\ owed' = bucket' /\ handed' = NoTopics
  BY <1>2 DEF Emit, Bucketed
<1>4. /\ last' = [t \in topics \cup DOMAIN lasts |->
                   IF t \in topics THEN frame' ELSE lasts[t]]
      /\ DOMAIN last' = topics \cup DOMAIN lasts
      /\ \A t \in DOMAIN last' : last'[t] \in 1..frame' /\ last'[t] > since'
  BY <1>1, <1>2 DEF Emit
<1>5. {bucket', owed', handed'} \subseteq [Panels -> SUBSET (Topics \X (1..frame'))]
  BY <1>1, <1>2, <1>3 DEF NoTopics
<1>6. TypeOK'
  <2>1. /\ subs' \in [Panels -> SUBSET Topics]
        /\ DOMAIN last' \subseteq Topics /\ Range(last') \subseteq 1..frame'
    BY <1>1, <1>4 DEF Emit, Range
  <2>2. /\ player' \in 1..MaxPlayers /\ since' \in 0..frame'
        /\ unheard' \subseteq DOMAIN last'
    BY <1>2, <1>4, PipelineAssumption DEF IInv, TypeOK, Emit
  <2>3. /\ changed' \subseteq {"frame", "subscriptions", "id"}
        /\ fresh' \cup excused' \cup slow' \subseteq Panels
        /\ phase' = "render" /\ "frame" \in changed'
        /\ waitFor' # {} => phase' = "waiting"
    BY DEF IInv, TypeOK, Emit
  <2> QED
    BY <1>2, <1>5, <2>1, <2>2, <2>3 DEF IInv, TypeOK, Emit
<1>7. RenderingPauses'
  BY DEF IInv, TypeOK, RenderingPauses, Emit, Pause, Mounted
<1>8. OwedIsReady'
  <2> SUFFICES ASSUME NEW p \in Panels \ excused'
               PROVE  /\ ~rendering'[p]
                      /\ owed'[p] \subseteq bucket'[p]
                      /\ owed'[p] # {} => p \in fresh'
    BY DEF OwedIsReady
  <2>1. ~rendering'[p]
    BY DEF IInv, TypeOK, RenderingPauses, Emit
  <2>2. owed'[p] # {} => bucket'[p] # bucket[p]
    <3>1. ASSUME NEW m \in owed'[p] PROVE m[2] = frame' /\ m \in bucket'[p]
      BY <1>3, <3>1
    <3>2. ASSUME NEW m \in bucket[p] PROVE m[2] \in 1..frame
      BY <3>2 DEF IInv, TypeOK
    <3> QED
      BY <1>2, <3>1, <3>2
  <2> QED
    BY <1>3, <2>1, <2>2 DEF Emit
<1>9. NothingOld' /\ MessagesHanded'
  <2>1. \A p \in Panels : \A m \in bucket'[p] : m[2] > since'
    BY <1>2, <1>3
  <2>2. phase' = "render" /\ fresh' \subseteq Panels
    BY DEF Emit
  <2>3. \A p \in Panels : handed'[p] = {}
    BY <1>3 DEF NoTopics
  <2> QED
    BY <1>4, <2>1, <2>2, <2>3 DEF NothingOld, MessagesHanded
<1> QED
  BY <1>6, <1>7, <1>8, <1>9 DEF IInv

LEMMA SetSubscriptionsKeeps ==
  ASSUME IInv, NEW p \in Panels, NEW topics \in SUBSET Topics,
         SetSubscriptions(p, topics)
  PROVE  IInv'
<1> DEFINE new == (topics \ subs[p]) \cap DOMAIN last
           pairs == {<<t, last[t]>> : t \in new}
<1>1. /\ DOMAIN last' \subseteq DOMAIN last
      /\ \A t \in DOMAIN last' : last'[t] = last[t]
      /\ \A t \in DOMAIN last : last[t] \in 1..frame /\ last[t] > since
      /\ unheard' \subseteq DOMAIN last'
  BY DEF IInv, TypeOK, NothingOld, SetSubscriptions, Restrict, Range
<1>2. /\ pairs \subseteq Topics \X (1..frame)
      /\ \A m \in pairs : m[2] > since
  BY <1>1 DEF IInv, TypeOK
<1>3. \/ UNCHANGED <<bucket, fresh, excused>>
      \/ /\ bucket' = [bucket EXCEPT ![p] = pairs]
         /\ fresh' = fresh \cup {p} /\ excused' = excused \cup {p}
  BY DEF SetSubscriptions, Inject
<1>4. /\ UNCHANGED <<phase, asked, waitFor, debounced, told, player, frame, since,
                     rendering, owed, handed, slow>>
      /\ calls' \in 0..MaxCalls
      /\ changed' = changed \cup {"subscriptions"}
  BY PipelineAssumption
  DEF IInv, TypeOK, SetSubscriptions, listener, playerSide
<1>5. TypeOK'
  <2>1. /\ bucket' \in [Panels -> SUBSET (Topics \X (1..frame'))]
        /\ fresh' \cup excused' \subseteq Panels
    BY <1>2, <1>3, <1>4 DEF IInv, TypeOK
  <2>2. /\ subs' \in [Panels -> SUBSET Topics]
        /\ stale' \in BOOLEAN
    BY DEF IInv, TypeOK, SetSubscriptions
  <2>3. DOMAIN last' \subseteq Topics /\ Range(last') \subseteq 1..frame'
    BY <1>1, <1>4 DEF IInv, TypeOK, Range
  <2> QED
    BY <1>1, <1>4, <2>1, <2>2, <2>3 DEF IInv, TypeOK
<1>6. RenderingPauses' /\ OwedIsReady'
  BY <1>3, <1>4 DEF IInv, TypeOK, RenderingPauses, OwedIsReady, Pause, Mounted
<1>7. NothingOld' /\ MessagesHanded'
  BY <1>1, <1>2, <1>3, <1>4 DEF IInv, TypeOK, NothingOld, MessagesHanded
<1> QED
  BY <1>5, <1>6, <1>7 DEF IInv

LEMMA CommitKeeps ==
  ASSUME IInv, Commit
  PROVE  IInv'
<1> DEFINE start == {p \in fresh : ~rendering[p]}
<1>1. /\ UNCHANGED <<subs, last, bucket, waitFor, told, player, frame, since,
                     calls, owed, excused, slow, unheard, stale>>
      /\ changed' = {} /\ fresh' = {} /\ "id" \notin changed
      /\ phase' = (IF phase = "render" THEN "timer" ELSE phase)
  BY DEF Commit, RenderDone
<1>2. /\ start \subseteq Panels
      /\ asked' = asked \cup {Pause(p) : p \in start}
      /\ rendering' = [p \in Panels |-> rendering[p] \/ p \in start]
      /\ handed' = [p \in Panels |-> IF p \in start THEN handed[p] \cup bucket[p]
                                     ELSE handed[p]]
      /\ \A p \in Panels : Pause(p)' = Pause(p)
  BY <1>1 DEF IInv, TypeOK, Commit, Pause, Mounted
<1>3. TypeOK'
  <2>1. handed' \in [Panels -> SUBSET (Topics \X (1..frame'))]
    BY <1>1, <1>2 DEF IInv, TypeOK
  <2>2. asked' \subseteq Panels \X (1..MaxPlayers)
    BY <1>1, <1>2 DEF IInv, TypeOK, Pause, Mounted
  <2>3. debounced' \in {Nil} \cup SUBSET Topics
    BY DEF IInv, TypeOK, Commit, Debounce, Merged
  <2> QED
    BY <1>1, <1>2, <2>1, <2>2, <2>3 DEF IInv, TypeOK
<1>4. RenderingPauses'
  BY <1>1, <1>2 DEF IInv, RenderingPauses
<1>5. OwedIsReady' /\ NothingOld'
  BY <1>1 DEF IInv, OwedIsReady, NothingOld
<1>6. MessagesHanded'
  <2>1. ASSUME NEW p \in Panels \ excused, phase' # "render"
        PROVE  owed'[p] \subseteq handed'[p]
    BY <1>1, <1>2, <2>1 DEF IInv, OwedIsReady, MessagesHanded
  <2>2. ASSUME NEW p \in Panels, NEW m \in handed'[p] PROVE m[2] > since
    BY <1>2, <2>2 DEF IInv, NothingOld, MessagesHanded
  <2> QED
    BY <1>1, <2>1, <2>2 DEF MessagesHanded
<1> QED
  BY <1>3, <1>4, <1>5, <1>6 DEF IInv

LEMMA CommitRemountKeeps ==
  ASSUME IInv, CommitRemount
  PROVE  IInv'
<1>1. TypeOK'
  <2>1. /\ NoTopics \in [Panels -> SUBSET Topics]
        /\ NoTopics \in [Panels -> SUBSET (Topics \X (1..frame'))]
    BY DEF NoTopics
  <2>2. /\ DOMAIN last' \subseteq Topics /\ Range(last') \subseteq 1..frame'
        /\ unheard' \subseteq DOMAIN last'
    <3>1. /\ last' = [t \in DOMAIN last \ Merged(subs) |-> last[t]]
          /\ frame' = frame /\ unheard' = unheard \ Merged(subs)
      BY DEF CommitRemount, Restrict
    <3>2. \A t \in DOMAIN last' : t \in DOMAIN last /\ last'[t] = last[t]
      BY <3>1
    <3> QED
      BY <3>1, <3>2 DEF IInv, TypeOK, Range
  <2>3. debounced' \in {Nil} \cup SUBSET Topics
    BY DEF IInv, TypeOK, CommitRemount, Debounce, Merged
  <2>4. /\ subs' = NoTopics /\ owed' = NoTopics /\ handed' = NoTopics
        /\ fresh' = {} /\ excused' = {} /\ slow' = {}
        /\ changed' = {"subscriptions"}
        /\ rendering' \in [Panels -> BOOLEAN]
        /\ phase' \in {"idle", "timer", "waiting"}
        /\ waitFor' # {} => phase' = "waiting"
    BY DEF IInv, TypeOK, CommitRemount, RenderDone
  <2>5. UNCHANGED <<bucket, asked, waitFor, told, player, frame, since, calls,
                   stale>>
    BY DEF CommitRemount
  <2> QED
    BY <2>1, <2>2, <2>3, <2>4, <2>5 DEF IInv, TypeOK
<1>2. RenderingPauses' /\ OwedIsReady'
  BY DEF CommitRemount, RenderDone, RenderingPauses, OwedIsReady
<1>3. NothingOld'
  BY DEF IInv, NothingOld, CommitRemount, Restrict
<1>4. MessagesHanded'
  BY DEF CommitRemount, MessagesHanded, NoTopics
<1> QED
  BY <1>1, <1>2, <1>3, <1>4 DEF IInv

(* A pause that is over was not the one of a panel that still renders.      *)
LEMMA ResumeKeeps ==
  ASSUME IInv, NEW pause, Resume(pause),
         rendering' \in [Panels -> BOOLEAN], slow' \subseteq slow,
         \A p \in Panels : rendering'[p] =>
           rendering[p] /\ Pause(p) # pause /\ (p \in slow => p \in slow')
  PROVE  IInv'
<1>1. /\ UNCHANGED <<subs, last, bucket, changed, fresh, phase, debounced, told,
                     player, frame, since, calls, owed, handed, excused,
                     unheard, stale>>
      /\ asked' = asked \ {pause} /\ waitFor' = waitFor \ {pause}
  BY DEF Resume, store, playerSide
<1>2. TypeOK'
  BY <1>1 DEF IInv, TypeOK
<1>3. RenderingPauses'
  BY <1>1 DEF IInv, RenderingPauses, Pause, Mounted
<1>4. OwedIsReady' /\ NothingOld' /\ MessagesHanded'
  BY <1>1 DEF IInv, OwedIsReady, NothingOld, MessagesHanded
<1> QED
  BY <1>2, <1>3, <1>4 DEF IInv

LEMMA DoneKeeps ==
  ASSUME IInv, NEW p \in Panels, Done(p)
  PROVE  IInv'
<1>1. /\ rendering' \in [Panels -> BOOLEAN] /\ slow' \subseteq slow
      /\ \A q \in Panels : rendering'[q] =>
           rendering[q] /\ Pause(q) # Pause(p) /\ (q \in slow => q \in slow')
  BY DEF IInv, TypeOK, Done, Pause
<1> QED
  BY <1>1, ResumeKeeps DEF Done

LEMMA UnmountedDoneKeeps ==
  ASSUME IInv, NEW pause \in asked \cup waitFor, UnmountedDone(pause)
  PROVE  IInv'
<1>1. /\ rendering' \in [Panels -> BOOLEAN] /\ slow' \subseteq slow
      /\ \A q \in Panels : rendering'[q] =>
           rendering[q] /\ Pause(q) # pause /\ (q \in slow => q \in slow')
  BY DEF IInv, TypeOK, UnmountedDone, Pause, Mounted
<1> QED
  BY <1>1, ResumeKeeps DEF UnmountedDone

LEMMA TimersKeep ==
  ASSUME IInv, Timers
  PROVE  IInv'
<1>1. CASE FrameTimer
  BY <1>1
  DEF IInv, TypeOK, RenderingPauses, OwedIsReady, NothingOld, MessagesHanded,
      FrameTimer, FrameOver, store, playerSide, history, Pause, Mounted
<1>2. CASE PausesOver
  BY <1>2
  DEF IInv, TypeOK, RenderingPauses, OwedIsReady, NothingOld, MessagesHanded,
      PausesOver, store, playerSide, history, Pause, Mounted
<1>3. CASE PauseTimeout
  BY <1>3
  DEF IInv, TypeOK, RenderingPauses, OwedIsReady, NothingOld, MessagesHanded,
      PauseTimeout, store, playerSide, Pause, Mounted
<1> QED
  BY <1>1, <1>2, <1>3 DEF Timers

LEMMA FireDebounceKeeps ==
  ASSUME IInv, FireDebounce
  PROVE  IInv'
<1>1. told' \subseteq Topics /\ debounced' \in {Nil} \cup SUBSET Topics
  BY DEF IInv, TypeOK, FireDebounce
<1> QED
  BY <1>1
  DEF IInv, TypeOK, RenderingPauses, OwedIsReady, NothingOld, MessagesHanded,
      FireDebounce, store, listener, history, Pause, Mounted

LEMMA ChangePlayerKeeps ==
  ASSUME IInv, ChangePlayer
  PROVE  IInv'
<1>1. /\ NoTopics \in [Panels -> SUBSET Topics]
      /\ NoTopics \in [Panels -> SUBSET (Topics \X (1..frame'))]
      /\ DOMAIN last' = {} /\ Range(last') = {}
  BY DEF NoTopics, ChangePlayer, Range
<1>2. player' \in 1..MaxPlayers /\ since' \in 0..frame'
  BY PipelineAssumption DEF IInv, TypeOK, ChangePlayer
<1>3. TypeOK'
  BY <1>1, <1>2 DEF IInv, TypeOK, ChangePlayer
<1>4. RenderingPauses' /\ OwedIsReady' /\ NothingOld'
  BY <1>1 DEF ChangePlayer, RenderingPauses, OwedIsReady, NothingOld
<1>5. MessagesHanded'
  BY DEF ChangePlayer, MessagesHanded, NoTopics
<1> QED
  BY <1>3, <1>4, <1>5 DEF IInv

LEMMA StutterKeeps ==
  ASSUME IInv, UNCHANGED vars
  PROVE  IInv'
BY DEF IInv, TypeOK, RenderingPauses, OwedIsReady, NothingOld, MessagesHanded,
       vars, store, listener, playerSide, history, Pause, Mounted

-----------------------------------------------------------------------------
(* The theorems.                                                            *)

(* The strengthened invariant holds in every reachable state.               *)
THEOREM Inductive == Spec => []IInv
<1>1. IInv /\ [Next]_vars => IInv'
  BY EmitKeeps, SetSubscriptionsKeeps, CommitKeeps, CommitRemountKeeps,
     DoneKeeps, UnmountedDoneKeeps, TimersKeep, FireDebounceKeeps,
     ChangePlayerKeeps, StutterKeeps
  DEF Next, React
<1> QED
  BY InitIInv, <1>1, PTL DEF Spec

(* Every variable of the pipeline keeps its type.                           *)
THEOREM TypeCorrect == Spec => []TypeOK
<1>1. IInv => TypeOK
  BY DEF IInv
<1> QED
  BY Inductive, <1>1, PTL

(* Once a frame is rendered every panel that is not excused was given all   *)
(* the frame has for it, and no panel was given a message of an earlier     *)
(* player, whatever panels subscribe, pause, render and take how long.      *)
THEOREM FramesReachPanels == Spec => []MessagesHanded
<1>1. IInv => MessagesHanded
  BY DEF IInv
<1> QED
  BY Inductive, <1>1, PTL

=============================================================================
