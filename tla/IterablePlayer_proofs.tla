------------------------ MODULE IterablePlayer_proofs ------------------------
(***************************************************************************)
(* Proofs about IterablePlayer: its type invariant, and that none of its   *)
(* "Invariant: ..." exceptions is thrown.                                  *)
(*                                                                         *)
(* The types are kept only because of where the state machine may stand:   *)
(* Control says which state a step belongs to and what may be requested    *)
(* there (Places, Requests), what is timed by then (Timed), who has an     *)
(* iterator (Iterating) and which topics a tick started with (Topics).     *)
(***************************************************************************)
EXTENDS IterablePlayer, FiniteSetTheorems, WellFoundedInduction, TLAPS

-----------------------------------------------------------------------------
(* Least and greatest numbers of sets of natural numbers.  That there is a *)
(* least one is also how facts about numbers are proved by induction:      *)
(* there is no least number they fail for.                                 *)

NatLess == OpToRel(<, Nat)

(* A set of natural numbers has a least element.                           *)
LEMMA LeastExists ==
  ASSUME NEW S \in SUBSET Nat, S # {}
  PROVE  \E i \in S : \A j \in S : i <= j
<1>1. IsWellFoundedOn(NatLess, Nat)
  BY NatLessThanWellFounded DEF NatLess
<1>2. PICK i \in S : \A j \in S : <<j, i>> \notin NatLess
  BY <1>1, WFMin, Zenon
<1>3. ASSUME NEW j \in S PROVE i <= j
  <2>1. <<j, i>> \notin NatLess
    BY <1>2
  <2> QED
    BY <2>1 DEF NatLess, OpToRel
<1> QED
  BY <1>3

(* A bounded set of natural numbers has a greatest one.                    *)
LEMMA GreatestExists ==
  ASSUME NEW n \in Nat, NEW S \in SUBSET (0..n), S # {}
  PROVE  \E i \in S : \A j \in S : j <= i
<1> DEFINE T == {k \in 0..n : n - k \in S}
<1>1. T \in SUBSET Nat
  OBVIOUS
<1>2. T # {}
  <2>1. PICK i \in S : TRUE
    OBVIOUS
  <2> QED
    BY <2>1, n - i \in T
<1>3. PICK k \in T : \A l \in T : k <= l
  <2> HIDE DEF T
  <2> QED
    BY <1>1, <1>2, LeastExists
<1>4. ASSUME NEW j \in S PROVE j <= n - k
  BY <1>3, n - j \in T
<1> QED
  BY <1>3, <1>4

-----------------------------------------------------------------------------
(* The source.                                                              *)

(* The results are ordered by time, and a message is later than the stamps *)
(* before it.                                                              *)
LEMMA ResultsFacts ==
  /\ Len(Results) \in Nat
  /\ \A i \in 1..Len(Results) : Results[i].time \in Nat
  /\ \A i, j \in 1..Len(Results) : i < j => Results[i].time <= Results[j].time
  /\ \A i \in 1..Len(Results), j \in Messages :
       i < j /\ Results[i].type = "stamp" => Results[i].time < Results[j].time
  /\ Messages \subseteq 1..Len(Results)
  /\ ~hasTopics => Len(Results) = 0 /\ Messages = {}
<1>1. CASE hasTopics
  <2>1. Results = Source
    BY <1>1 DEF Results
  <2>2. /\ Len(Source) \in Nat
        /\ \A i \in 1..Len(Source) : Source[i].time \in Nat
    <3> DEFINE Kinds == {"message-event", "problem", "stamp"}
               Record == [type : Kinds, time : Nat]
    <3>1. Source \in Seq(Record)
      BY PlayerAssumption
    <3>2. Len(Source) \in Nat /\ \A i \in 1..Len(Source) : Source[i] \in Record
      <4> HIDE DEF Record
      <4> QED
        BY <3>1
    <3> QED
      BY <3>2
  <2>3. \A i, j \in 1..Len(Source) : i < j => Source[i].time <= Source[j].time
    BY PlayerAssumption
  <2>4. \A j \in Messages :
          j \in 1..Len(Source) /\ Source[j].type = "message-event"
    BY <2>1 DEF Messages
  <2>5. \A i \in 1..Len(Source), j \in Messages :
          i < j /\ Source[i].type = "stamp" => Source[i].time < Source[j].time
    BY <2>4, StampAssumption
  <2> QED
    BY <1>1, <2>1, <2>2, <2>3, <2>4, <2>5
<1>2. CASE ~hasTopics
  <2>1. Len(Results) = 0
    BY <1>2 DEF Results
  <2> QED
    BY <2>1 DEF Messages
<1> QED
  BY <1>1, <1>2

(* After is the place where the results later than t begin.                 *)
LEMMA AfterFacts ==
  ASSUME NEW t \in {None} \cup Nat
  PROVE  /\ After(t) \in 1..(Len(Results) + 1)
         /\ \A i \in 1..Len(Results) : Results[i].time <= t <=> i < After(t)
<1> DEFINE n == Len(Results)
           S == {i \in 1..n : Results[i].time <= t}
<1>1. n \in Nat /\ t \in Int /\ S \in SUBSET (0..n)
  BY ResultsFacts DEF None
<1>2. PICK k \in 0..n : S = 1..k
  <2>1. CASE S = {}
    BY <1>1, <2>1, S = 1..0
  <2>2. CASE S # {}
    <3>1. PICK k \in S : \A j \in S : j <= k
      <4> HIDE DEF n, S
      <4> QED
        BY <1>1, <2>2, GreatestExists
    <3>2. ASSUME NEW j \in 1..k PROVE j \in S
      BY <1>1, <3>1, ResultsFacts
    <3> QED
      BY <1>1, <3>1, <3>2
  <2> QED
    BY <2>1, <2>2
<1>3. Cardinality(S) = k
  <2>1. Cardinality(1..k) = k
    BY <1>2, FS_Interval
  <2> QED
    BY <1>2, <2>1
<1>4. After(t) = k + 1
  BY <1>3 DEF After
<1> QED
  BY <1>1, <1>2, <1>4

(* Which state the running function belongs to, and what may be asked for.  *)
Ticking == {"tickNext", "tickEmitWait", "tickEmit"}
Bounded == Ticking \cup {"startNext"}

Places ==
  /\ state = "preinit" =>
       \/ pc = "off" /\ nextState = "none"
       \/ pc = "top" /\ nextState = "initialize"
  /\ pc \in {"initWait", "initDelay"} => state = "initialize"
  /\ pc = "startNext" => state = "start-play"
  /\ pc \in {"backfill", "seekStop"} => state = "seek-backfill"
  /\ pc = "resetStop" => state = "reset-playback-iterator"
  /\ pc = "idleWait" => state = "idle"
  /\ pc \in Ticking \cup {"playLoop", "playDelay"} => state = "play"
  /\ pc \in {"closeStop", "closed"} => state = "close"
  /\ pc = "iterReturn" => state \in {"seek-backfill", "close",
                                   "reset-playback-iterator"}

Requests ==
  /\ nextState = "initialize" => state = "preinit"
  /\ nextState = "start-play" => state = "initialize" /\ pc = "top"
  /\ nextState = "reset-playback-iterator" => state = "play" /\ pc = "top"
  /\ nextState = "play" => state = "idle" \/ pc = "top"
  /\ nextState = "idle" => state = "play" \/ pc = "top"
  /\ nextState # "preinit"
  /\ "close" \in {state, nextState} => closeCalled
  /\ abort = "idle" => pc = "idleWait"
  /\ abort = "backfill" => pc \in {"backfill", "seekStop"}

Untimed == {"preinit", "initialize", "close"}

Timed ==
  /\ currentTime = None =>
       /\ state \in Untimed /\ pc # "initDelay"
       /\ nextState \in {"none", "initialize", "close"}
  /\ pc \in Bounded \cup {"backfill", "seekStop"} => goal # None
  /\ pc = "startNext" => goal = StopTime

Unread == state \in {"preinit", "initialize"}
            \/ (state = "start-play" /\ pc = "enter")

Iterating ==
  /\ Unread =>
       /\ iterator = 0 /\ producer = "none"
       /\ lastMessage = 0 /\ lastStamp = None
       /\ messages = {} /\ ~newSeek /\ shown = 1
  /\ state \in {"idle", "play"} \/ nextState \in {"idle", "play"}
       => iterator # 0
  /\ pc \in {"iterReturn", "enter"} =>
       nextState \in {"none", "seek-backfill", "close"}
  /\ pc \in {"enter", "initWait", "initDelay", "backfill", "seekStop",
             "resetStop", "closeStop", "closed"}
       => state \in {"idle", "play"} \/ iterator = 0
  /\ pc = "startNext" => iterator # 0

Topics ==
  /\ hasTopics /\ currentTime # None => topics = "all"
  /\ hasTopics /\ pc \in Ticking \cup {"playLoop", "playDelay"}
       => playTopics = "all"
  /\ "reset-playback-iterator" \in {state, nextState} => ~hasTopics

Control == Places /\ Requests /\ Timed /\ Iterating /\ Topics

-----------------------------------------------------------------------------
(* What an emit does to the variables it changes.                           *)
EmitVars ==
  /\ messages \subseteq {0} \cup Messages
  /\ {newSeek, calling, pending} \subseteq BOOLEAN
  /\ shown \in 1..(Len(Results) + 1)

(* TypeOK in four parts, each small enough for one leaf.                    *)
ControlTypes ==
  /\ state \in States /\ nextState \in States \cup {"none"}
  /\ pc \in {"off", "top", "enter", "iterReturn", "initWait", "initDelay",
             "startNext", "backfill", "seekStop", "resetStop", "idleWait",
             "playLoop", "tickNext", "tickEmitWait", "tickEmit", "playDelay",
             "closeStop", "closed"}
  /\ abort \in {"none", "idle", "backfill"}
  /\ {topics, playTopics} \subseteq {"empty", "tf", "all"}
  /\ producer \in {"none", "set", "failed"}

FlagTypes ==
  {hasTopics, mayFail, oldStamp, abandoned, isPlaying, hasError, calling,
   pending, newSeek, ahead, closeCalled, wantPlay, dropped} \subseteq BOOLEAN

TimeTypes ==
  /\ {goal, currentTime, untilTime, seekTarget} \subseteq {None} \cup Nat
  /\ lastStamp \in {None} \cup Nat /\ calls \in 0..MaxCalls

DataTypes ==
  /\ iterator \in 0..(Len(Results) + 1)
  /\ lastMessage \in {0} \cup Messages /\ batch \subseteq Messages
  /\ messages \subseteq {0} \cup Messages
  /\ shown \in 1..(Len(Results) + 1)

(* An emit keeps the types of what it changes.                             *)
LEMMA EmitTypes ==
  ASSUME TypeOK, NEW given \in SUBSET ({0} \cup Messages),
         NEW time \in {None} \cup Nat, NEW seek \in BOOLEAN,
         NEW error \in BOOLEAN, EmitStateImpl(given, time, seek, error)
  PROVE  /\ messages' \subseteq {0} \cup Messages
         /\ {newSeek', calling', pending'} \subseteq BOOLEAN
         /\ shown' \in 1..(Len(Results) + 1)
<1>1. After(time) \in 1..(Len(Results) + 1)
  BY AfterFacts
<1>2. ASSUME given # {}
      PROVE  1 + (CHOOSE i \in given : \A j \in given : j <= i)
               \in 1..(Len(Results) + 1)
  <2>1. Len(Results) \in Nat /\ given \in SUBSET (0..Len(Results))
    BY ResultsFacts
  <2>2. \E i \in given : \A j \in given : j <= i
    BY <1>2, <2>1, GreatestExists
  <2>3. (CHOOSE i \in given : \A j \in given : j <= i) \in given
    BY <2>2
  <2>4. \A m \in given : 1 + m \in 1..(Len(Results) + 1)
    BY <2>1
  <2> QED
    BY <2>3, <2>4
<1> QED
  BY <1>1, <1>2 DEF EmitStateImpl, TypeOK

(* So does one that may have to wait for the listener.                     *)
LEMMA QueueTypes ==
  ASSUME TypeOK, NEW given \in SUBSET ({0} \cup Messages),
         NEW time \in {None} \cup Nat, NEW seek \in BOOLEAN,
         NEW error \in BOOLEAN, QueueEmitWith(given, time, seek, error),
         UNCHANGED kind
  PROVE  EmitVars'
<1>1. /\ messages' \subseteq {0} \cup Messages
      /\ {newSeek', calling', pending'} \subseteq BOOLEAN
      /\ shown' \in 1..(Len(Results) + 1)
  BY EmitTypes DEF QueueEmitWith, TypeOK
<1> QED
  BY <1>1 DEF EmitVars, kind, Results, Messages

(* Every step keeps the types.                                             *)
LEMMA TypeKeeps ==
  ASSUME TypeOK, Control, Next
  PROVE  TypeOK'
<1>0. /\ End \in Nat /\ StopTime \in Nat /\ MaxCalls \in Nat
      /\ TickRanges \subseteq Nat /\ SeekTimes \cup UntilTimes \subseteq Nat
  BY PlayerAssumption
<1>1. /\ Results' = Results /\ Messages' = Messages /\ Len(Results) \in Nat
      /\ \A i \in 1..Len(Results) : Results[i].time \in Nat
      /\ Messages \subseteq 1..Len(Results)
  BY ResultsFacts DEF Next, History, kind, Results, Messages
<1>2. After(currentTime) \in 1..(Len(Results) + 1)
  BY AfterFacts DEF TypeOK
<1>3. /\ UNCHANGED kind /\ {oldStamp', abandoned'} \subseteq BOOLEAN
      /\ newSeek \in BOOLEAN /\ hasError \in BOOLEAN /\ TRUE \in BOOLEAN
  BY DEF Next, History, CleanupListener, TypeOK
<1>4. CASE TakeState
  BY <1>1, <1>3, <1>4, <1>0
  DEF TakeState, intent, reading, emitting, rest, TypeOK, States, None, kind
<1>5. CASE IteratorReturned
  BY <1>1, <1>3, <1>5, <1>0
  DEF IteratorReturned, intent, emitting, rest, TypeOK, States, None, kind
<1>6. CASE IteratorReturnFails
  <2>1. QueueEmitWith(messages, currentTime, newSeek, TRUE)
    BY <1>6 DEF IteratorReturnFails, Crash, QueueEmit
  <2>2. currentTime \in {None} \cup Nat /\ messages \subseteq {0} \cup Messages
    BY <1>0, <1>1, <1>6
    DEF IteratorReturnFails, TypeOK, Control, Timed, Clamp, None
  <2>3. EmitVars'
    BY <1>3, <2>1, <2>2, QueueTypes
  <2>6. ControlTypes'
    BY <1>0, <1>1, <1>3, <1>6, <2>2, <2>3
    DEF EmitVars, IteratorReturnFails, Crash, TypeOK, States, None, kind,
        ControlTypes
  <2>7. FlagTypes'
    BY <1>0, <1>1, <1>3, <1>6, <2>2, <2>3
    DEF EmitVars, IteratorReturnFails, Crash, TypeOK, States, None, kind,
        FlagTypes
  <2>8. TimeTypes'
    BY <1>0, <1>1, <1>3, <1>6, <2>2, <2>3
    DEF EmitVars, IteratorReturnFails, Crash, TypeOK, States, None, kind,
        TimeTypes
  <2>9. DataTypes'
    BY <1>0, <1>1, <1>3, <1>6, <2>2, <2>3
    DEF EmitVars, IteratorReturnFails, Crash, TypeOK, States, None, kind,
        DataTypes
  <2> QED
    BY <2>6, <2>7, <2>8, <2>9
    DEF TypeOK, ControlTypes, FlagTypes, TimeTypes, DataTypes
<1>7. CASE EnterInitialize
  <2>1. QueueEmitWith(messages, currentTime, newSeek, hasError)
    BY <1>7 DEF EnterInitialize, Crash, QueueEmit
  <2>2. currentTime \in {None} \cup Nat /\ messages \subseteq {0} \cup Messages
    BY <1>0, <1>1, <1>7
    DEF EnterInitialize, TypeOK, Control, Timed, Clamp, None
  <2>3. EmitVars'
    BY <1>3, <2>1, <2>2, QueueTypes
  <2> QED
    BY <1>1, <1>3, <1>7, <2>2, <2>3, <1>0
    DEF EmitVars, EnterInitialize, Enter, QueueEmit, intent, reading, rest,
        TypeOK, States, None, kind
<1>8. CASE Initialized
  <2>1. QueueEmitWith(messages, currentTime', newSeek, hasError)
    BY <1>8 DEF Initialized, Crash, QueueEmit
  <2>2. currentTime' \in {None} \cup Nat /\ messages \subseteq {0} \cup
    Messages
    BY <1>0, <1>1, <1>8 DEF Initialized, TypeOK, Control, Timed, Clamp, None
  <2>3. EmitVars'
    BY <1>3, <2>1, <2>2, QueueTypes
  <2> QED
    BY <1>1, <1>3, <1>8, <2>2, <2>3, <1>0
    DEF EmitVars, Initialized, Clamp, reading, TypeOK, States, None, kind
<1>9. CASE InitializeFails
  <2>1. QueueEmitWith(messages, currentTime, newSeek, TRUE)
    BY <1>9 DEF InitializeFails, Crash, QueueEmit
  <2>2. currentTime \in {None} \cup Nat /\ messages \subseteq {0} \cup Messages
    BY <1>0, <1>1, <1>9
    DEF InitializeFails, TypeOK, Control, Timed, Clamp, None
  <2>3. EmitVars'
    BY <1>3, <2>1, <2>2, QueueTypes
  <2>6. ControlTypes'
    BY <1>0, <1>1, <1>3, <1>9, <2>2, <2>3
    DEF EmitVars, InitializeFails, EndState, reading, TypeOK, States, None,
        kind, ControlTypes
  <2>7. FlagTypes'
    BY <1>0, <1>1, <1>3, <1>9, <2>2, <2>3
    DEF EmitVars, InitializeFails, EndState, reading, TypeOK, States, None,
        kind, FlagTypes
  <2>8. TimeTypes'
    BY <1>0, <1>1, <1>3, <1>9, <2>2, <2>3
    DEF EmitVars, InitializeFails, EndState, reading, TypeOK, States, None,
        kind, TimeTypes
  <2>9. DataTypes'
    BY <1>0, <1>1, <1>3, <1>9, <2>2, <2>3
    DEF EmitVars, InitializeFails, EndState, reading, TypeOK, States, None,
        kind, DataTypes
  <2> QED
    BY <2>6, <2>7, <2>8, <2>9
    DEF TypeOK, ControlTypes, FlagTypes, TimeTypes, DataTypes
<1>10. CASE StartDelayOver
  BY <1>1, <1>3, <1>10, <1>0
  DEF StartDelayOver, EndIn, intent, reading, emitting, rest, TypeOK, States,
      None, kind
<1>11. CASE EnterStartPlaySeek
  BY <1>1, <1>3, <1>11, <1>0
  DEF EnterStartPlaySeek, Enter, EndIn, intent, reading, emitting, rest,
      TypeOK, States, None, kind
<1>12. CASE EnterStartPlay
  BY <1>1, <1>3, <1>12, <1>0
  DEF EnterStartPlay, Enter, intent, rest, TypeOK, States, None, kind, Control,
      Places, Timed, Iterating, Untimed, Bounded, Ticking
<1>13. CASE StartReads
  BY <1>1, <1>3, <1>13, <1>0
  DEF StartReads, GoesOn, Keep, machine, intent, emitting, rest, Done, Item,
      TypeOK, States, None, kind, Control, Places, Timed, Iterating, Untimed,
      Bounded, Ticking
<1>14. CASE StartInterrupted
  BY <1>1, <1>3, <1>14, <1>0
  DEF StartInterrupted, Done, Discard, EndState, intent, emitting, rest,
      TypeOK, States, None, kind, Control, Places, Timed, Iterating, Untimed,
      Bounded, Ticking
<1>15. CASE StartFinishes
  <2>1. QueueEmitWith(batch, StopTime, newSeek, hasError)
    BY <1>15 DEF StartFinishes, Crash, QueueEmit
  <2>2. StopTime \in {None} \cup Nat /\ batch \subseteq {0} \cup Messages
    BY <1>0, <1>1, <1>15 DEF StartFinishes, TypeOK, Control, Timed, Clamp, None
  <2>3. EmitVars'
    BY <1>3, <2>1, <2>2, QueueTypes
  <2>6. ControlTypes'
    BY <1>0, <1>1, <1>3, <1>15, <2>2, <2>3
    DEF EmitVars, StartFinishes, Done, GoesOn, Save, EndIn, intent, rest, Item,
        TypeOK, States, None, kind, Control, Places, Timed, Iterating, Untimed,
        Bounded, Ticking, ControlTypes
  <2>7. FlagTypes'
    BY <1>0, <1>1, <1>3, <1>15, <2>2, <2>3
    DEF EmitVars, StartFinishes, Done, GoesOn, Save, EndIn, intent, rest, Item,
        TypeOK, States, None, kind, Control, Places, Timed, Iterating, Untimed,
        Bounded, Ticking, FlagTypes
  <2>8. TimeTypes'
    BY <1>0, <1>1, <1>3, <1>15, <2>2, <2>3
    DEF EmitVars, StartFinishes, Done, GoesOn, Save, EndIn, intent, rest, Item,
        TypeOK, States, None, kind, Control, Places, Timed, Iterating, Untimed,
        Bounded, Ticking, TimeTypes
  <2>9. DataTypes'
    BY <1>0, <1>1, <1>3, <1>15, <2>2, <2>3
    DEF EmitVars, StartFinishes, Done, GoesOn, Save, EndIn, intent, rest, Item,
        TypeOK, States, None, kind, Control, Places, Timed, Iterating, Untimed,
        Bounded, Ticking, DataTypes
  <2> QED
    BY <2>6, <2>7, <2>8, <2>9
    DEF TypeOK, ControlTypes, FlagTypes, TimeTypes, DataTypes
<1>16. CASE StartFails
  <2>1. QueueEmitWith(messages, currentTime, newSeek, TRUE)
    BY <1>16 DEF StartFails, Crash, QueueEmit
  <2>2. currentTime \in {None} \cup Nat /\ messages \subseteq {0} \cup Messages
    BY <1>0, <1>1, <1>16 DEF StartFails, TypeOK, Control, Timed, Clamp, None
  <2>3. EmitVars'
    BY <1>3, <2>1, <2>2, QueueTypes
  <2>6. ControlTypes'
    BY <1>0, <1>1, <1>3, <1>16, <2>2, <2>3
    DEF EmitVars, StartFails, Crash, TypeOK, States, None, kind, Control,
        Places, Timed, Iterating, Untimed, Bounded, Ticking, ControlTypes
  <2>7. FlagTypes'
    BY <1>0, <1>1, <1>3, <1>16, <2>2, <2>3
    DEF EmitVars, StartFails, Crash, TypeOK, States, None, kind, Control,
        Places, Timed, Iterating, Untimed, Bounded, Ticking, FlagTypes
  <2>8. TimeTypes'
    BY <1>0, <1>1, <1>3, <1>16, <2>2, <2>3
    DEF EmitVars, StartFails, Crash, TypeOK, States, None, kind, Control,
        Places, Timed, Iterating, Untimed, Bounded, Ticking, TimeTypes
  <2>9. DataTypes'
    BY <1>0, <1>1, <1>3, <1>16, <2>2, <2>3
    DEF EmitVars, StartFails, Crash, TypeOK, States, None, kind, Control,
        Places, Timed, Iterating, Untimed, Bounded, Ticking, DataTypes
  <2> QED
    BY <2>6, <2>7, <2>8, <2>9
    DEF TypeOK, ControlTypes, FlagTypes, TimeTypes, DataTypes
<1>17. CASE EnterSeekBackfill
  BY <1>1, <1>3, <1>17, <1>0
  DEF EnterSeekBackfill, Enter, Clamp, intent, emitting, rest, TypeOK, States,
      None, kind
<1>18. CASE SeekAck
  <2>1. QueueEmitWith({}, goal, newSeek, hasError)
    BY <1>18 DEF SeekAck, Crash, QueueEmit
  <2>2. goal \in {None} \cup Nat /\ {} \subseteq {0} \cup Messages
    BY <1>0, <1>1, <1>18 DEF SeekAck, TypeOK, Control, Timed, Clamp, None
  <2>3. EmitVars'
    BY <1>3, <2>1, <2>2, QueueTypes
  <2> QED
    BY <1>1, <1>3, <1>18, <2>2, <2>3, <1>0
    DEF EmitVars, SeekAck, machine, intent, reading, rest, TypeOK, States,
        None, kind, Control, Places, Timed, Iterating, Untimed, Bounded,
        Ticking
<1>19. CASE BackfillLoaded
  <2>1. QueueEmitWith({0}, goal, TRUE, hasError)
    BY <1>19 DEF BackfillLoaded, Crash, QueueEmit
  <2>2. goal \in {None} \cup Nat /\ {0} \subseteq {0} \cup Messages
    BY <1>0, <1>1, <1>19
    DEF BackfillLoaded, TypeOK, Control, Timed, Clamp, None
  <2>3. EmitVars'
    BY <1>3, <2>1, <2>2, QueueTypes
  <2> QED
    BY <1>1, <1>3, <1>19, <2>2, <2>3, <1>0
    DEF EmitVars, BackfillLoaded, intent, rest, TypeOK, States, None, kind,
        Control, Places, Timed, Iterating, Untimed, Bounded, Ticking
<1>20. CASE BackfillInterrupted
  BY <1>1, <1>3, <1>20, <1>0
  DEF BackfillInterrupted, ClearTarget, reading, emitting, rest, TypeOK,
      States, None, kind
<1>21. CASE SeekFails
  <2>1. QueueEmitWith(messages, currentTime, newSeek, TRUE)
    BY <1>21 DEF SeekFails, Crash, QueueEmit
  <2>2. currentTime \in {None} \cup Nat /\ messages \subseteq {0} \cup Messages
    BY <1>0, <1>1, <1>21 DEF SeekFails, TypeOK, Control, Timed, Clamp, None
  <2>3. EmitVars'
    BY <1>3, <2>1, <2>2, QueueTypes
  <2>6. ControlTypes'
    BY <1>0, <1>1, <1>3, <1>21, <2>2, <2>3
    DEF EmitVars, SeekFails, Crash, ClearTarget, TypeOK, States, None, kind,
        ControlTypes
  <2>7. FlagTypes'
    BY <1>0, <1>1, <1>3, <1>21, <2>2, <2>3
    DEF EmitVars, SeekFails, Crash, ClearTarget, TypeOK, States, None, kind,
        FlagTypes
  <2>8. TimeTypes'
    BY <1>0, <1>1, <1>3, <1>21, <2>2, <2>3
    DEF EmitVars, SeekFails, Crash, ClearTarget, TypeOK, States, None, kind,
        TimeTypes
  <2>9. DataTypes'
    BY <1>0, <1>1, <1>3, <1>21, <2>2, <2>3
    DEF EmitVars, SeekFails, Crash, ClearTarget, TypeOK, States, None, kind,
        DataTypes
  <2> QED
    BY <2>6, <2>7, <2>8, <2>9
    DEF TypeOK, ControlTypes, FlagTypes, TimeTypes, DataTypes
<1>22. CASE SeekEnds
  BY <1>1, <1>2, <1>3, <1>22, <1>0
  DEF SeekEnds, NewIterator, EndIn, Resume, ClearTarget, emitting, rest,
      TypeOK, States, None, kind, Control, Places, Timed, Iterating, Untimed,
      Bounded, Ticking
<1>23. CASE EnterReset
  BY <1>1, <1>3, <1>23, <1>0
  DEF EnterReset, Enter, intent, reading, emitting, rest, TypeOK, States, None,
      kind
<1>24. CASE ResetEnds
  BY <1>1, <1>2, <1>3, <1>24, <1>0
  DEF ResetEnds, NewIterator, EndIn, Resume, intent, emitting, rest, TypeOK,
      States, None, kind, Control, Places, Timed, Iterating, Untimed, Bounded,
      Ticking
<1>25. CASE ResetFails
  <2>1. QueueEmitWith(messages, currentTime, newSeek, TRUE)
    BY <1>25 DEF ResetFails, Crash, QueueEmit
  <2>2. currentTime \in {None} \cup Nat /\ messages \subseteq {0} \cup Messages
    BY <1>0, <1>1, <1>25 DEF ResetFails, TypeOK, Control, Timed, Clamp, None
  <2>3. EmitVars'
    BY <1>3, <2>1, <2>2, QueueTypes
  <2>6. ControlTypes'
    BY <1>0, <1>1, <1>3, <1>25, <2>2, <2>3
    DEF EmitVars, ResetFails, Crash, TypeOK, States, None, kind, ControlTypes
  <2>7. FlagTypes'
    BY <1>0, <1>1, <1>3, <1>25, <2>2, <2>3
    DEF EmitVars, ResetFails, Crash, TypeOK, States, None, kind, FlagTypes
  <2>8. TimeTypes'
    BY <1>0, <1>1, <1>3, <1>25, <2>2, <2>3
    DEF EmitVars, ResetFails, Crash, TypeOK, States, None, kind, TimeTypes
  <2>9. DataTypes'
    BY <1>0, <1>1, <1>3, <1>25, <2>2, <2>3
    DEF EmitVars, ResetFails, Crash, TypeOK, States, None, kind, DataTypes
  <2> QED
    BY <2>6, <2>7, <2>8, <2>9
    DEF TypeOK, ControlTypes, FlagTypes, TimeTypes, DataTypes
<1>26. CASE EnterIdle
  <2>1. QueueEmitWith(messages, currentTime, newSeek, hasError)
    BY <1>26 DEF EnterIdle, Crash, QueueEmit
  <2>2. currentTime \in {None} \cup Nat /\ messages \subseteq {0} \cup Messages
    BY <1>0, <1>1, <1>26 DEF EnterIdle, TypeOK, Control, Timed, Clamp, None
  <2>3. EmitVars'
    BY <1>3, <2>1, <2>2, QueueTypes
  <2> QED
    BY <1>1, <1>3, <1>26, <2>2, <2>3, <1>0
    DEF EmitVars, EnterIdle, Enter, QueueEmit, reading, rest, TypeOK, States,
        None, kind
<1>27. CASE IdleAborted
  BY <1>1, <1>3, <1>27, <1>0
  DEF IdleAborted, EndState, intent, reading, emitting, rest, TypeOK, States,
      None, kind
<1>28. CASE EnterPlay
  BY <1>1, <1>3, <1>28, <1>0
  DEF EnterPlay, Enter, intent, reading, emitting, rest, TypeOK, States, None,
      kind, Control, Places, Timed, Iterating, Untimed, Bounded, Ticking
<1>29. CASE PlayStops
  BY <1>1, <1>3, <1>29, <1>0
  DEF PlayStops, MayTick, EndState, intent, reading, emitting, rest, TypeOK,
      States, None, kind
<1>30. CASE PlayReachesEnd
  BY <1>1, <1>3, <1>30, <1>0
  DEF PlayReachesEnd, MayTick, EndIn, emitting, rest, TypeOK, States, None,
      kind, Control, Places, Timed, Iterating, Untimed, Bounded, Ticking
<1>31. ASSUME NEW range \in TickRanges, TickStarts(range) PROVE TypeOK'
  BY <1>1, <1>3, <1>31, <1>0
  DEF TickStarts, MayTick, TickEnd, StampPast, AwaitEmit, intent, emitting,
      rest, Clamp, TypeOK, States, None, kind, Control, Places, Timed,
      Iterating, Untimed, Bounded, Ticking
<1>32. CASE TickReads
  BY <1>1, <1>3, <1>32, <1>0
  DEF TickReads, GoesOn, Keep, machine, intent, emitting, rest, Done, Item,
      TypeOK, States, None, kind, Control, Places, Timed, Iterating, Untimed,
      Bounded, Ticking
<1>33. CASE TickInterrupted
  BY <1>1, <1>3, <1>33, <1>0
  DEF TickInterrupted, Discard, EndState, intent, emitting, rest, Done, TypeOK,
      States, None, kind, Control, Places, Timed, Iterating, Untimed, Bounded,
      Ticking
<1>34. CASE TickReadsAll
  <2>1. iterator \in 1..(Len(Results) + 1)
    <3>1. state = "play"
      BY <1>34 DEF TickReadsAll, Control, Places, Ticking
    <3>2. iterator # 0
      BY <3>1 DEF Control, Iterating
    <3> QED
      BY <1>1, <3>2 DEF TypeOK
  <2>2. Done \/ Item.time \in Nat
    BY <1>1, <2>1 DEF Done, Item
  <2>6. ControlTypes'
    BY <1>0, <1>1, <1>3, <1>34, <2>1, <2>2
    DEF TickReadsAll, GoesOn, Save, AwaitEmit, intent, emitting, rest, Done,
        TypeOK, States, None, kind, ControlTypes
  <2>7. FlagTypes'
    BY <1>0, <1>1, <1>3, <1>34, <2>1, <2>2
    DEF TickReadsAll, GoesOn, Save, AwaitEmit, intent, emitting, rest, Done,
        TypeOK, States, None, kind, FlagTypes
  <2>8. TimeTypes'
    BY <1>0, <1>1, <1>3, <1>34, <2>1, <2>2
    DEF TickReadsAll, GoesOn, Save, AwaitEmit, intent, emitting, rest, Done,
        TypeOK, States, None, kind, TimeTypes
  <2>9. DataTypes'
    BY <1>0, <1>1, <1>3, <1>34, <2>1, <2>2
    DEF TickReadsAll, GoesOn, Save, AwaitEmit, intent, emitting, rest, Done,
        TypeOK, States, None, kind, DataTypes
  <2> QED
    BY <2>6, <2>7, <2>8, <2>9
    DEF TypeOK, ControlTypes, FlagTypes, TimeTypes, DataTypes
<1>35. CASE TickFails
  <2>1. QueueEmitWith(messages, currentTime, newSeek, TRUE)
    BY <1>35 DEF TickFails, Crash, QueueEmit
  <2>2. currentTime \in {None} \cup Nat /\ messages \subseteq {0} \cup Messages
    BY <1>0, <1>1, <1>35 DEF TickFails, TypeOK, Control, Timed, Clamp, None
  <2>3. EmitVars'
    BY <1>3, <2>1, <2>2, QueueTypes
  <2>6. ControlTypes'
    BY <1>0, <1>1, <1>3, <1>35, <2>2, <2>3
    DEF EmitVars, TickFails, EndState, TypeOK, States, None, kind, Control,
        Places, Timed, Iterating, Untimed, Bounded, Ticking, ControlTypes
  <2>7. FlagTypes'
    BY <1>0, <1>1, <1>3, <1>35, <2>2, <2>3
    DEF EmitVars, TickFails, EndState, TypeOK, States, None, kind, Control,
        Places, Timed, Iterating, Untimed, Bounded, Ticking, FlagTypes
  <2>8. TimeTypes'
    BY <1>0, <1>1, <1>3, <1>35, <2>2, <2>3
    DEF EmitVars, TickFails, EndState, TypeOK, States, None, kind, Control,
        Places, Timed, Iterating, Untimed, Bounded, Ticking, TimeTypes
  <2>9. DataTypes'
    BY <1>0, <1>1, <1>3, <1>35, <2>2, <2>3
    DEF EmitVars, TickFails, EndState, TypeOK, States, None, kind, Control,
        Places, Timed, Iterating, Untimed, Bounded, Ticking, DataTypes
  <2> QED
    BY <2>6, <2>7, <2>8, <2>9
    DEF TypeOK, ControlTypes, FlagTypes, TimeTypes, DataTypes
<1>36. CASE TickEmits
  <2>1. QueueEmitWith(batch, goal, newSeek, hasError)
    BY <1>36 DEF TickEmits, Crash, QueueEmit
  <2>2. goal \in {None} \cup Nat /\ batch \subseteq {0} \cup Messages
    BY <1>0, <1>1, <1>36 DEF TickEmits, TypeOK, Control, Timed, Clamp, None
  <2>3. EmitVars'
    BY <1>3, <2>1, <2>2, QueueTypes
  <2>6. ControlTypes'
    BY <1>0, <1>1, <1>3, <1>36, <2>2, <2>3
    DEF EmitVars, TickEmits, EndIn, EndState, rest, TypeOK, States, None, kind,
        Control, Places, Timed, Iterating, Untimed, Bounded, Ticking,
        ControlTypes
  <2>7. FlagTypes'
    BY <1>0, <1>1, <1>3, <1>36, <2>2, <2>3
    DEF EmitVars, TickEmits, EndIn, EndState, rest, TypeOK, States, None, kind,
        Control, Places, Timed, Iterating, Untimed, Bounded, Ticking, FlagTypes
  <2>8. TimeTypes'
    BY <1>0, <1>1, <1>3, <1>36, <2>2, <2>3
    DEF EmitVars, TickEmits, EndIn, EndState, rest, TypeOK, States, None, kind,
        Control, Places, Timed, Iterating, Untimed, Bounded, Ticking, TimeTypes
  <2>9. DataTypes'
    BY <1>0, <1>1, <1>3, <1>36, <2>2, <2>3
    DEF EmitVars, TickEmits, EndIn, EndState, rest, TypeOK, States, None, kind,
        Control, Places, Timed, Iterating, Untimed, Bounded, Ticking, DataTypes
  <2> QED
    BY <2>6, <2>7, <2>8, <2>9
    DEF TypeOK, ControlTypes, FlagTypes, TimeTypes, DataTypes
<1>37. CASE FrameOver
  BY <1>1, <1>3, <1>37, <1>0
  DEF FrameOver, intent, reading, emitting, rest, TypeOK, States, None, kind
<1>38. CASE EnterClose
  <2>6. ControlTypes'
    BY <1>0, <1>1, <1>3, <1>38
    DEF EnterClose, Enter, reading, emitting, rest, TypeOK, States, None, kind,
        ControlTypes
  <2>7. FlagTypes'
    BY <1>0, <1>1, <1>3, <1>38
    DEF EnterClose, Enter, reading, emitting, rest, TypeOK, States, None, kind,
        FlagTypes
  <2>8. TimeTypes'
    BY <1>0, <1>1, <1>3, <1>38
    DEF EnterClose, Enter, reading, emitting, rest, TypeOK, States, None, kind,
        TimeTypes
  <2>9. DataTypes'
    BY <1>0, <1>1, <1>3, <1>38
    DEF EnterClose, Enter, reading, emitting, rest, TypeOK, States, None, kind,
        DataTypes
  <2> QED
    BY <2>6, <2>7, <2>8, <2>9
    DEF TypeOK, ControlTypes, FlagTypes, TimeTypes, DataTypes
<1>39. CASE CloseEnds
  BY <1>1, <1>3, <1>39, <1>0
  DEF CloseEnds, intent, emitting, rest, TypeOK, States, None, kind
<1>40. CASE CloseFails
  <2>1. QueueEmitWith(messages, currentTime, newSeek, TRUE)
    BY <1>40 DEF CloseFails, Crash, QueueEmit
  <2>2. currentTime \in {None} \cup Nat /\ messages \subseteq {0} \cup Messages
    BY <1>0, <1>1, <1>40 DEF CloseFails, TypeOK, Control, Timed, Clamp, None
  <2>3. EmitVars'
    BY <1>3, <2>1, <2>2, QueueTypes
  <2>6. ControlTypes'
    BY <1>0, <1>1, <1>3, <1>40, <2>2, <2>3
    DEF EmitVars, CloseFails, Crash, TypeOK, States, None, kind, ControlTypes
  <2>7. FlagTypes'
    BY <1>0, <1>1, <1>3, <1>40, <2>2, <2>3
    DEF EmitVars, CloseFails, Crash, TypeOK, States, None, kind, FlagTypes
  <2>8. TimeTypes'
    BY <1>0, <1>1, <1>3, <1>40, <2>2, <2>3
    DEF EmitVars, CloseFails, Crash, TypeOK, States, None, kind, TimeTypes
  <2>9. DataTypes'
    BY <1>0, <1>1, <1>3, <1>40, <2>2, <2>3
    DEF EmitVars, CloseFails, Crash, TypeOK, States, None, kind, DataTypes
  <2> QED
    BY <2>6, <2>7, <2>8, <2>9
    DEF TypeOK, ControlTypes, FlagTypes, TimeTypes, DataTypes
<1>41. CASE EmitDone
  <2>1. CASE pending
    <3>1. EmitStateImpl(messages, currentTime, newSeek, hasError)
      BY <1>41, <2>1 DEF EmitDone
    <3>2. currentTime \in {None} \cup Nat /\ messages \subseteq {0} \cup
      Messages
      BY DEF TypeOK
    <3>3. EmitVars'
      BY <1>1, <1>3, <3>1, <3>2, EmitTypes DEF EmitVars
    <3>6. ControlTypes'
      BY <1>1, <1>3, <1>41, <2>1, <3>3, <1>0
      DEF EmitVars, EmitDone, Sync, intent, reading, rest, TypeOK, States,
          None, kind, ControlTypes
    <3>7. FlagTypes'
      BY <1>1, <1>3, <1>41, <2>1, <3>3, <1>0
      DEF EmitVars, EmitDone, Sync, intent, reading, rest, TypeOK, States,
          None, kind, FlagTypes
    <3>8. TimeTypes'
      BY <1>1, <1>3, <1>41, <2>1, <3>3, <1>0
      DEF EmitVars, EmitDone, Sync, intent, reading, rest, TypeOK, States,
          None, kind, TimeTypes
    <3>9. DataTypes'
      BY <1>1, <1>3, <1>41, <2>1, <3>3, <1>0
      DEF EmitVars, EmitDone, Sync, intent, reading, rest, TypeOK, States,
          None, kind, DataTypes
    <3> QED
      BY <3>6, <3>7, <3>8, <3>9
      DEF TypeOK, ControlTypes, FlagTypes, TimeTypes, DataTypes
  <2>2. CASE ~pending
    <3>6. ControlTypes'
      BY <1>1, <1>3, <1>41, <2>2, <1>0
      DEF EmitDone, Sync, intent, reading, rest, TypeOK, States, None, kind,
          ControlTypes
    <3>7. FlagTypes'
      BY <1>1, <1>3, <1>41, <2>2, <1>0
      DEF EmitDone, Sync, intent, reading, rest, TypeOK, States, None, kind,
          FlagTypes
    <3>8. TimeTypes'
      BY <1>1, <1>3, <1>41, <2>2, <1>0
      DEF EmitDone, Sync, intent, reading, rest, TypeOK, States, None, kind,
          TimeTypes
    <3>9. DataTypes'
      BY <1>1, <1>3, <1>41, <2>2, <1>0
      DEF EmitDone, Sync, intent, reading, rest, TypeOK, States, None, kind,
          DataTypes
    <3> QED
      BY <3>6, <3>7, <3>8, <3>9
      DEF TypeOK, ControlTypes, FlagTypes, TimeTypes, DataTypes
  <2> QED
    BY <2>1, <2>2
<1>42. CASE BlockLoadingFails
  <2>6. ControlTypes'
    BY <1>0, <1>1, <1>3, <1>42
    DEF BlockLoadingFails, Sync, machine, reading, emitting, TypeOK, States,
        None, kind, ControlTypes
  <2>7. FlagTypes'
    BY <1>0, <1>1, <1>3, <1>42
    DEF BlockLoadingFails, Sync, machine, reading, emitting, TypeOK, States,
        None, kind, FlagTypes
  <2>8. TimeTypes'
    BY <1>0, <1>1, <1>3, <1>42
    DEF BlockLoadingFails, Sync, machine, reading, emitting, TypeOK, States,
        None, kind, TimeTypes
  <2>9. DataTypes'
    BY <1>0, <1>1, <1>3, <1>42
    DEF BlockLoadingFails, Sync, machine, reading, emitting, TypeOK, States,
        None, kind, DataTypes
  <2> QED
    BY <2>6, <2>7, <2>8, <2>9
    DEF TypeOK, ControlTypes, FlagTypes, TimeTypes, DataTypes
<1>43. CASE SetListener
  BY <1>1, <1>3, <1>43, <1>0
  DEF SetListener, SetState, intent, reading, emitting, rest, machine, TypeOK,
      States, None, kind
<1>44. ASSUME NEW until \in UntilTimes \cup {None}, StartPlayback(until) PROVE
  TypeOK'
  <2>1. CASE state = "idle" /\ nextState \in {"none", "idle"}
    <3>6. ControlTypes'
      BY <1>1, <1>3, <1>44, <2>1, <1>0
      DEF StartPlayback, Call, Clamp, SetState, emitting, QueueEmit, machine,
          reading, Sync, TypeOK, States, None, kind, Control, Places, Timed,
          Iterating, Untimed, Bounded, Ticking, ControlTypes
    <3>7. FlagTypes'
      BY <1>1, <1>3, <1>44, <2>1, <1>0
      DEF StartPlayback, Call, Clamp, SetState, emitting, QueueEmit, machine,
          reading, Sync, TypeOK, States, None, kind, Control, Places, Timed,
          Iterating, Untimed, Bounded, Ticking, FlagTypes
    <3>8. TimeTypes'
      BY <1>1, <1>3, <1>44, <2>1, <1>0
      DEF StartPlayback, Call, Clamp, SetState, emitting, QueueEmit, machine,
          reading, Sync, TypeOK, States, None, kind, Control, Places, Timed,
          Iterating, Untimed, Bounded, Ticking, TimeTypes
    <3>9. DataTypes'
      BY <1>1, <1>3, <1>44, <2>1, <1>0
      DEF StartPlayback, Call, Clamp, SetState, emitting, QueueEmit, machine,
          reading, Sync, TypeOK, States, None, kind, Control, Places, Timed,
          Iterating, Untimed, Bounded, Ticking, DataTypes
    <3> QED
      BY <3>6, <3>7, <3>8, <3>9
      DEF TypeOK, ControlTypes, FlagTypes, TimeTypes, DataTypes
  <2>2. CASE ~(state = "idle" /\ nextState \in {"none", "idle"})
    <3>1. QueueEmitWith(messages, currentTime, newSeek, hasError)
      BY <1>44, <2>2 DEF StartPlayback, QueueEmit
    <3>2. currentTime \in {None} \cup Nat /\ messages \subseteq {0} \cup
      Messages
      BY DEF TypeOK
    <3>3. EmitVars'
      BY <1>3, <3>1, <3>2, QueueTypes
    <3>6. ControlTypes'
      BY <1>1, <1>3, <1>44, <2>2, <3>3, <1>0
      DEF EmitVars, StartPlayback, Call, Clamp, SetState, emitting, QueueEmit,
          machine, reading, Sync, TypeOK, States, None, kind, Control, Places,
          Timed, Iterating, Untimed, Bounded, Ticking, ControlTypes
    <3>7. FlagTypes'
      BY <1>1, <1>3, <1>44, <2>2, <3>3, <1>0
      DEF EmitVars, StartPlayback, Call, Clamp, SetState, emitting, QueueEmit,
          machine, reading, Sync, TypeOK, States, None, kind, Control, Places,
          Timed, Iterating, Untimed, Bounded, Ticking, FlagTypes
    <3>8. TimeTypes'
      BY <1>1, <1>3, <1>44, <2>2, <3>3, <1>0
      DEF EmitVars, StartPlayback, Call, Clamp, SetState, emitting, QueueEmit,
          machine, reading, Sync, TypeOK, States, None, kind, Control, Places,
          Timed, Iterating, Untimed, Bounded, Ticking, TimeTypes
    <3>9. DataTypes'
      BY <1>1, <1>3, <1>44, <2>2, <3>3, <1>0
      DEF EmitVars, StartPlayback, Call, Clamp, SetState, emitting, QueueEmit,
          machine, reading, Sync, TypeOK, States, None, kind, Control, Places,
          Timed, Iterating, Untimed, Bounded, Ticking, DataTypes
    <3> QED
      BY <3>6, <3>7, <3>8, <3>9
      DEF TypeOK, ControlTypes, FlagTypes, TimeTypes, DataTypes
  <2> QED
    BY <2>1, <2>2
<1>45. CASE PausePlayback
  <2>1. CASE state = "play"
    <3>6. ControlTypes'
      BY <1>1, <1>3, <1>45, <2>1, <1>0
      DEF PausePlayback, Call, SetState, emitting, QueueEmit, machine, reading,
          Sync, TypeOK, States, None, kind, ControlTypes
    <3>7. FlagTypes'
      BY <1>1, <1>3, <1>45, <2>1, <1>0
      DEF PausePlayback, Call, SetState, emitting, QueueEmit, machine, reading,
          Sync, TypeOK, States, None, kind, FlagTypes
    <3>8. TimeTypes'
      BY <1>1, <1>3, <1>45, <2>1, <1>0
      DEF PausePlayback, Call, SetState, emitting, QueueEmit, machine, reading,
          Sync, TypeOK, States, None, kind, TimeTypes
    <3>9. DataTypes'
      BY <1>1, <1>3, <1>45, <2>1, <1>0
      DEF PausePlayback, Call, SetState, emitting, QueueEmit, machine, reading,
          Sync, TypeOK, States, None, kind, DataTypes
    <3> QED
      BY <3>6, <3>7, <3>8, <3>9
      DEF TypeOK, ControlTypes, FlagTypes, TimeTypes, DataTypes
  <2>2. CASE ~(state = "play")
    <3>1. QueueEmitWith(messages, currentTime, newSeek, hasError)
      BY <1>45, <2>2 DEF PausePlayback, QueueEmit
    <3>2. currentTime \in {None} \cup Nat /\ messages \subseteq {0} \cup
      Messages
      BY DEF TypeOK
    <3>3. EmitVars'
      BY <1>3, <3>1, <3>2, QueueTypes
    <3>6. ControlTypes'
      BY <1>1, <1>3, <1>45, <2>2, <3>3, <1>0
      DEF EmitVars, PausePlayback, Call, SetState, emitting, QueueEmit,
          machine, reading, Sync, TypeOK, States, None, kind, ControlTypes
    <3>7. FlagTypes'
      BY <1>1, <1>3, <1>45, <2>2, <3>3, <1>0
      DEF EmitVars, PausePlayback, Call, SetState, emitting, QueueEmit,
          machine, reading, Sync, TypeOK, States, None, kind, FlagTypes
    <3>8. TimeTypes'
      BY <1>1, <1>3, <1>45, <2>2, <3>3, <1>0
      DEF EmitVars, PausePlayback, Call, SetState, emitting, QueueEmit,
          machine, reading, Sync, TypeOK, States, None, kind, TimeTypes
    <3>9. DataTypes'
      BY <1>1, <1>3, <1>45, <2>2, <3>3, <1>0
      DEF EmitVars, PausePlayback, Call, SetState, emitting, QueueEmit,
          machine, reading, Sync, TypeOK, States, None, kind, DataTypes
    <3> QED
      BY <3>6, <3>7, <3>8, <3>9
      DEF TypeOK, ControlTypes, FlagTypes, TimeTypes, DataTypes
  <2> QED
    BY <2>1, <2>2
<1>46. ASSUME NEW time \in SeekTimes, SeekEarly(time) PROVE TypeOK'
  BY <1>1, <1>3, <1>46, <1>0
  DEF SeekEarly, Call, machine, reading, emitting, Sync, TypeOK, States, None,
      kind
<1>47. ASSUME NEW time \in SeekTimes, SeekPlayback(time) PROVE TypeOK'
  BY <1>1, <1>3, <1>47, <1>0
  DEF SeekPlayback, Call, Clamp, SetState, reading, emitting, Sync, machine,
      TypeOK, States, None, kind
<1>48. CASE SetSubscriptions
  BY <1>1, <1>3, <1>48, <1>0
  DEF SetSubscriptions, Call, SetState, machine, reading, emitting, Sync,
      TypeOK, States, None, kind
<1>49. CASE EmitAgain
  <2>1. QueueEmitWith(messages, currentTime, newSeek, hasError)
    BY <1>49 DEF EmitAgain, Crash, QueueEmit
  <2>2. currentTime \in {None} \cup Nat /\ messages \subseteq {0} \cup Messages
    BY <1>0, <1>1, <1>49 DEF EmitAgain, TypeOK, Control, Timed, Clamp, None
  <2>3. EmitVars'
    BY <1>3, <2>1, <2>2, QueueTypes
  <2> QED
    BY <1>1, <1>3, <1>49, <2>2, <2>3, <1>0
    DEF EmitVars, EmitAgain, Call, QueueEmit, machine, intent, reading, Sync,
        TypeOK, States, None, kind
<1>50. CASE CallClose
  BY <1>1, <1>3, <1>50, <1>0
  DEF CallClose, Sync, SetState, intent, reading, emitting, machine, TypeOK,
      States, None, kind
<1> QED
  BY <1>4, <1>5, <1>6, <1>7, <1>8, <1>9, <1>10, <1>11, <1>12, <1>13, <1>14,
    <1>15, <1>16, <1>17, <1>18, <1>19, <1>20, <1>21, <1>22, <1>23, <1>24,
    <1>25, <1>26, <1>27, <1>28, <1>29, <1>30, <1>31, <1>32, <1>33, <1>34,
    <1>35, <1>36, <1>37, <1>38, <1>39, <1>40, <1>41, <1>42, <1>43, <1>44,
    <1>45, <1>46, <1>47, <1>48, <1>49, <1>50 DEF Next, MachineStep, UserStep

(* Every step keeps the control.                                           *)
LEMMA ControlKeeps ==
  ASSUME TypeOK, TypeOK', Control, Next
  PROVE  Control'
<1>1. /\ hasTopics' = hasTopics
      /\ End \in Nat /\ StopTime \in Nat /\ TickRanges \subseteq Nat
  BY PlayerAssumption DEF Next, History, kind
<1>0. currentTime \in Nat => After(currentTime) \in Nat \ {0}
  BY AfterFacts, ResultsFacts
<1> USE DEF TypeOK, States, None, Control, Places, Requests, Timed, Iterating,
  Topics, Untimed, Unread, Bounded, Ticking
<1>2. CASE TakeState
  BY <1>1, <1>2 DEF TakeState, intent, reading, emitting, rest
<1>3. CASE IteratorReturned
  BY <1>1, <1>3 DEF IteratorReturned, intent, emitting, rest
<1>4. CASE IteratorReturnFails
  BY <1>1, <1>4 DEF IteratorReturnFails, Crash, QueueEmitWith, EmitStateImpl
<1>5. CASE EnterInitialize
  BY <1>1, <1>5
  DEF EnterInitialize, Enter, QueueEmit, intent, reading, rest, QueueEmitWith,
      EmitStateImpl
<1>6. CASE Initialized
  BY <1>1, <1>6 DEF Initialized, Clamp, QueueEmitWith, reading, EmitStateImpl
<1>7. CASE InitializeFails
  BY <1>1, <1>7
  DEF InitializeFails, EndState, QueueEmitWith, reading, EmitStateImpl
<1>8. CASE StartDelayOver
  BY <1>1, <1>8 DEF StartDelayOver, EndIn, intent, reading, emitting, rest
<1>9. CASE EnterStartPlaySeek
  BY <1>1, <1>9
  DEF EnterStartPlaySeek, Enter, EndIn, intent, reading, emitting, rest
<1>10. CASE EnterStartPlay
  BY <1>1, <1>10 DEF EnterStartPlay, Enter, intent, rest
<1>11. CASE StartReads
  BY <1>1, <1>11
  DEF StartReads, GoesOn, Keep, machine, intent, emitting, rest, Done, Item
<1>12. CASE StartInterrupted
  BY <1>1, <1>12
  DEF StartInterrupted, Done, Discard, EndState, intent, emitting, rest
<1>13. CASE StartFinishes
  BY <1>1, <1>13
  DEF StartFinishes, Done, GoesOn, Save, QueueEmitWith, EndIn, intent, rest,
      Item, EmitStateImpl
<1>14. CASE StartFails
  BY <1>1, <1>14 DEF StartFails, Crash, QueueEmitWith, EmitStateImpl
<1>15. CASE EnterSeekBackfill
  BY <1>1, <1>15 DEF EnterSeekBackfill, Enter, Clamp, intent, emitting, rest
<1>16. CASE SeekAck
  BY <1>1, <1>16
  DEF SeekAck, QueueEmitWith, machine, intent, reading, rest, EmitStateImpl
<1>17. CASE BackfillLoaded
  BY <1>1, <1>17 DEF BackfillLoaded, QueueEmitWith, intent, rest, EmitStateImpl
<1>18. CASE BackfillInterrupted
  BY <1>1, <1>18 DEF BackfillInterrupted, ClearTarget, reading, emitting, rest
<1>19. CASE SeekFails
  BY <1>1, <1>19
  DEF SeekFails, Crash, ClearTarget, QueueEmitWith, EmitStateImpl
<1>20. CASE SeekEnds
  <2>1. currentTime \in Nat /\ After(currentTime) \in Nat \ {0}
    <3>1. currentTime \in Nat
      BY <1>20 DEF SeekEnds
    <3> QED
      BY <1>0, <3>1
  <2>2. iterator' # 0
    BY <2>1, <1>20, ResultsFacts DEF SeekEnds, NewIterator
  <2> QED
    BY <1>1, <1>20, <2>1, <2>2
    DEF SeekEnds, NewIterator, EndIn, Resume, ClearTarget, emitting, rest
<1>21. CASE EnterReset
  BY <1>1, <1>21 DEF EnterReset, Enter, intent, reading, emitting, rest
<1>22. CASE ResetEnds
  <2>1. currentTime \in Nat /\ After(currentTime) \in Nat \ {0}
    <3>1. currentTime \in Nat
      BY <1>22 DEF ResetEnds
    <3> QED
      BY <1>0, <3>1
  <2>2. iterator' # 0
    BY <2>1, <1>22, ResultsFacts DEF ResetEnds, NewIterator
  <2> QED
    BY <1>1, <1>22, <2>1, <2>2
    DEF ResetEnds, NewIterator, EndIn, Resume, intent, emitting, rest
<1>23. CASE ResetFails
  BY <1>1, <1>23 DEF ResetFails, Crash, QueueEmitWith, EmitStateImpl
<1>24. CASE EnterIdle
  BY <1>1, <1>24
  DEF EnterIdle, Enter, QueueEmit, reading, rest, QueueEmitWith, EmitStateImpl
<1>25. CASE IdleAborted
  BY <1>1, <1>25 DEF IdleAborted, EndState, intent, reading, emitting, rest
<1>26. CASE EnterPlay
  BY <1>1, <1>26 DEF EnterPlay, Enter, intent, reading, emitting, rest
<1>27. CASE PlayStops
  BY <1>1, <1>27
  DEF PlayStops, MayTick, EndState, intent, reading, emitting, rest
<1>28. CASE PlayReachesEnd
  BY <1>1, <1>28 DEF PlayReachesEnd, MayTick, EndIn, emitting, rest
<1>29. ASSUME NEW range \in TickRanges, TickStarts(range) PROVE Control'
  <2>1. goal' \in Nat
    <3>1. state = "play" /\ goal' = TickEnd(range)
      BY <1>29 DEF TickStarts
    <3>2. currentTime \in Nat /\ untilTime \in Nat \cup {None}
      BY <3>1
    <3> QED
      BY <1>1, <3>1, <3>2 DEF TickEnd, Clamp
  <2> HIDE DEF TypeOK
  <2> QED
    BY <1>1, <1>29, <2>1
    DEF TickStarts, MayTick, StampPast, AwaitEmit, intent, emitting, rest
<1>30. CASE TickReads
  BY <1>1, <1>30
  DEF TickReads, GoesOn, Keep, machine, intent, emitting, rest, Done, Item
<1>31. CASE TickInterrupted
  BY <1>1, <1>31
  DEF TickInterrupted, Discard, EndState, intent, emitting, rest, Done
<1>32. CASE TickReadsAll
  BY <1>1, <1>32
  DEF TickReadsAll, GoesOn, Save, AwaitEmit, intent, emitting, rest, Done, Item
<1>33. CASE TickFails
  BY <1>1, <1>33 DEF TickFails, QueueEmitWith, EndState, EmitStateImpl
<1>34. CASE TickEmits
  BY <1>1, <1>34
  DEF TickEmits, QueueEmitWith, EndIn, EndState, rest, EmitStateImpl
<1>35. CASE FrameOver
  BY <1>1, <1>35 DEF FrameOver, intent, reading, emitting, rest
<1>36. CASE EnterClose
  BY <1>1, <1>36 DEF EnterClose, Enter, reading, emitting, rest
<1>37. CASE CloseEnds
  BY <1>1, <1>37 DEF CloseEnds, intent, emitting, rest
<1>38. CASE CloseFails
  BY <1>1, <1>38 DEF CloseFails, Crash, QueueEmitWith, EmitStateImpl
<1>39. CASE EmitDone
  BY <1>1, <1>39 DEF EmitDone, Sync, EmitStateImpl, intent, reading, rest
<1>40. CASE BlockLoadingFails
  BY <1>1, <1>40 DEF BlockLoadingFails, Sync, machine, reading, emitting
<1>41. CASE SetListener
  BY <1>1, <1>41
  DEF SetListener, SetState, intent, reading, emitting, rest, machine
<1>42. ASSUME NEW until \in UntilTimes \cup {None}, StartPlayback(until) PROVE
  Control'
  BY <1>1, <1>42
  DEF StartPlayback, Call, Clamp, SetState, emitting, QueueEmit, machine,
      reading, Sync, QueueEmitWith, EmitStateImpl
<1>43. CASE PausePlayback
  BY <1>1, <1>43
  DEF PausePlayback, Call, SetState, emitting, QueueEmit, machine, reading,
      Sync, QueueEmitWith, EmitStateImpl
<1>44. ASSUME NEW time \in SeekTimes, SeekEarly(time) PROVE Control'
  BY <1>1, <1>44 DEF SeekEarly, Call, machine, reading, emitting, Sync
<1>45. ASSUME NEW time \in SeekTimes, SeekPlayback(time) PROVE Control'
  BY <1>1, <1>45
  DEF SeekPlayback, Call, Clamp, SetState, reading, emitting, Sync, machine
<1>46. CASE SetSubscriptions
  BY <1>1, <1>46
  DEF SetSubscriptions, Call, SetState, machine, reading, emitting, Sync
<1>47. CASE EmitAgain
  BY <1>1, <1>47
  DEF EmitAgain, Call, QueueEmit, machine, intent, reading, Sync,
      QueueEmitWith, EmitStateImpl
<1>48. CASE CallClose
  BY <1>1, <1>48
  DEF CallClose, Sync, SetState, intent, reading, emitting, machine
<1> QED
  BY <1>2, <1>3, <1>4, <1>5, <1>6, <1>7, <1>8, <1>9, <1>10, <1>11, <1>12,
    <1>13, <1>14, <1>15, <1>16, <1>17, <1>18, <1>19, <1>20, <1>21, <1>22,
    <1>23, <1>24, <1>25, <1>26, <1>27, <1>28, <1>29, <1>30, <1>31, <1>32,
    <1>33, <1>34, <1>35, <1>36, <1>37, <1>38, <1>39, <1>40, <1>41, <1>42,
    <1>43, <1>44, <1>45, <1>46, <1>47, <1>48 DEF Next, MachineStep, UserStep

(* The player is made in a state that satisfies what its steps keep.        *)
LEMMA InitHolds ==
  ASSUME Init
  PROVE  TypeOK /\ Control
<1>1. Len(Results) \in Nat /\ MaxCalls \in Nat
  BY ResultsFacts, PlayerAssumption
<1>2. ControlTypes /\ FlagTypes
  BY DEF Init, ControlTypes, FlagTypes, States
<1>3. TimeTypes /\ DataTypes
  BY <1>1 DEF Init, TimeTypes, DataTypes, None
<1>4. Control
  BY DEF Init, Control, Places, Requests, Timed, Iterating, Topics, Untimed,
    Bounded, Ticking
<1> QED
  BY <1>2, <1>3, <1>4 DEF TypeOK, ControlTypes, FlagTypes, TimeTypes,
    DataTypes

(* A step, or none, keeps both.                                            *)
LEMMA StepKeeps ==
  ASSUME TypeOK, Control, [Next]_vars
  PROVE  TypeOK' /\ Control'
<1>1. CASE Next
  BY <1>1, TypeKeeps, ControlKeeps
<1>2. CASE UNCHANGED vars
  <2>1. /\ UNCHANGED <<state, nextState, pc, abort, goal, playTopics>>
        /\ UNCHANGED <<isPlaying, untilTime, seekTarget, wantPlay>>
        /\ UNCHANGED <<iterator, producer, lastMessage, lastStamp, batch>>
        /\ UNCHANGED <<messages, calling, pending, newSeek, ahead, shown>>
        /\ UNCHANGED <<hasError, topics, calls, closeCalled, dropped>>
        /\ UNCHANGED <<hasTopics, mayFail, oldStamp, abandoned, currentTime>>
    BY <1>2 DEF vars, machine, intent, reading, emitting, rest, kind
  <2>2. Results' = Results /\ Messages' = Messages
    BY <2>1 DEF Results, Messages
  <2>3. TypeOK'
    <3>1. ControlTypes' /\ FlagTypes'
      BY <2>1 DEF TypeOK, ControlTypes, FlagTypes
    <3>2. TimeTypes' /\ DataTypes'
      BY <2>1, <2>2 DEF TypeOK, TimeTypes, DataTypes
    <3> QED
      BY <3>1, <3>2 DEF TypeOK, ControlTypes, FlagTypes, TimeTypes, DataTypes
  <2>4. Control'
    BY <2>1 DEF Control, Places, Requests, Timed, Iterating, Topics, Unread
  <2> QED
    BY <2>3, <2>4
<1> QED
  BY <1>1, <1>2

(* The variables keep their types, and the running state, the requested     *)
(* one, the abort controller and the iterator keep fitting together, in     *)
(* every order of states, calls of the user, answers and rejections of the  *)
(* source.                                                                  *)
THEOREM ControlHolds == Spec => [](TypeOK /\ Control)
<1>1. Init => TypeOK /\ Control
  BY InitHolds
<1>2. TypeOK /\ Control /\ [Next]_vars => (TypeOK /\ Control)'
  BY StepKeeps
<1> QED
  BY <1>1, <1>2, PTL DEF Spec

(* The type invariant by itself.                                            *)
THEOREM TypeCorrect == Spec => []TypeOK
BY ControlHolds, PTL

(* None of the "Invariant: ..." exceptions of IterablePlayer.ts is ever     *)
(* thrown: idle finds no abort controller, a tick finds its iterator, the   *)
(* initial read finds neither an iterator nor a producer, and an iterator   *)
(* is made only once the current time is set.                               *)
THEOREM NoInvariantErrors == Spec => []NoInvariantError
<1>1. TypeOK /\ Control => NoInvariantError
  BY DEF TypeOK, Control, Places, Requests, Timed, Iterating, Untimed, Unread,
    Ticking, NoInvariantError, Enter
<1> QED
  BY <1>1, ControlHolds, PTL

-----------------------------------------------------------------------------
(***************************************************************************)
(* What IterablePlayer gives the listener, proved: outside seeks each      *)
(* message once, in order and all of them, and the backfill with a seek.   *)
(*                                                                         *)
(* The invariant relates four places a message can be in: given already    *)
(* (before base), waiting to be given (given), read for this tick or the   *)
(* next (InBatch, lastMessage), or still to come (from iterator on).       *)
(* Ready says that these are in order and that nothing falls between them, *)
(* for what an emit would give now or what it gives in this very step.     *)
(***************************************************************************)

(* What was read for the tick that is under way.                            *)
InBatch == IF pc \in Bounded THEN batch ELSE {}

(* The iterator is past what waits to be given, and past what was read for  *)
(* the tick and for the next one, in this order.                            *)
Ordered(given, base) ==
  iterator # 0 =>
    /\ base <= iterator
    /\ \A i \in given : i < iterator
    /\ lastMessage # 0 =>
         /\ base <= lastMessage /\ lastMessage < iterator
         /\ \A i \in given : i < lastMessage
    /\ \A i \in InBatch :
         /\ base <= i /\ i < iterator /\ Results[i].time <= goal
         /\ lastMessage # 0 => i < lastMessage
         /\ \A j \in given : j < i
    /\ lastMessage = 0 \/ lastStamp = None
    /\ pc \in {"startNext", "tickNext"} => lastMessage = 0 /\ lastStamp = None

(* Nothing that was read is lost.                                           *)
Kept(given, base) ==
  iterator # 0 /\ ~dropped =>
    \A i \in Messages :
      base <= i /\ i < iterator =>
        i \in given \/ i = lastMessage \/ i \in InBatch

(* The messages that the iterator will yield are past the last stamp.  When *)
(* they are not, the stamp is one that a seek left behind.                  *)
StampHolds ==
  \A i \in Messages :
    i >= iterator => lastStamp = None \/ lastStamp < Results[i].time

StampKnown(given, old) ==
  iterator # 0 /\ ~StampHolds => old /\ given \subseteq {0} /\ InBatch = {}

(* A tick that is ready to end has read all there is up to its end.         *)
ReadToGoal ==
  pc \in {"tickEmitWait", "tickEmit"} /\ StampHolds =>
    /\ lastMessage # 0 => Results[lastMessage].time > goal
    /\ \A i \in Messages : i >= iterator => Results[i].time > goal

(* What is not given yet, up to a time, is about to be given.               *)
UpToDate(given, base, time, seek, old) ==
  ~dropped /\ ~ahead /\ (old => given # {} /\ ~seek) =>
    \A i \in Messages : i >= base /\ Results[i].time <= time => i \in given

(* Once these messages are emitted, the player may go on from here.         *)
Coherent(given, base, time, seek, old) ==
  /\ given \subseteq {0} \cup Messages
  /\ seek => given \subseteq {0} /\ (ahead \/ given = {0})
  /\ ~seek => \A i \in given : i # 0 /\ i >= base /\ Results[i].time <= time
  /\ pc = "seekStop" => base = After(time) /\ given \subseteq {0}
  /\ pc \in {"backfill", "seekStop"} => lastMessage = 0
  /\ Ordered(given, base)
  /\ Kept(given, base)
  /\ StampKnown(given, old)
  /\ ReadToGoal
  /\ UpToDate(given, base, time, seek, old)

(* No messages wait while a tick is about to emit its own.                  *)
Ready(given, base, time, seek, old) ==
  /\ pc \in {"startNext", "tickEmit"} => given = {} /\ ~seek
  /\ Coherent(given, base, time, seek, old)

(* Where what the listener was not given yet begins.                        *)
BaseOf(time, seek) == IF seek THEN After(time) ELSE shown

Data ==
  /\ pending => calling
  /\ ~hasError =>
       /\ messages # {} \/ newSeek => pending
       /\ pc = "tickEmitWait" => calling
       /\ Unread => ahead
       /\ Ready(messages, BaseOf(currentTime, newSeek), currentTime, newSeek,
                oldStamp)

(* What the runs check of every emit.                                       *)
Emitted == EmitsAllOnce /\ SeekShowsBackfill

IInv == TypeOK /\ Control /\ Data /\ Emitted
-----------------------------------------------------------------------------
(* The results are messages, problems or stamps.                           *)
LEMMA Kinds ==
  \A i \in 1..Len(Results) :
    Results[i].type \in {"message-event", "problem", "stamp"}
<1>1. CASE hasTopics
  <2> DEFINE Types == {"message-event", "problem", "stamp"}
             Record == [type : Types, time : Nat]
  <2>1. Source \in Seq(Record)
    BY PlayerAssumption
  <2>2. \A i \in 1..Len(Source) : Source[i] \in Record
    <3> HIDE DEF Record
    <3> QED
      BY <2>1
  <2>3. \A i \in 1..Len(Source) : Source[i].type \in Types
    <3> HIDE DEF Types
    <3> QED
      BY <2>2
  <2> QED
    BY <1>1, <2>3 DEF Results
<1>2. CASE ~hasTopics
  BY <1>2 DEF Results
<1> QED
  BY <1>1, <1>2

(* Where the next emit begins is a place in the source.                    *)
LEMMA BaseFacts ==
  ASSUME TypeOK, NEW time \in {None} \cup Nat, NEW seek \in BOOLEAN
  PROVE  BaseOf(time, seek) \in Int
<1>1. Len(Results) \in Nat /\ shown \in 1..(Len(Results) + 1)
  BY ResultsFacts DEF TypeOK
<1> QED
  BY <1>1, AfterFacts DEF BaseOf

(* An emit, or one that waits for the listener, with what is ready.         *)

LEMMA EmitReady ==
  ASSUME TypeOK, TypeOK', UNCHANGED kind, ~hasError',
         NEW given, NEW time, NEW seek \in BOOLEAN, NEW base,
         time \in {None} \cup Nat, base = BaseOf(time, seek),
         Coherent(given, base, time, seek, oldStamp)', currentTime' = time,
         Unread' => ahead',
         dropped' = dropped \/ seek,
         EmitStateImpl(given, time, seek, FALSE),
         oldStamp' = (oldStamp /\ (out' = out \/ out'.seek \/ out'.batch = {}))
  PROVE  Data' /\ Emitted'
<1>1. /\ Results' = Results /\ Messages' = Messages
      /\ Messages \subseteq 1..Len(Results) /\ Len(Results) \in Nat
  BY ResultsFacts DEF kind, Results, Messages
<1>2. /\ messages' = {} /\ newSeek' = FALSE /\ pending' = FALSE
      /\ calling' = TRUE
      /\ out' = [batch |-> given, time |-> time, seek |-> seek,
                 ahead |-> ahead', from |-> shown, dropped |-> dropped,
                 oldStamp |-> oldStamp]
  BY DEF EmitStateImpl
<1>3. given \subseteq {0} \cup Messages
  BY <1>1 DEF Coherent
<1>4. shown' \in Int /\ base \in Int /\ iterator' \in Int
  BY AfterFacts DEF TypeOK, BaseOf
<1>5. Coherent({}, shown, currentTime, FALSE, oldStamp)'
  <2>1. CASE seek \/ given = {}
    <3>1. shown' = base
      BY <2>1 DEF EmitStateImpl, BaseOf
    <3>2. oldStamp' = oldStamp
      BY <1>2, <2>1 DEF TypeOK
    <3>3. given \subseteq {0}
      BY <2>1 DEF Coherent
    <3>4. Ordered({}, shown)'
      BY <3>1 DEF Coherent, Ordered
    <3>5. Kept({}, shown)'
      BY <1>1, <3>1, <3>3 DEF Coherent, Kept
    <3>6. StampKnown({}, oldStamp)' /\ ReadToGoal'
      BY <3>2 DEF Coherent, StampKnown
    <3>7. UpToDate({}, shown, currentTime, FALSE, oldStamp)'
      BY <1>1, <3>1, <3>2, <3>3 DEF Coherent, UpToDate
    <3> QED
      BY <3>1, <3>4, <3>5, <3>6, <3>7 DEF Coherent
  <2>2. CASE ~seek /\ given # {}
    <3>1. PICK m \in given : shown' = m + 1 /\ \A i \in given : i <= m
      <4>1. given \in SUBSET (0..Len(Results))
        BY <1>1, <1>3
      <4>2. \E i \in given : \A j \in given : j <= i
        BY <1>1, <2>2, <4>1, GreatestExists
      <4> DEFINE c == CHOOSE i \in given : \A j \in given : j <= i
      <4>3. c \in given /\ \A j \in given : j <= c
        BY <4>2
      <4>4. shown' = 1 + c
        BY <2>2 DEF EmitStateImpl
      <4> HIDE DEF c
      <4>5. c \in Int
        BY <1>1, <4>1, <4>3
      <4> QED
        BY <4>3, <4>4, <4>5
    <3>2. /\ 0 \notin given /\ given \subseteq Messages
          /\ \A i \in given : i >= base
      BY <1>3, <2>2 DEF Coherent
    <3>0. m \in Int /\ base <= m
      BY <1>1, <1>3, <1>4, <3>1, <3>2
    <3>3. Ordered({}, shown)'
      <4> SUFFICES ASSUME iterator' # 0
                   PROVE  /\ shown' <= iterator'
                          /\ lastMessage' # 0 =>
                               shown' <= lastMessage' /\ lastMessage' <
                                 iterator'
                          /\ \A i \in InBatch' :
                               /\ shown' <= i /\ i < iterator'
                               /\ Results'[i].time <= goal'
                               /\ lastMessage' # 0 => i < lastMessage'
                          /\ lastMessage' = 0 \/ lastStamp' = None
                          /\ pc' \in {"startNext", "tickNext"} =>
                               lastMessage' = 0 /\ lastStamp' = None
        BY DEF Ordered
      <4>1. m < iterator' /\ (lastMessage' # 0 => m < lastMessage')
        BY <3>1 DEF Coherent, Ordered
      <4>2. \A i \in InBatch' : m < i
        BY <3>1 DEF Coherent, Ordered
      <4>3. lastMessage' \in Int /\ \A i \in InBatch' : i \in Int
        BY <1>1 DEF TypeOK, InBatch
      <4>4. shown' <= iterator'
        BY <1>4, <3>0, <3>1, <4>1
      <4>5. lastMessage' # 0 =>
              shown' <= lastMessage' /\ lastMessage' < iterator'
        <5>1. lastMessage' # 0 => lastMessage' < iterator'
          BY DEF Coherent, Ordered
        <5> QED
          BY <3>0, <3>1, <4>1, <4>3, <5>1
      <4>6. \A i \in InBatch' : shown' <= i
        BY <3>0, <3>1, <4>2, <4>3
      <4> QED
        BY <4>4, <4>5, <4>6 DEF Coherent, Ordered
    <3>4. Kept({}, shown)'
      BY <1>1, <1>4, <3>1, <3>2 DEF Coherent, Kept
    <3>5. StampKnown({}, oldStamp)' /\ ReadToGoal'
      BY <2>2, <3>2 DEF Coherent, StampKnown
    <3>6. UpToDate({}, shown, currentTime, FALSE, oldStamp)'
      <4> SUFFICES ASSUME ~dropped', ~ahead',
                          NEW i \in Messages', i >= shown',
                          Results'[i].time <= currentTime'
                   PROVE  FALSE
        BY DEF UpToDate
      <4>1. i \in Int /\ i > m /\ i >= base
        BY <1>1, <1>4, <3>0, <3>1
      <4>2. i \in given
        BY <2>2, <4>1 DEF Coherent, UpToDate
      <4>3. i <= m
        BY <3>1, <4>2
      <4> QED
        BY <3>0, <4>1, <4>3
    <3>7. pc' # "seekStop"
      BY <2>2, <3>2 DEF Coherent
    <3> QED
      BY <3>3, <3>4, <3>5, <3>6, <3>7 DEF Coherent
  <2> QED
    BY <2>1, <2>2
<1>6. Data'
  BY <1>2, <1>5 DEF Data, Ready, BaseOf
<1>7. EmitsForward'
  BY <1>1, <1>2 DEF EmitsForward, Coherent, BaseOf
<1>8. NothingSkipped'
  BY <1>1, <1>2
  DEF NothingSkipped, NothingSkippedBut, Coherent, UpToDate, BaseOf
<1>9. SeekShowsBackfill'
  BY <1>2 DEF SeekShowsBackfill, Coherent
<1> QED
  BY <1>6, <1>7, <1>8, <1>9 DEF Emitted, EmitsAllOnce

(* The same when the listener may still be busy with the emit before.      *)
LEMMA QueueReady ==
  ASSUME TypeOK, TypeOK', UNCHANGED kind, ~hasError', Data, Emitted,
         NEW given, NEW time, NEW seek \in BOOLEAN, NEW base,
         time \in {None} \cup Nat, base = BaseOf(time, seek),
         Ready(given, base, time, seek, oldStamp)', currentTime' = time,
         Unread' => ahead',
         dropped' = dropped \/ seek,
         QueueEmitWith(given, time, seek, FALSE),
         oldStamp' = (oldStamp /\ (out' = out \/ out'.seek \/ out'.batch = {}))
  PROVE  Data' /\ Emitted'
<1>1. CASE calling
  <2>1. /\ messages' = given /\ newSeek' = seek /\ pending' /\ calling'
        /\ shown' = shown /\ out' = out
    BY <1>1 DEF QueueEmitWith
  <2>2. oldStamp' = oldStamp
    BY <2>1 DEF TypeOK
  <2>3. BaseOf(currentTime, newSeek)' = base
    BY <2>1 DEF BaseOf, After, Results, kind
  <2>4. Data'
    BY <2>1, <2>2, <2>3 DEF Data
  <2>5. Emitted'
    BY <2>1 DEF Emitted, EmitsAllOnce, SeekShowsBackfill, EmitsForward,
    NothingSkipped, NothingSkippedBut,
                Results, Messages, kind
  <2> QED
    BY <2>4, <2>5
<1>2. CASE ~calling
  BY <1>2, EmitReady DEF Ready, QueueEmitWith
<1> QED
  BY <1>1, <1>2

(* The same, when what the emit does to oldStamp is not known yet.          *)
LEMMA GivesReady ==
  ASSUME TypeOK, TypeOK', UNCHANGED kind, ~hasError', Data, Emitted,
         NEW given, NEW time, NEW seek \in BOOLEAN, NEW base, NEW old,
         old = oldStamp, time \in {None} \cup Nat, base = BaseOf(time, seek),
         Ready(given, base, time, seek, old)', currentTime' = time,
         Unread' => ahead',
         dropped' = dropped \/ seek,
         QueueEmitWith(given, time, seek, FALSE),
         oldStamp' = (oldStamp /\ (out' = out \/ out'.seek \/ out'.batch = {}))
  PROVE  Data' /\ Emitted'
<1>1. CASE oldStamp' = old
  BY <1>1, QueueReady
<1>2. CASE oldStamp' # old
  <2>1. out' # out /\ ~out'.seek /\ out'.batch # {} /\ old /\ ~oldStamp'
    BY <1>2 DEF TypeOK
  <2>2. given # {} /\ ~seek
    BY <2>1 DEF QueueEmitWith, EmitStateImpl
  <2>3. Ready(given, base, time, seek, oldStamp)'
    BY <2>2 DEF Ready, Coherent, StampKnown, UpToDate
  <2> QED
    BY <2>3, QueueReady
<1> QED
  BY <1>1, <1>2

(* A step that reads nothing leaves what is ready as it was.                *)
Quiet ==
  /\ UNCHANGED <<kind, iterator, lastMessage, lastStamp, dropped, ahead>>
  /\ \/ UNCHANGED <<pc, goal, batch>>
     \/ /\ pc \notin Bounded
        /\ pc' \notin Bounded \cup {"seekStop"}
        /\ pc' = "backfill" => lastMessage = 0

(* It also leaves it ready.                                                *)
LEMMA QuietReady ==
  ASSUME Quiet, NEW given, NEW base, NEW time, NEW seek, NEW old,
         Ready(given, base, time, seek, old)
  PROVE  Ready(given, base, time, seek, old)'
<1>1. /\ Results' = Results /\ Messages' = Messages
      /\ InBatch' = InBatch /\ StampHolds' = StampHolds
      /\ After(time)' = After(time)
  BY DEF Quiet, kind, Results, Messages, InBatch, StampHolds, After
<1>2. CASE UNCHANGED <<pc, goal, batch>>
  BY <1>1, <1>2 DEF Quiet, Ready, Coherent, Ordered, Kept, StampKnown,
                    ReadToGoal, UpToDate
<1>3. CASE /\ pc \notin Bounded
           /\ pc' \notin Bounded \cup {"seekStop"}
           /\ pc' = "backfill" => lastMessage = 0
  <2>1. InBatch = {} /\ InBatch' = {}
    BY <1>3 DEF InBatch
  <2>2. Ordered(given, base)'
    BY <1>3, <2>1 DEF Quiet, Ready, Coherent, Ordered, Bounded, Ticking
  <2>3. Kept(given, base)'
    BY <1>1, <2>1 DEF Quiet, Ready, Coherent, Kept
  <2>4. StampKnown(given, old)' /\ ReadToGoal'
    BY <1>1, <1>3, <2>1 DEF Quiet, Ready, Coherent, StampKnown, ReadToGoal,
                            Bounded, Ticking
  <2>5. UpToDate(given, base, time, seek, old)'
    BY <1>1 DEF Quiet, Ready, Coherent, UpToDate
  <2> QED
    BY <1>1, <1>3, <2>2, <2>3, <2>4, <2>5
    DEF Quiet, Ready, Coherent, Bounded, Ticking
<1> QED
  BY <1>2, <1>3 DEF Quiet

(* What a step does to a stamp that a seek left behind, other than at the   *)
(* end of a seek.                                                           *)
KeepsOldStamp ==
  oldStamp' = (oldStamp /\ (out' = out \/ out'.seek \/ out'.batch = {}))

(* A step that emits nothing, and reads or not.                             *)
LEMMA ReadsReady ==
  ASSUME TypeOK, TypeOK', Data, Emitted, ~hasError, Unread' => ahead,
         UNCHANGED kind, KeepsOldStamp, UNCHANGED emitting,
         UNCHANGED currentTime, pc' = "tickEmitWait" => calling,
         NEW given, NEW base, NEW time, NEW seek, NEW old,
         given = messages, time = currentTime, seek = newSeek,
         old = oldStamp, base = BaseOf(time, seek),
         Ready(given, base, time, seek, old)'
  PROVE  Data' /\ Emitted'
<1>1. Results' = Results /\ Messages' = Messages
  BY DEF kind, Results, Messages
<1>2. oldStamp' = oldStamp
  BY DEF KeepsOldStamp, emitting, TypeOK
<1>3. base = BaseOf(time, seek)'
  BY <1>1 DEF BaseOf, After, emitting
<1>4. Data'
  BY <1>2, <1>3 DEF Data, emitting
<1>5. Emitted'
  BY <1>1 DEF Emitted, EmitsAllOnce, SeekShowsBackfill, EmitsForward,
    NothingSkipped, NothingSkippedBut,
              emitting
<1> QED
  BY <1>4, <1>5

(* A step that reads and emits nothing.                                    *)
LEMMA QuietKeeps ==
  ASSUME TypeOK, TypeOK', Data, Emitted, ~hasError, Unread' => ahead,
         Quiet, KeepsOldStamp, UNCHANGED emitting, UNCHANGED currentTime
  PROVE  Data' /\ Emitted'
<1>1. PICK given, base, time, seek, old :
        /\ given = messages /\ time = currentTime /\ seek = newSeek
        /\ old = oldStamp /\ base = BaseOf(time, seek)
  OBVIOUS
<1>2. Ready(given, base, time, seek, old)'
  BY <1>1, QuietReady DEF Data
<1>3. UNCHANGED kind /\ (pc' = "tickEmitWait" => calling)
  BY DEF Quiet, Data, Bounded, Ticking
<1> QED
  BY <1>1, <1>2, <1>3, ReadsReady

(* A step that reads nothing and emits what waits.                         *)
LEMMA QuietQueue ==
  ASSUME TypeOK, TypeOK', Data, Emitted, ~hasError, ~hasError',
         Unread' => ahead, Quiet, KeepsOldStamp, UNCHANGED currentTime,
         QueueEmitWith(messages, currentTime, newSeek, FALSE)
  PROVE  Data' /\ Emitted'
<1>1. PICK given, base, time, seek, old :
        /\ given = messages /\ time = currentTime /\ seek = newSeek
        /\ old = oldStamp /\ base = BaseOf(time, seek)
  OBVIOUS
<1>2. Ready(given, base, time, seek, old)'
  BY <1>1, QuietReady DEF Data
<1>3. UNCHANGED kind /\ UNCHANGED <<dropped, ahead>>
  BY DEF Quiet
<1>4. /\ seek \in BOOLEAN /\ time \in {None} \cup Nat
      /\ QueueEmitWith(given, time, seek, FALSE)
      /\ currentTime' = time /\ (dropped' = dropped \/ seek)
      /\ base = BaseOf(time, seek)
      /\ oldStamp' = (oldStamp /\ (out' = out \/ out'.seek \/ out'.batch = {}))
  BY <1>1, <1>3 DEF TypeOK, KeepsOldStamp
<1> QED
  BY <1>1, <1>2, <1>3, <1>4, GivesReady

(* With an error nothing is given to the listener, and no error is forgotten.*)
LEMMA ErrorKeeps ==
  ASSUME TypeOK, Data, Emitted, Next, hasError'
  PROVE  Data' /\ Emitted'
<1>1. UNCHANGED kind /\ (pending => calling)
  BY DEF Next, History, Data
<1>2. TakeState => (pending' => calling') /\ out' = out
  BY <1>1 DEF TakeState, emitting, rest
<1>3. IteratorReturned => (pending' => calling') /\ out' = out
  BY <1>1 DEF IteratorReturned, emitting, rest
<1>4. IteratorReturnFails => (pending' => calling') /\ out' = out
  BY <1>1 DEF IteratorReturnFails, Crash, QueueEmitWith, EmitStateImpl
<1>5. EnterInitialize => (pending' => calling') /\ out' = out
  BY <1>1 DEF EnterInitialize, QueueEmit, rest, QueueEmitWith, EmitStateImpl
<1>6. Initialized => (pending' => calling') /\ out' = out
  BY <1>1 DEF Initialized, QueueEmitWith, EmitStateImpl
<1>7. InitializeFails => (pending' => calling') /\ out' = out
  BY <1>1 DEF InitializeFails, QueueEmitWith, EmitStateImpl
<1>8. StartDelayOver => (pending' => calling') /\ out' = out
  BY <1>1 DEF StartDelayOver, emitting, rest
<1>9. EnterStartPlaySeek => (pending' => calling') /\ out' = out
  BY <1>1 DEF EnterStartPlaySeek, emitting, rest
<1>10. EnterStartPlay => (pending' => calling') /\ out' = out
  BY <1>1 DEF EnterStartPlay, rest
<1>11. StartReads => (pending' => calling') /\ out' = out
  BY <1>1 DEF StartReads, emitting, rest
<1>12. StartInterrupted => (pending' => calling') /\ out' = out
  BY <1>1 DEF StartInterrupted, emitting, rest
<1>13. StartFinishes => (pending' => calling') /\ out' = out
  BY <1>1 DEF StartFinishes, QueueEmitWith, rest, EmitStateImpl
<1>14. StartFails => (pending' => calling') /\ out' = out
  BY <1>1 DEF StartFails, Crash, QueueEmitWith, EmitStateImpl
<1>15. EnterSeekBackfill => (pending' => calling') /\ out' = out
  BY <1>1 DEF EnterSeekBackfill, emitting, rest
<1>16. SeekAck => (pending' => calling') /\ out' = out
  BY <1>1 DEF SeekAck, QueueEmitWith, rest, EmitStateImpl
<1>17. BackfillLoaded => (pending' => calling') /\ out' = out
  BY <1>1 DEF BackfillLoaded, QueueEmitWith, rest, EmitStateImpl
<1>18. BackfillInterrupted => (pending' => calling') /\ out' = out
  BY <1>1 DEF BackfillInterrupted, emitting, rest
<1>19. SeekFails => (pending' => calling') /\ out' = out
  BY <1>1 DEF SeekFails, Crash, QueueEmitWith, EmitStateImpl
<1>20. SeekEnds => (pending' => calling') /\ out' = out
  BY <1>1 DEF SeekEnds, emitting, rest
<1>21. EnterReset => (pending' => calling') /\ out' = out
  BY <1>1 DEF EnterReset, emitting, rest
<1>22. ResetEnds => (pending' => calling') /\ out' = out
  BY <1>1 DEF ResetEnds, emitting, rest
<1>23. ResetFails => (pending' => calling') /\ out' = out
  BY <1>1 DEF ResetFails, Crash, QueueEmitWith, EmitStateImpl
<1>24. EnterIdle => (pending' => calling') /\ out' = out
  BY <1>1 DEF EnterIdle, QueueEmit, rest, QueueEmitWith, EmitStateImpl
<1>25. IdleAborted => (pending' => calling') /\ out' = out
  BY <1>1 DEF IdleAborted, emitting, rest
<1>26. EnterPlay => (pending' => calling') /\ out' = out
  BY <1>1 DEF EnterPlay, emitting, rest
<1>27. PlayStops => (pending' => calling') /\ out' = out
  BY <1>1 DEF PlayStops, emitting, rest
<1>28. PlayReachesEnd => (pending' => calling') /\ out' = out
  BY <1>1 DEF PlayReachesEnd, emitting, rest
<1>29. ASSUME NEW range \in TickRanges, TickStarts(range)
      PROVE  (pending' => calling') /\ out' = out
  BY <1>1, <1>29 DEF TickStarts, emitting, rest
<1>30. TickReads => (pending' => calling') /\ out' = out
  BY <1>1 DEF TickReads, emitting, rest
<1>31. TickInterrupted => (pending' => calling') /\ out' = out
  BY <1>1 DEF TickInterrupted, emitting, rest
<1>32. TickReadsAll => (pending' => calling') /\ out' = out
  BY <1>1 DEF TickReadsAll, emitting, rest
<1>33. TickFails => (pending' => calling') /\ out' = out
  BY <1>1 DEF TickFails, QueueEmitWith, EmitStateImpl
<1>34. TickEmits => (pending' => calling') /\ out' = out
  BY <1>1 DEF TickEmits, QueueEmitWith, rest, EmitStateImpl
<1>35. FrameOver => (pending' => calling') /\ out' = out
  BY <1>1 DEF FrameOver, emitting, rest
<1>36. EnterClose => (pending' => calling') /\ out' = out
  BY <1>1 DEF EnterClose, emitting, rest
<1>37. CloseEnds => (pending' => calling') /\ out' = out
  BY <1>1 DEF CloseEnds, emitting, rest
<1>38. CloseFails => (pending' => calling') /\ out' = out
  BY <1>1 DEF CloseFails, Crash, QueueEmitWith, EmitStateImpl
<1>39. EmitDone => (pending' => calling') /\ out' = out
  BY <1>1 DEF EmitDone, EmitStateImpl, rest
<1>40. BlockLoadingFails => (pending' => calling') /\ out' = out
  BY <1>1 DEF BlockLoadingFails, emitting
<1>41. SetListener => (pending' => calling') /\ out' = out
  BY <1>1 DEF SetListener, emitting, rest
<1>42. ASSUME NEW until \in UntilTimes \cup {None}, StartPlayback(until)
      PROVE  (pending' => calling') /\ out' = out
  BY <1>1, <1>42
  DEF StartPlayback, Call, emitting, QueueEmit, QueueEmitWith, EmitStateImpl
<1>43. PausePlayback => (pending' => calling') /\ out' = out
  BY <1>1
  DEF PausePlayback, Call, emitting, QueueEmit, QueueEmitWith, EmitStateImpl
<1>44. ASSUME NEW time \in SeekTimes, SeekEarly(time)
      PROVE  (pending' => calling') /\ out' = out
  BY <1>1, <1>44 DEF SeekEarly, Call, emitting
<1>45. ASSUME NEW time \in SeekTimes, SeekPlayback(time)
      PROVE  (pending' => calling') /\ out' = out
  BY <1>1, <1>45 DEF SeekPlayback, Call, emitting
<1>46. SetSubscriptions => (pending' => calling') /\ out' = out
  BY <1>1 DEF SetSubscriptions, Call, emitting
<1>47. EmitAgain => (pending' => calling') /\ out' = out
  BY <1>1 DEF EmitAgain, Call, QueueEmit, QueueEmitWith, EmitStateImpl
<1>48. CallClose => (pending' => calling') /\ out' = out
  BY <1>1 DEF CallClose, emitting
<1>49. (pending' => calling') /\ out' = out
  BY <1>2, <1>3, <1>4, <1>5, <1>6, <1>7, <1>8, <1>9, <1>10, <1>11, <1>12,
    <1>13, <1>14, <1>15, <1>16, <1>17, <1>18, <1>19, <1>20, <1>21, <1>22,
    <1>23, <1>24, <1>25, <1>26, <1>27, <1>28, <1>29, <1>30, <1>31, <1>32,
    <1>33, <1>34, <1>35, <1>36, <1>37, <1>38, <1>39, <1>40, <1>41, <1>42,
    <1>43, <1>44, <1>45, <1>46, <1>47, <1>48
  DEF Next, MachineStep, UserStep
<1> QED
  BY <1>1, <1>49 DEF Data, Emitted, EmitsAllOnce, SeekShowsBackfill,
    EmitsForward, NothingSkipped,
    NothingSkippedBut, kind, Results, Messages

(* Every step keeps what is ready and what was given right.                 *)
LEMMA DataKeeps ==
  ASSUME TypeOK, TypeOK', Control, Control', Data, Emitted, Next
  PROVE  Data' /\ Emitted'
<1>1. CASE hasError'
  BY <1>1, ErrorKeeps
<1> SUFFICES ASSUME ~hasError'
             PROVE  Data' /\ Emitted'
  BY <1>1
<1>2. /\ End \in Nat /\ StopTime \in Nat /\ Len(Results) \in Nat
      /\ \A i \in 1..Len(Results) : Results[i].time \in Nat
      /\ Results' = Results /\ Messages' = Messages
      /\ Messages \subseteq 1..Len(Results)
      /\ ~hasTopics => Len(Results) = 0 /\ Messages = {}
  BY PlayerAssumption, ResultsFacts DEF Next, History, kind, Results, Messages
<1>3. /\ UNCHANGED kind
      /\ KeepsOldStamp \/ (pc = "seekStop" /\ pc' # pc)
  BY DEF Next, History, KeepsOldStamp
<1>4. CASE TakeState
  <2>1. Quiet /\ (Unread' => ahead) /\ KeepsOldStamp
    BY <1>2, <1>3, <1>4
    DEF TakeState, intent, reading, emitting, rest, Quiet, kind, Unread, Data,
        TypeOK, Control, Places, Requests, Iterating, Bounded, Ticking
  <2>2. ~hasError /\ UNCHANGED emitting /\ UNCHANGED currentTime
    BY <1>4 DEF TakeState, intent, reading, emitting, rest
  <2> QED
    BY <2>1, <2>2, QuietKeeps
<1>5. CASE IteratorReturned
  <2>1. /\ iterator' = 0 /\ pc' = "enter" /\ ~hasError /\ KeepsOldStamp
        /\ UNCHANGED emitting
        /\ UNCHANGED <<currentTime, dropped, state, lastMessage, lastStamp>>
    BY <1>3, <1>5 DEF IteratorReturned, emitting, rest
  <2>2. oldStamp' = oldStamp
    BY <2>1 DEF KeepsOldStamp, emitting, TypeOK
  <2>3. BaseOf(currentTime, newSeek)' = BaseOf(currentTime, newSeek)
    BY <1>2, <2>1 DEF BaseOf, After, emitting
  <2>4. Data'
    BY <1>2, <1>5, <2>1, <2>2, <2>3
    DEF IteratorReturned, Data, Ready, Coherent, Ordered, Kept, StampKnown,
        ReadToGoal, UpToDate, emitting, Unread, Control, Places
  <2> QED
    BY <1>2, <2>1, <2>4
    DEF Emitted, EmitsAllOnce, SeekShowsBackfill, EmitsForward, NothingSkipped,
      NothingSkippedBut, emitting
<1>6. CASE IteratorReturnFails
  <2>1. hasError'
    BY <1>6 DEF IteratorReturnFails, Crash
  <2> QED
    BY <2>1
<1>7. CASE EnterInitialize
  <2>1. Quiet /\ (Unread' => ahead) /\ KeepsOldStamp
    BY <1>2, <1>3, <1>7
    DEF EnterInitialize, Enter, QueueEmit, intent, reading, rest, Quiet, kind,
        Unread, Data, TypeOK, Control, Places, Iterating, Bounded, Ticking
  <2>2. /\ ~hasError /\ UNCHANGED currentTime
        /\ QueueEmitWith(messages, currentTime, newSeek, FALSE)
    BY <1>7
    DEF EnterInitialize, Enter, QueueEmit, intent, reading, rest, TypeOK
  <2> QED
    BY <2>1, <2>2, QuietQueue
<1>8. CASE Initialized
  <2>1. /\ ~hasError /\ KeepsOldStamp /\ currentTime' \in Nat
        /\ messages = {} /\ ~newSeek /\ shown = 1
        /\ iterator' = 0 /\ pc' = "initDelay" /\ ahead /\ ahead'
        /\ UNCHANGED dropped
        /\ QueueEmitWith({}, currentTime', FALSE, FALSE)
    BY <1>2, <1>3, <1>8 DEF Initialized, reading, Clamp, TypeOK, None, Data,
      Control, Places, Iterating, Unread
  <2>2. PICK given, base, time, seek, old :
          /\ given = {} /\ time = currentTime' /\ seek = FALSE
          /\ old = oldStamp /\ base = BaseOf(time, seek)
    OBVIOUS
  <2>3. Ready(given, base, time, seek, old)'
    BY <2>1, <2>2 DEF Ready, Coherent, Ordered, Kept, StampKnown, ReadToGoal,
      UpToDate
  <2> QED
    BY <1>3, <2>1, <2>2, <2>3, GivesReady DEF KeepsOldStamp
<1>9. CASE InitializeFails
  <2>1. hasError'
    BY <1>9 DEF InitializeFails, Crash
  <2> QED
    BY <2>1
<1>10. CASE StartDelayOver
  <2>1. Quiet /\ (Unread' => ahead) /\ KeepsOldStamp
    BY <1>2, <1>3, <1>10
    DEF StartDelayOver, EndIn, intent, reading, emitting, rest, Quiet, kind,
        Unread, Data, TypeOK, Control, Places, Requests, Iterating, Bounded,
        Ticking
  <2>2. ~hasError /\ UNCHANGED emitting /\ UNCHANGED currentTime
    BY <1>10 DEF StartDelayOver, EndIn, intent, reading, emitting, rest
  <2> QED
    BY <2>1, <2>2, QuietKeeps
<1>11. CASE EnterStartPlaySeek
  <2>1. Quiet /\ (Unread' => ahead) /\ KeepsOldStamp
    BY <1>2, <1>3, <1>11
    DEF EnterStartPlaySeek, Enter, EndIn, intent, reading, emitting, rest,
        Quiet, kind, Unread, Data, TypeOK, Control, Places, Requests,
        Iterating, Bounded, Ticking
  <2>2. ~hasError /\ UNCHANGED emitting /\ UNCHANGED currentTime
    BY <1>11
    DEF EnterStartPlaySeek, Enter, EndIn, intent, reading, emitting, rest
  <2> QED
    BY <2>1, <2>2, QuietKeeps
<1>12. CASE EnterStartPlay
  <2>1. PICK given, base, time, seek, old :
          /\ given = messages /\ time = currentTime /\ seek = newSeek
          /\ old = oldStamp /\ base = BaseOf(time, seek)
    OBVIOUS
  <2>2. /\ ~hasError /\ KeepsOldStamp /\ UNCHANGED emitting
        /\ UNCHANGED currentTime /\ (Unread' => ahead)
        /\ pc' = "tickEmitWait" => calling
    BY <1>3, <1>12
    DEF EnterStartPlay, Enter, intent, rest, Unread, Data, Control,
      Places, Iterating, Ticking, emitting
  <2>3. Ready(given, base, time, seek, old)
    BY <2>1, <2>2 DEF Data
  <2>4. /\ pc' = "startNext" /\ lastMessage' = 0 /\ lastStamp' = None
        /\ batch' = {} /\ UNCHANGED <<dropped, ahead>>
        /\ given = {} /\ seek = FALSE /\ base = 1
        /\ iterator' = 1
    BY <1>12, <1>2, <1>3, <2>1
    DEF EnterStartPlay, Enter, intent, rest, Control, Iterating, Unread,
        Topics,
      Timed, Untimed, BaseOf, TypeOK
  <2>5. Ordered(given, base)' /\ Kept(given, base)'
    <3>1. InBatch' = {}
      BY <2>4 DEF InBatch
    <3>2. Ordered(given, base)'
      BY <2>4, <3>1 DEF Ordered
    <3>3. \A i \in Messages : ~(1 <= i /\ i < 1)
      BY <1>2
    <3>4. Kept(given, base)'
      BY <1>2, <2>4, <3>3 DEF Kept
    <3> QED
      BY <3>2, <3>4
  <2>6. StampKnown(given, old)' /\ ReadToGoal'
    BY <2>4 DEF StampKnown, StampHolds, ReadToGoal
  <2>7. UpToDate(given, base, time, seek, old)'
    BY <1>2, <2>3, <2>4 DEF Ready, Coherent, UpToDate
  <2>9. Ready(given, base, time, seek, old)'
    BY <2>4, <2>5, <2>6, <2>7 DEF Ready, Coherent
  <2> QED
    BY <1>3, <2>1, <2>2, <2>9, ReadsReady
<1>13. CASE StartReads
  <2>1. PICK given, base, time, seek, old :
          /\ given = messages /\ time = currentTime /\ seek = newSeek
          /\ old = oldStamp /\ base = BaseOf(time, seek)
    OBVIOUS
  <2>2. /\ ~hasError /\ KeepsOldStamp /\ UNCHANGED emitting
        /\ UNCHANGED currentTime /\ (Unread' => ahead)
        /\ pc' = "tickEmitWait" => calling
    BY <1>3, <1>13
    DEF StartReads, GoesOn, Keep, machine, intent, emitting, rest, Done, Item,
        Unread, Data, Control, Places, Ticking
  <2>3. Ready(given, base, time, seek, old)
    BY <2>1, <2>2 DEF Data
  <2>4. /\ pc \in {"startNext", "tickNext"} /\ iterator \in 1..Len(Results)
        /\ iterator' = iterator + 1
        /\ batch' = IF iterator \in Messages THEN batch \cup {iterator}
                    ELSE batch
        /\ iterator \in Messages => Results[iterator].time <= goal
        /\ lastMessage = 0 /\ lastStamp = None
        /\ UNCHANGED <<pc, goal, lastMessage, lastStamp, dropped, ahead>>
    BY <1>13, <1>2, <2>3
    DEF StartReads, GoesOn, Keep, machine, intent, emitting, rest, Done, Item,
        Messages, Control, Places, Iterating,
      Ticking, Ready, Coherent, Ordered, TypeOK
  <2>5. InBatch' = batch' /\ InBatch = batch
    BY <2>4 DEF InBatch, Bounded, Ticking
  <2>6. base \in Int /\ given \subseteq Int
    <3>1. base \in Int
      BY <1>2, <2>1, BaseFacts DEF TypeOK
    <3>2. given \subseteq {0} \cup Messages
      BY <2>3 DEF Ready, Coherent
    <3> QED
      BY <1>2, <3>1, <3>2
  <2>7. Ordered(given, base)'
    <3>1. /\ base <= iterator /\ \A j \in given : j < iterator
          /\ \A i \in batch :
               /\ base <= i /\ i < iterator /\ Results[i].time <= goal
               /\ \A j \in given : j < i
      BY <2>3, <2>4, <2>5 DEF Ready, Coherent, Ordered
    <3>2. ASSUME NEW i \in batch'
          PROVE  /\ base <= i /\ i < iterator + 1
                 /\ Results[i].time <= goal /\ \A j \in given : j < i
      <4>1. i \in batch \/ (i = iterator /\ iterator \in Messages)
        BY <2>4
      <4>2. i \in Int
        BY <1>2, <2>4, <4>1 DEF TypeOK
      <4> QED
        BY <2>4, <3>1, <4>1, <4>2
    <3>3. base <= iterator' /\ \A j \in given : j < iterator'
      BY <1>2, <2>4, <2>6, <3>1
    <3> QED
      BY <1>2, <2>4, <2>5, <3>2, <3>3 DEF Ordered
  <2>8. Kept(given, base)'
    BY <1>2, <2>3, <2>4, <2>5 DEF Ready, Coherent, Kept
  <2>9. StampHolds' /\ StampKnown(given, old)'
    BY <2>4 DEF StampKnown, StampHolds
  <2>10. Ready(given, base, time, seek, old)'
    BY <1>2, <2>3, <2>4, <2>7, <2>8, <2>9
    DEF Ready, Coherent, ReadToGoal, UpToDate
  <2> QED
    BY <1>3, <2>1, <2>2, <2>10, ReadsReady
<1>14. CASE StartInterrupted
  <2>1. PICK given, base, time, seek, old :
          /\ given = messages /\ time = currentTime /\ seek = newSeek
          /\ old = oldStamp /\ base = BaseOf(time, seek)
    OBVIOUS
  <2>2. /\ ~hasError /\ KeepsOldStamp /\ UNCHANGED emitting
        /\ UNCHANGED currentTime /\ (Unread' => ahead)
        /\ pc' = "tickEmitWait" => calling
    BY <1>3, <1>14
    DEF StartInterrupted, Done, Discard, EndState, intent, emitting, rest,
        Unread, Data, Control, Places, Ticking
  <2>3. Ready(given, base, time, seek, old)
    BY <2>1, <2>2 DEF Data
  <2>4. /\ pc \in {"startNext", "tickNext"} /\ pc' = "top"
        /\ iterator \in 1..(Len(Results) + 1)
        /\ iterator' \in {iterator, iterator + 1}
        /\ dropped' = (dropped \/ batch # {} \/ iterator \in Messages)
        /\ lastMessage = 0 /\ lastStamp = None
        /\ UNCHANGED <<lastMessage, lastStamp, ahead>>
    BY <1>14, <1>2, <2>3
    DEF StartInterrupted, Done, Discard, EndState, intent, emitting, rest,
        Control, Places, Iterating,
      Ticking, Ready, Coherent, Ordered, TypeOK
  <2>5. InBatch' = {} /\ InBatch = batch
    BY <2>4 DEF InBatch, Bounded, Ticking
  <2>6. base \in Int /\ given \subseteq Int
    <3>1. base \in Int
      BY <1>2, <2>1, BaseFacts DEF TypeOK
    <3>2. given \subseteq {0} \cup Messages
      BY <2>3 DEF Ready, Coherent
    <3> QED
      BY <1>2, <3>1, <3>2
  <2>7. Ordered(given, base)'
    BY <1>2, <2>3, <2>4, <2>5, <2>6 DEF Ready, Coherent, Ordered, TypeOK
  <2>8. Kept(given, base)'
    <3>1. Kept(given, base)
      BY <2>3 DEF Ready, Coherent
    <3>2. ASSUME ~dropped'
          PROVE  ~dropped /\ batch = {} /\ iterator \notin Messages
      BY <2>4, <3>2 DEF TypeOK
    <3>3. \A i \in Messages : i < iterator' => i < iterator \/ i = iterator
      BY <1>2, <2>4
    <3> QED
      BY <1>2, <2>4, <2>5, <3>1, <3>2, <3>3 DEF Kept
  <2>9. StampHolds' /\ StampKnown(given, old)'
    BY <2>4 DEF StampKnown, StampHolds
  <2>10. Ready(given, base, time, seek, old)'
    BY <1>2, <2>3, <2>4, <2>7, <2>8, <2>9
    DEF Ready, Coherent, ReadToGoal, UpToDate
  <2> QED
    BY <1>3, <2>1, <2>2, <2>10, ReadsReady
<1>15. CASE StartFinishes
  <2>1. /\ ~hasError /\ KeepsOldStamp /\ pc = "startNext" /\ pc' = "top"
        /\ goal = StopTime /\ currentTime' = StopTime
        /\ state' = "start-play" /\ UNCHANGED dropped
        /\ QueueEmitWith(batch, StopTime, newSeek, FALSE)
    BY <1>3, <1>15 DEF StartFinishes, EndIn, Save, rest, TypeOK, Control,
      Places, Timed, Bounded
  <2>0. iterator \in 1..(Len(Results) + 1)
    BY <1>2, <2>1 DEF TypeOK, Control, Iterating
  <2>2. PICK given, base, time, old :
          /\ given = batch /\ time = StopTime
          /\ old = oldStamp /\ base = BaseOf(time, FALSE)
    OBVIOUS
  <2>3. /\ ~newSeek /\ base = shown
        /\ Coherent({}, base, currentTime, FALSE, oldStamp)
        /\ lastMessage = 0 /\ lastStamp = None
    <3>1. ~newSeek /\ base = shown
      BY <2>1, <2>2 DEF Data, Ready, BaseOf
    <3>2. Coherent({}, base, currentTime, FALSE, oldStamp)
      BY <2>1, <3>1 DEF Data, Ready, BaseOf, TypeOK
    <3> QED
      <4>1. Ordered({}, base)
        BY <3>2 DEF Coherent
      <4>2. iterator # 0
        BY <1>2, <2>0
      <4> QED
        BY <2>1, <3>1, <3>2, <4>1, <4>2 DEF Ordered
  <2>4. /\ iterator' = IF iterator = Len(Results) + 1 THEN iterator
                       ELSE iterator + 1
        /\ lastMessage' = IF iterator \in Messages THEN iterator ELSE 0
        /\ lastStamp' = IF /\ iterator <= Len(Results)
                           /\ Results[iterator].type = "stamp"
                        THEN Results[iterator].time ELSE None
        /\ iterator <= Len(Results) =>
             \/ /\ iterator \in Messages /\ Results[iterator].time > StopTime
                /\ Results[iterator].type # "stamp"
             \/ /\ iterator \notin Messages
                /\ Results[iterator].time >= StopTime
                /\ Results[iterator].type = "stamp"
        /\ iterator \in Messages => iterator <= Len(Results)
    BY <1>2, <1>15, <2>0, <2>1, <2>3, Kinds
    DEF StartFinishes, GoesOn, Save, Done,
      Item, Messages
  <2>5. /\ InBatch = given /\ InBatch' = {}
        /\ given \subseteq Messages /\ base \in Int /\ iterator' \in Int
    <3>1. InBatch = given /\ InBatch' = {}
      BY <2>1, <2>2 DEF InBatch, Bounded, Ticking
    <3> QED
      <4>1. batch \subseteq Messages /\ shown \in 1..(Len(Results) + 1)
        BY DEF TypeOK
      <4> QED
        <5>1. base \in Int
          BY <1>2, <2>3, <4>1
        <5>2. iterator' \in Int
          BY <1>2, <2>0, <2>4
        <5> QED
          BY <2>2, <3>1, <4>1, <5>1, <5>2
  <2>6. /\ base <= iterator
        /\ \A i \in given :
             base <= i /\ i < iterator /\ Results[i].time <= StopTime
    <3>1. Ordered({}, base)
      BY <2>3 DEF Coherent
    <3>2. iterator # 0
      BY <1>2, <2>0
    <3> QED
      BY <2>1, <2>5, <3>1, <3>2 DEF Ordered
  <2>7. Ordered(given, base)'
    <3>1. base <= iterator' /\ \A i \in given : i < iterator'
      BY <1>2, <2>0, <2>1, <2>4, <2>5, <2>6
    <3>2. lastMessage' # 0 =>
            /\ lastMessage' = iterator /\ iterator' = iterator + 1
            /\ lastStamp' = None
      BY <1>2, <2>0, <2>1, <2>4
    <3> QED
      BY <1>2, <2>0, <2>1, <2>5, <2>6, <3>1, <3>2 DEF Ordered
  <2>8. Kept(given, base)'
    BY <1>2, <2>0, <2>1, <2>3, <2>4, <2>5 DEF Coherent, Kept
  <2>9. ASSUME NEW i \in Messages, i > iterator, iterator <= Len(Results)
        PROVE  /\ Results[i].time \in Nat /\ Results[iterator].time \in Nat
               /\ Results[iterator].time <= Results[i].time
               /\ Results[iterator].type = "stamp" =>
                    Results[iterator].time < Results[i].time
    BY <1>2, <2>0, <2>1, <2>9, ResultsFacts
  <2>10. StampKnown(given, old)' /\ ReadToGoal'
    BY <1>2, <2>0, <2>1, <2>4, <2>9 DEF StampKnown, StampHolds, ReadToGoal
  <2>11. UpToDate(given, base, time, FALSE, old)'
    <3> SUFFICES ASSUME ~dropped, NEW i \in Messages, i >= base,
                        Results[i].time <= StopTime
                 PROVE  i \in given
      BY <1>2, <2>0, <2>1, <2>2 DEF UpToDate
    <3>1. i < iterator
      BY <1>2, <2>0, <2>1, <2>4, <2>9
    <3> QED
      BY <1>2, <2>0, <2>1, <2>3, <2>5, <3>1 DEF Coherent, Kept
  <2>12. Ready(given, base, time, FALSE, old)'
    <3>1. /\ given \subseteq {0} \cup Messages
          /\ \A i \in given : i # 0 /\ i >= base /\ Results[i].time <= time
      <4>1. \A i \in given : i # 0
        BY <1>2, <2>5
      <4>2. \A i \in given : i >= base
        BY <1>2, <2>5, <2>6
      <4> QED
        BY <2>2, <2>5, <2>6, <4>1, <4>2
    <3> QED
      BY <1>2, <2>0, <2>1, <2>7, <2>8, <2>10, <2>11, <3>1 DEF Ready, Coherent
  <2> QED
    BY <1>2, <1>3, <2>1, <2>2, <2>3, <2>12, GivesReady
    DEF KeepsOldStamp, TypeOK, Unread
<1>16. CASE StartFails
  <2>1. hasError'
    BY <1>16 DEF StartFails, Crash
  <2> QED
    BY <2>1
<1>17. CASE EnterSeekBackfill
  <2>1. CASE seekTarget = None
    <3>1. Quiet /\ (Unread' => ahead) /\ KeepsOldStamp
      BY <1>3, <1>17, <2>1
      DEF EnterSeekBackfill, Enter, Clamp, intent, emitting, rest, Quiet,
          Unread, Bounded, Ticking
    <3>2. ~hasError /\ UNCHANGED emitting /\ UNCHANGED currentTime
      BY <1>17 DEF EnterSeekBackfill, rest
    <3> QED
      BY <3>1, <3>2, QuietKeeps
  <2>2. CASE seekTarget # None
    <3>1. PICK given, base, time, seek, old :
            /\ given = messages /\ time = currentTime /\ seek = newSeek
            /\ old = oldStamp /\ base = BaseOf(time, seek)
      OBVIOUS
    <3>2. /\ ~hasError /\ KeepsOldStamp /\ UNCHANGED emitting
          /\ UNCHANGED <<currentTime, dropped>> /\ pc' = "backfill"
          /\ state' = "seek-backfill" /\ lastMessage' = 0
          /\ iterator' = 0
      BY <1>3, <1>17, <2>2
      DEF EnterSeekBackfill, Enter, Clamp, intent, emitting, rest, Control,
          Iterating
    <3>3. Ready(given, base, time, seek, old)'
      BY <1>2, <3>1, <3>2 DEF Data, Ready, Coherent, Ordered, Kept,
        StampKnown, ReadToGoal, UpToDate, emitting
    <3> QED
      BY <1>3, <3>1, <3>2, <3>3, ReadsReady DEF Unread
  <2> QED
    BY <2>1, <2>2
<1>18. CASE SeekAck
  <2>1. /\ ~hasError /\ KeepsOldStamp /\ goal \in Nat /\ pc' = "backfill"
        /\ iterator' = 0 /\ lastMessage' = 0 /\ ahead'
        /\ currentTime' = goal /\ UNCHANGED dropped
        /\ QueueEmitWith({}, goal, newSeek, FALSE)
    BY <1>3, <1>18 DEF SeekAck, machine, reading, rest, TypeOK, Data,
      Control, Places, Timed, Iterating, Ready, Coherent
  <2>2. PICK given, base, time, seek, old :
          /\ given = {} /\ time = goal /\ seek = newSeek
          /\ old = oldStamp /\ base = BaseOf(time, seek)
    OBVIOUS
  <2>3. Ready(given, base, time, seek, old)'
    BY <2>1, <2>2 DEF Ready, Coherent, Ordered, Kept, StampKnown, ReadToGoal,
      UpToDate
  <2> QED
    BY <1>3, <2>1, <2>2, <2>3, GivesReady DEF KeepsOldStamp, TypeOK
<1>19. CASE BackfillLoaded
  <2>1. /\ ~hasError /\ KeepsOldStamp /\ goal \in Nat /\ pc' = "seekStop"
        /\ iterator' = 0 /\ lastMessage' = 0 /\ currentTime' = goal
        /\ state' = "seek-backfill"
        /\ QueueEmitWith({0}, goal, TRUE, FALSE)
    BY <1>3, <1>19 DEF BackfillLoaded, rest, TypeOK, Data,
      Control, Places, Timed, Iterating, Ready, Coherent
  <2>2. PICK given, base, time, seek, old :
          /\ given = {0} /\ time = goal /\ seek = TRUE
          /\ old = oldStamp /\ base = BaseOf(time, seek)
    OBVIOUS
  <2>3. base = After(time) /\ After(time)' = base
    BY <1>2, <2>2 DEF BaseOf, After
  <2>4. \A i \in Messages : Results[i].time <= time => i < base
    BY <1>2, <2>1, <2>2, <2>3, AfterFacts
  <2>5. Ready(given, base, time, seek, old)'
    BY <1>2, <2>1, <2>2, <2>3, <2>4, AfterFacts
    DEF Ready, Coherent, Ordered, Kept, StampKnown, ReadToGoal, UpToDate
  <2> QED
    BY <1>3, <2>1, <2>2, <2>5, GivesReady DEF KeepsOldStamp, Unread
<1>20. CASE BackfillInterrupted
  <2>1. Quiet /\ (Unread' => ahead) /\ KeepsOldStamp
    BY <1>2, <1>3, <1>20
    DEF BackfillInterrupted, ClearTarget, reading, emitting, rest, Quiet, kind,
        Unread, Data, TypeOK, Control, Places, Requests, Iterating, Bounded,
        Ticking
  <2>2. ~hasError /\ UNCHANGED emitting /\ UNCHANGED currentTime
    BY <1>20 DEF BackfillInterrupted, ClearTarget, reading, emitting, rest
  <2> QED
    BY <2>1, <2>2, QuietKeeps
<1>21. CASE SeekFails
  <2>1. hasError'
    BY <1>21 DEF SeekFails, Crash
  <2> QED
    BY <2>1
<1>22. CASE SeekEnds
  <2>1. PICK given, base, time, seek :
          /\ given = messages /\ time = currentTime /\ seek = newSeek
          /\ base = BaseOf(time, seek)
    OBVIOUS
  <2>2. /\ ~hasError /\ UNCHANGED emitting /\ pc = "seekStop"
        /\ UNCHANGED <<currentTime, dropped, lastMessage, lastStamp>>
        /\ ~Unread' /\ pc' = "top"
        /\ oldStamp' = (lastStamp # None)
    BY <1>22 DEF SeekEnds, EndIn, rest, Unread, Control, Places, Next, History
  <2>3. Ready(given, base, time, seek, oldStamp)
    BY <2>1, <2>2 DEF Data
  <2>4. /\ base = After(currentTime) /\ given \subseteq {0}
        /\ lastMessage' = 0 /\ currentTime \in Nat
    BY <1>22, <2>1, <2>2, <2>3
    DEF Ready, Coherent, Control, Places, Timed, Untimed, TypeOK
  <2>5. /\ base \in 1..(Len(Results) + 1)
        /\ \A i \in Messages : Results[i].time <= currentTime => i < base
    BY <1>2, <2>4, AfterFacts DEF TypeOK
  <2>6. /\ iterator' \in 1..(Len(Results) + 1) /\ base <= iterator'
        /\ iterator' = base \/ Messages = {}
    BY <1>2, <1>22, <2>4, <2>5
    DEF SeekEnds, NewIterator, Control, Topics, None
  <2>7. InBatch' = {}
    BY <2>2 DEF InBatch, Bounded, Ticking
  <2>8. Ordered(given, base)' /\ Kept(given, base)'
    <3>1. \A i \in given : i < iterator'
      BY <1>2, <2>4, <2>6
    <3>2. \A i \in Messages : ~(base <= i /\ i < iterator')
      BY <1>2, <2>5, <2>6
    <3> QED
      BY <1>2, <2>2, <2>4, <2>6, <2>7, <3>1, <3>2 DEF Ordered, Kept
  <2>9. StampKnown(given, oldStamp)' /\ ReadToGoal'
    BY <2>2, <2>4, <2>7 DEF StampKnown, StampHolds, ReadToGoal
  <2>10. UpToDate(given, base, time, seek, oldStamp)'
    BY <1>2, <2>1, <2>4, <2>5, ResultsFacts DEF UpToDate
  <2>11. Ready(given, base, time, seek, oldStamp)'
    BY <1>2, <2>2, <2>3, <2>4, <2>8, <2>9, <2>10
    DEF Ready, Coherent, emitting
  <2>12. base = BaseOf(time, seek)'
    BY <1>2, <2>1, <2>2 DEF BaseOf, After, emitting
  <2>13. Data'
    BY <2>1, <2>2, <2>11, <2>12 DEF Data, emitting
  <2> QED
    BY <1>2, <2>2, <2>13
    DEF Emitted, EmitsAllOnce, SeekShowsBackfill, EmitsForward,
      NothingSkipped,
      NothingSkippedBut, emitting
<1>23. CASE EnterReset
  <2>1. Quiet /\ (Unread' => ahead) /\ KeepsOldStamp
    BY <1>2, <1>3, <1>23
    DEF EnterReset, Enter, intent, reading, emitting, rest, Quiet, kind,
        Unread, Data, TypeOK, Control, Places, Requests, Iterating, Bounded,
        Ticking
  <2>2. ~hasError /\ UNCHANGED emitting /\ UNCHANGED currentTime
    BY <1>23 DEF EnterReset, Enter, intent, reading, emitting, rest
  <2> QED
    BY <2>1, <2>2, QuietKeeps
<1>24. CASE ResetEnds
  <2>1. PICK given, base, time, seek, old :
          /\ given = messages /\ time = currentTime /\ seek = newSeek
          /\ old = oldStamp /\ base = BaseOf(time, seek)
    OBVIOUS
  <2>2. /\ ~hasError /\ KeepsOldStamp /\ UNCHANGED emitting
        /\ UNCHANGED currentTime /\ ~Unread' /\ pc' = "top"
    BY <1>3, <1>24 DEF ResetEnds, EndIn, rest, Unread, Control, Places
  <2>3. Ready(given, base, time, seek, old)
    BY <2>1, <2>2 DEF Data
  <2>4. Messages = {} /\ Len(Results) = 0
    BY <1>2, <1>24 DEF ResetEnds, Control, Places, Topics
  <2>5. base = 1
    BY <2>1, <2>4, AfterFacts DEF BaseOf, TypeOK
  <2>6. lastMessage' = 0 /\ batch' = {} /\ iterator' = 1
    BY <1>2, <1>24, <2>4, AfterFacts DEF ResetEnds, NewIterator, TypeOK
  <2>7. InBatch' = {} /\ given \subseteq {0}
    BY <2>3, <2>4, <2>6 DEF InBatch, Ready, Coherent
  <2>8. Ordered(given, base)' /\ Kept(given, base)'
    <3>1. \A i \in given : i < iterator'
      BY <2>6, <2>7
    <3> QED
      BY <1>2, <2>2, <2>4, <2>5, <2>6, <2>7, <3>1 DEF Ordered, Kept
  <2>9. StampKnown(given, old)' /\ ReadToGoal'
    BY <1>2, <2>2, <2>4 DEF StampKnown, StampHolds, ReadToGoal
  <2>10. Ready(given, base, time, seek, old)'
    <3>1. UpToDate(given, base, time, seek, old)'
      BY <1>2, <2>4 DEF UpToDate
    <3>2. \A i \in given : i # 0 => FALSE
      BY <2>7
    <3> QED
      BY <1>2, <2>2, <2>3, <2>6, <2>7, <2>8, <2>9, <3>1, <3>2
      DEF Ready, Coherent, emitting
  <2> QED
    BY <1>3, <2>1, <2>2, <2>10, ReadsReady
<1>25. CASE ResetFails
  <2>1. hasError'
    BY <1>25 DEF ResetFails, Crash
  <2> QED
    BY <2>1
<1>26. CASE EnterIdle
  <2>1. Quiet /\ (Unread' => ahead) /\ KeepsOldStamp
    BY <1>2, <1>3, <1>26
    DEF EnterIdle, Enter, QueueEmit, reading, rest, Quiet, kind, Unread, Data,
        TypeOK, Control, Places, Iterating, Bounded, Ticking
  <2>2. /\ ~hasError /\ UNCHANGED currentTime
        /\ QueueEmitWith(messages, currentTime, newSeek, FALSE)
    BY <1>26 DEF EnterIdle, Enter, QueueEmit, reading, rest, TypeOK
  <2> QED
    BY <2>1, <2>2, QuietQueue
<1>27. CASE IdleAborted
  <2>1. Quiet /\ (Unread' => ahead) /\ KeepsOldStamp
    BY <1>2, <1>3, <1>27
    DEF IdleAborted, EndState, intent, reading, emitting, rest, Quiet, kind,
        Unread, Data, TypeOK, Control, Places, Requests, Iterating, Bounded,
        Ticking
  <2>2. ~hasError /\ UNCHANGED emitting /\ UNCHANGED currentTime
    BY <1>27 DEF IdleAborted, EndState, intent, reading, emitting, rest
  <2> QED
    BY <2>1, <2>2, QuietKeeps
<1>28. CASE EnterPlay
  <2>1. Quiet /\ (Unread' => ahead) /\ KeepsOldStamp
    BY <1>2, <1>3, <1>28
    DEF EnterPlay, Enter, intent, reading, emitting, rest, Quiet, kind, Unread,
        Data, TypeOK, Control, Places, Requests, Iterating, Bounded, Ticking
  <2>2. ~hasError /\ UNCHANGED emitting /\ UNCHANGED currentTime
    BY <1>28 DEF EnterPlay, Enter, intent, reading, emitting, rest
  <2> QED
    BY <2>1, <2>2, QuietKeeps
<1>29. CASE PlayStops
  <2>1. Quiet /\ (Unread' => ahead) /\ KeepsOldStamp
    BY <1>2, <1>3, <1>29
    DEF PlayStops, MayTick, EndState, intent, reading, emitting, rest, Quiet,
        kind, Unread, Data, TypeOK, Control, Places, Requests, Iterating,
        Bounded, Ticking
  <2>2. ~hasError /\ UNCHANGED emitting /\ UNCHANGED currentTime
    BY <1>29 DEF PlayStops, MayTick, EndState, intent, reading, emitting, rest
  <2> QED
    BY <2>1, <2>2, QuietKeeps
<1>30. CASE PlayReachesEnd
  <2>1. PICK given, base, time, seek, old :
          /\ given = messages /\ time = currentTime /\ seek = newSeek
          /\ old = oldStamp /\ base = BaseOf(time, seek)
    OBVIOUS
  <2>2. /\ ~hasError /\ KeepsOldStamp /\ UNCHANGED emitting
        /\ UNCHANGED currentTime /\ (Unread' => ahead)
        /\ pc' = "tickEmitWait" => calling
    BY <1>3, <1>30
    DEF PlayReachesEnd, MayTick, EndIn, emitting, rest, Unread, Data, Control,
        Places, Ticking
  <2>3. Ready(given, base, time, seek, old)
    BY <2>1, <2>2 DEF Data
  <2>4. /\ pc = "playLoop" /\ pc' = "top" /\ lastStamp' = None
        /\ UNCHANGED <<iterator, lastMessage, dropped, ahead>>
    BY <1>30 DEF PlayReachesEnd, MayTick, EndIn, emitting, rest
  <2>9. Ready(given, base, time, seek, old)'
    BY <1>2, <2>3, <2>4 DEF Ready, Coherent, Ordered, Kept, StampKnown,
      StampHolds, ReadToGoal, UpToDate, InBatch, Bounded, Ticking
  <2> QED
    BY <1>3, <2>1, <2>2, <2>9, ReadsReady
<1>31. ASSUME NEW range \in TickRanges, TickStarts(range)
      PROVE  Data' /\ Emitted'
  <2>1. PICK given, base, time, seek, old :
          /\ given = messages /\ time = currentTime /\ seek = newSeek
          /\ old = oldStamp /\ base = BaseOf(time, seek)
    OBVIOUS
  <2>2. /\ ~hasError /\ KeepsOldStamp /\ UNCHANGED emitting
        /\ UNCHANGED currentTime /\ (Unread' => ahead)
        /\ pc' = "tickEmitWait" => calling
    BY <1>3, <1>31
    DEF TickStarts, MayTick, TickEnd, StampPast, AwaitEmit, intent, emitting,
        rest, Clamp, Unread, Data, Control, Places, Ticking
  <2>3. Ready(given, base, time, seek, old)
    BY <2>1, <2>2 DEF Data
  <2>4. /\ pc = "playLoop" /\ iterator \in 1..(Len(Results) + 1)
        /\ goal' \in Nat /\ lastMessage \in {0} \cup Messages
        /\ lastStamp \in {None} \cup Nat
        /\ UNCHANGED <<iterator, dropped, ahead>>
    <3>1. currentTime \in Nat
      BY <1>31 DEF TickStarts, Control, Places, Timed, Untimed, Ticking, TypeOK
    <3>2. goal' \in Nat
      BY <1>2, <1>31, <3>1, PlayerAssumption
      DEF TickStarts, TickEnd, Clamp, TypeOK, None
    <3> QED
      BY <1>31, <3>2 DEF TickStarts, emitting, Control, Places, Iterating,
        Ticking, TypeOK
  <2>5. base \in Int /\ given \subseteq Int /\ InBatch = {}
    BY <1>2, <2>1, <2>3, <2>4, AfterFacts
    DEF TypeOK, BaseOf, Ready, Coherent, InBatch, Bounded, Ticking
  <2>6. pc' = "tickEmit" => given = {} /\ ~seek
    BY <1>31, <2>1, <2>2 DEF TickStarts, AwaitEmit, Data, TypeOK
  <2>7. ASSUME \/ lastStamp # None /\ lastStamp >= goal'
               \/ lastMessage # 0 /\ Results[lastMessage].time > goal'
        PROVE  Ready(given, base, time, seek, old)'
    <3>1. /\ batch' = {} /\ pc' \in {"tickEmit", "tickEmitWait"}
          /\ lastMessage' = lastMessage
          /\ lastStamp' = IF lastStamp # None /\ lastStamp >= goal'
                          THEN lastStamp ELSE None
      BY <1>31, <2>7 DEF TickStarts, AwaitEmit, StampPast
    <3>2. InBatch' = {}
      BY <3>1 DEF InBatch
    <3>3. Ordered(given, base)' /\ Kept(given, base)'
      BY <1>2, <2>3, <2>4, <2>5, <3>1, <3>2
      DEF Ready, Coherent, Ordered, Kept
    <3>4. StampHolds => StampHolds'
      BY <1>2, <2>4, <3>1 DEF StampHolds
    <3>5. StampKnown(given, old)'
      BY <2>3, <2>4, <3>2, <3>4 DEF Ready, Coherent, StampKnown
    <3>6. ReadToGoal'
      <4>1. ASSUME lastStamp # None /\ lastStamp >= goal'
            PROVE  ReadToGoal'
        <5>1. lastMessage' = 0 /\ lastStamp' = lastStamp
          BY <2>3, <2>4, <3>1, <4>1 DEF Ready, Coherent, Ordered
        <5>2. ASSUME StampHolds', NEW i \in Messages', i >= iterator'
              PROVE  Results'[i].time > goal'
          <6>1. lastStamp < Results[i].time /\ Results[i].time \in Nat
            BY <1>2, <2>4, <4>1, <5>1, <5>2 DEF StampHolds
          <6> QED
            BY <1>2, <2>4, <4>1, <6>1
        <5> QED
          BY <5>1, <5>2 DEF ReadToGoal
      <4>2. ASSUME ~(lastStamp # None /\ lastStamp >= goal')
            PROVE  ReadToGoal'
        <5>1. /\ lastMessage \in 1..Len(Results) /\ lastMessage < iterator
              /\ Results[lastMessage].time > goal'
          BY <1>2, <2>3, <2>4, <2>7, <4>2 DEF Ready, Coherent, Ordered
        <5>2. ASSUME NEW i \in Messages, i >= iterator
              PROVE  Results[i].time > goal'
          <6>1. i \in 1..Len(Results) /\ lastMessage < i
            BY <1>2, <2>4, <5>1, <5>2
          <6>2. /\ Results[lastMessage].time <= Results[i].time
                /\ Results[lastMessage].time \in Nat
                /\ Results[i].time \in Nat
            BY <1>2, <5>1, <6>1, ResultsFacts
          <6> QED
            BY <2>4, <5>1, <6>2
        <5> QED
          BY <1>2, <2>4, <3>1, <5>1, <5>2 DEF ReadToGoal
      <4> QED
        BY <4>1, <4>2
    <3> QED
      BY <1>2, <2>3, <2>4, <2>6, <3>1, <3>3, <3>5, <3>6
      DEF Ready, Coherent, UpToDate
  <2>8. ASSUME ~(\/ lastStamp # None /\ lastStamp >= goal'
                 \/ lastMessage # 0 /\ Results[lastMessage].time > goal')
        PROVE  Ready(given, base, time, seek, old)'
    <3>1. /\ batch' = {lastMessage} \ {0} /\ pc' = "tickNext"
          /\ lastMessage' = 0 /\ lastStamp' = None
      BY <1>31, <2>8 DEF TickStarts, AwaitEmit, StampPast
    <3>2. InBatch' = {lastMessage} \ {0}
      BY <3>1 DEF InBatch, Bounded, Ticking
    <3>3. Ordered(given, base)'
      BY <1>2, <2>3, <2>4, <2>5, <2>8, <3>1, <3>2
      DEF Ready, Coherent, Ordered
    <3>4. Kept(given, base)'
      BY <1>2, <2>3, <2>4, <2>5, <3>1, <3>2
      DEF Ready, Coherent, Kept
    <3>5. StampKnown(given, old)' /\ ReadToGoal'
      BY <3>1 DEF StampKnown, StampHolds, ReadToGoal
    <3> QED
      BY <1>2, <2>3, <2>4, <2>6, <3>1, <3>3, <3>4, <3>5
      DEF Ready, Coherent, UpToDate
  <2>9. Ready(given, base, time, seek, old)'
    BY <2>7, <2>8
  <2> QED
    BY <1>3, <2>1, <2>2, <2>9, ReadsReady
<1>32. CASE TickReads
  <2>1. PICK given, base, time, seek, old :
          /\ given = messages /\ time = currentTime /\ seek = newSeek
          /\ old = oldStamp /\ base = BaseOf(time, seek)
    OBVIOUS
  <2>2. /\ ~hasError /\ KeepsOldStamp /\ UNCHANGED emitting
        /\ UNCHANGED currentTime /\ (Unread' => ahead)
        /\ pc' = "tickEmitWait" => calling
    BY <1>3, <1>32
    DEF TickReads, GoesOn, Keep, machine, intent, emitting, rest, Done, Item,
        Unread, Data, Control, Places, Ticking
  <2>3. Ready(given, base, time, seek, old)
    BY <2>1, <2>2 DEF Data
  <2>4. /\ pc \in {"startNext", "tickNext"} /\ iterator \in 1..Len(Results)
        /\ iterator' = iterator + 1
        /\ batch' = IF iterator \in Messages THEN batch \cup {iterator}
                    ELSE batch
        /\ iterator \in Messages => Results[iterator].time <= goal
        /\ lastMessage = 0 /\ lastStamp = None
        /\ UNCHANGED <<pc, goal, lastMessage, lastStamp, dropped, ahead>>
    BY <1>32, <1>2, <2>3
    DEF TickReads, GoesOn, Keep, machine, intent, emitting, rest, Done, Item,
        Messages, Control, Places, Iterating,
      Ticking, Ready, Coherent, Ordered, TypeOK
  <2>5. InBatch' = batch' /\ InBatch = batch
    BY <2>4 DEF InBatch, Bounded, Ticking
  <2>6. base \in Int /\ given \subseteq Int
    <3>1. base \in Int
      BY <1>2, <2>1, BaseFacts DEF TypeOK
    <3>2. given \subseteq {0} \cup Messages
      BY <2>3 DEF Ready, Coherent
    <3> QED
      BY <1>2, <3>1, <3>2
  <2>7. Ordered(given, base)'
    <3>1. /\ base <= iterator /\ \A j \in given : j < iterator
          /\ \A i \in batch :
               /\ base <= i /\ i < iterator /\ Results[i].time <= goal
               /\ \A j \in given : j < i
      BY <2>3, <2>4, <2>5 DEF Ready, Coherent, Ordered
    <3>2. ASSUME NEW i \in batch'
          PROVE  /\ base <= i /\ i < iterator + 1
                 /\ Results[i].time <= goal /\ \A j \in given : j < i
      <4>1. i \in batch \/ (i = iterator /\ iterator \in Messages)
        BY <2>4
      <4>2. i \in Int
        BY <1>2, <2>4, <4>1 DEF TypeOK
      <4> QED
        BY <2>4, <3>1, <4>1, <4>2
    <3>3. base <= iterator' /\ \A j \in given : j < iterator'
      BY <1>2, <2>4, <2>6, <3>1
    <3> QED
      BY <1>2, <2>4, <2>5, <3>2, <3>3 DEF Ordered
  <2>8. Kept(given, base)'
    BY <1>2, <2>3, <2>4, <2>5 DEF Ready, Coherent, Kept
  <2>9. StampHolds' /\ StampKnown(given, old)'
    BY <2>4 DEF StampKnown, StampHolds
  <2>10. Ready(given, base, time, seek, old)'
    BY <1>2, <2>3, <2>4, <2>7, <2>8, <2>9
    DEF Ready, Coherent, ReadToGoal, UpToDate
  <2> QED
    BY <1>3, <2>1, <2>2, <2>10, ReadsReady
<1>33. CASE TickInterrupted
  <2>1. PICK given, base, time, seek, old :
          /\ given = messages /\ time = currentTime /\ seek = newSeek
          /\ old = oldStamp /\ base = BaseOf(time, seek)
    OBVIOUS
  <2>2. /\ ~hasError /\ KeepsOldStamp /\ UNCHANGED emitting
        /\ UNCHANGED currentTime /\ (Unread' => ahead)
        /\ pc' = "tickEmitWait" => calling
    BY <1>3, <1>33
    DEF TickInterrupted, Discard, EndState, intent, emitting, rest, Done,
        Unread, Data, Control, Places, Ticking
  <2>3. Ready(given, base, time, seek, old)
    BY <2>1, <2>2 DEF Data
  <2>4. /\ pc \in {"startNext", "tickNext"} /\ pc' = "top"
        /\ iterator \in 1..(Len(Results) + 1)
        /\ iterator' \in {iterator, iterator + 1}
        /\ dropped' = (dropped \/ batch # {} \/ iterator \in Messages)
        /\ lastMessage = 0 /\ lastStamp = None
        /\ UNCHANGED <<lastMessage, lastStamp, ahead>>
    BY <1>33, <1>2, <2>3
    DEF TickInterrupted, Discard, EndState, intent, emitting, rest, Done,
        Control, Places, Iterating,
      Ticking, Ready, Coherent, Ordered, TypeOK
  <2>5. InBatch' = {} /\ InBatch = batch
    BY <2>4 DEF InBatch, Bounded, Ticking
  <2>6. base \in Int /\ given \subseteq Int
    <3>1. base \in Int
      BY <1>2, <2>1, BaseFacts DEF TypeOK
    <3>2. given \subseteq {0} \cup Messages
      BY <2>3 DEF Ready, Coherent
    <3> QED
      BY <1>2, <3>1, <3>2
  <2>7. Ordered(given, base)'
    BY <1>2, <2>3, <2>4, <2>5, <2>6 DEF Ready, Coherent, Ordered, TypeOK
  <2>8. Kept(given, base)'
    <3>1. Kept(given, base)
      BY <2>3 DEF Ready, Coherent
    <3>2. ASSUME ~dropped'
          PROVE  ~dropped /\ batch = {} /\ iterator \notin Messages
      BY <2>4, <3>2 DEF TypeOK
    <3>3. \A i \in Messages : i < iterator' => i < iterator \/ i = iterator
      BY <1>2, <2>4
    <3> QED
      BY <1>2, <2>4, <2>5, <3>1, <3>2, <3>3 DEF Kept
  <2>9. StampHolds' /\ StampKnown(given, old)'
    BY <2>4 DEF StampKnown, StampHolds
  <2>10. Ready(given, base, time, seek, old)'
    BY <1>2, <2>3, <2>4, <2>7, <2>8, <2>9
    DEF Ready, Coherent, ReadToGoal, UpToDate
  <2> QED
    BY <1>3, <2>1, <2>2, <2>10, ReadsReady
<1>34. CASE TickReadsAll
  <2>1. PICK given, base, time, seek, old :
          /\ given = messages /\ time = currentTime /\ seek = newSeek
          /\ old = oldStamp /\ base = BaseOf(time, seek)
    OBVIOUS
  <2>2. /\ ~hasError /\ KeepsOldStamp /\ UNCHANGED emitting
        /\ UNCHANGED currentTime /\ (Unread' => ahead)
        /\ pc' = "tickEmitWait" => calling
    BY <1>3, <1>34
    DEF TickReadsAll, GoesOn, Save, AwaitEmit, intent, emitting, rest, Done,
        Item, Unread, Data, Control, Places, Ticking
  <2>3. Ready(given, base, time, seek, old)
    BY <2>1, <2>2 DEF Data
  <2>4. /\ pc = "tickNext" /\ pc' \in {"tickEmit", "tickEmitWait"}
        /\ iterator \in 1..(Len(Results) + 1) /\ goal \in Nat
        /\ lastMessage = 0 /\ lastStamp = None
        /\ UNCHANGED <<goal, batch, dropped, ahead>>
    BY <1>34, <2>3 DEF TickReadsAll, AwaitEmit, Save, emitting, Control,
      Places, Timed, Iterating, Ticking, Bounded, Ready, Coherent, Ordered,
      TypeOK
  <2>5. /\ iterator' = IF iterator = Len(Results) + 1 THEN iterator
                       ELSE iterator + 1
        /\ lastMessage' = IF iterator \in Messages THEN iterator ELSE 0
        /\ lastStamp' = IF /\ iterator <= Len(Results)
                           /\ Results[iterator].type = "stamp"
                        THEN Results[iterator].time ELSE None
        /\ iterator <= Len(Results) =>
             \/ /\ iterator \in Messages /\ Results[iterator].time > goal
                /\ Results[iterator].type # "stamp"
             \/ /\ iterator \notin Messages /\ Results[iterator].time >= goal
                /\ Results[iterator].type = "stamp"
        /\ iterator \in Messages => iterator <= Len(Results)
    BY <1>2, <1>34, <2>4, Kinds DEF TickReadsAll, GoesOn, Save, Done, Item,
      Messages
  <2>6. base \in Int /\ given \subseteq Int
    <3>1. base \in Int
      BY <1>2, <2>1, BaseFacts DEF TypeOK
    <3>2. given \subseteq {0} \cup Messages
      BY <2>3 DEF Ready, Coherent
    <3> QED
      BY <1>2, <3>1, <3>2
  <2>7. InBatch' = batch /\ InBatch = batch
    BY <2>4 DEF InBatch, Bounded, Ticking
  <2>8. pc' = "tickEmit" => given = {} /\ ~seek
    BY <1>34, <2>1, <2>2 DEF TickReadsAll, AwaitEmit, Data, TypeOK
  <2>9. Ready(given, base, time, seek, old)'
    <3>1. Ordered(given, base)' /\ Kept(given, base)'
      <4>1. /\ base <= iterator /\ \A j \in given : j < iterator
            /\ \A i \in batch :
                 /\ base <= i /\ i < iterator /\ Results[i].time <= goal
                 /\ \A j \in given : j < i
        <5>1. Ordered(given, base) /\ iterator # 0
          BY <1>2, <2>3, <2>4 DEF Ready, Coherent
        <5> QED
          BY <2>7, <5>1 DEF Ordered
      <4>2. batch \subseteq Int /\ iterator \in Int /\ iterator' \in Int
        BY <1>2, <2>4, <2>5 DEF TypeOK
      <4>3. Ordered(given, base)'
        <5>1. base <= iterator' /\ \A j \in given : j < iterator'
          BY <2>5, <2>6, <4>1, <4>2
        <5>2. lastMessage' # 0 =>
                /\ lastMessage' = iterator /\ iterator' = iterator + 1
                /\ lastStamp' = None
          BY <1>2, <2>4, <2>5
        <5>3. \A i \in batch : i < iterator'
          BY <2>5, <4>1, <4>2
        <5> QED
          BY <1>2, <2>4, <2>6, <2>7, <4>1, <4>2, <5>1, <5>2, <5>3 DEF Ordered
      <4>4. Kept(given, base)'
        BY <1>2, <2>3, <2>4, <2>5, <2>6, <2>7 DEF Ready, Coherent, Kept
      <4> QED
        BY <4>3, <4>4
    <3>2. ASSUME NEW i \in Messages, i > iterator, iterator <= Len(Results)
          PROVE  /\ i \in 1..Len(Results) /\ iterator \in 1..Len(Results)
                 /\ Results[i].time \in Nat /\ Results[iterator].time \in Nat
                 /\ Results[iterator].time <= Results[i].time
                 /\ Results[iterator].type = "stamp" =>
                      Results[iterator].time < Results[i].time
      BY <1>2, <2>4, <3>2, ResultsFacts
    <3>3. StampHolds'
      BY <1>2, <2>4, <2>5, <3>2 DEF StampHolds
    <3>4. ReadToGoal'
      <4>1. ASSUME NEW i \in Messages, i >= iterator'
            PROVE  Results[i].time > goal
        <5>1. i > iterator /\ iterator <= Len(Results)
          BY <1>2, <2>4, <2>5, <4>1
        <5> QED
          BY <2>4, <2>5, <3>2, <5>1
      <4> QED
        BY <1>2, <2>4, <2>5, <4>1 DEF ReadToGoal
    <3> QED
      BY <1>2, <2>3, <2>4, <2>8, <3>1, <3>3, <3>4
      DEF Ready, Coherent, StampKnown, UpToDate
  <2> QED
    BY <1>3, <2>1, <2>2, <2>9, ReadsReady
<1>35. CASE TickFails
  <2>1. hasError'
    BY <1>35 DEF TickFails, Crash
  <2> QED
    BY <2>1
<1>36. CASE TickEmits
  <2>1. /\ ~hasError /\ KeepsOldStamp /\ goal \in Nat /\ pc = "tickEmit"
        /\ pc' \in {"top", "playDelay"} /\ batch' = {}
        /\ currentTime' = goal /\ state' = "play"
        /\ UNCHANGED <<iterator, lastStamp, dropped, ahead>>
        /\ QueueEmitWith(batch, goal, newSeek, FALSE)
    BY <1>3, <1>36 DEF TickEmits, EndIn, EndState, rest, TypeOK, Control,
      Places, Timed, Bounded, Ticking
  <2>2. PICK given, base, time, old :
          /\ given = batch /\ time = goal
          /\ old = oldStamp /\ base = BaseOf(time, FALSE)
    OBVIOUS
  <2>3. /\ ~newSeek /\ base = shown
        /\ Coherent({}, base, currentTime, FALSE, oldStamp)
    BY <2>1, <2>2 DEF Data, Ready, BaseOf, TypeOK
  <2>4. lastMessage' = lastMessage \/ (lastMessage' = 0 /\ Messages = {})
    BY <1>2, <1>36 DEF TickEmits, Control, Places, Topics, Timed, Untimed,
      Ticking
  <2>5. /\ InBatch = given /\ InBatch' = {}
        /\ given \subseteq Messages /\ lastMessage \in {0} \cup Messages
        /\ iterator \in 1..(Len(Results) + 1) /\ base \in Int
    <3>1. InBatch = given /\ InBatch' = {}
      BY <2>1, <2>2 DEF InBatch, Bounded, Ticking
    <3>2. iterator # 0
      BY <2>1 DEF Control, Places, Iterating, Ticking
    <3> QED
      <4>1. /\ batch \subseteq Messages /\ lastMessage \in {0} \cup Messages
            /\ shown \in 1..(Len(Results) + 1)
            /\ iterator \in 0..(Len(Results) + 1)
        BY DEF TypeOK
      <4>2. base \in Int /\ iterator \in 1..(Len(Results) + 1)
        BY <1>2, <2>3, <3>2, <4>1
      <4> QED
        BY <2>2, <3>1, <4>1, <4>2
  <2>6. Ordered(given, base)' /\ Kept(given, base)'
    BY <1>2, <2>1, <2>3, <2>4, <2>5 DEF Coherent, Ordered, Kept
  <2>7. StampHolds' = StampHolds
    BY <1>2, <2>1 DEF StampHolds
  <2>8. StampKnown(given, old)' /\ ReadToGoal'
    BY <2>1, <2>2, <2>3, <2>5, <2>7
    DEF Coherent, StampKnown, ReadToGoal
  <2>9. UpToDate(given, base, time, FALSE, old)'
    <3> SUFFICES ASSUME ~dropped', ~ahead', old => given # {},
                        NEW i \in Messages, i >= base,
                        Results[i].time <= goal
                 PROVE  i \in given
      BY <1>2, <2>2 DEF UpToDate
    <3>1. StampHolds
      BY <2>2, <2>3, <2>5 DEF Coherent, StampKnown
    <3>2. /\ lastMessage # 0 => Results[lastMessage].time > goal
          /\ \A j \in Messages : j >= iterator => Results[j].time > goal
      BY <2>1, <2>3, <3>1 DEF Coherent, ReadToGoal
    <3>3. i < iterator /\ i # lastMessage
      BY <1>2, <2>1, <2>5, <3>2
    <3> QED
      BY <2>1, <2>3, <2>5, <3>3 DEF Coherent, Kept
  <2>10. \A i \in given : i # 0 /\ i >= base /\ Results[i].time <= time
    <3>1. Ordered({}, base)
      BY <2>3 DEF Coherent
    <3>2. \A i \in given : base <= i /\ Results[i].time <= goal
      BY <1>2, <2>5, <3>1 DEF Ordered
    <3>3. \A i \in given : i # 0
      BY <1>2, <2>5
    <3>4. \A i \in given : i >= base
      BY <1>2, <2>5, <3>2
    <3> QED
      BY <2>2, <3>2, <3>3, <3>4
  <2>11. Ready(given, base, time, FALSE, old)'
    BY <1>2, <2>1, <2>5, <2>6, <2>8, <2>9, <2>10 DEF Ready, Coherent
  <2> QED
    BY <1>3, <2>1, <2>2, <2>3, <2>11, GivesReady DEF KeepsOldStamp, TypeOK,
      Unread
<1>37. CASE FrameOver
  <2>1. Quiet /\ (Unread' => ahead) /\ KeepsOldStamp
    BY <1>2, <1>3, <1>37
    DEF FrameOver, intent, reading, emitting, rest, Quiet, kind, Unread, Data,
        TypeOK, Control, Places, Requests, Iterating, Bounded, Ticking
  <2>2. ~hasError /\ UNCHANGED emitting /\ UNCHANGED currentTime
    BY <1>37 DEF FrameOver, intent, reading, emitting, rest
  <2> QED
    BY <2>1, <2>2, QuietKeeps
<1>38. CASE EnterClose
  <2>1. Quiet /\ (Unread' => ahead) /\ KeepsOldStamp
    BY <1>2, <1>3, <1>38
    DEF EnterClose, Enter, reading, emitting, rest, Quiet, kind, Unread, Data,
        TypeOK, Control, Places, Requests, Iterating, Bounded, Ticking
  <2>2. ~hasError /\ UNCHANGED emitting /\ UNCHANGED currentTime
    BY <1>38 DEF EnterClose, Enter, reading, emitting, rest
  <2> QED
    BY <2>1, <2>2, QuietKeeps
<1>39. CASE CloseEnds
  <2>1. Quiet /\ (Unread' => ahead) /\ KeepsOldStamp
    BY <1>2, <1>3, <1>39
    DEF CloseEnds, intent, emitting, rest, Quiet, kind, Unread, Data, TypeOK,
        Control, Places, Requests, Iterating, Bounded, Ticking
  <2>2. ~hasError /\ UNCHANGED emitting /\ UNCHANGED currentTime
    BY <1>39 DEF CloseEnds, intent, emitting, rest
  <2> QED
    BY <2>1, <2>2, QuietKeeps
<1>40. CASE CloseFails
  <2>1. hasError'
    BY <1>40 DEF CloseFails, Crash
  <2> QED
    BY <2>1
<1>41. CASE EmitDone
  <2>1. /\ ~hasError /\ KeepsOldStamp /\ (Unread' => ahead)
        /\ pc' = IF pc = "tickEmitWait" THEN "tickEmit" ELSE pc
        /\ UNCHANGED <<goal, batch, iterator, lastMessage, lastStamp>>
        /\ UNCHANGED <<dropped, ahead, currentTime, state>>
    BY <1>3, <1>41 DEF EmitDone, reading, rest, Data, Unread, EmitStateImpl,
      Control, Places
  <2>2. PICK given, base, time, seek, old :
          /\ given = messages /\ time = currentTime /\ seek = newSeek
          /\ old = oldStamp /\ base = BaseOf(time, seek)
    OBVIOUS
  <2>3. Ready(given, base, time, seek, old)
    BY <2>1, <2>2 DEF Data
  <2>4. Coherent(given, base, time, seek, old)'
    <3>1. /\ InBatch' = InBatch /\ StampHolds' = StampHolds
          /\ After(time)' = After(time)
      BY <1>2, <2>1 DEF InBatch, StampHolds, After, Bounded, Ticking
    <3> QED
      BY <1>2, <2>1, <2>3, <3>1 DEF Ready, Coherent, Ordered, Kept,
        StampKnown, ReadToGoal, UpToDate
  <2>5. CASE pending
    <3>1. EmitStateImpl(given, time, seek, FALSE)
      BY <1>41, <2>1, <2>2, <2>5 DEF EmitDone, TypeOK
    <3>2. CASE oldStamp' = old
      BY <1>3, <2>1, <2>2, <2>4, <3>1, <3>2, EmitReady
      DEF KeepsOldStamp, TypeOK
    <3>3. CASE oldStamp' # old
      <4>1. old /\ ~oldStamp' /\ ~seek /\ given # {}
        BY <2>1, <2>2, <3>1, <3>3 DEF KeepsOldStamp, EmitStateImpl, TypeOK
      <4>2. Coherent(given, base, time, seek, oldStamp)'
        BY <2>4, <4>1 DEF Coherent, StampKnown, UpToDate
      <4> QED
        BY <1>3, <2>1, <2>2, <3>1, <4>2, EmitReady
        DEF KeepsOldStamp, TypeOK
    <3> QED
      BY <3>2, <3>3
  <2>6. CASE ~pending
    <3>1. /\ messages = {} /\ ~newSeek
          /\ UNCHANGED <<messages, pending, newSeek, ahead, shown, out>>
      BY <1>41, <2>1, <2>6 DEF EmitDone, Data
    <3>2. oldStamp' = old
      BY <2>1, <2>2, <3>1 DEF KeepsOldStamp, TypeOK
    <3>3. base = BaseOf(time, seek)'
      BY <1>2, <2>2, <3>1 DEF BaseOf, After
    <3>4. Data'
      BY <2>1, <2>2, <2>4, <2>6, <3>1, <3>2, <3>3 DEF Data, Ready
    <3> QED
      BY <1>2, <3>1, <3>4
      DEF Emitted, EmitsAllOnce, SeekShowsBackfill, EmitsForward,
      NothingSkipped,
        NothingSkippedBut
  <2> QED
    BY <2>5, <2>6
<1>42. CASE BlockLoadingFails
  <2>1. hasError'
    BY <1>42 DEF BlockLoadingFails, Crash
  <2> QED
    BY <2>1
<1>43. CASE SetListener
  <2>1. Quiet /\ (Unread' => ahead) /\ KeepsOldStamp
    BY <1>2, <1>3, <1>43
    DEF SetListener, SetState, intent, reading, emitting, rest, machine, Quiet,
        kind, Unread, Data, TypeOK, Control, Places, Requests, Iterating,
        Bounded, Ticking
  <2>2. ~hasError /\ UNCHANGED emitting /\ UNCHANGED currentTime
    BY <1>43 DEF SetListener, SetState, intent, reading, emitting, rest
  <2> QED
    BY <2>1, <2>2, QuietKeeps
<1>44. ASSUME NEW until \in UntilTimes \cup {None}, StartPlayback(until)
      PROVE  Data' /\ Emitted'
  <2>1. Quiet /\ (Unread' => ahead) /\ KeepsOldStamp
    BY <1>2, <1>3, <1>44
    DEF StartPlayback, Call, Clamp, SetState, emitting, QueueEmit, machine,
        reading, Sync, Quiet, kind, Unread, Data, Control, Places,
      Iterating, Bounded, Ticking
  <2>2. /\ ~hasError /\ UNCHANGED currentTime
        /\ \/ UNCHANGED emitting
           \/ QueueEmitWith(messages, currentTime, newSeek, FALSE)
    BY <1>44
    DEF StartPlayback, Call, Clamp, SetState, emitting, QueueEmit, machine,
        reading, Sync, TypeOK
  <2> QED
    BY <2>1, <2>2, QuietKeeps, QuietQueue
<1>45. CASE PausePlayback
  <2>1. Quiet /\ (Unread' => ahead) /\ KeepsOldStamp
    BY <1>2, <1>3, <1>45
    DEF PausePlayback, Call, SetState, emitting, QueueEmit, machine, reading,
        Sync, Quiet, kind, Unread, Data, Control, Places,
      Iterating, Bounded, Ticking
  <2>2. /\ ~hasError /\ UNCHANGED currentTime
        /\ \/ UNCHANGED emitting
           \/ QueueEmitWith(messages, currentTime, newSeek, FALSE)
    BY <1>45
    DEF PausePlayback, Call, SetState, emitting, QueueEmit, machine, reading,
        Sync, TypeOK
  <2> QED
    BY <2>1, <2>2, QuietKeeps, QuietQueue
<1>46. ASSUME NEW time \in SeekTimes, SeekEarly(time)
      PROVE  Data' /\ Emitted'
  <2>1. Quiet /\ (Unread' => ahead) /\ KeepsOldStamp
    BY <1>2, <1>3, <1>46
    DEF SeekEarly, Call, machine, reading, emitting, Sync, Quiet, kind, Unread,
        Data, TypeOK, Control, Places, Requests, Iterating, Bounded, Ticking
  <2>2. ~hasError /\ UNCHANGED emitting /\ UNCHANGED currentTime
    BY <1>46 DEF SeekEarly, Call, reading, emitting, Sync, rest
  <2> QED
    BY <2>1, <2>2, QuietKeeps
<1>47. ASSUME NEW time \in SeekTimes, SeekPlayback(time)
      PROVE  Data' /\ Emitted'
  <2>1. Quiet /\ (Unread' => ahead) /\ KeepsOldStamp
    BY <1>2, <1>3, <1>47
    DEF SeekPlayback, Call, Clamp, SetState, reading, emitting, Sync, machine,
        Quiet, kind, Unread, Data, TypeOK, Control, Places, Requests,
        Iterating, Bounded, Ticking
  <2>2. ~hasError /\ UNCHANGED emitting /\ UNCHANGED currentTime
    BY <1>47
    DEF SeekPlayback, Call, Clamp, SetState, reading, emitting, Sync, rest
  <2> QED
    BY <2>1, <2>2, QuietKeeps
<1>48. CASE SetSubscriptions
  <2>1. Quiet /\ (Unread' => ahead) /\ KeepsOldStamp
    BY <1>2, <1>3, <1>48
    DEF SetSubscriptions, Call, SetState, machine, reading, emitting, Sync,
        Quiet, kind, Unread, Data, TypeOK, Control, Places, Requests,
        Iterating, Bounded, Ticking
  <2>2. ~hasError /\ UNCHANGED emitting /\ UNCHANGED currentTime
    BY <1>48
    DEF SetSubscriptions, Call, SetState, reading, emitting, Sync, rest
  <2> QED
    BY <2>1, <2>2, QuietKeeps
<1>49. CASE EmitAgain
  <2>1. Quiet /\ (Unread' => ahead) /\ KeepsOldStamp
    BY <1>2, <1>3, <1>49
    DEF EmitAgain, Call, QueueEmit, machine, intent, reading, Sync, Quiet,
        kind, Unread, Data, TypeOK, Control, Places, Iterating, Bounded,
        Ticking
  <2>2. /\ ~hasError /\ UNCHANGED currentTime
        /\ QueueEmitWith(messages, currentTime, newSeek, FALSE)
    BY <1>49
    DEF EmitAgain, Call, QueueEmit, intent, reading, Sync, rest, TypeOK
  <2> QED
    BY <2>1, <2>2, QuietQueue
<1>50. CASE CallClose
  <2>1. Quiet /\ (Unread' => ahead) /\ KeepsOldStamp
    BY <1>2, <1>3, <1>50
    DEF CallClose, Sync, SetState, intent, reading, emitting, machine, Quiet,
        kind, Unread, Data, TypeOK, Control, Places, Requests, Iterating,
        Bounded, Ticking
  <2>2. ~hasError /\ UNCHANGED emitting /\ UNCHANGED currentTime
    BY <1>50 DEF CallClose, Sync, SetState, intent, reading, emitting, rest
  <2> QED
    BY <2>1, <2>2, QuietKeeps
<1> QED
  BY <1>4, <1>5, <1>6, <1>7, <1>8, <1>9, <1>10, <1>11, <1>12, <1>13, <1>14,
    <1>15, <1>16, <1>17, <1>18, <1>19, <1>20, <1>21, <1>22, <1>23, <1>24,
    <1>25, <1>26, <1>27, <1>28, <1>29, <1>30, <1>31, <1>32, <1>33, <1>34,
    <1>35, <1>36, <1>37, <1>38, <1>39, <1>40, <1>41, <1>42, <1>43, <1>44,
    <1>45, <1>46, <1>47, <1>48, <1>49, <1>50
  DEF Next, MachineStep, UserStep

-----------------------------------------------------------------------------
(* The invariant of the player, and what follows from it.                   *)

(* The first state has nothing to give.                                    *)
LEMMA DataInit ==
  ASSUME Init
  PROVE  Data /\ Emitted
<1>1. /\ pc = "off" /\ state = "preinit" /\ ~pending /\ messages = {}
      /\ newSeek = FALSE /\ iterator = 0 /\ ahead = TRUE
      /\ out = NoEmit
  BY DEF Init
<1>2. Ready(messages, BaseOf(currentTime, newSeek), currentTime, newSeek,
            oldStamp)
  BY <1>1 DEF Ready, Coherent, Ordered, Kept, StampKnown, ReadToGoal,
    UpToDate
<1>3. Data
  BY <1>1, <1>2 DEF Data
<1>4. Emitted
  BY <1>1 DEF Emitted, EmitsAllOnce, EmitsForward, NothingSkipped,
    NothingSkippedBut, SeekShowsBackfill, NoEmit
<1> QED
  BY <1>3, <1>4

(* Nothing happens when nothing changes.                                   *)
LEMMA DataStutters ==
  ASSUME Data, Emitted, UNCHANGED vars
  PROVE  Data' /\ Emitted'
<1>1. /\ UNCHANGED <<state, pc, goal, hasError, currentTime, dropped, kind>>
      /\ UNCHANGED <<iterator, lastMessage, lastStamp, batch, oldStamp>>
      /\ UNCHANGED <<messages, calling, pending, newSeek, ahead, shown, out>>
  BY DEF vars, machine, reading, emitting, rest
<1>2. Results' = Results /\ Messages' = Messages
  BY <1>1 DEF kind, Results, Messages
<1>3. PICK given, base, time, seek, old :
        /\ given = messages /\ time = currentTime /\ seek = newSeek
        /\ old = oldStamp /\ base = BaseOf(time, seek)
  OBVIOUS
<1>4. ~hasError => Ready(given, base, time, seek, old)'
  BY <1>1, <1>3, QuietReady DEF Data, Quiet
<1>5. base = BaseOf(time, seek)'
  BY <1>1, <1>2, <1>3 DEF BaseOf, After
<1>6. Data'
  BY <1>1, <1>3, <1>4, <1>5 DEF Data, Unread
<1>7. Emitted'
  BY <1>1, <1>2 DEF Emitted, EmitsAllOnce, EmitsForward, NothingSkipped,
    NothingSkippedBut, SeekShowsBackfill
<1> QED
  BY <1>6, <1>7

(* IInv is inductive: for every source, every choice of ticks, seeks and    *)
(* calls, what waits to be given, what was read and what the iterator will  *)
(* still yield fit together.                                                *)
THEOREM Inductive == Spec => []IInv
<1>1. Init => IInv
  BY InitHolds, DataInit DEF IInv
<1>2. IInv /\ [Next]_vars => IInv'
  <2> SUFFICES ASSUME IInv, [Next]_vars
               PROVE  IInv'
    OBVIOUS
  <2>1. TypeOK /\ Control /\ Data /\ Emitted /\ TypeOK' /\ Control'
    BY StepKeeps DEF IInv
  <2>2. Data' /\ Emitted'
    BY <2>1, DataKeeps, DataStutters
  <2> QED
    BY <2>1, <2>2 DEF IInv
<1> QED
  BY <1>1, <1>2, PTL DEF Spec

(* Outside seeks the listener is given each message once and in order, none *)
(* later than the time it is given, and every message up to that time,      *)
(* except after an interrupted tick and on a stamp that a seek left behind. *)
THEOREM EmitsEachOnce == Spec => []EmitsAllOnce
<1>1. IInv => EmitsAllOnce
  BY DEF IInv, Emitted
<1> QED
  BY <1>1, Inductive, PTL

(* The emit that announces a seek whose data is loaded carries the          *)
(* backfill, whatever was emitted or asked for while it was loading.        *)
THEOREM SeeksShowBackfill == Spec => []SeekShowsBackfill
<1>1. IInv => SeekShowsBackfill
  BY DEF IInv, Emitted
<1> QED
  BY <1>1, Inductive, PTL

=============================================================================
