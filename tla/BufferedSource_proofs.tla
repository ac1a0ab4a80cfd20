----------------------- MODULE BufferedSource_proofs -----------------------
(***************************************************************************)
(* Proofs that BufferedSource keeps its invariants, for every source,      *)
(* every read-ahead and every behaviour of its user.                       *)
(***************************************************************************)
EXTENDS BufferedSource, SequenceTheorems, TLAPS

USE SourceAssumption, ParameterAssumption

-----------------------------------------------------------------------------
(* The inductive invariant.                                                 *)

(* Where the generator stands says what the user awaits, and the other way  *)
(* round.                                                                   *)
Control ==
  /\ client = "using" => consumer \in {"fresh", "idle", "ended"}
  /\ client = "next" =>
       consumer \in {"readWait", "readWoken", "closing"}
  /\ client = "return" => consumer = "closing"
  /\ client \in {"none", "stopping", "stopped", "closed"} =>
       consumer \in {"none", "ended"}

(* A generator that has not ended has a producer, and reads its cache only  *)
(* while nobody aborts it.                                                  *)
ProducerInv ==
  /\ client \in {"stopped", "closed"} => producer = "none"
  /\ producer = "none" => consumer \in {"none", "ended"}
  /\ producer \in {"done", "failed"} => readDone
  /\ readDone => producer \in {"none", "done", "failed"}
  /\ consumer \in {"fresh", "idle", "readWait", "readWoken"} => ~aborted
  /\ consumer \in {"readWait", "readWoken"} => topics
  /\ producer = "exiting" => aborted
  /\ producer = "done" /\ ~aborted /\ topics => pos = Len(Source) + 1

(* The producer reads on from where the iterator started; one that deals    *)
(* with a stamp took it from just before pos.                               *)
StampInv ==
  /\ pos >= first
  /\ producer \in {"stampWait", "stampWoken"} =>
       pos > first /\ Source[pos - 1].type = "stamp"

(* How the iterator ended says how far its user has got. *)
EndInv ==
  /\ consumer = "closing" /\ client = "next" /\ topics =>
       /\ producer \in {"done", "failed"}
       /\ producer = "done" => last = Len(Source)
       /\ producer = "failed" => last = pos - 1
  /\ outcome = "done" /\ topics => consumer = "ended" /\ last = Len(Source)
  /\ outcome = "error" /\ topics => producer = "failed" /\ last = pos - 1

IInv ==
  /\ TypeOK
  /\ Control
  /\ ProducerInv
  /\ StampInv
  /\ NoMutualWait
  /\ CacheContiguous
  /\ EndInv

-----------------------------------------------------------------------------
(* The two sides' queue.                                                    *)

(* Contiguous, without the exception for an iterator without topics. *)
Contiguous(c, given, next) ==
  IF c = <<>>
  THEN given = next - 1
  ELSE /\ Follows(given, c[1])
       /\ c[Len(c)] = next - 1
       /\ \A k \in 1..(Len(c) - 1) : Follows(c[k], c[k + 1])

Index == 1..Len(Source)

LEMMA SourceLength == Len(Source) \in Nat
BY LenProperties

(* Enqueueing what follows the newest result keeps the queue contiguous. *)
LEMMA EnqueueContiguous ==
  ASSUME NEW c \in Seq(Index), NEW given \in 0..Len(Source),
         NEW next \in 1..(Len(Source) + 1), NEW i \in Index,
         Contiguous(c, given, next), Follows(next - 1, i)
  PROVE  /\ Append(c, i) \in Seq(Index)
         /\ Append(c, i) # <<>>
         /\ Contiguous(Append(c, i), given, i + 1)
<1> DEFINE a == Append(c, i)
<1>1. /\ a \in Seq(Index)
      /\ a # <<>>
      /\ Len(a) = Len(c) + 1
      /\ \A k \in 1..Len(c) : a[k] = c[k]
      /\ a[Len(c) + 1] = i
  BY AppendProperties
<1>2. Len(c) \in Nat
  BY LenProperties
<1> HIDE DEF a
<1>3. Contiguous(a, given, i + 1)
  <2>1. CASE c = <<>>
    <3>1. Len(c) = 0
      BY <2>1
    <3>2. Len(a) = 1 /\ a[1] = i
      BY <1>1, <3>1
    <3>3. given = next - 1
      BY <2>1 DEF Contiguous
    <3>4. Follows(given, a[1]) /\ a[Len(a)] = (i + 1) - 1
      BY <3>2, <3>3, SourceLength DEF Index
    <3>5. \A k \in 1..(Len(a) - 1) : Follows(a[k], a[k + 1])
      BY <3>2
    <3> QED
      BY <1>1, <3>4, <3>5 DEF Contiguous
  <2>2. CASE c # <<>>
    <3>1. Len(c) > 0
      BY <2>2, <1>2, EmptySeq
    <3>2. /\ Follows(given, c[1])
          /\ c[Len(c)] = next - 1
          /\ \A k \in 1..(Len(c) - 1) : Follows(c[k], c[k + 1])
      BY <2>2 DEF Contiguous
    <3>3. Follows(given, a[1]) /\ a[Len(a)] = i
      <4>1. 1 \in 1..Len(c) /\ Len(c) \in 1..Len(c)
        BY <1>2, <3>1
      <4>2. a[1] = c[1]
        BY <1>1, <4>1
      <4>3. a[Len(a)] = i
        BY <1>1
      <4> QED
        BY <3>2, <4>2, <4>3
    <3>4. ASSUME NEW k \in 1..(Len(a) - 1) PROVE Follows(a[k], a[k + 1])
      <4>1. k \in 1..Len(c)
        BY <1>1, <1>2
      <4>2. CASE k = Len(c)
        BY <1>1, <1>2, <3>1, <3>2, <4>1, <4>2
      <4>3. CASE k # Len(c)
        <5>1. k \in 1..(Len(c) - 1) /\ k + 1 \in 1..Len(c)
          BY <1>2, <4>1, <4>3
        <5> QED
          BY <1>1, <3>2, <4>1, <5>1
      <4> QED
        BY <4>2, <4>3
    <3> QED
      BY <1>1, <3>3, <3>4 DEF Contiguous, Index
  <2> QED
    BY <2>1, <2>2
<1> QED
  BY <1>1, <1>3 DEF a

(* Giving the oldest result leaves a contiguous queue behind it. *)
LEMMA DequeueContiguous ==
  ASSUME NEW c \in Seq(Index), NEW given, NEW next \in 1..(Len(Source) + 1),
         c # <<>>, Contiguous(c, given, next)
  PROVE  Contiguous(Tail(c), Head(c), next)
<1>1. Len(c) \in Nat /\ Len(c) > 0
  BY EmptySeq
<1>2. /\ Tail(c) \in Seq(Index)
      /\ Len(Tail(c)) = Len(c) - 1
      /\ \A k \in 1..Len(Tail(c)) : Tail(c)[k] = c[k + 1]
  BY HeadTailProperties
<1>3. Head(c) = c[1]
  OBVIOUS
<1>4. /\ c[Len(c)] = next - 1
      /\ \A k \in 1..(Len(c) - 1) : Follows(c[k], c[k + 1])
  BY DEF Contiguous
<1>5. CASE Tail(c) = <<>>
  <2>1. Len(c) = 1
    <3>1. Len(<<>>) = 0
      OBVIOUS
    <3>2. Len(Tail(c)) = 0
      BY <1>5, <3>1, Zenon
    <3> QED
      BY <1>1, <1>2, <3>2
  <2> QED
    BY <1>3, <1>4, <1>5, <2>1 DEF Contiguous
<1>6. CASE Tail(c) # <<>>
  <2> DEFINE t == Tail(c)
  <2>1. Len(t) > 0
    BY <1>1, <1>2, <1>6, EmptySeq
  <2>2. t[1] = c[2] /\ t[Len(t)] = c[Len(c)]
    BY <1>1, <1>2, <2>1
  <2>3. Follows(c[1], c[2])
    BY <1>1, <1>2, <1>4, <2>1
  <2>4. ASSUME NEW k \in 1..(Len(t) - 1) PROVE Follows(t[k], t[k + 1])
    <3>1. t[k] = c[k + 1] /\ t[k + 1] = c[k + 2]
      BY <1>1, <1>2
    <3>2. Follows(c[k + 1], c[k + 2])
      BY <1>1, <1>2, <1>4
    <3> QED
      BY <3>1, <3>2
  <2> QED
    BY <1>3, <1>4, <1>6, <2>2, <2>3, <2>4 DEF Contiguous
<1> QED
  BY <1>5, <1>6

LEMMA CacheIsContiguous ==
  CacheContiguous <=>
    (topics /\ client # "closed" => Contiguous(cache, last, pos))
BY DEF CacheContiguous, Contiguous

-----------------------------------------------------------------------------
(* One lemma per action.  The first is about all the actions that leave the *)
(* queue and the user's place in it alone.                                  *)

LEMMA QueueUntouched ==
  ASSUME CacheContiguous, UNCHANGED <<cache, last, pos, topics, first>>,
         client = "closed" => client' = "closed"
  PROVE  CacheContiguous'
BY DEF CacheContiguous, Follows

LEMMA SourceEndsKeeps ==
  ASSUME IInv, SourceEnds
  PROVE  IInv'
<1>1. CacheContiguous'
  BY QueueUntouched
  DEF IInv, SourceEnds, ProducerExit, AfterReadSignal, vars, bufferVars,
      producerVars, clientVars, ProducerInv
<1>2. TypeOK'
  BY
  DEF IInv, TypeOK, SourceEnds, ProducerExit, AfterReadSignal, vars,
      bufferVars, producerVars, clientVars, ProducerState, ConsumerState,
      ClientState
<1>3. Control' /\ ProducerInv' /\ StampInv'
  BY SourceLength, SMTT(20)
  DEF IInv, TypeOK, Control, ProducerInv, StampInv, SourceEnds,
      ProducerExit, AfterReadSignal, vars, bufferVars, producerVars,
      clientVars, ProducerState, ConsumerState, ClientState
<1>4. NoMutualWait'
  BY
  DEF IInv, Control, ProducerInv, NoMutualWait, ProducerWaits, SourceEnds,
      ProducerExit, AfterReadSignal, vars, bufferVars, producerVars,
      clientVars
<1>5. EndInv'
  BY SourceLength
  DEF IInv, TypeOK, Control, ProducerInv, EndInv, CacheContiguous,
      SourceEnds, ProducerExit, AfterReadSignal, vars, bufferVars,
      producerVars, clientVars, ProducerState, ConsumerState, ClientState
<1> QED
  BY <1>1, <1>2, <1>3, <1>4, <1>5 DEF IInv

LEMMA SourceFailsKeeps ==
  ASSUME IInv, SourceFails
  PROVE  IInv'
<1>1. CacheContiguous'
  BY QueueUntouched
  DEF IInv, SourceFails, ProducerExit, AfterReadSignal, vars, bufferVars,
      producerVars, clientVars, ProducerInv
<1>2. TypeOK'
  BY
  DEF IInv, TypeOK, SourceFails, ProducerExit, AfterReadSignal, vars,
      bufferVars, producerVars, clientVars, ProducerState, ConsumerState,
      ClientState
<1>3. Control' /\ ProducerInv' /\ StampInv'
  BY SourceLength
  DEF IInv, TypeOK, Control, ProducerInv, StampInv, SourceFails,
      ProducerExit, AfterReadSignal, vars, bufferVars, producerVars,
      clientVars, ProducerState, ConsumerState, ClientState
<1>4. NoMutualWait'
  BY
  DEF IInv, Control, ProducerInv, NoMutualWait, ProducerWaits, SourceFails,
      ProducerExit, AfterReadSignal, vars, bufferVars, producerVars,
      clientVars
<1>5. EndInv'
  BY SourceLength
  DEF IInv, TypeOK, Control, ProducerInv, EndInv, CacheContiguous,
      SourceFails, ProducerExit, AfterReadSignal, vars, bufferVars,
      producerVars, clientVars, ProducerState, ConsumerState, ClientState
<1> QED
  BY <1>1, <1>2, <1>3, <1>4, <1>5 DEF IInv

LEMMA SourceReturnedKeeps ==
  ASSUME IInv, SourceReturned
  PROVE  IInv'
<1>1. CacheContiguous'
  BY QueueUntouched
  DEF IInv, SourceReturned, ProducerExit, AfterReadSignal, vars, bufferVars,
      producerVars, clientVars, ProducerInv
<1>2. TypeOK'
  BY
  DEF IInv, TypeOK, SourceReturned, ProducerExit, AfterReadSignal, vars,
      bufferVars, producerVars, clientVars, ProducerState, ConsumerState,
      ClientState
<1>3. Control' /\ ProducerInv' /\ StampInv'
  BY SourceLength
  DEF IInv, TypeOK, Control, ProducerInv, StampInv, SourceReturned,
      ProducerExit, AfterReadSignal, vars, bufferVars, producerVars,
      clientVars, ProducerState, ConsumerState, ClientState
<1>4. NoMutualWait'
  BY
  DEF IInv, Control, ProducerInv, NoMutualWait, ProducerWaits,
      SourceReturned, ProducerExit, AfterReadSignal, vars, bufferVars,
      producerVars, clientVars
<1>5. EndInv'
  BY SourceLength
  DEF IInv, TypeOK, Control, ProducerInv, EndInv, CacheContiguous,
      SourceReturned, ProducerExit, AfterReadSignal, vars, bufferVars,
      producerVars, clientVars, ProducerState, ConsumerState, ClientState
<1> QED
  BY <1>1, <1>2, <1>3, <1>4, <1>5 DEF IInv

LEMMA ReadAbortedKeeps ==
  ASSUME IInv, ReadAborted
  PROVE  IInv'
<1>1. CacheContiguous'
  BY QueueUntouched
  DEF IInv, ReadAborted, AbortReturn, vars, bufferVars, producerVars,
      clientVars, ProducerInv
<1>2. TypeOK'
  BY
  DEF IInv, TypeOK, ReadAborted, AbortReturn, vars, bufferVars,
      producerVars, clientVars, ProducerState, ConsumerState, ClientState
<1>3. Control' /\ ProducerInv' /\ StampInv'
  BY SourceLength
  DEF IInv, TypeOK, Control, ProducerInv, StampInv, ReadAborted,
      AbortReturn, vars, bufferVars, producerVars, clientVars,
      ProducerState, ConsumerState, ClientState
<1>4. NoMutualWait'
  BY
  DEF IInv, Control, ProducerInv, NoMutualWait, ProducerWaits, ReadAborted,
      AbortReturn, vars, bufferVars, producerVars, clientVars
<1>5. EndInv'
  BY SourceLength
  DEF IInv, TypeOK, Control, ProducerInv, EndInv, CacheContiguous,
      ReadAborted, AbortReturn, vars, bufferVars, producerVars, clientVars,
      ProducerState, ConsumerState, ClientState
<1> QED
  BY <1>1, <1>2, <1>3, <1>4, <1>5 DEF IInv

LEMMA WriteWakesKeeps ==
  ASSUME IInv, WriteWakes
  PROVE  IInv'
<1>1. CacheContiguous'
  BY QueueUntouched
  DEF IInv, WriteWakes, vars, bufferVars, producerVars, clientVars,
      ProducerInv
<1>2. TypeOK'
  BY
  DEF IInv, TypeOK, WriteWakes, vars, bufferVars, producerVars, clientVars,
      ProducerState, ConsumerState, ClientState
<1>3. Control' /\ ProducerInv' /\ StampInv'
  BY SourceLength
  DEF IInv, TypeOK, Control, ProducerInv, StampInv, WriteWakes, vars,
      bufferVars, producerVars, clientVars, ProducerState, ConsumerState,
      ClientState
<1>4. NoMutualWait'
  BY
  DEF IInv, Control, ProducerInv, NoMutualWait, ProducerWaits, WriteWakes,
      vars, bufferVars, producerVars, clientVars
<1>5. EndInv'
  BY SourceLength
  DEF IInv, TypeOK, Control, ProducerInv, EndInv, CacheContiguous,
      WriteWakes, vars, bufferVars, producerVars, clientVars, ProducerState,
      ConsumerState, ClientState
<1> QED
  BY <1>1, <1>2, <1>3, <1>4, <1>5 DEF IInv

LEMMA GeneratorEndsKeeps ==
  ASSUME IInv, GeneratorEnds
  PROVE  IInv'
<1>1. CacheContiguous'
  BY QueueUntouched
  DEF IInv, GeneratorEnds, ProducerSettled, EndStop, vars, bufferVars,
      producerVars, clientVars, ProducerInv
<1>2. TypeOK'
  BY
  DEF IInv, TypeOK, GeneratorEnds, ProducerSettled, EndStop, vars,
      bufferVars, producerVars, clientVars, ProducerState, ConsumerState,
      ClientState
<1>3. Control' /\ ProducerInv' /\ StampInv'
  BY SourceLength
  DEF IInv, TypeOK, Control, ProducerInv, StampInv, GeneratorEnds,
      ProducerSettled, EndStop, vars, bufferVars, producerVars, clientVars,
      ProducerState, ConsumerState, ClientState
<1>4. NoMutualWait'
  BY
  DEF IInv, Control, ProducerInv, NoMutualWait, ProducerWaits,
      GeneratorEnds, ProducerSettled, EndStop, vars, bufferVars,
      producerVars, clientVars
<1>5. EndInv'
  BY SourceLength
  DEF IInv, TypeOK, Control, ProducerInv, EndInv, CacheContiguous,
      GeneratorEnds, ProducerSettled, EndStop, vars, bufferVars,
      producerVars, clientVars, ProducerState, ConsumerState, ClientState
<1> QED
  BY <1>1, <1>2, <1>3, <1>4, <1>5 DEF IInv

LEMMA StopReturnsKeeps ==
  ASSUME IInv, StopReturns
  PROVE  IInv'
<1>1. CacheContiguous'
  BY QueueUntouched
  DEF IInv, StopReturns, ProducerSettled, EndStop, vars, bufferVars,
      producerVars, clientVars, ProducerInv
<1>2. TypeOK'
  BY
  DEF IInv, TypeOK, StopReturns, ProducerSettled, EndStop, vars, bufferVars,
      producerVars, clientVars, ProducerState, ConsumerState, ClientState
<1>3. Control' /\ ProducerInv' /\ StampInv'
  BY SourceLength
  DEF IInv, TypeOK, Control, ProducerInv, StampInv, StopReturns,
      ProducerSettled, EndStop, vars, bufferVars, producerVars, clientVars,
      ProducerState, ConsumerState, ClientState
<1>4. NoMutualWait'
  BY
  DEF IInv, Control, ProducerInv, NoMutualWait, ProducerWaits, StopReturns,
      ProducerSettled, EndStop, vars, bufferVars, producerVars, clientVars
<1>5. EndInv'
  BY SourceLength
  DEF IInv, TypeOK, Control, ProducerInv, EndInv, CacheContiguous,
      StopReturns, ProducerSettled, EndStop, vars, bufferVars, producerVars,
      clientVars, ProducerState, ConsumerState, ClientState
<1> QED
  BY <1>1, <1>2, <1>3, <1>4, <1>5 DEF IInv

LEMMA CallNextNoTopicsKeeps ==
  ASSUME IInv, CallNextNoTopics
  PROVE  IInv'
<1>1. CacheContiguous'
  BY QueueUntouched
  DEF IInv, CallNextNoTopics, BeginStop, AfterWriteSignal, vars, bufferVars,
      producerVars, clientVars, ProducerInv
<1>2. TypeOK'
  BY
  DEF IInv, TypeOK, CallNextNoTopics, BeginStop, AfterWriteSignal, vars,
      bufferVars, producerVars, clientVars, ProducerState, ConsumerState,
      ClientState
<1>3. Control' /\ ProducerInv' /\ StampInv'
  BY SourceLength
  DEF IInv, TypeOK, Control, ProducerInv, StampInv, CallNextNoTopics,
      BeginStop, AfterWriteSignal, vars, bufferVars, producerVars,
      clientVars, ProducerState, ConsumerState, ClientState
<1>4. NoMutualWait'
  BY
  DEF IInv, Control, ProducerInv, NoMutualWait, ProducerWaits,
      CallNextNoTopics, BeginStop, AfterWriteSignal, vars, bufferVars,
      producerVars, clientVars
<1>5. EndInv'
  BY SourceLength
  DEF IInv, TypeOK, Control, ProducerInv, EndInv, CacheContiguous,
      CallNextNoTopics, BeginStop, AfterWriteSignal, vars, bufferVars,
      producerVars, clientVars, ProducerState, ConsumerState, ClientState
<1> QED
  BY <1>1, <1>2, <1>3, <1>4, <1>5 DEF IInv

LEMMA CallReturnKeeps ==
  ASSUME IInv, CallReturn
  PROVE  IInv'
<1>1. CacheContiguous'
  BY QueueUntouched
  DEF IInv, CallReturn, BeginStop, AfterWriteSignal, vars, bufferVars,
      producerVars, clientVars, ProducerInv
<1>2. TypeOK'
  BY
  DEF IInv, TypeOK, CallReturn, BeginStop, AfterWriteSignal, vars,
      bufferVars, producerVars, clientVars, ProducerState, ConsumerState,
      ClientState
<1>3. Control' /\ ProducerInv' /\ StampInv'
  BY SourceLength
  DEF IInv, TypeOK, Control, ProducerInv, StampInv, CallReturn, BeginStop,
      AfterWriteSignal, vars, bufferVars, producerVars, clientVars,
      ProducerState, ConsumerState, ClientState
<1>4. NoMutualWait'
  BY
  DEF IInv, Control, ProducerInv, NoMutualWait, ProducerWaits, CallReturn,
      BeginStop, AfterWriteSignal, vars, bufferVars, producerVars,
      clientVars
<1>5. EndInv'
  BY SourceLength
  DEF IInv, TypeOK, Control, ProducerInv, EndInv, CacheContiguous,
      CallReturn, BeginStop, AfterWriteSignal, vars, bufferVars,
      producerVars, clientVars, ProducerState, ConsumerState, ClientState
<1> QED
  BY <1>1, <1>2, <1>3, <1>4, <1>5 DEF IInv

LEMMA CallStopKeeps ==
  ASSUME IInv, CallStop
  PROVE  IInv'
<1>1. CacheContiguous'
  BY QueueUntouched
  DEF IInv, CallStop, BeginStop, AfterWriteSignal, vars, bufferVars,
      producerVars, clientVars, ProducerInv
<1>2. TypeOK'
  BY
  DEF IInv, TypeOK, CallStop, BeginStop, AfterWriteSignal, vars, bufferVars,
      producerVars, clientVars, ProducerState, ConsumerState, ClientState
<1>3. Control' /\ ProducerInv' /\ StampInv'
  BY SourceLength
  DEF IInv, TypeOK, Control, ProducerInv, StampInv, CallStop, BeginStop,
      AfterWriteSignal, vars, bufferVars, producerVars, clientVars,
      ProducerState, ConsumerState, ClientState
<1>4. NoMutualWait'
  BY
  DEF IInv, Control, ProducerInv, NoMutualWait, ProducerWaits, CallStop,
      BeginStop, AfterWriteSignal, vars, bufferVars, producerVars,
      clientVars
<1>5. EndInv'
  BY SourceLength
  DEF IInv, TypeOK, Control, ProducerInv, EndInv, CacheContiguous, CallStop,
      BeginStop, AfterWriteSignal, vars, bufferVars, producerVars,
      clientVars, ProducerState, ConsumerState, ClientState
<1> QED
  BY <1>1, <1>2, <1>3, <1>4, <1>5 DEF IInv

LEMMA LeaveLoopKeeps ==
  ASSUME IInv, LeaveLoop, client \in {"using", "next"},
         consumer \in {"fresh", "idle", "readWoken"}, consumer = "readWoken" \/ client = "using"
  PROVE  IInv'
<1>1. CacheContiguous'
  BY QueueUntouched
  DEF IInv, LeaveLoop, BeginStop, AfterWriteSignal, vars, bufferVars,
      producerVars, clientVars, ProducerInv
<1>2. TypeOK'
  BY
  DEF IInv, TypeOK, LeaveLoop, BeginStop, AfterWriteSignal, vars,
      bufferVars, producerVars, clientVars, ProducerState, ConsumerState,
      ClientState
<1>3. Control' /\ ProducerInv' /\ StampInv'
  BY SourceLength
  DEF IInv, TypeOK, Control, ProducerInv, StampInv, LeaveLoop, BeginStop,
      AfterWriteSignal, vars, bufferVars, producerVars, clientVars,
      ProducerState, ConsumerState, ClientState
<1>4. NoMutualWait'
  BY
  DEF IInv, Control, ProducerInv, NoMutualWait, ProducerWaits, LeaveLoop,
      BeginStop, AfterWriteSignal, vars, bufferVars, producerVars,
      clientVars
<1>5. EndInv'
  BY SourceLength
  DEF IInv, TypeOK, Control, ProducerInv, EndInv, CacheContiguous,
      LeaveLoop, BeginStop, AfterWriteSignal, vars, bufferVars,
      producerVars, clientVars, ProducerState, ConsumerState, ClientState
<1> QED
  BY <1>1, <1>2, <1>3, <1>4, <1>5 DEF IInv

LEMMA WaitForMoreKeeps ==
  ASSUME IInv, WaitForMore, consumer \in {"fresh", "idle", "readWoken"},
         topics, client \in {"using", "next"}
  PROVE  IInv'
<1>1. CacheContiguous'
  BY QueueUntouched
  DEF IInv, WaitForMore, vars, bufferVars, producerVars, clientVars,
      ProducerInv
<1>2. TypeOK'
  BY
  DEF IInv, TypeOK, WaitForMore, vars, bufferVars, producerVars, clientVars,
      ProducerState, ConsumerState, ClientState
<1>3. Control' /\ ProducerInv' /\ StampInv'
  BY SourceLength
  DEF IInv, TypeOK, Control, ProducerInv, StampInv, WaitForMore, vars,
      bufferVars, producerVars, clientVars, ProducerState, ConsumerState,
      ClientState
<1>4. NoMutualWait'
  BY
  DEF IInv, TypeOK, Control, ProducerInv, NoMutualWait, ProducerWaits,
      WaitForMore,
     vars, bufferVars, producerVars, clientVars, ProducerState, ConsumerState, ClientState
<1>5. EndInv'
  BY SourceLength
  DEF IInv, TypeOK, Control, ProducerInv, EndInv, CacheContiguous,
      WaitForMore, vars, bufferVars, producerVars, clientVars,
      ProducerState, ConsumerState, ClientState
<1> QED
  BY <1>1, <1>2, <1>3, <1>4, <1>5 DEF IInv

LEMMA ReadFarStampKeeps ==
  ASSUME IInv, ReadFarStamp
  PROVE  IInv'
<1>1. pos \in Index /\ Follows(pos - 1, pos)
  BY SourceLength DEF IInv, TypeOK, ReadFarStamp, Reads, Index, Follows
<1>2. cache \in Seq(Index) /\ last \in 0..Len(Source)
  BY DEF IInv, TypeOK, Index
<1>3. cache' = Append(cache, pos) /\ pos' = pos + 1
      /\ UNCHANGED <<readHead, readDone, aborted, topics, client, outcome, first, last>>
  BY DEF ReadFarStamp, Enqueue, clientVars
<1>4. cache' \in Seq(Index) /\ cache' # <<>>
  BY <1>2, <1>1, <1>3, AppendProperties
<1>5. CacheContiguous'
  <2>1. SUFFICES ASSUME topics, client # "closed"
                 PROVE  Contiguous(cache', last, pos + 1)
    BY <1>3, CacheIsContiguous DEF CacheContiguous, Contiguous, Follows
  <2>2. Contiguous(cache, last, pos)
    BY <2>1, CacheIsContiguous DEF IInv
  <2> QED
    BY <1>1, <1>2, <1>3, <2>2, EnqueueContiguous DEF IInv, TypeOK
<1>6. TypeOK'
  BY <1>1, <1>3, <1>4, SourceLength
  DEF IInv, TypeOK, Index, ReadFarStamp, AfterReadSignal, ProducerState,
      ConsumerState, ClientState
<1>7. Control' /\ ProducerInv'
  BY <1>3
  DEF IInv, TypeOK, Control, ProducerInv, ReadFarStamp, Reads,
      AfterReadSignal, ProducerState, ConsumerState, ClientState
<1>8. StampInv' /\ EndInv'
  BY <1>1, <1>3, SourceLength
  DEF IInv, TypeOK, Control, ProducerInv, StampInv, EndInv, ReadFarStamp,
      Reads, Here, IsFarStamp, BelowMinimum, AfterReadSignal, vars,
      bufferVars, producerVars, clientVars, ProducerState, ConsumerState,
      ClientState, Index
<1>9. NoMutualWait'
  BY <1>3, <1>4
  DEF IInv, TypeOK, Control, ProducerInv, NoMutualWait, ProducerWaits,
      ReadFarStamp, Reads, AfterReadSignal, ProducerState, ConsumerState,
      ClientState
<1> QED
  BY <1>5, <1>6, <1>7, <1>8, <1>9 DEF IInv

LEMMA ReadBelowMinimumKeeps ==
  ASSUME IInv, ReadBelowMinimum
  PROVE  IInv'
<1>1. pos \in Index /\ Follows(pos - 1, pos)
  BY SourceLength DEF IInv, TypeOK, ReadBelowMinimum, Reads, Index, Follows
<1>2. cache \in Seq(Index) /\ last \in 0..Len(Source)
  BY DEF IInv, TypeOK, Index
<1>3. cache' = Append(cache, pos) /\ pos' = pos + 1
      /\ UNCHANGED <<readHead, readDone, aborted, topics, client, outcome, first, last>>
  BY DEF ReadBelowMinimum, Enqueue, clientVars
<1>4. cache' \in Seq(Index) /\ cache' # <<>>
  BY <1>2, <1>1, <1>3, AppendProperties
<1>5. CacheContiguous'
  <2>1. SUFFICES ASSUME topics, client # "closed"
                 PROVE  Contiguous(cache', last, pos + 1)
    BY <1>3, CacheIsContiguous DEF CacheContiguous, Contiguous, Follows
  <2>2. Contiguous(cache, last, pos)
    BY <2>1, CacheIsContiguous DEF IInv
  <2> QED
    BY <1>1, <1>2, <1>3, <2>2, EnqueueContiguous DEF IInv, TypeOK
<1>6. TypeOK'
  BY <1>1, <1>3, <1>4, SourceLength
  DEF IInv, TypeOK, Index, ReadBelowMinimum, AfterReadSignal, ProducerState,
      ConsumerState, ClientState
<1>7. Control' /\ ProducerInv'
  BY <1>3
  DEF IInv, TypeOK, Control, ProducerInv, ReadBelowMinimum, Reads,
      AfterReadSignal, ProducerState, ConsumerState, ClientState
<1>8. StampInv' /\ EndInv'
  BY <1>1, <1>3, SourceLength
  DEF IInv, TypeOK, Control, ProducerInv, StampInv, EndInv,
      ReadBelowMinimum, Reads, Here, IsFarStamp, BelowMinimum,
      AfterReadSignal, vars, bufferVars, producerVars, clientVars,
      ProducerState, ConsumerState, ClientState, Index
<1>9. NoMutualWait'
  BY <1>3, <1>4
  DEF IInv, TypeOK, Control, ProducerInv, NoMutualWait, ProducerWaits,
      ReadBelowMinimum, Reads, AfterReadSignal, ProducerState,
      ConsumerState, ClientState
<1> QED
  BY <1>5, <1>6, <1>7, <1>8, <1>9 DEF IInv

LEMMA ReadAndNotifyKeeps ==
  ASSUME IInv, NEW canReadMore \in BOOLEAN, ReadAndNotify(canReadMore)
  PROVE  IInv'
<1>1. pos \in Index /\ Follows(pos - 1, pos)
  BY SourceLength DEF IInv, TypeOK, ReadAndNotify, Reads, Index, Follows
<1>2. cache \in Seq(Index) /\ last \in 0..Len(Source)
  BY DEF IInv, TypeOK, Index
<1>3. cache' = Append(cache, pos) /\ pos' = pos + 1
      /\ UNCHANGED <<readHead, readDone, aborted, topics, client, outcome, first, last>>
  BY DEF ReadAndNotify, Enqueue, clientVars
<1>4. cache' \in Seq(Index) /\ cache' # <<>>
  BY <1>2, <1>1, <1>3, AppendProperties
<1>5. CacheContiguous'
  <2>1. SUFFICES ASSUME topics, client # "closed"
                 PROVE  Contiguous(cache', last, pos + 1)
    BY <1>3, CacheIsContiguous DEF CacheContiguous, Contiguous, Follows
  <2>2. Contiguous(cache, last, pos)
    BY <2>1, CacheIsContiguous DEF IInv
  <2> QED
    BY <1>1, <1>2, <1>3, <2>2, EnqueueContiguous DEF IInv, TypeOK
<1>6. TypeOK'
  BY <1>1, <1>3, <1>4, SourceLength
  DEF IInv, TypeOK, Index, ReadAndNotify, AfterReadSignal, ProducerState,
      ConsumerState, ClientState
<1>7. Control' /\ ProducerInv'
  BY <1>3
  DEF IInv, TypeOK, Control, ProducerInv, ReadAndNotify, Reads,
      AfterReadSignal, ProducerState, ConsumerState, ClientState
<1>8. StampInv' /\ EndInv'
  BY <1>1, <1>3, SourceLength
  DEF IInv, TypeOK, Control, ProducerInv, StampInv, EndInv, ReadAndNotify,
      Reads, Here, IsFarStamp, BelowMinimum, AfterReadSignal, vars,
      bufferVars, producerVars, clientVars, ProducerState, ConsumerState,
      ClientState, Index
<1>9. NoMutualWait'
  BY <1>3, <1>4
  DEF IInv, TypeOK, Control, ProducerInv, NoMutualWait, ProducerWaits,
      ReadAndNotify, Reads, AfterReadSignal, ProducerState, ConsumerState,
      ClientState
<1> QED
  BY <1>5, <1>6, <1>7, <1>8, <1>9 DEF IInv

LEMMA StampWakesKeeps ==
  ASSUME IInv, StampWakes
  PROVE  IInv'
<1>1. CASE Source[pos - 1].time < ReadUntil \/ aborted
  <2> USE <1>1
  <2>1. /\ UNCHANGED <<cache, readHead, readDone, aborted, topics, pos,
                       consumer, client, outcome, first, last>>
        /\ producer = "stampWoken"
        /\ \/ producer' = "reading"
           \/ producer' = "exiting" /\ aborted
    BY DEF StampWakes, AbortReturn, bufferVars, clientVars
  <2>2. CacheContiguous'
    BY <2>1, QueueUntouched DEF IInv
  <2>3. TypeOK'
    BY <2>1 DEF IInv, TypeOK, ProducerState
  <2>4. Control' /\ ProducerInv' /\ StampInv' /\ NoMutualWait' /\ EndInv'
    BY <2>1 DEF IInv, Control, ProducerInv, StampInv, NoMutualWait,
                ProducerWaits, EndInv
  <2> QED
    BY <2>2, <2>3, <2>4 DEF IInv
<1>2. CASE ~(Source[pos - 1].time < ReadUntil \/ aborted)
  <2>1. /\ cache' = Append(cache, pos - 1)
        /\ UNCHANGED <<readHead, readDone, aborted, topics, pos, client,
                       outcome, first, last>>
        /\ consumer' = AfterReadSignal
        /\ producer = "stampWoken" /\ producer' = "stampWait"
        /\ ~aborted
    BY <1>2 DEF StampWakes, Enqueue, clientVars
  <2>2. pos - 1 \in Index /\ Follows(pos - 1, pos - 1) /\ (pos - 1) + 1 = pos
    BY <2>1, SourceLength DEF IInv, TypeOK, StampInv, Index, Follows
  <2>3. cache \in Seq(Index) /\ last \in 0..Len(Source)
    BY DEF IInv, TypeOK, Index
  <2>4. cache' \in Seq(Index) /\ cache' # <<>>
    BY <2>1, <2>2, <2>3, AppendProperties
  <2>5. CacheContiguous'
    <3>1. SUFFICES ASSUME topics, client # "closed"
                   PROVE  Contiguous(cache', last, pos)
      BY <2>1 DEF CacheContiguous, Contiguous, Follows
    <3>2. Contiguous(cache, last, pos)
      BY <3>1, CacheIsContiguous DEF IInv
    <3> QED
      BY <2>1, <2>2, <2>3, <3>2, EnqueueContiguous DEF IInv, TypeOK
  <2>6. TypeOK'
    BY <2>1, <2>4 DEF IInv, TypeOK, Index, AfterReadSignal, ProducerState,
                      ConsumerState
  <2>7. Control' /\ ProducerInv' /\ StampInv' /\ EndInv'
    BY <2>1 DEF IInv, Control, ProducerInv, StampInv, EndInv, AfterReadSignal
  <2>8. NoMutualWait'
    BY <2>1, <2>4 DEF IInv, NoMutualWait, ProducerWaits, AfterReadSignal
  <2> QED
    BY <2>5, <2>6, <2>7, <2>8 DEF IInv
<1> QED
  BY <1>1, <1>2

LEMMA GiveKeeps ==
  ASSUME IInv, Give, consumer \in {"fresh", "idle", "readWoken"}, topics,
         client \in {"using", "next"}
  PROVE  IInv'
<1>1. cache \in Seq(Index) /\ cache # <<>>
  BY DEF IInv, TypeOK, Give, Index
<1>2. /\ Tail(cache) \in Seq(Index)
      /\ Head(cache) \in Index
  BY <1>1, HeadTailProperties
<1>3. /\ cache' = Tail(cache)
      /\ last' = Head(cache)
      /\ producer' = AfterWriteSignal
      /\ consumer' = "idle" /\ client' = "using" /\ outcome' = "item"
      /\ UNCHANGED <<readDone, aborted, topics, pos, first>>
  BY DEF Give
<1>4. readHead' \in Nat
  <2>1. Source[Head(cache)] \in [type : ResultType, time : Nat]
    BY <1>2, ElementOfSeq DEF Index
  <2> QED
    BY <2>1 DEF IInv, TypeOK, Give
<1>5. TypeOK'
  BY <1>2, <1>3, <1>4, SourceLength, SMTT(20)
  DEF IInv, TypeOK, Index, AfterWriteSignal, ProducerState, ConsumerState,
      ClientState
<1>6. CacheContiguous'
  <2>1. Contiguous(cache, last, pos)
    BY CacheIsContiguous DEF IInv
  <2>2. Contiguous(Tail(cache), Head(cache), pos)
    BY <1>1, <2>1, DequeueContiguous DEF IInv, TypeOK
  <2> QED
    BY <1>3, <2>2 DEF CacheContiguous, Contiguous, Follows
<1>7. Control' /\ ProducerInv' /\ StampInv' /\ EndInv'
  BY <1>3 DEF IInv, Control, ProducerInv, StampInv, EndInv, AfterWriteSignal
<1>8. NoMutualWait'
  BY <1>3 DEF NoMutualWait, ProducerWaits, AfterWriteSignal
<1> QED
  BY <1>5, <1>6, <1>7, <1>8 DEF IInv

(* The generator's loop runs only in an iterator that asks for topics. *)
LEMMA LoopKeeps ==
  ASSUME IInv, Loop, consumer \in {"fresh", "idle", "readWoken"}, topics,
         client \in {"using", "next"},
         consumer = "readWoken" \/ client = "using"
  PROVE  IInv'
BY GiveKeeps, LeaveLoopKeeps, WaitForMoreKeeps DEF Loop

LEMMA OpenKeeps ==
  ASSUME IInv, NEW start \in Starts, NEW wanted \in BOOLEAN,
         Open(start, wanted)
  PROVE  IInv'
<1>1. TypeOK'
  <2>1. cache' \in Seq(1..Len(Source))
    BY EmptySeq DEF IInv, TypeOK, Open, StartProducer
  <2>2. /\ readHead' \in Nat /\ topics' \in BOOLEAN
        /\ pos' \in 1..(Len(Source) + 1) /\ first' = pos' /\ last' = pos' - 1
    BY DEF Open
  <2>3. ASSUME NEW n \in Nat, NEW p \in 1..(n + 1) PROVE p - 1 \in 0..n
    OBVIOUS
  <2>4. last' \in 0..Len(Source)
    BY <2>2, <2>3, SourceLength, Zenon
  <2>5. /\ producer' \in ProducerState /\ consumer' \in ConsumerState
        /\ client' \in ClientState /\ outcome' = "none" /\ aborted' = FALSE
        /\ readDone' \in BOOLEAN
    BY DEF Open, StartProducer, ProducerState, ConsumerState, ClientState
  <2> QED
    BY <2>1, <2>2, <2>4, <2>5 DEF TypeOK
<1>2. CacheContiguous' /\ Control' /\ ProducerInv' /\ StampInv'
  BY SourceLength
  DEF IInv, TypeOK, Open, StartProducer, CacheContiguous, Control, ProducerInv,
      StampInv
<1>3. NoMutualWait' /\ EndInv'
  BY DEF Open, StartProducer, NoMutualWait, ProducerWaits, EndInv
<1> QED
  BY <1>1, <1>2, <1>3 DEF IInv

LEMMA TerminateKeeps ==
  ASSUME IInv, Terminate
  PROVE  IInv'
BY DEF IInv, TypeOK, Terminate, producerVars, CacheContiguous, Control,
       ProducerInv, StampInv, NoMutualWait, ProducerWaits, EndInv, ClientState

LEMMA StutterKeeps ==
  ASSUME IInv, UNCHANGED vars
  PROVE  IInv'
BY DEF IInv, TypeOK, vars, CacheContiguous, Follows, Control,
       ProducerInv, StampInv, NoMutualWait, ProducerWaits, EndInv

-----------------------------------------------------------------------------
(* The invariant holds in every reachable state.                            *)
THEOREM Inductive == Spec => []IInv
<1>1. Init => IInv
  <2>1. <<>> \in Seq(1..Len(Source))
    BY EmptySeq
  <2>2. Init => cache \in Seq(1..Len(Source))
    BY <2>1, Zenon DEF Init
  <2>3. Init => first \in 1..(Len(Source) + 1) /\ pos \in 1..(Len(Source) + 1)
                /\ last \in 0..Len(Source) /\ readHead \in Nat
    BY SourceLength DEF Init
  <2>4. Init => TypeOK
    BY <2>2, <2>3
    DEF Init, TypeOK, ProducerState, ConsumerState, ClientState
  <2> QED
    BY <2>4, SourceLength
    DEF Init, IInv, CacheContiguous, Control, ProducerInv, StampInv,
      NoMutualWait, ProducerWaits, EndInv, ProducerState, ConsumerState,
      ClientState
<1>2. IInv /\ [Next]_vars => IInv'
  <2> SUFFICES ASSUME IInv, [Next]_vars PROVE IInv'
    OBVIOUS
  <2>1. CASE ProducerStep
    BY <2>1, SourceEndsKeeps, SourceFailsKeeps, ReadAbortedKeeps,
       SourceReturnedKeeps, ReadFarStampKeeps, ReadBelowMinimumKeeps,
       ReadAndNotifyKeeps, WriteWakesKeeps, StampWakesKeeps
    DEF ProducerStep
  <2>2. CASE ConsumerWakes
    BY <2>2, LoopKeeps
    DEF ConsumerWakes, IInv, TypeOK, Control, ProducerInv, ClientState
  <2>3. CASE CallNext
    BY <2>3, LoopKeeps DEF CallNext
  <2>4. CASE ConsumerStep /\ ~ConsumerWakes
    BY <2>4, GeneratorEndsKeeps, StopReturnsKeeps
    DEF ConsumerStep
  <2>5. CASE ClientStep /\ ~CallNext
    BY <2>5, OpenKeeps, CallNextNoTopicsKeeps,
       CallReturnKeeps, CallStopKeeps, TerminateKeeps, StutterKeeps
    DEF ClientStep, Closed
  <2>6. CASE UNCHANGED vars
    BY <2>6, StutterKeeps
  <2> QED
    BY <2>1, <2>2, <2>3, <2>4, <2>5, <2>6 DEF Next, ConsumerStep, ClientStep
<1> QED
  BY <1>1, <1>2, PTL DEF Spec

(* Every variable keeps its type. *)
THEOREM TypeCorrect == Spec => []TypeOK
BY Inductive, PTL DEF IInv

(* Producer and consumer never wait for each other. *)
THEOREM NeverMutualWait == Spec => []NoMutualWait
BY Inductive, PTL DEF IInv

(* The user is given the source's results in order, none missing.           *)
THEOREM CacheStaysContiguous == Spec => []CacheContiguous
BY Inductive, PTL DEF IInv

(* messageIterator never finds the producer of an earlier iterator.         *)
THEOREM OnlyOneProducer == Spec => []OneProducer
<1>1. IInv => OneProducer
  BY DEF IInv, ProducerInv, OneProducer
<1> QED
  BY <1>1, Inductive, PTL

(* An iterator that ends by itself gave its user all there was.             *)
THEOREM EndsAfterAll == Spec => []EndMeansAll
<1>1. IInv => EndMeansAll
  BY DEF IInv, EndInv, EndMeansAll
<1> QED
  BY <1>1, Inductive, PTL

-----------------------------------------------------------------------------
(***************************************************************************)
(* Proof that BufferedSource implements the safety part of MessageStream:  *)
(* under the mapping of BufferedSource, each step of the producer, the     *)
(* generator and the user is a step of the stream or changes nothing of    *)
(* it.  That every question is answered is liveness, and left to TLC.      *)
(***************************************************************************)

N == Len(Source)
Final == {"done", "error", "rejected"}

(* An iterator whose user was told of its end has ended. *)
Told == outcome \in Final => consumer = "ended"

-----------------------------------------------------------------------------
LEMMA FollowingFacts ==
  ASSUME NEW i \in 1..(N + 1)
  PROVE  /\ Stream!Following(1..N, i) = i
         /\ Stream!Following({}, i) = N + 1
<1>1. N \in Nat
  BY SourceLength DEF N
<1>2. ASSUME NEW W, W = 1..N \/ W = {}
      PROVE  LET later == {j \in W \cup {N + 1} : j >= i}
                 least == IF W = {} THEN N + 1 ELSE i
             IN /\ least \in later /\ \A k \in later : least <= k
                /\ \A j \in later : (\A k \in later : j <= k) => j = least
  <2>1. CASE W = {}
    <3>1. {j \in W \cup {N + 1} : j >= i} = {N + 1}
      BY <1>1, <2>1
    <3> QED
      BY <1>1, <2>1, <3>1
  <2>2. CASE W = 1..N /\ W # {}
    <3>1. i \in Nat /\ i <= N + 1
      BY <1>1
    <3>2. \A j : j \in W \cup {N + 1} /\ j >= i <=> j \in i..(N + 1)
      BY <1>1, <2>2, <3>1
    <3>3. {j \in W \cup {N + 1} : j >= i} = i..(N + 1)
      BY <3>2
    <3>4. /\ i \in i..(N + 1) /\ \A k \in i..(N + 1) : i <= k
          /\ \A j \in i..(N + 1) : (\A k \in i..(N + 1) : j <= k) => j = i
      BY <1>1, <3>1
    <3> QED
      BY <2>2, <3>3, <3>4
  <2> QED
    BY <1>2, <2>1, <2>2
<1>3. ASSUME NEW W, W = 1..N \/ W = {}
      PROVE  Stream!Following(W, i) = IF W = {} THEN N + 1 ELSE i
  <2> DEFINE later == {j \in W \cup {N + 1} : j >= i}
             least == IF W = {} THEN N + 1 ELSE i
  <2>1. /\ least \in later /\ \A k \in later : least <= k
        /\ \A j \in later : (\A k \in later : j <= k) => j = least
    BY <1>2, <1>3
  <2>2. Stream!Following(W, i) =
          CHOOSE j \in later : \A k \in later : j <= k
    BY DEF Stream!Following, N
  <2>3. \E j \in later : \A k \in later : j <= k
    BY <2>1
  <2> DEFINE c == CHOOSE j \in later : \A k \in later : j <= k
  <2> HIDE DEF later
  <2>4. c \in later /\ \A k \in later : c <= k
    BY <2>3
  <2>5. c = least
    <3> HIDE DEF c, least
    <3> QED
      BY <2>1, <2>4
  <2> QED
    BY <2>2, <2>5
<1>4. i \in 1..N \/ i = N + 1
  BY <1>1
<1> QED
  BY <1>1, <1>3, <1>4

LEMMA ToldInit == Init => Told
  BY DEF Init, Told, Final

LEMMA ToldKeeps == IInv /\ Told /\ [Next]_vars => Told'
<1> SUFFICES ASSUME IInv, Told, [Next]_vars PROVE Told'
  OBVIOUS
<1>1. CASE ProducerStep
  BY <1>1
  DEF ProducerStep, SourceEnds, SourceFails, ReadAborted, SourceReturned,
      ReadFarStamp, ReadBelowMinimum, ReadAndNotify, WriteWakes, StampWakes,
      ProducerExit, AbortReturn, Enqueue, AfterReadSignal, clientVars, Told
<1>2. CASE ConsumerStep
  BY <1>2
  DEF ConsumerStep, ConsumerWakes, GeneratorEnds, StopReturns, Loop, Give,
      LeaveLoop, WaitForMore, Told, Final
<1>3. CASE ClientStep
  BY <1>3
  DEF ClientStep, Open, CallNext, CallNextNoTopics, CallReturn, CallStop,
      Terminate, Closed, Loop, Give, LeaveLoop, WaitForMore, vars, Told, Final
<1>4. CASE UNCHANGED vars
  BY <1>4 DEF vars, Told
<1> QED
  BY <1>1, <1>2, <1>3, <1>4 DEF Next

-----------------------------------------------------------------------------
(* The steps.  The producer's show nothing to the user.                     *)

LEMMA NothingShows ==
  ASSUME UNCHANGED <<client, outcome, first, last, topics>>
  PROVE  UNCHANGED Stream!vars
  BY DEF Stream!vars, Wanting, Phase

(* A closed iterator shows nothing, whatever becomes of the producer. *)
LEMMA ClosedShowsNothing ==
  ASSUME Phase = "closed", Phase' = "closed"
  PROVE  UNCHANGED Stream!vars
<1>1. client # "next" /\ client' # "next"
  BY DEF Phase
<1> QED
  BY <1>1 DEF Stream!vars, Wanting

LEMMA OpenOpens ==
  ASSUME IInv, IInv', NEW t \in Starts, NEW w \in BOOLEAN, Open(t, w)
  PROVE  Stream!Next
<1> DEFINE W == IF w THEN 1..N ELSE {}
<1>1. /\ client = "stopped" /\ client' = "using" /\ outcome' = "none"
      /\ topics' = w /\ first' = pos' /\ last' = pos' - 1
      /\ pos' \in 1..(N + 1) /\ StartsAt(pos', t)
  BY DEF Open, N
<1>2. Phase = "closed" /\ Phase' = "open"
  BY <1>1 DEF Phase
<1>3. Wanting' = w /\ ~Wanting
  BY <1>1, <1>2 DEF Wanting
<1>4. Stream!StartsAt(pos', t)
  BY <1>1 DEF StartsAt, Stream!StartsAt
<1>5. Stream!Following(W, pos') = IF w THEN pos' ELSE N + 1
  BY <1>1, FollowingFacts
<1>6. last' + 1 = pos'
  <2>1. pos' \in Nat /\ last' = pos' - 1
    BY <1>1, SourceLength DEF N
  <2>2. \A m \in Nat : (m - 1) + 1 = m
    OBVIOUS
  <2> QED
    BY <2>1, <2>2
<1>7. Stream!Open(t, W)
  BY <1>1, <1>2, <1>3, <1>4, <1>5, <1>6 DEF Stream!Open, N
<1>8. W \in {{}, 1..Len(Source)}
  BY DEF N
<1> QED
  BY <1>7, <1>8 DEF Stream!Next

(* The first result of the queue is the next one, or a stamp again. *)
LEMMA GiveAnswers ==
  ASSUME IInv, IInv', Told, Give, topics, client \in {"using", "next"},
         consumer # "ended"
  PROVE  Stream!Next
<1>1. /\ cache # <<>> /\ last' = Head(cache)
      /\ client' = "using" /\ outcome' = "item" /\ UNCHANGED <<first, topics>>
  BY DEF Give
<1>2. Phase = "open" /\ Phase' = "open" /\ Wanting /\ Wanting'
  BY <1>1 DEF Told, Final, Phase, Wanting
<1>3. Follows(last, last') /\ last' \in 1..N /\ last \in 0..N
      /\ first \in 1..(N + 1)
  <2>1. Head(cache) = cache[1] /\ Head(cache) \in 1..N
    BY <1>1 DEF IInv, TypeOK, N
  <2> QED
    BY <1>1, <2>1 DEF IInv, CacheContiguous, TypeOK, N
<1>4. CASE last' = last + 1
  <2>1. Stream!Following(1..N, (last + 1) + 1) = last' + 1
    BY <1>3, <1>4, FollowingFacts, SourceLength DEF N
  <2>2. Stream!Yield
    BY <1>1, <1>2, <1>3, <1>4, <2>1, SourceLength DEF Stream!Yield, N
  <2> QED
    BY <2>2 DEF Stream!Next, Stream!Answer
<1>5. CASE last' = last /\ Source[last].type = "stamp" /\ last >= first
  <2>1. last + 1 > first /\ (last + 1) - 1 = last
    BY <1>3, <1>5, SourceLength DEF N
  <2>2. Stream!RepeatStamp
    BY <1>1, <1>2, <1>5, <2>1 DEF Stream!RepeatStamp
  <2> QED
    BY <2>2 DEF Stream!Next, Stream!Answer
<1> QED
  BY <1>3, <1>4, <1>5 DEF Follows

(* A call that is not answered at once is a question. *)
LEMMA CallAsks ==
  ASSUME Told, client \in {"using", "next"}, client' = "next",
         consumer # "ended", UNCHANGED <<outcome, first, last, topics>>
  PROVE  [Stream!Next]_(Stream!vars)
<1>1. Phase = "open" /\ Phase' = "open" /\ (Wanting <=> topics)
      /\ (Wanting' <=> topics)
  BY DEF Told, Final, Phase, Wanting
<1>2. CASE client = "using"
  <2>1. Stream!Ask
    BY <1>1, <1>2 DEF Stream!Ask
  <2> QED
    BY <2>1 DEF Stream!Next
<1>3. CASE client = "next"
  BY <1>3, NothingShows
<1> QED
  BY <1>2, <1>3

LEMMA LoopShows ==
  ASSUME IInv, IInv', Told, Loop, topics, client \in {"using", "next"},
         consumer # "ended"
  PROVE  [Stream!Next]_(Stream!vars)
<1>1. CASE Give
  BY <1>1, GiveAnswers
<1>2. CASE LeaveLoop \/ WaitForMore
  BY <1>2, CallAsks DEF LeaveLoop, WaitForMore, bufferVars
<1> QED
  BY <1>1, <1>2 DEF Loop

(* The stream is closed by the return, whether it had ended or not. *)
LEMMA ReturnCloses ==
  ASSUME client \in {"using", "return"}, client' = "none"
  PROVE  Stream!Next
<1>1. Phase # "closed" /\ Phase' = "closed" /\ ~Wanting'
  BY DEF Phase, Wanting
<1>2. Stream!Close
  BY <1>1 DEF Stream!Close
<1> QED
  BY <1>2 DEF Stream!Next

LEMMA ReturnShows ==
  ASSUME CallReturn
  PROVE  [Stream!Next]_(Stream!vars)
<1>1. CASE client' = "none"
  BY <1>1, ReturnCloses DEF CallReturn
<1>2. CASE client' # "none"
  <2>1. /\ client = "using" /\ client' = "return"
        /\ UNCHANGED <<outcome, first, last, topics>>
    BY <1>2 DEF CallReturn
  <2>2. UNCHANGED Stream!vars
    BY <2>1 DEF Stream!vars, Wanting, Phase
  <2> QED
    BY <2>2
<1> QED
  BY <1>1, <1>2

(* The generator ends: with an error, for its user's return, or because all *)
(* was given.                                                               *)
LEMMA EndShows ==
  ASSUME IInv, Told, GeneratorEnds
  PROVE  [Stream!Next]_(Stream!vars)
<1>1. /\ consumer = "closing" /\ client \in {"next", "return"}
      /\ UNCHANGED <<first, last, topics>>
  BY DEF GeneratorEnds, bufferVars, IInv, Control, TypeOK, ClientState
<1>2. Phase = "open" /\ (Wanting <=> topics)
  BY <1>1 DEF Told, Final, Phase, Wanting
<1>3. CASE producer = "failed"
  <2>1. client' = "using" /\ outcome' \in {"rejected", "error"}
    BY <1>3 DEF GeneratorEnds
  <2>2. Phase' = "failed" /\ (Wanting' <=> topics)
    BY <1>1, <2>1 DEF Phase, Wanting
  <2>3. Stream!Fail
    BY <1>1, <1>2, <2>1, <2>2 DEF Stream!Fail
  <2> QED
    BY <2>3 DEF Stream!Next, Stream!Answer
<1>4. CASE producer # "failed" /\ client = "return"
  BY <1>4, ReturnCloses DEF GeneratorEnds
<1>5. CASE producer # "failed" /\ client = "next"
  <2>1. client' = "using" /\ outcome' = "done" /\ producer # "failed"
    BY <1>5 DEF GeneratorEnds
  <2>2. Phase' = "ended" /\ (Wanting' <=> topics)
    BY <1>1, <2>1 DEF Phase, Wanting
  <2>3. topics => last = N
    BY <1>1, <1>5 DEF IInv, EndInv, N
  <2>4. (IF topics THEN last + 1 ELSE N + 1) > N
    BY <2>3, SourceLength DEF N
  <2>5. Stream!Finish
    BY <1>1, <1>2, <2>1, <2>2, <2>4 DEF Stream!Finish, N
  <2> QED
    BY <2>5 DEF Stream!Next, Stream!Answer
<1> QED
  BY <1>1, <1>3, <1>4, <1>5

-----------------------------------------------------------------------------
LEMMA StepShows ==
  ASSUME IInv, IInv', Told, [Next]_vars
  PROVE  [Stream!Next]_(Stream!vars)
<1>1. CASE ProducerStep
  BY <1>1, NothingShows
  DEF ProducerStep, SourceEnds, SourceFails, ReadAborted, SourceReturned,
      ReadFarStamp, ReadBelowMinimum, ReadAndNotify, WriteWakes, StampWakes,
      ProducerExit, AbortReturn, Enqueue, clientVars, bufferVars
<1>2. CASE UNCHANGED vars
  BY <1>2, NothingShows DEF vars
<1>3. ASSUME NEW t \in Starts, NEW w \in BOOLEAN, Open(t, w)
      PROVE  Stream!Next
  BY <1>3, OpenOpens
<1>4. CASE CallNext
  BY <1>4, LoopShows DEF CallNext
<1>5. CASE ConsumerWakes
  <2>1. client = "next" /\ topics /\ consumer # "ended" /\ Loop
    BY <1>5
    DEF ConsumerWakes, IInv, Control, ProducerInv, TypeOK, ClientState
  <2> QED
    BY <2>1, LoopShows
<1>6. CASE CallNextNoTopics
  BY <1>6, CallAsks DEF CallNextNoTopics
<1>7. CASE CallReturn
  BY <1>7, ReturnShows
<1>8. CASE GeneratorEnds
  BY <1>8, EndShows
<1>9. CASE StopReturns \/ CallStop \/ Terminate
  <2>1. Phase = "closed" /\ Phase' = "closed"
    BY <1>9 DEF StopReturns, CallStop, Terminate, Phase
  <2> QED
    BY <2>1, ClosedShowsNothing
<1>10. CASE Closed
  BY <1>10, NothingShows DEF Closed, vars
<1> QED
  BY <1>1, <1>2, <1>3, <1>4, <1>5, <1>6, <1>7, <1>8, <1>9, <1>10
  DEF Next, ConsumerStep, ClientStep

(* An iterator yields what it was opened for, from its time on, in order    *)
(* and each result once (a stamp maybe again), and ends only when there is  *)
(* nothing left or the source failed: the buffer, its producer and its      *)
(* signals do not show.                                                     *)
THEOREM ImplementsPromise == Spec => Stream!Promise
<1>1. Init => Stream!Init
  BY DEF Init, Stream!Init, Wanting, Phase
<1>2. IInv /\ IInv' /\ Told /\ [Next]_vars => [Stream!Next]_(Stream!vars)
  BY StepShows
<1> QED
  BY <1>1, <1>2, ToldInit, ToldKeeps, Inductive, PTL DEF Spec, Stream!Promise

=============================================================================
