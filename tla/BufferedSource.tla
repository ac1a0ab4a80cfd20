--------------------------- MODULE BufferedSource ---------------------------
(***************************************************************************)
(* BufferedIterableSource: a producer reads ahead in the underlying source *)
(* and fills a queue, the generator it returns is the consumer, and two    *)
(* condition variables let each wait for the other.  Both are asynchronous *)
(* functions on one JavaScript thread, so a step here is everything one of *)
(* them does between two awaits.                                           *)
(*                                                                         *)
(* The user is IterablePlayer: it awaits every call, and between two       *)
(* iterators it returns the first and then stops the producer.             *)
(***************************************************************************)
EXTENDS Integers, Sequences

CONSTANTS
  Source,           \* the results of the source: [type, time], in its order
  Starts,           \* the times the user opens an iterator at
  ReadAhead,        \* readAheadDuration
  MinReadAhead,     \* minReadAheadDuration
  MayFail           \* may reading the source reject

ResultType == {"message-event", "problem", "stamp"}

(* The source yields in log time order (IIterableSource.messageIterator);  *)
(* the constructor throws unless ReadAhead >= MinReadAhead.                *)
ASSUME SourceAssumption ==
  /\ Source \in Seq([type : ResultType, time : Nat])
  /\ \A i, j \in 1..Len(Source) : i < j => Source[i].time <= Source[j].time
ASSUME ParameterAssumption ==
  /\ Starts \subseteq Nat
  /\ ReadAhead \in Nat
  /\ MinReadAhead \in Nat
  /\ MinReadAhead <= ReadAhead
  /\ MayFail \in BOOLEAN

VARIABLES
  cache,      \* #cache: the queue, of indexes in Source
  readHead,   \* #readHead
  readDone,   \* #readDone
  aborted,    \* #aborted
  topics,     \* does the current iterator ask for any topic
  pos,        \* the index of the result the producer's iterator yields next
  producer,   \* where #startProducer stands, "none" when #producer is unset
  consumer,   \* where the generator stands
  client,     \* what the user is doing or awaiting
  outcome,    \* how the last next() or return() of the generator settled
  first,      \* history: the index the current iterator starts at
  last        \* history: the highest index given to the user

bufferVars == <<cache, readHead, readDone, aborted, topics>>
producerVars == <<pos, producer>>
clientVars == <<client, outcome, first, last>>
vars == <<cache, readHead, readDone, aborted, topics, pos, producer, consumer,
          client, outcome, first, last>>

ProducerState ==
  {"none", "reading", "stampWait", "stampWoken", "writeWait", "writeWoken",
   "exiting", "done", "failed"}
ConsumerState ==
  {"none", "fresh", "idle", "readWait", "readWoken", "closing", "ended"}
ClientState ==
  {"using", "next", "return", "none", "stopping", "stopped", "closed"}

Init ==
  /\ cache = <<>>
  /\ readHead = 0
  /\ readDone = FALSE
  /\ aborted = FALSE
  /\ topics = TRUE
  /\ pos = 1
  /\ producer = "none"
  /\ consumer = "none"
  /\ client = "stopped"
  /\ outcome = "none"
  /\ first = 1
  /\ last = 0

-----------------------------------------------------------------------------
(* The condition variables: notifyAll resolves the promise of the side that *)
(* waits, which resumes in a later step.                                    *)

AfterReadSignal == IF consumer = "readWait" THEN "readWoken" ELSE consumer

(* Mutant: the consumer does not notify the producer. *)
AfterWriteSignalLost == producer

AfterWriteSignal ==
  CASE producer = "stampWait" -> "stampWoken"
    [] producer = "writeWait" -> "writeWoken"
    [] OTHER -> producer

-----------------------------------------------------------------------------
(* The user's calls.                                                        *)

(* The results before index i, and no others, are earlier than t. *)
StartsAt(i, t) == \A j \in 1..Len(Source) : (j < i) = (Source[j].time < t)

(* Mutant: the queue of the iterator before is not cleared. *)
StartProducerKeepsCache(wanted) ==
  IF wanted
  THEN UNCHANGED cache /\ readDone' = FALSE /\ producer' = "reading"
  ELSE UNCHANGED cache /\ readDone' = TRUE /\ producer' = "done"

(* Mutant: readDone is not reset. *)
StartProducerKeepsDone(wanted) ==
  IF wanted
  THEN cache' = <<>> /\ UNCHANGED readDone /\ producer' = "reading"
  ELSE UNCHANGED cache /\ readDone' = TRUE /\ producer' = "done"

(* startProducer up to its first await; messageIterator has just reset      *)
(* readDone.                                                                *)
StartProducer(wanted) ==
  IF wanted
  THEN cache' = <<>> /\ readDone' = FALSE /\ producer' = "reading"
  ELSE UNCHANGED cache /\ readDone' = TRUE /\ producer' = "done"

(* messageIterator: resets the flags and runs startProducer up to its first *)
(* await.  It throws if a producer is set: see OneProducer.                 *)
Open(start, wanted) ==
  /\ client = "stopped"
  /\ producer = "none"
  /\ readHead' = start
  /\ aborted' = FALSE
  /\ topics' = wanted
  /\ pos' \in 1..(Len(Source) + 1)
  /\ StartsAt(pos', start)
  /\ StartProducer(wanted)
  /\ consumer' = "fresh"
  /\ client' = "using"
  /\ outcome' = "none"
  /\ first' = pos'
  /\ last' = pos' - 1

(* stopProducer up to its await. *)
BeginStop == aborted' = TRUE /\ producer' = AfterWriteSignal

(* The end of stopProducer: the producer's promise has settled.  It leaves  *)
(* #producer set when that promise rejected.                                *)
ProducerSettled == producer \in {"none", "done", "failed"}
EndStop == producer' = IF producer = "failed" THEN "failed" ELSE "none"

(* One turn of the generator's loop: give the first result of the cache,    *)
(* leave the loop, or wait for more.                                        *)
Give ==
  /\ cache # <<>>
  /\ LET item == Head(cache) IN
       /\ cache' = Tail(cache)
       /\ readHead' = IF Source[item].type = "problem"
                      THEN readHead ELSE Source[item].time
       /\ last' = item
  /\ producer' = AfterWriteSignal
  /\ consumer' = "idle"
  /\ client' = "using"
  /\ outcome' = "item"
  /\ UNCHANGED <<readDone, aborted, topics, pos, first>>

LeaveLoop ==
  /\ cache = <<>> /\ readDone
  /\ BeginStop
  /\ consumer' = "closing"
  /\ client' = "next"
  /\ UNCHANGED <<cache, readHead, readDone, topics, pos, outcome, first, last>>

WaitForMore ==
  /\ cache = <<>> /\ ~readDone
  /\ consumer' = "readWait"
  /\ client' = "next"
  /\ UNCHANGED <<bufferVars, producerVars, outcome, first, last>>

Loop == Give \/ LeaveLoop \/ WaitForMore

(* iterator.next(): runs the generator up to its next yield or await.  Of a *)
(* generator that has ended it settles at once and changes nothing.         *)
CallNext ==
  /\ client = "using" /\ consumer \in {"fresh", "idle"} /\ topics
  /\ Loop

(* With no topics the generator returns at once, through its finally. *)
CallNextNoTopics ==
  /\ client = "using" /\ consumer = "fresh" /\ ~topics
  /\ BeginStop
  /\ consumer' = "closing"
  /\ client' = "next"
  /\ UNCHANGED <<cache, readHead, readDone, topics, pos, outcome, first, last>>

(* The generator resumes after readSignal was notified. *)
ConsumerWakes ==
  /\ consumer = "readWoken"
  /\ Loop

(* iterator.return(): a generator that never ran, or that has ended, ends   *)
(* at once, without its finally block; a suspended one runs it.             *)
CallReturn ==
  /\ client = "using"
  /\ \/ /\ consumer \in {"fresh", "ended"}
        /\ consumer' = "ended"
        /\ client' = "none"
        /\ UNCHANGED <<aborted, producer>>
     \/ /\ consumer = "idle"
        /\ BeginStop
        /\ consumer' = "closing"
        /\ client' = "return"
  /\ UNCHANGED <<cache, readHead, readDone, topics, pos, outcome, first, last>>

(* The generator's finally block has awaited the producer. *)
GeneratorEnds ==
  /\ consumer = "closing" /\ ProducerSettled
  /\ EndStop
  /\ consumer' = "ended"
  /\ IF producer = "failed"
     THEN /\ client' = "using"
          /\ outcome' = IF client = "return" THEN "rejected" ELSE "error"
     ELSE IF client = "return"
          THEN client' = "none" /\ UNCHANGED outcome
          ELSE client' = "using" /\ outcome' = "done"
  /\ UNCHANGED <<bufferVars, pos, first, last>>

(* stopProducer, called by the user. *)
CallStop ==
  /\ client = "none"
  /\ BeginStop
  /\ client' = "stopping"
  /\ UNCHANGED <<cache, readHead, readDone, topics, pos, consumer, outcome,
                 first, last>>

(* Mutant: #producer is not unset. *)
StopReturnsEarly ==
  /\ client = "stopping" /\ ProducerSettled
  /\ UNCHANGED producer
  /\ client' = IF producer = "failed" THEN "none" ELSE "stopped"
  /\ UNCHANGED <<bufferVars, pos, consumer, outcome, first, last>>

StopReturns ==
  /\ client = "stopping" /\ ProducerSettled
  /\ EndStop
  /\ client' = IF producer = "failed" THEN "none" ELSE "stopped"
  /\ UNCHANGED <<bufferVars, pos, consumer, outcome, first, last>>

(* terminate, called when the player closes. *)
Terminate ==
  /\ client = "stopped"
  /\ cache' = <<>>
  /\ client' = "closed"
  /\ UNCHANGED <<readHead, readDone, aborted, topics, producerVars, consumer,
                 outcome, first, last>>

Closed == client = "closed" /\ UNCHANGED vars

-----------------------------------------------------------------------------
(* The producer.                                                            *)

Here == Source[pos]
ReadUntil == readHead + ReadAhead
MinReadAheadUntil == readHead + MinReadAhead

(* Mutant: the consumer is not notified of the end. *)
ProducerExitSilent(how) ==
  /\ consumer' = consumer
  /\ readDone' = TRUE
  /\ producer' = how
  /\ UNCHANGED <<cache, readHead, aborted, topics, pos, clientVars>>

(* The finally block of startProducer. *)
ProducerExit(how) ==
  /\ consumer' = AfterReadSignal
  /\ readDone' = TRUE
  /\ producer' = how
  /\ UNCHANGED <<cache, readHead, aborted, topics, pos, clientVars>>

SourceEnds == producer = "reading" /\ pos > Len(Source) /\ ProducerExit("done")

SourceFails ==
  /\ MayFail
  /\ producer \in {"reading", "exiting"}
  /\ ProducerExit("failed")

(* A return inside the for await: the source's iterator is returned first. *)
AbortReturn ==
  /\ producer' = "exiting"
  /\ UNCHANGED <<bufferVars, pos, consumer, clientVars>>

ReadAborted ==
  /\ producer = "reading" /\ pos <= Len(Source) /\ aborted
  /\ AbortReturn

SourceReturned == producer = "exiting" /\ ProducerExit("done")

(* The source yielded a result and the producer was not aborted. *)
Reads == producer = "reading" /\ pos <= Len(Source) /\ ~aborted

Enqueue(i) ==
  /\ cache' = Append(cache, i)
  /\ UNCHANGED <<readHead, readDone, aborted, topics, clientVars>>

(* A stamp beyond the read-ahead goes into the cache, the consumer is       *)
(* notified, and the producer waits for the read head to come closer.       *)
IsFarStamp == Here.type = "stamp" /\ Here.time >= ReadUntil

ReadFarStamp ==
  /\ Reads
  /\ IsFarStamp
  /\ Enqueue(pos)
  /\ pos' = pos + 1
  /\ consumer' = AfterReadSignal
  /\ producer' = "stampWait"

(* Not enough is buffered yet for the consumer to try again. *)
BelowMinimum == Here.type = "message-event" /\ Here.time < MinReadAheadUntil

(* Mutant: the source is advanced twice. *)
ReadBelowMinimumTwice ==
  /\ Reads
  /\ BelowMinimum
  /\ Enqueue(pos)
  /\ pos' = pos + 2
  /\ UNCHANGED <<producer, consumer>>

ReadBelowMinimum ==
  /\ Reads
  /\ BelowMinimum
  /\ Enqueue(pos)
  /\ pos' = pos + 1
  /\ UNCHANGED <<producer, consumer>>

(* canReadMore: does CachingIterableSource have space left. *)
ReadAndNotify(canReadMore) ==
  /\ Reads
  /\ ~IsFarStamp /\ ~BelowMinimum
  /\ Enqueue(pos)
  /\ pos' = pos + 1
  /\ consumer' = AfterReadSignal
  /\ producer' = IF Here.type = "message-event" /\ Here.time <= ReadUntil
                    /\ canReadMore
                 THEN "reading" ELSE "writeWait"

WriteWakes ==
  /\ producer = "writeWoken"
  /\ producer' = "reading"
  /\ UNCHANGED <<bufferVars, pos, consumer, clientVars>>

(* The stamp at pos - 1 is looked at again with the new read head. *)
StampWakes ==
  /\ producer = "stampWoken"
  /\ IF Source[pos - 1].time < ReadUntil
     THEN /\ producer' = "reading"
          /\ UNCHANGED <<bufferVars, pos, consumer, clientVars>>
     ELSE IF aborted
          THEN AbortReturn
          ELSE /\ Enqueue(pos - 1)
               /\ consumer' = AfterReadSignal
               /\ producer' = "stampWait"
               /\ UNCHANGED pos

ProducerStep ==
  \/ SourceEnds
  \/ SourceFails
  \/ ReadAborted
  \/ SourceReturned
  \/ ReadFarStamp
  \/ ReadBelowMinimum
  \/ \E canReadMore \in BOOLEAN : ReadAndNotify(canReadMore)
  \/ WriteWakes
  \/ StampWakes

(* Promises that have settled and resume the generator or the user. *)
ConsumerStep == ConsumerWakes \/ GeneratorEnds \/ StopReturns

ClientStep ==
  \/ \E start \in Starts, wanted \in BOOLEAN : Open(start, wanted)
  \/ CallNext
  \/ CallNextNoTopics
  \/ CallReturn
  \/ CallStop
  \/ Terminate
  \/ Closed

Next == ProducerStep \/ ConsumerStep \/ ClientStep

(* Settled promises resume, and a read of the source settles; the user may  *)
(* stop calling at any time.                                                *)
Spec ==
  /\ Init /\ [][Next]_vars
  /\ WF_vars(ProducerStep)
  /\ WF_vars(ConsumerStep)

-----------------------------------------------------------------------------
(* Every variable keeps its type. *)
TypeOK ==
  /\ cache \in Seq(1..Len(Source))
  /\ readHead \in Nat
  /\ readDone \in BOOLEAN
  /\ aborted \in BOOLEAN
  /\ topics \in BOOLEAN
  /\ pos \in 1..(Len(Source) + 1)
  /\ producer \in ProducerState
  /\ consumer \in ConsumerState
  /\ client \in ClientState
  /\ outcome \in {"none", "item", "done", "error", "rejected"}
  /\ first \in 1..(Len(Source) + 1)
  /\ last \in 0..Len(Source)

(* No state of BufferedIterableSource lets messageIterator throw "allows    *)
(* only one messageIterator": whoever opens an iterator has stopped the     *)
(* producer of the one before.                                              *)
OneProducer == client = "stopped" => producer = "none"

(* The cache holds what comes right after the result given last, and ends   *)
(* where the producer stands: nothing is skipped, repeated or left over     *)
(* from an earlier iterator, except that a stamp may be repeated.           *)
Follows(i, j) == j = i + 1 \/ (j = i /\ Source[i].type = "stamp" /\ i >= first)

CacheContiguous ==
  topics /\ client # "closed" =>
    IF cache = <<>>
    THEN last = pos - 1
    ELSE /\ Follows(last, cache[1])
         /\ cache[Len(cache)] = pos - 1
         /\ \A k \in 1..(Len(cache) - 1) : Follows(cache[k], cache[k + 1])

(* The two sides never wait for each other: a waiting consumer has a        *)
(* producer that is running or about to, and a waiting producer left the    *)
(* consumer something whose removal wakes it.                               *)
ProducerWaits == producer \in {"stampWait", "writeWait"}

NoMutualWait ==
  /\ consumer = "readWait" =>
       producer \in {"reading", "stampWoken", "writeWoken", "exiting"}
  /\ ProducerWaits => cache # <<>> /\ ~aborted

(* The generator ends by itself only after it gave all there is: done means *)
(* the end of the source, an error that every result read came before it.   *)
EndMeansAll ==
  topics /\ client = "using" =>
    /\ outcome = "done" => last = Len(Source)
    /\ outcome = "error" => last = pos - 1

(* Stopping the producer always comes to an end. *)
StopSettles == client = "stopping" ~> client # "stopping"

(* What the user sees is a message stream that answers every question. *)
Phase ==
  IF client \in {"none", "stopping", "stopped", "closed"} THEN "closed"
  ELSE CASE outcome \in {"error", "rejected"} -> "failed"
         [] outcome = "done" -> "ended"
         [] OTHER -> "open"

Wanting == topics /\ Phase # "closed"

Stream == INSTANCE MessageStream WITH
  Wants <- {{}, 1..Len(Source)},
  wanted <- IF Wanting THEN 1..Len(Source) ELSE {},
  first <- IF Wanting THEN first ELSE Len(Source) + 1,
  at <- IF Wanting THEN last + 1 ELSE Len(Source) + 1,
  phase <- Phase,
  waiting <- (client = "next")

ImplementsStream == Stream!Spec

=============================================================================
