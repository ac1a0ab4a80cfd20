--------------------------- MODULE MessageStream ---------------------------
(***************************************************************************)
(* What a message iterator promises its user (IIterableSource.ts, the      *)
(* documentation of messageIterator): opened at a time for some of the     *)
(* results, it yields those from that time on, in the source's order, each *)
(* once (a stamp, which only says how far the source has been read, may be *)
(* yielded again), and it ends only when there is nothing left.            *)
(*                                                                         *)
(* The promise has no buffer, no producer and no signals in it.            *)
(***************************************************************************)
EXTENDS Naturals, Sequences

CONSTANTS
  Source,   \* the results of the source, in the order it yields them
  Starts,   \* the times an iterator may be opened at
  Wants     \* the sets of results (indexes) an iterator may be opened for

VARIABLES
  wanted,   \* the results this iterator is for
  first,    \* the first of them, Len(Source) + 1 if there is none
  at,       \* the next of them
  phase,    \* "closed", "open", "ended" or "failed"
  waiting   \* is the user waiting for an answer

vars == <<wanted, first, at, phase, waiting>>

(* The first member of W from index i on, or past the last index. *)
Following(W, i) ==
  LET later == {j \in W \cup {Len(Source) + 1} : j >= i}
  IN CHOOSE j \in later : \A k \in later : j <= k

(* The results before index i, and no others, are earlier than t. *)
StartsAt(i, t) == \A j \in 1..Len(Source) : (j < i) = (Source[j].time < t)

Init ==
  /\ wanted = {}
  /\ first = Len(Source) + 1
  /\ at = Len(Source) + 1
  /\ phase = "closed"
  /\ waiting = FALSE

Open(t, W) ==
  /\ phase = "closed"
  /\ wanted' = W
  /\ \E i \in 1..(Len(Source) + 1) : StartsAt(i, t) /\ first' = Following(W, i)
  /\ at' = first'
  /\ phase' = "open"
  /\ UNCHANGED waiting

Ask ==
  /\ phase = "open"
  /\ ~waiting
  /\ waiting' = TRUE
  /\ UNCHANGED <<wanted, first, at, phase>>

(* An answer may come in the step of the question. *)
Yield ==
  /\ phase = "open"
  /\ at <= Len(Source)
  /\ at' = Following(wanted, at + 1)
  /\ waiting' = FALSE
  /\ UNCHANGED <<wanted, first, phase>>

RepeatStamp ==
  /\ phase = "open"
  /\ at > first
  /\ Source[at - 1].type = "stamp"
  /\ waiting' = FALSE
  /\ UNCHANGED <<wanted, first, at, phase>>

Finish ==
  /\ phase = "open"
  /\ at > Len(Source)
  /\ phase' = "ended"
  /\ waiting' = FALSE
  /\ UNCHANGED <<wanted, first, at>>

(* Reading the source may fail, even when nobody waits for a result. *)
Fail ==
  /\ phase = "open"
  /\ phase' = "failed"
  /\ waiting' = FALSE
  /\ UNCHANGED <<wanted, first, at>>

Close ==
  /\ phase # "closed"
  /\ ~waiting
  /\ wanted' = {}
  /\ first' = Len(Source) + 1
  /\ at' = Len(Source) + 1
  /\ phase' = "closed"
  /\ UNCHANGED waiting

Answer == Yield \/ RepeatStamp \/ Finish \/ Fail

Next ==
  \/ \E t \in Starts, W \in Wants : Open(t, W)
  \/ Ask
  \/ Answer
  \/ Close

Promise == Init /\ [][Next]_vars

(* Every question is answered. *)
Spec == Promise /\ WF_vars(waiting /\ Answer)

============================================================================
