-------------------------- MODULE MCIterablePlayer --------------------------
EXTENDS IterablePlayer

Result(type, time) == [type |-> type, time |-> time]
Message(time) == Result("message-event", time)

(* One message in the initial read, two at one time, one at the end, a stamp *)
(* past a tick, and a problem.                                              *)
MCSource ==
  << Message(0), Result("problem", 1), Message(2), Message(2),
     Result("stamp", 3), Message(4) >>

=============================================================================
