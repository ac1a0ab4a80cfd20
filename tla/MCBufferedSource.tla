-------------------------- MODULE MCBufferedSource --------------------------
EXTENDS BufferedSource

Result(type, time) == [type |-> type, time |-> time]

(* Messages inside and beyond the read-ahead, two at one time, a stamp that *)
(* is beyond it when the first results wait in the cache, a problem.        *)
MCSource ==
  << Result("message-event", 0), Result("message-event", 1),
     Result("stamp", 3), Result("message-event", 3),
     Result("problem", 3), Result("message-event", 4),
     Result("stamp", 9), Result("message-event", 9) >>

MCStarts == {0, 2, 4, 10}

=============================================================================
