-------------------------- MODULE MCCachingSource --------------------------
EXTENDS CachingSource

Result(type, time, topic, size) ==
  [type |-> type, time |-> time, topic |-> topic, size |-> size]
Message(time, topic) == Result("message-event", time, topic, 1)

(* Two topics, messages at the start, at one time around a problem and at   *)
(* the end, and a stamp.  With room for three units, evicting what the      *)
(* iterator does not need makes way for some results and throws at others.  *)
MCSource ==
  << Message(0, "a"), Message(2, "b"), Result("problem", 2, "", 0),
     Message(2, "a"), Result("stamp", 3, "", 0), Message(4, "b") >>

=============================================================================
