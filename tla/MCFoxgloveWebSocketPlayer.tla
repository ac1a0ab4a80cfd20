--------------------- MODULE MCFoxgloveWebSocketPlayer ---------------------
EXTENDS FoxgloveWebSocketPlayer

(* Two channels for one topic, one of another, one that cannot be parsed. *)
MCTopicOf == [a1 |-> "a", a2 |-> "a", b |-> "b", b0 |-> "b"]

=============================================================================
