--------------------------- MODULE MCBlockLoader ---------------------------
EXTENDS BlockLoader

(* Three blocks; "x" has more messages than "y", none in the second block. *)
MCSizes == [x |-> <<2, 0, 1>>, y |-> <<1, 1, 1>>]

(* Topics come and go, and the subscription to "x" changes. *)
MCSelections ==
  {{}, {<<"x", 1>>}, {<<"y", 1>>}, {<<"x", 1>>, <<"y", 1>>},
   {<<"x", 2>>}, {<<"x", 2>>, <<"y", 1>>}}

=============================================================================
