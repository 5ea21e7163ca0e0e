------------------------------- MODULE MCStack -------------------------------
(* Stack for TLC: three levels, the two lower ones shuffled, and a number   *)
(* of each of two types, one with a small block and one with a large one.   *)
EXTENDS Stack

MCNumbers == {[type |-> "short", value |-> 0], [type |-> "real", value |-> 0]}

=============================================================================
