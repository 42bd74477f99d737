------------------------------- MODULE MCChat -------------------------------
EXTENDS Chat, TLC

MessageSymmetry == Permutations(Users)

X == [name |-> "x", suffixes |-> <<>>]

(* Models call two tools, the first by an id "x_2" of their own choice, and *)
(* one more in the next round, by the id they used before.                 *)
TwoThenOne == [n \in Nat |-> IF n = 0 THEN {<<[X EXCEPT !.suffixes = <<2>>], X>>} ELSE {<<X>>}]

(* One call a round, always by the same id. *)
OneByOne == [n \in Nat |-> {<<X>>}]
=============================================================================
