----------------------------- MODULE MCRotation -----------------------------
(* The rotation alone, under users that may call any method in any order   *)
(* and report any latency for an entry they got at any earlier time.       *)
EXTENDS Rotation, TLC

UserSymmetry == Permutations(Users)
=============================================================================
