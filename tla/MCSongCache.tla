----------------------------- MODULE MCSongCache -----------------------------
EXTENDS SongCache

(* A song to a query. *)
Distinct == [q \in Queries |-> q]

(* Two of the queries, the smallest numbers, find one song. *)
Twins == [q \in Queries |-> IF q = 1 THEN 2 ELSE q]
=============================================================================
