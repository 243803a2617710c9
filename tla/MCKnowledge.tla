---------------------------- MODULE MCKnowledge ----------------------------
(* Instances of Knowledge for TLC. *)
EXTENDS Knowledge, TLC

CONSTANTS j1, j2, j3, p1, p2

Three == {j1, j2, j3}
Two   == {p1, p2}
Interchangeable == Permutations(Job) \cup Permutations(Part)

=============================================================================
