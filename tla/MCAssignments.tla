---------------------------- MODULE MCAssignments ----------------------------
(* Instances of Assignments for TLC. *)
EXTENDS Assignments, TLC

VramTwo == [j \in Jobs |-> 2]
FreeThree == {3}
FreeOneThree == {1, 3}
Sym == Permutations(Workers) \cup Permutations(Jobs) \cup Permutations(Assigns)
         \cup Permutations(Runtimes) \cup Permutations(Requests)
=============================================================================
