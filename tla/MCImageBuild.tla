---------------------------- MODULE MCImageBuild ----------------------------
(* Instances of ImageBuild for TLC.                                        *)
EXTENDS ImageBuild, TLC

Symmetry == Permutations(Builders) \cup Permutations(Attempts)
=============================================================================
