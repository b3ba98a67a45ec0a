----------------------------- MODULE MCWorldLog -----------------------------
(* Instances of WorldLog for TLC. *)
EXTENDS WorldLog, TLC

Symmetry == Permutations(Version)
=============================================================================
