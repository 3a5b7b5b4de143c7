---------------------------- MODULE MCBookFiles ----------------------------
(* Instances of BookFiles for TLC. *)
EXTENDS BookFiles, TLC

MCSymmetry == Permutations(Requests)
=============================================================================
