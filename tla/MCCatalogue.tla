---------------------------- MODULE MCCatalogue ----------------------------
(* Instances of Catalogue for TLC. *)
EXTENDS Catalogue, TLC

MCSymmetry == Permutations(Names \ {Blank}) \cup Permutations(Requests) \cup Permutations(Texts)
MCRequestSymmetry == Permutations(Requests)
=============================================================================
