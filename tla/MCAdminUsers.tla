---------------------------- MODULE MCAdminUsers ----------------------------
(* Instances of AdminUsers for TLC. *)
EXTENDS AdminUsers, TLC

MCSymmetry == Permutations(Users) \cup Permutations(Requests)
=============================================================================
