---------------------------- MODULE MCDailyShorts ----------------------------
(* Instances of DailyShorts for TLC. *)
EXTENDS DailyShorts, TLC

MCSymmetry == Permutations(Calls)
=============================================================================
