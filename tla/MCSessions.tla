----------------------------- MODULE MCSessions -----------------------------
(* Instances of Sessions for TLC. *)
EXTENDS Sessions, TLC

MCSymmetry == Permutations(Tokens) \cup Permutations(Requests)
              \cup Permutations(Passwords)
=============================================================================
