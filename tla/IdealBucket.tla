---------------------------- MODULE IdealBucket ----------------------------
(***************************************************************************)
(* The bucket a rate limiter is thought of: a level that fills by one unit *)
(* per tick up to its capacity, and requests that each take the units of   *)
(* one token, or are refused when there is not one token left.             *)
(***************************************************************************)
EXTENDS Naturals

CONSTANTS Cap, Unit

VARIABLES level, granted, refused

vars == <<level, granted, refused>>

Full == Cap * Unit

Init == level = Full /\ granted = 0 /\ refused = 0

Fill ==
  /\ level < Full
  /\ level' = level + 1
  /\ UNCHANGED <<granted, refused>>

(* The clock was set back: what had dripped in since may be lost. *)
Leak ==
  /\ level' \in 0 .. level
  /\ UNCHANGED <<granted, refused>>

Grant ==
  /\ level >= Unit
  /\ level' = level - Unit
  /\ granted' = granted + 1
  /\ UNCHANGED refused

Refuse ==
  /\ level < Unit
  /\ refused' = refused + 1
  /\ UNCHANGED <<level, granted>>

Next == Fill \/ Leak \/ Grant \/ Refuse

Spec == Init /\ [][Next]_vars
=============================================================================
