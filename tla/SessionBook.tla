---------------------------- MODULE SessionBook ----------------------------
(***************************************************************************)
(* What the session protocol promises, with no versions, no Redis and no   *)
(* requests: a book in which each refresh token is signed on to its user   *)
(* at most once, may be struck out, and is never signed on again; and in   *)
(* which all the tokens of one user, and no token of another, can be       *)
(* struck out in one step.                                                 *)
(***************************************************************************)
CONSTANTS Users, Tokens, None

VARIABLES
  used,   \* the tokens that have ever been handed out
  holder  \* the user a working token signs in, None when it does not work

vars == <<used, holder>>

Live == {t \in Tokens : holder[t] # None}

Init ==
  /\ used = {}
  /\ holder = [t \in Tokens |-> None]

(* A sign-in, or the successor of a rotated token. *)
Open(t, u) ==
  /\ t \notin used
  /\ used' = used \cup {t}
  /\ holder' = [holder EXCEPT ![t] = u]

(* A token handed out too late: its sessions were ended meanwhile. *)
OpenDead(t) ==
  /\ t \notin used
  /\ used' = used \cup {t}
  /\ UNCHANGED holder

(* Rotation, logout, expiry. *)
Close(t) ==
  /\ holder[t] # None
  /\ holder' = [holder EXCEPT ![t] = None]
  /\ UNCHANGED used

(* Logout of all the user's sessions, at once. *)
CloseAll(u) ==
  /\ holder' = [t \in Tokens |-> IF holder[t] = u THEN None ELSE holder[t]]
  /\ UNCHANGED used

Next ==
  \/ \E t \in Tokens, u \in Users : Open(t, u)
  \/ \E t \in Tokens : OpenDead(t) \/ Close(t)
  \/ \E u \in Users : CloseAll(u)

Spec == Init /\ [][Next]_vars
=============================================================================
