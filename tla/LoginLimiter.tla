---------------------------- MODULE LoginLimiter ----------------------------
(***************************************************************************)
(* internal/api/middlewares/login_rate_limit.go, for one client address: a *)
(* count of the attempts in a window, kept in a Redis key that expires     *)
(* with the window.  INCR creates the key and a call of its own gives it   *)
(* its TTL, which leaves a gap for others to run in and for errors.        *)
(*                                                                         *)
(* Time passes in ticks, without bound; TTLs count down.  Whether the      *)
(* count is one and whether it is above Max is all that is ever asked of   *)
(* it, so it stops at Max + 1.                                             *)
(***************************************************************************)
EXTENDS Naturals, FiniteSets

CONSTANTS
  Requests,  \* slots for logins between INCR and EXPIRE
  Max,       \* LOGIN_MAX_ATTEMPTS, at least 1
  Win,       \* LOGIN_WINDOW, in ticks, at least 1
  Faults     \* calls of Redis may fail, replies may be lost

VARIABLES
  count,    \* the value of rl:login:<ip>, 0 when there is no such key
  ttl,      \* its time to live, 0 when it has none
  setting,  \* requests about to call EXPIRE
  recent    \* history: attempts counted and let through in the last Win ticks

vars == <<count, ttl, setting, recent>>

(* An attempt has an age in ticks and is the nth of its key: those of one   *)
(* tick are told apart by that, a key going only when time passes.          *)
Ages == 0 .. Win - 1
Now(n) == [age |-> 0, nth |-> n]

Init ==
  /\ count = 0 /\ ttl = 0
  /\ setting = {}
  /\ recent = {}

(* INCR keeps the TTL there is. *)
Incremented == IF count > Max THEN count ELSE count + 1

(* Mutant: every attempt sets the TTL. *)
Counted_EveryAttempt(r, n) ==
  /\ setting' = setting \cup {r}
  /\ recent' = IF n > Max THEN recent ELSE recent \cup {Now(n)}

(* What follows the answer n: the first gives the key its TTL, and          *)
(* everything up to Max is let through.                                     *)
Counted(r, n) ==
  /\ setting' = IF n = 1 THEN setting \cup {r} ELSE setting
  /\ recent' = IF n > Max THEN recent ELSE recent \cup {Now(n)}

Incr(r) ==
  /\ r \notin setting
  /\ count' = Incremented
  /\ Counted(r, Incremented)
  /\ UNCHANGED ttl

(* INCR ran but its answer is lost: the attempt is let through uncounted,   *)
(* and nobody sets the TTL.                                                 *)
IncrLost ==
  /\ Faults
  /\ count' = Incremented
  /\ UNCHANGED <<ttl, setting, recent>>

(* Mutant: a TTL in the wrong unit. *)
Expire_WrongUnit(r) ==
  /\ r \in setting
  /\ ttl' = 1
  /\ setting' = setting \ {r}
  /\ UNCHANGED <<count, recent>>

Expire(r) ==
  /\ r \in setting
  /\ ttl' = Win
  /\ setting' = setting \ {r}
  /\ UNCHANGED <<count, recent>>

(* Its error is ignored; or the process ends before the call. *)
ExpireFails(r) ==
  /\ Faults
  /\ r \in setting
  /\ setting' = setting \ {r}
  /\ UNCHANGED <<count, ttl, recent>>

Tick ==
  /\ ttl' = IF ttl = 0 THEN 0 ELSE ttl - 1
  /\ count' = IF ttl = 1 THEN 0 ELSE count
  /\ recent' = {[e EXCEPT !.age = @ + 1] : e \in {x \in recent : x.age + 1 \in Ages}}
  /\ UNCHANGED setting

Next ==
  \/ \E r \in Requests : Incr(r) \/ Expire(r) \/ ExpireFails(r)
  \/ IncrLost
  \/ Tick

Spec == Init /\ [][Next]_vars

(* Time passes. *)
FairSpec == Spec /\ WF_vars(Tick)

-----------------------------------------------------------------------------
(* Types; a TTL belongs to a key, and at most one request is to set it.     *)
TypeOK ==
  /\ count \in 0 .. Max + 1 /\ ttl \in 0 .. Win
  /\ setting \subseteq Requests
  /\ recent \subseteq [age : Ages, nth : 1 .. Max]
  /\ count = 0 => ttl = 0
  /\ \A r, s \in setting : r = s

(* A window begins with the first attempt, wherever that falls, so a        *)
(* stretch of Win ticks touches two of them, the first without its first    *)
(* attempt: never more than that goes through.                              *)
WindowBound == Cardinality(recent) <= 2 * Max - 1

(* "10 attempts per 5 minutes": who has used them up may log in again when  *)
(* time has passed, however often they try meanwhile.  That takes a key     *)
(* with a TTL: one left without, by an EXPIRE that failed or was never      *)
(* called, shuts the address out for good.                                  *)
Reopens == (count >= Max /\ ttl > 0) ~> count < Max
=============================================================================
