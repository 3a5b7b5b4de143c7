---------------------------- MODULE TokenBucket ----------------------------
(***************************************************************************)
(* The token bucket of internal/api/middlewares/rate_limiter.go, for one   *)
(* client key (keys do not interact).  The Lua script runs atomically in   *)
(* Redis and keeps no level: it stores the tokens left by the last request *)
(* with the time of that request, works out the refill at the next one,    *)
(* and lets the key expire after the time a full refill takes.             *)
(*                                                                         *)
(* Amounts are counted in units: one drips in per tick of the clock and a  *)
(* token is Unit of them, so the script's rate is 1/Unit tokens per tick.  *)
(* The clock is Redis's wall clock, which may be set back.                 *)
(***************************************************************************)
EXTENDS Naturals

CONSTANTS
  Cap,          \* burst: tokens the bucket holds
  Unit,         \* ticks for one token
  MaxTicks,     \* bound of the model: ticks of the clock
  MaxRequests,  \* bound of the model: requests answered
  RedisFails,   \* the script may fail, or its answer may be lost
  None

ASSUME TokenBucketAssumption ==
  /\ Cap \in Nat \ {0} /\ Unit \in Nat \ {0}
  /\ RedisFails \in BOOLEAN
  /\ None \notin [tokens : Nat, ts : Nat, expires : Nat]

VARIABLES
  clock,    \* what TIME returns
  bucket,   \* the hash under the key with its expiry, or None
  granted,  \* requests the script allowed
  refused,  \* requests the script refused
  ticks     \* history: ticks of the clock so far, a stretch run twice counted twice

vars == <<clock, bucket, granted, refused, ticks>>

Full == Cap * Unit
Least(a, b) == IF a <= b THEN a ELSE b

Init ==
  /\ clock = 0 /\ bucket = None
  /\ granted = 0 /\ refused = 0 /\ ticks = 0

(* HMGET finds nothing: no key yet, or the key is past its expiry. *)
Absent == bucket = None \/ clock > bucket.expires

(* The tokens there are at this instant, the refill included. *)
Refilled ==
  IF Absent THEN Full
  ELSE IF clock > bucket.ts THEN Least(Full, bucket.tokens + (clock - bucket.ts))
       ELSE bucket.tokens

(* Mutants: the time of the first request is kept; the key      *)
(* expires as soon as one token has dripped in.                             *)
Store_KeepsTime(tokens) ==
  bucket' = [tokens |-> tokens, ts |-> IF Absent THEN clock ELSE bucket.ts,
             expires |-> (IF Absent THEN clock ELSE bucket.ts) + Full]

Store_ShortTTL(tokens) ==
  bucket' = [tokens |-> tokens, ts |-> clock, expires |-> clock + Unit]

(* HMSET and PEXPIRE, allowed or not. *)
Store(tokens) ==
  bucket' = [tokens |-> tokens, ts |-> clock, expires |-> clock + Full]

(* The script: a token is taken if there is a whole one. *)
Script ==
  IF Refilled >= Unit
  THEN /\ Store(Refilled - Unit)
       /\ granted' = granted + 1 /\ refused' = refused
  ELSE /\ Store(Refilled)
       /\ refused' = refused + 1 /\ granted' = granted

Request ==
  /\ granted + refused < MaxRequests
  /\ Script
  /\ UNCHANGED <<clock, ticks>>

(* An error of the call lets the request through; the script may have run.  *)
FailOpen ==
  /\ RedisFails
  /\ granted + refused < MaxRequests
  /\ Script \/ UNCHANGED <<bucket, granted, refused>>
  /\ UNCHANGED <<clock, ticks>>

(* Redis removes an expired key of its own accord. *)
Evict ==
  /\ bucket # None
  /\ clock > bucket.expires
  /\ bucket' = None
  /\ UNCHANGED <<clock, granted, refused, ticks>>

Tick ==
  /\ ticks < MaxTicks
  /\ clock' = clock + 1 /\ ticks' = ticks + 1
  /\ UNCHANGED <<bucket, granted, refused>>

SetBack ==
  /\ clock > 0
  /\ \E c \in 0 .. clock - 1 : clock' = c
  /\ UNCHANGED <<bucket, granted, refused, ticks>>

Next == Request \/ FailOpen \/ Evict \/ Tick \/ SetBack

Spec == Init /\ [][Next]_vars

-----------------------------------------------------------------------------
Buckets == [tokens : 0 .. Full, ts : Nat, expires : Nat]

(* Types; what is stored never exceeds the burst, and a stored bucket       *)
(* expires when it would be full again, not before.                         *)
TypeOK ==
  /\ clock \in Nat /\ ticks \in Nat
  /\ bucket \in Buckets \cup {None}
  /\ bucket # None => bucket.expires = bucket.ts + Full
  /\ granted \in Nat /\ refused \in Nat

(* The rate limit: over any stretch of time the script allows at most the   *)
(* burst plus what dripped in, whatever the pattern of requests, of key     *)
(* expiry, of lost answers and of clock changes.  A clock set back can run  *)
(* over the same minute twice and then counts it twice, no more.            *)
AdmissionBound == granted * Unit + Refilled <= Full + ticks

(* The lazy bucket is a bucket: remembering one number and one time and     *)
(* forgetting even those after a while answers every request, allowed or    *)
(* refused, as a level that fills tick by tick would.                       *)
Ideal == INSTANCE IdealBucket WITH level <- Refilled
IdealSpec == Ideal!Spec
=============================================================================
