----------------------------- MODULE LoginRoute -----------------------------
(***************************************************************************)
(* POST /auth/login from one address, among lists of books: LoginLimiter   *)
(* in front of a handler that draws on ConnPool (router.go:52).  What the  *)
(* limiter lets through begins a statement, what it refuses does not touch *)
(* the pool, and an error of Redis lets through what it does not count.    *)
(* Each part has to keep its promises beside the other: attempts and time  *)
(* go on while a login waits for a connection.                             *)
(***************************************************************************)
EXTENDS ConnPool

CONSTANTS
  Logins,           \* those of Others that are logins of the address
  Max, Win, Faults  \* of LoginLimiter

ASSUME LoginRouteAssumption ==
  /\ Logins \subseteq Others
  /\ Max \in Nat \ {0} /\ Win \in Nat \ {0} /\ Faults \in BOOLEAN

VARIABLES
  count, ttl, setting, recent,  \* of LoginLimiter
  passed                        \* logins let through that have not begun

Limiter == INSTANCE LoginLimiter WITH Requests <- Logins

limiterVars == <<count, ttl, setting, recent>>
routeVars == <<vars, limiterVars, passed>>

RouteInit == Init /\ Limiter!Init /\ passed = {}

Absent(r) == r \notin passed \cup setting /\ at[r] = "idle"

(* The limiter counts an attempt and lets it through, up to Max. *)
Attempt(r) ==
  /\ Absent(r)
  /\ Limiter!Incr(r)
  /\ passed' = IF count' <= Max THEN passed \cup {r} ELSE passed
  /\ UNCHANGED vars

(* Redis fails, having counted or not: it is let through. *)
AttemptUncounted(r) ==
  /\ Absent(r)
  /\ Faults
  /\ Limiter!IncrLost \/ UNCHANGED limiterVars
  /\ passed' = passed \cup {r}
  /\ UNCHANGED vars

SetTTL(r) ==
  /\ Limiter!Expire(r) \/ Limiter!ExpireFails(r)
  /\ UNCHANGED <<vars, passed>>

(* The handler, once EXPIRE is answered. *)
Login(r) ==
  /\ r \in passed \ setting
  /\ Begin(r)
  /\ passed' = passed \ {r}
  /\ UNCHANGED limiterVars

Tick ==
  /\ Limiter!Tick
  /\ UNCHANGED <<vars, passed>>

Pool(r) ==
  /\ (Begin(r) /\ r \notin Logins) \/ Acquire(r) \/ Work(r) \/ Leave(r)
  /\ UNCHANGED <<limiterVars, passed>>

RouteNext ==
  \/ \E r \in Logins : Attempt(r) \/ AttemptUncounted(r) \/ SetTTL(r) \/ Login(r)
  \/ \E r \in Requests : Pool(r)
  \/ Tick

(* Time passes, and those of ConnPool!FairSpec. *)
RouteSpec ==
  /\ RouteInit /\ [][RouteNext]_routeVars
  /\ WF_routeVars(Tick)
  /\ \A r \in Requests :
       /\ WF_routeVars(Work(r) /\ UNCHANGED <<limiterVars, passed>>)
       /\ SF_routeVars(Acquire(r) /\ UNCHANGED <<limiterVars, passed>>)

-----------------------------------------------------------------------------
LimiterTypeOK == Limiter!TypeOK /\ passed \subseteq Logins

(* LoginLimiter's promises, of the logins that get to the handler.          *)
WindowBound == Limiter!WindowBound
Reopens == Limiter!Reopens
=============================================================================
