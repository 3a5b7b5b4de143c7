---------------------------- MODULE Verification ----------------------------
(***************************************************************************)
(* Verification of an e-mail address (internal/auth/verify_handlers.go): a *)
(* logged-in user asks for a link, within a quota of three a day, and      *)
(* whoever presents its token verifies the user.  Users and their quotas   *)
(* are in different stores, the tokens in Redis under a TTL, and every     *)
(* call stands alone.                                                      *)
(*                                                                         *)
(* Time passes in ticks, without bound; TTLs count down and a key without  *)
(* time left is gone.  allowAction of internal/api/handlers/admin counts   *)
(* administrators' actions in the way the quota counts here.               *)
(***************************************************************************)
EXTENDS Naturals, FiniteSets

CONSTANTS
  Users,
  Tokens,    \* random tokens that may be drawn
  Requests,  \* slots for requests in progress
  Max,       \* evQuotaMax
  Win,       \* ticks in 24 hours, of the quota and of a token (evTTL)
  Null

ASSUME VerificationAssumption ==
  /\ Max \in Nat \ {0} /\ Win \in Nat \ {0}
  /\ Null \notin Users \cup Tokens

VARIABLES
  verifiedAt,  \* email_verified_at, told apart by the token that set it, or Null
  quota,       \* ev:quota:<user>: count and TTL
  token,       \* ev:<token>: user and TTL
  drawn,       \* tokens drawn so far
  req,         \* requests in progress
  recent       \* history: sends charged within the quota in the last Win ticks

linkVars == <<verifiedAt, quota, token, drawn, req, recent>>

(* A send has an age in ticks and is the nth of its window: those of one    *)
(* tick are told apart by that, a window ending only when time passes.      *)
Ages == 0 .. Win - 1
Now(n) == [age |-> 0, nth |-> n]

NoKey == [user |-> Null, ttl |-> 0]
Idle == [pc |-> "idle", user |-> Null, token |-> Null]

LinkInit ==
  /\ verifiedAt = [u \in Users |-> Null]
  /\ quota = [u \in Users |-> [count |-> 0, ttl |-> 0]]
  /\ token = [t \in Tokens |-> NoKey]
  /\ drawn = {}
  /\ req = [r \in Requests |-> Idle]
  /\ recent = [u \in Users |-> {}]

Become(r, q) == req' = [req EXCEPT ![r] = q]

-----------------------------------------------------------------------------
(* HandleSendVerification: nothing to do for a verified user. *)
CheckVerified(r, u) ==
  /\ req[r].pc = "idle"
  /\ verifiedAt[u] = Null
  /\ Become(r, [Idle EXCEPT !.pc = "quota", !.user = u])
  /\ UNCHANGED <<verifiedAt, quota, token, drawn, recent>>

(* The count, which no one looks at above Max + 1. *)
Incremented(u) == IF quota[u].count > Max THEN quota[u].count ELSE quota[u].count + 1

(* Mutant: only the first link starts the window. *)
Charge_FixedWindow(u) ==
  LET n == Incremented(u)
  IN  /\ quota' = [quota EXCEPT ![u] = [count |-> n, ttl |-> IF n = 1 THEN Win ELSE quota[u].ttl]]
      /\ recent' = IF n > Max THEN recent ELSE [recent EXCEPT ![u] = @ \cup {Now(n)}]

(* Mutant: EXPIRE forgotten. *)
Charge_NoExpire(u) ==
  LET n == Incremented(u)
  IN  /\ quota' = [quota EXCEPT ![u].count = n]
      /\ recent' = IF n > Max THEN recent ELSE [recent EXCEPT ![u] = @ \cup {Now(n)}]

(* INCR and EXPIRE in one transaction, whether within the quota or not: who *)
(* is refused and goes on asking keeps the count alive, and is refused      *)
(* again a day after the links were sent.                                   *)
Charge(u) ==
  LET n == Incremented(u)
  IN  /\ quota' = [quota EXCEPT ![u] = [count |-> n, ttl |-> Win]]
      /\ recent' = IF n > Max THEN recent ELSE [recent EXCEPT ![u] = @ \cup {Now(n)}]

(* The quota is charged; on to the link, unless it is used up or the answer *)
(* is lost.                                                                 *)
CountSend(r) ==
  LET u == req[r].user
  IN  /\ req[r].pc = "quota"
      /\ Charge(u)
      /\ \/ Incremented(u) <= Max /\ Become(r, [req[r] EXCEPT !.pc = "token"])
         \/ Become(r, Idle)
      /\ UNCHANGED <<verifiedAt, token, drawn>>

(* A new token, stored for the user and answered. *)
StoreToken(r, t) ==
  /\ req[r].pc = "token"
  /\ t \notin drawn
  /\ drawn' = drawn \cup {t}
  /\ token' = [token EXCEPT ![t] = [user |-> req[r].user, ttl |-> Win]]
  /\ Become(r, Idle)
  /\ UNCHANGED <<verifiedAt, quota, recent>>

-----------------------------------------------------------------------------
(* Mutant: the token goes first. *)
GetToken_Consumes(r, t) ==
  /\ req[r].pc = "idle"
  /\ token[t].ttl > 0
  /\ Become(r, [pc |-> "update", user |-> token[t].user, token |-> t])
  /\ token' = [token EXCEPT ![t] = NoKey]
  /\ UNCHANGED <<verifiedAt, quota, drawn, recent>>

(* HandleVerify: the token names the user. *)
GetToken(r, t) ==
  /\ req[r].pc = "idle"
  /\ token[t].ttl > 0
  /\ Become(r, [pc |-> "update", user |-> token[t].user, token |-> t])
  /\ UNCHANGED <<verifiedAt, quota, token, drawn, recent>>

(* Mutant: the UPDATE without "AND email_verified_at IS NULL". *)
MarkVerified_Always(r) ==
  LET q == req[r]
  IN  /\ q.pc = "update"
      /\ verifiedAt' = [verifiedAt EXCEPT ![q.user] = q.token]
      /\ Become(r, [q EXCEPT !.pc = "del"])
      /\ UNCHANGED <<quota, token, drawn, recent>>

(* The UPDATE, of a user not verified yet. *)
MarkVerified(r) ==
  LET q == req[r]
  IN  /\ q.pc = "update"
      /\ verifiedAt' = [verifiedAt EXCEPT ![q.user] = IF @ = Null THEN q.token ELSE @]
      /\ Become(r, [q EXCEPT !.pc = "del"])
      /\ UNCHANGED <<quota, token, drawn, recent>>

(* Best effort. *)
DelToken(r) ==
  /\ req[r].pc = "del"
  /\ \/ token' = [token EXCEPT ![req[r].token] = NoKey]
     \/ token' = token
  /\ Become(r, Idle)
  /\ UNCHANGED <<verifiedAt, quota, drawn, recent>>

(* An error, or the process ends. *)
Abandon(r) ==
  /\ req[r].pc \in {"quota", "token", "update"}
  /\ Become(r, Idle)
  /\ UNCHANGED <<verifiedAt, quota, token, drawn, recent>>

LinkTick ==
  /\ quota' = [u \in Users |->
                 IF quota[u].ttl <= 1 THEN [count |-> 0, ttl |-> 0]
                 ELSE [quota[u] EXCEPT !.ttl = @ - 1]]
  /\ token' = [t \in Tokens |->
                 IF token[t].ttl <= 1 THEN NoKey ELSE [token[t] EXCEPT !.ttl = @ - 1]]
  /\ recent' = [u \in Users |->
                  {[e EXCEPT !.age = @ + 1] : e \in {x \in recent[u] : x.age + 1 \in Ages}}]
  /\ UNCHANGED <<verifiedAt, drawn, req>>

LinkNext ==
  \/ \E r \in Requests :
       \/ \E u \in Users : CheckVerified(r, u)
       \/ CountSend(r)
       \/ \E t \in Tokens : StoreToken(r, t) \/ GetToken(r, t)
       \/ MarkVerified(r) \/ DelToken(r) \/ Abandon(r)
  \/ LinkTick

LinkSpec == LinkInit /\ [][LinkNext]_linkVars

-----------------------------------------------------------------------------
LinkTypeOK ==
  /\ verifiedAt \in [Users -> Tokens \cup {Null}]
  /\ quota \in [Users -> [count : 0 .. Max + 1, ttl : 0 .. Win]]
  /\ token \in [Tokens -> [user : Users \cup {Null}, ttl : 0 .. Win]]
  /\ drawn \subseteq Tokens
  /\ req \in [Requests -> [pc : {"idle", "quota", "token", "update", "del"},
                          user : Users \cup {Null}, token : Tokens \cup {Null}]]
  /\ recent \in [Users -> SUBSET [age : Ages, nth : 1 .. Max]]
  /\ \A r \in Requests : /\ req[r].pc # "idle" => req[r].user \in Users
                         /\ req[r].pc \in {"update", "del"} => req[r].token \in drawn
  /\ \A u \in Users : quota[u].count = 0 <=> quota[u].ttl = 0

(* "max 3/24h": whatever overlaps or fails, over any stretch of 24 hours a  *)
(* user is sent at most Max links.                                          *)
QuotaBound == \A u \in Users : Cardinality(recent[u]) <= Max

(* email_verified_at is the time of the first verification, whichever links *)
(* are followed at the same time or later.                                  *)
VerifiedOnce == [][\A u \in Users : verifiedAt[u] # Null => verifiedAt'[u] = verifiedAt[u]]_linkVars

(* A link that failed can be followed again: a token goes before its time   *)
(* only once its user is verified.                                          *)
LinkKeepsWorking ==
  [][\A t \in Tokens : token[t].ttl > 1 /\ token'[t].ttl = 0
       => verifiedAt[token[t].user] # Null]_linkVars
=============================================================================
