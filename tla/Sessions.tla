------------------------------ MODULE Sessions ------------------------------
(***************************************************************************)
(* The session protocol of internal/auth: who may call the API, and for    *)
(* how long.  Three stores take part and no transaction spans two of them: *)
(*   - the users table (Postgres), one row per account;                    *)
(*   - Redis, where "rt:<token>" holds "<user>|<version>" for a refresh    *)
(*     token;                                                              *)
(*   - the clients, who keep signed access tokens the server cannot recall.*)
(* A token is worth something only while the version it was stamped with   *)
(* is the token_version of its user.                                       *)
(*                                                                         *)
(* A handler runs in a request slot, one step per call to a store; between *)
(* two of its steps any other handler may run.                             *)
(***************************************************************************)
EXTENDS Naturals, FiniteSets

CONSTANTS
  Users,       \* accounts, by user id (an email names one account)
  Tokens,      \* the refresh tokens randToken can draw
  Passwords,
  Requests,    \* slots for requests in progress
  MaxVersion,  \* bound of the model: token_version is not bumped beyond it
  Faults,      \* the ignored errors that may occur: subset of {"del", "rehash"}
  None

(* What a token carries: NewAccessClaims, and the value under "rt:<token>". *)
Claims == [user : Users, tv : Nat]

ASSUME NoneAssumption ==
  /\ None \notin Users
  /\ None \notin Tokens
  /\ None \notin Passwords
  /\ None \notin Nat \cup Claims

ASSUME FaultsAssumption == Faults \subseteq {"del", "rehash"}

VARIABLES
  passwordHash,  \* users.password_hash, by the password it verifies; None: no row
  weakHash,      \* the stored hash is below the current argon2id policy
  tokenVersion,  \* users.token_version; None is SQL NULL
  refresh,       \* Redis: token -> claims, None when the key is absent
  drawn,         \* tokens randToken has returned (it never repeats itself)
  access,        \* claims of the unexpired access tokens clients hold
  req,           \* what each request in progress has read so far
  line,          \* history: of each token drawn, the sign-in it descends from,
                 \* by the token that was issued then
  unspent        \* history: the lines in which a DEL of Refresh removed nothing

vars == <<passwordHash, weakHash, tokenVersion, refresh, drawn, access, req,
          line, unspent>>

accountVars == <<passwordHash, weakHash, tokenVersion>>
histories   == <<line, unspent>>
tokenVars   == <<refresh, drawn, access, histories>>

(* COALESCE(token_version, 1) *)
Version(u) == IF tokenVersion[u] = None THEN 1 ELSE tokenVersion[u]

(* The two tests a token must pass: RequireAuth's, and Refresh's. *)
Accepted(c) == c.tv = Version(c.user)
LiveRefresh(t) == refresh[t] # None /\ Accepted(refresh[t])

Idle == [pc |-> "idle", user |-> None, tv |-> 0, token |-> None,
         password |-> None]

PCs == {"idle", "rehash", "check", "rotate", "issue",
        "logoutAll", "changeRead", "changeWrite"}

RequestStates == [pc : PCs, user : Users \cup {None}, tv : Nat,
                  token : Tokens \cup {None}, password : Passwords \cup {None}]

Finish(r) == req' = [req EXCEPT ![r] = Idle]

Init ==
  /\ passwordHash = [u \in Users |-> None]
  /\ weakHash     = [u \in Users |-> FALSE]
  /\ tokenVersion = [u \in Users |-> None]
  /\ refresh      = [t \in Tokens |-> None]
  /\ drawn        = {}
  /\ access       = {}
  /\ req          = [r \in Requests |-> Idle]
  /\ line         = [t \in Tokens |-> None]
  /\ unspent      = {}

-----------------------------------------------------------------------------
(* Register: CreateUser inserts the row.  token_version is left to the      *)
(* column's default, and RETURNING reads it back through COALESCE.          *)
Register(r, u, p) ==
  /\ req[r].pc = "idle"
  /\ passwordHash[u] = None
  /\ passwordHash' = [passwordHash EXCEPT ![u] = p]
  /\ \E default \in {None, 1} :
        tokenVersion' = [tokenVersion EXCEPT ![u] = default]
  /\ req' = [req EXCEPT ![r] = [Idle EXCEPT !.pc = "issue", !.user = u, !.tv = 1]]
  /\ UNCHANGED <<weakHash, tokenVars>>

(* Login: FindUserByEmail, then Verify.  A wrong password is answered 401   *)
(* and changes nothing, so only the right one is modelled.                  *)
LoginRead(r, u) ==
  /\ req[r].pc = "idle"
  /\ passwordHash[u] # None
  /\ req' = [req EXCEPT ![r] =
               [Idle EXCEPT !.pc = IF weakHash[u] THEN "rehash" ELSE "issue",
                            !.user = u, !.tv = Version(u),
                            !.password = passwordHash[u]]]
  /\ UNCHANGED <<accountVars, tokenVars>>

(* Mutant: the row read at the start is written back whole. *)
LoginRehash_WholeRow(r) ==
  /\ req[r].pc = "rehash"
  /\ passwordHash' = [passwordHash EXCEPT ![req[r].user] = req[r].password]
  /\ weakHash' = [weakHash EXCEPT ![req[r].user] = FALSE]
  /\ tokenVersion' = [tokenVersion EXCEPT ![req[r].user] = req[r].tv]
  /\ req' = [req EXCEPT ![r].pc = "issue"]
  /\ UNCHANGED tokenVars

(* Login, needsRehash: the password just verified is hashed again under the *)
(* current policy and written back; an error is ignored.                    *)
LoginRehash(r) ==
  /\ req[r].pc = "rehash"
  /\ \/ /\ passwordHash' = [passwordHash EXCEPT ![req[r].user] = req[r].password]
        /\ weakHash' = [weakHash EXCEPT ![req[r].user] = FALSE]
     \/ "rehash" \in Faults /\ UNCHANGED <<passwordHash, weakHash>>
  /\ req' = [req EXCEPT ![r].pc = "issue"]
  /\ UNCHANGED <<tokenVersion, tokenVars>>

(* Mutant: a refresh writes the same token back instead of drawing one. *)
Issue_SameToken(r, t) ==
  /\ req[r].pc = "issue"
  /\ IF req[r].token = None THEN t \notin drawn ELSE t = req[r].token
  /\ refresh' = [refresh EXCEPT ![t] = [user |-> req[r].user, tv |-> req[r].tv]]
  /\ access' = access \cup {[user |-> req[r].user, tv |-> req[r].tv]}
  /\ drawn' = drawn \cup {t}
  /\ line' = IF req[r].token = None THEN [line EXCEPT ![t] = t] ELSE line
  /\ Finish(r)
  /\ UNCHANGED <<accountVars, unspent>>

(* The end of Register, Login, Refresh and ChangePassword: issueRefresh and *)
(* SignAccess stamp both tokens with the version the request holds, and the *)
(* client gets them.                                                        *)
Issue(r, t) ==
  /\ req[r].pc = "issue"
  /\ t \notin drawn
  /\ LET claims == [user |-> req[r].user, tv |-> req[r].tv]
     IN  /\ refresh' = [refresh EXCEPT ![t] = claims]
         /\ access' = access \cup {claims}
  /\ drawn' = drawn \cup {t}
  /\ line' = [line EXCEPT ![t] = IF req[r].token = None THEN t ELSE line[req[r].token]]
  /\ Finish(r)
  /\ UNCHANGED <<accountVars, unspent>>

(* Refresh: GET rt:<token>. *)
RefreshGet(r, t) ==
  /\ req[r].pc = "idle"
  /\ refresh[t] # None
  /\ req' = [req EXCEPT ![r] = [Idle EXCEPT !.pc = "check", !.token = t,
                                  !.user = refresh[t].user, !.tv = refresh[t].tv]]
  /\ UNCHANGED <<accountVars, tokenVars>>

(* Mutant: the token is not removed. *)
RefreshCheck_NoDel(r) ==
  /\ req[r].pc = "check"
  /\ IF Version(req[r].user) = req[r].tv
     THEN req' = [req EXCEPT ![r].pc = "issue"]
     ELSE Finish(r)
  /\ UNCHANGED <<accountVars, tokenVars>>

(* Refresh: the version stored with the token must be the user's. *)
RefreshCheck(r) ==
  /\ req[r].pc = "check"
  /\ IF Version(req[r].user) = req[r].tv
     THEN req' = [req EXCEPT ![r].pc = "rotate"]
     ELSE Finish(r)
  /\ UNCHANGED <<accountVars, tokenVars>>

(* DEL rt:<token>, its error ignored: when it fails the key may remain. *)
Del(t) ==
  \/ refresh' = [refresh EXCEPT ![t] = None]
  \/ "del" \in Faults /\ refresh' = refresh

(* Refresh: the token is removed before its successor is issued.  Whether   *)
(* there was anything to remove is not looked at.                           *)
RefreshDel(r) ==
  /\ req[r].pc = "rotate"
  /\ Del(req[r].token)
  /\ unspent' = IF refresh' = refresh THEN unspent \cup {line[req[r].token]} ELSE unspent
  /\ req' = [req EXCEPT ![r].pc = "issue"]
  /\ UNCHANGED <<accountVars, drawn, access, line>>

(* Logout is a single DEL, and needs no access token. *)
Logout(r, t) ==
  /\ req[r].pc = "idle"
  /\ t \in drawn
  /\ Del(t)
  /\ UNCHANGED <<accountVars, drawn, access, req, histories>>

-----------------------------------------------------------------------------
(* RequireAuth, before LogoutAll or ChangePassword: the version is compared *)
(* here and not again.                                                      *)
RequireAuth(r, c, handler) ==
  /\ req[r].pc = "idle"
  /\ c \in access
  /\ passwordHash[c.user] # None
  /\ Accepted(c)
  /\ req' = [req EXCEPT ![r] = [Idle EXCEPT !.pc = handler, !.user = c.user]]
  /\ UNCHANGED <<accountVars, tokenVars>>

(* Mutants: no COALESCE, so that NULL + 1 is NULL; NULL counted as 0.       *)
BumpVersion_NoCoalesce(u) ==
  /\ Version(u) < MaxVersion
  /\ tokenVersion' = [tokenVersion EXCEPT ![u] = IF @ = None THEN None ELSE @ + 1]

BumpVersion_NullIsZero(u) ==
  /\ Version(u) < MaxVersion
  /\ tokenVersion' = [tokenVersion EXCEPT ![u] = IF @ = None THEN 1 ELSE @ + 1]

(* UPDATE ... SET token_version = COALESCE(token_version, 1) + 1. *)
BumpVersion(u) ==
  /\ Version(u) < MaxVersion
  /\ tokenVersion' = [tokenVersion EXCEPT ![u] = Version(u) + 1]

LogoutAll(r) ==
  /\ req[r].pc = "logoutAll"
  /\ BumpVersion(req[r].user)
  /\ Finish(r)
  /\ UNCHANGED <<passwordHash, weakHash, tokenVars>>

(* An administrator's logout-all: one UPDATE of another user's row. *)
AdminLogoutAll(r, u) ==
  /\ req[r].pc = "idle"
  /\ passwordHash[u] # None
  /\ BumpVersion(u)
  /\ UNCHANGED <<passwordHash, weakHash, tokenVars, req>>

(* ChangePassword reads hash and version and verifies the old password. *)
ChangePasswordRead(r) ==
  /\ req[r].pc = "changeRead"
  /\ req' = [req EXCEPT ![r] =
               [@ EXCEPT !.pc = "changeWrite", !.tv = Version(req[r].user)]]
  /\ UNCHANGED <<accountVars, tokenVars>>

(* ... and writes: the UPDATE adds one to the version in the row, the tokens *)
(* to come are stamped with one more than the version read.                  *)
ChangePasswordWrite(r, p) ==
  /\ req[r].pc = "changeWrite"
  /\ passwordHash' = [passwordHash EXCEPT ![req[r].user] = p]
  /\ weakHash' = [weakHash EXCEPT ![req[r].user] = FALSE]
  /\ BumpVersion(req[r].user)
  /\ req' = [req EXCEPT ![r] =
               [@ EXCEPT !.pc = "issue", !.tv = req[r].tv + 1]]
  /\ UNCHANGED tokenVars

-----------------------------------------------------------------------------
(* A handler that meets an error, or whose client went away, returns; what  *)
(* it has written stays written.                                            *)
Abandon(r) ==
  /\ req[r].pc # "idle"
  /\ Finish(r)
  /\ UNCHANGED <<accountVars, tokenVars>>

(* The server is restarted with a stronger argon2id policy: requests in     *)
(* progress are lost, stored hashes become weak, tokens survive.            *)
Redeploy ==
  /\ req' = [r \in Requests |-> Idle]
  /\ weakHash' = [u \in Users |-> passwordHash[u] # None]
  /\ UNCHANGED <<passwordHash, tokenVersion, tokenVars>>

(* Time to live: refreshTTL for the Redis key, DefaultAccessTTL for the JWT. *)
ExpireRefresh(t) ==
  /\ refresh[t] # None
  /\ refresh' = [refresh EXCEPT ![t] = None]
  /\ UNCHANGED <<accountVars, drawn, access, req, histories>>

ExpireAccess(c) ==
  /\ c \in access
  /\ access' = access \ {c}
  /\ UNCHANGED <<accountVars, refresh, drawn, req, histories>>

Next ==
  \/ \E r \in Requests :
       \/ \E u \in Users, p \in Passwords : Register(r, u, p)
       \/ \E u \in Users : LoginRead(r, u)
       \/ LoginRehash(r)
       \/ \E t \in Tokens : Issue(r, t)
       \/ \E t \in Tokens : RefreshGet(r, t)
       \/ RefreshCheck(r)
       \/ RefreshDel(r)
       \/ \E t \in Tokens : Logout(r, t)
       \/ \E c \in access, h \in {"logoutAll", "changeRead"} : RequireAuth(r, c, h)
       \/ LogoutAll(r)
       \/ \E u \in Users : AdminLogoutAll(r, u)
       \/ ChangePasswordRead(r)
       \/ \E p \in Passwords : ChangePasswordWrite(r, p)
       \/ Abandon(r)
  \/ Redeploy
  \/ \E t \in Tokens : ExpireRefresh(t)
  \/ \E c \in access : ExpireAccess(c)

Spec == Init /\ [][Next]_vars

-----------------------------------------------------------------------------
(* Types, and what each program point knows. *)
TypeOK ==
  /\ passwordHash \in [Users -> Passwords \cup {None}]
  /\ weakHash \in [Users -> BOOLEAN]
  /\ tokenVersion \in [Users -> Nat \cup {None}]
  /\ refresh \in [Tokens -> Claims \cup {None}]
  /\ drawn \in SUBSET Tokens
  /\ access \in SUBSET Claims
  /\ req \in [Requests -> RequestStates]
  /\ \A r \in Requests :
       /\ req[r].pc # "idle" => req[r].user \in Users
       /\ req[r].pc = "rehash" => req[r].password \in Passwords
       /\ req[r].pc \in {"check", "rotate"} => req[r].token \in Tokens
  /\ line \in [Tokens -> Tokens \cup {None}]
  /\ unspent \in SUBSET (Tokens \cup {None})

(* No token is stamped with a version its user has not reached, and no      *)
(* request is about to stamp one: ChangePassword computes the version       *)
(* itself (tv+1) from a row another request may have changed meanwhile.  A  *)
(* token ahead of its user would come alive at a later logout-all.          *)
NeverAhead ==
  /\ \A t \in Tokens : refresh[t] # None => refresh[t].tv <= Version(refresh[t].user)
  /\ \A c \in access : c.tv <= Version(c.user)
  /\ \A r \in Requests : req[r].pc # "idle" => req[r].tv <= Version(req[r].user)

(* A revoked access token is revoked for good: once RequireAuth refuses the *)
(* claims, no later step of any handler makes it accept them.               *)
RevocationFinal ==
  [][\A c \in access : ~Accepted(c) => ~Accepted(c)']_vars

(* A refresh token that stopped working (rotated, logged out, expired,      *)
(* revoked) never works again, though handlers that read it earlier are     *)
(* still under way.                                                         *)
SpentStaysSpent ==
  [][\A t \in drawn : ~LiveRefresh(t) => ~LiveRefresh(t)']_vars

SessionsEnded(u) ==
  /\ \A c \in access : c.user = u => ~Accepted(c)
  /\ \A t \in Tokens : (refresh[t] # None /\ refresh[t].user = u) => ~LiveRefresh(t)

Bumps(r, u) ==
  \/ AdminLogoutAll(r, u)
  \/ /\ req[r].user = u
     /\ LogoutAll(r) \/ \E p \in Passwords : ChangePasswordWrite(r, p)

(* "LogoutAll invalidates all user sessions": after LogoutAll, after its    *)
(* administrator's form and after ChangePassword, no access token and no    *)
(* refresh token of that user works, whatever other requests were doing.    *)
BumpEndsSessions ==
  [][\A r \in Requests, u \in Users :
       Bumps(r, u) => SessionsEnded(u)']_vars

(* What keeps a session alive: a token in Redis, or a refresh that has      *)
(* removed one and is about to issue its successor.                         *)
Heirs(l) ==
  {<<"token", t>> : t \in {t \in Tokens : refresh[t] # None /\ line[t] = l}}
  \cup
  {<<"request", r>> : r \in {r \in Requests : /\ req[r].pc = "issue"
                                             /\ req[r].token # None
                                             /\ line[req[r].token] = l}}

(* Rotation passes a session on and never splits it: of one sign-in there   *)
(* is one refresh token at a time, however many refreshes, logouts and      *)
(* logins overlap, until a DEL of Refresh fails, or finds nothing to remove *)
(* because another refresh with that token, a logout or its expiry was      *)
(* quicker.  Refresh ignores both, and issues a token all the same.         *)
RotationAddsNone ==
  \A l \in Tokens \ unspent : \A x, y \in Heirs(l) : x = y

-----------------------------------------------------------------------------
(* The session book this protocol keeps: a refresh token signs its user in  *)
(* while Redis holds it and its version is the user's.                      *)
Holder == [t \in Tokens |-> IF LiveRefresh(t) THEN refresh[t].user ELSE None]

Book == INSTANCE SessionBook WITH used <- drawn, holder <- Holder

(* Every step of every handler is a step of the book: a logout-all ends     *)
(* exactly the user's sessions, all at once, though it writes one integer   *)
(* in one row and touches no token.                                         *)
BookSpec == Book!Spec
=============================================================================
