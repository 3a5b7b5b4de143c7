--------------------------- MODULE SessionsProofs ---------------------------
(* Theorems about Sessions, for any number of users, tokens and requests.   *)
EXTENDS Sessions, TLAPS

USE NoneAssumption

LEMMA InitTypeOK == Init => TypeOK
BY DEF Init, TypeOK, Idle, RequestStates, PCs

(* TypeOK is inductive: a request never reaches a program point without     *)
(* the values that point uses.                                              *)
LEMMA NextTypeOK == TypeOK /\ [Next]_vars => TypeOK'
<1> SUFFICES ASSUME TypeOK, [Next]_vars PROVE TypeOK'
  OBVIOUS
<1> USE DEF TypeOK, accountVars, tokenVars, histories
<1>1. ASSUME NEW r \in Requests, NEW u \in Users, NEW p \in Passwords,
             Register(r, u, p)
      PROVE  TypeOK'
  <2>1. /\ req' \in [Requests -> RequestStates]
        /\ \A q \in Requests : \/ req'[q] = req[q]
                               \/ req'[q].pc = "issue" /\ req'[q].user \in Users
    BY <1>1 DEF Register, Idle, RequestStates, PCs
  <2>2. passwordHash' \in [Users -> Passwords \cup {None}]
    BY <1>1 DEF Register
  <2>3. tokenVersion' \in [Users -> Nat \cup {None}]
    BY <1>1 DEF Register
  <2> QED
    BY <1>1, <2>1, <2>2, <2>3 DEF Register
<1>2. ASSUME NEW r \in Requests, NEW u \in Users, LoginRead(r, u)
      PROVE  TypeOK'
  BY <1>2 DEF LoginRead, Idle, RequestStates, PCs, Version
<1>3. ASSUME NEW r \in Requests, LoginRehash(r)
      PROVE  TypeOK'
  <2>1. /\ req' \in [Requests -> RequestStates]
        /\ \A q \in Requests : \/ req'[q] = req[q]
                               \/ req'[q].pc = "issue" /\ req'[q].user \in Users
    BY <1>3 DEF LoginRehash, RequestStates, PCs
  <2>2. /\ passwordHash' \in [Users -> Passwords \cup {None}]
        /\ weakHash' \in [Users -> BOOLEAN]
    BY <1>3 DEF LoginRehash
  <2> QED
    BY <1>3, <2>1, <2>2 DEF LoginRehash
<1>4. ASSUME NEW r \in Requests, NEW t \in Tokens, Issue(r, t)
      PROVE  TypeOK'
  <2>1. req[r].token \in Tokens \cup {None}
    BY DEF RequestStates
  <2>2. line' \in [Tokens -> Tokens \cup {None}]
    BY <1>4, <2>1 DEF Issue
  <2> QED
    BY <1>4, <2>2 DEF Issue, Finish, Idle, RequestStates, PCs, Claims
<1>5. ASSUME NEW r \in Requests, NEW t \in Tokens, RefreshGet(r, t)
      PROVE  TypeOK'
  BY <1>5 DEF RefreshGet, Idle, RequestStates, PCs, Claims
<1>6. ASSUME NEW r \in Requests, RefreshCheck(r)
      PROVE  TypeOK'
  BY <1>6 DEF RefreshCheck, Finish, Idle, RequestStates, PCs
<1>7. ASSUME NEW r \in Requests, RefreshDel(r)
      PROVE  TypeOK'
  BY <1>7 DEF RefreshDel, Del, RequestStates, PCs
<1>8. ASSUME NEW r \in Requests, NEW t \in Tokens, Logout(r, t)
      PROVE  TypeOK'
  BY <1>8 DEF Logout, Del
<1>9. ASSUME NEW r \in Requests, NEW c \in access,
             NEW h \in {"logoutAll", "changeRead"}, RequireAuth(r, c, h)
      PROVE  TypeOK'
  BY <1>9 DEF RequireAuth, Idle, RequestStates, PCs, Claims
<1>10. ASSUME NEW r \in Requests, LogoutAll(r)
       PROVE  TypeOK'
  BY <1>10 DEF LogoutAll, BumpVersion, Version, Finish, Idle, RequestStates, PCs
<1>11. ASSUME NEW r \in Requests, NEW u \in Users, AdminLogoutAll(r, u)
       PROVE  TypeOK'
  BY <1>11 DEF AdminLogoutAll, BumpVersion, Version
<1>12. ASSUME NEW r \in Requests, ChangePasswordRead(r)
       PROVE  TypeOK'
  <2> DEFINE new == [req[r] EXCEPT !.pc = "changeWrite", !.tv = Version(req[r].user)]
  <2>1. req[r] \in RequestStates /\ req[r].user \in Users
    BY <1>12 DEF ChangePasswordRead
  <2>2. Version(req[r].user) \in Nat
    BY <2>1 DEF Version
  <2>3. new \in RequestStates /\ new.pc = "changeWrite" /\ new.user \in Users
    BY <2>1, <2>2 DEF RequestStates, PCs
  <2>4. req' = [req EXCEPT ![r] = new]
    BY <1>12 DEF ChangePasswordRead
  <2> HIDE DEF new
  <2> QED
    BY <1>12, <2>3, <2>4 DEF ChangePasswordRead
<1>13. ASSUME NEW r \in Requests, NEW p \in Passwords, ChangePasswordWrite(r, p)
       PROVE  TypeOK'
  <2>1. /\ req' \in [Requests -> RequestStates]
        /\ \A q \in Requests : \/ req'[q] = req[q]
                               \/ req'[q].pc = "issue" /\ req'[q].user \in Users
    <3> DEFINE next == req[r].tv + 1
               new == [req[r] EXCEPT !.pc = "issue", !.tv = next]
    <3>1. req[r] \in RequestStates /\ req[r].user \in Users
      BY <1>13 DEF ChangePasswordWrite
    <3>2. next \in Nat
      BY <3>1 DEF RequestStates
    <3>3. new \in RequestStates /\ new.pc = "issue" /\ new.user \in Users
      <4> HIDE DEF next
      <4> QED BY <3>1, <3>2 DEF RequestStates, PCs
    <3>4. req' = [req EXCEPT ![r] = new]
      BY <1>13 DEF ChangePasswordWrite
    <3> HIDE DEF new
    <3> QED
      BY <3>3, <3>4
  <2>2. /\ passwordHash' \in [Users -> Passwords \cup {None}]
        /\ weakHash' \in [Users -> BOOLEAN]
    BY <1>13 DEF ChangePasswordWrite
  <2>3. tokenVersion' \in [Users -> Nat \cup {None}]
    BY <1>13 DEF ChangePasswordWrite, BumpVersion, Version
  <2> QED
    BY <1>13, <2>1, <2>2, <2>3 DEF ChangePasswordWrite
<1>14. ASSUME NEW r \in Requests, Abandon(r)
       PROVE  TypeOK'
  BY <1>14 DEF Abandon, Finish, Idle, RequestStates, PCs
<1>15. CASE Redeploy
  BY <1>15 DEF Redeploy, Idle, RequestStates, PCs
<1>16. ASSUME NEW t \in Tokens, ExpireRefresh(t)
       PROVE  TypeOK'
  BY <1>16 DEF ExpireRefresh
<1>17. ASSUME NEW c \in access, ExpireAccess(c)
       PROVE  TypeOK'
  BY <1>17 DEF ExpireAccess
<1>18. CASE UNCHANGED vars
  BY <1>18 DEF vars
<1> QED
  BY <1>1, <1>2, <1>3, <1>4, <1>5, <1>6, <1>7, <1>8, <1>9, <1>10, <1>11,
     <1>12, <1>13, <1>14, <1>15, <1>16, <1>17, <1>18 DEF Next

(* Spec keeps its types. *)
THEOREM TypeCorrect == Spec => []TypeOK
BY InitTypeOK, NextTypeOK, PTL DEF Spec

-----------------------------------------------------------------------------
(* What a step can do to versions and tokens. *)

Quiet == UNCHANGED <<tokenVersion, refresh, drawn, access>>
Bump(u) ==
  /\ tokenVersion' = [tokenVersion EXCEPT ![u] = Version(u) + 1]
  /\ UNCHANGED <<refresh, drawn, access>>
Insert(u) ==
  /\ passwordHash[u] = None
  /\ \E v \in {None, 1} : tokenVersion' = [tokenVersion EXCEPT ![u] = v]
  /\ UNCHANGED <<refresh, drawn, access>>
Drop(t) ==
  /\ refresh' = [refresh EXCEPT ![t] = None]
  /\ UNCHANGED <<tokenVersion, drawn, access>>
Forget == UNCHANGED <<tokenVersion, refresh, drawn>> /\ access' \subseteq access
HandOut(t, c) ==
  /\ t \notin drawn
  /\ drawn' = drawn \cup {t}
  /\ refresh' = [refresh EXCEPT ![t] = c]
  /\ access' = access \cup {c}
  /\ UNCHANGED tokenVersion

Effect ==
  \/ Quiet
  \/ Forget
  \/ \E u \in Users : Bump(u) \/ Insert(u)
  \/ \E t \in Tokens : Drop(t)
  \/ \E t \in Tokens, c \in Claims :
        HandOut(t, c) /\ \E r \in Requests : /\ req[r].pc = "issue"
                                            /\ c.user = req[r].user
                                            /\ c.tv = req[r].tv

(* Whatever the handler, a step does at most one of these things. *)
LEMMA StepEffect == TypeOK /\ [Next]_vars => Effect
<1> SUFFICES ASSUME TypeOK, [Next]_vars PROVE Effect
  OBVIOUS
<1> USE DEF accountVars, tokenVars, histories
<1>1. ASSUME NEW r \in Requests, NEW u \in Users, NEW p \in Passwords,
             Register(r, u, p)
      PROVE  Insert(u)
  BY <1>1 DEF Register, Insert
<1>2. ASSUME NEW r \in Requests, NEW t \in Tokens, Issue(r, t)
      PROVE  HandOut(t, [user |-> req[r].user, tv |-> req[r].tv])
  BY <1>2 DEF Issue, HandOut
<1>3. ASSUME NEW r \in Requests, NEW t \in Tokens, Issue(r, t)
      PROVE  /\ req[r].pc = "issue"
             /\ [user |-> req[r].user, tv |-> req[r].tv] \in Claims
  BY <1>3 DEF Issue, TypeOK, RequestStates, Claims
<1>4. ASSUME NEW r \in Requests, RefreshDel(r)
      PROVE  Effect
  <2>1. req[r].token \in Tokens
    BY <1>4 DEF RefreshDel, TypeOK
  <2> QED
    BY <1>4, <2>1 DEF RefreshDel, Del, Drop, Quiet, Effect
<1>5. ASSUME NEW r \in Requests, NEW t \in Tokens, Logout(r, t)
      PROVE  Drop(t) \/ Quiet
  BY <1>5 DEF Logout, Del, Drop, Quiet
<1>6. ASSUME NEW r \in Requests, LogoutAll(r) \/ \E p \in Passwords : ChangePasswordWrite(r, p)
      PROVE  req[r].user \in Users /\ Bump(req[r].user)
  BY <1>6 DEF LogoutAll, ChangePasswordWrite, BumpVersion, Bump, TypeOK
<1>7. ASSUME NEW r \in Requests, NEW u \in Users, AdminLogoutAll(r, u)
      PROVE  Bump(u)
  BY <1>7 DEF AdminLogoutAll, BumpVersion, Bump
<1>8. ASSUME NEW t \in Tokens, ExpireRefresh(t)
      PROVE  Drop(t)
  BY <1>8 DEF ExpireRefresh, Drop
<1>9. ASSUME NEW c \in access, ExpireAccess(c)
      PROVE  Forget
  BY <1>9 DEF ExpireAccess, Forget
<1>10. ASSUME NEW r \in Requests,
              \/ \E u \in Users : LoginRead(r, u)
              \/ LoginRehash(r)
              \/ \E t \in Tokens : RefreshGet(r, t)
              \/ RefreshCheck(r)
              \/ \E c \in access, h \in {"logoutAll", "changeRead"} : RequireAuth(r, c, h)
              \/ ChangePasswordRead(r)
              \/ Abandon(r)
       PROVE  Quiet
  BY <1>10 DEF LoginRead, LoginRehash, RefreshGet, RefreshCheck, RequireAuth,
               ChangePasswordRead, Abandon, Quiet
<1>11. CASE Redeploy \/ UNCHANGED vars
  BY <1>11 DEF Redeploy, vars, Quiet, Effect
<1>12. ASSUME NEW r \in Requests, NEW t \in Tokens, Issue(r, t)
       PROVE  Effect
  <2> DEFINE c == [user |-> req[r].user, tv |-> req[r].tv]
  <2>1. c.user = req[r].user /\ c.tv = req[r].tv
    OBVIOUS
  <2> HIDE DEF c
  <2> QED
    BY <1>2, <1>3, <1>12, <2>1 DEF Effect, c
<1> QED
  BY <1>1, <1>4, <1>5, <1>6, <1>7, <1>8, <1>9, <1>10, <1>11, <1>12
  DEF Next, Effect

-----------------------------------------------------------------------------
(* No version is written before the row it belongs to exists, no request    *)
(* is past RequireAuth for a user without a row, and Redis holds only       *)
(* tokens that were drawn for it.                                           *)
Provenance ==
  /\ \A u \in Users : passwordHash[u] = None => tokenVersion[u] = None
  /\ \A r \in Requests : req[r].pc \in {"logoutAll", "changeRead", "changeWrite"}
                          => passwordHash[req[r].user] # None
  /\ \A t \in Tokens : refresh[t] # None => t \in drawn

(* The inductive invariant.  Provenance is needed because Register writes   *)
(* token_version: were a row inserted over a version already bumped, tokens *)
(* stamped with that version would be ahead of the new row.                 *)
Inv == TypeOK /\ Provenance /\ NeverAhead

LEMMA InitInv == Init => Inv
BY InitTypeOK DEF Init, Inv, Provenance, NeverAhead, Idle

(* No row, no version. *)
LEMMA ProvenanceStep == Inv /\ [Next]_vars => Provenance'
<1> SUFFICES ASSUME Inv, [Next]_vars PROVE Provenance'
  OBVIOUS
<1> USE DEF Inv, Provenance, accountVars, tokenVars, histories
<1>1. TypeOK' /\ Effect
  BY NextTypeOK, StepEffect
<1>2. (\A t \in Tokens : refresh[t] # None => t \in drawn)'
  BY <1>1 DEF Effect, Quiet, Forget, Bump, Insert, Drop, HandOut, TypeOK
<1> DEFINE RowFirst  == \A u \in Users : passwordHash[u] = None => tokenVersion[u] = None
           PastGate  == \A r \in Requests :
                          req[r].pc \in {"logoutAll", "changeRead", "changeWrite"}
                            => passwordHash[req[r].user] # None
<1> SUFFICES RowFirst' /\ PastGate'
  BY <1>2
<1>3. ASSUME NEW r \in Requests, NEW u \in Users, NEW p \in Passwords,
             Register(r, u, p)
      PROVE  RowFirst' /\ PastGate'
  BY <1>3 DEF Register, Idle, TypeOK
<1>4. ASSUME NEW r \in Requests, LoginRehash(r)
      PROVE  RowFirst' /\ PastGate'
  <2>1. /\ req[r].password \in Passwords
        /\ req[r].user \in Users
    BY <1>4 DEF LoginRehash, TypeOK
  <2>2. \A u \in Users : passwordHash'[u] = None => passwordHash[u] = None
    BY <1>4, <2>1 DEF LoginRehash, TypeOK
  <2>3. \A q \in Requests : /\ req'[q].user = req[q].user
                            /\ req'[q].pc # "issue" => req'[q].pc = req[q].pc
    BY <1>4 DEF LoginRehash, TypeOK, RequestStates
  <2>4. \A q \in Requests : req[q].pc # "idle" => req[q].user \in Users
    BY DEF TypeOK
  <2> QED
    BY <1>4, <2>2, <2>3, <2>4 DEF LoginRehash
<1>5. ASSUME NEW r \in Requests, NEW p \in Passwords, ChangePasswordWrite(r, p)
      PROVE  RowFirst' /\ PastGate'
  <2>1. req[r].user \in Users /\ p # None
    BY <1>5 DEF ChangePasswordWrite, TypeOK
  <2>2. /\ \A u \in Users : passwordHash'[u] = None => passwordHash[u] = None
        /\ passwordHash'[req[r].user] # None
    BY <1>5, <2>1 DEF ChangePasswordWrite, TypeOK
  <2>3. \A u \in Users : u # req[r].user => tokenVersion'[u] = tokenVersion[u]
    BY <1>5 DEF ChangePasswordWrite, BumpVersion, TypeOK
  <2>4. \A q \in Requests : /\ req'[q].user = req[q].user
                            /\ req'[q].pc # "issue" => req'[q].pc = req[q].pc
    BY <1>5 DEF ChangePasswordWrite, TypeOK, RequestStates
  <2>5. \A q \in Requests : req[q].pc # "idle" => req[q].user \in Users
    BY DEF TypeOK
  <2>6. RowFirst'
    BY <2>2, <2>3
  <2>7. PastGate'
    BY <2>2, <2>4, <2>5
  <2> QED
    BY <2>6, <2>7
<1>6. ASSUME NEW r \in Requests, LogoutAll(r)
      PROVE  RowFirst' /\ PastGate'
  BY <1>6 DEF LogoutAll, BumpVersion, Finish, Idle, TypeOK
<1>7. ASSUME NEW r \in Requests, NEW u \in Users, AdminLogoutAll(r, u)
      PROVE  RowFirst' /\ PastGate'
  BY <1>7 DEF AdminLogoutAll, BumpVersion, TypeOK
<1>8. ASSUME NEW r \in Requests, NEW c \in access,
             NEW h \in {"logoutAll", "changeRead"}, RequireAuth(r, c, h)
      PROVE  RowFirst' /\ PastGate'
  BY <1>8 DEF RequireAuth, Idle, TypeOK
<1>9. ASSUME NEW r \in Requests, ChangePasswordRead(r)
      PROVE  RowFirst' /\ PastGate'
  BY <1>9 DEF ChangePasswordRead, TypeOK, RequestStates
<1>10. ASSUME NEW r \in Requests,
              \/ \E u \in Users : LoginRead(r, u)
              \/ \E t \in Tokens : Issue(r, t) \/ RefreshGet(r, t) \/ Logout(r, t)
              \/ RefreshCheck(r) \/ RefreshDel(r) \/ Abandon(r)
       PROVE  RowFirst' /\ PastGate'
  <2>1. UNCHANGED <<passwordHash, tokenVersion>>
    BY <1>10 DEF LoginRead, Issue, RefreshGet, Logout, RefreshCheck, RefreshDel,
                 Abandon
  <2>2. \A q \in Requests : \/ req'[q] = req[q]
                            \/ req'[q].pc \notin {"logoutAll", "changeRead", "changeWrite"}
    <3>1. CASE \E u \in Users : LoginRead(r, u)
      BY <3>1 DEF LoginRead, Idle, TypeOK
    <3>2. CASE \E t \in Tokens : Issue(r, t) \/ Logout(r, t)
      BY <3>2 DEF Issue, Logout, Finish, Idle, TypeOK
    <3>3. CASE \E t \in Tokens : RefreshGet(r, t)
      BY <3>3 DEF RefreshGet, Idle, TypeOK
    <3>4. CASE RefreshCheck(r) \/ RefreshDel(r)
      BY <3>4 DEF RefreshCheck, RefreshDel, Finish, Idle, TypeOK, RequestStates
    <3>5. CASE Abandon(r)
      BY <3>5 DEF Abandon, Finish, Idle, TypeOK
    <3> QED
      BY <1>10, <3>1, <3>2, <3>3, <3>4, <3>5
  <2> QED
    BY <2>1, <2>2
<1>11. CASE Redeploy
  BY <1>11 DEF Redeploy, Idle
<1>12. CASE \/ \E t \in Tokens : ExpireRefresh(t)
            \/ \E c \in access : ExpireAccess(c)
            \/ UNCHANGED vars
  BY <1>12 DEF ExpireRefresh, ExpireAccess, vars
<1> QED
  BY <1>3, <1>4, <1>5, <1>6, <1>7, <1>8, <1>9, <1>10, <1>11, <1>12 DEF Next

(* UPDATE ... SET token_version = COALESCE(token_version, 1) + 1. *)
LEMMA BumpedVersion ==
  ASSUME TypeOK, NEW v \in Users,
         tokenVersion' = [tokenVersion EXCEPT ![v] = Version(v) + 1]
  PROVE  /\ Version(v)' = Version(v) + 1
         /\ \A u \in Users \ {v} : Version(u)' = Version(u)
<1>1. Version(v) \in Nat
  BY DEF TypeOK, Version
<1> DEFINE n == Version(v) + 1
<1>2. n \in Nat /\ n # None
  BY <1>1
<1> HIDE DEF n
<1>3. tokenVersion' = [tokenVersion EXCEPT ![v] = n]
  BY DEF n
<1>4. Version(v)' = n
  BY <1>2, <1>3 DEF Version, TypeOK
<1> QED
  BY <1>3, <1>4 DEF Version, TypeOK, n

(* Registering an account changes nobody's version: NULL counts as 1. *)
LEMMA InsertedVersion ==
  ASSUME Inv, NEW v \in Users, Insert(v)
  PROVE  \A u \in Users : Version(u)' = Version(u)
<1>1. tokenVersion[v] = None /\ Version(v) = 1
  BY DEF Insert, Version, Inv, Provenance
<1>2. /\ tokenVersion'[v] = None \/ tokenVersion'[v] = 1
      /\ \A u \in Users \ {v} : tokenVersion'[u] = tokenVersion[u]
  BY DEF Insert, Inv, TypeOK
<1>3. Version(v)' = 1
  BY <1>2 DEF Version
<1>4. \A u \in Users \ {v} : Version(u)' = Version(u)
  BY <1>2 DEF Version
<1> QED
  BY <1>1, <1>3, <1>4

(* A user's version never decreases. *)
LEMMA VersionStep ==
  ASSUME Inv, [Next]_vars, NEW u \in Users
  PROVE  Version(u) \in Nat /\ Version(u)' \in Nat /\ Version(u) <= Version(u)'
<1>1. TypeOK' /\ Effect
  BY NextTypeOK, StepEffect DEF Inv
<1>2. Version(u) \in Nat /\ Version(u)' \in Nat
  BY <1>1 DEF Inv, TypeOK, Version
<1>3. ASSUME NEW v \in Users, Bump(v)
      PROVE  Version(u)' = Version(u) \/ Version(u)' = Version(u) + 1
  BY <1>3, BumpedVersion DEF Bump, Inv
<1>4. ASSUME NEW v \in Users, Insert(v)
      PROVE  Version(u)' = Version(u)
  BY <1>4, InsertedVersion
<1>5. ASSUME UNCHANGED tokenVersion
      PROVE  Version(u)' = Version(u)
  BY <1>5 DEF Version
<1>6. \/ UNCHANGED tokenVersion
      \/ \E v \in Users : Bump(v) \/ Insert(v)
  BY <1>1 DEF Effect, Quiet, Forget, Drop, HandOut
<1> QED
  BY <1>2, <1>3, <1>4, <1>5, <1>6

(* What a request in progress holds: nothing new (0 past the gate), the     *)
(* user's version, the version stored with a token, or, in ChangePassword,  *)
(* one more than it held, and then the row has been bumped too.             *)
LEMMA RequestStep ==
  ASSUME Inv, [Next]_vars, NEW r \in Requests, NEW u \in Users,
         req'[r].pc # "idle", req'[r].user = u
  PROVE  \/ req[r].pc # "idle" /\ req[r].user = u /\ req'[r].tv = req[r].tv
         \/ req'[r].tv = 0
         \/ req'[r].tv = 1 /\ Version(u)' = 1
         \/ req'[r].tv = Version(u)
         \/ \E t \in Tokens : refresh[t] # None /\ refresh[t].user = u
                                /\ req'[r].tv = refresh[t].tv
         \/ /\ req[r].pc # "idle" /\ req[r].user = u
            /\ req'[r].tv = req[r].tv + 1
            /\ Version(u)' = Version(u) + 1
<1> DEFINE Origin ==
            \/ req[r].pc # "idle" /\ req[r].user = u /\ req'[r].tv = req[r].tv
            \/ req'[r].tv = 0
            \/ req'[r].tv = 1 /\ Version(u)' = 1
            \/ req'[r].tv = Version(u)
            \/ \E t \in Tokens : refresh[t] # None /\ refresh[t].user = u
                                   /\ req'[r].tv = refresh[t].tv
            \/ /\ req[r].pc # "idle" /\ req[r].user = u
               /\ req'[r].tv = req[r].tv + 1
               /\ Version(u)' = Version(u) + 1
<1> SUFFICES Origin
  OBVIOUS
<1>T. TypeOK
  BY DEF Inv
<1> USE DEF accountVars, tokenVars, histories
<1>2. CASE UNCHANGED req
  BY <1>2, <1>T
<1>4. ASSUME NEW v \in Users, NEW p \in Passwords, Register(r, v, p)
      PROVE  Origin
  <2>1. u = v /\ req'[r].tv = 1
    BY <1>4, <1>T DEF Register, Idle, TypeOK
  <2>2. tokenVersion'[v] = None \/ tokenVersion'[v] = 1
    BY <1>4, <1>T DEF Register, TypeOK
  <2> QED
    BY <2>1, <2>2 DEF Version
<1>5. ASSUME NEW v \in Users, LoginRead(r, v)
      PROVE  Origin
  BY <1>5, <1>T DEF LoginRead, Idle, TypeOK
<1>6. CASE LoginRehash(r) \/ RefreshDel(r)
  BY <1>6, <1>T DEF LoginRehash, RefreshDel, TypeOK, RequestStates
<1>7. CASE RefreshCheck(r)
  BY <1>7, <1>T DEF RefreshCheck, Finish, Idle, TypeOK, RequestStates
<1>8. ASSUME NEW t \in Tokens, RefreshGet(r, t)
      PROVE  Origin
  BY <1>8, <1>T DEF RefreshGet, Idle, TypeOK
<1>9. ASSUME NEW c \in access, NEW h \in {"logoutAll", "changeRead"},
             RequireAuth(r, c, h)
      PROVE  Origin
  BY <1>9, <1>T DEF RequireAuth, Idle, TypeOK
<1>10. CASE ChangePasswordRead(r)
  BY <1>10, <1>T DEF ChangePasswordRead, TypeOK, RequestStates
<1>11. ASSUME NEW p \in Passwords, ChangePasswordWrite(r, p)
       PROVE  Origin
  <2>1. /\ req[r].pc # "idle" /\ req[r].user = u
        /\ req'[r].tv = req[r].tv + 1
    BY <1>11, <1>T DEF ChangePasswordWrite, TypeOK, RequestStates
  <2>2. Version(u)' = Version(u) + 1
    <3>1. tokenVersion' = [tokenVersion EXCEPT ![u] = Version(u) + 1]
      BY <1>11, <2>1 DEF ChangePasswordWrite, BumpVersion
    <3> QED
      BY <3>1, <1>T, BumpedVersion
  <2> QED
    BY <2>1, <2>2
<1>12. CASE \/ \E t \in Tokens : Issue(r, t)
            \/ LogoutAll(r) \/ Abandon(r) \/ Redeploy
  BY <1>12, <1>T DEF Issue, LogoutAll, Abandon, Redeploy, Finish, Idle, TypeOK
<1>13. ASSUME NEW q \in Requests, q # r,
              \/ \E v \in Users, p \in Passwords : Register(q, v, p)
              \/ \E v \in Users : LoginRead(q, v)
              \/ \E t \in Tokens : Issue(q, t) \/ RefreshGet(q, t)
              \/ LoginRehash(q) \/ RefreshCheck(q) \/ RefreshDel(q)
              \/ \E c \in access, h \in {"logoutAll", "changeRead"} : RequireAuth(q, c, h)
              \/ LogoutAll(q) \/ ChangePasswordRead(q) \/ Abandon(q)
              \/ \E p \in Passwords : ChangePasswordWrite(q, p)
       PROVE  Origin
  <2>1. \E x : req' = [req EXCEPT ![q] = x]
    <3>1. CASE \/ \E v \in Users, p \in Passwords : Register(q, v, p)
               \/ \E v \in Users : LoginRead(q, v)
               \/ \E t \in Tokens : Issue(q, t) \/ RefreshGet(q, t)
               \/ RefreshCheck(q) \/ LogoutAll(q) \/ Abandon(q)
               \/ \E c \in access, h \in {"logoutAll", "changeRead"} : RequireAuth(q, c, h)
      BY <3>1 DEF Register, LoginRead, Issue, RefreshGet, RefreshCheck, LogoutAll,
                  Abandon, RequireAuth, Finish
    <3>2. CASE \/ LoginRehash(q) \/ RefreshCheck(q) \/ RefreshDel(q)
               \/ ChangePasswordRead(q)
               \/ \E p \in Passwords : ChangePasswordWrite(q, p)
      BY <3>2 DEF LoginRehash, RefreshCheck, RefreshDel, ChangePasswordRead,
                  ChangePasswordWrite, Finish
    <3> QED
      BY <1>13, <3>1, <3>2
  <2> QED
    BY <1>13, <1>T, <2>1 DEF TypeOK
<1>14. ASSUME \/ \E t \in Tokens : ExpireRefresh(t)
              \/ \E q \in Requests, t \in Tokens : Logout(q, t)
              \/ \E q \in Requests, v \in Users : AdminLogoutAll(q, v)
              \/ \E c \in access : ExpireAccess(c)
              \/ UNCHANGED vars
       PROVE  UNCHANGED req
  BY <1>14 DEF Logout, ExpireRefresh, AdminLogoutAll, ExpireAccess, vars
<1> QED
  BY <1>2, <1>4, <1>5, <1>6, <1>7, <1>8, <1>9, <1>10, <1>11, <1>12, <1>13, <1>14
  DEF Next

LEMMA NeverAheadStep == Inv /\ [Next]_vars => NeverAhead'
<1> SUFFICES ASSUME Inv, [Next]_vars PROVE NeverAhead'
  OBVIOUS
<1>1. TypeOK /\ TypeOK' /\ Effect /\ NeverAhead
  BY NextTypeOK, StepEffect DEF Inv
<1>2. \A u \in Users : /\ Version(u) \in Nat
                       /\ Version(u)' \in Nat
                       /\ Version(u) <= Version(u)'
  BY VersionStep
<1>3. ASSUME NEW c \in Claims, c.tv <= Version(c.user)
      PROVE  (c.tv <= Version(c.user))'
  <2>1. c.user \in Users /\ c.tv \in Nat
    BY DEF Claims
  <2>2. (c.tv <= Version(c.user)')
    BY <1>2, <1>3, <2>1
  <2> QED
    BY <2>2
<1>4. ASSUME NEW c \in Claims,
             \/ \E t \in Tokens : refresh'[t] = c
             \/ c \in access'
      PROVE  c.tv <= Version(c.user)
  <2>1. c # None
    BY NoneAssumption
  <2>2. CASE \/ \E t \in Tokens : refresh[t] = c
             \/ c \in access
    BY <1>1, <2>1, <2>2 DEF NeverAhead
  <2>3. CASE \E r \in Requests : /\ req[r].pc = "issue"
                                 /\ c.user = req[r].user
                                 /\ c.tv = req[r].tv
    BY <1>1, <2>3 DEF NeverAhead
  <2>4. CASE Quiet \/ Forget \/ \E u \in Users : Bump(u) \/ Insert(u)
    BY <1>4, <2>2, <2>4 DEF Quiet, Forget, Bump, Insert
  <2>5. ASSUME NEW t \in Tokens, Drop(t)
        PROVE  \/ \E s \in Tokens : refresh[s] = c
               \/ c \in access
    BY <1>1, <1>4, <2>1, <2>5 DEF Drop, TypeOK
  <2>6. ASSUME NEW t \in Tokens, NEW d \in Claims, HandOut(t, d), c # d
        PROVE  \/ \E s \in Tokens : refresh[s] = c
               \/ c \in access
    BY <1>1, <1>4, <2>6 DEF HandOut, TypeOK
  <2> QED
    BY <1>1, <2>2, <2>3, <2>4, <2>5, <2>6 DEF Effect
<1>5. ASSUME NEW r \in Requests, req'[r].pc # "idle"
      PROVE  (req[r].tv <= Version(req[r].user))'
  <2>1. PICK u \in Users : req'[r].user = u
    BY <1>1, <1>5 DEF TypeOK
  <2>2. req[r].tv \in Nat /\ req'[r].tv \in Nat
    BY <1>1 DEF TypeOK, RequestStates
  <2>3. \A t \in Tokens : (refresh[t] # None /\ refresh[t].user = u)
                            => refresh[t].tv \in Nat /\ refresh[t].tv <= Version(u)
    BY <1>1 DEF NeverAhead, TypeOK, Claims
  <2>4. req[r].pc # "idle" /\ req[r].user = u => req[r].tv <= Version(u)
    BY <1>1 DEF NeverAhead
  <2>5. req'[r].tv <= Version(u)'
    <3>1. Version(u) \in Nat /\ Version(u)' \in Nat /\ Version(u) <= Version(u)'
      BY <1>2
    <3>2. \/ req[r].pc # "idle" /\ req[r].user = u /\ req'[r].tv = req[r].tv
          \/ req'[r].tv = 0
          \/ req'[r].tv = 1 /\ Version(u)' = 1
          \/ req'[r].tv = Version(u)
          \/ \E t \in Tokens : refresh[t] # None /\ refresh[t].user = u
                                 /\ req'[r].tv = refresh[t].tv
          \/ /\ req[r].pc # "idle" /\ req[r].user = u
             /\ req'[r].tv = req[r].tv + 1
             /\ Version(u)' = Version(u) + 1
      BY <1>5, <2>1, RequestStep
    <3> QED
      BY <2>2, <2>3, <2>4, <3>1, <3>2
  <2> QED
    BY <2>1, <2>5 DEF Version
<1>6. ASSUME NEW t \in Tokens, refresh'[t] # None
      PROVE  (refresh[t].tv <= Version(refresh[t].user))'
  <2>1. PICK c \in Claims : refresh'[t] = c
    BY <1>1, <1>6 DEF TypeOK
  <2>2. (c.tv <= Version(c.user))'
    BY <1>3, <1>4, <2>1
  <2> QED
    BY <2>1, <2>2 DEF Version
<1>7. ASSUME NEW c \in access'
      PROVE  (c.tv <= Version(c.user))'
  BY <1>1, <1>3, <1>4 DEF TypeOK
<1> QED
  BY <1>5, <1>6, <1>7 DEF NeverAhead

THEOREM Invariance == Spec => []Inv
<1>1. Inv /\ [Next]_vars => Inv'
  BY NextTypeOK, ProvenanceStep, NeverAheadStep DEF Inv
<1> QED
  BY InitInv, <1>1, PTL DEF Spec

(* No token and no request is ever ahead of its user's version, however     *)
(* many requests overlap: ChangePassword's own arithmetic cannot overtake   *)
(* the row, because the row only grows.                                     *)
THEOREM VersionsNeverAhead == Spec => []NeverAhead
<1>1. Inv => NeverAhead
  BY DEF Inv
<1> QED
  BY Invariance, <1>1, PTL

-----------------------------------------------------------------------------
(* A revoked access token is never accepted again. *)
THEOREM RevocationIsFinal == Spec => RevocationFinal
<1>1. Inv /\ [Next]_vars => \A c \in access : ~Accepted(c) => ~Accepted(c)'
  <2> SUFFICES ASSUME Inv, [Next]_vars, NEW c \in access, ~Accepted(c)
               PROVE  ~Accepted(c)'
    OBVIOUS
  <2>1. c.user \in Users /\ c.tv \in Nat /\ c.tv <= Version(c.user)
    BY DEF Inv, TypeOK, NeverAhead, Claims
  <2>2. /\ Version(c.user) \in Nat
        /\ Version(c.user)' \in Nat
        /\ Version(c.user) <= Version(c.user)'
    BY <2>1, VersionStep
  <2> QED
    BY <2>1, <2>2 DEF Accepted
<1> QED
  BY Invariance, <1>1, PTL DEF Spec, RevocationFinal

-----------------------------------------------------------------------------
(* The refinement, effect by effect. *)

LEMMA HolderType ==
  ASSUME TypeOK, NEW t \in Tokens
  PROVE  /\ LiveRefresh(t) => refresh[t] \in Claims /\ refresh[t].user \in Users
         /\ Holder[t] = IF LiveRefresh(t) THEN refresh[t].user ELSE None
         /\ Holder[t] # None <=> LiveRefresh(t)
BY NoneAssumption DEF TypeOK, LiveRefresh, Holder, Claims

(* A token is live or not as before, if its entry and its user's version    *)
(* are as before.                                                           *)
LEMMA SameHolder ==
  ASSUME TypeOK, NEW t \in Tokens, refresh'[t] = refresh[t],
         \A u \in Users : (refresh[t] # None /\ refresh[t].user = u)
                             => Version(u)' = Version(u)
  PROVE  Holder'[t] = Holder[t]
<1>1. CASE refresh[t] = None
  BY <1>1 DEF Holder, LiveRefresh
<1>2. CASE refresh[t] # None
  <2>1. PICK c \in Claims : refresh[t] = c
    BY <1>2 DEF TypeOK
  <2>2. c.user \in Users /\ c # None
    BY NoneAssumption DEF Claims
  <2>3. Version(c.user)' = Version(c.user)
    BY <1>2, <2>1, <2>2
  <2>4. LiveRefresh(t) <=> c.tv = Version(c.user)
    BY <2>1, <2>2 DEF LiveRefresh, Accepted
  <2>5. LiveRefresh(t)' <=> c.tv = Version(c.user)'
    BY <2>1, <2>2 DEF LiveRefresh, Accepted, Version
  <2> QED
    BY <2>1, <2>3, <2>4, <2>5 DEF Holder
<1> QED
  BY <1>1, <1>2

(* UPDATE token_version strikes out all the user's tokens and no other.     *)
LEMMA BumpCloses ==
  ASSUME Inv, NEW u \in Users, Bump(u)
  PROVE  Book!CloseAll(u)
<1>1. /\ Version(u) \in Nat
      /\ Version(u)' = Version(u) + 1
      /\ \A v \in Users \ {u} : Version(v)' = Version(v)
  BY BumpedVersion DEF Bump, Inv, TypeOK, Version
<1>2. ASSUME NEW t \in Tokens
      PROVE  Holder'[t] = IF Holder[t] = u THEN None ELSE Holder[t]
  <2>1. refresh'[t] = refresh[t]
    BY DEF Bump
  <2>2. CASE refresh[t] = None \/ refresh[t].user # u
    <3>1. Holder'[t] = Holder[t]
      BY <1>1, <2>1, <2>2, SameHolder DEF Inv
    <3>2. Holder[t] # u
      BY <2>2, HolderType, NoneAssumption DEF Inv, LiveRefresh
    <3> QED
      BY <3>1, <3>2
  <2>3. CASE refresh[t] # None /\ refresh[t].user = u
    <3>1. refresh[t].tv \in Nat /\ refresh[t].tv <= Version(u)
      BY <2>3 DEF Inv, NeverAhead, TypeOK, Claims
    <3>2. refresh'[t].tv # Version(u)'
      BY <1>1, <2>1, <3>1
    <3>3. ~LiveRefresh(t)'
      BY <2>1, <2>3, <3>2 DEF LiveRefresh, Accepted, Version
    <3>4. Holder'[t] = None
      BY <3>3 DEF Holder
    <3>5. Holder[t] \in {u, None}
      BY <2>3, HolderType DEF Inv
    <3> QED
      BY <3>4, <3>5
  <2> QED
    BY <2>2, <2>3
<1>3. Holder' = [t \in Tokens |-> IF Holder[t] = u THEN None ELSE Holder[t]]
  BY <1>2 DEF Holder
<1> QED
  BY <1>3 DEF Book!CloseAll, Bump

(* Rotation, logout and expiry close at most the token they name. *)
LEMMA DropCloses ==
  ASSUME Inv, NEW t \in Tokens, Drop(t)
  PROVE  Book!Close(t) \/ UNCHANGED Book!vars
<1>1. Holder'[t] = None
  BY DEF Inv, TypeOK, Drop, Holder, LiveRefresh
<1>2. ASSUME NEW s \in Tokens, s # t
      PROVE  Holder'[s] = Holder[s]
  <2>1. refresh'[s] = refresh[s]
    BY <1>2 DEF Drop, Inv, TypeOK
  <2>2. \A u \in Users : Version(u)' = Version(u)
    BY DEF Drop, Version
  <2> QED
    BY <2>1, <2>2, SameHolder DEF Inv
<1>3. Holder' = [Holder EXCEPT ![t] = None]
  BY <1>1, <1>2 DEF Holder
<1>4. CASE Holder[t] # None
  BY <1>3, <1>4 DEF Book!Close, Drop
<1>5. CASE Holder[t] = None
  <2>1. Holder' = Holder
    BY <1>3, <1>5 DEF Holder
  <2> QED
    BY <2>1 DEF Book!vars, Drop
<1> QED
  BY <1>4, <1>5

(* A token handed out opens a session if its version is still the user's,   *)
(* and is dead from the start if not.                                       *)
LEMMA HandOutOpens ==
  ASSUME Inv, NEW t \in Tokens, NEW c \in Claims, HandOut(t, c)
  PROVE  Book!Open(t, c.user) \/ Book!OpenDead(t)
<1>1. refresh[t] = None /\ Holder[t] = None
  BY DEF HandOut, Inv, Provenance, Holder, LiveRefresh
<1>2. refresh'[t] = c /\ c # None /\ c.user \in Users
  BY NoneAssumption DEF HandOut, Inv, TypeOK, Claims
<1>3. ASSUME NEW s \in Tokens, s # t
      PROVE  Holder'[s] = Holder[s]
  <2>1. refresh'[s] = refresh[s]
    BY <1>3 DEF HandOut, Inv, TypeOK
  <2>2. \A u \in Users : Version(u)' = Version(u)
    BY DEF HandOut, Version
  <2> QED
    BY <2>1, <2>2, SameHolder DEF Inv
<1>4. CASE c.tv = Version(c.user)
  <2>1. LiveRefresh(t)'
    BY <1>2, <1>4 DEF LiveRefresh, Accepted, Version, HandOut
  <2>2. Holder' = [Holder EXCEPT ![t] = c.user]
    BY <1>2, <1>3, <2>1 DEF Holder
  <2> QED
    BY <2>2 DEF Book!Open, HandOut
<1>5. CASE c.tv # Version(c.user)
  <2>1. ~LiveRefresh(t)'
    BY <1>2, <1>5 DEF LiveRefresh, Accepted, Version, HandOut
  <2>2. Holder' = Holder
    BY <1>1, <1>3, <2>1 DEF Holder
  <2> QED
    BY <2>2 DEF Book!OpenDead, HandOut
<1> QED
  BY <1>4, <1>5

LEMMA BookStep == Inv /\ [Next]_vars => [Book!Next]_(Book!vars)
<1> SUFFICES ASSUME Inv, [Next]_vars PROVE [Book!Next]_(Book!vars)
  OBVIOUS
<1>1. Effect
  BY StepEffect DEF Inv
<1>2. ASSUME UNCHANGED <<refresh, drawn>>, \A u \in Users : Version(u)' = Version(u)
      PROVE  UNCHANGED Book!vars
  <2>1. \A t \in Tokens : Holder'[t] = Holder[t]
    BY <1>2, SameHolder DEF Inv
  <2>2. Holder' = Holder
    BY <2>1 DEF Holder
  <2> QED
    BY <1>2, <2>2 DEF Book!vars
<1>3. CASE Quiet \/ Forget
  BY <1>2, <1>3 DEF Quiet, Forget, Version
<1>4. ASSUME NEW u \in Users, Insert(u)
      PROVE  UNCHANGED Book!vars
  BY <1>2, <1>4, InsertedVersion DEF Insert
<1>5. ASSUME NEW u \in Users, Bump(u)
      PROVE  Book!Next
  BY <1>5, BumpCloses DEF Book!Next
<1>6. ASSUME NEW t \in Tokens, Drop(t)
      PROVE  [Book!Next]_(Book!vars)
  BY <1>6, DropCloses DEF Book!Next
<1>7. ASSUME NEW t \in Tokens, NEW c \in Claims, HandOut(t, c)
      PROVE  Book!Next
  <2>1. c.user \in Users
    BY DEF Claims
  <2> QED
    BY <1>7, <2>1, HandOutOpens DEF Book!Next
<1> QED
  BY <1>1, <1>3, <1>4, <1>5, <1>6, <1>7 DEF Effect

(* The protocol of versions, Redis keys and interleaved handlers keeps the  *)
(* session book: what RequireAuth and Refresh will accept is decided as if  *)
(* tokens were signed on, struck out one by one or, at a logout-all, struck *)
(* out together.                                                            *)
THEOREM KeepsTheBook == Spec => BookSpec
<1>1. Init => Book!Init
  BY DEF Init, Book!Init, Holder, LiveRefresh
<1> QED
  BY Invariance, <1>1, BookStep, PTL DEF Spec, BookSpec, Book!Spec

(* A token that stopped working never works again. *)
THEOREM SpentIsFinal == Spec => SpentStaysSpent
<1>1. Inv /\ [Next]_vars => \A t \in drawn : ~LiveRefresh(t) => ~LiveRefresh(t)'
  <2> SUFFICES ASSUME Inv, [Next]_vars, NEW t \in drawn, ~LiveRefresh(t)
               PROVE  ~LiveRefresh(t)'
    OBVIOUS
  <2>1. t \in Tokens /\ Holder[t] = None
    BY HolderType DEF Inv, TypeOK
  <2>2. Holder'[t] = None
    BY <2>1, BookStep, NoneAssumption
    DEF Book!Next, Book!vars, Book!Open, Book!OpenDead, Book!Close, Book!CloseAll, Holder
  <2>3. (Holder[t] # None <=> LiveRefresh(t))'
    BY <2>1, NextTypeOK, NoneAssumption
    DEF Inv, TypeOK, LiveRefresh, Holder, Claims
  <2> QED
    BY <2>2, <2>3
<1> QED
  BY Invariance, <1>1, PTL DEF Spec, SpentStaysSpent

(* After a logout-all, by the user or an administrator, and after a change  *)
(* of password, none of the user's access tokens and none of the user's     *)
(* refresh tokens is worth anything, whatever requests were in flight.      *)
THEOREM BumpEndsAll == Spec => BumpEndsSessions
<1>1. ASSUME Inv, [Next]_vars, NEW r \in Requests, NEW u \in Users, Bumps(r, u)
      PROVE  SessionsEnded(u)'
  <2>1. TypeOK /\ NeverAhead
    BY <1>1 DEF Inv
  <2>2. Bump(u)
    <3>1. CASE AdminLogoutAll(r, u)
      BY <3>1 DEF AdminLogoutAll, BumpVersion, Bump, tokenVars, histories
    <3>2. CASE req[r].user = u /\ LogoutAll(r)
      BY <3>2 DEF LogoutAll, BumpVersion, Bump, tokenVars, histories
    <3>3. ASSUME req[r].user = u, NEW p \in Passwords, ChangePasswordWrite(r, p)
          PROVE  Bump(u)
      <4>1. BumpVersion(req[r].user) /\ UNCHANGED tokenVars
        BY <3>3 DEF ChangePasswordWrite
      <4> QED
        BY <3>3, <4>1 DEF BumpVersion, Bump, tokenVars, histories
    <3> QED
      BY <1>1, <3>1, <3>2, <3>3 DEF Bumps
  <2>3. Version(u) \in Nat /\ Version(u)' = Version(u) + 1
    BY <2>1, <2>2, BumpedVersion DEF Bump, TypeOK, Version
  <2>4. UNCHANGED <<refresh, access>>
    BY <2>2 DEF Bump
  <2>5. ASSUME NEW c \in access, c.user = u
        PROVE  c.tv # Version(u)'
    BY <2>1, <2>3, <2>5 DEF NeverAhead, TypeOK, Claims
  <2>6. ASSUME NEW t \in Tokens, refresh[t] # None, refresh[t].user = u
        PROVE  refresh[t].tv # Version(u)'
    BY <2>1, <2>3, <2>6 DEF NeverAhead, TypeOK, Claims
  <2> QED
    BY <2>4, <2>5, <2>6 DEF SessionsEnded, Accepted, LiveRefresh, Version
<1>2. Inv /\ [Next]_vars =>
        [\A r \in Requests, u \in Users : Bumps(r, u) => SessionsEnded(u)']_vars
  BY <1>1
<1> QED
  BY Invariance, <1>2, PTL DEF Spec, BumpEndsSessions

-----------------------------------------------------------------------------
(* Rotation.  A line has one heir at a time: its token, or the refresh that *)
(* has removed that and is to issue the next.                               *)

Held(t, l) == refresh[t] # None /\ line[t] = l
Coming(r, l) == req[r].pc = "issue" /\ req[r].token # None /\ line[req[r].token] = l

(* Lines begin with a token that was drawn, and only a refresh names one.   *)
Origins ==
  /\ \A t \in drawn : line[t] \in drawn
  /\ \A r \in Requests : req[r].token # None =>
       req[r].token \in drawn /\ req[r].pc \in {"check", "rotate", "issue"}

Undivided(l) ==
  /\ \A s, t \in Tokens : Held(s, l) /\ Held(t, l) => s = t
  /\ \A q, r \in Requests : Coming(q, l) /\ Coming(r, l) => q = r
  /\ \A t \in Tokens, r \in Requests : ~(Held(t, l) /\ Coming(r, l))

Lines == Origins /\ \A l \in Tokens \ unspent : Undivided(l)

LEMMA LinesAreEnough == Lines => RotationAddsNone
<1> SUFFICES ASSUME Lines, NEW l \in Tokens \ unspent, NEW x \in Heirs(l), NEW y \in Heirs(l)
             PROVE  x = y
  BY DEF RotationAddsNone
<1>1. Undivided(l)
  BY DEF Lines
<1>2. \A z \in Heirs(l) : \/ \E t \in Tokens : z = <<"token", t>> /\ Held(t, l)
                          \/ \E r \in Requests : z = <<"request", r>> /\ Coming(r, l)
  BY DEF Heirs, Held, Coming
<1> QED
  BY <1>1, <1>2 DEF Undivided

(* Everything but an issue and the DEL of a refresh leaves the lines alone. *)
Beside ==
  /\ UNCHANGED <<line, drawn, unspent>>
  /\ \A t \in Tokens : refresh'[t] # None => refresh[t] # None
  /\ \A r \in Requests :
       req'[r].token # None =>
         /\ \/ req'[r].token = req[r].token
            \/ req'[r].token \in drawn /\ req'[r].pc = "check"
         /\ req'[r].pc \in {"check", "rotate", "issue"}
         /\ req'[r].pc = "issue" => req[r].pc = "issue"

LEMMA LinesKept ==
  ASSUME TypeOK, Lines, Beside
  PROVE  Lines'
<1> USE DEF Beside
<1>1. Origins'
  BY DEF Lines, Origins
<1>2. ASSUME NEW l
      PROVE  /\ \A t \in Tokens : Held(t, l)' => Held(t, l)
             /\ \A r \in Requests : Coming(r, l)' => Coming(r, l)
  BY DEF Held, Coming
<1>3. ASSUME NEW l \in Tokens \ unspent
      PROVE  Undivided(l)'
  <2>1. Undivided(l)
    BY DEF Lines
  <2> QED
    BY <1>2, <2>1 DEF Undivided
<1> QED
  BY <1>1, <1>3 DEF Lines

(* A sign-in begins a line, a refresh hands its line on to the new token.   *)
LEMMA LinesIssue ==
  ASSUME Inv, Lines, NEW r \in Requests, NEW t \in Tokens, Issue(r, t)
  PROVE  Lines'
<1> DEFINE own == IF req[r].token = None THEN t ELSE line[req[r].token]
<1>1. /\ req[r].pc = "issue" /\ t \notin drawn /\ unspent' = unspent
      /\ drawn' = drawn \cup {t} /\ line' = [line EXCEPT ![t] = own]
      /\ req' = [req EXCEPT ![r] = Idle]
  BY DEF Issue, Finish
<1>2. TypeOK /\ (\A s \in Tokens : refresh[s] # None => s \in drawn) /\ Origins
  BY DEF Inv, Provenance, Lines
<1>3. own \in drawn \cup {t} /\ (own # t => Coming(r, own))
  BY <1>1, <1>2 DEF Origins, Coming
<1> HIDE DEF own
<1>4. req'[r].token = None /\ \A q \in Requests : q # r => req'[q] = req[q]
  BY <1>1, <1>2 DEF TypeOK, Idle
<1>5. line'[t] = own /\ \A s \in Tokens : s # t => line'[s] = line[s]
  BY <1>1, <1>2 DEF TypeOK
<1>6. \A s \in Tokens : s # t => refresh'[s] = refresh[s]
  BY <1>2 DEF Issue, TypeOK
<1>7. drawn \subseteq Tokens
  BY <1>2 DEF TypeOK
<1>8. Origins'
  BY <1>1, <1>2, <1>3, <1>4, <1>5, <1>7 DEF Origins
<1>9. ASSUME NEW l \in Tokens
      PROVE  /\ \A s \in Tokens : s # t => (Held(s, l)' <=> Held(s, l))
             /\ Held(t, l)' => l = own
             /\ \A q \in Requests : Coming(q, l)' => q # r /\ Coming(q, l)
  <2>1. \A s \in Tokens : s # t => (Held(s, l)' <=> Held(s, l))
    BY <1>5, <1>6 DEF Held
  <2>2. Held(t, l)' => l = own
    BY <1>5 DEF Held
  <2>3. ASSUME NEW q \in Requests, Coming(q, l)'
        PROVE  q # r /\ Coming(q, l)
    <3>1. q # r /\ req'[q] = req[q]
      BY <1>4, <2>3 DEF Coming
    <3>2. req[q].token \in drawn
      BY <1>2, <2>3, <3>1 DEF Origins, Coming
    <3> QED
      BY <1>1, <1>5, <1>7, <2>3, <3>1, <3>2 DEF Coming
  <2> QED
    BY <2>1, <2>2, <2>3
<1>10. \A s \in Tokens, q \in Requests : ~Held(s, t) /\ ~Coming(q, t)
  BY <1>1, <1>2 DEF Held, Coming, Origins
<1>11. ASSUME NEW l \in Tokens \ unspent
       PROVE  Undivided(l)'
  <2>1. Undivided(l)
    BY DEF Lines
  <2>2. CASE l = own
    <3>1. /\ \A s \in Tokens : ~Held(s, l)
          /\ \A q \in Requests : Coming(q, l) => q = r
      BY <1>3, <1>10, <2>1, <2>2 DEF Undivided
    <3> QED
      BY <1>9, <3>1 DEF Undivided
  <2>3. CASE l # own
    BY <1>9, <2>1, <2>3 DEF Undivided
  <2> QED
    BY <2>2, <2>3
<1> QED
  BY <1>1, <1>8, <1>11 DEF Lines

(* A refresh takes the place of the token it removes.                       *)
LEMMA LinesDel ==
  ASSUME Inv, Lines, NEW r \in Requests, RefreshDel(r)
  PROVE  Lines'
<1>0. PICK k : k = req[r].token
  OBVIOUS
<1>1. /\ req[r].pc = "rotate" /\ UNCHANGED <<line, drawn>>
      /\ refresh' = refresh \/ refresh' = [refresh EXCEPT ![k] = None]
      /\ unspent' = IF refresh' = refresh THEN unspent \cup {line[k]} ELSE unspent
      /\ req' = [req EXCEPT ![r].pc = "issue"]
  BY <1>0 DEF RefreshDel, Del
<1>2. TypeOK /\ Origins
  BY DEF Inv, Lines
<1>3. k \in Tokens /\ k # None
  BY <1>0, <1>1, <1>2, NoneAssumption DEF TypeOK
<1>4. /\ req'[r].token = k /\ req'[r].pc = "issue"
      /\ \A q \in Requests : q # r => req'[q] = req[q]
  BY <1>0, <1>1, <1>2 DEF TypeOK, RequestStates
<1>5. Origins'
  <2>1. \A q \in Requests : req'[q].token = req[q].token
    BY <1>0, <1>4
  <2> QED
    BY <1>1, <1>2, <1>4, <2>1 DEF Origins
<1>6. \A l, t : t \in Tokens /\ Held(t, l)' => Held(t, l)
  BY <1>1, <1>2, <1>3 DEF Held, TypeOK
<1>7. \A l, q : q \in Requests /\ Coming(q, l)' =>
        IF q = r THEN l = line[k] ELSE Coming(q, l)
  BY <1>1, <1>4 DEF Coming
<1>8. ASSUME NEW l \in Tokens \ unspent'
      PROVE  Undivided(l)'
  <2>1. l \notin unspent /\ Undivided(l)
    BY <1>1, <1>8 DEF Lines
  <2>2. CASE l # line[k]
    BY <1>6, <1>7, <2>1, <2>2 DEF Undivided
  <2>3. CASE l = line[k]
    <3>1. refresh' # refresh
      BY <1>1, <1>8, <2>3
    <3>2. refresh' = [refresh EXCEPT ![k] = None] /\ refresh[k] # None
      BY <1>1, <1>2, <1>3, <3>1 DEF TypeOK
    <3>3. Held(k, l) /\ ~Held(k, l)'
      BY <1>1, <1>2, <1>3, <2>3, <3>2 DEF Held, TypeOK
    <3>4. \A t \in Tokens : ~Held(t, l)'
      BY <1>3, <1>6, <2>1, <3>3 DEF Undivided
    <3>5. \A q \in Requests : ~Coming(q, l)
      BY <1>3, <2>1, <3>3 DEF Undivided
    <3> QED
      BY <1>7, <3>4, <3>5 DEF Undivided
  <2> QED
    BY <2>2, <2>3
<1> QED
  BY <1>5, <1>8 DEF Lines

LEMMA LinesStep ==
  ASSUME Inv, Lines, [Next]_vars
  PROVE  Lines'
<1>1. TypeOK /\ Origins /\ (\A t \in Tokens : refresh[t] # None => t \in drawn)
  BY DEF Inv, Provenance, Lines
<1> USE DEF accountVars, tokenVars, histories, Beside
<1>2. ASSUME NEW r \in Requests, NEW u \in Users,
             \/ \E p \in Passwords : Register(r, u, p)
             \/ LoginRead(r, u) \/ AdminLogoutAll(r, u)
      PROVE  Beside
  <2>1. UNCHANGED tokenVars
    BY <1>2 DEF Register, LoginRead, AdminLogoutAll
  <2>2. \A q \in Requests : req'[q] = req[q] \/ req'[q].token = None
    <3>1. CASE AdminLogoutAll(r, u)
      BY <3>1 DEF AdminLogoutAll
    <3>2. CASE LoginRead(r, u)
      BY <1>1, <3>2 DEF LoginRead, Idle, TypeOK
    <3>3. ASSUME NEW p \in Passwords, Register(r, u, p)
          PROVE  \A q \in Requests : req'[q] = req[q] \/ req'[q].token = None
      BY <1>1, <3>3 DEF Register, Idle, TypeOK
    <3> QED
      BY <1>2, <3>1, <3>2, <3>3
  <2> QED
    BY <1>1, <2>1, <2>2 DEF Origins
<1>3. ASSUME NEW r \in Requests, LoginRehash(r)
      PROVE  Beside
  <2>1. req[r].token = None
    BY <1>1, <1>3 DEF LoginRehash, Origins
  <2> QED
    BY <1>1, <1>3, <2>1 DEF LoginRehash, TypeOK, RequestStates, Origins
<1>4. ASSUME NEW r \in Requests, NEW t \in Tokens, RefreshGet(r, t)
      PROVE  Beside
  BY <1>1, <1>4 DEF RefreshGet, Idle, TypeOK, Origins
<1>5. ASSUME NEW r \in Requests, RefreshCheck(r) \/ LogoutAll(r) \/ Abandon(r)
      PROVE  Beside
  <2>1. CASE req' = [req EXCEPT ![r] = Idle]
    BY <1>1, <1>5, <2>1 DEF RefreshCheck, LogoutAll, Abandon, Idle, TypeOK, Origins
  <2>2. CASE RefreshCheck(r) /\ req' = [req EXCEPT ![r].pc = "rotate"]
    BY <1>1, <2>2 DEF RefreshCheck, TypeOK, RequestStates, Origins
  <2> QED
    BY <1>5, <2>1, <2>2 DEF RefreshCheck, LogoutAll, Abandon, Finish
<1>6. ASSUME NEW r \in Requests, NEW t \in Tokens, Logout(r, t)
      PROVE  Beside
  BY <1>1, <1>6 DEF Logout, Del, TypeOK, Origins
<1>7. ASSUME NEW r \in Requests, NEW c \in access,
             NEW h \in {"logoutAll", "changeRead"}, RequireAuth(r, c, h)
      PROVE  Beside
  BY <1>1, <1>7 DEF RequireAuth, Idle, TypeOK, Origins
<1>8. ASSUME NEW r \in Requests,
             ChangePasswordRead(r) \/ \E p \in Passwords : ChangePasswordWrite(r, p)
      PROVE  Beside
  <2>1. req[r].token = None
    BY <1>1, <1>8 DEF ChangePasswordRead, ChangePasswordWrite, Origins
  <2>2. \A q \in Requests : q # r => req'[q] = req[q]
    BY <1>1, <1>8 DEF ChangePasswordRead, ChangePasswordWrite, TypeOK
  <2>3. req'[r].token = None
    <3>1. req[r] \in RequestStates
      BY <1>1 DEF TypeOK
    <3>2. \E n, pc : req' = [req EXCEPT ![r] = [@ EXCEPT !.pc = pc, !.tv = n]]
      BY <1>8 DEF ChangePasswordRead, ChangePasswordWrite
    <3> QED
      BY <1>1, <2>1, <3>1, <3>2 DEF TypeOK, RequestStates
  <2> QED
    BY <1>1, <1>8, <2>2, <2>3 DEF ChangePasswordRead, ChangePasswordWrite, Origins
<1>9. ASSUME \/ Redeploy
             \/ \E t \in Tokens : ExpireRefresh(t)
             \/ \E c \in access : ExpireAccess(c)
             \/ UNCHANGED vars
      PROVE  Beside
  <2>1. UNCHANGED <<line, drawn, unspent>>
    BY <1>9 DEF Redeploy, ExpireRefresh, ExpireAccess, vars
  <2>2. \A t \in Tokens : refresh'[t] # None => refresh[t] # None
    BY <1>1, <1>9 DEF Redeploy, ExpireRefresh, ExpireAccess, vars, TypeOK
  <2>3. \A q \in Requests : req'[q] = req[q] \/ req'[q].token = None
    <3>1. CASE Redeploy
      BY <3>1 DEF Redeploy, Idle
    <3>2. CASE UNCHANGED req
      BY <3>2
    <3> QED
      BY <1>9, <3>1, <3>2 DEF ExpireRefresh, ExpireAccess, vars
  <2> QED
    BY <1>1, <2>1, <2>2, <2>3 DEF Origins
<1> HIDE DEF Beside
<1>10. Beside => Lines'
  BY <1>1, LinesKept
<1> QED
  BY <1>2, <1>3, <1>4, <1>5, <1>6, <1>7, <1>8, <1>9, <1>10, LinesIssue, LinesDel DEF Next

(* A session is never split by its rotation, however many refreshes there   *)
(* are, unless one of them found its token gone and went on.                *)
THEOREM RotationKeepsOne == Spec => []RotationAddsNone
<1>1. Init => Lines
  BY DEF Init, Lines, Origins, Undivided, Held, Coming, Idle
<1>2. Inv /\ Lines /\ [Next]_vars => Lines'
  BY LinesStep
<1> QED
  BY Invariance, <1>1, <1>2, LinesAreEnough, PTL DEF Spec
=============================================================================
