----------------------------- MODULE AdminUsers -----------------------------
(***************************************************************************)
(* The administrators' endpoints on users: ban, unban, role, logout-all    *)
(* and resend-verification (internal/api/handlers/admin/users.go behind    *)
(* middlewares.RequireRole, over internal/store/admin).  Every one of them *)
(* reads the caller's role once, perhaps counts administrators, asks Redis *)
(* for a place in the hour's quota, writes one row of users and then one   *)
(* row of admin_audit, each in a call of its own.                          *)
(*                                                                         *)
(* What logout-all does to a user's version is AdminLogoutAll of Sessions; *)
(* here it leaves its trace in the audit.                                  *)
(***************************************************************************)
EXTENDS Naturals, Sequences, FiniteSets

CONSTANTS
  Users,
  Requests,    \* slots for requests in progress
  MaxActions,  \* bound of the model: mutations made
  AuditFails,  \* InsertAudit's error is ignored, and may occur
  None

Roles == {"admin", "user"}
Actions == {"user.ban", "user.unban", "user.role.set", "user.logout_all",
            "user.resend_verification"}

ASSUME AdminAssumption ==
  /\ None \notin Users
  /\ AuditFails \in BOOLEAN

VARIABLES
  role,    \* users.role
  status,  \* users.status
  audit,   \* admin_audit, oldest first
  req,     \* requests in progress
  done     \* history: the mutations made, in order

vars == <<role, status, audit, req, done>>

(* "fresh" is history: no other request has written a role since this one   *)
(* passed RequireRole.                                                      *)
Idle == [pc |-> "idle", admin |-> None, action |-> None, target |-> None, role |-> None,
         fresh |-> FALSE]

(* What a row of admin_audit says; meta carries the new role. *)
Entry(q) == [admin |-> q.admin, action |-> q.action, target |-> q.target, role |-> q.role]

Admins == {u \in Users : role[u] = "admin"}

Init ==
  /\ role \in [Users -> Roles]
  /\ status = [u \in Users |-> "active"]
  /\ audit = <<>> /\ done = <<>>
  /\ req = [r \in Requests |-> Idle]

SelfDemotion(q) ==
  q.action = "user.role.set" /\ q.admin = q.target /\ q.role # "admin"

(* A request past its first checks; SetRole asks for a count only when      *)
(* administrators demote themselves.                                        *)
Accepted(a, action, u, new) ==
  [pc |-> IF action = "user.role.set" /\ a = u /\ new # "admin" THEN "count" ELSE "limit",
   admin |-> a, action |-> action, target |-> u, role |-> new, fresh |-> TRUE]

-----------------------------------------------------------------------------
(* RequireRole, then the handler's own checks of its input: nobody bans     *)
(* themselves, and a role is one of the two.                                *)
RequireRole(r, a, action, u, new) ==
  /\ req[r].pc = "idle"
  /\ role[a] = "admin"
  /\ action = "user.ban" => a # u
  /\ (action = "user.role.set") <=> (new # None)
  /\ req' = [req EXCEPT ![r] = Accepted(a, action, u, new)]
  /\ UNCHANGED <<role, status, audit, done>>

(* Mutant: the last administrator may go. *)
CountAdmins_OffByOne(r) ==
  /\ req[r].pc = "count"
  /\ req' = [req EXCEPT ![r] = IF Cardinality(Admins) < 1 THEN Idle
                               ELSE [@ EXCEPT !.pc = "limit"]]
  /\ UNCHANGED <<role, status, audit, done>>

(* AdminCount: the last administrator is refused. *)
CountAdmins(r) ==
  /\ req[r].pc = "count"
  /\ req' = [req EXCEPT ![r] = IF Cardinality(Admins) <= 1 THEN Idle
                               ELSE [@ EXCEPT !.pc = "limit"]]
  /\ UNCHANGED <<role, status, audit, done>>

(* checkRateLimit lets the request on; a refusal is Abandon. *)
PassLimit(r) ==
  /\ req[r].pc = "limit"
  /\ req' = [req EXCEPT ![r].pc = "write"]
  /\ UNCHANGED <<role, status, audit, done>>

(* SetUserStatus, SetUserRole: one UPDATE each.  The other two actions       *)
(* leave role and status alone.                                             *)
Write(r) ==
  /\ req[r].pc = "write"
  /\ Len(done) < MaxActions
  /\ role' = IF req[r].action = "user.role.set"
             THEN [role EXCEPT ![req[r].target] = req[r].role] ELSE role
  /\ status' = CASE req[r].action = "user.ban"   -> [status EXCEPT ![req[r].target] = "banned"]
                 [] req[r].action = "user.unban" -> [status EXCEPT ![req[r].target] = "active"]
                 [] OTHER -> status
  /\ done' = Append(done, Entry(req[r]))
  /\ req' = [s \in Requests |-> IF s = r THEN [req[s] EXCEPT !.pc = "audit"]
                                ELSE [req[s] EXCEPT !.fresh = @ /\ req[r].action # "user.role.set"]]
  /\ UNCHANGED audit

(* Mutant: a retry writes the entry again. *)
InsertAudit_Twice(r) ==
  /\ req[r].pc = "audit"
  /\ audit' = audit \o <<Entry(req[r]), Entry(req[r])>>
  /\ req' = [req EXCEPT ![r] = Idle]
  /\ UNCHANGED <<role, status, done>>

(* InsertAudit, its error ignored. *)
InsertAudit(r) ==
  /\ req[r].pc = "audit"
  /\ \/ audit' = Append(audit, Entry(req[r]))
     \/ AuditFails /\ audit' = audit
  /\ req' = [req EXCEPT ![r] = Idle]
  /\ UNCHANGED <<role, status, done>>

(* Quota refused, an error, a client gone, before the row is written. *)
Abandon(r) ==
  /\ req[r].pc \in {"count", "limit", "write"}
  /\ req' = [req EXCEPT ![r] = Idle]
  /\ UNCHANGED <<role, status, audit, done>>

Next ==
  \E r \in Requests :
    \/ \E a, u \in Users, action \in Actions, new \in Roles \cup {None} :
         RequireRole(r, a, action, u, new)
    \/ CountAdmins(r)
    \/ PassLimit(r)
    \/ Write(r)
    \/ InsertAudit(r)
    \/ Abandon(r)

Spec == Init /\ [][Next]_vars

-----------------------------------------------------------------------------
RequestStates ==
  [pc : {"idle", "count", "limit", "write", "audit"},
   admin : Users \cup {None}, action : Actions \cup {None},
   target : Users \cup {None}, role : Roles \cup {None}, fresh : BOOLEAN]

Entries ==
  [admin : Users, action : Actions \cup {None}, target : Users, role : Roles \cup {None}]

LogsOK == audit \in Seq(Entries) /\ done \in Seq(Entries)

TypeOK ==
  /\ role \in [Users -> Roles]
  /\ status \in [Users -> {"active", "banned"}]
  /\ req \in [Requests -> RequestStates]
  /\ \A r \in Requests : req[r].pc # "idle" =>
       /\ req[r].admin \in Users /\ req[r].target \in Users
       /\ req[r].action = "user.role.set" => req[r].role \in Roles
  /\ LogsOK

Occurrences(e, log) == Cardinality({i \in DOMAIN log : log[i] = e})

(* The audit may miss an action, but never records one that was not taken,  *)
(* nor one twice, however the requests overlap.                             *)
AuditNeverInvents ==
  \A i \in DOMAIN audit : Occurrences(audit[i], audit) <= Occurrences(audit[i], done)

(* "Prevent demoting yourself if you're the last admin": when an            *)
(* administrator steps down another one remains.                            *)
SelfDemotionLeavesAnAdmin ==
  [][\A r \in Requests :
       (req[r].pc = "write" /\ SelfDemotion(req[r]) /\ role' # role) => Admins' # {}]_vars

(* Administrators lock themselves out only by overlapping: a write leaves an *)
(* administrator, whoever is demoted, if no other change of role fell        *)
(* between its checks and itself.                                            *)
SomeAdminRemains ==
  [][\A r \in Requests :
       (req[r].pc = "write" /\ req'[r].pc = "audit" /\ req[r].fresh) => Admins' # {}]_vars
=============================================================================
