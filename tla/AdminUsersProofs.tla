-------------------------- MODULE AdminUsersProofs --------------------------
(* Theorems about AdminUsers, for any number of users and of overlapping    *)
(* requests.                                                                *)
EXTENDS AdminUsers, FiniteSetTheorems, TLAPS

(* Until another request changes a role, the caller is still an             *)
(* administrator.                                                           *)
ActorsAreAdmins ==
  \A r \in Requests :
    (req[r].pc \in {"count", "limit", "write"} /\ req[r].fresh)
      => role[req[r].admin] = "admin"

(* A request that has passed the count steps down beside another            *)
(* administrator, as long as nobody else changes a role.                    *)
Counted ==
  \A r \in Requests :
    req[r].pc \in {"limit", "write"} /\ req[r].fresh /\ SelfDemotion(req[r])
      => \E v \in Users : v # req[r].admin /\ role[v] = "admin"

Inv == TypeOK /\ ActorsAreAdmins /\ Counted

LEMMA InitInv == Init => Inv
BY DEF Init, Inv, TypeOK, LogsOK, ActorsAreAdmins, Counted, Idle, RequestStates, Roles

(* The logs are the steps': a write enters what its request is about, and   *)
(* nothing else touches them but InsertAudit.                               *)
LEMMA LogsStep == TypeOK /\ [Next]_vars => LogsOK'
<1> SUFFICES ASSUME TypeOK, [Next]_vars PROVE LogsOK'
  OBVIOUS
<1>1. audit \in Seq(Entries) /\ done \in Seq(Entries)
  BY DEF TypeOK, LogsOK
<1>2. \A r \in Requests : req[r].pc # "idle" => Entry(req[r]) \in Entries
  BY DEF TypeOK, Entry, Entries, RequestStates
<1>3. \A x \in Entries : Append(audit, x) \in Seq(Entries) /\ Append(done, x) \in Seq(Entries)
  BY <1>1
<1>4. ASSUME NEW r \in Requests, Write(r)
      PROVE  LogsOK'
  BY <1>1, <1>2, <1>3, <1>4 DEF Write, LogsOK
<1>5. ASSUME NEW r \in Requests, InsertAudit(r)
      PROVE  LogsOK'
  BY <1>1, <1>2, <1>3, <1>5 DEF InsertAudit, LogsOK
<1> QED
  BY <1>1, <1>4, <1>5
     DEF LogsOK, Next, vars, RequireRole, CountAdmins, PassLimit, Abandon

(* More than one administrator: there is another. *)
LEMMA AnotherAdmin ==
  ASSUME IsFiniteSet(Users), TypeOK, NEW a \in Users,
         ~(Cardinality(Admins) <= 1)
  PROVE  \E v \in Users : v # a /\ role[v] = "admin"
<1> SUFFICES ASSUME \A v \in Users : role[v] = "admin" => v = a
             PROVE  FALSE
  OBVIOUS
<1>1. Admins = {} \/ Admins = {a}
  BY DEF Admins
<1>2. Cardinality(Admins) \in {0, 1}
  BY <1>1, FS_EmptySet, FS_Singleton
<1> QED
  BY <1>2

LEMMA NextInv ==
  ASSUME IsFiniteSet(Users), Inv, [Next]_vars
  PROVE  Inv'
<1> LogsOK'
  BY LogsStep DEF Inv
<1> USE DEF Inv, TypeOK, ActorsAreAdmins, Counted
<1>1. ASSUME NEW r \in Requests, NEW a \in Users, NEW u \in Users,
             NEW action \in Actions, NEW new \in Roles \cup {None},
             RequireRole(r, a, action, u, new)
      PROVE  Inv'
  <2> DEFINE q == Accepted(a, action, u, new)
  <2>1. req' = [req EXCEPT ![r] = q] /\ UNCHANGED <<role, status>>
        /\ role[a] = "admin" /\ ((action = "user.role.set") <=> (new # None))
    BY <1>1 DEF RequireRole
  <2>2. /\ q \in RequestStates /\ q.admin \in Users /\ q.target \in Users
        /\ q.action = "user.role.set" => q.role \in Roles
        /\ role[q.admin] = "admin"
        /\ q.pc = "limit" => ~SelfDemotion(q)
        /\ q.pc # "write"
    BY <2>1 DEF Accepted, RequestStates, SelfDemotion
  <2> HIDE DEF q
  <2> QED
    BY <2>1, <2>2
<1>2. ASSUME NEW r \in Requests, CountAdmins(r)
      PROVE  Inv'
  <2>1. CASE Cardinality(Admins) <= 1
    BY <1>2, <2>1 DEF CountAdmins, Idle, RequestStates
  <2>2. CASE ~(Cardinality(Admins) <= 1)
    <3>1. req[r].admin \in Users
      BY <1>2 DEF CountAdmins
    <3>2. \E v \in Users : v # req[r].admin /\ role[v] = "admin"
      BY <2>2, <3>1, AnotherAdmin
    <3>3. req' = [req EXCEPT ![r] = [@ EXCEPT !.pc = "limit"]] /\ UNCHANGED <<role, status>>
      BY <1>2, <2>2 DEF CountAdmins
    <3>4. req[r].pc = "count"
      BY <1>2 DEF CountAdmins
    <3> QED
      BY <3>2, <3>3, <3>4 DEF RequestStates, SelfDemotion
  <2> QED
    BY <2>1, <2>2
<1>3. ASSUME NEW r \in Requests, PassLimit(r)
      PROVE  Inv'
  BY <1>3 DEF PassLimit, RequestStates, SelfDemotion
<1>4. ASSUME NEW r \in Requests, Write(r)
      PROVE  Inv'
  <2>1. /\ req[r].pc = "write" /\ req[r].target \in Users
        /\ req[r].action = "user.role.set" => req[r].role \in Roles
    BY <1>4 DEF Write
  <2>2. role' \in [Users -> Roles]
    BY <1>4, <2>1 DEF Write
  <2>3. status' \in [Users -> {"active", "banned"}]
    BY <1>4, <2>1 DEF Write
  <2>4. /\ req' \in [Requests -> RequestStates]
        /\ \A s \in Requests :
             /\ req'[s].admin = req[s].admin /\ req'[s].target = req[s].target
             /\ req'[s].action = req[s].action /\ req'[s].role = req[s].role
             /\ s # r => req'[s].pc = req[s].pc
             /\ s # r /\ req'[s].fresh => req[s].fresh /\ req[r].action # "user.role.set"
        /\ req'[r].pc = "audit"
    <3>1. req' = [s \in Requests |-> IF s = r THEN [req[s] EXCEPT !.pc = "audit"]
                              ELSE [req[s] EXCEPT !.fresh = @ /\ req[r].action # "user.role.set"]]
      BY <1>4 DEF Write
    <3>2. \A s \in Requests : req[s] \in RequestStates
      OBVIOUS
    <3>3. ASSUME NEW s \in Requests
          PROVE  /\ req'[s] \in RequestStates
                 /\ req'[s].admin = req[s].admin /\ req'[s].target = req[s].target
                 /\ req'[s].action = req[s].action /\ req'[s].role = req[s].role
                 /\ s # r => req'[s].pc = req[s].pc
                 /\ s # r /\ req'[s].fresh => req[s].fresh /\ req[r].action # "user.role.set"
                 /\ s = r => req'[s].pc = "audit"
      BY <3>1, <3>2, <3>3 DEF RequestStates
    <3> QED
      BY <3>1, <3>3
  <2>5. req[r].action # "user.role.set" => role' = role
    BY <1>4 DEF Write
  <2>6. TypeOK'
    BY <2>1, <2>2, <2>3, <2>4
  <2>7. ActorsAreAdmins'
    BY <2>4, <2>5
  <2>8. Counted'
    BY <2>4, <2>5 DEF SelfDemotion
  <2> QED
    BY <2>6, <2>7, <2>8
<1>5. ASSUME NEW r \in Requests, InsertAudit(r) \/ Abandon(r)
      PROVE  Inv'
  <2>1. req' = [req EXCEPT ![r] = Idle] /\ UNCHANGED <<role, status>>
    BY <1>5 DEF InsertAudit, Abandon
  <2>2. Idle \in RequestStates /\ Idle.pc = "idle"
    BY DEF Idle, RequestStates
  <2> QED
    BY <2>1, <2>2
<1>6. CASE UNCHANGED vars
  BY <1>6 DEF vars
<1> QED
  BY <1>1, <1>2, <1>3, <1>4, <1>5, <1>6 DEF Next

(* Administrators lock themselves out only by overlapping, however many     *)
(* they are and whomever they demote.                                       *)
THEOREM AdminRemains ==
  ASSUME IsFiniteSet(Users)
  PROVE  Spec => SomeAdminRemains
<1>1. ASSUME Inv, NEW r \in Requests, Write(r), req[r].fresh
      PROVE  Admins' # {}
  <2>1. /\ req[r].pc = "write" /\ req[r].admin \in Users /\ role[req[r].admin] = "admin"
        /\ req[r].target \in Users /\ role \in [Users -> Roles]
    BY <1>1 DEF Write, Inv, TypeOK, ActorsAreAdmins
  <2>2. CASE role' = role
    BY <2>1, <2>2 DEF Admins
  <2>3. CASE role' = [role EXCEPT ![req[r].target] = req[r].role] /\ req[r].action = "user.role.set"
    <3>1. CASE SelfDemotion(req[r])
      <4>1. PICK v \in Users : v # req[r].admin /\ role[v] = "admin"
        BY <1>1, <2>1, <3>1 DEF Inv, Counted
      <4>2. req[r].admin = req[r].target
        BY <3>1 DEF SelfDemotion
      <4> QED
        BY <2>1, <2>3, <4>1, <4>2 DEF Admins
    <3>2. CASE ~SelfDemotion(req[r])
      <4>1. role'[req[r].admin] = "admin"
        BY <2>1, <2>3, <3>2 DEF SelfDemotion
      <4> QED
        BY <2>1, <4>1 DEF Admins
    <3> QED
      BY <3>1, <3>2
  <2> QED
    BY <1>1, <2>2, <2>3 DEF Write
<1>2. ASSUME Inv, Next, NEW r \in Requests, req[r].pc = "write", req'[r].pc = "audit"
      PROVE  Write(r)
  <2>1. ASSUME NEW s \in Requests, s # r, Write(s)
        PROVE  FALSE
    BY <1>2, <2>1 DEF Write
  <2>2. ASSUME NEW s \in Requests, NEW a \in Users, NEW u \in Users, NEW action \in Actions,
               NEW new \in Roles \cup {None}, RequireRole(s, a, action, u, new)
        PROVE  FALSE
    BY <1>2, <2>2 DEF RequireRole, Accepted, Inv, TypeOK
  <2>3. ASSUME NEW s \in Requests, CountAdmins(s) \/ PassLimit(s)
        PROVE  FALSE
    BY <1>2, <2>3 DEF CountAdmins, PassLimit, Idle, Inv, TypeOK
  <2>4. ASSUME NEW s \in Requests, InsertAudit(s) \/ Abandon(s)
        PROVE  FALSE
    BY <1>2, <2>4 DEF InsertAudit, Abandon, Idle, Inv, TypeOK
  <2> QED
    BY <1>2, <2>1, <2>2, <2>3, <2>4 DEF Next
<1>3. Inv /\ [Next]_vars =>
        [\A r \in Requests :
           (req[r].pc = "write" /\ req'[r].pc = "audit" /\ req[r].fresh) => Admins' # {}]_vars
  BY <1>1, <1>2
<1>4. Inv /\ [Next]_vars => Inv'
  BY NextInv
<1> QED
  BY InitInv, <1>3, <1>4, PTL DEF Spec, SomeAdminRemains

-----------------------------------------------------------------------------
(* Requests that have written and not yet entered it in the audit, and how  *)
(* many of them are about one thing.                                        *)
Recording(e) == {r \in Requests : req[r].pc = "audit" /\ Entry(req[r]) = e}

(* What is in the audit, or may still come, was done as many times.         *)
Accounted ==
  \A e \in Entries :
    /\ IsFiniteSet(Recording(e))
    /\ Occurrences(e, audit) + Cardinality(Recording(e)) <= Occurrences(e, done)

(* A log has finitely many entries, and one more with the entry appended.   *)
LEMMA AppendOccurs ==
  ASSUME NEW S, NEW log \in Seq(S), NEW x \in S, NEW e
  PROVE  /\ Occurrences(e, log) \in Nat
         /\ Occurrences(e, Append(log, x)) =
              IF e = x THEN Occurrences(e, log) + 1 ELSE Occurrences(e, log)
<1> DEFINE at == {i \in DOMAIN log : log[i] = e}
           n == Len(log)
           more == {i \in DOMAIN Append(log, x) : Append(log, x)[i] = e}
<1>1. n \in Nat /\ DOMAIN log = 1 .. n
  OBVIOUS
<1>2. IsFiniteSet(at)
  <2>1. IsFiniteSet(1 .. n)
    BY <1>1, FS_Interval
  <2>2. at \in SUBSET (1 .. n)
    BY <1>1
  <2> QED
    BY <2>1, <2>2, FS_Subset
<1>3. DOMAIN Append(log, x) = 1 .. n + 1
  BY <1>1
<1>4. \A i \in 1 .. n : Append(log, x)[i] = log[i]
  BY <1>1
<1>5. Append(log, x)[n + 1] = x
  BY <1>1
<1>6. more = IF e = x THEN at \cup {n + 1} ELSE at
  <2>1. 1 .. n + 1 = (1 .. n) \cup {n + 1}
    BY <1>1
  <2> QED
    BY <1>1, <1>3, <1>4, <1>5, <2>1
<1>7. n + 1 \notin at
  BY <1>1
<1> HIDE DEF at, more
<1>8. Cardinality(at) \in Nat /\ Cardinality(at \cup {n + 1}) = Cardinality(at) + 1
  BY <1>2, <1>7, FS_AddElement, FS_CardinalityType
<1>9. Cardinality(more) = IF e = x THEN Cardinality(at) + 1 ELSE Cardinality(at)
  BY <1>6, <1>8
<1> QED
  BY <1>8, <1>9 DEF at, more, Occurrences

LEMMA AccountedStep ==
  ASSUME TypeOK, [Next]_vars, Accounted
  PROVE  Accounted'
<1> SUFFICES ASSUME NEW e \in Entries
             PROVE  /\ IsFiniteSet(Recording(e)')
                    /\ Occurrences(e, audit') + Cardinality(Recording(e)') <= Occurrences(e, done')
  BY DEF Accounted, Entries, Occurrences
<1>1. /\ IsFiniteSet(Recording(e)) /\ Cardinality(Recording(e)) \in Nat
      /\ Occurrences(e, audit) + Cardinality(Recording(e)) <= Occurrences(e, done)
  BY FS_CardinalityType DEF Accounted
<1>2. \A r \in Requests : req[r] \in RequestStates
                          /\ (req[r].pc # "idle" => Entry(req[r]) \in Entries)
  BY DEF TypeOK, Entry, Entries, RequestStates
<1>3. audit \in Seq(Entries) /\ done \in Seq(Entries)
  BY DEF TypeOK, LogsOK
<1>4. Occurrences(e, audit) \in Nat /\ Occurrences(e, done) \in Nat
  BY <1>3, AppendOccurs
<1>5. ASSUME NEW r \in Requests, Write(r)
      PROVE  /\ IsFiniteSet(Recording(e)')
             /\ Occurrences(e, audit') + Cardinality(Recording(e)') <= Occurrences(e, done')
  <2> DEFINE x == Entry(req[r])
  <2>1. x \in Entries /\ done' = Append(done, x) /\ audit' = audit /\ req[r].pc = "write"
    BY <1>2, <1>5 DEF Write
  <2>2. ASSUME NEW s \in Requests
        PROVE  /\ Entry(req'[s]) = Entry(req[s])
               /\ req'[s].pc = IF s = r THEN "audit" ELSE req[s].pc
    <3>1. req'[s] = IF s = r THEN [req[s] EXCEPT !.pc = "audit"]
                    ELSE [req[s] EXCEPT !.fresh = @ /\ req[r].action # "user.role.set"]
      BY <1>5 DEF Write
    <3> QED
      BY <1>2, <3>1 DEF Entry, RequestStates
  <2>3. Recording(e)' = IF e = x THEN Recording(e) \cup {r} ELSE Recording(e)
    BY <2>1, <2>2 DEF Recording
  <2>4. r \notin Recording(e)
    BY <2>1 DEF Recording
  <2>5. Occurrences(e, done') = IF e = x THEN Occurrences(e, done) + 1 ELSE Occurrences(e, done)
    BY <1>3, <2>1, AppendOccurs
  <2>6. /\ IsFiniteSet(Recording(e) \cup {r})
        /\ Cardinality(Recording(e) \cup {r}) = Cardinality(Recording(e)) + 1
    BY <1>1, <2>4, FS_AddElement
  <2>7. CASE e = x
    BY <1>1, <1>4, <2>1, <2>3, <2>5, <2>6, <2>7
  <2>8. CASE e # x
    BY <1>1, <2>1, <2>3, <2>5, <2>8
  <2> QED
    BY <2>7, <2>8
<1>6. ASSUME NEW r \in Requests, InsertAudit(r)
      PROVE  /\ IsFiniteSet(Recording(e)')
             /\ Occurrences(e, audit') + Cardinality(Recording(e)') <= Occurrences(e, done')
  <2> DEFINE x == Entry(req[r])
  <2>1. /\ x \in Entries /\ done' = done /\ req' = [req EXCEPT ![r] = Idle]
        /\ req[r].pc = "audit" /\ (audit' = Append(audit, x) \/ audit' = audit)
    BY <1>2, <1>6 DEF InsertAudit
  <2>2. Recording(e)' = IF e = x THEN Recording(e) \ {r} ELSE Recording(e)
    BY <2>1 DEF Recording, Idle, TypeOK
  <2>3. /\ IsFiniteSet(Recording(e) \ {r})
        /\ e = x => Cardinality(Recording(e) \ {r}) = Cardinality(Recording(e)) - 1
    <3>1. e = x => r \in Recording(e)
      BY <2>1 DEF Recording
    <3> QED
      BY <1>1, <3>1, FS_RemoveElement
  <2>4. Occurrences(e, Append(audit, x)) =
          IF e = x THEN Occurrences(e, audit) + 1 ELSE Occurrences(e, audit)
    BY <1>3, <2>1, AppendOccurs
  <2>5. CASE e = x
    <3>1. /\ IsFiniteSet(Recording(e)')
          /\ Cardinality(Recording(e)') = Cardinality(Recording(e)) - 1
      BY <2>2, <2>3, <2>5
    <3>2. /\ Occurrences(e, done') = Occurrences(e, done)
          /\ Occurrences(e, audit') \in {Occurrences(e, audit), Occurrences(e, audit) + 1}
      BY <2>1, <2>4, <2>5
    <3> HIDE DEF x
    <3> QED
      BY <1>1, <1>4, <3>1, <3>2
  <2>6. CASE e # x
    BY <1>1, <2>1, <2>2, <2>4, <2>6
  <2> QED
    BY <2>5, <2>6
<1>7. ASSUME NEW r \in Requests, UNCHANGED <<audit, done>>,
             NEW q, req' = [req EXCEPT ![r] = q], q.pc # "audit", req[r].pc # "audit"
      PROVE  /\ IsFiniteSet(Recording(e)')
             /\ Occurrences(e, audit') + Cardinality(Recording(e)') <= Occurrences(e, done')
  <2>1. Recording(e)' = Recording(e)
    BY <1>7 DEF Recording, TypeOK
  <2> QED
    BY <1>1, <1>7, <2>1
<1>8. ASSUME NEW r \in Requests, NEW a \in Users, NEW u \in Users,
             NEW action \in Actions, NEW new \in Roles \cup {None},
             RequireRole(r, a, action, u, new)
      PROVE  /\ IsFiniteSet(Recording(e)')
             /\ Occurrences(e, audit') + Cardinality(Recording(e)') <= Occurrences(e, done')
  <2>1. Accepted(a, action, u, new).pc # "audit"
    BY DEF Accepted
  <2> QED
    BY <1>7, <1>8, <2>1 DEF RequireRole
<1>9. ASSUME NEW r \in Requests, CountAdmins(r) \/ PassLimit(r) \/ Abandon(r)
      PROVE  /\ IsFiniteSet(Recording(e)')
             /\ Occurrences(e, audit') + Cardinality(Recording(e)') <= Occurrences(e, done')
  <2>1. Idle.pc # "audit" /\ [req[r] EXCEPT !.pc = "limit"].pc # "audit"
        /\ [req[r] EXCEPT !.pc = "write"].pc # "audit"
    BY <1>2 DEF Idle, RequestStates
  <2>2. PICK q \in {Idle, [req[r] EXCEPT !.pc = "limit"], [req[r] EXCEPT !.pc = "write"]} :
          req' = [req EXCEPT ![r] = q]
    BY <1>9 DEF CountAdmins, PassLimit, Abandon
  <2>3. UNCHANGED <<audit, done>> /\ req[r].pc # "audit"
    BY <1>9 DEF CountAdmins, PassLimit, Abandon
  <2> QED
    BY <1>7, <2>1, <2>2, <2>3
<1>10. CASE UNCHANGED vars
  <2>1. Recording(e)' = Recording(e) /\ UNCHANGED <<audit, done>>
    BY <1>10 DEF vars, Recording
  <2> QED
    BY <1>1, <2>1
<1> QED
  BY <1>5, <1>6, <1>8, <1>9, <1>10 DEF Next

(* The audit never records what was not done, nor what was done once twice, *)
(* however many requests are about to write to it and whichever of their    *)
(* entries get lost.                                                        *)
THEOREM AuditIsHonest ==
  ASSUME IsFiniteSet(Users)
  PROVE  Spec => []AuditNeverInvents
<1>1. Init => Accounted
  <2> SUFFICES ASSUME Init, NEW e \in Entries
               PROVE  IsFiniteSet(Recording(e)) /\
                      Occurrences(e, audit) + Cardinality(Recording(e)) <= Occurrences(e, done)
    BY DEF Accounted
  <2>1. Recording(e) = {}
    BY DEF Init, Recording, Idle
  <2>2. {i \in DOMAIN <<>> : <<>>[i] = e} = {}
    OBVIOUS
  <2> QED
    BY <2>1, <2>2, FS_EmptySet DEF Init, Occurrences
<1>2. Inv /\ Accounted => AuditNeverInvents
  <2> SUFFICES ASSUME Inv, Accounted, NEW i \in DOMAIN audit
               PROVE  Occurrences(audit[i], audit) <= Occurrences(audit[i], done)
    BY DEF AuditNeverInvents
  <2>1. audit \in Seq(Entries) /\ done \in Seq(Entries)
    BY DEF Inv, TypeOK, LogsOK
  <2> DEFINE e == audit[i]
  <2>2. e \in Entries
    BY <2>1
  <2> HIDE DEF e
  <2>3. Occurrences(e, audit) \in Nat /\ Occurrences(e, done) \in Nat
    BY <2>1, <2>2, AppendOccurs
  <2>4. Cardinality(Recording(e)) \in Nat
        /\ Occurrences(e, audit) + Cardinality(Recording(e)) <= Occurrences(e, done)
    BY <2>2, FS_CardinalityType DEF Accounted
  <2>5. Occurrences(e, audit) <= Occurrences(e, done)
    BY <2>3, <2>4
  <2> QED
    BY <2>5 DEF e
<1>3. Inv /\ [Next]_vars => Inv'
  BY NextInv
<1>4. Inv /\ Accounted /\ [Next]_vars => Accounted'
  BY AccountedStep DEF Inv
<1> QED
  BY InitInv, <1>1, <1>2, <1>3, <1>4, PTL DEF Spec

(* The state is what its comments say: a request names an administrator, a  *)
(* target and, for a change of role, one of the roles there are.            *)
THEOREM TypeCorrect ==
  ASSUME IsFiniteSet(Users)
  PROVE  Spec => []TypeOK
<1>1. Inv => TypeOK
  BY DEF Inv
<1>2. Inv /\ [Next]_vars => Inv'
  BY NextInv
<1> QED
  BY InitInv, <1>1, <1>2, PTL DEF Spec
=============================================================================
