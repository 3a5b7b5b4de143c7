---------------------------- MODULE QuotaProofs ----------------------------
(***************************************************************************)
(* Theorems about the two limits that remember when they were last used:   *)
(* TokenBucket, for every burst, rate and clock, and Verification, for any *)
(* number of users, links, requests and sends a day.                       *)
(***************************************************************************)
EXTENDS TokenBucket, Verification, FiniteSetTheorems, FunctionTheorems, TLAPS

-----------------------------------------------------------------------------
(* The token bucket. *)

LEMMA FullPositive == Full \in Nat /\ Unit \in Nat \ {0} /\ Unit <= Full
<1>1. \A c, n \in Nat \ {0} : c * n \in Nat /\ n <= c * n
  BY SMT
<1> QED
  BY <1>1, TokenBucketAssumption DEF Full

LEMMA RefilledType ==
  ASSUME TypeOK
  PROVE  Refilled \in 0 .. Full
<1>1. Full \in Nat
  BY FullPositive
<1>2. CASE Absent
  BY <1>1, <1>2 DEF Refilled
<1>3. CASE ~Absent
  <2>1. bucket.tokens \in 0 .. Full /\ bucket.ts \in Nat /\ clock \in Nat
    BY <1>3 DEF Absent, TypeOK, Buckets
  <2> QED
    BY <1>1, <1>3, <2>1 DEF Refilled, Least
<1> QED
  BY <1>2, <1>3

(* Just after the script has run the bucket holds what it stored.           *)
LEMMA StoredIsRefilled ==
  ASSUME TypeOK, NEW n \in 0 .. Full, Store(n), UNCHANGED clock
  PROVE  /\ bucket' \in Buckets \cup {None}
         /\ bucket' # None
         /\ bucket'.expires = bucket'.ts + Full
         /\ Refilled' = n
<1>1. Full \in Nat /\ clock \in Nat
  BY FullPositive DEF TypeOK
<1>2. bucket' \in Buckets
  BY <1>1 DEF Store, Buckets
<1>3. bucket' # None
  BY <1>1, TokenBucketAssumption DEF Store
<1>4. ~Absent' /\ ~(clock' > bucket'.ts)
  BY <1>1, <1>3 DEF Absent, Store
<1>5. Refilled' = bucket'.tokens
  BY <1>4 DEF Refilled
<1> QED
  BY <1>1, <1>2, <1>3, <1>5 DEF Store

(* One run of the script.                                                   *)
LEMMA ScriptStep ==
  ASSUME TypeOK, Script, UNCHANGED clock
  PROVE  /\ bucket' \in Buckets \cup {None}
         /\ bucket' # None => bucket'.expires = bucket'.ts + Full
         /\ \/ Refilled >= Unit /\ Refilled' = Refilled - Unit
               /\ granted' = granted + 1 /\ refused' = refused
            \/ Refilled < Unit /\ Refilled' = Refilled
               /\ granted' = granted /\ refused' = refused + 1
<1>1. Refilled \in 0 .. Full /\ Full \in Nat /\ Unit \in Nat
  BY RefilledType, FullPositive
<1>2. CASE Refilled >= Unit
  <2>1. Refilled - Unit \in 0 .. Full
    BY <1>1, <1>2
  <2>2. Store(Refilled - Unit) /\ granted' = granted + 1 /\ refused' = refused
    BY <1>2 DEF Script
  <2> QED
    BY <1>2, <2>1, <2>2, StoredIsRefilled
<1>3. CASE ~(Refilled >= Unit)
  <2>1. Store(Refilled) /\ granted' = granted /\ refused' = refused + 1
    BY <1>3 DEF Script
  <2>2. Refilled < Unit
    BY <1>1, <1>3
  <2> QED
    BY <1>1, <2>1, <2>2, StoredIsRefilled
<1> QED
  BY <1>2, <1>3

(* Between requests: a tick adds at most one unit (and the expiry of the    *)
(* key adds none, because the bucket is full by then), the clock set back   *)
(* adds none, eviction changes nothing.                                     *)
LEMMA TickStep ==
  ASSUME TypeOK, Tick
  PROVE  Refilled' = Refilled \/ (Refilled < Full /\ Refilled' = Refilled + 1)
<1>1. /\ clock \in Nat /\ Full \in Nat
      /\ clock' = clock + 1 /\ bucket' = bucket
  BY FullPositive DEF Tick, TypeOK
<1>2. CASE bucket = None
  BY <1>1, <1>2 DEF Refilled, Absent
<1>3. CASE bucket # None
  <2>1. /\ bucket.tokens \in 0 .. Full /\ bucket.ts \in Nat
        /\ bucket.expires = bucket.ts + Full
    BY <1>3 DEF TypeOK, Buckets
  <2> QED
    BY <1>1, <1>3, <2>1 DEF Refilled, Absent, Least
<1> QED
  BY <1>2, <1>3

LEMMA SetBackStep ==
  ASSUME TypeOK, SetBack
  PROVE  clock' \in Nat /\ Refilled' \in 0 .. Refilled
<1>1. /\ clock \in Nat /\ clock' \in Nat /\ clock' < clock
      /\ Full \in Nat /\ bucket' = bucket
  BY FullPositive DEF SetBack, TypeOK
<1>2. CASE bucket = None
  BY <1>1, <1>2 DEF Refilled, Absent
<1>3. CASE bucket # None
  <2>1. /\ bucket.tokens \in 0 .. Full /\ bucket.ts \in Nat
        /\ bucket.expires = bucket.ts + Full
    BY <1>3 DEF TypeOK, Buckets
  <2> QED
    BY <1>1, <1>3, <2>1 DEF Refilled, Absent, Least
<1> QED
  BY <1>1, <1>2, <1>3

LEMMA EvictStep ==
  ASSUME TypeOK, Evict
  PROVE  Refilled' = Refilled
BY DEF Evict, Refilled, Absent

-----------------------------------------------------------------------------
Inv == TypeOK /\ AdmissionBound

LEMMA InitInv == Init => Inv
BY FullPositive DEF Init, Inv, TypeOK, AdmissionBound, Refilled, Absent

(* What one step does to the level, to the answers and to time.             *)
LEMMA StepEffect ==
  ASSUME TypeOK, [Next]_vars
  PROVE  /\ TypeOK'
         /\ \/ Refilled >= Unit /\ Refilled' = Refilled - Unit
               /\ granted' = granted + 1 /\ UNCHANGED <<refused, ticks>>
            \/ Refilled < Unit /\ Refilled' = Refilled
               /\ refused' = refused + 1 /\ UNCHANGED <<granted, ticks>>
            \/ Refilled' \in 0 .. Refilled /\ UNCHANGED <<granted, refused, ticks>>
            \/ Refilled < Full /\ Refilled' = Refilled + 1
               /\ ticks' = ticks + 1 /\ UNCHANGED <<granted, refused>>
            \/ Refilled' = Refilled
               /\ ticks' = ticks + 1 /\ UNCHANGED <<granted, refused>>
<1>1. Refilled \in 0 .. Full /\ Full \in Nat /\ Unit \in Nat
  BY RefilledType, FullPositive
<1>2. CASE Script /\ UNCHANGED <<clock, ticks>>
  BY <1>1, <1>2, ScriptStep DEF TypeOK
<1>3. CASE UNCHANGED vars
  BY <1>1, <1>3 DEF vars, TypeOK, Refilled, Absent
<1>4. CASE UNCHANGED <<bucket, granted, refused>> /\ UNCHANGED <<clock, ticks>>
  BY <1>1, <1>4 DEF TypeOK, Refilled, Absent
<1>5. CASE Evict
  BY <1>1, <1>5, EvictStep DEF Evict, TypeOK
<1>6. CASE Tick
  BY <1>1, <1>6, TickStep DEF Tick, TypeOK
<1>7. CASE SetBack
  BY <1>1, <1>7, SetBackStep DEF SetBack, TypeOK
<1> QED
  BY <1>2, <1>3, <1>4, <1>5, <1>6, <1>7 DEF Next, Request, FailOpen

LEMMA NextInv == Inv /\ [Next]_vars => Inv'
<1> SUFFICES ASSUME Inv, [Next]_vars PROVE Inv'
  OBVIOUS
<1>1. /\ Refilled \in 0 .. Full /\ Full \in Nat /\ Unit \in Nat
      /\ granted \in Nat /\ ticks \in Nat
  BY RefilledType, FullPositive DEF Inv, TypeOK
<1>2. granted * Unit \in Nat /\ (granted + 1) * Unit = granted * Unit + Unit
  BY <1>1
<1>3. granted * Unit + Refilled <= Full + ticks
  BY DEF Inv, AdmissionBound
<1> DEFINE used == granted * Unit
<1>4. /\ used \in Nat
      /\ used' = used \/ (granted' = granted + 1 /\ used' = used + Unit)
      /\ granted' = granted => used' = used
  BY <1>1, <1>2, StepEffect DEF Inv
<1> HIDE DEF used
<1>5. used + Refilled <= Full + ticks
  BY <1>3 DEF used
<1>6. used' + Refilled' <= Full + ticks'
  BY <1>1, <1>4, <1>5, StepEffect DEF Inv
<1>7. TypeOK'
  BY StepEffect DEF Inv
<1> QED
  BY <1>6, <1>7 DEF Inv, AdmissionBound, used, Full

THEOREM Invariance == Spec => []Inv
BY InitInv, NextInv, PTL DEF Spec

(* Stored buckets are well formed. *)
THEOREM TypeCorrect == Spec => []TypeOK
<1>1. Inv => TypeOK
  BY DEF Inv
<1> QED
  BY Invariance, <1>1, PTL

(* However requests, expiry, errors and clock changes fall together, the    *)
(* script grants at most the burst plus what dripped in.                    *)
THEOREM RateIsLimited == Spec => []AdmissionBound
<1>1. Inv => AdmissionBound
  BY DEF Inv
<1> QED
  BY Invariance, <1>1, PTL

(* The lazy bucket implements the ideal one. *)
THEOREM IsABucket == Spec => IdealSpec
<1>1. Init => Ideal!Init
  BY DEF Init, Ideal!Init, Ideal!Full, Full, Refilled, Absent
<1>2. Inv /\ [Next]_vars => [Ideal!Next]_(Ideal!vars)
  <2> SUFFICES ASSUME Inv, [Next]_vars PROVE [Ideal!Next]_(Ideal!vars)
    OBVIOUS
  <2> QED
    BY StepEffect DEF Inv, Ideal!Next, Ideal!vars, Ideal!Fill, Ideal!Leak,
       Ideal!Grant, Ideal!Refuse, Ideal!Full, Full
<1> QED
  BY Invariance, <1>1, <1>2, PTL DEF Spec, IdealSpec, Ideal!Spec

-----------------------------------------------------------------------------
(* Links that verify an address. *)

Sends == [age : Ages, nth : 1 .. Max]

(* Sends of one window: no number comes twice. *)
Distinct(S) == \A e, f \in S : e.nth = f.nth => e = f

(* What a quota's key tells of the sends it is there for: it counted them   *)
(* all, and each attempt since has renewed its day.                         *)
Charged(u) ==
  /\ Distinct(recent[u])
  /\ \A e \in recent[u] : e.nth <= quota[u].count /\ e.age + quota[u].ttl >= Win

(* A link that can be followed names its user, and a request that follows   *)
(* it has the user it named; who is to delete a link has seen that user     *)
(* verified.                                                                *)
Named == \A t \in Tokens : token[t].ttl > 0 => t \in drawn /\ token[t].user \in Users

Following(r) ==
  /\ req[r].pc \in {"update", "del"} /\ token[req[r].token].ttl > 0
       => token[req[r].token].user = req[r].user
  /\ req[r].pc = "del" => verifiedAt[req[r].user] # Null

(* The quota's part of the invariant, and the rest of it. *)
QuotaInv ==
  /\ quota \in [Users -> [count : 0 .. Max + 1, ttl : 0 .. Win]]
  /\ recent \in [Users -> SUBSET Sends]
  /\ \A u \in Users : quota[u].count = 0 <=> quota[u].ttl = 0
  /\ \A u \in Users : Charged(u)

RequestInv ==
  /\ verifiedAt \in [Users -> Tokens \cup {Null}]
  /\ token \in [Tokens -> [user : Users \cup {Null}, ttl : 0 .. Win]]
  /\ drawn \subseteq Tokens
  /\ req \in [Requests -> [pc : {"idle", "quota", "token", "update", "del"},
                          user : Users \cup {Null}, token : Tokens \cup {Null}]]
  /\ \A r \in Requests : /\ req[r].pc # "idle" => req[r].user \in Users
                         /\ req[r].pc \in {"update", "del"} => req[r].token \in drawn
  /\ Named
  /\ \A r \in Requests : Following(r)

LEMMA LinkInitInv == LinkInit => QuotaInv /\ RequestInv
<1> SUFFICES ASSUME LinkInit PROVE QuotaInv /\ RequestInv
  OBVIOUS
<1>1. QuotaInv
  BY VerificationAssumption DEF LinkInit, QuotaInv, Charged, Distinct, Sends
<1>2. RequestInv
  BY VerificationAssumption DEF LinkInit, RequestInv, Named, Following, NoKey, Idle
<1> QED
  BY <1>1, <1>2

(* A charge renews the day of all the sends that are counted. *)
LEMMA ChargeStep ==
  ASSUME QuotaInv, NEW u \in Users, Charge(u)
  PROVE  QuotaInv'
<1> USE VerificationAssumption
<1> DEFINE n == Incremented(u)
<1>1. quota[u].count \in 0 .. Max + 1
  BY DEF QuotaInv
<1>2. n \in 1 .. Max + 1 /\ quota[u].count <= n /\ (n <= Max => n = quota[u].count + 1)
  BY <1>1 DEF Incremented
<1>3. /\ quota' = [quota EXCEPT ![u] = [count |-> n, ttl |-> Win]]
      /\ recent' = IF n > Max THEN recent ELSE [recent EXCEPT ![u] = @ \cup {Now(n)}]
  BY DEF Charge
<1> HIDE DEF n
<1>4. n <= Max => Now(n) \in Sends /\ Now(n).age = 0 /\ Now(n).nth = n
  BY <1>2 DEF Now, Sends, Ages
<1>5. /\ quota' \in [Users -> [count : 0 .. Max + 1, ttl : 0 .. Win]]
      /\ \A w \in Users : quota'[w] = IF w = u THEN [count |-> n, ttl |-> Win] ELSE quota[w]
  BY <1>2, <1>3 DEF QuotaInv
<1>6. /\ recent' \in [Users -> SUBSET Sends]
      /\ \A w \in Users : recent'[w] = IF w = u /\ n <= Max THEN recent[w] \cup {Now(n)}
                                       ELSE recent[w]
  <2>1. CASE n > Max
    BY <1>2, <1>3, <2>1 DEF QuotaInv
  <2>2. CASE n <= Max
    <3>1. recent' = [recent EXCEPT ![u] = @ \cup {Now(n)}]
      BY <1>2, <1>3, <2>2
    <3> QED
      BY <1>4, <2>2, <3>1 DEF QuotaInv
  <2> QED
    BY <1>2, <2>1, <2>2
<1>7. \A w \in Users : quota'[w].count = 0 <=> quota'[w].ttl = 0
  BY <1>2, <1>5 DEF QuotaInv
<1>8. ASSUME NEW w \in Users
      PROVE  Charged(w)'
  <2>1. /\ Distinct(recent[w])
        /\ \A e \in recent[w] : /\ e.age \in Nat /\ e.nth \in Nat
                                /\ e.nth <= quota[w].count /\ e.age + quota[w].ttl >= Win
    BY DEF QuotaInv, Charged, Sends, Ages
  <2>2. CASE w # u
    BY <1>5, <1>6, <2>1, <2>2 DEF Charged, Distinct
  <2>3. CASE w = u
    <3>1. quota'[w].count = n /\ quota'[w].ttl = Win
      BY <1>5, <2>3
    <3>2. \A e \in recent[w] : e.nth <= n /\ e.age + Win >= Win
      BY <1>1, <1>2, <2>1, <2>3
    <3>3. CASE n > Max
      BY <1>2, <1>6, <2>1, <3>1, <3>2, <3>3 DEF Charged, Distinct
    <3>4. CASE n <= Max
      <4>1. recent'[w] = recent[w] \cup {Now(n)}
        BY <1>6, <2>3, <3>4
      <4>2. \A e \in recent[w] : e.nth < n
        BY <1>1, <1>2, <2>1, <2>3, <3>4
      <4>3. \A e, f \in recent'[w] : e.nth = f.nth => e = f
        BY <1>2, <1>4, <2>1, <3>4, <4>1, <4>2 DEF Distinct
      <4>4. \A e \in recent'[w] : e.nth <= n /\ e.age + Win >= Win
        BY <1>2, <1>4, <3>2, <3>4, <4>1
      <4> QED
        BY <3>1, <4>3, <4>4 DEF Charged, Distinct
    <3> QED
      BY <1>2, <3>3, <3>4
  <2> QED
    BY <2>2, <2>3
<1> QED
  BY <1>5, <1>6, <1>7, <1>8 DEF QuotaInv

(* A key that goes takes no send with it that is less than a day old. *)
LEMMA QuotaTick ==
  ASSUME QuotaInv, LinkTick
  PROVE  QuotaInv'
<1> USE VerificationAssumption
<1>1. ASSUME NEW u \in Users
      PROVE  /\ quota[u] \in [count : 0 .. Max + 1, ttl : 0 .. Win]
             /\ quota'[u] = IF quota[u].ttl <= 1 THEN [count |-> 0, ttl |-> 0]
                            ELSE [quota[u] EXCEPT !.ttl = @ - 1]
  BY DEF QuotaInv, LinkTick
<1>2. DOMAIN quota' = Users /\ DOMAIN recent' = Users
  BY DEF LinkTick
<1>3. ASSUME NEW u \in Users
      PROVE  /\ quota'[u] \in [count : 0 .. Max + 1, ttl : 0 .. Win]
             /\ quota'[u].count = 0 <=> quota'[u].ttl = 0
             /\ quota[u].ttl > 1 => /\ quota'[u].ttl = quota[u].ttl - 1
                                    /\ quota'[u].count = quota[u].count
  <2>1. /\ quota[u].count \in 0 .. Max + 1 /\ quota[u].ttl \in 0 .. Win
        /\ quota[u].count = 0 <=> quota[u].ttl = 0
    BY <1>1 DEF QuotaInv
  <2>2. CASE quota[u].ttl <= 1
    <3>1. quota'[u] = [count |-> 0, ttl |-> 0]
      BY <1>1, <2>2
    <3>2. quota'[u].count = 0 /\ quota'[u].ttl = 0
      BY <3>1
    <3> QED
      BY <2>1, <2>2, <3>1, <3>2
  <2>3. CASE quota[u].ttl > 1
    <3>1. quota'[u] = [quota[u] EXCEPT !.ttl = quota[u].ttl - 1]
      BY <1>1, <2>1, <2>3
    <3>2. quota'[u].count = quota[u].count /\ quota'[u].ttl = quota[u].ttl - 1
      BY <1>1, <3>1
    <3>3. quota[u].ttl - 1 \in 0 .. Win
      BY <2>1, <2>3
    <3>4. quota'[u] \in [count : 0 .. Max + 1, ttl : 0 .. Win]
      BY <1>1, <3>1, <3>3
    <3> QED
      BY <2>1, <2>3, <3>2, <3>4
  <2> QED
    BY <2>1, <2>2, <2>3
<1>4. ASSUME NEW u \in Users, NEW f \in recent'[u]
      PROVE  /\ f \in Sends
             /\ \E e \in recent[u] : /\ f = [e EXCEPT !.age = @ + 1]
                                     /\ f.nth = e.nth /\ f.age = e.age + 1 /\ f.age < Win
  <2>1. PICK e \in recent[u] : e.age + 1 \in Ages /\ f = [e EXCEPT !.age = @ + 1]
    BY <1>4 DEF LinkTick
  <2>2. e \in Sends
    BY DEF QuotaInv
  <2>3. f \in Sends /\ f.nth = e.nth /\ f.age = e.age + 1
    BY <2>1, <2>2 DEF Sends
  <2>4. f.age < Win
    BY <2>3 DEF Sends, Ages
  <2> QED
    BY <2>1, <2>3, <2>4
<1>5. ASSUME NEW u \in Users
      PROVE  Charged(u)'
  <2>1. ASSUME NEW f \in recent'[u]
        PROVE  f.nth <= quota'[u].count /\ f.age + quota'[u].ttl >= Win
    <3>1. PICK e \in recent[u] : f.nth = e.nth /\ f.age = e.age + 1 /\ f.age < Win
      BY <1>4
    <3>2. e.nth <= quota[u].count /\ e.age + quota[u].ttl >= Win
      BY DEF QuotaInv, Charged
    <3>3. e.age \in Nat /\ e.nth \in Nat /\ quota[u].ttl \in Nat
      BY <1>1 DEF QuotaInv, Sends, Ages
    <3>4. quota[u].ttl > 1
      BY <3>1, <3>2, <3>3
    <3> QED
      BY <1>3, <3>1, <3>2, <3>3, <3>4
  <2>2. Distinct(recent[u])
    BY DEF QuotaInv, Charged
  <2>3. ASSUME NEW f \in recent'[u], NEW g \in recent'[u], f.nth = g.nth
        PROVE  f = g
    BY <1>4, <2>2, <2>3 DEF Distinct
  <2> QED
    BY <2>1, <2>3 DEF Charged, Distinct
<1>6. quota' \in [Users -> [count : 0 .. Max + 1, ttl : 0 .. Win]]
  BY <1>2, <1>3 DEF LinkTick
<1>7. recent' \in [Users -> SUBSET Sends]
  BY <1>2, <1>4 DEF LinkTick
<1> QED
  BY <1>3, <1>5, <1>6, <1>7 DEF QuotaInv

LEMMA QuotaStep == QuotaInv /\ RequestInv /\ [LinkNext]_linkVars => QuotaInv'
<1> SUFFICES ASSUME QuotaInv, RequestInv, [LinkNext]_linkVars PROVE QuotaInv'
  OBVIOUS
<1>1. ASSUME NEW r \in Requests, CountSend(r)
      PROVE  QuotaInv'
  <2>1. req[r].user \in Users
    BY <1>1 DEF CountSend, RequestInv
  <2> QED
    BY <1>1, <2>1, ChargeStep DEF CountSend
<1>2. CASE UNCHANGED <<quota, recent>>
  BY <1>2 DEF QuotaInv, Charged
<1> QED
  BY <1>1, <1>2, QuotaTick
     DEF LinkNext, linkVars, CheckVerified, StoreToken, GetToken, MarkVerified, DelToken, Abandon

(* The steps that read and write what requests and links know of each other. *)
LEMMA RequestStep == RequestInv /\ [LinkNext]_linkVars => RequestInv'
<1> SUFFICES ASSUME RequestInv, [LinkNext]_linkVars PROVE RequestInv'
  OBVIOUS
<1> USE VerificationAssumption
<1> DEFINE Asking == [pc : {"idle", "quota", "token", "update", "del"},
                      user : Users \cup {Null}, token : Tokens \cup {Null}]
           Ready(q) == /\ q.pc # "idle" => q.user \in Users
                       /\ q.pc \in {"update", "del"} => q.token \in drawn
                       /\ q.pc \in {"update", "del"} /\ token[q.token].ttl > 0
                            => token[q.token].user = q.user
                       /\ q.pc = "del" => verifiedAt[q.user] # Null
<1>1. /\ verifiedAt \in [Users -> Tokens \cup {Null}]
      /\ token \in [Tokens -> [user : Users \cup {Null}, ttl : 0 .. Win]]
      /\ drawn \subseteq Tokens
      /\ req \in [Requests -> Asking]
      /\ \A s \in Requests : Ready(req[s])
      /\ Named
  BY DEF RequestInv, Following
(* A request's own step, the rest as it was. *)
<1>3. ASSUME NEW r \in Requests, NEW q \in Asking, Become(r, q), Ready(q),
             UNCHANGED <<verifiedAt, token, drawn>>
      PROVE  RequestInv'
  <2>1. req' \in [Requests -> Asking] /\ \A s \in Requests : req'[s] = IF s = r THEN q ELSE req[s]
    BY <1>1, <1>3 DEF Become
  <2> QED
    BY <1>1, <1>3, <2>1 DEF RequestInv, Following, Named
<1>4. Idle \in Asking /\ Ready(Idle)
  BY DEF Idle
<1>5. ASSUME NEW r \in Requests, NEW u \in Users, CheckVerified(r, u)
      PROVE  RequestInv'
  <2> DEFINE q == [Idle EXCEPT !.pc = "quota", !.user = u]
  <2>1. q \in Asking /\ q.pc = "quota" /\ q.user = u
    BY DEF Idle
  <2>2. Become(r, q) /\ UNCHANGED <<verifiedAt, token, drawn>>
    BY <1>5 DEF CheckVerified
  <2> HIDE DEF q
  <2> QED
    BY <1>3, <2>1, <2>2
<1>6. ASSUME NEW r \in Requests, CountSend(r)
      PROVE  RequestInv'
  <2> DEFINE q == [req[r] EXCEPT !.pc = "token"]
  <2>1. q \in Asking /\ q.pc = "token" /\ q.user = req[r].user /\ req[r].user \in Users
    BY <1>1, <1>6 DEF CountSend
  <2>2. (Become(r, q) \/ Become(r, Idle)) /\ UNCHANGED <<verifiedAt, token, drawn>>
    BY <1>6 DEF CountSend
  <2> HIDE DEF q
  <2> QED
    BY <1>3, <1>4, <2>1, <2>2
<1>7. ASSUME NEW r \in Requests, NEW t \in Tokens, StoreToken(r, t)
      PROVE  RequestInv'
  <2>1. /\ t \notin drawn /\ drawn' = drawn \cup {t} /\ verifiedAt' = verifiedAt
        /\ token' = [token EXCEPT ![t] = [user |-> req[r].user, ttl |-> Win]]
        /\ req' = [req EXCEPT ![r] = Idle] /\ req[r].user \in Users
    BY <1>1, <1>7 DEF StoreToken, Become
  <2>2. token' \in [Tokens -> [user : Users \cup {Null}, ttl : 0 .. Win]]
    BY <1>1, <2>1
  <2>3. \A s \in Tokens : token'[s] = IF s = t THEN [user |-> req[r].user, ttl |-> Win] ELSE token[s]
    BY <1>1, <2>1
  <2>4. req' \in [Requests -> Asking] /\ \A s \in Requests : req'[s] = IF s = r THEN Idle ELSE req[s]
    BY <1>1, <1>4, <2>1
  <2>5. Named'
    BY <1>1, <2>1, <2>3 DEF Named
  <2> QED
    BY <1>1, <1>4, <2>1, <2>2, <2>3, <2>4, <2>5 DEF RequestInv, Following
<1>8. ASSUME NEW r \in Requests, NEW t \in Tokens, GetToken(r, t)
      PROVE  RequestInv'
  <2> DEFINE q == [pc |-> "update", user |-> token[t].user, token |-> t]
  <2>1. token[t].user \in Users /\ t \in drawn
    BY <1>1, <1>8 DEF GetToken, Named
  <2>2. q \in Asking /\ q.pc = "update" /\ q.user = token[t].user /\ q.token = t
    BY <2>1
  <2>3. Become(r, q) /\ UNCHANGED <<verifiedAt, token, drawn>>
    BY <1>8 DEF GetToken
  <2> HIDE DEF q
  <2> QED
    BY <1>3, <2>1, <2>2, <2>3
<1>9. ASSUME NEW r \in Requests, MarkVerified(r)
      PROVE  RequestInv'
  <2>1. /\ req[r].pc = "update" /\ req[r].user \in Users /\ req[r].token \in drawn
        /\ verifiedAt' = [verifiedAt EXCEPT ![req[r].user] = IF @ = Null THEN req[r].token ELSE @]
        /\ req' = [req EXCEPT ![r] = [req[r] EXCEPT !.pc = "del"]]
        /\ UNCHANGED <<token, drawn>>
    BY <1>1, <1>9 DEF MarkVerified, Become
  <2>2. verifiedAt' \in [Users -> Tokens \cup {Null}]
    BY <1>1, <2>1
  <2>3. /\ verifiedAt'[req[r].user] # Null
        /\ \A u \in Users : verifiedAt[u] # Null => verifiedAt'[u] # Null
    BY <1>1, <2>1
  <2> DEFINE q == [req[r] EXCEPT !.pc = "del"]
  <2>4. q \in Asking /\ q.pc = "del" /\ q.user = req[r].user /\ q.token = req[r].token
    BY <1>1
  <2> HIDE DEF q
  <2>5. req' \in [Requests -> Asking] /\ \A s \in Requests : req'[s] = IF s = r THEN q ELSE req[s]
    BY <1>1, <2>1, <2>4 DEF q
  <2>6. Named'
    BY <1>1, <2>1 DEF Named
  <2> QED
    BY <1>1, <2>1, <2>2, <2>3, <2>4, <2>5, <2>6 DEF RequestInv, Following
<1>10. ASSUME NEW r \in Requests, DelToken(r)
       PROVE  RequestInv'
  <2>1. CASE token' = token
    BY <1>3, <1>4, <1>10, <2>1 DEF DelToken
  <2>2. CASE token' = [token EXCEPT ![req[r].token] = NoKey]
    <3>1. /\ token' \in [Tokens -> [user : Users \cup {Null}, ttl : 0 .. Win]]
          /\ \A t \in Tokens : token'[t] = token[t] \/ token'[t].ttl = 0
      <4>1. NoKey \in [user : Users \cup {Null}, ttl : 0 .. Win] /\ NoKey.ttl = 0
        BY DEF NoKey
      <4> QED
        BY <1>1, <2>2, <4>1
    <3>2. /\ req' \in [Requests -> Asking] /\ UNCHANGED <<verifiedAt, drawn>>
          /\ \A s \in Requests : req'[s] = IF s = r THEN Idle ELSE req[s]
      BY <1>1, <1>4, <1>10 DEF DelToken, Become
    <3>3. Named'
      BY <1>1, <3>1, <3>2 DEF Named
    <3>4. \A t \in Tokens : token'[t].ttl > 0 => token'[t] = token[t]
      BY <3>1
    <3>5. ASSUME NEW s \in Requests
          PROVE  /\ req'[s].pc # "idle" => req'[s].user \in Users
                 /\ req'[s].pc \in {"update", "del"} => req'[s].token \in drawn'
                 /\ Following(s)'
      <4>1. CASE s = r
        BY <3>2, <4>1 DEF Following, Idle
      <4>2. CASE s # r
        <5>1. req'[s] = req[s] /\ Ready(req[s])
          BY <1>1, <3>2, <4>2
        <5>2. req[s].pc \in {"update", "del"} => req[s].token \in Tokens
          BY <1>1, <5>1
        <5> QED
          BY <3>2, <3>4, <5>1, <5>2 DEF Following
      <4> QED
        BY <4>1, <4>2
    <3> QED
      BY <1>1, <3>1, <3>2, <3>3, <3>5 DEF RequestInv
  <2> QED
    BY <1>10, <2>1, <2>2 DEF DelToken
<1>11. ASSUME NEW r \in Requests, Abandon(r)
       PROVE  RequestInv'
  BY <1>3, <1>4, <1>11 DEF Abandon
<1>12. CASE LinkTick
  <2>1. UNCHANGED <<verifiedAt, drawn, req>>
    BY <1>12 DEF LinkTick
  <2>2. ASSUME NEW t \in Tokens
        PROVE  /\ token'[t] \in [user : Users \cup {Null}, ttl : 0 .. Win]
               /\ token'[t].ttl > 0 => token[t].ttl > 0 /\ token'[t].user = token[t].user
    <3>1. /\ token[t] \in [user : Users \cup {Null}, ttl : 0 .. Win]
          /\ token'[t] = IF token[t].ttl <= 1 THEN NoKey ELSE [token[t] EXCEPT !.ttl = @ - 1]
      BY <1>1, <1>12 DEF LinkTick
    <3>2. CASE token[t].ttl <= 1
      BY <3>1, <3>2 DEF NoKey
    <3>3. CASE token[t].ttl > 1
      BY <3>1, <3>3
    <3> QED
      BY <3>1, <3>2, <3>3
  <2>3. token' \in [Tokens -> [user : Users \cup {Null}, ttl : 0 .. Win]]
    BY <1>12, <2>2 DEF LinkTick
  <2>4. Named'
    BY <1>1, <2>1, <2>2 DEF Named
  <2> QED
    BY <1>1, <2>1, <2>2, <2>3, <2>4 DEF RequestInv, Following
<1>14. CASE UNCHANGED linkVars
  BY <1>14 DEF linkVars, RequestInv, Following, Named
<1> QED
  BY <1>5, <1>6, <1>7, <1>8, <1>9, <1>10, <1>11, <1>12, <1>14 DEF LinkNext

LEMMA LinkInvariance == LinkSpec => [](QuotaInv /\ RequestInv)
<1>1. QuotaInv /\ RequestInv /\ [LinkNext]_linkVars => (QuotaInv /\ RequestInv)'
  BY QuotaStep, RequestStep
<1> QED
  BY LinkInitInv, <1>1, PTL DEF LinkSpec

(* Types, and a request knows what its next step needs, for any number of   *)
(* users, links and requests.                                               *)
THEOREM LinkTypeCorrect == LinkSpec => []LinkTypeOK
<1>1. QuotaInv /\ RequestInv => LinkTypeOK
  BY DEF QuotaInv, RequestInv, LinkTypeOK, Sends
<1> QED
  BY <1>1, LinkInvariance, PTL

(* Over any stretch of a day a user is sent at most Max links, for any Max: *)
(* the sends in sight are told apart by their numbers in one window, which  *)
(* each attempt keeps open for another day.                                 *)
THEOREM QuotaIsKept == LinkSpec => []QuotaBound
<1>1. ASSUME QuotaInv, NEW u \in Users
      PROVE  Cardinality(recent[u]) <= Max
  <2> DEFINE S == recent[u]
             f == [e \in S |-> e.nth]
  <2>1. S \in SUBSET Sends /\ Distinct(S)
    BY <1>1 DEF QuotaInv, Charged
  <2>2. f \in [S -> 1 .. Max] /\ \A a, b \in S : f[a] = f[b] => a = b
    BY <2>1 DEF Sends, Distinct
  <2> HIDE DEF f, S
  <2>3. f \in Injection(S, 1 .. Max)
    BY <2>2, Fun_IsInj
  <2>4. IsFiniteSet(1 .. Max) /\ Cardinality(1 .. Max) = Max
    BY FS_Interval, VerificationAssumption
  <2> QED
    BY <2>3, <2>4, FS_Injection DEF S
<1>2. QuotaInv => QuotaBound
  BY <1>1 DEF QuotaBound
<1> QED
  BY <1>2, LinkInvariance, PTL

(* Whichever links are followed, at the same time or later, the time of the *)
(* first verification stays.                                                *)
THEOREM FirstVerificationStays == LinkSpec => VerifiedOnce
<1>1. RequestInv /\ [LinkNext]_linkVars
        => [\A u \in Users : verifiedAt[u] # Null => verifiedAt'[u] = verifiedAt[u]]_linkVars
  <2> SUFFICES ASSUME RequestInv, [LinkNext]_linkVars, NEW u \in Users, verifiedAt[u] # Null
               PROVE  verifiedAt'[u] = verifiedAt[u]
    OBVIOUS
  <2>1. CASE verifiedAt' = verifiedAt
    BY <2>1
  <2>2. CASE \E r \in Requests : MarkVerified(r)
    BY <2>2 DEF MarkVerified, RequestInv
  <2> QED
    BY <2>1, <2>2 DEF LinkNext, linkVars, CheckVerified, CountSend, StoreToken, GetToken,
       DelToken, Abandon, LinkTick
<1> QED
  BY <1>1, LinkInvariance, PTL DEF LinkSpec, VerifiedOnce

(* A link goes before its time only by the request that has seen its user   *)
(* verified: one that failed half-way left it in place.                     *)
THEOREM FailedLinkStays == LinkSpec => LinkKeepsWorking
<1>1. RequestInv /\ [LinkNext]_linkVars
        => [\A t \in Tokens : token[t].ttl > 1 /\ token'[t].ttl = 0
             => verifiedAt[token[t].user] # Null]_linkVars
  <2> SUFFICES ASSUME RequestInv, [LinkNext]_linkVars, NEW t \in Tokens,
                      token[t].ttl > 1, token'[t].ttl = 0
               PROVE  verifiedAt[token[t].user] # Null
    OBVIOUS
  <2>1. token \in [Tokens -> [user : Users \cup {Null}, ttl : 0 .. Win]] /\ token[t].ttl \in Nat
    BY VerificationAssumption DEF RequestInv
  <2>2. CASE token' = token
    BY <2>1, <2>2
  <2>3. ASSUME NEW r \in Requests, DelToken(r)
        PROVE  verifiedAt[token[t].user] # Null
    <3>1. CASE req[r].token = t
      BY <2>3, <3>1 DEF DelToken, RequestInv, Following
    <3>2. CASE req[r].token # t
      BY <2>1, <2>3, <3>2 DEF DelToken
    <3> QED
      BY <3>1, <3>2
  <2>4. ASSUME NEW r \in Requests, NEW s \in Tokens, StoreToken(r, s)
        PROVE  FALSE
    BY <2>1, <2>4, VerificationAssumption DEF StoreToken
  <2>5. CASE LinkTick
    BY <2>1, <2>5 DEF LinkTick
  <2> QED
    BY <2>2, <2>3, <2>4, <2>5 DEF LinkNext, linkVars, CheckVerified, CountSend, GetToken,
       MarkVerified, Abandon
<1> QED
  BY <1>1, LinkInvariance, PTL DEF LinkSpec, LinkKeepsWorking
=============================================================================
