-------------------------- MODULE LoginRouteProofs --------------------------
(***************************************************************************)
(* Theorems about the pool of connections (ConnPool), for any size of the  *)
(* pool and any number of requests and books; and about the login route in *)
(* front of it (LoginRoute), for any limit and window: each part keeps     *)
(* beside the other what it keeps alone.                                   *)
(***************************************************************************)
EXTENDS LoginRoute, FiniteSetTheorems, FunctionTheorems, TLAPS

(* Only lists have rows open, and past its query a list has.  *)
OnlyListsNest ==
  \A r \in Requests :
    /\ at[r] \in {"count", "rows", "scan", "authors", "categories"} => r \in Listers
    /\ at[r] \in {"scan", "authors", "categories"} => r \in open

Inv == TypeOK /\ OnlyListsNest

LEMMA RequestsFinite == IsFiniteSet(Requests)
BY ConnPoolAssumption, FS_Union DEF Requests

(* Connections are counted in natural numbers. *)
LEMMA Counting ==
  ASSUME NEW S \in SUBSET Requests, NEW r \in Requests
  PROVE  /\ Cardinality(S) \in Nat
         /\ Cardinality(S \ {r}) \in Nat /\ Cardinality(S \cup {r}) \in Nat
         /\ Cardinality(S \ {r}) = IF r \in S THEN Cardinality(S) - 1 ELSE Cardinality(S)
         /\ Cardinality(S \cup {r}) = IF r \in S THEN Cardinality(S) ELSE Cardinality(S) + 1
<1>1. IsFiniteSet(S)
  BY RequestsFinite, FS_Subset
<1>2. IsFiniteSet(S \ {r}) /\ IsFiniteSet(S \cup {r})
  BY <1>1, FS_RemoveElement, FS_AddElement
<1>3. Cardinality(S \ {r}) = IF r \in S THEN Cardinality(S) - 1 ELSE Cardinality(S)
  BY <1>1, FS_RemoveElement
<1>4. Cardinality(S \cup {r}) = IF r \in S THEN Cardinality(S) ELSE Cardinality(S) + 1
  BY <1>1, FS_AddElement
<1> QED
  BY <1>1, <1>2, <1>3, <1>4, FS_CardinalityType

(* What the steps do to the number of connections out. *)
LEMMA Moving ==
  ASSUME TypeOK, NEW r \in Requests
  PROVE  /\ InUse < MaxOpen => Cardinality(open) + Cardinality(busy \cup {r}) <= MaxOpen
         /\ Cardinality(open) + Cardinality(busy \ {r}) <= MaxOpen
         /\ Cardinality(open \ {r}) + Cardinality(busy) <= MaxOpen
         /\ Cardinality(open \ {r}) + Cardinality(busy \ {r}) <= MaxOpen
         /\ r \in busy => Cardinality(open \cup {r}) + Cardinality(busy \ {r}) <= MaxOpen
<1>1. /\ open \in SUBSET Requests /\ busy \in SUBSET Requests
      /\ InUse = Cardinality(open) + Cardinality(busy) /\ InUse <= MaxOpen
  BY DEF TypeOK, InUse
<1>2. MaxOpen \in Nat
  BY ConnPoolAssumption
<1>3. /\ Cardinality(open) \in Nat
      /\ Cardinality(open \ {r}) \in Nat /\ Cardinality(open \ {r}) <= Cardinality(open)
      /\ Cardinality(open \cup {r}) \in Nat /\ Cardinality(open \cup {r}) <= Cardinality(open) + 1
  <2>1. open \in SUBSET Requests
    BY <1>1
  <2>2. /\ Cardinality(open) \in Nat
        /\ Cardinality(open \ {r}) \in Nat /\ Cardinality(open \cup {r}) \in Nat
        /\ Cardinality(open \ {r}) = IF r \in open THEN Cardinality(open) - 1 ELSE Cardinality(open)
        /\ Cardinality(open \cup {r}) = IF r \in open THEN Cardinality(open) ELSE Cardinality(open) + 1
    BY <2>1, Counting
  <2> QED
    BY <2>2
<1>4. /\ Cardinality(busy) \in Nat
      /\ Cardinality(busy \ {r}) \in Nat /\ Cardinality(busy \ {r}) <= Cardinality(busy)
      /\ r \in busy => Cardinality(busy \ {r}) = Cardinality(busy) - 1
      /\ Cardinality(busy \cup {r}) \in Nat /\ Cardinality(busy \cup {r}) <= Cardinality(busy) + 1
  BY <1>1, Counting
<1> QED
  BY <1>1, <1>2, <1>3, <1>4

LEMMA InitInv == Init => Inv
<1> SUFFICES ASSUME Init PROVE Inv
  OBVIOUS
<1>1. Cardinality(open) = 0 /\ Cardinality(busy) = 0
  BY FS_EmptySet DEF Init
<1>2. InUse <= MaxOpen
  BY <1>1, ConnPoolAssumption DEF InUse
<1> QED
  BY <1>2, ConnPoolAssumption DEF Init, Inv, TypeOK, OnlyListsNest

LEMMA NextInv == Inv /\ [Next]_vars => Inv'
<1> SUFFICES ASSUME Inv, [Next]_vars PROVE Inv'
  OBVIOUS
<1> USE ConnPoolAssumption DEF Inv, TypeOK, OnlyListsNest, Statements
<1>1. ASSUME NEW r \in Requests, Begin(r) PROVE Inv'
  BY <1>1 DEF Begin, InUse, Requests
<1>2. ASSUME NEW r \in Requests, Acquire(r) PROVE Inv'
  <2>1. InUse' <= MaxOpen
    BY <1>2, Moving DEF Acquire, InUse
  <2> QED
    BY <1>2, <2>1 DEF Acquire, Waiting
<1>3. ASSUME NEW r \in Requests, NEW from, NEW to \in {"rows", "categories", "scan", "idle"},
             Done(r, from, to),
             to = "rows" => from = "count",
             to = "categories" => from = "authors",
             to = "scan" => from = "categories",
             to = "idle" => from = "statement"
      PROVE  Inv'
  <2>1. InUse' <= MaxOpen
    BY <1>3, Moving DEF Done, InUse
  <2>2. r \in open => from \in {"authors", "categories"}
    BY <1>3 DEF Done
  <2> QED
    BY <1>3, <2>1, <2>2 DEF Done
<1>4. ASSUME NEW r \in Requests, Rows(r) PROVE Inv'
  <2>1. InUse' <= MaxOpen
    BY <1>4, Moving DEF Rows, InUse
  <2> QED
    BY <1>4, <2>1 DEF Rows
<1>5. ASSUME NEW r \in Requests, NextRow(r) PROVE Inv'
  <2>1. r \notin busy
    BY <1>5 DEF NextRow
  <2> QED
    BY <1>5, <2>1 DEF NextRow, InUse
<1>6. ASSUME NEW r \in Requests, LastRow(r) PROVE Inv'
  <2>1. InUse' <= MaxOpen
    BY <1>6, Moving DEF LastRow, InUse
  <2> QED
    BY <1>6, <2>1 DEF LastRow
<1>7. ASSUME NEW r \in Requests, Return(r) PROVE Inv'
  <2>1. InUse' <= MaxOpen
    BY <1>7, Moving DEF Return, InUse
  <2> QED
    BY <1>7, <2>1 DEF Return
<1>8. CASE UNCHANGED vars
  BY <1>8 DEF vars, InUse
<1>9. ASSUME NEW r \in Requests, Work(r) PROVE Inv'
  BY <1>9, <1>3, <1>4, <1>5, <1>6, <1>7
     DEF Work, Count, Authors, Categories, Other, Fail
<1> QED
  BY <1>1, <1>2, <1>7, <1>8, <1>9 DEF Next, Leave

LEMMA Invariance == Spec => []Inv
BY InitInv, NextInv, PTL DEF Spec

(* The pool never lends more connections than it may, and the program       *)
(* points are what the model takes them for.                                *)
THEOREM TypeCorrect == Spec => []TypeOK
BY Invariance, PTL DEF Inv

(* Nobody but lists holds a connection and waits for another, so that, for  *)
(* any size of the pool, any number of requests and whatever they do,       *)
(* requests wait for each other only when as many lists as the pool has     *)
(* connections are half-way through their pages.                            *)
THEOREM OnlyListsGridlockIt == Spec => []OnlyListsGridlock
<1>1. Inv => OnlyListsGridlock
  <2> SUFFICES ASSUME Inv, Gridlocked PROVE Cardinality(Nesting) >= MaxOpen
    BY DEF OnlyListsGridlock
  <2> USE ConnPoolAssumption DEF Inv, TypeOK
  <2>1. open \subseteq Nesting
    <3> SUFFICES ASSUME NEW r \in open PROVE r \in Nesting
      OBVIOUS
    <3>1. at[r] \in {"authors", "categories"}
      BY DEF Gridlocked, Waiting, Statements
    <3>2. r \in Listers
      BY <3>1 DEF OnlyListsNest
    <3> QED
      BY <3>1, <3>2 DEF Nesting
  <2>2. IsFiniteSet(Nesting)
    BY FS_Subset DEF Nesting
  <2>3. Cardinality(open) <= Cardinality(Nesting) /\ IsFiniteSet(open)
    BY <2>1, <2>2, FS_Subset
  <2>4. Cardinality(open) \in Nat /\ Cardinality(Nesting) \in Nat /\ Cardinality(busy) = 0
    BY <2>2, <2>3, FS_CardinalityType, FS_EmptySet DEF Gridlocked
  <2> QED
    BY <2>3, <2>4 DEF InUse, Gridlocked
<1> QED
  BY <1>1, Invariance, PTL

(* Out of it there is no way but a client's: with every connection held no  *)
(* statement gets one, and none is at work that could end or fail.          *)
LEMMA StaysGridlocked ==
  Inv /\ [Next]_vars => (Gridlocked => Gridlocked' \/ \E r \in Requests : Leave(r))
<1> SUFFICES ASSUME Inv, [Next]_vars, Gridlocked, ~ \E r \in Requests : Leave(r)
             PROVE  Gridlocked'
  OBVIOUS
<1> USE ConnPoolAssumption DEF Inv, TypeOK
<1>1. busy = {} /\ InUse = MaxOpen /\ \A r \in open : Waiting(r)
  BY DEF Gridlocked
<1>2. ASSUME NEW r \in Requests, Begin(r) PROVE Gridlocked'
  <2>1. r \notin open
    BY <1>2 DEF Begin
  <2> QED
    BY <1>1, <1>2, <2>1 DEF Begin, Gridlocked, Waiting, InUse
<1>3. ASSUME NEW r \in Requests, Acquire(r) PROVE FALSE
  BY <1>1, <1>3 DEF Acquire
<1>4. ASSUME NEW r \in Requests, Work(r) PROVE FALSE
  <2>1. r \notin busy /\ (at[r] = "scan" => r \in open /\ Waiting(r))
    BY <1>1 DEF OnlyListsNest
  <2>2. at[r] # "scan"
    BY <2>1 DEF Waiting, Statements
  <2> QED
    BY <1>4, <2>1, <2>2
       DEF Work, Count, Rows, NextRow, Authors, Categories, LastRow, Other, Fail, Done
<1>5. CASE UNCHANGED vars
  BY <1>1, <1>5 DEF vars, Gridlocked, Waiting, InUse
<1> QED
  BY <1>2, <1>3, <1>4, <1>5 DEF Next

THEOREM GridlockHolds == Spec => GridlockLasts
BY StaysGridlocked, Invariance, PTL DEF Spec, GridlockLasts

-----------------------------------------------------------------------------
(* What the route does to the pool is what the pool does on its own, so the *)
(* theorems above hold beside the limiter.                                  *)
THEOREM RouteUsesPool == RouteSpec => Spec
<1>1. RouteInit => Init
  BY DEF RouteInit
<1>2. [RouteNext]_routeVars => [Next]_vars
  <2>1. \A r \in Logins : r \in Requests
    BY LoginRouteAssumption DEF Requests
  <2> QED
    BY <2>1 DEF RouteNext, Attempt, AttemptUncounted, SetTTL, Login, Tick, Pool, Next, routeVars
<1> QED
  BY <1>1, <1>2, PTL DEF RouteSpec, Spec

(* Nor does the pool touch the limiter. *)
LEMMA RouteLimits == [RouteNext]_routeVars => [Limiter!Next]_(Limiter!vars)
BY DEF RouteNext, Attempt, AttemptUncounted, SetTTL, Login, Tick, Pool, routeVars, limiterVars,
       Limiter!Next, Limiter!vars

THEOREM RouteUsesLimiter == RouteSpec => Limiter!Spec
<1>1. RouteInit => Limiter!Init
  BY DEF RouteInit
<1> QED
  BY <1>1, RouteLimits, PTL DEF RouteSpec, Limiter!Spec

-----------------------------------------------------------------------------
Attempts == [age : Limiter!Ages, nth : 1 .. Max]

(* Attempts of one key: no number comes twice. *)
OneKey(S) == \A e, f \in S : e.nth = f.nth => e = f

(* The attempts let through in the last Win ticks are those of two keys.    *)
(* The old one had its TTL set once, after its first attempt, so that the   *)
(* first is out of sight by now; what is left of it goes, at the latest,    *)
(* when the key there is now goes, and so does the first attempt of that.   *)
TwoKeys(old, new) ==
  /\ recent = old \cup new
  /\ OneKey(old) /\ OneKey(new)
  /\ \A e \in old : e.nth > 1 /\ (ttl > 0 => e.age + ttl >= Win)
  /\ \A e \in new : e.nth <= count /\ (e.nth = 1 /\ ttl > 0 => e.age + ttl >= Win)

LimiterInv ==
  /\ LimiterTypeOK
  /\ setting # {} => count > 0 /\ ttl = 0
  /\ \E old \in SUBSET recent, new \in SUBSET recent : TwoKeys(old, new)

(* A tick passes for a set of attempts. *)
Older(S) == {[e EXCEPT !.age = @ + 1] : e \in {x \in S : x.age + 1 \in Limiter!Ages}}

LEMMA OlderFacts ==
  ASSUME NEW S \in SUBSET Attempts
  PROVE  /\ Older(S) \in SUBSET Attempts
         /\ \A f \in Older(S) : \E e \in S : /\ f = [e EXCEPT !.age = @ + 1]
                                             /\ f.nth = e.nth /\ f.age = e.age + 1
                                             /\ e.age + 1 < Win
         /\ OneKey(S) => OneKey(Older(S))
<1>1. ASSUME NEW f \in Older(S)
      PROVE  /\ f \in Attempts
             /\ \E e \in S : /\ f = [e EXCEPT !.age = @ + 1]
                             /\ f.nth = e.nth /\ f.age = e.age + 1
                             /\ e.age + 1 < Win
  <2>1. PICK e \in S : e.age + 1 \in Limiter!Ages /\ f = [e EXCEPT !.age = @ + 1]
    BY DEF Older
  <2>2. e \in Attempts
    OBVIOUS
  <2>3. f.nth = e.nth /\ f.age = e.age + 1 /\ f \in Attempts
    BY <2>1, <2>2 DEF Attempts
  <2>4. e.age + 1 < Win
    BY <2>1, LoginRouteAssumption DEF Limiter!Ages
  <2> QED
    BY <2>1, <2>3, <2>4
<1>2. ASSUME OneKey(S), NEW f \in Older(S), NEW g \in Older(S), f.nth = g.nth
      PROVE  f = g
  BY <1>1, <1>2 DEF OneKey
<1> QED
  BY <1>1, <1>2 DEF OneKey

LEMMA OlderUnion == ASSUME NEW S, NEW T PROVE Older(S \cup T) = Older(S) \cup Older(T)
BY DEF Older

LEMMA LimiterInit == RouteInit => LimiterInv
<1> SUFFICES ASSUME RouteInit PROVE LimiterInv
  OBVIOUS
<1> USE LoginRouteAssumption DEF RouteInit, Limiter!Init
<1>1. LimiterTypeOK /\ setting = {}
  BY DEF LimiterTypeOK, Limiter!TypeOK
<1>2. TwoKeys({}, {})
  BY DEF TwoKeys, OneKey
<1> QED
  BY <1>1, <1>2 DEF LimiterInv

(* An attempt is counted: it joins those of the key there is, and was not   *)
(* among them.                                                              *)
LEMMA IncrStep ==
  ASSUME LimiterInv, NEW r \in Logins, Limiter!Incr(r), passed' \subseteq Logins
  PROVE  LimiterInv'
<1> USE LoginRouteAssumption
<1> DEFINE n == Limiter!Incremented
<1>1. /\ count \in 0 .. Max + 1 /\ ttl \in 0 .. Win /\ recent \in SUBSET Attempts
      /\ setting \subseteq Logins /\ (count = 0 => ttl = 0)
      /\ \A q, s \in setting : q = s
      /\ setting # {} => count > 0 /\ ttl = 0
  BY DEF LimiterInv, LimiterTypeOK, Limiter!TypeOK, Attempts
<1>2. /\ count' = n /\ ttl' = ttl
      /\ setting' = (IF n = 1 THEN setting \cup {r} ELSE setting)
      /\ recent' = (IF n > Max THEN recent ELSE recent \cup {Limiter!Now(n)})
  BY DEF Limiter!Incr, Limiter!Counted
<1>3. /\ n \in 1 .. Max + 1 /\ count <= n /\ (n <= Max => n = count + 1)
  BY <1>1 DEF Limiter!Incremented
<1> HIDE DEF n
<1>4. n = 1 => count = 0 /\ setting = {} /\ ttl = 0
  BY <1>1, <1>3
<1>5. n <= Max => /\ Limiter!Now(n) \in Attempts
                  /\ Limiter!Now(n).age = 0 /\ Limiter!Now(n).nth = n
  BY <1>3 DEF Limiter!Now, Limiter!Ages, Attempts
<1>6. LimiterTypeOK'
  <2>1. recent' \in SUBSET Attempts
    BY <1>1, <1>2, <1>3, <1>5
  <2>2. count' \in 0 .. Max + 1 /\ ttl' \in 0 .. Win /\ (count' = 0 => ttl' = 0)
    BY <1>1, <1>2, <1>3
  <2>3. setting' \subseteq Logins /\ \A q, s \in setting' : q = s
    BY <1>1, <1>2, <1>4
  <2> QED
    BY <2>1, <2>2, <2>3 DEF LimiterTypeOK, Limiter!TypeOK, Attempts, Limiter!Ages
<1>7. setting' # {} => count' > 0 /\ ttl' = 0
  BY <1>1, <1>2, <1>3, <1>4
<1>8. PICK old \in SUBSET recent, new \in SUBSET recent : TwoKeys(old, new)
  BY DEF LimiterInv
<1>9. CASE n > Max
  <2>1. TwoKeys(old, new)'
    BY <1>1, <1>2, <1>3, <1>8, <1>9 DEF TwoKeys, Attempts
  <2> QED
    BY <1>2, <1>6, <1>7, <1>9, <2>1 DEF LimiterInv
<1>10. CASE n <= Max
  <2> DEFINE x == Limiter!Now(n)
             more == new \cup {x}
  <2>1. x.age = 0 /\ x.nth = n /\ n = count + 1 /\ recent' = recent \cup {x}
    BY <1>2, <1>3, <1>5, <1>10
  <2> HIDE DEF x
  <2>2. \A e \in new : e.nth \in Nat /\ e.nth <= count
    BY <1>1, <1>8 DEF TwoKeys, Attempts
  <2>3. OneKey(more)
    BY <1>1, <1>8, <2>1, <2>2 DEF TwoKeys, OneKey
  <2>4. \A e \in more : e.nth <= n /\ (e.nth = 1 /\ ttl > 0 => e.age + ttl >= Win)
    BY <1>1, <1>4, <1>8, <2>1, <2>2 DEF TwoKeys
  <2>5. recent' = old \cup more
    BY <1>8, <2>1 DEF TwoKeys
  <2>6. OneKey(old) /\ \A e \in old : e.nth > 1 /\ (ttl > 0 => e.age + ttl >= Win)
    BY <1>8 DEF TwoKeys
  <2> HIDE DEF more
  <2>7. \E a \in SUBSET recent', b \in SUBSET recent' :
          /\ recent' = a \cup b /\ OneKey(a) /\ OneKey(b)
          /\ \A e \in a : e.nth > 1 /\ (ttl' > 0 => e.age + ttl' >= Win)
          /\ \A e \in b : e.nth <= count' /\ (e.nth = 1 /\ ttl' > 0 => e.age + ttl' >= Win)
    BY <1>2, <2>3, <2>4, <2>5, <2>6
  <2> QED
    BY <1>6, <1>7, <2>7 DEF LimiterInv, TwoKeys, OneKey
<1> QED
  BY <1>3, <1>9, <1>10

(* A tick: when the key goes, what is in sight of it becomes the old key's. *)
LEMMA TickStep ==
  ASSUME LimiterInv, Limiter!Tick, passed' = passed
  PROVE  LimiterInv'
<1> USE LoginRouteAssumption
<1>1. /\ count \in 0 .. Max + 1 /\ ttl \in 0 .. Win /\ recent \in SUBSET Attempts
      /\ setting \subseteq Logins /\ (count = 0 => ttl = 0)
      /\ \A q, s \in setting : q = s
      /\ setting # {} => count > 0 /\ ttl = 0
  BY DEF LimiterInv, LimiterTypeOK, Limiter!TypeOK, Attempts
<1>2. /\ ttl' = (IF ttl = 0 THEN 0 ELSE ttl - 1)
      /\ count' = (IF ttl = 1 THEN 0 ELSE count)
      /\ recent' = Older(recent) /\ setting' = setting
  BY DEF Limiter!Tick, Older
<1>3. LimiterTypeOK'
  <2>1. recent' \in SUBSET Attempts
    BY <1>1, <1>2, OlderFacts
  <2>2. count' \in 0 .. Max + 1 /\ ttl' \in 0 .. Win /\ (count' = 0 => ttl' = 0)
    BY <1>1, <1>2
  <2>3. setting' \subseteq Logins /\ (\A q, s \in setting' : q = s) /\ passed' \subseteq Logins
    BY <1>1, <1>2 DEF LimiterInv, LimiterTypeOK
  <2> QED
    BY <2>1, <2>2, <2>3 DEF LimiterTypeOK, Limiter!TypeOK, Attempts, Limiter!Ages
<1>4. setting' # {} => count' > 0 /\ ttl' = 0
  BY <1>1, <1>2
<1>5. PICK old \in SUBSET recent, new \in SUBSET recent : TwoKeys(old, new)
  BY DEF LimiterInv
<1>6. /\ recent' = Older(old) \cup Older(new)
      /\ OneKey(Older(old)) /\ OneKey(Older(new))
  <2>1. recent = old \cup new /\ OneKey(old) /\ OneKey(new)
    BY <1>5 DEF TwoKeys
  <2>2. old \in SUBSET Attempts /\ new \in SUBSET Attempts
    BY <1>1
  <2> QED
    BY <1>2, <2>1, <2>2, OlderFacts, OlderUnion
<1>7. ASSUME NEW f \in Older(old)
      PROVE  f.nth > 1 /\ ttl # 1 /\ (ttl > 1 => f.age + (ttl - 1) >= Win)
  <2>1. PICK e \in old : f.nth = e.nth /\ f.age = e.age + 1 /\ e.age + 1 < Win
    BY <1>1, OlderFacts
  <2>2. e.age \in Nat /\ e.nth > 1 /\ (ttl > 0 => e.age + ttl >= Win)
    BY <1>1, <1>5 DEF TwoKeys, Attempts, Limiter!Ages
  <2> QED
    BY <1>1, <2>1, <2>2
<1>8. ASSUME NEW f \in Older(new)
      PROVE  /\ f.nth \in 1 .. Max /\ f.nth <= count
             /\ f.nth = 1 => ttl # 1 /\ (ttl > 1 => f.age + (ttl - 1) >= Win)
  <2>1. PICK e \in new : f.nth = e.nth /\ f.age = e.age + 1 /\ e.age + 1 < Win
    BY <1>1, OlderFacts
  <2>2. /\ e.age \in Nat /\ e.nth \in 1 .. Max /\ e.nth <= count
        /\ e.nth = 1 /\ ttl > 0 => e.age + ttl >= Win
    BY <1>1, <1>5 DEF TwoKeys, Attempts, Limiter!Ages
  <2> QED
    BY <1>1, <2>1, <2>2
<1>9. CASE ttl = 1
  <2>1. Older(old) = {} /\ recent' = Older(new)
    BY <1>6, <1>7, <1>9
  <2>2. \A e \in Older(new) : e.nth > 1
    BY <1>8, <1>9
  <2>3. TwoKeys(Older(new), {})'
    BY <1>2, <1>6, <1>9, <2>1, <2>2 DEF TwoKeys, OneKey, Older
  <2> QED
    BY <1>3, <1>4, <2>1, <2>3 DEF LimiterInv, Older
<1>10. CASE ttl # 1
  <2> DEFINE o == Older(old)
             w == Older(new)
  <2>1. /\ recent' = o \cup w /\ OneKey(o) /\ OneKey(w)
        /\ ttl' \in Nat /\ (ttl' > 0 => ttl > 1 /\ ttl' = ttl - 1) /\ count' = count
    BY <1>1, <1>2, <1>6, <1>10
  <2>2. \A e \in o : e.nth > 1 /\ (ttl' > 0 => e.age + ttl' >= Win)
    BY <1>7, <2>1
  <2>3. \A e \in w : e.nth <= count' /\ (e.nth = 1 /\ ttl' > 0 => e.age + ttl' >= Win)
    BY <1>8, <2>1
  <2> HIDE DEF o, w
  <2>4. \E x \in SUBSET recent', y \in SUBSET recent' :
          /\ recent' = x \cup y /\ OneKey(x) /\ OneKey(y)
          /\ \A e \in x : e.nth > 1 /\ (ttl' > 0 => e.age + ttl' >= Win)
          /\ \A e \in y : e.nth <= count' /\ (e.nth = 1 /\ ttl' > 0 => e.age + ttl' >= Win)
    BY <2>1, <2>2, <2>3
  <2> QED
    BY <1>3, <1>4, <2>4 DEF LimiterInv, TwoKeys, OneKey
<1> QED
  BY <1>9, <1>10

LEMMA LimiterStep == LimiterInv /\ [RouteNext]_routeVars => LimiterInv'
<1> SUFFICES ASSUME LimiterInv, [RouteNext]_routeVars PROVE LimiterInv'
  OBVIOUS
<1> USE LoginRouteAssumption
<1>1. /\ count \in 0 .. Max + 1 /\ ttl \in 0 .. Win /\ recent \in SUBSET Attempts
      /\ setting \subseteq Logins /\ (count = 0 => ttl = 0) /\ passed \subseteq Logins
      /\ \A q, s \in setting : q = s
      /\ setting # {} => count > 0 /\ ttl = 0
  BY DEF LimiterInv, LimiterTypeOK, Limiter!TypeOK, Attempts
<1>2. PICK old \in SUBSET recent, new \in SUBSET recent : TwoKeys(old, new)
  BY DEF LimiterInv
<1>3. passed' \subseteq Logins
  BY <1>1 DEF RouteNext, Attempt, AttemptUncounted, SetTTL, Login, Tick, Pool, routeVars
<1>4. ASSUME NEW r \in Logins, Limiter!Incr(r)
      PROVE  LimiterInv'
  BY <1>3, <1>4, IncrStep
<1>5. ASSUME Limiter!IncrLost
      PROVE  LimiterInv'
  <2>1. /\ count' \in 1 .. Max + 1 /\ count <= count'
        /\ UNCHANGED <<ttl, setting, recent>>
    BY <1>1, <1>5 DEF Limiter!IncrLost, Limiter!Incremented
  <2>2. LimiterTypeOK'
    BY <1>1, <1>3, <2>1 DEF LimiterTypeOK, Limiter!TypeOK, Attempts, Limiter!Ages
  <2>3. TwoKeys(old, new)'
    BY <1>1, <1>2, <2>1 DEF TwoKeys, OneKey, Attempts
  <2> QED
    BY <1>1, <2>1, <2>2, <2>3 DEF LimiterInv
<1>6. ASSUME NEW r \in Logins, Limiter!Expire(r) \/ Limiter!ExpireFails(r)
      PROVE  LimiterInv'
  <2>1. /\ r \in setting /\ setting' = setting \ {r} /\ ttl' \in {ttl, Win}
        /\ UNCHANGED <<count, recent>>
    BY <1>6 DEF Limiter!Expire, Limiter!ExpireFails
  <2>2. setting' = {} /\ count > 0 /\ ttl = 0
    BY <1>1, <2>1
  <2>3. LimiterTypeOK'
    BY <1>1, <1>3, <2>1, <2>2 DEF LimiterTypeOK, Limiter!TypeOK, Attempts, Limiter!Ages
  <2>4. \A e \in recent : e.age \in Nat
    BY <1>1 DEF Attempts, Limiter!Ages
  <2>5. TwoKeys(old, new)'
    BY <1>2, <2>1, <2>2, <2>4 DEF TwoKeys, OneKey
  <2> QED
    BY <2>1, <2>2, <2>3, <2>5 DEF LimiterInv
<1>7. CASE UNCHANGED limiterVars
  BY <1>1, <1>2, <1>3, <1>7
     DEF limiterVars, LimiterInv, LimiterTypeOK, Limiter!TypeOK, TwoKeys, OneKey
<1>8. CASE Tick
  BY <1>8, TickStep DEF Tick
<1> QED
  BY <1>4, <1>5, <1>6, <1>7, <1>8
     DEF RouteNext, Attempt, AttemptUncounted, SetTTL, Login, Pool, routeVars

LEMMA LimiterInvariance == RouteSpec => []LimiterInv
BY LimiterInit, LimiterStep, PTL DEF RouteSpec

(* A key has one request at most about to set its TTL, and counts no more   *)
(* than it is asked about.                                                  *)
THEOREM LimiterTypeCorrect == RouteSpec => []LimiterTypeOK
BY LimiterInvariance, PTL DEF LimiterInv

(* As many attempts as numbers, when no number comes twice. *)
LEMMA CountOfKey ==
  ASSUME NEW S \in SUBSET Attempts, OneKey(S), NEW lo \in {1, 2}, \A e \in S : e.nth >= lo
  PROVE  IsFiniteSet(S) /\ Cardinality(S) \in Nat /\ Cardinality(S) <= Max - lo + 1
<1> USE LoginRouteAssumption
<1> DEFINE f == [e \in S |-> e.nth]
<1>1. f \in [S -> lo .. Max]
  BY DEF Attempts
<1>2. \A a, b \in S : f[a] = f[b] => a = b
  BY DEF OneKey
<1> HIDE DEF f
<1>3. f \in Injection(S, lo .. Max)
  BY <1>1, <1>2, Fun_IsInj
<1>4. IsFiniteSet(lo .. Max) /\ Cardinality(lo .. Max) = Max - lo + 1
  BY FS_Interval
<1>5. IsFiniteSet(S) /\ Cardinality(S) <= Max - lo + 1
  BY <1>3, <1>4, FS_Injection
<1> QED
  BY <1>5, FS_CardinalityType

(* Over any stretch of the window's length the limiter lets through at most *)
(* twice the limit, less one, for any limit and window, however the calls   *)
(* of Redis overlap or fail.                                                *)
THEOREM RateOfLogins == RouteSpec => []WindowBound
<1>1. LimiterInv => WindowBound
  <2> SUFFICES ASSUME LimiterInv PROVE Cardinality(recent) <= 2 * Max - 1
    BY DEF WindowBound, Limiter!WindowBound, Cardinality, Limiter!Cardinality
  <2>1. recent \in SUBSET Attempts
    BY DEF LimiterInv, LimiterTypeOK, Limiter!TypeOK, Attempts
  <2>2. PICK old \in SUBSET recent, new \in SUBSET recent : TwoKeys(old, new)
    BY DEF LimiterInv
  <2>3. IsFiniteSet(old) /\ Cardinality(old) \in Nat /\ Cardinality(old) <= Max - 1
    <3>1. OneKey(old) /\ \A e \in old : e.nth \in Nat /\ e.nth >= 2
      BY <2>1, <2>2 DEF TwoKeys, Attempts
    <3>2. Cardinality(old) <= Max - 2 + 1 /\ IsFiniteSet(old) /\ Cardinality(old) \in Nat
      BY <2>1, <3>1, CountOfKey
    <3> QED
      BY <3>2, LoginRouteAssumption
  <2>4. IsFiniteSet(new) /\ Cardinality(new) \in Nat /\ Cardinality(new) <= Max
    <3>1. OneKey(new) /\ \A e \in new : e.nth >= 1
      BY <2>1, <2>2 DEF TwoKeys, Attempts
    <3>2. Cardinality(new) <= Max - 1 + 1 /\ IsFiniteSet(new) /\ Cardinality(new) \in Nat
      BY <2>1, <3>1, CountOfKey
    <3> QED
      BY <3>2, LoginRouteAssumption
  <2>5. recent = old \cup new
    BY <2>2 DEF TwoKeys
  <2>6. /\ Cardinality(recent) = Cardinality(old) + Cardinality(new) - Cardinality(old \cap new)
        /\ Cardinality(old \cap new) \in Nat
    BY <2>3, <2>4, <2>5, FS_Union, FS_Intersection, FS_CardinalityType
  <2> QED
    BY <2>3, <2>4, <2>6, LoginRouteAssumption
<1> QED
  BY <1>1, LimiterInvariance, PTL

(* Behind their limiter as without it, logins take no part in a gridlock    *)
(* and do not end one.                                                      *)
THEOREM RouteGridlock == RouteSpec => []OnlyListsGridlock /\ GridlockLasts
BY RouteUsesPool, OnlyListsGridlockIt, GridlockHolds
=============================================================================
