-------------------------- MODULE ViewQueueProofs --------------------------
(***************************************************************************)
(* Theorems about ViewQueue, for any number of views and workers, any      *)
(* buffer and any size of a batch.                                         *)
(***************************************************************************)
EXTENDS ViewQueue, FiniteSetTheorems, TLAPS

(* A worker that waits for a view has room for it in its batch; there is    *)
(* none at work before the start.                                           *)
Room ==
  /\ \A w \in Workers :
       worker[w] \in {"off", "select", "drain"} => Cardinality(batch[w]) < BatchSize
  /\ phase = "new" => \A w \in Workers : worker[w] = "off"

TypeInv == TypeOK /\ Room

LEMMA EventSets ==
  ASSUME NEW S \in SUBSET Events
  PROVE  /\ IsFiniteSet(S) /\ Cardinality(S) \in Nat
         /\ \A e : Cardinality(S \cup {e}) <= Cardinality(S) + 1
         /\ \A e : Cardinality(S \ {e}) <= Cardinality(S)
<1>1. IsFiniteSet(S) /\ Cardinality(S) \in Nat
  BY FS_Subset, FS_CardinalityType, ViewQueueAssumption
<1>2. ASSUME NEW e
      PROVE  Cardinality(S \cup {e}) <= Cardinality(S) + 1
  <2>1. Cardinality(S \cup {e}) = IF e \in S THEN Cardinality(S) ELSE Cardinality(S) + 1
    BY <1>1, FS_AddElement
  <2> QED
    BY <1>1, <2>1
<1>3. ASSUME NEW e
      PROVE  Cardinality(S \ {e}) <= Cardinality(S)
  <2>1. Cardinality(S \ {e}) = IF e \in S THEN Cardinality(S) - 1 ELSE Cardinality(S)
    BY <1>1, FS_RemoveElement
  <2> QED
    BY <1>1, <2>1
<1> QED
  BY <1>1, <1>2, <1>3

LEMMA InitTypeInv == Init => TypeInv
<1> SUFFICES ASSUME Init PROVE TypeInv
  OBVIOUS
<1>1. Cardinality({}) = 0 /\ 0 <= Buffer /\ 0 < BatchSize
  BY FS_EmptySet, ViewQueueAssumption
<1>2. batch \in [Workers -> {B \in SUBSET Events : Cardinality(B) <= BatchSize}]
  BY <1>1, ViewQueueAssumption DEF Init
<1>3. Room
  BY <1>1 DEF Init, Room
<1> QED
  BY <1>1, <1>2, <1>3 DEF Init, TypeInv, TypeOK, WorkerPoints

LEMMA TakeType ==
  ASSUME TypeInv, NEW w \in Workers, NEW from \in {"select", "drain"},
         NEW full \in {"flush", "drainFlush"}, Take(w, from, full)
  PROVE  TypeInv'
<1> USE ViewQueueAssumption
<1>1. PICK e \in ch : ch' = ch \ {e} /\ batch' = [batch EXCEPT ![w] = @ \cup {e}]
  BY DEF Take
<1>2. /\ worker[w] = from
      /\ worker' = [worker EXCEPT ![w] = IF Cardinality(batch'[w]) >= BatchSize THEN full ELSE from]
      /\ UNCHANGED <<phase, offered, dropped, written, lost, owed>>
  BY DEF Take
<1>3. /\ ch \in SUBSET Events /\ Cardinality(ch) <= Buffer
      /\ batch \in [Workers -> {B \in SUBSET Events : Cardinality(B) <= BatchSize}]
      /\ worker \in [Workers -> WorkerPoints]
  BY DEF TypeInv, TypeOK
<1>4. ch' \in SUBSET Events /\ Cardinality(ch') <= Buffer
  <2>1. Cardinality(ch) \in Nat /\ Cardinality(ch') <= Cardinality(ch)
    BY <1>1, <1>3, EventSets
  <2>2. ch' \in SUBSET Events
    BY <1>1, <1>3
  <2>3. Cardinality(ch') \in Nat
    BY <2>2, EventSets
  <2> QED
    BY <1>3, <2>1, <2>2, <2>3
<1> DEFINE B == batch[w] \cup {e}
<1>5. B \in SUBSET Events /\ Cardinality(B) \in Nat /\ Cardinality(B) <= BatchSize
  <2>1. batch[w] \in SUBSET Events /\ Cardinality(batch[w]) < BatchSize
    BY <1>2, <1>3 DEF TypeInv, Room
  <2>2. Cardinality(batch[w]) \in Nat /\ Cardinality(B) <= Cardinality(batch[w]) + 1
    BY <2>1, EventSets
  <2>3. B \in SUBSET Events
    BY <1>3, <2>1
  <2>4. Cardinality(B) \in Nat
    BY <2>3, EventSets
  <2> QED
    BY <2>1, <2>2, <2>3, <2>4
<1>6. \A v \in Workers : batch'[v] = IF v = w THEN B ELSE batch[v]
  BY <1>1, <1>3
<1> HIDE DEF B
<1>7. batch' \in [Workers -> {S \in SUBSET Events : Cardinality(S) <= BatchSize}]
  BY <1>1, <1>3, <1>5 DEF B
<1>8. worker' \in [Workers -> WorkerPoints]
  BY <1>2, <1>3 DEF WorkerPoints
<1>9. Room'
  <2> SUFFICES ASSUME NEW v \in Workers, worker'[v] \in {"off", "select", "drain"}
               PROVE  Cardinality(batch'[v]) < BatchSize
    BY <1>2 DEF Room, TypeInv
  <2>1. CASE v = w
    BY <1>2, <1>3, <1>5, <1>6, <2>1
  <2>2. CASE v # w
    BY <1>2, <1>3, <1>6, <2>2 DEF TypeInv, Room
  <2> QED
    BY <2>1, <2>2
<1> QED
  BY <1>2, <1>4, <1>7, <1>8, <1>9 DEF TypeInv, TypeOK

LEMMA TypeStep == TypeInv /\ [Next]_vars => TypeInv'
<1> SUFFICES ASSUME TypeInv, [Next]_vars PROVE TypeInv'
  OBVIOUS
<1> USE ViewQueueAssumption
<1>1. /\ ch \in SUBSET Events /\ Cardinality(ch) <= Buffer
      /\ batch \in [Workers -> {B \in SUBSET Events : Cardinality(B) <= BatchSize}]
      /\ worker \in [Workers -> WorkerPoints]
      /\ written \in [Events -> Nat]
  BY DEF TypeInv, TypeOK
<1>2. CASE Start
  <2>1. Room'
    BY <1>1, <1>2 DEF Start, TypeInv, Room
  <2> QED
    BY <1>2, <2>1 DEF Start, TypeInv, TypeOK, WorkerPoints
<1>3. ASSUME NEW e \in Events, Enqueue(e)
      PROVE  TypeInv'
  <2>1. ch' \in SUBSET Events /\ Cardinality(ch') <= Buffer
    <3>1. CASE ch' = ch
      BY <1>1, <3>1
    <3>2. CASE Cardinality(ch) < Buffer /\ ch' = ch \cup {e}
      <4>1. ch' \in SUBSET Events
        BY <1>1, <3>2
      <4>2. Cardinality(ch) \in Nat /\ Cardinality(ch') <= Cardinality(ch) + 1
        BY <1>1, <3>2, EventSets
      <4>3. Cardinality(ch') \in Nat
        BY <4>1, EventSets
      <4> QED
        BY <3>2, <4>1, <4>2, <4>3
    <3> QED
      BY <1>3, <3>1, <3>2 DEF Enqueue
  <2>2. UNCHANGED <<phase, batch, worker, written, lost, owed>>
    BY <1>3 DEF Enqueue
  <2>3. offered' \in SUBSET Events /\ dropped' \in SUBSET Events
    BY <1>3 DEF Enqueue, TypeInv, TypeOK
  <2> QED
    BY <2>1, <2>2, <2>3 DEF TypeInv, TypeOK, Room
<1>4. ASSUME NEW w \in Workers, NEW from, NEW to \in WorkerPoints, Goto(w, from, to),
             to \in {"off", "select", "drain"} => from \in {"off", "select", "drain"},
             from # "off"
      PROVE  TypeInv'
  BY <1>1, <1>4 DEF Goto, TypeInv, TypeOK, Room
<1>5. ASSUME NEW w \in Workers, NEW from, NEW to \in WorkerPoints, Flush(w, from, to),
             from # "off"
      PROVE  TypeInv'
  <2>1. Cardinality({}) = 0
    BY FS_EmptySet
  <2>2. \A v \in Workers : batch'[v] = IF v = w THEN {} ELSE batch[v]
    BY <1>1, <1>5 DEF Flush
  <2>3. batch' \in [Workers -> {B \in SUBSET Events : Cardinality(B) <= BatchSize}]
    BY <1>1, <1>5, <2>1 DEF Flush
  <2>4. written' \in [Events -> Nat] /\ lost' \in SUBSET Events
    BY <1>1, <1>5 DEF Flush, TypeInv, TypeOK
  <2>5. worker' \in [Workers -> WorkerPoints]
    BY <1>1, <1>5 DEF Flush
  <2>6. \A v \in Workers : v # w => worker'[v] = worker[v]
    BY <1>1, <1>5 DEF Flush
  <2>7. Room'
    BY <1>5, <2>1, <2>2, <2>6 DEF TypeInv, Room, Flush
  <2>8. UNCHANGED <<phase, ch, offered, dropped, owed>>
    BY <1>5 DEF Flush
  <2> QED
    BY <2>3, <2>4, <2>5, <2>7, <2>8 DEF TypeInv, TypeOK
<1>6. CASE Shutdown \/ Fatal
  BY <1>6 DEF Shutdown, Fatal, TypeInv, TypeOK, Room, Accepted
<1>7. CASE Wait \/ UNCHANGED vars
  BY <1>7 DEF Wait, vars, TypeInv, TypeOK, Room
<1>8. ASSUME NEW w \in Workers, WorkerStep(w)
      PROVE  TypeInv'
  <2>1. CASE Receive(w) \/ DrainOne(w)
    BY <2>1, TakeType DEF Receive, DrainOne
  <2>2. CASE Tick(w) \/ SeeDone(w) \/ Drained(w)
    BY <1>4, <2>2 DEF Tick, SeeDone, Drained, WorkerPoints
  <2>3. CASE Insert(w)
    BY <1>5, <2>3 DEF Insert, WorkerPoints
  <2> QED
    BY <1>8, <2>1, <2>2, <2>3 DEF WorkerStep
<1> QED
  BY <1>2, <1>3, <1>6, <1>7, <1>8 DEF Next

LEMMA TypeInvariance == Spec => []TypeInv
BY InitTypeInv, TypeStep, PTL DEF Spec

(* The channel never holds more than its buffer, nor a worker more than one *)
(* INSERT is made for.                                                      *)
THEOREM TypeCorrect == Spec => []TypeOK
<1>1. TypeInv => TypeOK
  BY DEF TypeInv
<1> QED
  BY <1>1, TypeInvariance, PTL

-----------------------------------------------------------------------------
(* Conserved, view by view. *)

InBatch(x) == \E w \in Workers : x \in batch[w]

Placed ==
  /\ dropped \subseteq offered
  /\ \A x : (x \in offered /\ x \notin dropped)
               <=> (x \in ch \/ InBatch(x) \/ x \in Inserted \/ x \in lost)
  /\ \A w \in Workers : \A x \in batch[w] : x \notin ch /\ x \notin Inserted /\ x \notin lost
  /\ \A v, w \in Workers : \A x \in batch[v] : x \in batch[w] => v = w
  /\ \A x \in ch : x \notin Inserted /\ x \notin lost
  /\ \A x \in Inserted : x \notin lost
  /\ \A e \in Events : written[e] <= 1

LEMMA PlacedConserved == Placed => Conserved
<1> SUFFICES ASSUME Placed PROVE Conserved
  OBVIOUS
<1>1. \A x : x \in Held <=> InBatch(x)
  BY DEF InBatch, Held
<1>2. Accepted = ch \cup Held \cup Inserted \cup lost
  BY <1>1 DEF Placed, Accepted
<1>3. dropped \cap (ch \cup Held \cup Inserted \cup lost) = {}
  BY <1>2 DEF Accepted
<1>4. /\ \A w \in Workers : batch[w] \cap (ch \cup Inserted \cup lost) = {}
      /\ \A v, w \in Workers : v # w => batch[v] \cap batch[w] = {}
      /\ ch \cap (Inserted \cup lost) = {}
      /\ Inserted \cap lost = {}
      /\ \A e \in Events : written[e] <= 1
  BY DEF Placed
<1> QED
  BY <1>2, <1>3, <1>4 DEF Conserved

LEMMA InitPlaced == Init => Placed
BY DEF Init, Placed, InBatch, Inserted

LEMMA TakePlaced ==
  ASSUME TypeInv, Placed, NEW w \in Workers, NEW from, NEW full, Take(w, from, full)
  PROVE  Placed'
<1>1. PICK e \in ch : ch' = ch \ {e} /\ batch' = [batch EXCEPT ![w] = @ \cup {e}]
  BY DEF Take
<1>2. UNCHANGED <<offered, dropped, written, lost>> /\ Inserted' = Inserted
  BY DEF Take, Inserted
<1>3. \A v \in Workers : \A x : x \in batch'[v] <=> x \in batch[v] \/ (v = w /\ x = e)
  BY <1>1 DEF TypeInv, TypeOK
<1>4. \A x : InBatch(x)' <=> InBatch(x) \/ x = e
  BY <1>3 DEF InBatch
<1>5. ~InBatch(e) /\ e \notin Inserted /\ e \notin lost
  BY DEF Placed, InBatch
<1>6. \A x : (x \in offered' /\ x \notin dropped')
               <=> (x \in ch' \/ InBatch(x)' \/ x \in Inserted' \/ x \in lost')
  BY <1>1, <1>2, <1>4 DEF Placed
<1>7. \A v \in Workers : \A x \in batch'[v] : x \notin ch' /\ x \notin Inserted' /\ x \notin lost'
  BY <1>1, <1>2, <1>3, <1>5 DEF Placed
<1>8. \A v, u \in Workers : \A x : x \in batch[v] /\ x \in batch[u] => v = u
  BY DEF Placed
<1>9. ASSUME NEW v \in Workers, NEW u \in Workers, NEW x \in batch'[v], x \in batch'[u]
      PROVE  v = u
  <2>1. CASE x = e
    BY <1>3, <1>5, <1>9, <2>1 DEF InBatch
  <2>2. CASE x # e
    <3>1. x \in batch[v] /\ x \in batch[u]
      BY <1>3, <1>9, <2>2
    <3> QED
      BY <1>8, <3>1
  <2> QED
    BY <2>1, <2>2
<1>10. \A x \in ch' : x \notin Inserted' /\ x \notin lost'
  BY <1>1, <1>2 DEF Placed
<1> QED
  BY <1>2, <1>6, <1>7, <1>9, <1>10 DEF Placed

LEMMA FlushPlaced ==
  ASSUME TypeInv, Placed, NEW w \in Workers, NEW from, NEW to, Flush(w, from, to)
  PROVE  Placed'
<1>1. \A v \in Workers : batch'[v] = IF v = w THEN {} ELSE batch[v]
  BY DEF Flush, TypeInv, TypeOK
<1>2. UNCHANGED <<ch, offered, dropped>>
  BY DEF Flush
<1>3. \A x \in batch[w] : /\ x \in Events /\ x \notin ch /\ x \notin Inserted /\ x \notin lost
                          /\ written[x] = 0
  BY DEF Placed, Inserted, TypeInv, TypeOK
<1>4. \A x : InBatch(x)' <=> InBatch(x) /\ x \notin batch[w]
  BY <1>1 DEF InBatch, Placed
<1>5. /\ \A x : (x \in Inserted' \/ x \in lost') <=> (x \in Inserted \/ x \in lost \/ x \in batch[w])
      /\ \A x \in Inserted' : x \notin lost'
      /\ \A e \in Events : written'[e] <= 1
  <2>1. CASE /\ written' = [e \in Events |-> IF e \in batch[w] THEN written[e] + 1 ELSE written[e]]
             /\ lost' = lost
    <3>1. \A e \in Events : written'[e] = IF e \in batch[w] THEN 1 ELSE written[e]
      BY <1>3, <2>1
    <3>2. \A x : x \in Inserted' <=> x \in Inserted \/ x \in batch[w]
      BY <1>3, <3>1 DEF Inserted
    <3> QED
      BY <1>3, <2>1, <3>1, <3>2 DEF Placed
  <2>2. CASE written' = written /\ lost' = lost \cup batch[w]
    BY <1>3, <2>2 DEF Inserted, Placed
  <2> QED
    BY <2>1, <2>2 DEF Flush
<1>6. \A x : (x \in offered' /\ x \notin dropped')
               <=> (x \in ch' \/ InBatch(x)' \/ x \in Inserted' \/ x \in lost')
  BY <1>2, <1>4, <1>5 DEF Placed, InBatch
<1>7. \A v \in Workers : \A x \in batch'[v] : x \notin ch' /\ x \notin Inserted' /\ x \notin lost'
  BY <1>1, <1>2, <1>5 DEF Placed
<1>8. \A v, u \in Workers : \A x \in batch'[v] : x \in batch'[u] => v = u
  BY <1>1 DEF Placed
<1>9. \A x \in ch' : x \notin Inserted' /\ x \notin lost'
  BY <1>2, <1>3, <1>5 DEF Placed
<1> QED
  BY <1>2, <1>5, <1>6, <1>7, <1>8, <1>9 DEF Placed

LEMMA PlacedStep == TypeInv /\ Placed /\ [Next]_vars => Placed'
<1> SUFFICES ASSUME TypeInv, Placed, [Next]_vars PROVE Placed'
  OBVIOUS
<1>1. ASSUME NEW e \in Events, Enqueue(e)
      PROVE  Placed'
  <2>1. /\ e \notin offered /\ offered' = offered \cup {e}
        /\ UNCHANGED <<batch, written, lost>>
        /\ \/ ch' = ch \cup {e} /\ dropped' = dropped
           \/ dropped' = dropped \cup {e} /\ ch' = ch
    BY <1>1 DEF Enqueue
  <2>2. Inserted' = Inserted /\ \A x : InBatch(x)' <=> InBatch(x)
    BY <2>1 DEF Inserted, InBatch
  <2>3. e \notin dropped /\ e \notin ch /\ ~InBatch(e) /\ e \notin Inserted /\ e \notin lost
    BY <2>1 DEF Placed
  <2> QED
    BY <2>1, <2>2, <2>3 DEF Placed, InBatch
<1>2. CASE UNCHANGED <<ch, batch, offered, dropped, written, lost>>
  BY <1>2 DEF Placed, InBatch, Inserted
<1>3. ASSUME NEW w \in Workers, WorkerStep(w)
      PROVE  Placed'
  BY <1>2, <1>3, TakePlaced, FlushPlaced
     DEF WorkerStep, Receive, DrainOne, Insert, Tick, SeeDone, Drained, Goto
<1> QED
  BY <1>1, <1>2, <1>3 DEF Next, Start, Shutdown, Wait, Fatal, vars

LEMMA PlacedInvariance == Spec => [](TypeInv /\ Placed)
<1>1. Init => TypeInv /\ Placed
  BY InitTypeInv, InitPlaced
<1>2. TypeInv /\ Placed /\ [Next]_vars => (TypeInv /\ Placed)'
  BY TypeStep, PlacedStep
<1> QED
  BY <1>1, <1>2, PTL DEF Spec

(* No view that was accepted is ever in two places, written twice or gone:  *)
(* whatever the workers overlap, batches filling and INSERTs failing.       *)
THEOREM NoViewGoesMissing == Spec => []Conserved
BY PlacedInvariance, PlacedConserved, PTL

-----------------------------------------------------------------------------
(* How the queue ends.  A worker is past draining only when it has seen the *)
(* channel empty after the end began; what comes in later is not owed.      *)
Ending ==
  /\ phase \in {"new", "running"} => \A w \in Workers : worker[w] \in {"off", "select", "flush"}
  /\ phase = "closed" => \A w \in Workers : worker[w] = "returned"
  /\ \A w \in Workers : worker[w] = "returned" => batch[w] = {}
  /\ owed \subseteq Accepted
  /\ \A w \in Workers : worker[w] \in {"lastFlush", "returned"} => owed \cap ch = {}

LEMMA InitEnding == Init => Ending
BY DEF Init, Ending, Accepted

LEMMA EndingStep == TypeInv /\ Placed /\ Ending /\ [Next]_vars => Ending'
<1> SUFFICES ASSUME TypeInv, Placed, Ending, [Next]_vars PROVE Ending'
  OBVIOUS
<1>1. worker \in [Workers -> WorkerPoints] /\ batch \in [Workers -> SUBSET Events]
  BY DEF TypeInv, TypeOK
<1>2. CASE Start
  BY <1>2 DEF Start, Ending, Accepted
<1>3. ASSUME NEW e \in Events, Enqueue(e)
      PROVE  Ending'
  <2>1. e \notin offered /\ e \notin owed
    BY <1>3 DEF Enqueue, Ending, Accepted
  <2>2. UNCHANGED <<phase, batch, worker, owed>> /\ ch' \subseteq ch \cup {e}
    BY <1>3 DEF Enqueue
  <2>3. owed' \subseteq Accepted'
    BY <1>3, <2>1 DEF Enqueue, Ending, Accepted
  <2> QED
    BY <2>1, <2>2, <2>3 DEF Ending
<1>4. ASSUME NEW w \in Workers, WorkerStep(w)
      PROVE  Ending'
  <2>1. UNCHANGED <<phase, owed, offered, dropped>> /\ ch' \subseteq ch /\ Accepted' = Accepted
    BY <1>4 DEF WorkerStep, Receive, DrainOne, Take, Tick, SeeDone, Drained, Goto, Insert, Flush,
       Accepted
  <2>2. \A v \in Workers : v # w => worker'[v] = worker[v] /\ batch'[v] = batch[v]
    BY <1>1, <1>4 DEF WorkerStep, Receive, DrainOne, Take, Tick, SeeDone, Drained, Goto, Insert,
       Flush
  <2>3. worker[w] # "returned"
    BY <1>4 DEF WorkerStep, Receive, DrainOne, Take, Tick, SeeDone, Drained, Goto, Insert, Flush
  <2>4. phase \in {"new", "running"} => worker'[w] \in {"select", "flush"}
    BY <1>1, <1>4 DEF WorkerStep, Receive, DrainOne, Take, Tick, SeeDone, Drained, Goto, Insert,
       Flush, Ending
  <2>5. worker'[w] = "returned" => batch'[w] = {} /\ worker[w] = "lastFlush"
    BY <1>1, <1>4 DEF WorkerStep, Receive, DrainOne, Take, Tick, SeeDone, Drained, Goto, Insert,
       Flush, Ending
  <2>6. worker'[w] = "lastFlush" => ch = {}
    BY <1>1, <1>4 DEF WorkerStep, Receive, DrainOne, Take, Tick, SeeDone, Drained, Goto, Insert,
       Flush, Ending
  <2> QED
    BY <2>1, <2>2, <2>3, <2>4, <2>5, <2>6 DEF Ending
<1>5. CASE Shutdown \/ Fatal
  BY <1>5 DEF Shutdown, Fatal, Ending, Accepted
<1>6. CASE Wait \/ UNCHANGED vars
  BY <1>6 DEF Wait, vars, Ending, Accepted
<1> QED
  BY <1>2, <1>3, <1>4, <1>5, <1>6 DEF Next

(* When Shutdown has returned, an INSERT was attempted for every view       *)
(* accepted before it was called, however many workers drained the channel  *)
(* and whatever was reported meanwhile.                                     *)
THEOREM NothingIsLeftBehind == Spec => []ShutdownFlushes
<1>1. Placed /\ Ending => ShutdownFlushes
  <2> SUFFICES ASSUME Placed, Ending, phase = "closed", NEW x \in owed
               PROVE  x \in Inserted \cup lost
    BY DEF ShutdownFlushes
  <2>1. PICK w \in Workers : TRUE
    BY ViewQueueAssumption
  <2>2. x \notin ch /\ ~InBatch(x)
    BY <2>1 DEF Ending, InBatch
  <2>3. x \in offered /\ x \notin dropped
    BY DEF Ending, Accepted
  <2> QED
    BY <2>2, <2>3 DEF Placed
<1>2. TypeInv /\ Placed /\ Ending /\ [Next]_vars => (TypeInv /\ Placed /\ Ending)'
  BY TypeStep, PlacedStep, EndingStep
<1>3. Init => TypeInv /\ Placed /\ Ending
  BY InitTypeInv, InitPlaced, InitEnding
<1> QED
  BY <1>1, <1>2, <1>3, PTL DEF Spec
=============================================================================
