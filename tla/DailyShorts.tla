---------------------------- MODULE DailyShorts ----------------------------
(***************************************************************************)
(* The shorts of the day (store/foryou/shorts.go): a handful of books with *)
(* a short text, the same for everybody on one day and each at rest for    *)
(* `featureCooldown` after it.  The picks of a day are the books whose     *)
(* short_last_featured_at is that day, and whoever finds fewer than the    *)
(* limit picks the rest: three queries and a transaction, which nothing    *)
(* keeps apart from those of another request, of an administrator's change *)
(* or of midnight.                                                         *)
(*                                                                         *)
(* Days are numbers.  A shuffle is any choice: Build's is drawn from the   *)
(* day, the handler's from the clock, over whatever rows there were.       *)
(***************************************************************************)
EXTENDS Integers, FiniteSets

CONSTANTS
  Books,      \* numbers, later ones created later
  Calls,   \* places for calls of BuildShorts
  Limit,      \* 10
  Factor,     \* 8: how many rows are read for a pick
  Cooldown,   \* 90 days
  MaxDay,     \* bound of the model: days
  MaxEdits    \* bound of the model: changes of a book's short

ASSUME DailyShortsAssumption ==
  /\ Books \subseteq Nat /\ IsFiniteSet(Books)
  /\ Limit \in Nat \ {0} /\ Factor \in Nat \ {0} /\ Cooldown \in Nat
  /\ MaxDay \in Nat /\ MaxEdits \in Nat

VARIABLES
  day,     \* the day it is
  shown,   \* the books with a short that is enabled and not empty
  mark,    \* short_last_featured_at, Never when it is NULL
  edits,   \* changes of shorts so far
  task     \* calls of BuildShorts

shortsVars == <<day, shown, mark, edits, task>>

Never == -1
Days == 0 .. MaxDay

OfDay(d) == {b \in shown : mark[b] = d}
Resting(b, today) == mark[b] # Never /\ mark[b] >= today - Cooldown /\ mark[b] < today

(* `today` is the day the call began on.  History: `overtaken`, whether     *)
(* somebody marked books, a short was changed or the day ended since it     *)
(* began to read; `cut`, whether a result set broke off; `crowded`, whether *)
(* the rows of the fallback could not be enough.                            *)
NoCall == [pc |-> "idle", today |-> 0, picks |-> {}, overtaken |-> FALSE, cut |-> FALSE,
         crowded |-> FALSE]

Tasks ==
  [pc : {"idle", "today", "eligible", "fallback", "mark", "done", "failed"}, today : Days,
   picks : SUBSET Books, overtaken : BOOLEAN, cut : BOOLEAN, crowded : BOOLEAN]

ShortsInit ==
  /\ day = 0
  /\ shown \in SUBSET Books
  /\ mark \in [Books -> {Never, 0}]
  /\ edits = 0
  /\ task = [r \in Calls |-> NoCall]

Overtake(r) ==
  [s \in Calls |-> IF s = r \/ task[s].pc \in {"idle", "today"} THEN task[s]
                      ELSE [task[s] EXCEPT !.overtaken = TRUE]]

(* ORDER BY short_last_featured_at NULLS FIRST, created_at DESC LIMIT n *)
Before(a, b) == mark[a] < mark[b] \/ (mark[a] = mark[b] /\ a > b)
FirstOf(S, n) ==
  {T \in SUBSET S : \/ T = S /\ Cardinality(S) <= n
                    \/ Cardinality(T) = n /\ \A a \in T, b \in S \ T : Before(a, b)}

(* What rows.ShortsNext gives of them: all, or those up to where the connection   *)
(* broke, for nobody asks rows.Err; `cut` says which.                       *)
Read(S, n) ==
  {[rows |-> T, cut |-> FALSE] : T \in FirstOf(S, n)} \cup
  {[rows |-> {b \in T : Before(b, c)}, cut |-> TRUE] : T \in FirstOf(S, n), c \in S}

(* The first so many of the rows, shuffled, that are not picked yet. *)
Fill(picks, rows) ==
  {picks \cup S : S \in
     {T \in SUBSET (rows \ picks) :
        \/ Cardinality(T) = Limit - Cardinality(picks)
        \/ T = rows \ picks /\ Cardinality(T) < Limit - Cardinality(picks)}}

-----------------------------------------------------------------------------
Begin(r) ==
  /\ task[r].pc = "idle"
  /\ task' = [task EXCEPT ![r] = [NoCall EXCEPT !.pc = "today", !.today = day]]
  /\ UNCHANGED <<day, shown, mark, edits>>

(* Mutant: the window leaves out its first moment, with which picks are     *)
(* marked.                                                                  *)
ReadToday_OpenWindow(r) ==
  /\ task[r].pc = "today"
  /\ task' = [task EXCEPT ![r].pc = "eligible"]
  /\ UNCHANGED <<day, shown, mark, edits>>

(* qToday: the day's picks so far, perhaps enough. *)
ReadToday(r) ==
  /\ task[r].pc = "today"
  /\ \E res \in Read(OfDay(task[r].today), Limit) :
       task' = [task EXCEPT
                  ![r].picks = res.rows, ![r].cut = res.cut,
                  ![r].pc = IF Cardinality(res.rows) < Limit THEN "eligible" ELSE "done"]
  /\ UNCHANGED <<day, shown, mark, edits>>

(* Mutant: the fallback's condition in place of the cooldown's. *)
Eligible_AnyMark(today) == {b \in shown : mark[b] # today}

(* Never featured, or not since the cooldown began. *)
Eligible(today) == {b \in shown : mark[b] = Never \/ mark[b] < today - Cooldown}

(* Whether of the fallback's rows fewer are left than picks are missing,    *)
(* once those picked already are passed over.                               *)
Crowded(picks, today) ==
  LET missing == Limit - Cardinality(picks)
      again == {b \in picks : mark[b] # Never /\ mark[b] < today}
  IN  missing * Factor < Cardinality(again) + missing

(* qEligible and the picks from it. *)
ReadEligible(r) ==
  LET q == task[r]
  IN  /\ q.pc = "eligible"
      /\ \E res \in Read(Eligible(q.today), (Limit - Cardinality(q.picks)) * Factor) :
           \E picks \in Fill(q.picks, res.rows) :
             task' = [task EXCEPT
                        ![r].picks = picks, ![r].cut = @ \/ res.cut,
                        ![r].crowded = Crowded(picks, q.today),
                        ![r].pc = IF Cardinality(picks) < Limit THEN "fallback" ELSE "mark"]
      /\ UNCHANGED <<day, shown, mark, edits>>

(* Mutant: the fallback keeps to the cooldown. *)
Featured_AtRest(today) == {b \in shown : mark[b] # Never /\ mark[b] < today - Cooldown}

Featured(today) == {b \in shown : mark[b] # Never}

(* qFallback: any book that was ever featured, the longest ago first. *)
ReadFallback(r) ==
  LET q == task[r]
  IN  /\ q.pc = "fallback"
      /\ \E res \in Read(Featured(q.today), (Limit - Cardinality(q.picks)) * Factor) :
           \E picks \in Fill(q.picks, res.rows) :
             task' = [task EXCEPT ![r].picks = picks, ![r].cut = @ \/ res.cut,
                                  ![r].pc = IF picks = {} THEN "done" ELSE "mark"]
      /\ UNCHANGED <<day, shown, mark, edits>>

(* One of the queries fails, or the block's time is over: no shorts. *)
QueryFails(r) ==
  /\ task[r].pc \in {"today", "eligible", "fallback"}
  /\ task' = [task EXCEPT ![r].pc = "failed", ![r].picks = {}]
  /\ UNCHANGED <<day, shown, mark, edits>>

(* The transaction that marks all picks with the day the call began on. *)
Mark(r) ==
  /\ task[r].pc = "mark"
  /\ mark' = [b \in Books |-> IF b \in task[r].picks THEN task[r].today ELSE mark[b]]
  /\ task' = [Overtake(r) EXCEPT ![r].pc = "done"]
  /\ UNCHANGED <<day, shown, edits>>

(* It fails, a deadlock with another's or the block's time among the        *)
(* reasons; the picks are shown all the same.                               *)
MarkFails(r) ==
  /\ task[r].pc = "mark"
  /\ task' = [task EXCEPT ![r].pc = "done"]
  /\ UNCHANGED <<day, shown, mark, edits>>

Finish(r) ==
  /\ task[r].pc \in {"done", "failed"}
  /\ task' = [task EXCEPT ![r] = NoCall]
  /\ UNCHANGED <<day, shown, mark, edits>>

(* Midnight, in the time zone of the caller. *)
NextDay ==
  /\ day < MaxDay
  /\ day' = day + 1
  /\ task' = [r \in Calls |-> IF task[r].pc = "idle" THEN NoCall
                                 ELSE [task[r] EXCEPT !.overtaken = TRUE]]
  /\ UNCHANGED <<shown, mark, edits>>

(* An administrator gives a book a short or takes it away. *)
Edit(b) ==
  /\ edits < MaxEdits
  /\ edits' = edits + 1
  /\ shown' = IF b \in shown THEN shown \ {b} ELSE shown \cup {b}
  /\ task' = [r \in Calls |-> IF task[r].pc \in {"idle", "today"} THEN task[r]
                                 ELSE [task[r] EXCEPT !.overtaken = TRUE]]
  /\ UNCHANGED <<day, mark>>

BuildShorts(r) ==
  \/ Begin(r) \/ ReadToday(r) \/ ReadEligible(r) \/ ReadFallback(r)
  \/ QueryFails(r) \/ Mark(r) \/ MarkFails(r) \/ Finish(r)

ShortsNext ==
  \/ \E r \in Calls : BuildShorts(r)
  \/ NextDay
  \/ \E b \in Books : Edit(b)

ShortsSpec == ShortsInit /\ [][ShortsNext]_shortsVars

-----------------------------------------------------------------------------
ShortsTypeOK ==
  /\ day \in Days /\ edits \in 0 .. MaxEdits
  /\ shown \subseteq Books
  /\ mark \in [Books -> 0 .. day \cup {Never}]
  /\ task \in [Calls -> Tasks]
  /\ \A r \in Calls : task[r].today <= day /\ Cardinality(task[r].picks) <= Limit

Clean(r) == ~task[r].overtaken /\ ~task[r].cut
Marks(r) == task[r].pc = "mark" /\ task'[r].pc = "done" /\ mark' # mark

(* A request that nobody overtook never takes the picks of a day above the  *)
(* limit, and leaves those it found as they are (shorts.go:27 reads them,   *)
(* :116 marks).  One that was overtaken may, and may mark with a day that   *)
(* is over.                                                                 *)
LimitKept ==
  [][\A r \in Calls : Marks(r) /\ Clean(r) =>
       /\ OfDay(task[r].today) \subseteq OfDay(task[r].today)'
       /\ Cardinality(OfDay(task[r].today)') <= Limit]_shortsVars

(* Nor does it feature a book at rest while one that is not is passed over  *)
(* (:51, the fallback of :85).                                              *)
CooldownKept ==
  [][\A r \in Calls : Marks(r) /\ Clean(r) =>
       \/ \A b \in Books : mark'[b] # mark[b] => ~Resting(b, task[r].today)
       \/ Eligible(task[r].today)' = {}]_shortsVars

(* Who was not overtaken shows as many shorts as there are, up to the       *)
(* limit, unless the fallback read too few rows (:88 counts the books       *)
(* picked already among them: nine of ten picks, eight of them featured     *)
(* before, leave it none).                                                  *)
Filled ==
  \A r \in Calls :
    (task[r].pc = "done" /\ Clean(r)) =>
      \/ Cardinality(task[r].picks) = Limit
      \/ task[r].picks = shown
      \/ task[r].crowded

(* Two who are done on one day and not overtaken since show the same, the   *)
(* marks of one being what the other read.                                  *)
SameForAll ==
  \A r, s \in Calls :
    LET over(x) == task[x].pc = "done" /\ Clean(x) /\ task[x].picks \subseteq OfDay(task[x].today)
    IN  over(r) /\ over(s) /\ task[r].today = task[s].today => task[r].picks = task[s].picks
=============================================================================
