----------------------------- MODULE ViewQueue -----------------------------
(***************************************************************************)
(* internal/metrics/viewqueue: book views are offered to a bounded channel *)
(* without blocking, workers collect them into batches and insert a batch  *)
(* when it is full or when a ticker fires, and Shutdown is to drain all    *)
(* that was accepted.                                                      *)
(*                                                                         *)
(* Each view carries its own time stamp and two workers write in any order *)
(* anyway, so the channel and the batches are sets of views.  What happens *)
(* to a view is counted, to see one written twice.                         *)
(***************************************************************************)
EXTENDS Naturals, FiniteSets

CONSTANTS
  Events,     \* the views requests will report
  Workers,
  Buffer,     \* capacity of the channel
  BatchSize,
  Ends        \* how the process may end: subset of {"shutdown", "fatal"}

ASSUME ViewQueueAssumption ==
  /\ Workers # {}
  /\ IsFiniteSet(Events) /\ IsFiniteSet(Workers)
  /\ Buffer \in Nat \ {0} /\ BatchSize \in Nat \ {0}
  /\ Ends \subseteq {"shutdown", "fatal"}

VARIABLES
  phase,    \* "new", "running", "closing" (done is closed), "closed", "exited"
  ch,       \* the channel
  batch,    \* the batch of each worker
  worker,   \* program point of each worker
  offered,  \* views passed to Enqueue
  dropped,  \* views Enqueue dropped
  written,  \* how often a view was written to book_view_events
  lost,     \* views whose INSERT failed
  owed      \* history: views accepted and not yet inserted when the end began

vars == <<phase, ch, batch, worker, offered, dropped, written, lost, owed>>

WorkerPoints == {"off", "select", "flush", "drain", "drainFlush", "lastFlush", "returned"}

Alive == phase # "exited"
Inserted == {e \in Events : written[e] > 0}
Accepted == offered \ dropped

Init ==
  /\ phase = "new"
  /\ ch = {}
  /\ batch = [w \in Workers |-> {}]
  /\ worker = [w \in Workers |-> "off"]
  /\ offered = {} /\ dropped = {} /\ lost = {} /\ owed = {}
  /\ written = [e \in Events |-> 0]

Start ==
  /\ phase = "new"
  /\ phase' = "running"
  /\ worker' = [w \in Workers |-> "select"]
  /\ UNCHANGED <<ch, batch, offered, dropped, written, lost, owed>>

(* Mutant: a view that does not fit waits in a goroutine of its own. *)
Enqueue_Unbounded(e) ==
  /\ Alive
  /\ e \notin offered
  /\ offered' = offered \cup {e}
  /\ ch' = ch \cup {e}
  /\ UNCHANGED <<phase, batch, worker, dropped, written, lost, owed>>

(* A request reports a view: sent if the channel has room, dropped if it is *)
(* full or Start has not made it yet.  Nothing stops a request from         *)
(* reporting during or after Shutdown.                                      *)
Enqueue(e) ==
  /\ Alive
  /\ e \notin offered
  /\ offered' = offered \cup {e}
  /\ IF phase # "new" /\ Cardinality(ch) < Buffer
     THEN ch' = ch \cup {e} /\ dropped' = dropped
     ELSE dropped' = dropped \cup {e} /\ ch' = ch
  /\ UNCHANGED <<phase, batch, worker, written, lost, owed>>

-----------------------------------------------------------------------------
(* Mutant: off by one in the test for a full batch. *)
Take_LateFlush(w, from, full) ==
  /\ Alive /\ worker[w] = from
  /\ \E e \in ch :
       /\ ch' = ch \ {e}
       /\ batch' = [batch EXCEPT ![w] = @ \cup {e}]
  /\ worker' = [worker EXCEPT ![w] =
                  IF Cardinality(batch[w]) >= BatchSize THEN full ELSE from]
  /\ UNCHANGED <<phase, offered, dropped, written, lost, owed>>

(* A worker receives a view; a full batch is flushed next. *)
Take(w, from, full) ==
  /\ Alive /\ worker[w] = from
  /\ \E e \in ch :
       /\ ch' = ch \ {e}
       /\ batch' = [batch EXCEPT ![w] = @ \cup {e}]
  /\ worker' = [worker EXCEPT ![w] =
                  IF Cardinality(batch'[w]) >= BatchSize THEN full ELSE from]
  /\ UNCHANGED <<phase, offered, dropped, written, lost, owed>>

Receive(w) == Take(w, "select", "flush")
DrainOne(w) == Take(w, "drain", "drainFlush")

Goto(w, from, to) ==
  /\ Alive /\ worker[w] = from
  /\ worker' = [worker EXCEPT ![w] = to]
  /\ UNCHANGED <<phase, ch, batch, offered, dropped, written, lost, owed>>

(* Mutant: the ticker looks at full batches only. *)
Tick_FullOnly(w) == Cardinality(batch[w]) >= BatchSize /\ Goto(w, "select", "flush")

(* The ticker fires; flush returns at once when the batch is empty. *)
Tick(w) == batch[w] # {} /\ Goto(w, "select", "flush")

(* Mutants: a worker that sees done returns without draining; done is sent  *)
(* one value instead of being closed.                                       *)
SeeDone_NoDrain(w) == phase = "closing" /\ Goto(w, "select", "lastFlush")

SeeDone_OneValue(w) ==
  /\ phase = "closing"
  /\ \A v \in Workers : worker[v] \in {"select", "flush"}
  /\ Goto(w, "select", "drain")

(* select picks any ready case: a worker may go on receiving for a while    *)
(* after done is closed.                                                    *)
SeeDone(w) == phase = "closing" /\ Goto(w, "select", "drain")

(* Draining ends when a receive would block. *)
Drained(w) == ch = {} /\ Goto(w, "drain", "lastFlush")

(* Mutant: the batch is not emptied after the INSERT. *)
Flush_KeepsBatch(w, from, to) ==
  /\ Alive /\ worker[w] = from
  /\ written' = [e \in Events |-> IF e \in batch[w] THEN written[e] + 1 ELSE written[e]]
  /\ worker' = [worker EXCEPT ![w] = to]
  /\ UNCHANGED <<phase, ch, batch, offered, dropped, lost, owed>>

(* insertBatch: one INSERT for the batch, error or timeout ignored, and the *)
(* batch is emptied whatever became of it.                                  *)
Flush(w, from, to) ==
  /\ Alive /\ worker[w] = from
  /\ \/ /\ written' = [e \in Events |-> IF e \in batch[w] THEN written[e] + 1 ELSE written[e]]
        /\ lost' = lost
     \/ written' = written /\ lost' = lost \cup batch[w]
  /\ batch' = [batch EXCEPT ![w] = {}]
  /\ worker' = [worker EXCEPT ![w] = to]
  /\ UNCHANGED <<phase, ch, offered, dropped, owed>>

Insert(w) ==
  \/ Flush(w, "flush", "select")
  \/ Flush(w, "drainFlush", "drain")
  \/ Flush(w, "lastFlush", "returned")

-----------------------------------------------------------------------------
(* Shutdown closes done ... *)
Shutdown ==
  /\ "shutdown" \in Ends
  /\ phase = "running"
  /\ phase' = "closing"
  /\ owed' = Accepted \ (Inserted \cup lost)
  /\ UNCHANGED <<ch, batch, worker, offered, dropped, written, lost>>

(* ... and waits for the workers. *)
Wait ==
  /\ phase = "closing"
  /\ \A w \in Workers : worker[w] = "returned"
  /\ phase' = "closed"
  /\ UNCHANGED <<ch, batch, worker, offered, dropped, written, lost, owed>>

(* cmd/api: main ends in log.Fatal(ListenAndServe()), which calls os.Exit:  *)
(* the deferred Shutdown does not run and the workers are gone.             *)
Fatal ==
  /\ "fatal" \in Ends
  /\ phase = "running"
  /\ phase' = "exited"
  /\ owed' = Accepted \ (Inserted \cup lost)
  /\ UNCHANGED <<ch, batch, worker, offered, dropped, written, lost>>

WorkerStep(w) ==
  \/ Receive(w) \/ Tick(w) \/ SeeDone(w) \/ DrainOne(w) \/ Drained(w) \/ Insert(w)

Next ==
  \/ Start
  \/ \E e \in Events : Enqueue(e)
  \/ \E w \in Workers : WorkerStep(w)
  \/ Shutdown \/ Wait \/ Fatal

Spec == Init /\ [][Next]_vars

(* The Go scheduler runs every goroutine that can run; nothing obliges the  *)
(* server to stop or a request to arrive.                                   *)
Fairness == WF_vars(Wait) /\ \A w \in Workers : WF_vars(WorkerStep(w))

FairSpec == Spec /\ Fairness

-----------------------------------------------------------------------------
(* Types; the channel is bounded, and a worker never holds more views than  *)
(* one INSERT statement is made for.                                        *)
TypeOK ==
  /\ phase \in {"new", "running", "closing", "closed", "exited"}
  /\ ch \in SUBSET Events /\ Cardinality(ch) <= Buffer
  /\ batch \in [Workers -> {B \in SUBSET Events : Cardinality(B) <= BatchSize}]
  /\ worker \in [Workers -> WorkerPoints]
  /\ offered \in SUBSET Events /\ dropped \in SUBSET Events
  /\ lost \in SUBSET Events /\ owed \in SUBSET Events
  /\ written \in [Events -> Nat]

(* In a batch. *)
Held == UNION {batch[w] : w \in Workers}

(* An accepted view is in exactly one place: the channel, one worker's      *)
(* batch, the table (once), or lost with a failed INSERT.                   *)
Conserved ==
  /\ Accepted = ch \cup Held \cup Inserted \cup lost
  /\ dropped \cap (ch \cup Held \cup Inserted \cup lost) = {}
  /\ \A w \in Workers : batch[w] \cap (ch \cup Inserted \cup lost) = {}
  /\ \A v, w \in Workers : v # w => batch[v] \cap batch[w] = {}
  /\ ch \cap (Inserted \cup lost) = {}
  /\ Inserted \cap lost = {}
  /\ \A e \in Events : written[e] <= 1

(* "Shutdown signals workers to stop, flushes remaining events, and waits": *)
(* when it returns, an INSERT was attempted for every view that was         *)
(* accepted before it was called, wherever that was then.  (Not so when     *)
(* log.Fatal ends the process.)                                             *)
ShutdownFlushes == phase = "closed" => owed \subseteq Inserted \cup lost

(* No view waits for ever: under a fair scheduler a view accepted while the *)
(* queue runs is inserted or lost with its INSERT, unless the process ends. *)
AcceptedIsAttempted ==
  \A e \in Events :
    (e \in ch /\ phase = "running") ~> (e \in Inserted \cup lost \/ phase = "exited")

(* Shutdown returns. *)
ShutdownReturns == (phase = "closing") ~> (phase = "closed")
=============================================================================
