------------------------------ MODULE ConnPool ------------------------------
(***************************************************************************)
(* The pool of Postgres connections every request draws on, and the one    *)
(* handler that holds a connection while it asks for another: the list of  *)
(* books.  fetchAdminBooks reads its result set row by row, which keeps a  *)
(* connection of its own, and loads each book's authors and categories     *)
(* through the pool before it reads the next.  GET /books and              *)
(* GET /admin/books both come here.                                        *)
(*                                                                         *)
(* Nothing bounds the wait for a connection but the client going away: the *)
(* handlers pass the request's context on and put no time limit on it.     *)
(***************************************************************************)
EXTENDS Naturals, FiniteSets

CONSTANTS
  Listers,       \* slots for requests that list books
  Others,        \* slots for requests with one statement or transaction
  MaxOpen,       \* db.SetMaxOpenConns
  MaxBooks,      \* bound of the model: books on a page
  ClientsLeave   \* a client may give up while its request waits

ASSUME ConnPoolAssumption ==
  /\ IsFiniteSet(Listers) /\ IsFiniteSet(Others)
  /\ Listers \cap Others = {}
  /\ MaxOpen \in Nat \ {0} /\ MaxBooks \in Nat
  /\ ClientsLeave \in BOOLEAN

VARIABLES
  at,    \* what each request is at
  left,  \* books not yet read from each result set
  open,  \* requests whose open result set holds a connection
  busy   \* requests whose statement is being executed, on a connection

vars == <<at, left, open, busy>>

Requests == Listers \cup Others

Statements == {"count", "rows", "authors", "categories", "statement"}

InUse == Cardinality(open) + Cardinality(busy)

Waiting(r) == at[r] \in Statements /\ r \notin busy

Init ==
  /\ at = [r \in Requests |-> "idle"]
  /\ left = [r \in Requests |-> 0]
  /\ open = {} /\ busy = {}

-----------------------------------------------------------------------------
Begin(r) ==
  /\ at[r] = "idle"
  /\ at' = [at EXCEPT ![r] = IF r \in Listers THEN "count" ELSE "statement"]
  /\ UNCHANGED <<left, open, busy>>

(* Mutant: a pool without a limit. *)
Acquire_NoLimit(r) ==
  /\ Waiting(r)
  /\ busy' = busy \cup {r}
  /\ UNCHANGED <<at, left, open>>

(* A statement gets a connection: an idle one, a new one, or one handed on  *)
(* by a request that is done with it.                                       *)
Acquire(r) ==
  /\ Waiting(r)
  /\ InUse < MaxOpen
  /\ busy' = busy \cup {r}
  /\ UNCHANGED <<at, left, open>>

(* A statement is done and gives its connection back. *)
Done(r, from, to) ==
  /\ at[r] = from /\ r \in busy
  /\ at' = [at EXCEPT ![r] = to]
  /\ busy' = busy \ {r}
  /\ UNCHANGED <<left, open>>

(* countAdminBooks; LoadAuthorsForBook and LoadCategoriesForBook for a book *)
Count(r)      == Done(r, "count", "rows")
Authors(r)    == Done(r, "authors", "categories")
Categories(r) == Done(r, "categories", "scan")

(* Mutant: a transaction that sends its statements through the pool. *)
Other_ThroughPool(r) ==
  /\ at[r] = "statement" /\ r \in busy
  /\ at' = [at EXCEPT ![r] = "authors"]
  /\ busy' = busy \ {r} /\ open' = open \cup {r}
  /\ UNCHANGED left

(* Any other handler: the end of its statement, or of its transaction,      *)
(* whose statements all go over its own connection.                         *)
Other(r) == Done(r, "statement", "idle")

(* The list's own query: its rows stay on the connection. *)
Rows(r) ==
  /\ at[r] = "rows" /\ r \in busy
  /\ at' = [at EXCEPT ![r] = "scan"]
  /\ \E n \in 0 .. MaxBooks : left' = [left EXCEPT ![r] = n]
  /\ busy' = busy \ {r} /\ open' = open \cup {r}

NextRow(r) ==
  /\ at[r] = "scan" /\ left[r] > 0
  /\ at' = [at EXCEPT ![r] = "authors"]
  /\ left' = [left EXCEPT ![r] = @ - 1]
  /\ UNCHANGED <<open, busy>>

LastRow(r) ==
  /\ at[r] = "scan" /\ left[r] = 0
  /\ at' = [at EXCEPT ![r] = "idle"]
  /\ open' = open \ {r}
  /\ UNCHANGED <<left, busy>>

(* Mutant: rows left open by an early return. *)
Return_LeavesRows(r) ==
  /\ at' = [at EXCEPT ![r] = "idle"]
  /\ left' = [left EXCEPT ![r] = 0]
  /\ busy' = busy \ {r}
  /\ UNCHANGED open

(* The handler returns and closes what it has open. *)
Return(r) ==
  /\ at' = [at EXCEPT ![r] = "idle"]
  /\ left' = [left EXCEPT ![r] = 0]
  /\ open' = open \ {r} /\ busy' = busy \ {r}

(* A statement fails, or the client gives up: the request's context ends    *)
(* whatever it is at.                                                       *)
Fail(r) == r \in busy /\ Return(r)
Leave(r) == ClientsLeave /\ at[r] # "idle" /\ Return(r)

Work(r) ==
  \/ Count(r) \/ Rows(r) \/ NextRow(r) \/ Authors(r) \/ Categories(r)
  \/ LastRow(r) \/ Other(r) \/ Fail(r)

Next == \E r \in Requests : Begin(r) \/ Acquire(r) \/ Work(r) \/ Leave(r)

Spec == Init /\ [][Next]_vars

(* Statements end, handlers go on, and database/sql gives a connection that *)
(* is returned to a waiting statement drawn at random, so none waits for    *)
(* ever while connections keep being returned.                              *)
FairSpec ==
  Spec /\ \A r \in Requests : WF_vars(Work(r)) /\ SF_vars(Acquire(r))

-----------------------------------------------------------------------------
(* Types; the pool never has more connections out than it may, and only a   *)
(* request past its query has rows open.                                    *)
TypeOK ==
  /\ at \in [Requests -> Statements \cup {"idle", "scan"}]
  /\ left \in [Requests -> 0 .. MaxBooks]
  /\ open \subseteq Requests /\ busy \subseteq Requests
  /\ InUse <= MaxOpen
  /\ \A r \in busy : at[r] \in Statements
  /\ \A r \in open : at[r] \in {"scan", "authors", "categories"}

(* The requests all wait for each other: every connection is held by the    *)
(* open rows of a request that waits for another one.                       *)
Gridlocked ==
  busy = {} /\ InUse = MaxOpen /\ \A r \in open : Waiting(r)

(* Lists half-way through their pages: on their own rows they load what     *)
(* belongs to a book.                                                       *)
Nesting == {r \in Listers : at[r] \in {"authors", "categories"}}

(* It takes as many lists at a time as the pool has connections to stop     *)
(* everybody: no other handler, a transaction included, adds to that        *)
(* (read.go:195, :200).                                                     *)
OnlyListsGridlock == Gridlocked => Cardinality(Nesting) >= MaxOpen

(* Once they are there, nothing but a client that gives up lets them go on: *)
(* no request ends, fails or times out by itself, and new ones only join.   *)
GridlockLasts ==
  [][Gridlocked => Gridlocked' \/ \E r \in Requests : Leave(r)]_vars

(* A page of books is answered, and so is everybody else, or the requests   *)
(* come to wait for each other; and again whenever a client's leaving frees *)
(* them.                                                                    *)
Answered == \A r \in Requests : at[r] # "idle" ~> at[r] = "idle" \/ Gridlocked
=============================================================================
