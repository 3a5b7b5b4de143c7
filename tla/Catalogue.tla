----------------------------- MODULE Catalogue -----------------------------
(***************************************************************************)
(* The books themselves: a row of books, and the rows of book_authors and  *)
(* book_categories that link it to names.  Administrators create, replace, *)
(* patch and delete books (internal/store/books behind the handlers        *)
(* internal/api/handlers/books/admin_{create,put,patch,delete}.go).        *)
(*                                                                         *)
(* Each of them writes in a READ COMMITTED transaction; what PATCH starts  *)
(* from it reads before, in statements of their own.  Postgres is modelled *)
(* from how that code uses it: a statement sees what was committed when it *)
(* began, waits for transactions that hold a row it is to write, and skips *)
(* rows they deleted meanwhile.  Any statement may fail, a deadlock being  *)
(* one reason, and so may the client: the transaction is rolled back.      *)
(*                                                                         *)
(* Lengths, and what trimming does to a text that is not blank, are left   *)
(* out, and so are unique columns: a violation is one more failure.        *)
(***************************************************************************)
EXTENDS Naturals

CONSTANTS
  Columns,     \* columns of books, of "coda", "title", "short", "summary"
  Texts,       \* what a column may hold, when it is not blank
  Tables,      \* the link tables, of "authors" and "categories"
  Names,       \* names clients send
  Blank,       \* a blank text or name
  Requests,    \* places for requests in progress
  MaxRows,     \* bound of the model: rows of books inserted
  MaxCommits,  \* bound of the model: transactions committed
  None

ASSUME CatalogueAssumption ==
  /\ "title" \in Columns
  /\ Tables \subseteq {"authors", "categories"}
  /\ MaxRows \in Nat /\ MaxCommits \in Nat
  /\ Blank \notin Texts

VARIABLES
  row,      \* the committed row of each id, or None
  links,    \* the committed link rows, by table and id
  req,      \* requests in progress
  created,  \* rows inserted so far, which also numbers them
  commits,  \* transactions committed so far: tells link rows of a name apart
  wrote     \* history: the book the last commit to each id meant to store

vars == <<row, links, req, created, commits, wrote>>

Ids == 1 .. MaxRows
Parts == {"row"} \cup Tables
Links == [name : Names \ {Blank}, at : 1 .. MaxCommits]
Books == [row : [Columns -> Texts \cup {Blank}], names : [Tables -> SUBSET Names]]

ASSUME NoneAssumption ==
  /\ None \notin Books /\ None \notin [Columns -> Texts \cup {Blank}]
  /\ None \notin {"create", "replace", "patch", "delete"}

NoLinks == [t \in Tables |-> {}]
NameSet(ls) == {l.name : l \in ls}

(* A book as it is stored, or was: None for a row that is not there. *)
Snapshots ==
  [row : [Columns -> Texts \cup {Blank}] \cup {None}, names : [Tables -> SUBSET (Names \ {Blank})]]
Snapshot(text, ls) == [row |-> text, names |-> [t \in Tables |-> NameSet(ls[t])]]

(* "todo": statements to come, by the part of the book they deal with;      *)
(* "locked": the transaction has written the row; "gone": link rows it has  *)
(* deleted; "seen": those its DELETE in progress saw.  Two are history:     *)
(* "began", the commits there had been when the request came, and "held",   *)
(* what the book of a PATCH has been since the PATCH came.                  *)
Idle == [pc |-> "idle", op |-> None, id |-> 0, named |-> {}, book |-> None,
         todo |-> {}, locked |-> FALSE, gone |-> NoLinks, seen |-> {}, began |-> 0,
         held |-> {}]

RequestStates ==
  [pc : {"idle", "read", "find", "tx", "clear"},
   op : {"create", "replace", "patch", "delete", None}, id : 0 .. MaxRows,
   named : SUBSET (Columns \cup Tables), book : Books \cup {None},
   todo : SUBSET Parts, locked : BOOLEAN, gone : [Tables -> SUBSET Links], seen : SUBSET Links,
   began : 0 .. MaxCommits, held : SUBSET Snapshots]

Become(r, q) == req' = [req EXCEPT ![r] = q]

(* Keeps the committed books. *)
Unwritten == UNCHANGED <<row, links, created, commits, wrote>>

Init ==
  /\ row = [i \in Ids |-> None]
  /\ links = [t \in Tables |-> [i \in Ids |-> {}]]
  /\ req = [r \in Requests |-> Idle]
  /\ created = 0 /\ commits = 0
  /\ wrote = [i \in Ids |-> None]

-----------------------------------------------------------------------------
(* validateV2: a title and at least one name of each kind, blank ones       *)
(* counted.                                                                 *)
Valid(b) == b.row["title"] # Blank /\ \A t \in Tables : b.names[t] # {}

(* Dedup, on the way into the tables. *)
Kept(ns) == ns \ {Blank}

(* Mutant: clears the links before it takes the row. *)
Rank_ClearFirst(op, part) == IF part = "authors" THEN 1 ELSE IF part = "categories" THEN 2 ELSE 3

(* The order of a request's statements, by the part they deal with. *)
Rank(op, part) ==
  IF part = "row" THEN IF op = "delete" THEN 3 ELSE 0
  ELSE IF part = "authors" THEN 1 ELSE 2

(* The part the next statement deals with. *)
Turn(q, part) ==
  part \in q.todo /\ \A p \in q.todo : Rank(q.op, part) <= Rank(q.op, p)

(* Mutant: columns the request does not name are emptied. *)
Merged_OthersEmptied(q, part) ==
  IF part = "row" THEN [q.book EXCEPT !.row = [c \in Columns |-> IF c \in q.named THEN @[c] ELSE Blank]]
  ELSE IF part \in q.named THEN q.book
  ELSE [q.book EXCEPT !.names[part] = NameSet(links[part][q.id])]

(* What PATCH will write: what the request names, over what it reads of the *)
(* book.                                                                    *)
Merged(q, part) ==
  IF part = "row" THEN [q.book EXCEPT !.row = [c \in Columns |-> IF c \in q.named THEN @[c] ELSE row[q.id][c]]]
  ELSE IF part \in q.named THEN q.book
  ELSE [q.book EXCEPT !.names[part] = NameSet(links[part][q.id])]

(* Rows of the book that another transaction has written or deleted. *)
RowBusy(r) == \E s \in Requests \ {r} : req[s].id = req[r].id /\ req[s].locked
BusyLinks(r, t) ==
  UNION {req[s].gone[t] : s \in {x \in Requests \ {r} : req[x].id = req[r].id}}

-----------------------------------------------------------------------------
(* The handlers decode the request; AdminCreate drops blank names. *)
StartCreate(r, b) ==
  /\ req[r].pc = "idle" /\ Valid(b)
  /\ \A t \in Tables : Blank \notin b.names[t]
  /\ Become(r, [Idle EXCEPT !.pc = "tx", !.op = "create", !.book = b])
  /\ Unwritten

StartReplace(r, i, b) ==
  /\ req[r].pc = "idle" /\ Valid(b)
  /\ Become(r, [Idle EXCEPT !.pc = "find", !.op = "replace", !.id = i, !.book = b])
  /\ Unwritten

(* "named" are the columns and tables the body has a value for. *)
StartPatch(r, i, named, b) ==
  /\ req[r].pc = "idle"
  /\ \A c \in Columns \ named : b.row[c] = Blank
  /\ \A t \in Tables \ named : b.names[t] = {}
  /\ Become(r, [Idle EXCEPT !.pc = "read", !.op = "patch", !.id = i, !.named = named,
                            !.book = b, !.todo = Parts,
                            !.held = {Snapshot(row[i], [t \in Tables |-> links[t][i]])}])
  /\ Unwritten

StartDelete(r, i) ==
  /\ req[r].pc = "idle"
  /\ Become(r, [Idle EXCEPT !.pc = "find", !.op = "delete", !.id = i,
                            !.began = commits])
  /\ Unwritten

(* GetAdminBookByID for PATCH: a statement for the row, then one for each   *)
(* table.                                                                   *)
Read(r, part) ==
  LET q == req[r]
  IN  /\ q.pc = "read" /\ Turn(q, part)
      /\ part = "row" => row[q.id] # None
      /\ Become(r, [q EXCEPT !.book = Merged(q, part), !.todo = @ \ {part}])
      /\ Unwritten

(* ReplaceV2 validates what PATCH made up. *)
Merge(r) ==
  LET q == req[r]
  IN  /\ q.pc = "read" /\ q.todo = {}
      /\ Valid(q.book)
      /\ Become(r, [q EXCEPT !.pc = "find"])
      /\ Unwritten

(* Mutant: a deletion leaves the links to others. *)
Find_KeepLinks(r) ==
  LET q == req[r]
  IN  /\ q.pc = "find" /\ row[q.id] # None
      /\ Become(r, [q EXCEPT !.pc = "tx", !.todo = IF q.op = "delete" THEN {"row"} ELSE Parts])
      /\ Unwritten

(* The book must be there; then the transaction begins. *)
Find(r) ==
  LET q == req[r]
  IN  /\ q.pc = "find" /\ row[q.id] # None
      /\ Become(r, [q EXCEPT !.pc = "tx", !.todo = Parts])
      /\ Unwritten

(* UPDATE or DELETE of the row: waits for its turn, and finds the row or    *)
(* ends the transaction.                                                    *)
WriteRow(r) ==
  LET q == req[r]
  IN  /\ q.pc = "tx" /\ Turn(q, "row")
      /\ ~RowBusy(r) /\ row[q.id] # None
      /\ Become(r, [q EXCEPT !.locked = TRUE, !.todo = @ \ {"row"}])
      /\ Unwritten

(* ClearBookRelationships: a DELETE on a table takes its snapshot, ... *)
Clear(r, t) ==
  LET q == req[r]
  IN  /\ q.pc = "tx" /\ Turn(q, t)
      /\ Become(r, [q EXCEPT !.pc = "clear", !.seen = links[t][q.id]])
      /\ Unwritten

(* ... waits for those who delete the same rows, and deletes what of them   *)
(* is still there.                                                          *)
Cleared(r, t) ==
  LET q == req[r]
  IN  /\ q.pc = "clear" /\ Turn(q, t)
      /\ q.seen \cap BusyLinks(r, t) = {}
      /\ Become(r, [q EXCEPT !.pc = "tx", !.gone[t] = q.seen \cap links[t][q.id],
                             !.seen = {}, !.todo = @ \ {t}])
      /\ Unwritten

(* LinkAuthors, LinkCategories: the names not linked yet. *)
Linked(q, t, there) ==
  there \cup {[name |-> n, at |-> commits + 1] : n \in Kept(q.book.names[t]) \ NameSet(there)}

(* A PATCH of the book is in progress while the book becomes "b". *)
Witnessed(q, i, b) == IF q.op = "patch" /\ q.id = i THEN [q EXCEPT !.held = @ \cup {b}] ELSE q

(* The transaction commits: its statements take effect.  A new book gets    *)
(* its id from its INSERT; nobody sees it before.  Of a book that is deleted *)
(* the links go that DELETE saw; what becomes of others the schema decides, *)
(* which is not in the repository: they stay, go with the book, or keep it  *)
(* from being deleted (Fail).                                               *)
Commit(r, cascades) ==
  LET q == req[r]
      i == IF q.op = "create" THEN created + 1 ELSE q.id
      text == IF q.op = "delete" THEN None ELSE q.book.row
      linked == [t \in Tables |->
                   IF q.op # "delete" THEN Linked(q, t, links[t][i] \ q.gone[t])
                   ELSE IF cascades THEN {} ELSE links[t][i] \ q.gone[t]]
  IN  /\ q.pc = "tx" /\ q.todo = {}
      /\ commits < MaxCommits /\ i \in Ids
      /\ row' = [row EXCEPT ![i] = text]
      /\ links' = [t \in Tables |-> [links[t] EXCEPT ![i] = linked[t]]]
      /\ created' = IF q.op = "create" THEN i ELSE created
      /\ commits' = commits + 1
      /\ wrote' = [wrote EXCEPT ![i] = IF q.op = "delete" THEN None ELSE q.book]
      /\ req' = [s \in Requests |-> IF s = r THEN Idle
                                    ELSE Witnessed(req[s], i, Snapshot(text, linked))]

(* Not found, not valid, an error, a deadlock's victim, or a client that is *)
(* gone: what the transaction did is undone.                                *)
Fail(r) ==
  /\ req[r].pc # "idle"
  /\ Become(r, Idle)
  /\ Unwritten

(* Nobody begins once the bound of commits is reached. *)
Next ==
  \E r \in Requests :
    \/ /\ req[r].pc = "idle" /\ commits < MaxCommits
       /\ \/ \E b \in Books :
               \/ StartCreate(r, b)
               \/ \E i \in Ids :
                    \/ StartReplace(r, i, b)
                    \/ \E named \in SUBSET (Columns \cup Tables) : StartPatch(r, i, named, b)
          \/ \E i \in Ids : StartDelete(r, i)
    \/ \E part \in Parts : Read(r, part)
    \/ \E t \in Tables : Clear(r, t) \/ Cleared(r, t)
    \/ \E cascades \in BOOLEAN : Commit(r, cascades)
    \/ Merge(r) \/ Find(r) \/ WriteRow(r) \/ Fail(r)

Spec == Init /\ [][Next]_vars

-----------------------------------------------------------------------------
(* Types; a row is locked by one transaction at a time, and so is a link    *)
(* row.                                                                     *)
TypeOK ==
  /\ row \in [Ids -> [Columns -> Texts \cup {Blank}] \cup {None}]
  /\ links \in [Tables -> [Ids -> SUBSET Links]]
  /\ created \in 0 .. MaxRows /\ commits \in 0 .. MaxCommits
  /\ wrote \in [Ids -> Books \cup {None}]
  /\ req \in [Requests -> RequestStates]
  /\ \A r \in Requests :
       /\ req[r].locked => ~RowBusy(r)
       /\ \A t \in Tables : req[r].gone[t] \cap BusyLinks(r, t) = {}

(* Replacements, patches and deletions of one book at the same time leave   *)
(* one of them behind, whole: the row and the names of a stored book are    *)
(* those one request meant to store, no name of a book it replaced is left  *)
(* and none is missing (update.go:35-48).                                   *)
Whole ==
  \A i \in Ids :
    row[i] # None =>
      /\ wrote[i] # None /\ row[i] = wrote[i].row
      /\ \A t \in Tables : NameSet(links[t][i]) = Kept(wrote[i].names[t])

(* PATCH writes back columns and names it was not asked to touch, as it has *)
(* read them, and so may undo what others committed meanwhile.  What it     *)
(* writes there is never older than itself and never made up: each of them  *)
(* is what the book held at some moment since the PATCH came                *)
(* (update.go:66-102).                                                      *)
PatchInventsNothing ==
  [][\A r \in Requests :
       LET q == req[r]
       IN  (q.op = "patch" /\ commits' > commits /\ req'[r] = Idle) =>
             /\ \A c \in Columns \ q.named :
                  \E b \in q.held : b.row # None /\ row'[q.id][c] = b.row[c]
             /\ \A t \in Tables \ q.named :
                  \E b \in q.held : NameSet(links'[t][q.id]) = b.names[t]]_vars

(* A deletion leaves no link the book had when the deletion came, whoever   *)
(* else writes the book meanwhile; only links committed since, which its    *)
(* DELETE did not see, can be left (delete.go:34-40).                       *)
DeletionLeavesNothingOld ==
  [][\A r \in Requests :
       LET q == req[r]
       IN  (q.op = "delete" /\ commits' > commits /\ req'[r] = Idle) =>
             \A t \in Tables : \A l \in links'[t][q.id] : l.at > q.began]_vars
=============================================================================
