-------------------------- MODULE CatalogueProofs --------------------------
(***************************************************************************)
(* Theorems about writing books (Catalogue) and about reading the lists of *)
(* them and of users and audit entries page by page (Lists).               *)
(*                                                                         *)
(* Catalogue: its types, that overlapping writes leave one of them behind, *)
(* whole, how old what a PATCH puts back can be, and what a deletion       *)
(* leaves.  The second rests on the order of the statements: a replacement *)
(* takes the row before it clears the links, so that what it sees of them  *)
(* stays as it is until it commits.  The other two rest on what requests   *)
(* remember of the past of their book.                                     *)
(*                                                                         *)
(* Lists: what a client that walks a list misses and sees twice.  LIMIT    *)
(* and OFFSET count rows, so everything rests on the depth of a row, how   *)
(* many rows are newer: an insertion never makes it less, a deletion takes *)
(* at most one from it, and a row deeper than a page leaves it full.  Rows *)
(* created at once may come in any order, and nothing is said of them; the *)
(* depth of another tells whether it is among the first n of a list.       *)
(***************************************************************************)
EXTENDS Catalogue, Lists, FiniteSetTheorems, TLAPS

(* Ids of rows inserted are counted, and the next one is of no link. *)
Numbered ==
  \A i \in Ids : ~(i <= created) => row[i] = None /\ \A t \in Tables : links[t][i] = {}

(* What a request knows at each stage. *)
Staged(q) ==
  /\ q.pc = "idle" => q = Idle
  /\ q.pc = "read" => q.op = "patch"
  /\ q.pc # "idle" /\ q.op # "delete" => q.book \in Books
  /\ q.pc # "idle" /\ q.op # "create" => q.id \in Ids
  /\ q.pc \in {"read", "find"} => ~q.locked /\ q.gone = NoLinks
  /\ q.pc # "idle" /\ q.op = "create" => q.pc = "tx" /\ ~q.locked /\ q.todo = {}

(* A transaction that has the row, and what it has of the links. *)
HoldsRow(q) ==
  /\ q.pc \in {"tx", "clear"} /\ q.op # "create" =>
       q.locked \/ ("row" \in q.todo /\ (q.op # "delete" => q.todo = Parts))
  /\ q.pc = "clear" /\ q.op # "delete" => q.locked
  /\ q.locked => q.pc \in {"tx", "clear"} /\ "row" \notin q.todo /\ row[q.id] # None
  /\ q.locked /\ q.op # "delete" =>
       /\ \A t \in Tables \ q.todo : q.gone[t] = links[t][q.id]
       /\ q.pc = "clear" => \A t \in Tables : Turn(q, t) => q.seen = links[t][q.id]

Inv ==
  /\ TypeOK /\ Numbered /\ Whole
  /\ \A r \in Requests : Staged(req[r]) /\ HoldsRow(req[r])

LEMMA IdleState ==
  /\ Idle \in RequestStates /\ Idle.pc = "idle" /\ ~Idle.locked
  /\ Idle.gone = NoLinks /\ Idle.todo = {}
BY CatalogueAssumption DEF Idle, RequestStates, NoLinks, Parts

LEMMA InitInv == Init => Inv
<1> SUFFICES ASSUME Init PROVE Inv
  OBVIOUS
<1>1. Idle \in RequestStates /\ ~Idle.locked /\ Idle.gone = NoLinks /\ Idle.pc = "idle"
  BY IdleState
<1>2. TypeOK
  BY <1>1, CatalogueAssumption DEF Init, TypeOK, RowBusy, BusyLinks, NoLinks, Ids
<1>3. Numbered /\ Whole
  BY DEF Init, Numbered, Whole
<1>4. \A r \in Requests : Staged(req[r]) /\ HoldsRow(req[r])
  BY <1>1, NoneAssumption DEF Init, Staged, HoldsRow
<1> QED
  BY <1>2, <1>3, <1>4 DEF Inv

(* The statement that comes next is on one part only, the row first unless *)
(* the book is deleted.                                                    *)
LEMMA OneTurn ==
  ASSUME NEW q \in RequestStates, NEW t \in Tables, Turn(q, t)
  PROVE  /\ \A p \in Tables : Turn(q, p) => p = t
         /\ q.op # "delete" => "row" \notin q.todo
BY CatalogueAssumption DEF Turn, Rank, Parts, RequestStates

(* A request that starts holds nothing. *)
LEMMA StartInv ==
  ASSUME Inv, NEW r \in Requests, NEW q \in RequestStates, Become(r, q), Unwritten,
         Staged(q), q.pc \in {"idle", "read", "find"} \/ q.op = "create",
         ~q.locked, q.gone = NoLinks
  PROVE  Inv'
<1>1. /\ req' = [req EXCEPT ![r] = q]
      /\ UNCHANGED <<row, links, created, commits, wrote>>
  BY DEF Become, Unwritten
<1>2. TypeOK'
  <2>1. \A s \in Requests : req'[s].locked => req'[s] = req[s] /\ ~RowBusy(s)'
    BY <1>1 DEF Inv, TypeOK, RowBusy
  <2>2. ASSUME NEW s \in Requests, NEW t \in Tables
        PROVE  req'[s].gone[t] \cap BusyLinks(s, t)' = {}
    <3>1. BusyLinks(s, t)' \subseteq BusyLinks(s, t) \/ s = r
      BY <1>1 DEF Inv, TypeOK, BusyLinks, NoLinks
    <3> QED
      BY <1>1, <3>1 DEF Inv, TypeOK, NoLinks
  <2> QED
    BY <1>1, <2>1, <2>2 DEF Inv, TypeOK
<1>3. Numbered' /\ Whole'
  BY <1>1 DEF Inv, Numbered, Whole, NameSet, Kept
<1>4. ASSUME NEW s \in Requests
      PROVE  Staged(req[s])' /\ HoldsRow(req[s])'
  <2>1. CASE s = r
    BY <1>1, <2>1 DEF Inv, TypeOK, Staged, HoldsRow
  <2>2. CASE s # r
    <3>1. req'[s] = req[s]
      BY <1>1, <2>2 DEF Inv, TypeOK
    <3> QED
      BY <1>1, <3>1 DEF Inv, Staged, HoldsRow, Turn
  <2> QED
    BY <2>1, <2>2
<1> QED
  BY <1>2, <1>3, <1>4 DEF Inv

(* A transaction takes a step short of its commit: what it holds stays its *)
(* own.                                                                     *)
LEMMA HoldInv ==
  ASSUME Inv, NEW r \in Requests, NEW q \in RequestStates, Become(r, q), Unwritten,
         Staged(q), HoldsRow(q), q.id = req[r].id,
         q.locked => req[r].locked \/ ~RowBusy(r),
         \A t \in Tables : q.gone[t] \subseteq req[r].gone[t] \/ q.gone[t] \cap BusyLinks(r, t) = {}
  PROVE  Inv'
<1>1. /\ req' = [req EXCEPT ![r] = q]
      /\ UNCHANGED <<row, links, created, commits, wrote>>
  BY DEF Become, Unwritten
<1>2. TypeOK'
  <2>1. ASSUME NEW s \in Requests, req'[s].locked
        PROVE  ~RowBusy(s)'
    BY <1>1, <2>1 DEF Inv, TypeOK, RowBusy
  <2>2. ASSUME NEW s \in Requests, NEW x \in Requests, s # x, NEW t \in Tables,
               req'[s].id = req'[x].id
        PROVE  req'[s].gone[t] \cap req'[x].gone[t] = {}
    BY <1>1, <2>2 DEF Inv, TypeOK, BusyLinks
  <2>3. ASSUME NEW s \in Requests, NEW t \in Tables
        PROVE  req'[s].gone[t] \cap BusyLinks(s, t)' = {}
    BY <2>2 DEF BusyLinks
  <2> QED
    BY <1>1, <2>1, <2>3 DEF Inv, TypeOK
<1>3. Numbered' /\ Whole'
  BY <1>1 DEF Inv, Numbered, Whole, NameSet, Kept
<1>4. ASSUME NEW s \in Requests
      PROVE  Staged(req[s])' /\ HoldsRow(req[s])'
  <2>1. CASE s = r
    BY <1>1, <2>1 DEF Inv, TypeOK, Staged, HoldsRow, Turn
  <2>2. CASE s # r
    <3>1. req'[s] = req[s]
      BY <1>1, <2>2 DEF Inv, TypeOK
    <3> QED
      BY <1>1, <3>1 DEF Inv, Staged, HoldsRow, Turn
  <2> QED
    BY <2>1, <2>2
<1> QED
  BY <1>2, <1>3, <1>4 DEF Inv

(* The names of link rows made for a set of names are that set. *)
LEMMA NamesOfNew ==
  ASSUME NEW S, NEW c
  PROVE  NameSet({[name |-> n, at |-> c] : n \in S}) = S
<1> DEFINE rows == {[name |-> n, at |-> c] : n \in S}
<1>1. \A n \in S : [name |-> n, at |-> c] \in rows /\ [name |-> n, at |-> c].name = n
  OBVIOUS
<1>2. \A l \in rows : l.name \in S
  OBVIOUS
<1> HIDE DEF rows
<1>3. NameSet(rows) = S
  BY <1>1, <1>2 DEF NameSet
<1> QED
  BY <1>3 DEF rows

(* A snapshot of a book. *)
LEMMA SnapshotType ==
  ASSUME NEW text \in [Columns -> Texts \cup {Blank}] \cup {None},
         NEW ls \in [Tables -> SUBSET Links]
  PROVE  Snapshot(text, ls) \in Snapshots
<1>1. \A t \in Tables : NameSet(ls[t]) \subseteq Names \ {Blank}
  BY DEF NameSet, Links
<1> QED
  BY <1>1 DEF Snapshot, Snapshots

(* A commit changes nothing of other requests but their history. *)
Alike(w, q) ==
  /\ w \in RequestStates
  /\ w.pc = q.pc /\ w.op = q.op /\ w.id = q.id /\ w.named = q.named
  /\ w.book = q.book /\ w.todo = q.todo /\ w.locked = q.locked /\ w.gone = q.gone
  /\ w.seen = q.seen /\ w.began = q.began

LEMMA WitnessedSame ==
  ASSUME NEW q \in RequestStates, NEW i, NEW b \in Snapshots
  PROVE  /\ Alike(Witnessed(q, i, b), q)
         /\ Witnessed(q, i, b).held =
              IF q.op = "patch" /\ q.id = i THEN q.held \cup {b} ELSE q.held
BY DEF Witnessed, RequestStates, Alike

LEMMA CommitInv ==
  ASSUME Inv, NEW r \in Requests, NEW cascades \in BOOLEAN, Commit(r, cascades) PROVE Inv'
<1> DEFINE q == req[r]
           i == IF q.op = "create" THEN created + 1 ELSE q.id
           text == IF q.op = "delete" THEN None ELSE q.book.row
           new(t) == IF q.op # "delete" THEN Linked(q, t, links[t][i] \ q.gone[t])
                     ELSE IF cascades THEN {} ELSE links[t][i] \ q.gone[t]
           linked == [t \in Tables |-> new(t)]
           now == Snapshot(text, linked)
<1>1. /\ q.pc = "tx" /\ q.todo = {} /\ i \in Ids /\ commits < MaxCommits
      /\ row' = [row EXCEPT ![i] = text]
      /\ links' = [t \in Tables |-> [links[t] EXCEPT ![i] = linked[t]]]
      /\ created' = IF q.op = "create" THEN i ELSE created
      /\ commits' = commits + 1
      /\ wrote' = [wrote EXCEPT ![i] = IF q.op = "delete" THEN None ELSE q.book]
      /\ req' = [s \in Requests |-> IF s = r THEN Idle ELSE Witnessed(req[s], i, now)]
  BY DEF Commit
<1>2. /\ q \in RequestStates /\ Staged(q) /\ HoldsRow(q)
      /\ q.op # "create" => q.locked
      /\ q.op # "delete" => q.book \in Books
  BY <1>1 DEF Inv, TypeOK, Staged, HoldsRow
<1>3. Idle \in RequestStates /\ ~Idle.locked /\ Idle.gone = NoLinks /\ Idle.pc = "idle"
  BY IdleState
<1>4. q.op # "delete" => \A t \in Tables : links[t][i] \ q.gone[t] = {}
  <2>1. CASE q.op = "create"
    BY <1>1, <2>1, CatalogueAssumption DEF Inv, Numbered, TypeOK, Ids
  <2>2. CASE q.op # "create"
    BY <1>1, <1>2, <2>2 DEF HoldsRow
  <2> QED
    BY <2>1, <2>2
<1>5. ASSUME NEW t \in Tables
      PROVE  links'[t] = [links[t] EXCEPT ![i] = new(t)]
  BY <1>1 DEF Inv, TypeOK
<1>6. ASSUME NEW t \in Tables
      PROVE  /\ new(t) \in SUBSET Links
             /\ q.op # "delete" => NameSet(new(t)) = Kept(q.book.names[t])
  <2>1. CASE q.op = "delete"
    <3>1. links[t][i] \in SUBSET Links
      BY <1>1 DEF Inv, TypeOK
    <3> QED
      BY <2>1, <3>1
  <2>2. CASE q.op # "delete"
    <3>1. new(t) = {[name |-> n, at |-> commits + 1] : n \in Kept(q.book.names[t])}
      BY <1>4, <2>2 DEF Linked, NameSet
    <3>2. Kept(q.book.names[t]) \subseteq Names \ {Blank}
      BY <1>2, <2>2 DEF Kept, Books
    <3>3. commits + 1 \in 1 .. MaxCommits
      BY <1>1, CatalogueAssumption DEF Inv, TypeOK
    <3> HIDE DEF new
    <3>4. new(t) \in SUBSET Links
      BY <3>1, <3>2, <3>3 DEF Links
    <3>5. NameSet(new(t)) = Kept(q.book.names[t])
      BY <3>1, NamesOfNew
    <3> QED
      BY <3>4, <3>5
  <2> QED
    BY <2>1, <2>2
<1> DEFINE b == q.book
<1>7. q.op # "delete" => b.row \in [Columns -> Texts \cup {Blank}] /\ b \in Books
                         /\ b.row # None /\ b # None
  BY <1>2, NoneAssumption DEF Books
<1>14. now \in Snapshots
  <2>1. linked \in [Tables -> SUBSET Links]
    <3> HIDE DEF new
    <3> QED
      BY <1>6
  <2>2. text \in [Columns -> Texts \cup {Blank}] \cup {None}
    BY <1>7
  <2> HIDE DEF text, linked
  <2> QED
    BY <2>1, <2>2, SnapshotType
<1> HIDE DEF now
<1>8. ASSUME NEW s \in Requests, s # r
      PROVE  /\ req'[s] \in RequestStates
             /\ req'[s].pc = req[s].pc /\ req'[s].op = req[s].op /\ req'[s].id = req[s].id
             /\ req'[s].book = req[s].book /\ req'[s].todo = req[s].todo
             /\ req'[s].locked = req[s].locked /\ req'[s].gone = req[s].gone
             /\ req'[s].seen = req[s].seen
             /\ (req[s].pc = "idle" => req'[s] = req[s])
             /\ (req[s].locked => req[s].id # i)
  <2>1. req'[s] = Witnessed(req[s], i, now) /\ req[s] \in RequestStates
    BY <1>1, <1>8 DEF Inv, TypeOK
  <2>3. req[s].pc = "idle" => req'[s] = req[s]
    <3>1. req[s].pc = "idle" => req[s].op = None
      BY DEF Inv, Staged, Idle
    <3> QED
      BY <2>1, <3>1, NoneAssumption DEF Witnessed
  <2>2. ASSUME req[s].locked PROVE req[s].id # i
    <3>1. CASE q.op = "create"
      <4>1. req[s].id \in Ids /\ row[req[s].id] # None
        <5>1. req[s].pc \in {"tx", "clear"} /\ row[req[s].id] # None
          BY <2>2 DEF Inv, HoldsRow
        <5>2. req[s].op # "create"
          BY <2>2, <5>1 DEF Inv, Staged
        <5> QED
          BY <5>1, <5>2 DEF Inv, Staged
      <4> QED
        BY <3>1, <4>1, CatalogueAssumption DEF Inv, Numbered, TypeOK, Ids
    <3>2. CASE q.op # "create"
      BY <1>2, <1>8, <2>2, <3>2 DEF Inv, TypeOK, RowBusy
    <3> QED
      BY <3>1, <3>2
  <2> HIDE DEF i
  <2>4. Alike(Witnessed(req[s], i, now), req[s])
    BY <1>14, <2>1, WitnessedSame
  <2> QED
    BY <2>1, <2>2, <2>3, <2>4 DEF Alike
<1>9. req'[r] = Idle
  BY <1>1 DEF Inv, TypeOK
<1>10. TypeOK'
  <2>1. /\ row' \in [Ids -> [Columns -> Texts \cup {Blank}] \cup {None}]
        /\ wrote' \in [Ids -> Books \cup {None}]
    BY <1>1, <1>7 DEF Inv, TypeOK
  <2>2. links' \in [Tables -> [Ids -> SUBSET Links]]
    <3>1. ASSUME NEW t \in Tables
          PROVE  links'[t] \in [Ids -> SUBSET Links]
      <4>1. links[t] \in [Ids -> SUBSET Links]
        BY DEF Inv, TypeOK
      <4>2. new(t) \in SUBSET Links /\ links'[t] = [links[t] EXCEPT ![i] = new(t)]
        BY <1>5, <1>6
      <4> HIDE DEF new, i
      <4> QED
        BY <4>1, <4>2
    <3> QED
      BY <1>1, <3>1
  <2>3. created' \in 0 .. MaxRows /\ commits' \in 0 .. MaxCommits
    <3> HIDE DEF i, new
    <3> QED
      BY <1>1, CatalogueAssumption DEF Inv, TypeOK, Ids
  <2>4. req' \in [Requests -> RequestStates]
    <3>1. \A s \in Requests : req'[s] \in RequestStates
      BY <1>3, <1>8, <1>9
    <3> QED
      BY <1>1, <3>1
  <2>5. ASSUME NEW s \in Requests
        PROVE  req'[s].locked => ~RowBusy(s)'
    BY <1>3, <1>8, <1>9 DEF Inv, TypeOK, RowBusy
  <2>6. ASSUME NEW s \in Requests, NEW x \in Requests, s # x, NEW t \in Tables,
               req'[s].id = req'[x].id
        PROVE  req'[s].gone[t] \cap req'[x].gone[t] = {}
    BY <1>3, <1>8, <1>9, <2>6 DEF Inv, TypeOK, BusyLinks, NoLinks
  <2>7. ASSUME NEW s \in Requests, NEW t \in Tables
        PROVE  req'[s].gone[t] \cap BusyLinks(s, t)' = {}
    BY <2>6 DEF BusyLinks
  <2> QED
    BY <2>1, <2>2, <2>3, <2>4, <2>5, <2>7 DEF TypeOK
<1>11. Numbered'
  <2>1. created \in Nat /\ created' \in Nat /\ created <= created' /\ i <= created'
    <3>1. CASE q.op = "create"
      BY <1>1, <3>1 DEF Inv, TypeOK, Ids
    <3>2. CASE q.op # "create"
      <4>1. row[q.id] # None /\ q.id \in Ids
        BY <1>1, <1>2, <3>2 DEF HoldsRow
      <4> QED
        BY <1>1, <3>2, <4>1 DEF Inv, TypeOK, Numbered
    <3> QED
      BY <3>1, <3>2
  <2>2. ASSUME NEW j \in Ids, j # i
        PROVE  row'[j] = row[j] /\ \A t \in Tables : links'[t][j] = links[t][j]
    <3> HIDE DEF i, linked
    <3> QED
      BY <1>1, <2>2 DEF Inv, TypeOK
  <2> HIDE DEF i
  <2> QED
    BY <2>1, <2>2 DEF Inv, Numbered, Ids
<1>12. Whole'
  <2> SUFFICES ASSUME NEW j \in Ids
               PROVE  row'[j] # None =>
                        /\ wrote'[j] # None /\ row'[j] = wrote'[j].row
                        /\ \A t \in Tables : NameSet(links'[t][j]) = Kept(wrote'[j].names[t])
    BY DEF Whole, NameSet, Kept
  <2>1. CASE j # i
    <3>1. row'[j] = row[j] /\ wrote'[j] = wrote[j] /\ \A t \in Tables : links'[t][j] = links[t][j]
      <4> HIDE DEF new, i
      <4> QED
        BY <1>1, <1>5, <2>1 DEF Inv, TypeOK
    <3> QED
      BY <3>1 DEF Inv, Whole
  <2>2. CASE j = i
    <3>1. /\ row'[j] = IF q.op = "delete" THEN None ELSE b.row
          /\ wrote'[j] = IF q.op = "delete" THEN None ELSE b
          /\ \A t \in Tables : links'[t][j] = new(t)
      <4> HIDE DEF new, i
      <4> QED
        BY <1>1, <1>5, <2>2 DEF Inv, TypeOK
    <3>2. CASE q.op = "delete"
      BY <3>1, <3>2
    <3>3. CASE q.op # "delete"
      BY <1>6, <1>7, <3>1, <3>3
    <3> QED
      BY <3>2, <3>3
  <2> QED
    BY <2>1, <2>2
<1>13. ASSUME NEW s \in Requests
       PROVE  Staged(req[s])' /\ HoldsRow(req[s])'
  <2>1. CASE s = r
    BY <1>3, <1>9, <2>1 DEF Staged, HoldsRow
  <2>2. CASE s # r
    <3>1. Staged(req[s])'
      <4>1. Staged(req[s])
        BY DEF Inv
      <4>2. /\ req'[s].pc = req[s].pc /\ req'[s].op = req[s].op /\ req'[s].id = req[s].id
            /\ req'[s].todo = req[s].todo /\ req'[s].locked = req[s].locked
            /\ req'[s].gone = req[s].gone /\ req'[s].book = req[s].book
            /\ (req[s].pc = "idle" => req'[s] = req[s])
        BY <1>8, <2>2
      <4> QED
        BY <4>1, <4>2 DEF Staged
    <3>2. req[s].locked => /\ row'[req[s].id] = row[req[s].id]
                           /\ \A t \in Tables : links'[t][req[s].id] = links[t][req[s].id]
      <4>1. req[s].locked => req[s].id \in Ids /\ req[s].id # i
        BY <1>8, <2>2 DEF Inv, Staged, HoldsRow
      <4> HIDE DEF new, i
      <4> QED
        BY <1>1, <1>5, <4>1 DEF Inv, TypeOK
    <3>3. HoldsRow(req[s])'
      <4>1. HoldsRow(req[s])
        BY DEF Inv
      <4>2. /\ req'[s].pc = req[s].pc /\ req'[s].op = req[s].op /\ req'[s].id = req[s].id
            /\ req'[s].todo = req[s].todo /\ req'[s].locked = req[s].locked
            /\ req'[s].gone = req[s].gone /\ req'[s].seen = req[s].seen
        BY <1>8, <2>2
      <4>3. \A p : Turn(req[s], p)' => Turn(req[s], p)
        BY <4>2 DEF Turn
      <4> QED
        BY <3>2, <4>1, <4>2, <4>3 DEF HoldsRow
    <3> QED
      BY <3>1, <3>3
  <2> QED
    BY <2>1, <2>2
<1> HIDE DEF i, text, linked, new
<1> QED
  BY <1>10, <1>11, <1>12, <1>13 DEF Inv

(* What PATCH makes up of a request and a book is a book. *)
LEMMA MergedIsBook ==
  ASSUME TypeOK, NEW q \in RequestStates, q.id \in Ids, q.book \in Books, NEW part \in Parts,
         part = "row" => row[q.id] # None
  PROVE  Merged(q, part) \in Books
<1>1. CASE part = "row"
  <2>1. row[q.id] \in [Columns -> Texts \cup {Blank}]
    BY <1>1 DEF TypeOK
  <2>2. /\ q.book.row \in [Columns -> Texts \cup {Blank}]
        /\ q.book.names \in [Tables -> SUBSET Names]
        /\ q.book = [row |-> q.book.row, names |-> q.book.names]
    BY DEF Books
  <2>3. Merged(q, part) =
          [row |-> [c \in Columns |-> IF c \in q.named THEN q.book.row[c] ELSE row[q.id][c]],
           names |-> q.book.names]
    BY <1>1, <2>2 DEF Merged
  <2> QED
    BY <2>1, <2>2, <2>3 DEF Books
<1>2. CASE part \in Tables /\ part # "row"
  <2>1. NameSet(links[part][q.id]) \subseteq Names
    BY <1>2 DEF NameSet, TypeOK, Links
  <2> QED
    BY <1>2, <2>1 DEF Merged, Books
<1> QED
  BY <1>1, <1>2 DEF Parts

LEMMA NextInv == Inv /\ [Next]_vars => Inv'
<1> SUFFICES ASSUME Inv, [Next]_vars PROVE Inv'
  OBVIOUS
<1>1. ASSUME NEW r \in Requests, NEW b \in Books, StartCreate(r, b)
      PROVE  Inv'
  <2> DEFINE q == [Idle EXCEPT !.pc = "tx", !.op = "create", !.book = b]
  <2>1. Become(r, q) /\ Unwritten
    BY <1>1 DEF StartCreate
  <2>2. /\ q \in RequestStates /\ ~q.locked /\ q.gone = NoLinks /\ q.op = "create"
        /\ Staged(q)
    BY IdleState DEF RequestStates, Parts, Staged
  <2> HIDE DEF q
  <2> QED
    BY <2>1, <2>2, StartInv
<1>2. ASSUME NEW r \in Requests, NEW i \in Ids, NEW b \in Books, StartReplace(r, i, b)
      PROVE  Inv'
  <2> DEFINE q == [Idle EXCEPT !.pc = "find", !.op = "replace", !.id = i, !.book = b]
  <2>1. Become(r, q) /\ Unwritten
    BY <1>2 DEF StartReplace
  <2>2. /\ q \in RequestStates /\ ~q.locked /\ q.gone = NoLinks /\ q.pc = "find"
        /\ Staged(q)
    <3>1. i \in 0 .. MaxRows
      BY CatalogueAssumption DEF Ids
    <3> QED
      BY <3>1, IdleState DEF RequestStates, Staged
  <2> HIDE DEF q
  <2> QED
    BY <2>1, <2>2, StartInv
<1>3. ASSUME NEW r \in Requests, NEW i \in Ids, NEW b \in Books,
             NEW named \in SUBSET (Columns \cup Tables), StartPatch(r, i, named, b)
      PROVE  Inv'
  <2> DEFINE was == Snapshot(row[i], [t \in Tables |-> links[t][i]])
             q == [Idle EXCEPT !.pc = "read", !.op = "patch", !.id = i, !.named = named,
                               !.book = b, !.todo = Parts, !.held = {was}]
  <2>1. Become(r, q) /\ Unwritten
    BY <1>3 DEF StartPatch
  <2>3. was \in Snapshots
    <3>1. row[i] \in [Columns -> Texts \cup {Blank}] \cup {None}
      BY DEF Inv, TypeOK
    <3>2. [t \in Tables |-> links[t][i]] \in [Tables -> SUBSET Links]
      BY DEF Inv, TypeOK
    <3> QED
      BY <3>1, <3>2, SnapshotType
  <2> HIDE DEF was
  <2>2. /\ q \in RequestStates /\ ~q.locked /\ q.gone = NoLinks /\ q.pc = "read"
        /\ Staged(q)
    <3>1. i \in 0 .. MaxRows /\ {was} \in SUBSET Snapshots
      BY <2>3, CatalogueAssumption DEF Ids
    <3> QED
      BY <3>1, IdleState DEF RequestStates, Staged
  <2> HIDE DEF q
  <2> QED
    BY <2>1, <2>2, StartInv
<1>4. ASSUME NEW r \in Requests, NEW i \in Ids, StartDelete(r, i)
      PROVE  Inv'
  <2> DEFINE q == [Idle EXCEPT !.pc = "find", !.op = "delete", !.id = i, !.began = commits]
  <2>1. Become(r, q) /\ Unwritten
    BY <1>4 DEF StartDelete
  <2>2. /\ q \in RequestStates /\ ~q.locked /\ q.gone = NoLinks /\ q.pc = "find"
        /\ Staged(q)
    <3>1. i \in 0 .. MaxRows /\ commits \in 0 .. MaxCommits
      BY CatalogueAssumption DEF Ids, Inv, TypeOK
    <3> QED
      BY <3>1, IdleState DEF RequestStates, Staged
  <2> HIDE DEF q
  <2> QED
    BY <2>1, <2>2, StartInv
<1>5. ASSUME NEW r \in Requests, NEW part \in Parts, Read(r, part)
      PROVE  Inv'
  <2> DEFINE q == [req[r] EXCEPT !.book = Merged(req[r], part), !.todo = @ \ {part}]
  <2>1. Become(r, q) /\ Unwritten
    BY <1>5 DEF Read
  <2>2. /\ req[r] \in RequestStates /\ req[r].pc = "read" /\ Staged(req[r])
        /\ (part = "row" => row[req[r].id] # None)
    BY <1>5 DEF Read, Inv, TypeOK
  <2>3. /\ req[r].id \in Ids /\ req[r].book \in Books /\ req[r].op = "patch"
        /\ ~req[r].locked /\ req[r].gone = NoLinks
    BY <2>2 DEF Staged
  <2>4. Merged(req[r], part) \in Books
    BY <2>2, <2>3, MergedIsBook DEF Inv
  <2>5. /\ q \in RequestStates /\ Staged(q) /\ q.pc = "read" /\ ~q.locked /\ q.gone = NoLinks
    BY <2>2, <2>3, <2>4 DEF RequestStates, Staged
  <2> HIDE DEF q
  <2> QED
    BY <2>1, <2>5, StartInv
<1>6. ASSUME NEW r \in Requests, Merge(r)
      PROVE  Inv'
  <2> DEFINE q == [req[r] EXCEPT !.pc = "find"]
  <2>1. Become(r, q) /\ Unwritten /\ req[r].pc = "read"
    BY <1>6 DEF Merge
  <2>2. req[r] \in RequestStates /\ Staged(req[r])
    BY DEF Inv, TypeOK
  <2>3. q \in RequestStates /\ Staged(q) /\ q.pc = "find" /\ ~q.locked /\ q.gone = NoLinks
    BY <2>1, <2>2 DEF RequestStates, Staged
  <2> HIDE DEF q
  <2> QED
    BY <2>1, <2>3, StartInv
<1>7. ASSUME NEW r \in Requests, Find(r)
      PROVE  Inv'
  <2> DEFINE q == [req[r] EXCEPT !.pc = "tx", !.todo = Parts]
  <2>1. Become(r, q) /\ Unwritten /\ req[r].pc = "find"
    BY <1>7 DEF Find
  <2>2. req[r] \in RequestStates /\ Staged(req[r])
    BY DEF Inv, TypeOK
  <2>3. /\ q \in RequestStates /\ ~q.locked
        /\ q.gone = req[r].gone /\ q.id = req[r].id /\ q.op = req[r].op
        /\ q.book = req[r].book /\ q.pc = "tx" /\ q.todo = Parts /\ req[r].op # "create"
    BY <2>1, <2>2 DEF RequestStates, Staged
  <2> HIDE DEF q
  <2>4. Staged(q)
    BY <2>1, <2>2, <2>3 DEF Staged
  <2>5. HoldsRow(q)
    <3>1. "row" \in q.todo
      BY <2>3 DEF Parts
    <3>2. q.pc = "tx" /\ ~q.locked /\ q.todo = Parts
      BY <2>3
    <3> QED
      BY <3>1, <3>2 DEF HoldsRow
  <2> QED
    BY <2>1, <2>3, <2>4, <2>5, HoldInv
<1>8. ASSUME NEW r \in Requests, WriteRow(r)
      PROVE  Inv'
  <2> DEFINE q == [req[r] EXCEPT !.locked = TRUE, !.todo = @ \ {"row"}]
  <2>1. /\ Become(r, q) /\ Unwritten /\ req[r].pc = "tx" /\ "row" \in req[r].todo
        /\ ~RowBusy(r) /\ row[req[r].id] # None
    BY <1>8 DEF WriteRow, Turn
  <2>2. req[r] \in RequestStates /\ Staged(req[r]) /\ HoldsRow(req[r])
    BY DEF Inv, TypeOK
  <2>3. req[r].op # "create" /\ ~req[r].locked
    BY <2>1, <2>2 DEF Staged, HoldsRow
  <2>4. /\ q \in RequestStates /\ q.gone = req[r].gone /\ q.id = req[r].id
        /\ q.pc = "tx" /\ q.op = req[r].op /\ q.book = req[r].book
        /\ q.locked /\ q.todo = req[r].todo \ {"row"}
    BY <2>1, <2>2 DEF RequestStates
  <2> HIDE DEF q
  <2>5. Staged(q)
    BY <2>1, <2>2, <2>3, <2>4 DEF Staged
  <2>6. HoldsRow(q)
    <3>1. row[q.id] # None /\ "row" \notin q.todo
      BY <2>1, <2>4
    <3>2. q.op # "delete" => Tables \ q.todo = {}
      BY <2>2, <2>1, <2>3, <2>4, CatalogueAssumption DEF HoldsRow, Parts
    <3> QED
      BY <2>4, <3>1, <3>2 DEF HoldsRow
  <2> QED
    BY <2>1, <2>4, <2>5, <2>6, HoldInv
<1>9. ASSUME NEW r \in Requests, NEW t \in Tables, Clear(r, t)
      PROVE  Inv'
  <2> DEFINE q == [req[r] EXCEPT !.pc = "clear", !.seen = links[t][req[r].id]]
  <2>1. Become(r, q) /\ Unwritten /\ req[r].pc = "tx" /\ Turn(req[r], t)
    BY <1>9 DEF Clear
  <2>2. req[r] \in RequestStates /\ Staged(req[r]) /\ HoldsRow(req[r])
    BY DEF Inv, TypeOK
  <2>3. req[r].op # "create" /\ req[r].id \in Ids
    BY <2>1, <2>2 DEF Staged, Turn
  <2>4. /\ req[r].op # "delete" => req[r].locked
        /\ \A p \in Tables : Turn(req[r], p) => p = t
    BY <2>1, <2>2, <2>3, OneTurn DEF HoldsRow
  <2>5. q \in RequestStates /\ Staged(q)
    <3>1. links[t][req[r].id] \in SUBSET Links
      BY <2>3 DEF Inv, TypeOK
    <3> QED
      BY <2>1, <2>2, <2>3, <3>1 DEF RequestStates, Staged
  <2>6. HoldsRow(q)
    <3>1. /\ q.op = req[r].op /\ q.id = req[r].id /\ q.todo = req[r].todo
          /\ q.locked = req[r].locked /\ q.gone = req[r].gone
          /\ q.pc = "clear" /\ q.seen = links[t][q.id]
      BY <2>2 DEF RequestStates
    <3>2. \A p \in Tables : Turn(q, p) => p = t
      BY <3>1, <2>4 DEF Turn
    <3> HIDE DEF q
    <3> QED
      BY <2>1, <2>2, <2>3, <2>4, <3>1, <3>2 DEF HoldsRow
  <2>7. q.gone = req[r].gone /\ q.id = req[r].id /\ q.locked = req[r].locked
    BY <2>2 DEF RequestStates
  <2> HIDE DEF q
  <2> QED
    BY <2>1, <2>5, <2>6, <2>7, HoldInv
<1>10. ASSUME NEW r \in Requests, NEW t \in Tables, Cleared(r, t)
       PROVE  Inv'
  <2> DEFINE q == [req[r] EXCEPT !.pc = "tx", !.gone[t] = req[r].seen \cap links[t][req[r].id],
                                 !.seen = {}, !.todo = @ \ {t}]
  <2>1. /\ Become(r, q) /\ Unwritten /\ req[r].pc = "clear" /\ Turn(req[r], t)
        /\ req[r].seen \cap BusyLinks(r, t) = {}
    BY <1>10 DEF Cleared
  <2>2. req[r] \in RequestStates /\ Staged(req[r]) /\ HoldsRow(req[r])
    BY DEF Inv, TypeOK
  <2>3. /\ q.op = req[r].op /\ q.id = req[r].id /\ q.todo = req[r].todo \ {t}
        /\ (q.locked <=> req[r].locked) /\ q.pc = "tx" /\ q.book = req[r].book /\ q.seen = {}
        /\ q.gone = [req[r].gone EXCEPT ![t] = req[r].seen \cap links[t][req[r].id]]
        /\ q \in RequestStates
    BY <2>2 DEF RequestStates
  <2>4. req[r].op # "create"
    BY <2>1, <2>2 DEF Staged
  <2>5. t # "row" /\ req[r].gone \in [Tables -> SUBSET Links]
    BY <2>2, CatalogueAssumption DEF RequestStates
  <2> HIDE DEF q
  <2>6. Staged(q)
    BY <2>1, <2>2, <2>3, <2>4 DEF Staged, Idle
  <2>7. HoldsRow(q)
    <3>1. CASE q.locked
      <4>1. row[q.id] # None /\ "row" \notin q.todo
        BY <2>2, <2>3, <3>1 DEF HoldsRow
      <4>2. ASSUME q.op # "delete", NEW p \in Tables \ q.todo
            PROVE  q.gone[p] = links[p][q.id]
        <5>1. CASE p = t
          <6>1. req[r].seen = links[t][q.id]
            BY <2>1, <2>2, <2>3, <3>1, <4>2 DEF HoldsRow
          <6>2. q.gone[t] = req[r].seen \cap links[t][req[r].id]
            BY <2>3, <2>5
          <6>3. req[r].seen \cap links[t][req[r].id] = links[t][q.id]
            BY <2>3, <6>1
          <6> QED
            BY <5>1, <6>2, <6>3
        <5>2. CASE p # t
          <6>1. q.gone[p] = req[r].gone[p]
            BY <2>3, <2>5, <5>2
          <6>2. p \in Tables \ req[r].todo
            BY <2>3, <5>2
          <6>3. req[r].gone[p] = links[p][req[r].id]
            BY <2>2, <2>3, <3>1, <4>2, <6>2 DEF HoldsRow
          <6> QED
            BY <2>3, <6>1, <6>3
        <5> QED
          BY <5>1, <5>2
      <4> QED
        BY <2>3, <3>1, <4>1, <4>2 DEF HoldsRow
    <3>2. CASE ~q.locked
      <4>1. q.op = "delete" /\ "row" \in q.todo
        BY <2>1, <2>2, <2>3, <2>4, <2>5, <3>2 DEF HoldsRow
      <4> QED
        BY <2>3, <3>2, <4>1 DEF HoldsRow
    <3> QED
      BY <3>1, <3>2
  <2>8. \A p \in Tables : q.gone[p] \subseteq req[r].gone[p] \/ q.gone[p] \cap BusyLinks(r, p) = {}
    BY <2>1, <2>3, <2>5
  <2> QED
    BY <2>1, <2>3, <2>6, <2>7, <2>8, HoldInv
<1>11. ASSUME NEW r \in Requests, NEW cascades \in BOOLEAN, Commit(r, cascades)
       PROVE  Inv'
  BY <1>11, CommitInv
<1>12. ASSUME NEW r \in Requests, Fail(r)
       PROVE  Inv'
  <2>1. /\ Idle \in RequestStates /\ ~Idle.locked /\ Idle.gone = NoLinks /\ Idle.pc = "idle"
        /\ Staged(Idle)
    BY IdleState DEF Staged
  <2> QED
    BY <1>12, <2>1, StartInv DEF Fail
<1>13. CASE UNCHANGED vars
  BY <1>13 DEF vars, Inv, TypeOK, Numbered, Whole, Staged, HoldsRow, RowBusy, BusyLinks, Turn,
               NameSet, Kept
<1> QED
  BY <1>1, <1>2, <1>3, <1>4, <1>5, <1>6, <1>7, <1>8, <1>9, <1>10, <1>11, <1>12, <1>13 DEF Next

LEMMA Invariance == Spec => []Inv
BY InitInv, NextInv, PTL DEF Spec

(* Types hold throughout, and no two transactions hold the same row. *)
THEOREM TypeCorrect == Spec => []TypeOK
BY Invariance, PTL DEF Inv

(* However many requests overlap on however many books, a stored book is    *)
(* what one of them meant to store (update.go:35-48).                       *)
THEOREM StoredWhole == Spec => []Whole
BY Invariance, PTL DEF Inv

-----------------------------------------------------------------------------
(* What a PATCH is to write of a part it does not name, the book has held   *)
(* since the PATCH came.                                                    *)
FromHeld(q, part) ==
  IF part = "row"
  THEN \A c \in Columns \ q.named : \E b \in q.held : b.row # None /\ q.book.row[c] = b.row[c]
  ELSE part \notin q.named => \E b \in q.held : q.book.names[part] = b.names[part]

(* What the book of a request is like now. *)
Now(q) == Snapshot(row[q.id], [t \in Tables |-> links[t][q.id]])

PatchRecord(q) ==
  q.op = "patch" =>
    /\ Now(q) \in q.held
    /\ \A part \in Parts : (q.pc = "read" => part \notin q.todo) => FromHeld(q, part)

(* The links a book has beside the given ones came after the request. *)
OnlyLater(q, t, ls) == \A l \in links[t][q.id] : l.at > q.began \/ l \in ls

DeleteRecord(q) ==
  q.op = "delete" /\ q.pc \in {"tx", "clear"} =>
    \A t \in Tables : /\ t \notin q.todo => OnlyLater(q, t, q.gone[t])
                      /\ q.pc = "clear" /\ Turn(q, t) => OnlyLater(q, t, q.seen)

Recorded == \A r \in Requests : /\ req[r].began <= commits
                                /\ PatchRecord(req[r]) /\ DeleteRecord(req[r])

(* A request takes a step that commits nothing. *)
LEMMA QuietStep ==
  ASSUME TypeOK, Recorded, NEW r \in Requests, NEW q, Become(r, q), Unwritten,
         q.began <= commits, PatchRecord(q), DeleteRecord(q)
  PROVE  Recorded'
<1>1. UNCHANGED <<row, links, commits>> /\ req' = [req EXCEPT ![r] = q]
  BY DEF Become, Unwritten
<1>2. ASSUME NEW s \in Requests
      PROVE  req'[s] = (IF s = r THEN q ELSE req[s])
  BY <1>1 DEF TypeOK
<1>3. ASSUME NEW s \in Requests
      PROVE  (req[s].began <= commits /\ PatchRecord(req[s]) /\ DeleteRecord(req[s]))'
  <2> DEFINE x == req'[s]
  <2>1. x.began <= commits /\ PatchRecord(x) /\ DeleteRecord(x)
    BY <1>2 DEF Recorded
  <2>2. PatchRecord(req[s])'
    <3>1. Now(x) = Now(req[s])'
      BY <1>1 DEF Now, Snapshot, NameSet
    <3>2. \A part \in Parts : FromHeld(x, part) => FromHeld(req[s], part)'
      BY DEF FromHeld
    <3> QED
      BY <2>1, <3>1, <3>2 DEF PatchRecord
  <2>3. DeleteRecord(req[s])'
    BY <1>1, <2>1 DEF DeleteRecord, OnlyLater, Turn
  <2> QED
    BY <1>1, <2>1, <2>2, <2>3
<1> QED
  BY <1>3 DEF Recorded

(* What has been read stays as it was read. *)
LEMMA FromHeldSame ==
  ASSUME NEW q, NEW x, NEW part, x.book = q.book, x.named = q.named, x.held = q.held,
         FromHeld(q, part)
  PROVE  FromHeld(x, part)
BY DEF FromHeld

(* Reading a part of the book makes that part of it as stored, and leaves   *)
(* the others as they are.                                                  *)
LEMMA MergedFromHeld ==
  ASSUME TypeOK, NEW q \in RequestStates, q.id \in Ids, q.book \in Books, Now(q) \in q.held,
         NEW part \in Parts, part = "row" => row[q.id] # None,
         NEW x, x.book = Merged(q, part), x.named = q.named, x.held = q.held
  PROVE  /\ FromHeld(x, part)
         /\ \A p \in Parts : p # part /\ FromHeld(q, p) => FromHeld(x, p)
<1>1. /\ q.book.row \in [Columns -> Texts \cup {Blank}]
      /\ q.book.names \in [Tables -> SUBSET Names]
      /\ q.book = [row |-> q.book.row, names |-> q.book.names]
  BY DEF Books
<1>2. "row" \notin Tables
  BY CatalogueAssumption
<1>3. /\ Now(q).row = row[q.id]
      /\ \A t \in Tables : Now(q).names[t] = NameSet(links[t][q.id])
  BY DEF Now, Snapshot
<1>4. CASE part = "row"
  <2>1. /\ x.book.names = q.book.names
        /\ \A c \in Columns : x.book.row[c] = IF c \in q.named THEN q.book.row[c] ELSE row[q.id][c]
    BY <1>1, <1>4 DEF Merged
  <2>2. FromHeld(x, part)
    <3>1. PICK b \in q.held : b = Now(q)
      OBVIOUS
    <3>2. b.row = row[q.id] /\ b.row # None
      BY <1>3, <1>4, <3>1
    <3>3. ASSUME NEW c \in Columns \ x.named
          PROVE  x.book.row[c] = b.row[c]
      <4>1. x.book.row[c] = row[q.id][c]
        BY <2>1
      <4> QED
        BY <3>2, <4>1
    <3> QED
      BY <1>4, <3>2, <3>3 DEF FromHeld
  <2> QED
    BY <1>2, <1>4, <2>1, <2>2 DEF FromHeld, Parts
<1>5. CASE part \in Tables
  <2>1. /\ x.book.row = q.book.row
        /\ \A t \in Tables \ {part} : x.book.names[t] = q.book.names[t]
        /\ part \notin q.named => x.book.names[part] = NameSet(links[part][q.id])
    BY <1>1, <1>2, <1>5 DEF Merged
  <2>2. FromHeld(x, part)
    BY <1>2, <1>3, <1>5, <2>1 DEF FromHeld
  <2> QED
    BY <1>2, <1>5, <2>1, <2>2 DEF FromHeld, Parts
<1> QED
  BY <1>4, <1>5 DEF Parts

(* What a commit does to the books and to the history of other requests. *)
LEMMA CommitFacts ==
  ASSUME Inv, Recorded, NEW r \in Requests, NEW cascades \in BOOLEAN, Commit(r, cascades),
         NEW s \in Requests \ {r}
  PROVE  /\ commits' = commits + 1
         /\ Alike(req'[s], req[s])
         /\ req[s].op = "patch" => Now(req[s])' \in req'[s].held /\ req[s].held \subseteq req'[s].held
         /\ req[s].pc # "idle" /\ req[s].op # "create" =>
              \A t \in Tables : \A l \in links'[t][req[s].id] :
                l \in links[t][req[s].id] \/ l.at = commits + 1
<1> DEFINE q == req[r]
           i == IF q.op = "create" THEN created + 1 ELSE q.id
           text == IF q.op = "delete" THEN None ELSE q.book.row
           new(t) == IF q.op # "delete" THEN Linked(q, t, links[t][i] \ q.gone[t])
                     ELSE IF cascades THEN {} ELSE links[t][i] \ q.gone[t]
           linked == [t \in Tables |-> new(t)]
           now == Snapshot(text, linked)
<1>1. /\ i \in Ids
      /\ row' = [row EXCEPT ![i] = text]
      /\ links' = [t \in Tables |-> [links[t] EXCEPT ![i] = linked[t]]]
      /\ commits' = commits + 1
      /\ req' = [x \in Requests |-> IF x = r THEN Idle ELSE Witnessed(req[x], i, now)]
  BY DEF Commit
<1>2. \A t \in Tables : \A l \in linked[t] : l \in links[t][i] \/ l.at = commits + 1
  BY DEF Linked
<1>3. TypeOK /\ TypeOK'
  BY CommitInv DEF Inv
<1> HIDE DEF linked, text, i
<1>4. /\ row'[i] = text
      /\ \A t \in Tables : links'[t][i] = linked[t]
      /\ \A j \in Ids : j # i => /\ row'[j] = row[j]
                                 /\ \A t \in Tables : links'[t][j] = links[t][j]
  BY <1>1, <1>3 DEF TypeOK
<1>5. now \in Snapshots
  <2>1. text \in [Columns -> Texts \cup {Blank}] \cup {None}
    BY <1>1, <1>3, <1>4 DEF TypeOK
  <2>2. \A t \in Tables : linked[t] \in SUBSET Links
    BY <1>1, <1>3, <1>4 DEF TypeOK
  <2>3. linked \in [Tables -> SUBSET Links]
    BY <2>2 DEF linked
  <2> QED
    BY <2>1, <2>3, SnapshotType
<1>6. req'[s] = Witnessed(req[s], i, now) /\ req[s] \in RequestStates
  BY <1>1, <1>3 DEF TypeOK
<1>7. /\ Alike(req'[s], req[s])
      /\ req'[s].held = IF req[s].op = "patch" /\ req[s].id = i THEN req[s].held \cup {now}
                        ELSE req[s].held
  <2> HIDE DEF now
  <2>1. /\ Alike(Witnessed(req[s], i, now), req[s])
        /\ Witnessed(req[s], i, now).held =
             IF req[s].op = "patch" /\ req[s].id = i THEN req[s].held \cup {now} ELSE req[s].held
    BY <1>5, <1>6, WitnessedSame
  <2> QED
    BY <1>6, <2>1
<1>8. req'[s].id = req[s].id
  BY <1>7 DEF Alike
<1>9. req[s].pc # "idle" /\ req[s].op # "create" => req[s].id \in Ids
  BY DEF Inv, Staged
<1>10. ASSUME req[s].op = "patch"
       PROVE  Now(req[s])' \in req'[s].held /\ req[s].held \subseteq req'[s].held
  <2>1. req[s].id \in Ids
    <3>1. req[s].pc # "idle"
      BY <1>10, NoneAssumption DEF Inv, Staged, Idle
    <3> QED
      BY <1>9, <1>10, <3>1
  <2>2. Now(req[s])' = Snapshot(row'[req[s].id], [t \in Tables |-> links'[t][req[s].id]])
    BY <1>8 DEF Now, Snapshot, NameSet
  <2>3. CASE req[s].id = i
    <3>1. Now(req[s])' = now
      <4>1. \A t \in Tables : [x \in Tables |-> links'[x][i]][t] = linked[t]
        BY <1>4
      <4> QED
        BY <1>4, <2>2, <2>3, <4>1 DEF Snapshot
    <3> HIDE DEF now
    <3> QED
      BY <1>7, <1>10, <2>3, <3>1
  <2>4. CASE req[s].id # i
    <3>1. Now(req[s])' = Now(req[s])
      BY <1>4, <2>1, <2>2, <2>4 DEF Now, Snapshot
    <3>2. Now(req[s]) \in req[s].held
      BY <1>10 DEF Recorded, PatchRecord
    <3> QED
      BY <1>7, <2>4, <3>1, <3>2
  <2> QED
    BY <2>3, <2>4
<1>11. ASSUME req[s].pc # "idle", req[s].op # "create", NEW t \in Tables,
              NEW l \in links'[t][req[s].id]
       PROVE  l \in links[t][req[s].id] \/ l.at = commits + 1
  <2>1. CASE req[s].id = i
    BY <1>2, <1>4, <1>11, <2>1
  <2>2. CASE req[s].id # i
    BY <1>4, <1>9, <1>11, <2>2
  <2> QED
    BY <2>1, <2>2
<1> QED
  BY <1>1, <1>7, <1>10, <1>11

LEMMA CommitRecorded ==
  ASSUME Inv, Recorded, NEW r \in Requests, NEW cascades \in BOOLEAN, Commit(r, cascades)
  PROVE  Recorded'
<1>1. commits \in Nat /\ commits' = commits + 1 /\ req'[r] = Idle
  <2>1. commits \in 0 .. MaxCommits
    BY DEF Inv, TypeOK
  <2>2. commits' = commits + 1 /\ req'[r] = Idle
    BY DEF Commit
  <2> QED
    BY <2>1, <2>2, CatalogueAssumption
<1>2. Idle.began = 0 /\ Idle.op = None /\ None # "patch" /\ None # "delete"
  BY NoneAssumption DEF Idle
<1>3. (req[r].began <= commits /\ PatchRecord(req[r]) /\ DeleteRecord(req[r]))'
  BY <1>1, <1>2 DEF PatchRecord, DeleteRecord
<1>4. ASSUME NEW s \in Requests \ {r}
      PROVE  (req[s].began <= commits /\ PatchRecord(req[s]) /\ DeleteRecord(req[s]))'
  <2>1. /\ Alike(req'[s], req[s])
        /\ req[s].op = "patch" => Now(req[s])' \in req'[s].held /\ req[s].held \subseteq req'[s].held
        /\ req[s].pc # "idle" /\ req[s].op # "create" =>
             \A t \in Tables : \A l \in links'[t][req[s].id] :
               l \in links[t][req[s].id] \/ l.at = commits + 1
    BY CommitFacts
  <2>2. /\ req'[s].pc = req[s].pc /\ req'[s].op = req[s].op /\ req'[s].id = req[s].id
        /\ req'[s].named = req[s].named /\ req'[s].book = req[s].book
        /\ req'[s].todo = req[s].todo /\ req'[s].gone = req[s].gone
        /\ req'[s].seen = req[s].seen /\ req'[s].began = req[s].began
    BY <2>1 DEF Alike
  <2>3. /\ req[s].began \in Nat /\ req[s].began <= commits
        /\ PatchRecord(req[s]) /\ DeleteRecord(req[s])
    BY DEF Recorded, Inv, TypeOK, RequestStates
  <2>4. PatchRecord(req[s])'
    <3> SUFFICES ASSUME req[s].op = "patch"
                 PROVE  /\ Now(req[s])' \in req'[s].held
                        /\ \A part \in Parts : (req'[s].pc = "read" => part \notin req'[s].todo) =>
                                                 FromHeld(req[s], part)'
      BY <2>2 DEF PatchRecord
    <3>1. req[s].held \subseteq req'[s].held
      BY <2>1
    <3>2. \A part : FromHeld(req[s], part) => FromHeld(req[s], part)'
      BY <2>2, <3>1 DEF FromHeld
    <3> QED
      BY <2>1, <2>2, <2>3, <3>2 DEF PatchRecord
  <2>5. DeleteRecord(req[s])'
    <3> SUFFICES ASSUME req[s].op = "delete", req[s].pc \in {"tx", "clear"}, NEW t \in Tables,
                        NEW ls, OnlyLater(req[s], t, ls), NEW l \in links'[t][req[s].id]
                 PROVE  l.at > req[s].began \/ l \in ls
      BY <2>2, <2>3 DEF DeleteRecord, OnlyLater, Turn
    <3>1. l \in links[t][req[s].id] \/ l.at = commits + 1
      BY <2>1
    <3> QED
      BY <1>1, <2>3, <3>1 DEF OnlyLater
  <2> QED
    BY <1>1, <2>2, <2>3, <2>4, <2>5
<1> QED
  BY <1>3, <1>4 DEF Recorded

LEMMA RecordedStep == Inv /\ Recorded /\ [Next]_vars => Recorded'
<1> SUFFICES ASSUME Inv, Recorded, [Next]_vars PROVE Recorded'
  OBVIOUS
<1>1. TypeOK /\ commits \in Nat
  <2>1. commits \in 0 .. MaxCommits
    BY DEF Inv, TypeOK
  <2> QED
    BY <2>1, CatalogueAssumption DEF Inv
<1>2. ASSUME NEW r \in Requests
      PROVE  /\ req[r] \in RequestStates /\ Staged(req[r]) /\ req[r].began <= commits
             /\ PatchRecord(req[r]) /\ DeleteRecord(req[r])
  BY DEF Inv, TypeOK, Recorded
<1>3. Idle.began = 0 /\ Idle.op = None /\ Idle.pc = "idle"
  BY DEF Idle
<1>4. ASSUME NEW r \in Requests, NEW q, Become(r, q), Unwritten, q.began = 0,
             q.op \notin {"patch", "delete"}
      PROVE  Recorded'
  <2>1. q.began <= commits /\ PatchRecord(q) /\ DeleteRecord(q)
    BY <1>1, <1>4 DEF PatchRecord, DeleteRecord
  <2> QED
    BY <1>1, <1>4, <2>1, QuietStep
<1>5. ASSUME NEW r \in Requests, NEW b \in Books, StartCreate(r, b)
      PROVE  Recorded'
  BY <1>4, <1>5 DEF StartCreate, Idle
<1>6. ASSUME NEW r \in Requests, NEW i \in Ids, NEW b \in Books, StartReplace(r, i, b)
      PROVE  Recorded'
  BY <1>4, <1>6 DEF StartReplace, Idle
<1>7. ASSUME NEW r \in Requests, NEW i \in Ids, StartDelete(r, i)
      PROVE  Recorded'
  <2> DEFINE q == [Idle EXCEPT !.pc = "find", !.op = "delete", !.id = i, !.began = commits]
  <2>1. Become(r, q) /\ Unwritten
    BY <1>7 DEF StartDelete
  <2>2. q.began = commits /\ q.pc = "find" /\ q.op = "delete"
    BY DEF Idle
  <2> HIDE DEF q
  <2>3. q.began <= commits /\ PatchRecord(q) /\ DeleteRecord(q)
    BY <1>1, <2>2 DEF PatchRecord, DeleteRecord
  <2> QED
    BY <1>1, <2>1, <2>3, QuietStep
<1>8. ASSUME NEW r \in Requests, NEW i \in Ids, NEW b \in Books,
             NEW named \in SUBSET (Columns \cup Tables), StartPatch(r, i, named, b)
      PROVE  Recorded'
  <2> DEFINE was == Snapshot(row[i], [t \in Tables |-> links[t][i]])
             q == [Idle EXCEPT !.pc = "read", !.op = "patch", !.id = i, !.named = named,
                               !.book = b, !.todo = Parts, !.held = {was}]
  <2>1. Become(r, q) /\ Unwritten
    BY <1>8 DEF StartPatch
  <2>2. /\ q.began = 0 /\ q.pc = "read" /\ q.op = "patch" /\ q.todo = Parts /\ q.id = i
        /\ q.held = {was}
    BY DEF Idle
  <2> HIDE DEF q
  <2>3. Now(q) \in q.held
    BY <2>2 DEF Now
  <2>4. q.began <= commits /\ PatchRecord(q) /\ DeleteRecord(q)
    BY <1>1, <2>2, <2>3 DEF PatchRecord, DeleteRecord
  <2> QED
    BY <1>1, <2>1, <2>4, QuietStep
<1>9. ASSUME NEW r \in Requests, NEW part \in Parts, Read(r, part)
      PROVE  Recorded'
  <2> DEFINE x == req[r]
             q == [x EXCEPT !.book = Merged(x, part), !.todo = @ \ {part}]
  <2>1. Become(r, q) /\ Unwritten /\ x.pc = "read" /\ (part = "row" => row[x.id] # None)
    BY <1>9 DEF Read
  <2>2. /\ x \in RequestStates /\ x.id \in Ids /\ x.book \in Books /\ x.op = "patch"
        /\ Now(x) \in x.held
    BY <1>2, <2>1 DEF Staged, PatchRecord
  <2>3. /\ q.book = Merged(x, part) /\ q.todo = x.todo \ {part} /\ q.named = x.named
        /\ q.id = x.id /\ q.began = x.began /\ q.pc = x.pc /\ q.op = x.op /\ q.held = x.held
    BY <2>2 DEF RequestStates
  <2> HIDE DEF q
  <2>4. /\ FromHeld(q, part)
        /\ \A p \in Parts : p # part /\ FromHeld(x, p) => FromHeld(q, p)
    BY <1>1, <2>1, <2>2, <2>3, MergedFromHeld
  <2>5. \A p \in Parts : p \notin q.todo => FromHeld(q, p)
    BY <1>2, <2>1, <2>2, <2>3, <2>4 DEF PatchRecord
  <2>6. Now(q) = Now(x)
    BY <2>3 DEF Now
  <2>7. q.began <= commits /\ PatchRecord(q) /\ DeleteRecord(q)
    BY <1>2, <2>1, <2>2, <2>3, <2>5, <2>6 DEF PatchRecord, DeleteRecord
  <2> QED
    BY <1>1, <2>1, <2>7, QuietStep
<1>10. ASSUME NEW r \in Requests, NEW q, Become(r, q), Unwritten, DeleteRecord(q),
              q.op = req[r].op, q.book = req[r].book, q.named = req[r].named,
              q.id = req[r].id, q.began = req[r].began, q.held = req[r].held,
              req[r].pc = "read" => req[r].todo = {}
       PROVE  Recorded'
  <2>1. \A part \in Parts : FromHeld(req[r], part) => FromHeld(q, part)
    BY <1>10, FromHeldSame
  <2>2. Now(q) = Now(req[r])
    BY <1>10 DEF Now
  <2>3. q.began <= commits /\ PatchRecord(q)
    BY <1>2, <1>10, <2>1, <2>2 DEF PatchRecord
  <2> QED
    BY <1>1, <1>10, <2>3, QuietStep
<1>11. ASSUME NEW r \in Requests, Merge(r)
       PROVE  Recorded'
  <2> DEFINE q == [req[r] EXCEPT !.pc = "find"]
  <2>1. Become(r, q) /\ Unwritten /\ req[r].todo = {}
    BY <1>11 DEF Merge
  <2>2. /\ q.op = req[r].op /\ q.book = req[r].book /\ q.named = req[r].named
        /\ q.id = req[r].id /\ q.began = req[r].began /\ q.held = req[r].held /\ q.pc = "find"
    BY <1>2 DEF RequestStates
  <2> HIDE DEF q
  <2>3. DeleteRecord(q)
    BY <2>2 DEF DeleteRecord
  <2> QED
    BY <1>10, <2>1, <2>2, <2>3
<1>12. ASSUME NEW r \in Requests, Find(r)
       PROVE  Recorded'
  <2> DEFINE q == [req[r] EXCEPT !.pc = "tx", !.todo = Parts]
  <2>1. Become(r, q) /\ Unwritten /\ req[r].pc = "find"
    BY <1>12 DEF Find
  <2>2. /\ q.op = req[r].op /\ q.book = req[r].book /\ q.named = req[r].named
        /\ q.id = req[r].id /\ q.began = req[r].began /\ q.held = req[r].held
        /\ q.pc = "tx" /\ q.todo = Parts
    BY <1>2 DEF RequestStates
  <2> HIDE DEF q
  <2>3. DeleteRecord(q)
    BY <2>2 DEF DeleteRecord, Parts
  <2> QED
    BY <1>10, <2>1, <2>2, <2>3
<1>13. ASSUME NEW r \in Requests, WriteRow(r)
       PROVE  Recorded'
  <2> DEFINE q == [req[r] EXCEPT !.locked = TRUE, !.todo = @ \ {"row"}]
  <2>1. Become(r, q) /\ Unwritten /\ req[r].pc = "tx"
    BY <1>13 DEF WriteRow
  <2>2. /\ q.op = req[r].op /\ q.book = req[r].book /\ q.named = req[r].named
        /\ q.id = req[r].id /\ q.began = req[r].began /\ q.held = req[r].held
        /\ q.pc = req[r].pc /\ q.todo = req[r].todo \ {"row"} /\ q.gone = req[r].gone
    BY <1>2 DEF RequestStates
  <2> HIDE DEF q
  <2>3. DeleteRecord(q)
    BY <1>2, <2>1, <2>2, CatalogueAssumption DEF DeleteRecord, OnlyLater
  <2> QED
    BY <1>10, <2>1, <2>2, <2>3
<1>14. ASSUME NEW r \in Requests, NEW t \in Tables, Clear(r, t)
       PROVE  Recorded'
  <2> DEFINE q == [req[r] EXCEPT !.pc = "clear", !.seen = links[t][req[r].id]]
  <2>1. Become(r, q) /\ Unwritten /\ req[r].pc = "tx" /\ Turn(req[r], t)
    BY <1>14 DEF Clear
  <2>2. /\ q.op = req[r].op /\ q.book = req[r].book /\ q.named = req[r].named
        /\ q.id = req[r].id /\ q.began = req[r].began /\ q.held = req[r].held
        /\ q.pc = "clear" /\ q.todo = req[r].todo /\ q.gone = req[r].gone
        /\ q.seen = links[t][q.id]
    BY <1>2 DEF RequestStates
  <2> HIDE DEF q
  <2>3. \A p \in Tables : Turn(q, p) => p = t
    BY <1>2, <2>1, <2>2, OneTurn DEF Turn
  <2>4. DeleteRecord(q)
    BY <1>2, <2>1, <2>2, <2>3 DEF DeleteRecord, OnlyLater
  <2> QED
    BY <1>10, <2>1, <2>2, <2>4
<1>15. ASSUME NEW r \in Requests, NEW t \in Tables, Cleared(r, t)
       PROVE  Recorded'
  <2> DEFINE q == [req[r] EXCEPT !.pc = "tx", !.gone[t] = req[r].seen \cap links[t][req[r].id],
                                 !.seen = {}, !.todo = @ \ {t}]
  <2>1. Become(r, q) /\ Unwritten /\ req[r].pc = "clear" /\ Turn(req[r], t)
    BY <1>15 DEF Cleared
  <2>2. /\ q.op = req[r].op /\ q.book = req[r].book /\ q.named = req[r].named
        /\ q.id = req[r].id /\ q.began = req[r].began /\ q.held = req[r].held
        /\ q.pc = "tx" /\ q.todo = req[r].todo \ {t}
        /\ q.gone = [req[r].gone EXCEPT ![t] = req[r].seen \cap links[t][req[r].id]]
        /\ req[r].gone \in [Tables -> SUBSET Links]
    BY <1>2 DEF RequestStates
  <2> HIDE DEF q
  <2>3. ASSUME q.op = "delete", NEW p \in Tables, p \notin q.todo
        PROVE  OnlyLater(q, p, q.gone[p])
    <3>1. CASE p = t
      <4>1. OnlyLater(req[r], t, req[r].seen)
        BY <1>2, <2>1, <2>2, <2>3 DEF DeleteRecord
      <4>2. q.gone[t] = req[r].seen \cap links[t][req[r].id]
        BY <2>2
      <4> QED
        BY <2>2, <3>1, <4>1, <4>2 DEF OnlyLater
    <3>2. CASE p # t
      <4>1. p \notin req[r].todo /\ q.gone[p] = req[r].gone[p]
        BY <2>2, <2>3, <3>2
      <4>2. OnlyLater(req[r], p, req[r].gone[p])
        BY <1>2, <2>1, <2>2, <2>3, <4>1 DEF DeleteRecord
      <4> QED
        BY <2>2, <4>1, <4>2 DEF OnlyLater
    <3> QED
      BY <3>1, <3>2
  <2>4. DeleteRecord(q)
    BY <2>2, <2>3 DEF DeleteRecord
  <2> QED
    BY <1>10, <2>1, <2>2, <2>4
<1>16. ASSUME NEW r \in Requests, NEW cascades \in BOOLEAN, Commit(r, cascades)
       PROVE  Recorded'
  BY <1>16, CommitRecorded
<1>17. ASSUME NEW r \in Requests, Fail(r)
       PROVE  Recorded'
  BY <1>3, <1>4, <1>17, NoneAssumption DEF Fail
<1>18. CASE UNCHANGED vars
  BY <1>18 DEF vars, Recorded, PatchRecord, DeleteRecord, FromHeld, Now, OnlyLater, Snapshot,
               NameSet, Turn
<1> QED
  BY <1>5, <1>6, <1>7, <1>8, <1>9, <1>11, <1>12, <1>13, <1>14, <1>15, <1>16, <1>17, <1>18
     DEF Next

LEMMA History == Spec => []Recorded
<1>1. Init => Recorded
  BY NoneAssumption DEF Init, Idle, Recorded, PatchRecord, DeleteRecord
<1> QED
  BY <1>1, RecordedStep, Invariance, PTL DEF Spec

(* Who commits is told by commits having grown and the request being over. *)
LEMMA WhoCommits ==
  ASSUME Inv, Next, NEW r \in Requests, req[r].op \in {"patch", "delete"},
         commits' > commits, req'[r] = Idle
  PROVE  \E cascades \in BOOLEAN : Commit(r, cascades)
<1>1. ~Unwritten
  <2>1. commits \in 0 .. MaxCommits
    BY DEF Inv, TypeOK
  <2> QED
    BY <2>1 DEF Unwritten
<1>2. PICK s \in Requests, cascades \in BOOLEAN : Commit(s, cascades)
  <2>1. \A s \in Requests, b \in Books : StartCreate(s, b) => Unwritten
    BY DEF StartCreate
  <2>2. \A s \in Requests, i \in Ids, b \in Books : StartReplace(s, i, b) => Unwritten
    BY DEF StartReplace
  <2>3. \A s \in Requests, i \in Ids, b \in Books, named \in SUBSET (Columns \cup Tables) :
          StartPatch(s, i, named, b) => Unwritten
    BY DEF StartPatch
  <2>4. \A s \in Requests, i \in Ids : StartDelete(s, i) => Unwritten
    BY DEF StartDelete
  <2>5. \A s \in Requests, part \in Parts : Read(s, part) => Unwritten
    BY DEF Read
  <2>6. \A s \in Requests, t \in Tables : Clear(s, t) \/ Cleared(s, t) => Unwritten
    BY DEF Clear, Cleared
  <2>7. \A s \in Requests : Merge(s) \/ Find(s) \/ WriteRow(s) \/ Fail(s) => Unwritten
    BY DEF Merge, Find, WriteRow, Fail
  <2> QED
    BY <1>1, <2>1, <2>2, <2>3, <2>4, <2>5, <2>6, <2>7 DEF Next
<1>3. s = r
  <2> SUFFICES ASSUME s # r PROVE FALSE
    OBVIOUS
  <2>1. req'[r].op = req[r].op
    BY <1>2 DEF Commit, Witnessed, Inv, TypeOK, RequestStates
  <2> QED
    BY <2>1, NoneAssumption DEF Idle
<1> QED
  BY <1>2, <1>3

(* What a PATCH stores. *)
LEMMA PatchCommit ==
  ASSUME Inv, Recorded, NEW r \in Requests, NEW cascades \in BOOLEAN, Commit(r, cascades),
         req[r].op = "patch"
  PROVE  /\ \A c \in Columns \ req[r].named :
              \E b \in req[r].held : b.row # None /\ row'[req[r].id][c] = b.row[c]
         /\ \A t \in Tables \ req[r].named :
              \E b \in req[r].held : NameSet(links'[t][req[r].id]) = b.names[t]
<1> DEFINE q == req[r]
<1>1. /\ q.pc = "tx" /\ q.todo = {} /\ q.id \in Ids
      /\ row' = [row EXCEPT ![q.id] = q.book.row]
  BY DEF Commit
<1>2. \A t \in Tables : links'[t] = [links[t] EXCEPT ![q.id] = Linked(q, t, links[t][q.id] \ q.gone[t])]
  BY DEF Commit
<1>3. q \in RequestStates /\ Staged(q) /\ HoldsRow(q)
  BY DEF Inv, TypeOK
<1>4. q.locked /\ \A t \in Tables : q.gone[t] = links[t][q.id]
  BY <1>1, <1>3 DEF HoldsRow
<1>5. \A part \in Parts : FromHeld(q, part)
  BY <1>1 DEF Recorded, PatchRecord
<1>6. ASSUME NEW c \in Columns \ q.named
      PROVE  \E b \in q.held : b.row # None /\ row'[q.id][c] = b.row[c]
  <2>1. row'[q.id] = q.book.row
    BY <1>1 DEF Inv, TypeOK
  <2>2. FromHeld(q, "row")
    BY <1>5 DEF Parts
  <2> QED
    BY <2>1, <2>2 DEF FromHeld
<1>7. ASSUME NEW t \in Tables \ q.named
      PROVE  \E b \in q.held : NameSet(links'[t][q.id]) = b.names[t]
  <2>1. PICK b \in q.held : q.book.names[t] = b.names[t]
    <3>1. t # "row" /\ t \in Parts
      BY CatalogueAssumption DEF Parts
    <3> QED
      BY <1>5, <3>1 DEF FromHeld
  <2>2. Blank \notin b.names[t]
    BY <1>3, <2>1 DEF RequestStates, Snapshots
  <2> DEFINE S == Kept(q.book.names[t])
  <2>3. S = b.names[t]
    BY <2>1, <2>2 DEF Kept
  <2>4. links'[t][q.id] = Linked(q, t, links[t][q.id] \ q.gone[t])
    <3>1. links[t] \in [Ids -> SUBSET Links]
      BY DEF Inv, TypeOK
    <3>2. links'[t] = [links[t] EXCEPT ![q.id] = Linked(q, t, links[t][q.id] \ q.gone[t])]
      BY <1>2
    <3> QED
      BY <1>1, <3>1, <3>2
  <2>5. links'[t][q.id] = {[name |-> n, at |-> commits + 1] : n \in S}
    BY <1>4, <2>4 DEF Linked, NameSet
  <2>6. NameSet({[name |-> n, at |-> commits + 1] : n \in S}) = S
    BY NamesOfNew
  <2> QED
    BY <2>3, <2>5, <2>6
<1> QED
  BY <1>6, <1>7

(* What a deletion leaves. *)
LEMMA DeleteCommit ==
  ASSUME Inv, Recorded, NEW r \in Requests, NEW cascades \in BOOLEAN, Commit(r, cascades),
         req[r].op = "delete"
  PROVE  \A t \in Tables : \A l \in links'[t][req[r].id] : l.at > req[r].began
<1> DEFINE q == req[r]
<1>1. /\ q.pc = "tx" /\ q.todo = {} /\ q.id \in Ids
      /\ \A t \in Tables : links'[t] = [links[t] EXCEPT ![q.id] =
                                          IF cascades THEN {} ELSE links[t][q.id] \ q.gone[t]]
  BY DEF Commit
<1>2. ASSUME NEW t \in Tables
      PROVE  links'[t][q.id] \subseteq links[t][q.id] \ q.gone[t]
  <2>1. links[t] \in [Ids -> SUBSET Links]
    BY DEF Inv, TypeOK
  <2>2. links'[t][q.id] = IF cascades THEN {} ELSE links[t][q.id] \ q.gone[t]
    BY <1>1, <2>1
  <2> QED
    BY <2>2
<1>3. \A t \in Tables : OnlyLater(q, t, q.gone[t])
  BY <1>1 DEF Recorded, DeleteRecord
<1> QED
  BY <1>2, <1>3 DEF OnlyLater

(* A PATCH stores, of what it was not asked to touch, nothing that the book *)
(* has not held since the PATCH came, on any number of books and whoever    *)
(* else reads, writes or deletes them meanwhile (update.go:66-102).         *)
THEOREM PatchIsPartial == Spec => PatchInventsNothing
<1>1. Inv /\ Recorded /\ [Next]_vars =>
        [\A r \in Requests :
           LET q == req[r]
           IN  (q.op = "patch" /\ commits' > commits /\ req'[r] = Idle) =>
                 /\ \A c \in Columns \ q.named :
                      \E b \in q.held : b.row # None /\ row'[q.id][c] = b.row[c]
                 /\ \A t \in Tables \ q.named :
                      \E b \in q.held : NameSet(links'[t][q.id]) = b.names[t]]_vars
  BY WhoCommits, PatchCommit
<1> QED
  BY <1>1, Invariance, History, PTL DEF Spec, PatchInventsNothing

(* A deletion leaves no link that was there when it came, whatever the      *)
(* schema does with others and whoever else writes the book meanwhile       *)
(* (delete.go:34-40).                                                       *)
THEOREM DeletionClears == Spec => DeletionLeavesNothingOld
<1>1. Inv /\ Recorded /\ [Next]_vars =>
        [\A r \in Requests :
           LET q == req[r]
           IN  (q.op = "delete" /\ commits' > commits /\ req'[r] = Idle) =>
                 \A t \in Tables : \A l \in links'[t][q.id] : l.at > q.began]_vars
  BY WhoCommits, DeleteCommit
<1> QED
  BY <1>1, Invariance, History, PTL DEF Spec, DeletionLeavesNothingOld

-----------------------------------------------------------------------------
(* Lists: counting rows. *)

(* How many of a set come before one of them in a list, newest first. *)
Newer(S, i) == {j \in S : j > i}
Depth(S, i) == Cardinality(Newer(S, i))

LEMMA DepthType ==
  ASSUME NEW S \in SUBSET Int, IsFiniteSet(S), NEW i
  PROVE  IsFiniteSet(Newer(S, i)) /\ Depth(S, i) \in Nat
BY FS_Subset, FS_CardinalityType DEF Newer, Depth

LEMMA DepthBound ==
  ASSUME NEW S \in SUBSET Int, IsFiniteSet(S), NEW i \in S
  PROVE  Depth(S, i) < Cardinality(S)
<1>1. Newer(S, i) \in SUBSET (S \ {i})
  BY DEF Newer
<1>2. IsFiniteSet(S \ {i}) /\ Cardinality(S \ {i}) = Cardinality(S) - 1 /\ Cardinality(S) \in Nat
  BY FS_RemoveElement, FS_CardinalityType
<1>3. Depth(S, i) <= Cardinality(S \ {i})
  BY <1>1, <1>2, FS_Subset DEF Depth
<1> QED
  BY <1>2, <1>3, DepthType

(* A set of rows that could be the first n of them (Heads). *)
IsHead(A, n, S) ==
  /\ A \in SUBSET S
  /\ Cardinality(A) = IF n < Cardinality(S) THEN n ELSE Cardinality(S)
  /\ \A i \in A, j \in S \ A : ~Later(j, i)

(* Of rows that were not created at once with others, those are among the   *)
(* first n that have less than n before them.                               *)
LEMMA HeadDepth ==
  ASSUME NEW S \in SUBSET Int, IsFiniteSet(S), NEW n \in Nat, NEW A, IsHead(A, n, S),
         NEW i \in S, i \notin Tied
  PROVE  /\ i \in A => Depth(S, i) < n
         /\ i \notin A => Depth(S, i) >= n /\ Cardinality(A) = n
<1>1. /\ A \in SUBSET S /\ IsFiniteSet(A) /\ Cardinality(A) \in Nat /\ Cardinality(S) \in Nat
      /\ Cardinality(A) <= n /\ Depth(S, i) \in Nat
      /\ Cardinality(A) = IF n < Cardinality(S) THEN n ELSE Cardinality(S)
  <2>1. A \in SUBSET S /\ Cardinality(A) = IF n < Cardinality(S) THEN n ELSE Cardinality(S)
    BY DEF IsHead
  <2>2. IsFiniteSet(A) /\ Cardinality(A) \in Nat /\ Cardinality(S) \in Nat
    BY <2>1, FS_Subset, FS_CardinalityType
  <2> QED
    BY <2>1, <2>2, DepthType
<1>2. \A j \in S : j \in Int /\ (Later(j, i) <=> j > i) /\ (Later(i, j) <=> i > j)
  BY DEF Later, Tied
<1>3. ASSUME i \in A PROVE Depth(S, i) < n
  <2>1. \A j \in S : j > i => j \in A \ {i}
    BY <1>2, <1>3 DEF IsHead
  <2>2. Newer(S, i) \in SUBSET (A \ {i})
    BY <2>1 DEF Newer
  <2>3. IsFiniteSet(A \ {i}) /\ Cardinality(A \ {i}) = Cardinality(A) - 1
    BY <1>1, <1>3, FS_RemoveElement
  <2>4. Depth(S, i) <= Cardinality(A \ {i})
    BY <2>2, <2>3, FS_Subset DEF Depth
  <2> QED
    BY <1>1, <2>3, <2>4
<1>4. ASSUME i \notin A PROVE Depth(S, i) >= n /\ Cardinality(A) = n
  <2>1. \A j \in A : j \in S /\ j > i
    BY <1>1, <1>2, <1>4 DEF IsHead
  <2>2. A \in SUBSET Newer(S, i)
    BY <2>1 DEF Newer
  <2>3. Cardinality(A) <= Depth(S, i)
    BY <2>2, DepthType, FS_Subset DEF Depth
  <2>4. Cardinality(A) < Cardinality(S)
    <3>1. A \in SUBSET (S \ {i})
      BY <1>1, <1>4
    <3>2. IsFiniteSet(S \ {i}) /\ Cardinality(S \ {i}) = Cardinality(S) - 1
      BY FS_RemoveElement
    <3>3. Cardinality(A) <= Cardinality(S \ {i})
      BY <3>1, <3>2, FS_Subset
    <3> QED
      BY <1>1, <3>2, <3>3
  <2>5. Cardinality(A) = n
    BY <1>1, <2>4
  <2> QED
    BY <2>3, <2>5
<1> QED
  BY <1>3, <1>4

(* What a page holds of such rows; with one of them behind it, it is full. *)
Shows(page, S, a, d, i) ==
  /\ i \in page <=> Depth(S, i) \in a .. a + d - 1
  /\ Depth(S, i) >= a + d => Cardinality(page) >= d

LEMMA PageDepth ==
  ASSUME NEW S \in SUBSET Int, IsFiniteSet(S), NEW a \in Nat, NEW d \in Nat,
         NEW A, IsHead(A, a, S), NEW B, IsHead(B, a + d, S), A \subseteq B,
         NEW i \in S, i \notin Tied
  PROVE  Shows(B \ A, S, a, d, i)
<1>1. Depth(S, i) \in Nat /\ a + d \in Nat
  BY DepthType
<1>2. /\ i \in A => Depth(S, i) < a
      /\ i \notin A => Depth(S, i) >= a /\ Cardinality(A) = a
  BY HeadDepth
<1>3. /\ i \in B => Depth(S, i) < a + d
      /\ i \notin B => Depth(S, i) >= a + d /\ Cardinality(B) = a + d
  BY <1>1, HeadDepth
<1>4. Cardinality(B \ A) = Cardinality(B) - Cardinality(A)
  <2>1. IsFiniteSet(A) /\ IsFiniteSet(B)
    BY FS_Subset DEF IsHead
  <2>2. B \cap A = A
    OBVIOUS
  <2>3. Cardinality(B \ A) = Cardinality(B) - Cardinality(B \cap A)
    BY <2>1, FS_Difference
  <2> QED
    BY <2>2, <2>3
<1>5. Depth(S, i) >= a + d => Cardinality(B \ A) >= d
  BY <1>1, <1>2, <1>3, <1>4
<1>6. i \in B \ A <=> Depth(S, i) \in a .. a + d - 1
  BY <1>1, <1>2, <1>3
<1> QED
  BY <1>5, <1>6 DEF Shows

(* One more, or one less. *)
LEMMA DepthMore ==
  ASSUME NEW S \in SUBSET Int, IsFiniteSet(S), NEW i \in Int, NEW k \in Int
  PROVE  /\ Depth(S, i) <= Depth(S \cup {k}, i)
         /\ k <= i => Depth(S \cup {k}, i) = Depth(S, i)
<1>1. IsFiniteSet(S \cup {k})
  BY FS_AddElement
<1>2. Newer(S, i) \in SUBSET Newer(S \cup {k}, i)
  BY DEF Newer
<1>3. k <= i => Newer(S \cup {k}, i) = Newer(S, i)
  BY DEF Newer
<1>4. IsFiniteSet(Newer(S \cup {k}, i))
  <2>1. S \cup {k} \in SUBSET Int
    OBVIOUS
  <2> QED
    BY <1>1, <2>1, DepthType
<1>5. Cardinality(Newer(S, i)) <= Cardinality(Newer(S \cup {k}, i))
  BY <1>2, <1>4, FS_Subset
<1> QED
  BY <1>3, <1>5 DEF Depth

LEMMA DepthFewer ==
  ASSUME NEW S \in SUBSET Int, IsFiniteSet(S), NEW i \in Int, NEW k \in Int
  PROVE  /\ Depth(S \ {k}, i) <= Depth(S, i)
         /\ Depth(S \ {k}, i) >= Depth(S, i) - 1
         /\ k <= i \/ k \notin S => Depth(S \ {k}, i) = Depth(S, i)
<1>1. Newer(S \ {k}, i) = Newer(S, i) \ {k}
  BY DEF Newer
<1>2. k <= i \/ k \notin S => k \notin Newer(S, i)
  BY DEF Newer
<1>3. IsFiniteSet(Newer(S, i)) /\ Depth(S, i) \in Nat
  BY DepthType
<1>4. Cardinality(Newer(S, i) \ {k}) =
        IF k \in Newer(S, i) THEN Cardinality(Newer(S, i)) - 1 ELSE Cardinality(Newer(S, i))
  BY <1>3, FS_RemoveElement
<1>5. Depth(S \ {k}, i) = IF k \in Newer(S, i) THEN Depth(S, i) - 1 ELSE Depth(S, i)
  BY <1>1, <1>4 DEF Depth
<1> QED
  BY <1>2, <1>3, <1>5

-----------------------------------------------------------------------------
(* Where a page begins. *)

LEMMA OffsetFacts ==
  ASSUME NEW a \in Nat, NEW d \in Nat \ {0}
  PROVE  /\ (a \div d) * d \in Nat /\ (a \div d) * d <= a
         /\ a % d = 0 => (a \div d) * d = a
         /\ ((a + d) \div d) * d = (a \div d) * d + d
<1> DEFINE m == a \div d
           n == (a + d) \div d
<1>1. m \in Nat /\ m * d <= a /\ a < m * d + d
  OBVIOUS
<1>2. n \in Nat /\ n * d <= a + d /\ a + d < n * d + d
  OBVIOUS
<1>3. a % d = 0 => m * d = a
  OBVIOUS
<1> HIDE DEF m, n
<1>4. n * d < (m + 2) * d /\ (m + 1) * d < (n + 1) * d
  BY <1>1, <1>2
<1>5. n < m + 2 /\ m + 1 < n + 1
  BY <1>1, <1>2, <1>4
<1>6. n = m + 1
  BY <1>1, <1>2, <1>5
<1>7. n * d = m * d + d /\ m * d \in Nat
  BY <1>1, <1>2, <1>6
<1> QED
  BY <1>1, <1>3, <1>7 DEF m, n

LEMMA OffsetMono ==
  ASSUME NEW a \in Nat, NEW b \in Nat, NEW d \in Nat \ {0}, a <= b + d
  PROVE  (a \div d) * d <= (b \div d) * d + d
OBVIOUS

AllFilters == UNION {Filters(list) : list \in ListNames}
WalkStates ==
  [pc : {"idle", "count", "rows", "done"}, list : ListNames, filter : AllFilters \cup {Absent},
   asked : Int \cup {Absent}, stop : {"short", "total"}, at : Nat, total : Nat,
   failures : 0 .. MaxFailures, awaited : SUBSET Items, seen : SUBSET Items,
   twice : BOOLEAN, pulled : BOOLEAN, pushed : BOOLEAN, slipped : BOOLEAN]

LEMMA SizeFacts ==
  ASSUME NEW w, w.asked \in Int \cup {Absent}
  PROVE  /\ Size(w) \in Nat \ {0}
         /\ Size(w) \in 1 .. IF w.list = "books" THEN MaxLimit ELSE MaxSize
<1>1. CASE w.list = "books"
  BY <1>1, ListsAssumption DEF Size, Clamp
<1>2. CASE w.list # "books"
  BY <1>2, ListsAssumption DEF Size
<1> QED
  BY <1>1, <1>2

LEMMA StartFacts ==
  ASSUME NEW w, w.asked \in Int \cup {Absent}, w.at \in Nat
  PROVE  /\ Start(w) \in Nat /\ Start(w) <= w.at
         /\ w.at <= MaxOffset /\ w.at % Size(w) = 0 => Start(w) = w.at
<1>1. Size(w) \in Nat \ {0} /\ MaxOffset \in Nat
  BY SizeFacts, ListsAssumption
<1>2. CASE w.list = "books"
  <2> DEFINE o == Clamp(w.at, 0, MaxOffset)
  <2>1. o \in Nat /\ o <= w.at /\ (w.at <= MaxOffset => o = w.at)
    BY <1>1 DEF Clamp
  <2>2. Start(w) = (o \div Size(w)) * Size(w)
    BY <1>2 DEF Start, Arrives, Whitelist
  <2> HIDE DEF o
  <2>3. /\ (o \div Size(w)) * Size(w) \in Nat /\ (o \div Size(w)) * Size(w) <= o
        /\ o % Size(w) = 0 => (o \div Size(w)) * Size(w) = o
    BY <1>1, <2>1, OffsetFacts
  <2> QED
    BY <2>1, <2>2, <2>3
<1>3. CASE w.list # "books"
  BY <1>3 DEF Start, Arrives, Whitelist
<1> QED
  BY <1>2, <1>3

(* The next page begins where this one ends, up to the greatest offset. *)
LEMMA NextPage ==
  ASSUME NEW w, NEW v, w.asked \in Int \cup {Absent}, w.at \in Nat, w.at <= MaxOffset,
         v.list = w.list, v.asked = w.asked, v.at = w.at + Size(w)
  PROVE  /\ Start(v) <= Start(w) + Size(w)
         /\ v.at <= MaxOffset => Start(v) = Start(w) + Size(w)
<1>1. /\ Size(w) \in Nat \ {0} /\ MaxOffset \in Nat /\ Size(v) = Size(w)
  BY SizeFacts, ListsAssumption DEF Size
<1>2. CASE w.list = "books"
  <2> DEFINE o == Clamp(v.at, 0, MaxOffset)
  <2>1. o \in Nat /\ o <= w.at + Size(w) /\ (v.at <= MaxOffset => o = w.at + Size(w))
    BY <1>1 DEF Clamp
  <2>2. Clamp(w.at, 0, MaxOffset) = w.at
    BY <1>1 DEF Clamp
  <2>3. /\ Start(v) = (o \div Size(w)) * Size(w)
        /\ Start(w) = (w.at \div Size(w)) * Size(w)
    BY <1>1, <1>2, <2>2 DEF Start, Arrives, Whitelist
  <2> HIDE DEF o
  <2> DEFINE d == Size(w)
             a == w.at
  <2>4. d \in Nat \ {0} /\ a \in Nat /\ o <= a + d
    BY <1>1, <2>1
  <2>5. Start(v) = (o \div d) * d /\ Start(w) = (a \div d) * d
    BY <2>3
  <2>6. v.at <= MaxOffset => o = a + d
    BY <2>1
  <2> HIDE DEF d, a
  <2>7. (o \div d) * d <= (a \div d) * d + d
    BY <2>1, <2>4, OffsetMono
  <2>8. ((a + d) \div d) * d = (a \div d) * d + d
    BY <2>4, OffsetFacts
  <2>9. Start(v) <= Start(w) + d /\ (v.at <= MaxOffset => Start(v) = Start(w) + d)
    BY <2>5, <2>6, <2>7, <2>8
  <2> QED
    BY <2>9 DEF d
<1>3. CASE w.list # "books"
  BY <1>1, <1>3 DEF Start, Arrives, Whitelist
<1> QED
  BY <1>2, <1>3

-----------------------------------------------------------------------------
(* Where the client is.  What it waits for is not above its page, if        *)
(* nothing was deleted above it; what it has seen is, if nothing came in    *)
(* above it; and the total it was told is no less than the rows there are,  *)
(* until something comes in between.                                        *)

Walking == walk.pc \in {"count", "rows"}

WalkOK ==
  /\ items \subseteq ever /\ ever \subseteq Items /\ walk \in WalkStates
  /\ walk.total <= MaxItem
  /\ walk.awaited \subseteq items /\ walk.seen \subseteq ever
  /\ walk.awaited \cap walk.seen = {}
  /\ walk.filter # Absent => walk.awaited \subseteq Matching
  /\ walk.filter \in {"q", "author", "category"} => walk.seen \subseteq Matching

Ahead == Walking /\ ~walk.pulled =>
           \A i \in walk.awaited \ Tied : Depth(Rows(walk), i) >= Start(walk)
Behind == Walking /\ Reached /\ ~walk.pushed =>
            \A i \in (walk.seen \cap Rows(walk)) \ Tied : Depth(Rows(walk), i) < Start(walk)
Counted == walk.pc = "rows" /\ ~walk.slipped => Cardinality(Rows(walk)) <= walk.total
TwiceIsPushed == walk.twice /\ Reached => walk.pushed

WalkInv == WalkOK /\ Ahead /\ Behind /\ Counted /\ TwiceIsPushed /\ NothingMissed

LEMMA BeforeIsDepth == \A i, w : i \notin Tied => Before(i, w) = Depth(Rows(w), i)
<1> SUFFICES ASSUME NEW i, NEW w, i \notin Tied
             PROVE  {j \in Rows(w) : Later(j, i)} = Newer(Rows(w), i)
  BY DEF Before, Depth
<1> QED
  BY DEF Later, Newer, Tied

(* What is sure to come before a row also comes before an older one, and so *)
(* does the row.                                                            *)
LEMMA BeforeAbove ==
  ASSUME NEW w, Rows(w) \in SUBSET Int, IsFiniteSet(Rows(w)), NEW i \in Int, NEW k \in Int, k > i
  PROVE  /\ Before(k, w) \in Nat /\ Before(k, w) <= Depth(Rows(w), i)
         /\ k \in Rows(w) => Before(k, w) < Depth(Rows(w), i)
<1> DEFINE S == Rows(w)
           L == {j \in S : Later(j, k)}
<1>1. \A j \in L : j \in S /\ j > k /\ j \in Int
  BY DEF Later
<1>2. L \in SUBSET Newer(S, i) /\ k \notin L /\ (k \in S => L \cup {k} \in SUBSET Newer(S, i))
  <2>1. \A j \in L : j > i /\ j # k
    BY <1>1
  <2> HIDE DEF L
  <2> QED
    BY <1>1, <2>1 DEF Newer
<1>3. IsFiniteSet(Newer(S, i)) /\ Depth(S, i) \in Nat
  BY DepthType
<1>4. IsFiniteSet(L) /\ Before(k, w) = Cardinality(L) /\ Cardinality(L) \in Nat
  <2>1. IsFiniteSet(L)
    BY <1>2, <1>3, FS_Subset
  <2> QED
    BY <2>1, FS_CardinalityType DEF Before
<1>5. Cardinality(L) <= Depth(S, i)
  BY <1>2, <1>3, FS_Subset DEF Depth
<1>6. ASSUME k \in S PROVE Cardinality(L) < Depth(S, i)
  <2>1. Cardinality(L \cup {k}) = Cardinality(L) + 1
    BY <1>2, <1>4, FS_AddElement
  <2>2. Cardinality(L \cup {k}) <= Depth(S, i)
    BY <1>2, <1>3, <1>6, FS_Subset DEF Depth
  <2> QED
    BY <1>3, <1>4, <2>1, <2>2
<1> QED
  BY <1>4, <1>5, <1>6

LEMMA RowsFacts ==
  ASSUME items \subseteq Items, NEW w
  PROVE  /\ Rows(w) \in SUBSET Int /\ IsFiniteSet(Rows(w)) /\ Rows(w) \subseteq items
         /\ Cardinality(Rows(w)) \in Nat /\ Cardinality(Rows(w)) <= MaxItem
<1>1. IsFiniteSet(Items) /\ Cardinality(Items) = MaxItem /\ Items \in SUBSET Int
  <2>1. /\ IsFiniteSet(1 .. MaxItem)
        /\ Cardinality(1 .. MaxItem) = IF 1 > MaxItem THEN 0 ELSE MaxItem - 1 + 1
    BY ListsAssumption, FS_Interval
  <2> QED
    BY <2>1, ListsAssumption DEF Items
<1>2. Rows(w) \in SUBSET Items /\ Rows(w) \subseteq items
  BY DEF Rows
<1> QED
  BY <1>1, <1>2, FS_Subset, FS_CardinalityType

(* A walk asks for the same list, filter and size all along. *)
SameQuery(w, v) == v.list = w.list /\ v.filter = w.filter /\ v.asked = w.asked

LEMMA SameFacts ==
  ASSUME NEW w, NEW v, SameQuery(w, v)
  PROVE  /\ Size(v) = Size(w) /\ Rows(v) = Rows(w) /\ Selects(v) = Selects(w)
         /\ v.at = w.at => Start(v) = Start(w)
BY DEF SameQuery, Size, Rows, Selects, Start

LEMMA StillThere ==
  ASSUME items' = items, NEW w, SameQuery(w, walk')
  PROVE  /\ Rows(walk)' = Rows(w) /\ Size(walk)' = Size(w) /\ (Selects(walk)' <=> Selects(w))
         /\ walk'.at = w.at => Start(walk)' = Start(w)
BY DEF SameQuery, Size, Rows, Selects, Start

LEMMA ListInitInv == ListInit => WalkInv
<1> SUFFICES ASSUME ListInit PROVE WalkInv
  OBVIOUS
<1>1. walk = NoWalk /\ items \subseteq Items /\ ever = items
  BY DEF ListInit
<1>2. walk \in WalkStates
  BY <1>1, ListsAssumption DEF NoWalk, WalkStates, ListNames
<1>3. WalkOK
  BY <1>1, <1>2, ListsAssumption DEF WalkOK, NoWalk
<1> QED
  BY <1>1, <1>3 DEF WalkInv, Ahead, Behind, Counted, TwiceIsPushed, NothingMissed, Walking, NoWalk

LEMMA FilterFacts ==
  ASSUME NEW list \in ListNames, NEW filter \in (Filters(list) \cap AskedFilters) \cup {Absent}
  PROVE  filter \in AllFilters \cup {Absent}
BY DEF AllFilters

LEMMA BeginInv ==
  ASSUME WalkInv, NEW list \in ListNames, NEW asked \in Asked, NEW stop \in {"short", "total"},
         NEW filter \in (Filters(list) \cap AskedFilters) \cup {Absent},
         NEW at \in IF list = "books" THEN Offsets ELSE {0},
         Begin(list, filter, asked, stop, at)
  PROVE  WalkInv'
<1> DEFINE w == [NoWalk EXCEPT !.pc = "count", !.list = list, !.filter = filter,
                               !.asked = asked, !.stop = stop, !.at = at]
           A == {i \in (IF filter = Absent THEN items ELSE items \cap Matching) :
                   Before(i, w) >= at}
           v == [w EXCEPT !.awaited = A]
<1>1. walk' = v /\ UNCHANGED <<items, ever>>
  BY DEF Begin
<1>2. /\ w.list = list /\ w.filter = filter /\ w.asked = asked /\ w.at = at
      /\ v.pc = "count" /\ v.list = list /\ v.filter = filter /\ v.asked = asked
      /\ v.stop = stop /\ v.at = at /\ v.total = 0 /\ v.failures = 0 /\ v.awaited = A
      /\ v.seen = {} /\ v.twice = FALSE /\ v.pulled = FALSE /\ v.pushed = FALSE
      /\ v.slipped = FALSE
  BY DEF NoWalk
<1>3. /\ A \subseteq items /\ (filter # Absent => A \subseteq Matching)
      /\ \A i \in A : Before(i, w) >= at
  OBVIOUS
<1>4. items \subseteq Items /\ items \subseteq ever /\ ever \subseteq Items
  BY DEF WalkInv, WalkOK
<1>5. at \in Nat /\ asked \in Int \cup {Absent} /\ MaxFailures \in Nat /\ MaxItem \in Nat
  BY ListsAssumption
<1>6. v \in WalkStates
  <2>1. NoWalk \in WalkStates
    BY ListsAssumption DEF NoWalk, WalkStates, ListNames
  <2>2. A \in SUBSET Items /\ filter \in AllFilters \cup {Absent}
    BY <1>3, <1>4, FilterFacts
  <2> HIDE DEF A
  <2> QED
    BY <1>5, <2>1, <2>2 DEF WalkStates
<1> HIDE DEF A, v, w
<1>7. WalkOK'
  BY <1>1, <1>2, <1>3, <1>4, <1>5, <1>6 DEF WalkOK
<1>8. Rows(walk)' = Rows(w) /\ Start(walk)' = Start(w) /\ Start(w) <= at
  <2>1. SameQuery(w, walk') /\ walk'.at = w.at
    BY <1>1, <1>2 DEF SameQuery
  <2> QED
    BY <1>1, <1>2, <1>5, <2>1, StillThere, StartFacts
<1>9. Ahead'
  <2> SUFFICES ASSUME NEW i \in A \ Tied
               PROVE  Depth(Rows(w), i) >= Start(w)
    BY <1>1, <1>2, <1>8 DEF Ahead
  <2>1. Depth(Rows(w), i) >= at
    BY <1>3, BeforeIsDepth
  <2>2. Depth(Rows(w), i) \in Nat
    BY <1>4, RowsFacts, DepthType
  <2>3. Start(w) \in Nat
    BY <1>2, <1>5, StartFacts
  <2> QED
    BY <1>5, <1>8, <2>1, <2>2, <2>3
<1>10. Behind' /\ Counted' /\ TwiceIsPushed' /\ NothingMissed'
  BY <1>1, <1>2 DEF Behind, Counted, TwiceIsPushed, NothingMissed
<1> QED
  BY <1>7, <1>9, <1>10 DEF WalkInv

LEMMA CountInv == ASSUME WalkInv, Count PROVE WalkInv'
<1> DEFINE n == Cardinality(Rows(walk))
           v == [walk EXCEPT !.pc = "rows", !.total = n, !.slipped = FALSE]
<1>1. walk' = v /\ walk.pc = "count" /\ UNCHANGED <<items, ever>>
  BY DEF Count
<1>2. walk \in WalkStates /\ n \in Nat /\ n <= MaxItem
  BY RowsFacts DEF WalkInv, WalkOK
<1> HIDE DEF n
<1>3. /\ v \in WalkStates /\ SameQuery(walk, v)
      /\ v.pc = "rows" /\ v.at = walk.at /\ v.total = n /\ v.awaited = walk.awaited
      /\ v.seen = walk.seen /\ v.twice = walk.twice /\ v.pulled = walk.pulled
      /\ v.pushed = walk.pushed
  BY <1>2 DEF WalkStates, SameQuery
<1> HIDE DEF v
<1>4. Rows(walk)' = Rows(walk) /\ Start(walk)' = Start(walk)
  BY <1>1, <1>3, StillThere
<1>5. WalkOK'
  BY <1>1, <1>2, <1>3 DEF WalkInv, WalkOK, SameQuery
<1>6. Ahead' /\ Behind' /\ TwiceIsPushed' /\ NothingMissed'
  BY <1>1, <1>3, <1>4 DEF WalkInv, Ahead, Behind, TwiceIsPushed, NothingMissed, Walking, Reached
<1>7. Counted'
  BY <1>1, <1>2, <1>3, <1>4 DEF Counted, n
<1> QED
  BY <1>5, <1>6, <1>7 DEF WalkInv

LEMMA FetchInv == ASSUME WalkInv, NEW page \in Pages(walk), Fetch(page) PROVE WalkInv'
<1> DEFINE S == Rows(walk)
           a == Start(walk)
           d == Size(walk)
           pc == IF Ends(walk, page) THEN "done" ELSE "count"
           at == IF Ends(walk, page) \/ walk.at > MaxOffset THEN walk.at ELSE walk.at + d
           twice == walk.twice \/ (page \cap walk.seen) \ Tied # {}
           v == [walk EXCEPT !.pc = pc, !.at = at, !.awaited = walk.awaited \ page,
                             !.twice = twice, !.seen = walk.seen \cup page]
<1>1. walk' = v /\ walk.pc = "rows" /\ UNCHANGED <<items, ever>>
  BY DEF Fetch
<1>2. /\ walk \in WalkStates /\ items \subseteq Items /\ MaxOffset \in Nat
      /\ S \in SUBSET Int /\ IsFiniteSet(S) /\ S \subseteq items
      /\ a \in Nat /\ d \in Nat \ {0} /\ walk.at \in Nat
      /\ walk.at <= MaxOffset /\ walk.at % d = 0 => a = walk.at
  BY RowsFacts, SizeFacts, StartFacts, ListsAssumption DEF WalkInv, WalkOK, WalkStates
<1>20. /\ page \subseteq S
       /\ \A i \in S \ Tied : Shows(page, S, a, d, i)
  <2>1. PICK A \in SUBSET S, B \in SUBSET S :
          page = B \ A /\ IsHead(A, a, S) /\ IsHead(B, a + d, S) /\ A \subseteq B
    <3> DEFINE cuts == Heads(Start(walk), walk) \X Heads(Start(walk) + Size(walk), walk)
    <3>1. PICK cut \in cuts : page = cut[2] \ cut[1] /\ cut[1] \subseteq cut[2]
      BY DEF Pages
    <3>2. cut[1] \in Heads(a, walk) /\ cut[2] \in Heads(a + d, walk)
      BY <3>1
    <3>3. IsHead(cut[1], a, S) /\ IsHead(cut[2], a + d, S)
      BY <3>2 DEF Heads, IsHead
    <3>4. cut[1] \in SUBSET S /\ cut[2] \in SUBSET S
      BY <3>3 DEF IsHead
    <3> QED
      BY <3>1, <3>3, <3>4
  <2>2. /\ a \in Nat /\ d \in Nat /\ S \in SUBSET Int /\ IsFiniteSet(S)
        /\ IsHead(A, a, S) /\ IsHead(B, a + d, S) /\ A \subseteq B /\ page = B \ A
    BY <1>2, <2>1
  <2> HIDE DEF S, a, d
  <2>3. \A i \in S \ Tied : Shows(page, S, a, d, i)
    <3> SUFFICES ASSUME NEW i \in S, i \notin Tied PROVE Shows(B \ A, S, a, d, i)
      BY <2>2
    <3> QED
      BY <2>2, PageDepth
  <2> QED
    BY <2>1, <2>3
<1>3. \A i \in S \ Tied : i \in page <=> Depth(S, i) \in a .. a + d - 1
  BY <1>20 DEF Shows
<1>4. /\ Ends(walk, page) /\ walk.stop = "short" => Cardinality(page) < d
      /\ Ends(walk, page) /\ walk.stop = "total" => walk.at + d >= walk.total
  BY DEF Ends
<1>5. \A i \in S : Depth(S, i) \in Nat
  BY <1>2, DepthType
<1>6. pc \in {"done", "count"} /\ at \in Nat /\ twice \in BOOLEAN /\ page \subseteq S
  BY <1>2, <1>20
<1>7. /\ pc = "done" => Ends(walk, page) /\ at = walk.at
      /\ pc = "count" /\ walk.at > MaxOffset => at = walk.at
      /\ pc = "count" /\ walk.at <= MaxOffset => at = walk.at + d
      /\ at >= walk.at
      /\ (twice <=> walk.twice \/ (page \cap walk.seen) \ Tied # {})
  BY <1>2
<1>8. v \in WalkStates
  <2> HIDE DEF at, pc, twice, S
  <2>1. page \subseteq Items
    BY <1>2, <1>6
  <2> QED
    BY <1>2, <1>6, <2>1 DEF WalkStates
<1>9. /\ SameQuery(walk, v) /\ v.pc = pc /\ v.at = at /\ v.awaited = walk.awaited \ page
      /\ v.seen = walk.seen \cup page /\ v.twice = twice /\ v.pulled = walk.pulled
      /\ v.pushed = walk.pushed /\ v.slipped = walk.slipped /\ v.stop = walk.stop
      /\ v.total = walk.total
  <2> HIDE DEF at, pc, twice
  <2> QED
    BY <1>2 DEF WalkStates, SameQuery
<1>10. walk.filter \in {"q", "author", "category"} => page \subseteq Matching
  <2>1. walk.filter \in {"q", "author", "category"} => Selects(walk)
    <3>1. CASE walk.filter = Absent
      <4>1. walk.filter \notin {"q", "author", "category"}
        BY <3>1, ListsAssumption DEF ListNames, Filters
      <4> QED
        BY <4>1
    <3>2. CASE walk.filter # Absent
      BY <3>2 DEF Selects, Arrives, Whitelist
    <3> QED
      BY <3>1, <3>2
  <2> QED
    BY <1>6, <2>1 DEF Rows
<1> HIDE DEF v, pc, at, twice
<1>11. Rows(walk)' = S /\ Size(walk)' = d /\ Start(v) = Start(walk)'
  <2>1. SameQuery(walk, walk') /\ SameQuery(v, walk') /\ walk'.at = v.at
    BY <1>1, <1>9 DEF SameQuery
  <2> QED
    BY <1>1, <2>1, StillThere
<1>12. WalkOK'
  <2>1. page \subseteq items
    BY <1>2, <1>6
  <2> QED
    BY <1>1, <1>8, <1>9, <1>10, <2>1 DEF WalkInv, WalkOK, SameQuery
<1>13. walk.awaited \subseteq S
  BY DEF WalkInv, WalkOK, Rows, Selects
<1> HIDE DEF S, a, d
<1>14. ~walk.pulled => \A i \in (walk.awaited \ page) \ Tied : Depth(S, i) >= a + d
  <2>1. ~walk.pulled => \A i \in walk.awaited \ Tied : Depth(S, i) >= a
    BY <1>1 DEF WalkInv, Ahead, Walking, S, a
  <2> SUFFICES ASSUME ~walk.pulled, NEW i \in (walk.awaited \ page) \ Tied
               PROVE  Depth(S, i) >= a + d
    OBVIOUS
  <2>2. i \in S /\ Depth(S, i) >= a /\ Depth(S, i) \notin a .. a + d - 1
    BY <1>3, <1>13, <2>1
  <2>3. Depth(S, i) \in Nat
    BY <1>5, <2>2
  <2> QED
    BY <1>2, <2>2, <2>3
<1>15. Reached /\ ~walk.pushed => \A i \in (walk.seen \cap S) \ Tied : Depth(S, i) < a
  BY <1>1 DEF WalkInv, Behind, Walking, S, a
<1>16. /\ Reached <=> walk.at <= MaxOffset
       /\ Reached' <=> at <= MaxOffset
       /\ Reached' => Reached
  BY <1>1, <1>2, <1>6, <1>7, <1>9 DEF Reached
<1>21. Reached /\ twice => walk.pushed
  <2> SUFFICES ASSUME Reached, ~walk.pushed, twice PROVE FALSE
    BY <1>1 DEF WalkInv, WalkOK, WalkStates
  <2>1. ~walk.twice
    BY DEF WalkInv, TwiceIsPushed
  <2>2. PICK i \in page \cap walk.seen : i \notin Tied
    BY <1>7, <2>1
  <2>3. i \in S /\ Depth(S, i) \in a .. a + d - 1
    BY <1>3, <1>6, <2>2
  <2>4. Depth(S, i) < a
    BY <1>15, <2>2, <2>3
  <2> QED
    BY <1>2, <2>3, <2>4
<1>17. CASE pc = "done"
  <2>1. Ahead' /\ Behind' /\ Counted'
    BY <1>1, <1>9, <1>17 DEF Ahead, Behind, Counted, Walking
  <2>2. TwiceIsPushed'
    BY <1>1, <1>9, <1>16, <1>21 DEF WalkInv, TwiceIsPushed
  <2>3. NothingMissed'
    <3> SUFFICES ASSUME Reached', ~walk.pulled,
                        walk.stop = "total" => ~walk.slipped /\ walk.at % d = 0,
                        NEW i \in (walk.awaited \ page) \ Tied
                 PROVE  FALSE
      BY <1>1, <1>7, <1>9, <1>11, <1>17 DEF NothingMissed, OnGrid
    <3>1. i \in S /\ Depth(S, i) >= a + d
      BY <1>13, <1>14
    <3>2. Cardinality(page) >= d
      BY <1>20, <3>1 DEF Shows
    <3>3. IsFiniteSet(page) /\ Cardinality(page) \in Nat
      BY <1>2, <1>6, FS_Subset, FS_CardinalityType
    <3>4. walk.stop = "total"
      <4>1. walk.stop # "short"
        BY <1>2, <1>4, <1>7, <1>17, <3>2, <3>3
      <4> QED
        BY <1>2, <4>1 DEF WalkStates
    <3>5. Cardinality(S) <= walk.total /\ walk.total \in Nat
      BY <1>1, <1>2, <3>4 DEF WalkInv, Counted, WalkStates, S
    <3>6. Depth(S, i) < Cardinality(S) /\ Depth(S, i) \in Nat
      BY <1>2, <1>5, <3>1, DepthBound
    <3>7. a = walk.at /\ walk.at + d >= walk.total
      BY <1>2, <1>4, <1>7, <1>16, <1>17, <3>4
    <3>8. Cardinality(S) \in Nat
      BY <1>2, FS_CardinalityType
    <3> QED
      BY <1>2, <3>1, <3>5, <3>6, <3>7, <3>8
  <2> QED
    BY <1>12, <2>1, <2>2, <2>3 DEF WalkInv
<1>18. CASE pc = "count"
  <2>1. /\ walk.at > MaxOffset => Start(v) = a
        /\ walk.at <= MaxOffset => /\ Start(v) <= a + d
                                   /\ at <= MaxOffset => Start(v) = a + d
    <3>1. walk.asked \in Int \cup {Absent} /\ v.list = walk.list /\ v.asked = walk.asked
      BY <1>2, <1>9 DEF WalkStates, SameQuery
    <3>2. CASE walk.at > MaxOffset
      BY <1>2, <1>7, <1>9, <1>18, <3>2, SameFacts DEF a
    <3>3. CASE walk.at <= MaxOffset
      <4>1. v.at = walk.at + Size(walk)
        BY <1>7, <1>9, <1>18, <3>3 DEF d
      <4>2. /\ Start(v) <= Start(walk) + Size(walk)
            /\ v.at <= MaxOffset => Start(v) = Start(walk) + Size(walk)
        BY <1>2, <3>1, <3>3, <4>1, NextPage
      <4> QED
        BY <1>2, <1>9, <3>3, <4>2 DEF a, d
    <3> QED
      BY <1>2, <3>2, <3>3
  <2>2. Start(v) \in Nat
    BY <1>8, StartFacts DEF WalkStates
  <2>3. Ahead'
    <3>1. Start(v) <= a + d
      BY <1>2, <2>1, <2>2
    <3>2. ASSUME ~walk.pulled, NEW i \in (walk.awaited \ page) \ Tied
          PROVE  Depth(S, i) >= Start(v)
      <4>1. Depth(S, i) \in Nat /\ Depth(S, i) >= a + d
        BY <1>5, <1>13, <1>14, <3>2
      <4> QED
        BY <1>2, <2>2, <3>1, <4>1
    <3> QED
      BY <1>1, <1>9, <1>11, <3>2 DEF Ahead
  <2>4. Behind'
    <3> SUFFICES ASSUME Reached', ~walk.pushed, NEW i \in ((walk.seen \cup page) \cap S) \ Tied
                 PROVE  Depth(S, i) < Start(v)
      BY <1>1, <1>9, <1>11 DEF Behind
    <3>1. Start(v) = a + d
      BY <1>16, <2>1
    <3>2. i \in walk.seen => Depth(S, i) < a
      BY <1>15, <1>16
    <3>3. i \in page => Depth(S, i) \in a .. a + d - 1
      BY <1>3
    <3>4. Depth(S, i) \in Nat
      BY <1>5
    <3> QED
      BY <1>2, <3>1, <3>2, <3>3, <3>4
  <2>5. TwiceIsPushed'
    BY <1>1, <1>9, <1>16, <1>21 DEF WalkInv, TwiceIsPushed
  <2>6. Counted' /\ NothingMissed'
    BY <1>1, <1>9, <1>18 DEF Counted, NothingMissed
  <2> QED
    BY <1>12, <2>3, <2>4, <2>5, <2>6 DEF WalkInv
<1> QED
  BY <1>6, <1>17, <1>18

LEMMA AskAgainInv == ASSUME WalkInv, AskAgain PROVE WalkInv'
<1> DEFINE v == [walk EXCEPT !.pc = "count", !.failures = walk.failures + 1]
<1>1. walk' = v /\ walk.pc \in {"count", "rows"} /\ UNCHANGED <<items, ever>>
      /\ walk.failures < MaxFailures
  BY DEF AskAgain
<1>2. walk \in WalkStates /\ walk.failures + 1 \in 0 .. MaxFailures
  BY <1>1, ListsAssumption DEF WalkInv, WalkOK, WalkStates
<1>3. /\ v \in WalkStates /\ SameQuery(walk, v)
      /\ v.pc = "count" /\ v.at = walk.at /\ v.total = walk.total /\ v.awaited = walk.awaited
      /\ v.seen = walk.seen /\ v.twice = walk.twice /\ v.pulled = walk.pulled
      /\ v.pushed = walk.pushed
  BY <1>2 DEF WalkStates, SameQuery
<1> HIDE DEF v
<1>4. Rows(walk)' = Rows(walk) /\ Start(walk)' = Start(walk)
  BY <1>1, <1>3, StillThere
<1>5. WalkOK'
  BY <1>1, <1>2, <1>3 DEF WalkInv, WalkOK, SameQuery
<1>6. Ahead' /\ Behind' /\ TwiceIsPushed' /\ NothingMissed' /\ Counted'
  BY <1>1, <1>3, <1>4
  DEF WalkInv, Ahead, Behind, TwiceIsPushed, NothingMissed, Counted, Walking, Reached
<1> QED
  BY <1>5, <1>6 DEF WalkInv

LEMMA LeaveInv == ASSUME WalkInv, Leave PROVE WalkInv'
<1>1. walk' = NoWalk /\ UNCHANGED <<items, ever>>
  BY DEF Leave
<1>2. NoWalk \in WalkStates
  BY ListsAssumption DEF NoWalk, WalkStates, ListNames
<1>3. WalkOK'
  BY <1>1, <1>2, ListsAssumption DEF WalkInv, WalkOK, NoWalk
<1>4. Ahead' /\ Behind' /\ Counted' /\ TwiceIsPushed' /\ NothingMissed'
  BY <1>1 DEF Ahead, Behind, Counted, TwiceIsPushed, NothingMissed, Walking, NoWalk
<1> QED
  BY <1>3, <1>4 DEF WalkInv

(* What an insertion or a deletion does to the rows of the walk. *)
LEMMA RowsMore ==
  ASSUME NEW k, items' = items \cup {k}, SameQuery(walk, walk')
  PROVE  Rows(walk)' = Rows(walk) \/ Rows(walk)' = Rows(walk) \cup {k}
<1>1. Selects(walk)' <=> Selects(walk)
  BY DEF SameQuery, Selects
<1> QED
  BY <1>1 DEF Rows

LEMMA RowsFewer ==
  ASSUME NEW k, items' = items \ {k}, SameQuery(walk, walk')
  PROVE  Rows(walk)' = Rows(walk) \ {k}
<1>1. Selects(walk)' <=> Selects(walk)
  BY DEF SameQuery, Selects
<1> QED
  BY <1>1 DEF Rows

LEMMA SameStart ==
  ASSUME NEW w, SameQuery(w, walk')
  PROVE  /\ Size(walk)' = Size(w)
         /\ walk'.at = w.at => Start(walk)' = Start(w)
BY DEF SameQuery, Size, Start

LEMMA InsertInv == ASSUME WalkInv, NEW k \in Items, Insert(k) PROVE WalkInv'
<1> DEFINE S == Rows(walk)
           a == Start(walk)
<1>1. k \notin ever /\ items' = items \cup {k} /\ ever' = ever \cup {k}
  BY DEF Insert
<1>2. /\ walk \in WalkStates /\ items \subseteq Items /\ walk.seen \subseteq ever
      /\ S \in SUBSET Int /\ IsFiniteSet(S) /\ S \subseteq items
      /\ a \in Nat
  BY RowsFacts, StartFacts DEF WalkInv, WalkOK, WalkStates
<1>3. walk.awaited \subseteq S
  BY DEF WalkInv, WalkOK, Rows, Selects
<1>4. CASE walk.pc \notin {"count", "rows"}
  <2>1. walk' = walk
    BY <1>4 DEF Insert
  <2>2. Size(walk)' = Size(walk)
    BY <2>1, SameStart DEF SameQuery
  <2>3. WalkOK'
    BY <1>1, <2>1 DEF WalkInv, WalkOK
  <2>4. Ahead' /\ Behind' /\ Counted'
    BY <1>4, <2>1 DEF Ahead, Behind, Counted, Walking
  <2>5. TwiceIsPushed' /\ NothingMissed'
    BY <2>1, <2>2 DEF WalkInv, TwiceIsPushed, NothingMissed, Reached, OnGrid
  <2> QED
    BY <2>3, <2>4, <2>5 DEF WalkInv
<1>5. CASE walk.pc \in {"count", "rows"}
  <2> DEFINE pushed == walk.pushed \/ Before(k, walk) < a
             slipped == walk.pc = "rows"
             v == [walk EXCEPT !.pushed = pushed, !.slipped = slipped]
  <2>1. walk' = v
    BY <1>5 DEF Insert
  <2>2. pushed \in BOOLEAN /\ slipped \in BOOLEAN
    <3>1. walk.pushed \in BOOLEAN
      BY <1>2 DEF WalkStates
    <3> QED
      BY <3>1
  <2>3. /\ walk.pushed => pushed
        /\ ~pushed => ~(Before(k, walk) < a)
        /\ walk.pc = "rows" => slipped
    BY <2>2
  <2> HIDE DEF pushed, slipped, S, a
  <2>4. /\ v \in WalkStates /\ SameQuery(walk, v)
        /\ v.pc = walk.pc /\ v.at = walk.at /\ v.total = walk.total /\ v.awaited = walk.awaited
        /\ v.seen = walk.seen /\ v.twice = walk.twice /\ v.pulled = walk.pulled
        /\ v.pushed = pushed /\ v.slipped = slipped
    BY <1>2, <2>2 DEF WalkStates, SameQuery
  <2> HIDE DEF v
  <2>5. (Rows(walk)' = S \/ Rows(walk)' = S \cup {k}) /\ Start(walk)' = a
    BY <1>1, <2>1, <2>4, RowsMore, SameStart DEF S, a
  <2>6. WalkOK'
    BY <1>1, <2>1, <2>4 DEF WalkInv, WalkOK, SameQuery
  <2>7. k \in Int /\ \A j \in S : j \in Int
    BY <1>2, ListsAssumption DEF Items
  <2>8. Ahead'
    <3> SUFFICES ASSUME ~walk.pulled, NEW j \in walk.awaited \ Tied
                 PROVE  Depth(Rows(walk)', j) >= a
      BY <2>1, <2>4, <2>5 DEF Ahead
    <3>1. j \in S /\ Depth(S, j) >= a
      BY <1>3, <1>5 DEF WalkInv, Ahead, Walking, S, a
    <3>2. Depth(S, j) \in Nat /\ Depth(S \cup {k}, j) \in Nat /\ Depth(S, j) <= Depth(S \cup {k}, j)
      <4>1. IsFiniteSet(S \cup {k}) /\ S \cup {k} \in SUBSET Int
        BY <1>2, <2>7, FS_AddElement
      <4> QED
        BY <1>2, <2>7, <3>1, <4>1, DepthType, DepthMore
    <3>3. Depth(Rows(walk)', j) = Depth(S, j) \/ Depth(Rows(walk)', j) = Depth(S \cup {k}, j)
      BY <2>5
    <3> QED
      BY <1>2, <3>1, <3>2, <3>3
  <2>9. Behind'
    <3> SUFFICES ASSUME Reached', ~pushed, NEW j \in (walk.seen \cap Rows(walk)') \ Tied
                 PROVE  Depth(Rows(walk)', j) < a
      BY <2>1, <2>4, <2>5 DEF Behind
    <3>1. Reached
      BY <2>1, <2>4 DEF Reached
    <3>2. j # k /\ j \in S
      BY <1>1, <1>2, <2>5
    <3>3. Depth(S, j) < a
      BY <1>5, <2>3, <3>1, <3>2 DEF WalkInv, Behind, Walking, S, a
    <3>4. Depth(S, j) \in Nat
      BY <1>2, DepthType
    <3>5. ~(Before(k, walk) < a)
      BY <2>3
    <3>6. ~(k > j)
      <4> SUFFICES ASSUME k > j PROVE FALSE
        OBVIOUS
      <4>1. Before(k, walk) \in Nat /\ Before(k, walk) <= Depth(S, j)
        BY <1>2, <2>7, <3>2, BeforeAbove DEF S
      <4> QED
        BY <1>2, <3>3, <3>4, <3>5, <4>1
    <3>7. k <= j
      BY <2>7, <3>2, <3>6
    <3>8. Depth(S \cup {k}, j) = Depth(S, j)
      BY <1>2, <2>7, <3>2, <3>7, DepthMore
    <3> QED
      BY <2>5, <3>3, <3>8
  <2>10. Counted' /\ NothingMissed'
    BY <1>5, <2>1, <2>3, <2>4 DEF Counted, NothingMissed
  <2>11. TwiceIsPushed'
    BY <2>1, <2>3, <2>4 DEF WalkInv, TwiceIsPushed, Reached
  <2> QED
    BY <2>6, <2>8, <2>9, <2>10, <2>11 DEF WalkInv
<1> QED
  BY <1>4, <1>5

LEMMA DeleteInv == ASSUME WalkInv, NEW k \in Items, Delete(k) PROVE WalkInv'
<1> DEFINE S == Rows(walk)
           a == Start(walk)
           pulled == walk.pulled \/ (walk.pc # "done" /\ Before(k, walk) < a)
           v == [walk EXCEPT !.pulled = pulled, !.awaited = walk.awaited \ {k}]
<1>1. k \in items /\ items' = items \ {k} /\ ever' = ever
  BY DEF Delete
<1>2. /\ walk \in WalkStates /\ items \subseteq Items
      /\ S \in SUBSET Int /\ IsFiniteSet(S) /\ S \subseteq items
      /\ a \in Nat
  BY RowsFacts, StartFacts DEF WalkInv, WalkOK, WalkStates
<1>3. walk.awaited \subseteq S
  BY DEF WalkInv, WalkOK, Rows, Selects
<1>4. walk' = v
  BY DEF Delete
<1>5. pulled \in BOOLEAN
  <2>1. walk.pulled \in BOOLEAN
    BY <1>2 DEF WalkStates
  <2> QED
    BY <2>1
<1>6. /\ walk.pulled => pulled
      /\ ~pulled /\ walk.pc # "done" => ~(Before(k, walk) < a)
  BY <1>5
<1> HIDE DEF pulled, S, a
<1>7. /\ v \in WalkStates /\ SameQuery(walk, v)
      /\ v.pc = walk.pc /\ v.at = walk.at /\ v.total = walk.total
      /\ v.awaited = walk.awaited \ {k} /\ v.stop = walk.stop
      /\ v.seen = walk.seen /\ v.twice = walk.twice /\ v.pulled = pulled
      /\ v.pushed = walk.pushed /\ v.slipped = walk.slipped
  BY <1>2, <1>5 DEF WalkStates, SameQuery
<1> HIDE DEF v
<1>8. Rows(walk)' = S \ {k} /\ Start(walk)' = a /\ Size(walk)' = Size(walk)
  BY <1>1, <1>4, <1>7, RowsFewer, SameStart DEF S, a
<1>9. WalkOK'
  BY <1>1, <1>4, <1>7 DEF WalkInv, WalkOK, SameQuery
<1>10. k \in Int /\ \A j \in S : j \in Int
  BY <1>2, ListsAssumption DEF Items
<1>11. ASSUME NEW j \in S
       PROVE  /\ Depth(S, j) \in Nat /\ Depth(S \ {k}, j) \in Nat
              /\ Depth(S \ {k}, j) <= Depth(S, j) /\ Depth(S \ {k}, j) >= Depth(S, j) - 1
              /\ k <= j \/ k \notin S => Depth(S \ {k}, j) = Depth(S, j)
  <2>1. IsFiniteSet(S \ {k}) /\ S \ {k} \in SUBSET Int
    BY <1>2, FS_Subset
  <2> QED
    BY <1>2, <1>10, <2>1, DepthType, DepthFewer
<1>12. Ahead'
  <2> SUFFICES ASSUME Walking, ~pulled, NEW j \in (walk.awaited \ {k}) \ Tied
               PROVE  Depth(S \ {k}, j) >= a
    BY <1>4, <1>7, <1>8 DEF Ahead, Walking
  <2>1. j \in S /\ Depth(S, j) >= a
    BY <1>3, <1>6 DEF WalkInv, Ahead, S, a
  <2>2. ~(Before(k, walk) < a)
    BY <1>6 DEF Walking
  <2>3. CASE k <= j \/ k \notin S
    BY <1>11, <2>1, <2>3
  <2>4. CASE ~(k <= j) /\ k \in S
    <3>1. k > j
      <4>1. k \in Int /\ j \in Int
        BY <1>10, <2>1
      <4> QED
        BY <2>4, <4>1
    <3>2. Before(k, walk) \in Nat /\ Before(k, walk) < Depth(S, j)
      <4>1. k \in Int /\ j \in Int
        BY <1>10, <2>1
      <4> QED
        BY <1>2, <2>4, <3>1, <4>1, BeforeAbove DEF S
    <3>3. Depth(S, j) \in Nat /\ Depth(S \ {k}, j) \in Nat /\ Depth(S \ {k}, j) >= Depth(S, j) - 1
      BY <1>11, <2>1
    <3> QED
      BY <1>2, <2>2, <3>2, <3>3
  <2> QED
    BY <2>3, <2>4
<1>13. Behind'
  <2> SUFFICES ASSUME Walking, Reached', ~walk.pushed, NEW j \in (walk.seen \cap (S \ {k})) \ Tied
               PROVE  Depth(S \ {k}, j) < a
    BY <1>4, <1>7, <1>8 DEF Behind, Walking
  <2>1. Reached
    BY <1>4, <1>7 DEF Reached
  <2>2. Depth(S, j) < a
    BY <2>1 DEF WalkInv, Behind, S, a
  <2>3. Depth(S, j) \in Nat /\ Depth(S \ {k}, j) \in Nat /\ Depth(S \ {k}, j) <= Depth(S, j)
    BY <1>11
  <2> QED
    BY <1>2, <2>2, <2>3
<1>14. Counted'
  <2> SUFFICES ASSUME walk.pc = "rows", ~walk.slipped
               PROVE  Cardinality(S \ {k}) <= walk.total
    BY <1>4, <1>7, <1>8 DEF Counted
  <2>1. Cardinality(S) <= walk.total /\ walk.total \in Nat
    BY <1>2 DEF WalkInv, Counted, WalkStates, S
  <2>2. /\ Cardinality(S \ {k}) <= Cardinality(S)
        /\ Cardinality(S \ {k}) \in Nat /\ Cardinality(S) \in Nat
    <3>1. S \ {k} \in SUBSET S
      OBVIOUS
    <3>2. IsFiniteSet(S \ {k}) /\ Cardinality(S \ {k}) <= Cardinality(S)
      BY <1>2, <3>1, FS_Subset
    <3> QED
      BY <1>2, <3>2, FS_CardinalityType
  <2> QED
    BY <2>1, <2>2
<1>15. TwiceIsPushed'
  BY <1>4, <1>7 DEF WalkInv, TwiceIsPushed, Reached
<1>16. NothingMissed'
  BY <1>4, <1>6, <1>7, <1>8 DEF WalkInv, NothingMissed, Reached, OnGrid
<1> QED
  BY <1>9, <1>12, <1>13, <1>14, <1>15, <1>16 DEF WalkInv

LEMMA ListInvariant == ListSpec => []WalkInv
<1>1. ListInit => WalkInv
  BY ListInitInv
<1>2. WalkInv /\ [ListNext]_listVars => WalkInv'
  <2> SUFFICES ASSUME WalkInv, [ListNext]_listVars
               PROVE  WalkInv'
    OBVIOUS
  <2>1. CASE \E list \in ListNames, asked \in Asked, stop \in {"short", "total"} :
               \E filter \in (Filters(list) \cap AskedFilters) \cup {Absent} :
                 \E at \in IF list = "books" THEN Offsets ELSE {0} :
                   Begin(list, filter, asked, stop, at)
    BY <2>1, BeginInv
  <2>2. CASE Count
    BY <2>2, CountInv
  <2>3. CASE \E page \in Pages(walk) : Fetch(page)
    BY <2>3, FetchInv
  <2>4. CASE AskAgain
    BY <2>4, AskAgainInv
  <2>5. CASE Leave
    BY <2>5, LeaveInv
  <2>6. CASE \E i \in Items : Insert(i)
    BY <2>6, InsertInv
  <2>7. CASE \E i \in Items : Delete(i)
    BY <2>7, DeleteInv
  <2>8. CASE UNCHANGED listVars
    <3>1. items' = items /\ ever' = ever /\ walk' = walk
      BY <2>8 DEF listVars
    <3>2. Rows(walk)' = Rows(walk) /\ Start(walk)' = Start(walk) /\ Size(walk)' = Size(walk)
      BY <3>1, StillThere DEF SameQuery
    <3> QED
      BY <3>1, <3>2
      DEF WalkInv, WalkOK, Ahead, Behind, Counted, TwiceIsPushed, NothingMissed, Walking,
          Reached, OnGrid
  <2> QED
    BY <2>1, <2>2, <2>3, <2>4, <2>5, <2>6, <2>7, <2>8 DEF ListNext
<1> QED
  BY <1>1, <1>2, PTL DEF ListSpec

(* A list is asked for pages that hold something, of no more than the       *)
(* greatest size, whatever size the client names (list.go, admin_list.go).  *)
THEOREM ListTypeCorrect == ListSpec => []ListTypeOK
<1>1. WalkInv => ListTypeOK
  <2> SUFFICES ASSUME WalkInv PROVE ListTypeOK
    OBVIOUS
  <2>1. walk \in WalkStates
    BY DEF WalkInv, WalkOK
  <2>2. Size(walk) \in 1 .. IF walk.list = "books" THEN MaxLimit ELSE MaxSize
    BY <2>1, SizeFacts DEF WalkStates
  <2>3. walk.pc \in {"idle", "count", "rows", "done"} /\ walk.failures <= MaxFailures
    BY <2>1, ListsAssumption DEF WalkStates
  <2> QED
    BY <2>2, <2>3 DEF WalkInv, WalkOK, ListTypeOK
<1> QED
  BY <1>1, ListInvariant, PTL

(* Whoever walks a list to its end, page by page, has seen everything that  *)
(* was there all the time and was not created at once with something else,  *)
(* unless something was deleted ahead of the place they had got to or they  *)
(* went beyond the greatest offset; who goes by the total needs, too, an    *)
(* offset that is a page's and no insertion between the count and the rows  *)
(* of the last page (list.go:41, read.go:176).                              *)
THEOREM NoneIsMissed == ListSpec => []NothingMissed
<1>1. WalkInv => NothingMissed
  BY DEF WalkInv
<1> QED
  BY <1>1, ListInvariant, PTL

(* Nothing is shown twice on a walk unless something came in ahead of it or *)
(* it was created at once with something else, and the public list shows    *)
(* only what the filter selects (hpp.go, read.go:176).                      *)
THEOREM ShownOnceAndSelected == ListSpec => []ShownRight
<1>1. WalkInv => ShownRight
  BY DEF WalkInv, WalkOK, TwiceIsPushed, ShownRight
<1> QED
  BY <1>1, ListInvariant, PTL
=============================================================================
