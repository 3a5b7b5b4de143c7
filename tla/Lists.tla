------------------------------- MODULE Lists -------------------------------
(***************************************************************************)
(* The lists a client reads page by page: the public list of books         *)
(* (handlers/books/list.go) and the administrators' lists of books, users  *)
(* and audit entries (admin_list.go, admin/users.go, admin/audit.go).  A   *)
(* request passes the filter of query parameters (middlewares/hpp.go) and  *)
(* is then two statements, a count and a page of rows, each with a         *)
(* snapshot of its own.  All lists are newest first, and by nothing else.  *)
(*                                                                         *)
(* One client walks one list.  Items are numbered by created_at, but some  *)
(* have it in common, and each query lists those in any order it likes.    *)
(* One may be committed after a later one.                                 *)
(***************************************************************************)
EXTENDS Integers, FiniteSets

CONSTANTS
  MaxItem,       \* bound of the model: items 1 .. MaxItem
  MaxFailures,   \* bound of the model: requests of a walk that fail
  Matching,      \* the items a client's filter selects
  Ties,          \* sets of items with the same created_at
  Asked,         \* limits and sizes a client may ask for, or Absent
  AskedFilters,  \* the filters it may ask for
  Offsets,       \* where a walk of the public list may begin
  DefaultLimit, MaxLimit, MaxOffset,  \* 20, 100, 100000: the public list
  DefaultSize, MaxSize,               \* 25, and 100 or 200: the others
  Absent

Items == 1 .. MaxItem

VARIABLES
  items,  \* what the list holds
  ever,   \* what it has ever held
  walk    \* the client

listVars == <<items, ever, walk>>

-----------------------------------------------------------------------------
(* Mutant: the offset is not let through. *)
Whitelist_NoOffset == {"page", "limit", "q", "category", "author", "sort", "order"}

(* Mutant: the public list's filter is not let through. *)
Whitelist_NoQ == {"page", "limit", "offset", "category", "author", "sort", "order"}

(* DefaultHPPOptions, as far as a list reads them: the rest of its names    *)
(* belong to other handlers or to none.                                     *)
Whitelist == {"page", "limit", "offset", "q", "category", "author", "sort", "order"}

(* filterQueryParams: a parameter not listed reads as absent. *)
Arrives(param) == param \in Whitelist

ListNames == {"books", "admin/books", "admin/users", "admin/audit"}

(* The filters the handlers read. *)
Filters(list) ==
  CASE list = "books"       -> {"q", "author", "category"}
    [] list = "admin/books" -> {"query", "author", "category"}
    [] list = "admin/users" -> {"query", "role", "verified", "status"}
    [] list = "admin/audit" -> {"actor_id", "target_id", "action", "since", "until"}

ASSUME ListsAssumption ==
  /\ MaxItem \in Nat /\ MaxFailures \in Nat
  /\ Matching \subseteq Items
  /\ Ties \subseteq SUBSET Items
  /\ \A tie \in Ties : \A i, j \in tie : i .. j \subseteq tie
  /\ \A tie, other \in Ties : tie = other \/ tie \cap other = {}
  /\ Asked \subseteq Int \cup {Absent} /\ Absent \notin Int /\ Offsets \subseteq Nat
  /\ MaxLimit \in Nat \ {0} /\ DefaultLimit \in 1 .. MaxLimit /\ MaxOffset \in Nat
  /\ MaxSize \in Nat \ {0} /\ DefaultSize \in 1 .. MaxSize
  /\ \A list \in ListNames : Absent \notin Filters(list)

(* Mutant: nothing is too little. *)
Clamp_NoFloor(n, lo, hi) == IF n > hi THEN hi ELSE n

Clamp(n, lo, hi) == IF n < lo THEN lo ELSE IF n > hi THEN hi ELSE n

(* What a page holds: the public list takes the nearest limit there is, the *)
(* others their default for one out of range.                               *)
Size(w) ==
  IF w.list = "books"
  THEN IF w.asked = Absent \/ ~Arrives("limit") THEN DefaultLimit
       ELSE Clamp(w.asked, 1, MaxLimit)
  ELSE IF Arrives("size") /\ w.asked \in 1 .. MaxSize THEN w.asked ELSE DefaultSize

(* Mutant: pages are counted from one. *)
Start_PageFromOne(w) ==
  IF w.list = "books"
  THEN LET o == IF Arrives("offset") THEN Clamp(w.at, 0, MaxOffset) ELSE 0
       IN  (o \div Size(w) + 1) * Size(w)
  ELSE IF Arrives("page") THEN w.at ELSE 0

(* The rows a page skips.  The public list is asked for an offset and gives *)
(* the page that offset is on; the others are asked for a page, and `at` is *)
(* then the rows of the pages before it.                                    *)
Start(w) ==
  IF w.list = "books"
  THEN LET o == IF Arrives("offset") THEN Clamp(w.at, 0, MaxOffset) ELSE 0
       IN  (o \div Size(w)) * Size(w)
  ELSE IF Arrives("page") THEN w.at ELSE 0

Selects(w) == w.filter # Absent /\ Arrives(w.filter)

(* created_at is greater, ... *)
Later(i, j) == i > j /\ \A tie \in Ties : ~({i, j} \subseteq tie)

(* ... or may be the same as that of another item. *)
Tied == UNION Ties

(* The rows of the query, and how many are sure to be listed before one. *)
Rows(w) == IF Selects(w) THEN items \cap Matching ELSE items
Before(i, w) == Cardinality({j \in Rows(w) : Later(j, i)})

(* What the first n rows may be: ORDER BY created_at DESC puts no row before *)
(* a later one.                                                             *)
Heads(n, w) ==
  {head \in SUBSET Rows(w) :
     /\ Cardinality(head) = IF n < Cardinality(Rows(w)) THEN n ELSE Cardinality(Rows(w))
     /\ \A i \in head, j \in Rows(w) \ head : ~Later(j, i)}

(* Mutant: one row more than LIMIT. *)
Pages_OneMore(w) ==
  LET cuts == Heads(Start(w), w) \X Heads(Start(w) + Size(w) + 1, w)
  IN  {cut[2] \ cut[1] : cut \in {c \in cuts : c[1] \subseteq c[2]}}

(* The pages LIMIT and OFFSET may give. *)
Pages(w) ==
  LET cuts == Heads(Start(w), w) \X Heads(Start(w) + Size(w), w)
  IN  {cut[2] \ cut[1] : cut \in {c \in cuts : c[1] \subseteq c[2]}}

-----------------------------------------------------------------------------
(* `at`: how far the client has got; `stop`: whether it ends its walk at a  *)
(* page that is not full or where the total says so; then history: what was *)
(* there from the beginning of the walk on and is still to be seen, what    *)
(* was shown, and whether something was shown twice that is not tied;       *)
(* whether something was deleted or inserted ahead of the place the client  *)
(* has got to, and whether something was inserted between the two           *)
(* statements of a request.                                                 *)
NoWalk == [pc |-> "idle", list |-> "books", filter |-> Absent, asked |-> Absent, stop |-> "short",
           at |-> 0, total |-> 0, failures |-> 0, awaited |-> {}, seen |-> {}, twice |-> FALSE,
           pulled |-> FALSE, pushed |-> FALSE, slipped |-> FALSE]

ListInit ==
  /\ items \in SUBSET Items
  /\ ever = items
  /\ walk = NoWalk

Begin(list, filter, asked, stop, at) ==
  LET w == [NoWalk EXCEPT !.pc = "count", !.list = list, !.filter = filter,
                          !.asked = asked, !.stop = stop, !.at = at]
  IN  /\ walk.pc = "idle"
      /\ walk' = [w EXCEPT !.awaited = {i \in (IF filter = Absent THEN items
                                               ELSE items \cap Matching) :
                                          Before(i, w) >= at}]
      /\ UNCHANGED <<items, ever>>

(* SELECT COUNT *)
Count ==
  /\ walk.pc = "count"
  /\ walk' = [walk EXCEPT !.pc = "rows", !.total = Cardinality(Rows(walk)), !.slipped = FALSE]
  /\ UNCHANGED <<items, ever>>

(* The answer tells the size of the page, by which the client goes on. *)
Ends(w, page) ==
  IF w.stop = "short" THEN Cardinality(page) < Size(w) ELSE w.at + Size(w) >= w.total

(* SELECT ... ORDER BY created_at DESC LIMIT OFFSET, and the answer. *)
Fetch(page) ==
  /\ walk.pc = "rows"
  /\ walk' = [walk EXCEPT !.pc = IF Ends(walk, page) THEN "done" ELSE "count",
                          !.at = IF Ends(walk, page) \/ @ > MaxOffset THEN @
                                 ELSE @ + Size(walk),
                          !.awaited = @ \ page,
                          !.twice = @ \/ (page \cap walk.seen) \ Tied # {},
                          !.seen = @ \cup page]
  /\ UNCHANGED <<items, ever>>

(* One of the statements fails, or the request is refused on its way; the   *)
(* client asks again.                                                       *)
AskAgain ==
  /\ walk.pc \in {"count", "rows"}
  /\ walk.failures < MaxFailures
  /\ walk' = [walk EXCEPT !.pc = "count", !.failures = @ + 1]
  /\ UNCHANGED <<items, ever>>

Leave ==
  /\ walk.pc = "done"
  /\ walk' = NoWalk
  /\ UNCHANGED <<items, ever>>

(* Somebody else's transaction: an item is inserted ... *)
Insert(i) ==
  /\ i \notin ever
  /\ items' = items \cup {i} /\ ever' = ever \cup {i}
  /\ walk' = IF walk.pc \notin {"count", "rows"} THEN walk
             ELSE [walk EXCEPT !.pushed = @ \/ Before(i, walk) < Start(walk),
                               !.slipped = walk.pc = "rows"]

(* ... or a book is deleted; users and audit entries never are. *)
Delete(i) ==
  /\ i \in items
  /\ items' = items \ {i} /\ ever' = ever
  /\ walk' = [walk EXCEPT !.pulled = @ \/ (walk.pc # "done" /\ Before(i, walk) < Start(walk)),
                          !.awaited = @ \ {i}]
  /\ walk.list \in {"books", "admin/books"}

ListNext ==
  \/ \E list \in ListNames, asked \in Asked, stop \in {"short", "total"} :
       \E filter \in (Filters(list) \cap AskedFilters) \cup {Absent} :
         \E at \in IF list = "books" THEN Offsets ELSE {0} :
           Begin(list, filter, asked, stop, at)
  \/ \E page \in Pages(walk) : Fetch(page)
  \/ Count \/ AskAgain \/ Leave
  \/ \E i \in Items : Insert(i) \/ Delete(i)

ListSpec == ListInit /\ [][ListNext]_listVars

-----------------------------------------------------------------------------
(* Types; a page holds something, and Start divides by it (list.go:41).      *)
ListTypeOK ==
  /\ Size(walk) \in 1 .. IF walk.list = "books" THEN MaxLimit ELSE MaxSize
  /\ items \subseteq ever /\ ever \subseteq Items
  /\ walk.pc \in {"idle", "count", "rows", "done"}
  /\ walk.awaited \subseteq items /\ walk.seen \subseteq ever
  /\ walk.total <= MaxItem /\ walk.awaited \cap walk.seen = {}
  /\ walk.failures <= MaxFailures

Reached == walk.at <= MaxOffset
OnGrid == walk.at % Size(walk) = 0

(* Whoever walks a list to its end has seen everything that was there all   *)
(* the time and shares its created_at with nothing, whatever came in        *)
(* meanwhile, if nothing ahead of them was deleted and no offset was beyond *)
(* the greatest.  Who goes by the total needs more: that nothing came in    *)
(* between its count and the rows of the last page, and an offset that is a *)
(* page's (list.go:41 rounds others down, and tells the client the one it   *)
(* asked for).                                                              *)
NothingMissed ==
  (walk.pc = "done" /\ Reached /\ ~walk.pulled
     /\ (walk.stop = "total" => ~walk.slipped /\ OnGrid))
    => walk.awaited \subseteq Tied

(* Nothing that shares its created_at with nothing is shown twice on a walk *)
(* unless something came in ahead of it, and nothing that the filter does   *)
(* not select, in the public list.  (Of the administrators' filters author  *)
(* and category get through hpp.go; their lists show everything to whoever  *)
(* asked for another.)                                                      *)
ShownRight ==
  /\ (walk.twice /\ Reached) => walk.pushed
  /\ walk.filter \in {"q", "author", "category"} => walk.seen \subseteq Matching
=============================================================================
