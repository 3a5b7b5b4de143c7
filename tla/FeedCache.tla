----------------------------- MODULE FeedCache -----------------------------
(***************************************************************************)
(* The cache of the /for-you feed (store/foryou/build.go, cache.go): the   *)
(* sections of a feed are kept in Redis under a version, fy:ver, which an  *)
(* administrator's change of a book raises after its commit.  Old sections *)
(* are not deleted: nobody asks for them under the new version.            *)
(*                                                                         *)
(* The catalogue is known by the number of changes committed to it, and a  *)
(* section by the catalogue it was read from.  Whether that is all of it   *)
(* is not told: nobody asks rows.Err, so a result set that breaks off      *)
(* counts as whole, here and in the code.  A Build is a sequence of        *)
(* calls: the version, a look for every section, the queries of those not  *)
(* found, one pipeline of SETEX.  Keys also carry the day and the client's *)
(* options; the model follows one value of these.                          *)
(***************************************************************************)
EXTENDS Integers

CONSTANTS
  Requests,    \* places for feeds being built
  Writers,     \* places for changes of books
  Lists,       \* the sections other than the shorts: trending, new, ...
  MaxChanges,  \* bound of the model: changes committed
  MaxLosses,   \* bound of the model: restarts of Redis
  None

ASSUME FeedCacheAssumption ==
  /\ MaxChanges \in Nat /\ MaxLosses \in Nat
  /\ "shorts" \notin Lists
  /\ None \notin Int

Sections == Lists \cup {"shorts"}
Versions == 1 .. MaxChanges + 1

VARIABLES
  changes,  \* changes committed: the catalogue as it is
  bumping,  \* those of Writers that committed and have yet to call BumpVersion
  ver,      \* fy:ver, 0 when there is no such key
  cache,    \* fy:v<version>:<section>: what it shows, or None
  req,      \* feeds being built
  bumped,   \* history: the changes committed when a version was made
  losses,   \* restarts of Redis
  strayed   \* history: one came while a feed was being built

vars == <<changes, bumping, ver, cache, req, bumped, losses, strayed>>

(* What a section shows: the catalogue it was read from; nothing, because   *)
(* of an error.                                                             *)
Failed == -1
Contents == 0 .. MaxChanges \cup {Failed}
NoSections == [s \in Sections |-> None]

(* `under`: the version read; `left`: sections not looked for yet; `shows`: *)
(* the sections so far; `staged`: those to store.  History: `misread`,      *)
(* whether the version could not be read; `since`, the last change bumped   *)
(* when it was.                                                             *)
Idle == [pc |-> "idle", under |-> 1, left |-> Sections, shows |-> NoSections, staged |-> {},
         misread |-> FALSE, since |-> 0]

Feeds ==
  [pc : {"idle", "build", "done"}, under : Versions, left : SUBSET Sections,
   shows : [Sections -> Contents \cup {None}], staged : SUBSET Sections,
   misread : BOOLEAN, since : 0 .. MaxChanges]

Init ==
  /\ changes = 0 /\ bumping = {}
  /\ ver = 0
  /\ cache = [v \in Versions |-> NoSections]
  /\ req = [r \in Requests |-> Idle]
  /\ bumped = [v \in Versions |-> 0]
  /\ losses = 0 /\ strayed = FALSE

-----------------------------------------------------------------------------
(* AdminPut, AdminPatch, AdminDelete, AdminCreate: the change is            *)
(* committed ...                                                            *)
Commit(w) ==
  /\ w \notin bumping
  /\ changes < MaxChanges
  /\ changes' = changes + 1
  /\ bumping' = bumping \cup {w}
  /\ UNCHANGED <<ver, cache, req, bumped, losses, strayed>>

(* ... and BumpVersion is called: INCR.  A first one makes the version that *)
(* was read before there was any.                                           *)
Bump(w) ==
  /\ w \in bumping
  /\ bumping' = bumping \ {w}
  /\ ver' = ver + 1
  /\ bumped' = IF ver = 0 THEN bumped ELSE [bumped EXCEPT ![ver + 1] = changes]
  /\ UNCHANGED <<changes, cache, req, losses, strayed>>

(* Its error is ignored; or the process ends before the call; AdminCreate   *)
(* makes none.                                                              *)
BumpFails(w) ==
  /\ w \in bumping
  /\ bumping' = bumping \ {w}
  /\ UNCHANGED <<changes, ver, cache, req, bumped, losses, strayed>>

(* Mutant: a missing version reads as one past the first.                   *)
Current_MissingIsTwo == IF ver = 0 THEN 2 ELSE ver

(* newCache: a missing version reads as 1, which is also what the first     *)
(* INCR makes of it.                                                        *)
Current == IF ver = 0 THEN 1 ELSE ver

(* newCache: the version, with which all keys of this feed begin, and 1 if  *)
(* Redis does not answer.                                                   *)
Start(r) ==
  /\ req[r].pc = "idle"
  /\ \E misread \in BOOLEAN :
       req' = [req EXCEPT ![r] = [Idle EXCEPT !.pc = "build", !.misread = misread,
                                  !.under = IF misread THEN 1 ELSE Current,
                                  !.since = bumped[Current]]]
  /\ UNCHANGED <<changes, bumping, ver, cache, bumped, losses, strayed>>

(* An MGET, which finds the section, or does not, or fails.  Recs are       *)
(* looked for by the shorts they go with.                                   *)
Look(r, s) ==
  /\ req[r].pc = "build" /\ s \in req[r].left
  /\ s = "recs" => req[r].shows["shorts"] # None
  /\ \E found \in {cache[req[r].under][s], None} :
       req' = [req EXCEPT ![r].left = @ \ {s}, ![r].shows[s] = found]
  /\ UNCHANGED <<changes, bumping, ver, cache, bumped, losses, strayed>>

(* Looked for and not found. *)
Missing(r, s) == req[r].pc = "build" /\ s \notin req[r].left /\ req[r].shows[s] = None

(* BuildShorts: an error shows no shorts, and is staged like an answer.     *)
ShortsBuilt(r) ==
  /\ Missing(r, "shorts")
  /\ \E content \in {changes, Failed} :
       req' = [req EXCEPT ![r].shows["shorts"] = content, ![r].staged = @ \cup {"shorts"}]
  /\ UNCHANGED <<changes, bumping, ver, cache, bumped, losses, strayed>>

(* BuildTrending and the others: if the query fails, the section shows      *)
(* nothing and is not staged.                                               *)
ListBuilt(r, s) ==
  /\ Missing(r, s)
  /\ \/ req' = [req EXCEPT ![r].shows[s] = changes, ![r].staged = @ \cup {s}]
     \/ req' = [req EXCEPT ![r].shows[s] = Failed]
  /\ UNCHANGED <<changes, bumping, ver, cache, bumped, losses, strayed>>

(* What the pipeline stores under a version: any part of it, for it may     *)
(* fail half-way.                                                           *)
Stored(r, v) ==
  \E kept \in SUBSET req[r].staged :
    cache' = [cache EXCEPT ![v] = [s \in Sections |-> IF s \in kept THEN req[r].shows[s]
                                                      ELSE @[s]]]

(* Mutant: the version is read again for the keys to store.                 *)
Store_Rekeyed(r) ==
  /\ req[r].pc = "build"
  /\ \A s \in Sections : req[r].shows[s] # None
  /\ Stored(r, Current)
  /\ req' = [req EXCEPT ![r].pc = "done"]
  /\ UNCHANGED <<changes, bumping, ver, bumped, losses, strayed>>

(* setPipeline, and the answer.                                             *)
Store(r) ==
  /\ req[r].pc = "build"
  /\ \A s \in Sections : req[r].shows[s] # None
  /\ Stored(r, req[r].under)
  /\ req' = [req EXCEPT ![r].pc = "done"]
  /\ UNCHANGED <<changes, bumping, ver, bumped, losses, strayed>>

(* The request is over, answered or not.                                    *)
Leave(r) ==
  /\ req[r].pc # "idle"
  /\ req' = [req EXCEPT ![r] = Idle]
  /\ UNCHANGED <<changes, bumping, ver, cache, bumped, losses, strayed>>

(* A section's two hours have passed.                                       *)
Expire(v, s) ==
  /\ cache[v][s] # None
  /\ cache' = [cache EXCEPT ![v][s] = None]
  /\ UNCHANGED <<changes, bumping, ver, req, bumped, losses, strayed>>

(* Redis restarts empty, and versions begin again.                          *)
Lose ==
  /\ losses < MaxLosses
  /\ losses' = losses + 1
  /\ ver' = 0
  /\ cache' = [v \in Versions |-> NoSections]
  /\ bumped' = [v \in Versions |-> 0]
  /\ strayed' = (strayed \/ \E r \in Requests : req[r].pc = "build" /\ req[r].under > 1)
  /\ UNCHANGED <<changes, bumping, req>>

Build(r) ==
  \/ Start(r) \/ ShortsBuilt(r) \/ Store(r) \/ Leave(r)
  \/ \E s \in Sections : Look(r, s)
  \/ \E s \in Lists : ListBuilt(r, s)

Next ==
  \/ \E w \in Writers : Commit(w) \/ Bump(w) \/ BumpFails(w)
  \/ \E r \in Requests : Build(r)
  \/ \E v \in Versions, s \in Sections : Expire(v, s)
  \/ Lose

Spec == Init /\ [][Next]_vars

-----------------------------------------------------------------------------
TypeOK ==
  /\ changes \in 0 .. MaxChanges /\ bumping \subseteq Writers
  /\ ver \in 0 .. MaxChanges
  /\ cache \in [Versions -> [Sections -> Contents \cup {None}]]
  /\ req \in [Requests -> Feeds]
  /\ bumped \in [Versions -> 0 .. MaxChanges]
  /\ losses \in 0 .. MaxLosses /\ strayed \in BOOLEAN

(* A feed shows no section of a catalogue older than the last change that   *)
(* was bumped when it asked for the version, whatever was built, stored and *)
(* bumped meanwhile (build.go:66 reads the version, :277 stores).  Three    *)
(* cases are excepted by the meaning of `since`, `misread` and `strayed`:   *)
(* the first bump there ever is, which makes the version feeds were stored  *)
(* under before (cache.go:73, :173); a version that could not be read,      *)
(* which is taken for the first (:77); and a feed that Redis was restarted  *)
(* under, which stores what it has under a version yet to come again.       *)
FreshFeed ==
  \A r \in Requests :
    (req[r].pc = "done" /\ ~req[r].misread /\ ~strayed) =>
      \A s \in Sections : req[r].shows[s] = Failed \/ req[r].shows[s] >= req[r].since

(* What is stored is of a version that is or was, so that a bump begins     *)
(* with nothing stored, and no section but the shorts (build.go:154) is     *)
(* stored as empty because its query failed.                                *)
CacheSound ==
  \A v \in Versions, s \in Sections :
    (cache[v][s] # None /\ ~strayed) => v <= Current /\ (cache[v][s] = Failed => s = "shorts")
=============================================================================
