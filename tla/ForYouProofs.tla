---------------------------- MODULE ForYouProofs ----------------------------
(***************************************************************************)
(* Theorems about the for-you feed: FeedCache, for any number of feeds     *)
(* being built at the same time, of changes, sections and restarts of      *)
(* Redis; and, in its second half, DailyShorts, for any number of          *)
(* requests, books, picks a day and any cooldown.                          *)
(***************************************************************************)
EXTENDS FeedCache, DailyShorts, FiniteSetTheorems, TLAPS

(* No version without a change of its own. *)
Counted == ver + Cardinality(bumping) <= changes

(* A version was made after changes that are committed, the first after     *)
(* none.                                                                    *)
Made == bumped[1] = 0 /\ \A v \in Versions : bumped[v] <= changes

(* What a version asks of a section. *)
Fits(content, v) == content = Failed \/ content >= bumped[v]

(* What is stored fits its version, which is one there is or was. *)
StoreFits ==
  \A v \in Versions, s \in Sections :
    (cache[v][s] # None /\ ~strayed) =>
      v <= Current /\ Fits(cache[v][s], v) /\ (cache[v][s] = Failed => s = "shorts")

(* A feed being built, as far as it is. *)
BuildFits(r) ==
  (req[r].pc = "build" /\ ~strayed) =>
    /\ req[r].under <= Current
    /\ ~req[r].misread => req[r].since <= bumped[req[r].under]
    /\ \A s \in Sections : req[r].shows[s] # None => Fits(req[r].shows[s], req[r].under)
    /\ \A s \in req[r].left : req[r].shows[s] = None
    /\ \A s \in req[r].staged : req[r].shows[s] # None /\ (req[r].shows[s] = Failed => s = "shorts")

IInv ==
  /\ TypeOK /\ Counted /\ Made /\ StoreFits /\ FreshFeed
  /\ \A r \in Requests : BuildFits(r)

-----------------------------------------------------------------------------
LEMMA InitInv == ASSUME IsFiniteSet(Writers) PROVE Init => IInv
<1> SUFFICES ASSUME Init PROVE IInv
  OBVIOUS
<1> USE FeedCacheAssumption DEF Feeds
<1>1. TypeOK
  <2>1. 1 \in Versions /\ 0 \in 0 .. MaxChanges
    BY DEF Versions
  <2>2. NoSections \in [Sections -> Contents \cup {None}]
    BY DEF NoSections
  <2>3. Idle \in Feeds
    BY <2>1, <2>2 DEF Idle
  <2>4. cache \in [Versions -> [Sections -> Contents \cup {None}]]
    BY <2>2 DEF Init
  <2>5. req \in [Requests -> Feeds]
    BY <2>3 DEF Init
  <2>6. bumped \in [Versions -> 0 .. MaxChanges]
    BY <2>1 DEF Init
  <2>7. 0 \in 0 .. MaxLosses
    OBVIOUS
  <2> QED
    BY <2>1, <2>4, <2>5, <2>6, <2>7 DEF Init, TypeOK
<1>2. Counted
  BY FS_EmptySet DEF Init, Counted
<1>3. Made /\ StoreFits /\ FreshFeed /\ \A r \in Requests : BuildFits(r)
  BY DEF Init, Made, StoreFits, FreshFeed, BuildFits, Idle, NoSections, Versions, Sections
<1> QED
  BY <1>1, <1>2, <1>3 DEF IInv

(* The counts of those that have yet to bump. *)
LEMMA Bumping ==
  ASSUME IsFiniteSet(Writers), TypeOK, NEW w \in Writers
  PROVE  /\ Cardinality(bumping) \in Nat
         /\ w \notin bumping => Cardinality(bumping \cup {w}) = Cardinality(bumping) + 1
         /\ w \in bumping => /\ Cardinality(bumping \ {w}) = Cardinality(bumping) - 1
                            /\ Cardinality(bumping \ {w}) \in Nat
<1>1. IsFiniteSet(bumping)
  BY FS_Subset DEF TypeOK
<1>2. IsFiniteSet(bumping \ {w})
  BY <1>1, FS_RemoveElement
<1> QED
  BY <1>1, <1>2, FS_AddElement, FS_RemoveElement, FS_CardinalityType

(* A change and its bump: the version a bump makes has nothing stored.      *)
LEMMA WriterStep ==
  ASSUME IsFiniteSet(Writers), IInv,
         NEW w \in Writers, Commit(w) \/ Bump(w) \/ BumpFails(w)
  PROVE  IInv'
<1> USE FeedCacheAssumption DEF Feeds
<1>0. TypeOK /\ Counted /\ Made /\ StoreFits /\ FreshFeed /\ \A r \in Requests : BuildFits(r)
  BY DEF IInv
<1>1. CASE Commit(w)
  <2>1. /\ changes' = changes + 1 /\ changes' \in 0 .. MaxChanges
        /\ UNCHANGED <<ver, cache, req, bumped, losses, strayed>>
        /\ bumping' = bumping \cup {w} /\ w \notin bumping
    BY <1>0, <1>1 DEF Commit, TypeOK
  <2>2. TypeOK'
    BY <1>0, <2>1 DEF TypeOK, Contents
  <2>3. Counted'
    BY <1>0, <2>1, Bumping DEF Counted, TypeOK
  <2>4. Made'
    BY <1>0, <2>1 DEF Made, TypeOK
  <2>5. StoreFits' /\ FreshFeed' /\ \A r \in Requests : BuildFits(r)'
    BY <1>0, <2>1 DEF StoreFits, FreshFeed, BuildFits, Fits, Current
  <2> QED
    BY <2>2, <2>3, <2>4, <2>5 DEF IInv
<1>2. CASE BumpFails(w)
  <2>1. /\ bumping' = bumping \ {w} /\ w \in bumping
        /\ UNCHANGED <<changes, ver, cache, req, bumped, losses, strayed>>
    BY <1>2 DEF BumpFails
  <2>2. TypeOK'
    BY <1>0, <2>1 DEF TypeOK
  <2>3. Counted'
    BY <1>0, <2>1, Bumping DEF Counted, TypeOK
  <2>4. Made' /\ StoreFits' /\ FreshFeed' /\ \A r \in Requests : BuildFits(r)'
    BY <1>0, <2>1 DEF Made, StoreFits, FreshFeed, BuildFits, Fits, Current
  <2> QED
    BY <2>2, <2>3, <2>4 DEF IInv
<1>3. CASE Bump(w)
  <2>1. /\ bumping' = bumping \ {w} /\ w \in bumping /\ ver' = ver + 1
        /\ UNCHANGED <<changes, cache, req, losses, strayed>>
        /\ bumped' = IF ver = 0 THEN bumped ELSE [bumped EXCEPT ![ver + 1] = changes]
    BY <1>3 DEF Bump
  <2>2. ver \in 0 .. MaxChanges /\ ver + 1 <= changes /\ changes \in 0 .. MaxChanges
    <3>1. ver \in 0 .. MaxChanges /\ changes \in 0 .. MaxChanges
      BY <1>0 DEF TypeOK
    <3>2. Cardinality(bumping) \in Nat /\ Cardinality(bumping) - 1 \in Nat
      BY <1>0, <2>1, Bumping
    <3> QED
      BY <1>0, <3>1, <3>2 DEF Counted
  <2>3. /\ ver' \in 0 .. MaxChanges /\ Current \in Versions /\ Current <= Current'
        /\ ver + 1 \in Versions /\ 1 \in Versions
    BY <2>1, <2>2 DEF Current, Versions
  <2>4. TypeOK'
    BY <1>0, <2>1, <2>2, <2>3 DEF TypeOK
  <2>5. Counted'
    BY <1>0, <2>1, Bumping DEF Counted, TypeOK
  <2>6. Made'
    BY <1>0, <2>1, <2>2, <2>3 DEF Made, TypeOK
  <2>7. \A v \in Versions : v <= Current => bumped'[v] = bumped[v]
    BY <1>0, <2>1, <2>2, <2>3 DEF Current, TypeOK, Versions
  <2>8. Current \in Int /\ Current' \in Int /\ Versions \subseteq Int
    BY <2>1, <2>2 DEF Current, Versions
  <2>9. StoreFits'
    BY <1>0, <2>1, <2>3, <2>7, <2>8 DEF StoreFits, Fits
  <2>10. \A r \in Requests : BuildFits(r)'
    <3> SUFFICES ASSUME NEW r \in Requests, req[r].pc = "build", ~strayed
                 PROVE  BuildFits(r)'
      BY <2>1 DEF BuildFits
    <3>1. req[r].under \in Versions
      BY <1>0 DEF TypeOK
    <3>2. BuildFits(r) /\ req[r].under <= Current
      BY <1>0 DEF BuildFits
    <3>3. bumped'[req[r].under] = bumped[req[r].under]
      BY <2>7, <3>1, <3>2
    <3>4. req[r].under <= Current'
      <4>1. req[r].under \in Int /\ Current \in Int /\ Current' \in Int
        BY <2>8, <3>1
      <4> QED
        BY <2>3, <3>2, <4>1
    <3> QED
      BY <2>1, <3>2, <3>3, <3>4 DEF BuildFits, Fits
  <2>11. FreshFeed'
    BY <1>0, <2>1 DEF FreshFeed
  <2> QED
    BY <2>4, <2>5, <2>6, <2>9, <2>10, <2>11 DEF IInv
<1> QED
  BY <1>1, <1>2, <1>3

(* A feed's own steps other than Store: they touch nothing but the feed.    *)
LEMMA BuildStep ==
  ASSUME IsFiniteSet(Writers), IInv, NEW r \in Requests, Build(r), ~Store(r)
  PROVE  IInv'
<1> USE FeedCacheAssumption DEF Feeds
<1>0. TypeOK /\ Counted /\ Made /\ StoreFits /\ FreshFeed /\ \A q \in Requests : BuildFits(q)
  BY DEF IInv
<1>1. /\ UNCHANGED <<changes, bumping, ver, cache, bumped, losses, strayed>>
      /\ \E q : req' = [req EXCEPT ![r] = q]
  <2>1. CASE \E s \in Sections : Look(r, s)
    BY <2>1 DEF Look
  <2>2. CASE \E s \in Lists : ListBuilt(r, s)
    BY <2>2 DEF ListBuilt
  <2>3. CASE Start(r) \/ ShortsBuilt(r) \/ Leave(r)
    BY <2>3 DEF Start, ShortsBuilt, Leave
  <2> QED
    BY <2>1, <2>2, <2>3 DEF Build
<1>2. /\ Counted' /\ Made' /\ StoreFits'
  BY <1>0, <1>1 DEF Counted, Made, StoreFits, Fits, Current
<1>3. /\ Current \in Versions /\ bumped[Current] \in 0 .. MaxChanges
      /\ changes \in 0 .. MaxChanges /\ 1 \in Versions
      /\ changes \in Contents /\ Failed \in Contents
  BY <1>0 DEF TypeOK, Current, Versions, Contents
<1>4. req'[r] \in Feeds
  <2>0. req \in [Requests -> Feeds]
    BY <1>0 DEF TypeOK
  <2>1. ASSUME NEW s \in Sections, Look(r, s) PROVE req'[r] \in Feeds
    <3>1. cache[req[r].under][s] \in Contents \cup {None}
      BY <1>0, <2>0 DEF TypeOK
    <3>2. PICK found \in Contents \cup {None} :
            req' = [req EXCEPT ![r].left = @ \ {s}, ![r].shows[s] = found]
      BY <2>1, <3>1 DEF Look
    <3>3. req'[r] = [req[r] EXCEPT !.left = req[r].left \ {s},
                                   !.shows = [req[r].shows EXCEPT ![s] = found]]
      BY <2>0, <3>2
    <3>4. /\ [req[r].shows EXCEPT ![s] = found] \in [Sections -> Contents \cup {None}]
          /\ req[r].left \ {s} \in SUBSET Sections /\ req[r] \in Feeds
      BY <2>0, <3>2
    <3> QED
      BY <3>3, <3>4
  <2>2. ASSUME NEW s \in Lists, ListBuilt(r, s) PROVE req'[r] \in Feeds
    <3>1. s \in Sections
      BY DEF Sections
    <3>2. \/ req'[r] = [req[r] EXCEPT !.shows = [req[r].shows EXCEPT ![s] = changes],
                                      !.staged = req[r].staged \cup {s}]
          \/ req'[r] = [req[r] EXCEPT !.shows = [req[r].shows EXCEPT ![s] = Failed]]
      BY <2>0, <2>2 DEF ListBuilt
    <3>3. /\ \A c \in {changes, Failed} :
               [req[r].shows EXCEPT ![s] = c] \in [Sections -> Contents \cup {None}]
          /\ req[r].staged \cup {s} \in SUBSET Sections /\ req[r] \in Feeds
      BY <1>3, <2>0, <3>1
    <3> QED
      BY <3>2, <3>3
  <2>3. CASE Start(r) \/ Leave(r)
    <3>1. Idle \in Feeds
      BY <1>3 DEF Idle, NoSections
    <3>2. CASE Leave(r)
      BY <2>0, <3>1, <3>2 DEF Leave
    <3>3. CASE Start(r)
      <4>1. PICK misread \in BOOLEAN :
              req' = [req EXCEPT ![r] = [Idle EXCEPT !.pc = "build", !.misread = misread,
                                         !.under = IF misread THEN 1 ELSE Current,
                                         !.since = bumped[Current]]]
        BY <3>3 DEF Start
      <4>2. req'[r] = [Idle EXCEPT !.pc = "build", !.misread = misread,
                                   !.under = IF misread THEN 1 ELSE Current,
                                   !.since = bumped[Current]]
        BY <2>0, <4>1
      <4> QED
        BY <1>3, <3>1, <4>2
    <3> QED
      BY <2>3, <3>2, <3>3
  <2>4. CASE ShortsBuilt(r)
    <3>1. "shorts" \in Sections
      BY DEF Sections
    <3>2. \E content \in Contents :
            req'[r] = [req[r] EXCEPT !.shows = [req[r].shows EXCEPT !["shorts"] = content],
                                     !.staged = req[r].staged \cup {"shorts"}]
      BY <1>3, <2>0, <2>4 DEF ShortsBuilt
    <3>3. /\ \A c \in Contents :
               [req[r].shows EXCEPT !["shorts"] = c] \in [Sections -> Contents \cup {None}]
          /\ req[r].staged \cup {"shorts"} \in SUBSET Sections /\ req[r] \in Feeds
      BY <2>0, <3>1
    <3>4. PICK content \in Contents :
            req'[r] = [req[r] EXCEPT !.shows = [req[r].shows EXCEPT !["shorts"] = content],
                                     !.staged = req[r].staged \cup {"shorts"}]
      BY <3>2
    <3>5. [req[r].shows EXCEPT !["shorts"] = content] \in [Sections -> Contents \cup {None}]
      BY <3>3
    <3> QED
      BY <3>3, <3>4, <3>5
  <2> QED
    BY <2>1, <2>2, <2>3, <2>4 DEF Build
<1>5. TypeOK'
  BY <1>0, <1>1, <1>4 DEF TypeOK
<1>6. BuildFits(r)'
  <2>0. req \in [Requests -> Feeds]
    BY <1>0 DEF TypeOK
  <2>1. \A v \in Versions : bumped[v] \in 0 .. MaxChanges /\ bumped[v] <= changes
    BY <1>0 DEF TypeOK, Made
  <2>2. Fits(changes, req[r].under) /\ Fits(Failed, req[r].under)
    BY <1>3, <2>0, <2>1 DEF Fits
  <2>3. ASSUME NEW s \in Sections, Look(r, s) PROVE BuildFits(r)'
    <3>1. PICK found \in {cache[req[r].under][s], None} :
            req' = [req EXCEPT ![r].left = @ \ {s}, ![r].shows[s] = found]
      BY <2>3 DEF Look
    <3>2. /\ req'[r].shows = [req[r].shows EXCEPT ![s] = found]
          /\ req'[r].left = req[r].left \ {s} /\ s \in req[r].left
          /\ req'[r].pc = req[r].pc /\ req'[r].under = req[r].under
          /\ req'[r].misread = req[r].misread /\ req'[r].since = req[r].since
          /\ req'[r].staged = req[r].staged
      BY <2>0, <2>3, <3>1 DEF Look
    <3> SUFFICES ASSUME req[r].pc = "build", ~strayed PROVE BuildFits(r)'
      BY <1>1, <3>2 DEF BuildFits
    <3>3. found # None => Fits(found, req[r].under)
      BY <1>0, <2>0, <3>1 DEF StoreFits
    <3>4. s \notin req[r].staged
      BY <1>0, <3>2 DEF BuildFits
    <3> QED
      BY <1>0, <1>1, <2>0, <3>2, <3>3, <3>4 DEF BuildFits, Fits, Current
  <2>4. ASSUME NEW s \in Sections, NEW content \in {changes, Failed}, NEW staged,
               req' = [req EXCEPT ![r].shows[s] = content, ![r].staged = staged],
               req[r].shows[s] = None, s \notin req[r].left, req[r].pc = "build",
               staged \in {req[r].staged, req[r].staged \cup {s}},
               s \in staged => content # Failed \/ s = "shorts"
        PROVE  BuildFits(r)'
    <3>2. /\ req'[r].shows = [req[r].shows EXCEPT ![s] = content]
          /\ req'[r].pc = req[r].pc /\ req'[r].under = req[r].under
          /\ req'[r].misread = req[r].misread /\ req'[r].since = req[r].since
          /\ req'[r].staged = staged /\ req'[r].left = req[r].left
      BY <2>0, <2>4
    <3>3. content # None /\ Fits(content, req[r].under)
      <4>1. changes # None /\ Failed # None
        BY <1>3 DEF Failed
      <4> QED
        BY <2>2, <2>4, <4>1
    <3> QED
      BY <1>0, <1>1, <2>0, <2>4, <3>2, <3>3 DEF BuildFits, Fits, Current
  <2>5. CASE ShortsBuilt(r)
    <3>1. PICK content \in {changes, Failed} :
            req' = [req EXCEPT ![r].shows["shorts"] = content, ![r].staged = @ \cup {"shorts"}]
      BY <2>5 DEF ShortsBuilt
    <3>2. req' = [req EXCEPT ![r].shows["shorts"] = content,
                             ![r].staged = req[r].staged \cup {"shorts"}]
      BY <2>0, <3>1
    <3>3. /\ req[r].pc = "build" /\ "shorts" \in Sections
          /\ req[r].shows["shorts"] = None /\ "shorts" \notin req[r].left
      BY <2>5 DEF ShortsBuilt, Missing, Sections
    <3> QED
      BY <2>4, <3>2, <3>3
  <2>6. ASSUME NEW s \in Lists, ListBuilt(r, s) PROVE BuildFits(r)'
    <3>1. /\ s \in Sections /\ s # "shorts" /\ req[r].pc = "build"
          /\ req[r].shows[s] = None /\ s \notin req[r].left
      BY FeedCacheAssumption, <2>6 DEF Sections, ListBuilt, Missing
    <3>2. CASE req' = [req EXCEPT ![r].shows[s] = changes, ![r].staged = @ \cup {s}]
      <4>1. req' = [req EXCEPT ![r].shows[s] = changes,
                               ![r].staged = req[r].staged \cup {s}]
        BY <2>0, <3>2
      <4>2. changes # Failed
        BY <1>3 DEF Failed
      <4> QED
        BY <2>4, <3>1, <4>1, <4>2
    <3>3. CASE req' = [req EXCEPT ![r].shows[s] = Failed]
      <4>1. req' = [req EXCEPT ![r].shows[s] = Failed, ![r].staged = req[r].staged]
        BY <2>0, <3>3
      <4>2. strayed \/ s \notin req[r].staged
        BY <1>0, <3>1 DEF BuildFits
      <4>3. CASE strayed
        BY <1>1, <4>3 DEF BuildFits
      <4> QED
        BY <2>4, <3>1, <4>1, <4>2, <4>3
    <3> QED
      BY <2>6, <3>2, <3>3 DEF ListBuilt
  <2>7. CASE Start(r)
    <3>1. req'[r].pc = "build" /\ req'[r].shows = NoSections /\ req'[r].staged = {}
      BY <2>0, <2>7 DEF Start, Idle
    <3>2. req'[r].under \in {1, Current} /\ (~req'[r].misread => req'[r].under = Current)
      BY <2>0, <2>7 DEF Start, Idle
    <3>3. req'[r].since = bumped[Current]
      BY <2>0, <2>7 DEF Start, Idle
    <3>4. 1 <= Current
      BY <1>3 DEF Versions
    <3>5. bumped[Current] <= bumped[Current] /\ Current <= Current
      BY <1>3 DEF Versions
    <3>6. \A s \in Sections : req'[r].shows[s] = None
      BY <3>1 DEF NoSections
    <3>7. Current' = Current /\ bumped' = bumped
      BY <1>1 DEF Current
    <3>8. req'[r].under <= Current'
      BY <3>2, <3>4, <3>5, <3>7
    <3>9. ~req'[r].misread => req'[r].since <= bumped'[req'[r].under]
      BY <3>2, <3>3, <3>5, <3>7
    <3>10. req'[r].left \subseteq Sections
      BY <1>4
    <3> QED
      BY <3>1, <3>6, <3>8, <3>9, <3>10 DEF BuildFits
  <2>8. CASE Leave(r)
    BY <2>0, <2>8 DEF Leave, Idle, BuildFits
  <2> QED
    BY <2>3, <2>5, <2>6, <2>7, <2>8 DEF Build
<1>7. \A q \in Requests : BuildFits(q)'
  <2> SUFFICES ASSUME NEW q \in Requests, q # r PROVE BuildFits(q)'
    BY <1>6
  <2>1. req'[q] = req[q]
    BY <1>0, <1>1 DEF TypeOK
  <2> QED
    BY <1>0, <1>1, <2>1 DEF BuildFits, Fits, Current
<1>8. FreshFeed'
  <2> SUFFICES ASSUME NEW q \in Requests, req'[q].pc = "done"
               PROVE  req'[q] = req[q]
    BY <1>0, <1>1 DEF FreshFeed
  <2>1. CASE q # r
    BY <1>0, <1>1, <2>1 DEF TypeOK
  <2>2. CASE q = r
    <3>0. req \in [Requests -> Feeds]
      BY <1>0 DEF TypeOK
    <3>1. CASE Start(r) \/ Leave(r)
      <4>1. CASE Leave(r)
        BY <2>2, <3>0, <4>1 DEF Leave, Idle
      <4>2. CASE Start(r)
        <5>1. req'[r].pc = "build"
          BY <3>0, <4>2 DEF Start, Idle
        <5> QED
          BY <2>2, <5>1
      <4> QED
        BY <3>1, <4>1, <4>2
    <3>2. CASE ShortsBuilt(r) \/ (\E s \in Lists : ListBuilt(r, s)) \/ \E s \in Sections : Look(r, s)
      <4>1. req[r].pc = "build"
        BY <3>2 DEF ShortsBuilt, ListBuilt, Look, Missing
      <4>2. req'[r].pc = req[r].pc
        <5>1. CASE ShortsBuilt(r)
          BY <3>0, <5>1 DEF ShortsBuilt
        <5>2. ASSUME NEW s \in Lists, ListBuilt(r, s) PROVE req'[r].pc = req[r].pc
          BY <3>0, <5>2 DEF ListBuilt
        <5>3. ASSUME NEW s \in Sections, Look(r, s) PROVE req'[r].pc = req[r].pc
          BY <3>0, <5>3 DEF Look
        <5> QED
          BY <3>2, <5>1, <5>2, <5>3
      <4> QED
        BY <2>2, <4>1, <4>2
    <3> QED
      BY <3>1, <3>2 DEF Build
  <2> QED
    BY <2>1, <2>2
<1> QED
  BY <1>2, <1>5, <1>7, <1>8 DEF IInv

(* What is stored fits the version it is stored under, which was read long  *)
(* before: versions only grow while no restart strays a feed.               *)
LEMMA StoreStep ==
  ASSUME IsFiniteSet(Writers), IInv, NEW r \in Requests, Store(r)
  PROVE  IInv'
<1> USE FeedCacheAssumption DEF Feeds
<1>0. TypeOK /\ Counted /\ Made /\ StoreFits /\ FreshFeed /\ \A q \in Requests : BuildFits(q)
  BY DEF IInv
<1>1. PICK kept \in SUBSET req[r].staged :
        cache' = [cache EXCEPT ![req[r].under] =
                    [s \in Sections |-> IF s \in kept THEN req[r].shows[s] ELSE @[s]]]
  BY DEF Store, Stored
<1>2. /\ req' = [req EXCEPT ![r].pc = "done"] /\ req[r].pc = "build"
      /\ \A s \in Sections : req[r].shows[s] # None
      /\ UNCHANGED <<changes, bumping, ver, bumped, losses, strayed>>
  BY DEF Store
<1>3. /\ req[r].under \in Versions /\ req[r].staged \subseteq Sections
      /\ req[r].shows \in [Sections -> Contents \cup {None}]
      /\ req[r].since \in 0 .. MaxChanges
  BY <1>0 DEF TypeOK
<1>4. \A v \in Versions, s \in Sections :
        cache'[v][s] = IF v = req[r].under /\ s \in kept THEN req[r].shows[s] ELSE cache[v][s]
  BY <1>0, <1>1, <1>3 DEF TypeOK
<1>5. cache' \in [Versions -> [Sections -> Contents \cup {None}]]
  <2> DEFINE new == [s \in Sections |-> IF s \in kept THEN req[r].shows[s]
                                         ELSE cache[req[r].under][s]]
  <2>1. cache' = [cache EXCEPT ![req[r].under] = new]
    BY <1>0, <1>1, <1>3 DEF TypeOK
  <2>2. cache \in [Versions -> [Sections -> Contents \cup {None}]]
    BY <1>0 DEF TypeOK
  <2>3. new \in [Sections -> Contents \cup {None}]
    BY <1>3, <2>2
  <2> QED
    BY <1>3, <2>1, <2>2, <2>3
<1>6. TypeOK'
  <2>1. req' \in [Requests -> Feeds]
    <3>1. req[r] \in Feeds /\ req \in [Requests -> Feeds]
      BY <1>0 DEF TypeOK
    <3>2. req'[r] = [req[r] EXCEPT !.pc = "done"]
      BY <1>2, <3>1
    <3>3. req'[r] \in Feeds
      BY <3>1, <3>2
    <3> QED
      BY <1>2, <3>1, <3>3
  <2> QED
    BY <1>0, <1>2, <1>5, <2>1 DEF TypeOK
<1>7. Counted' /\ Made'
  BY <1>0, <1>2 DEF Counted, Made
<1>8. StoreFits'
  <2> SUFFICES ASSUME NEW v \in Versions, NEW s \in Sections, cache'[v][s] # None, ~strayed
               PROVE  v <= Current /\ Fits(cache'[v][s], v) /\ (cache'[v][s] = Failed => s = "shorts")
    BY <1>2 DEF StoreFits, Fits, Current
  <2>1. CASE v = req[r].under /\ s \in kept
    BY <1>0, <1>2, <1>3, <1>4, <2>1 DEF BuildFits
  <2>2. CASE ~(v = req[r].under /\ s \in kept)
    BY <1>0, <1>4, <2>2 DEF StoreFits
  <2> QED
    BY <2>1, <2>2
<1>9. \A q \in Requests : BuildFits(q)'
  BY <1>0, <1>2 DEF TypeOK, BuildFits, Fits, Current
<1>10. FreshFeed'
  <2> SUFFICES ASSUME NEW q \in Requests, req'[q].pc = "done", ~req'[q].misread, ~strayed,
                      NEW s \in Sections
               PROVE  req'[q].shows[s] = Failed \/ req'[q].shows[s] >= req'[q].since
    BY <1>2 DEF FreshFeed
  <2>1. CASE q = r
    <3>1. /\ req'[r].shows = req[r].shows /\ req'[r].since = req[r].since
          /\ req'[r].misread = req[r].misread
      BY <1>0, <1>2 DEF TypeOK
    <3>2. /\ req[r].since <= bumped[req[r].under]
          /\ Fits(req[r].shows[s], req[r].under)
      BY <1>0, <1>2, <2>1, <3>1 DEF BuildFits
    <3>3. /\ bumped[req[r].under] \in Int /\ req[r].since \in Int
          /\ req[r].shows[s] \in Int
      BY <1>0, <1>2, <1>3 DEF TypeOK, Contents, Failed
    <3> QED
      BY <2>1, <3>1, <3>2, <3>3 DEF Fits
  <2>2. CASE q # r
    <3>1. req'[q] = req[q]
      BY <1>0, <1>2, <2>2 DEF TypeOK
    <3> QED
      BY <1>0, <3>1 DEF FreshFeed
  <2> QED
    BY <2>1, <2>2
<1> QED
  BY <1>6, <1>7, <1>8, <1>9, <1>10 DEF IInv

(* A restart strays a feed unless its version is the one to come next.      *)
LEMMA LoseStep ==
  ASSUME IsFiniteSet(Writers), IInv, Lose
  PROVE  IInv'
<1> USE FeedCacheAssumption DEF Feeds
<1>0. TypeOK /\ Counted /\ Made /\ StoreFits /\ FreshFeed /\ \A q \in Requests : BuildFits(q)
  BY DEF IInv
<1>1. /\ losses < MaxLosses /\ losses' = losses + 1
      /\ ver' = 0 /\ cache' = [v \in Versions |-> NoSections]
      /\ bumped' = [v \in Versions |-> 0]
      /\ strayed' = (strayed \/ \E r \in Requests : req[r].pc = "build" /\ req[r].under > 1)
      /\ UNCHANGED <<changes, bumping, req>>
  BY DEF Lose
<1>2. TypeOK'
  <2>1. strayed' \in BOOLEAN
    BY <1>1
  <2>2. cache' \in [Versions -> [Sections -> Contents \cup {None}]]
    BY <1>1 DEF NoSections
  <2>3. losses' \in 0 .. MaxLosses /\ ver' \in 0 .. MaxChanges
        /\ bumped' \in [Versions -> 0 .. MaxChanges]
    BY <1>0, <1>1 DEF TypeOK
  <2> QED
    BY <1>0, <1>1, <2>1, <2>2, <2>3 DEF TypeOK
<1>3. Counted'
  <2>1. Cardinality(bumping) \in Nat
    BY <1>0, FS_Subset, FS_CardinalityType DEF TypeOK
  <2> QED
    BY <1>0, <1>1, <2>1 DEF Counted, TypeOK
<1>4. Made' /\ StoreFits'
  BY <1>0, <1>1 DEF Made, StoreFits, NoSections, TypeOK, Versions
<1>5. \A r \in Requests : BuildFits(r)'
  <2> SUFFICES ASSUME NEW r \in Requests, req[r].pc = "build", ~strayed'
               PROVE  BuildFits(r)'
    BY <1>1 DEF BuildFits
  <2>1. req[r].under = 1 /\ req[r].under \in Versions /\ ~strayed /\ 1 \in Versions
    <3>1. ~strayed /\ ~(req[r].under > 1)
      BY <1>1
    <3>2. req[r].under \in Versions
      BY <1>0 DEF TypeOK
    <3> QED
      BY <3>1, <3>2 DEF Versions
  <2>2. bumped[1] = 0 /\ bumped'[1] = 0 /\ Current' = 1
    BY <1>0, <1>1, <2>1 DEF Made, Current
  <2> QED
    BY <1>0, <1>1, <2>1, <2>2 DEF BuildFits, Fits
<1>6. FreshFeed'
  BY <1>0, <1>1 DEF FreshFeed
<1> QED
  BY <1>2, <1>3, <1>4, <1>5, <1>6 DEF IInv

LEMMA ExpireStep ==
  ASSUME IInv, NEW v \in Versions, NEW s \in Sections, Expire(v, s)
  PROVE  IInv'
<1> USE FeedCacheAssumption DEF Feeds
<1>0. TypeOK /\ Counted /\ Made /\ StoreFits /\ FreshFeed /\ \A q \in Requests : BuildFits(q)
  BY DEF IInv
<1>1. /\ cache' = [cache EXCEPT ![v][s] = None]
      /\ UNCHANGED <<changes, bumping, ver, req, bumped, losses, strayed>>
  BY DEF Expire
<1>2. cache \in [Versions -> [Sections -> Contents \cup {None}]]
  BY <1>0 DEF TypeOK
<1>3. cache' \in [Versions -> [Sections -> Contents \cup {None}]]
  BY <1>1, <1>2
<1>4. \A w \in Versions, t \in Sections : cache'[w][t] \in {None, cache[w][t]}
  BY <1>1, <1>2
<1>5. TypeOK'
  BY <1>0, <1>1, <1>3 DEF TypeOK
<1>6. StoreFits'
  BY <1>0, <1>1, <1>4 DEF StoreFits, Fits, Current
<1>7. Counted' /\ Made' /\ FreshFeed' /\ \A q \in Requests : BuildFits(q)'
  BY <1>0, <1>1 DEF Counted, Made, FreshFeed, BuildFits, Fits, Current
<1> QED
  BY <1>5, <1>6, <1>7 DEF IInv

-----------------------------------------------------------------------------
LEMMA Invariant == ASSUME IsFiniteSet(Writers) PROVE Spec => []IInv
<1>1. Init => IInv
  BY InitInv
<1>2. IInv /\ [Next]_vars => IInv'
  <2> SUFFICES ASSUME IInv, [Next]_vars PROVE IInv'
    OBVIOUS
  <2>1. CASE \E w \in Writers : Commit(w) \/ Bump(w) \/ BumpFails(w)
    BY <2>1, WriterStep
  <2>2. CASE \E r \in Requests : Build(r)
    BY <2>2, BuildStep, StoreStep
  <2>3. CASE \E v \in Versions, s \in Sections : Expire(v, s)
    BY <2>3, ExpireStep
  <2>4. CASE Lose
    BY <2>4, LoseStep
  <2>5. CASE UNCHANGED vars
    BY <2>5 DEF vars, IInv, TypeOK, Counted, Made, StoreFits, FreshFeed, BuildFits, Fits, Current
  <2> QED
    BY <2>1, <2>2, <2>3, <2>4, <2>5 DEF Next
<1> QED
  BY <1>1, <1>2, PTL DEF Spec

(* The state is what its comments say, whatever the number of feeds.        *)
THEOREM TypeCorrect == ASSUME IsFiniteSet(Writers) PROVE Spec => []TypeOK
<1>1. IInv => TypeOK
  BY DEF IInv
<1> QED
  BY <1>1, Invariant, PTL

(* No feed shows a catalogue older than the last bump before it began.      *)
THEOREM FeedIsFresh == ASSUME IsFiniteSet(Writers) PROVE Spec => []FreshFeed
<1>1. IInv => FreshFeed
  BY DEF IInv
<1> QED
  BY <1>1, Invariant, PTL

(* A version begins with nothing stored, and errors of lists are not.       *)
THEOREM CacheIsSound == ASSUME IsFiniteSet(Writers) PROVE Spec => []CacheSound
<1>1. IInv => CacheSound
  BY DEF IInv, StoreFits, CacheSound
<1> QED
  BY <1>1, Invariant, PTL

-----------------------------------------------------------------------------
(* The shorts of a day. *)

(* What a call that nobody overtook has found: at each point of it, how its *)
(* picks are related to the table as it still is.                           *)
Enough(q) == Cardinality(q.picks) = Limit \/ q.picks = shown \/ q.crowded

Found(q) ==
  /\ q.today = day
  /\ q.picks \subseteq shown
  /\ q.pc = "today" => q.picks = {}
  /\ q.pc \in {"eligible", "fallback", "mark"} => OfDay(q.today) \subseteq q.picks
  /\ q.pc \in {"eligible", "fallback"} => Cardinality(q.picks) < Limit
  /\ q.pc = "eligible" => q.picks \subseteq OfDay(q.today)
  /\ q.pc = "fallback" => /\ Eligible(q.today) \subseteq q.picks
                          /\ q.crowded = Crowded(q.picks, q.today)
  /\ q.pc = "mark" => \/ \A b \in q.picks : ~Resting(b, q.today)
                      \/ Eligible(q.today) \subseteq q.picks
  /\ q.pc \in {"mark", "done"} => Enough(q)
  /\ (q.pc = "done" /\ q.picks \subseteq OfDay(q.today)) =>
       q.picks \in FirstOf(OfDay(q.today), Limit)

Sound(r) ==
  /\ task[r].pc = "today" => ~task[r].cut
  /\ (Clean(r) /\ task[r].pc # "idle") => Found(task[r])

ShortsInv == ShortsTypeOK /\ \A r \in Calls : Sound(r)

-----------------------------------------------------------------------------
LEMMA Sizes ==
  ASSUME NEW S \in SUBSET Books
  PROVE  /\ IsFiniteSet(S) /\ Cardinality(S) \in Nat
         /\ \A T \in SUBSET S : /\ Cardinality(T) \in Nat /\ Cardinality(T) <= Cardinality(S)
                                /\ Cardinality(T) = Cardinality(S) => T = S
<1>1. IsFiniteSet(S)
  BY DailyShortsAssumption, FS_Subset
<1>2. ASSUME NEW T \in SUBSET S
      PROVE  /\ Cardinality(T) \in Nat /\ Cardinality(T) <= Cardinality(S)
             /\ Cardinality(T) = Cardinality(S) => T = S
  BY <1>1, FS_Subset, FS_CardinalityType
<1> QED
  BY <1>1, <1>2, FS_CardinalityType

(* LIMIT cuts nothing off a result that is shorter.                         *)
LEMMA FirstFacts ==
  ASSUME NEW S \in SUBSET Books, NEW n \in Nat, NEW T \in FirstOf(S, n)
  PROVE  /\ T \subseteq S /\ Cardinality(T) <= n
         /\ Cardinality(T) < n => T = S
BY Sizes DEF FirstOf

(* And leaves no choice.                                                    *)
LEMMA FirstUnique ==
  ASSUME ShortsTypeOK, NEW S \in SUBSET Books, NEW n \in Nat,
         NEW T \in FirstOf(S, n), NEW U \in FirstOf(S, n)
  PROVE  T = U
<1>1. CASE T = S /\ Cardinality(S) <= n
  BY <1>1, Sizes DEF FirstOf
<1>2. CASE U = S /\ Cardinality(S) <= n
  BY <1>2, Sizes DEF FirstOf
<1>3. CASE /\ Cardinality(T) = n /\ \A a \in T, b \in S \ T : Before(a, b)
           /\ Cardinality(U) = n /\ \A a \in U, b \in S \ U : Before(a, b)
  <2>1. T \in SUBSET S /\ U \in SUBSET S
    BY DEF FirstOf
  <2>2. SUFFICES ASSUME T # U PROVE FALSE
    OBVIOUS
  <2>3. ~(T \subseteq U) /\ ~(U \subseteq T)
    <3>1. T \in SUBSET Books /\ U \in SUBSET Books
      BY <2>1
    <3> QED
      BY <1>3, <2>2, <3>1, Sizes
  <2>4. PICK a \in T \ U, b \in U \ T : TRUE
    BY <2>3
  <2>5. Before(a, b) /\ Before(b, a)
    BY <1>3, <2>1, <2>4
  <2>6. /\ a \in Nat /\ b \in Nat /\ mark[a] \in Int /\ mark[b] \in Int
    BY <2>1, <2>4, DailyShortsAssumption DEF ShortsTypeOK, Never, Days
  <2> QED
    BY <2>5, <2>6 DEF Before
<1> QED
  BY <1>1, <1>2, <1>3 DEF FirstOf

LEMMA ReadFacts ==
  ASSUME NEW S \in SUBSET Books, NEW n \in Nat, NEW res \in Read(S, n)
  PROVE  /\ res.rows \subseteq S /\ Cardinality(res.rows) <= n
         /\ res.cut \in BOOLEAN
         /\ res.cut = FALSE => res.rows \in FirstOf(S, n)
<1>1. CASE \E T \in FirstOf(S, n) : res = [rows |-> T, cut |-> FALSE]
  BY <1>1, FirstFacts
<1>2. CASE \E T \in FirstOf(S, n), c \in S :
             res = [rows |-> {b \in T : Before(b, c)}, cut |-> TRUE]
  <2>1. PICK T \in FirstOf(S, n), c \in S :
             res = [rows |-> {b \in T : Before(b, c)}, cut |-> TRUE]
    BY <1>2
  <2>2. T \in SUBSET S /\ Cardinality(T) <= n
    BY FirstFacts
  <2>3. res.rows \in SUBSET T /\ T \in SUBSET Books
    BY <2>1, <2>2
  <2>4. /\ Cardinality(res.rows) \in Nat /\ Cardinality(T) \in Nat
        /\ Cardinality(res.rows) <= Cardinality(T)
    BY <2>3, Sizes
  <2> QED
    BY <2>1, <2>2, <2>3, <2>4
<1>3. \/ \E T \in FirstOf(S, n) : res = [rows |-> T, cut |-> FALSE]
      \/ \E T \in FirstOf(S, n), c \in S :
             res = [rows |-> {b \in T : Before(b, c)}, cut |-> TRUE]
  BY DEF Read
<1> QED
  BY <1>1, <1>2, <1>3

(* Picks are added up to the limit, or until there are no more rows.        *)
LEMMA FillFacts ==
  ASSUME NEW picks \in SUBSET Books, Cardinality(picks) <= Limit,
         NEW rows \in SUBSET Books, NEW all \in Fill(picks, rows)
  PROVE  /\ picks \subseteq all /\ all \subseteq picks \cup rows
         /\ Cardinality(all) \in Nat /\ Cardinality(all) <= Limit
         /\ Cardinality(all) < Limit =>
              rows \subseteq all /\ Cardinality(rows \ picks) < Limit - Cardinality(picks)
<1>1. PICK T \in SUBSET (rows \ picks) :
        /\ all = picks \cup T
        /\ \/ Cardinality(T) = Limit - Cardinality(picks)
           \/ T = rows \ picks /\ Cardinality(T) < Limit - Cardinality(picks)
  BY DEF Fill
<1>2. /\ IsFiniteSet(picks) /\ IsFiniteSet(T) /\ Limit \in Nat
      /\ Cardinality(picks) \in Nat /\ Cardinality(T) \in Nat
  <2>1. T \in SUBSET Books
    BY <1>1
  <2> QED
    BY <2>1, Sizes, DailyShortsAssumption
<1>3. picks \cap T = {} /\ Cardinality({}) = 0
  BY <1>1, FS_EmptySet
<1>4. Cardinality(all) = Cardinality(picks) + Cardinality(T)
  <2>1. Cardinality(picks \cup T)
          = Cardinality(picks) + Cardinality(T) - Cardinality(picks \cap T)
    BY <1>2, FS_Union
  <2>2. Cardinality(picks \cap T) = 0
    BY <1>3
  <2>3. Cardinality(picks \cup T) = Cardinality(picks) + Cardinality(T)
    BY <1>2, <2>1, <2>2
  <2> QED
    BY <1>1, <2>3
<1>5. Cardinality(all) < Limit => T = rows \ picks /\ Cardinality(T) < Limit - Cardinality(picks)
  BY <1>1, <1>2, <1>4
<1>6. Cardinality(all) \in Nat /\ Cardinality(all) <= Limit
  BY <1>1, <1>2, <1>4
<1> QED
  BY <1>1, <1>5, <1>6

(* At least as many rows are read as picks are missing.                     *)
LEMMA EnoughRead ==
  ASSUME NEW m \in Nat, m > 0
  PROVE  m * Factor \in Nat /\ m * Factor >= m
<1>1. Factor \in Nat /\ Factor >= 1
  BY DailyShortsAssumption
<1>2. PICK f \in Nat : Factor = f + 1
  BY <1>1
<1>3. m * Factor = m * f + m /\ m * f \in Nat
  BY <1>2
<1> QED
  BY <1>3

(* Whatever the rows are, the picks are books and no more than the limit.   *)
LEMMA FilledRows ==
  ASSUME NEW q \in Tasks, Cardinality(q.picks) <= Limit, NEW S \in SUBSET Books, NEW n,
         n = (Limit - Cardinality(q.picks)) * Factor,
         NEW res \in Read(S, n), NEW picks \in Fill(q.picks, res.rows)
  PROVE  /\ picks \in SUBSET Books /\ res.cut \in BOOLEAN
         /\ Cardinality(picks) \in Nat /\ Cardinality(picks) <= Limit
<1>1. q.picks \in SUBSET Books
  BY DEF Tasks
<1>2. n \in Nat
  <2>1. PICK m \in Nat : m = Limit - Cardinality(q.picks)
    BY <1>1, Sizes, DailyShortsAssumption
  <2> QED
    BY <2>1, DailyShortsAssumption
<1>3. res.rows \in SUBSET Books /\ res.cut \in BOOLEAN
  <2>1. \A k \in Nat : \A x \in Read(S, k) : x.rows \subseteq S /\ x.cut \in BOOLEAN
    BY ReadFacts
  <2> QED
    BY <1>2, <2>1
<1>4. \A rows \in SUBSET Books :
        \A all \in Fill(q.picks, rows) :
          /\ q.picks \subseteq all /\ all \subseteq q.picks \cup rows
          /\ Cardinality(all) \in Nat /\ Cardinality(all) <= Limit
  BY <1>1, FillFacts
<1> QED
  BY <1>1, <1>3, <1>4

(* Who passes over nothing that is eligible.                                *)
LEMMA EligibleTaken ==
  ASSUME ShortsTypeOK, NEW q \in Tasks, Found(q), q.pc = "eligible",
         NEW res \in Read(Eligible(q.today), (Limit - Cardinality(q.picks)) * Factor),
         res.cut = FALSE,
         NEW picks \in Fill(q.picks, res.rows)
  PROVE  /\ OfDay(q.today) \subseteq picks /\ picks \subseteq shown
         /\ Cardinality(picks) \in Nat /\ Cardinality(picks) <= Limit
         /\ Cardinality(picks) < Limit => Eligible(q.today) \subseteq picks
         /\ \A b \in picks : ~Resting(b, q.today)
<1> DEFINE m == Limit - Cardinality(q.picks)
<1>1. /\ q.picks \in SUBSET Books /\ Eligible(q.today) \in SUBSET Books
      /\ q.today \in Nat /\ Cooldown \in Nat
  <2>1. q.picks \in SUBSET Books /\ q.today \in Days
    BY DEF Tasks
  <2>2. Eligible(q.today) \in SUBSET Books
    BY DEF ShortsTypeOK, Eligible
  <2> QED
    BY <2>1, <2>2, DailyShortsAssumption DEF Days
<1>2. m \in Nat /\ m > 0 /\ m * Factor \in Nat /\ m * Factor >= m
  <2>1. m \in Nat /\ m > 0
    BY <1>1, Sizes, DailyShortsAssumption DEF Found
  <2> QED
    BY <2>1, EnoughRead
<1>3. res.rows \in FirstOf(Eligible(q.today), m * Factor)
  BY <1>1, <1>2, ReadFacts
<1>4. /\ res.rows \subseteq Eligible(q.today)
      /\ Cardinality(res.rows) < m * Factor => res.rows = Eligible(q.today)
  BY <1>1, <1>2, <1>3, FirstFacts
<1>5. Cardinality(q.picks) <= Limit /\ res.rows \in SUBSET Books
  BY <1>1, <1>4, Sizes, DailyShortsAssumption DEF Found
<1>6. /\ q.picks \subseteq picks /\ picks \subseteq q.picks \cup res.rows
      /\ Cardinality(picks) \in Nat /\ Cardinality(picks) <= Limit
      /\ Cardinality(picks) < Limit =>
           res.rows \subseteq picks /\ Cardinality(res.rows \ q.picks) < m
  <2>1. \A p \in SUBSET Books, rows \in SUBSET Books :
          Cardinality(p) <= Limit =>
            \A all \in Fill(p, rows) :
              /\ p \subseteq all /\ all \subseteq p \cup rows
              /\ Cardinality(all) \in Nat /\ Cardinality(all) <= Limit
              /\ Cardinality(all) < Limit =>
                   rows \subseteq all /\ Cardinality(rows \ p) < Limit - Cardinality(p)
    BY FillFacts
  <2>2. \A rows \in SUBSET Books :
          \A all \in Fill(q.picks, rows) :
            /\ q.picks \subseteq all /\ all \subseteq q.picks \cup rows
            /\ Cardinality(all) \in Nat /\ Cardinality(all) <= Limit
            /\ Cardinality(all) < Limit =>
                 rows \subseteq all
                 /\ Cardinality(rows \ q.picks) < Limit - Cardinality(q.picks)
    BY <1>1, <1>5, <2>1
  <2> QED
    BY <1>5, <2>2
<1>7. \A b \in Books : mark[b] \in Int
  BY DEF ShortsTypeOK, Never, Days
<1>8. \A b \in q.picks : b \in shown /\ mark[b] = q.today
  BY DEF Found, OfDay
<1>9. \A b \in Eligible(q.today) :
        /\ b \in shown /\ b \in Books /\ mark[b] # q.today
        /\ mark[b] = Never \/ mark[b] < q.today - Cooldown
  BY <1>1, <1>7 DEF Eligible, Never
<1>10. res.rows \ q.picks = res.rows
  BY <1>4, <1>8, <1>9
<1>11. Cardinality(picks) < Limit => Eligible(q.today) \subseteq picks
  <2>1. Cardinality(res.rows) \in Nat
    BY <1>5, Sizes
  <2>2. SUFFICES ASSUME Cardinality(picks) < Limit PROVE Eligible(q.today) \subseteq picks
    OBVIOUS
  <2>3. res.rows \subseteq picks /\ Cardinality(res.rows) < m
    BY <1>6, <1>10, <2>2
  <2>4. Cardinality(res.rows) < m * Factor
    <3> HIDE DEF m
    <3> QED
      BY <1>2, <2>1, <2>3
  <2> QED
    BY <1>4, <2>3, <2>4
<1>12. \A b \in picks : ~Resting(b, q.today)
  <2> SUFFICES ASSUME NEW b \in picks PROVE ~Resting(b, q.today)
    OBVIOUS
  <2>1. CASE b \in q.picks
    BY <1>1, <1>8, <2>1 DEF Resting
  <2>2. CASE b \in res.rows
    <3>1. mark[b] \in Int /\ (mark[b] = Never \/ mark[b] < q.today - Cooldown)
      BY <1>4, <1>7, <1>9, <2>2
    <3> QED
      BY <1>1, <3>1 DEF Resting
  <2> QED
    BY <1>6, <2>1, <2>2
<1> QED
  BY <1>4, <1>6, <1>8, <1>9, <1>11, <1>12 DEF Found

(* The fallback passes over rows picked already; if it is not crowded, what *)
(* is left is enough, or was all there is.                                  *)
LEMMA FallbackTaken ==
  ASSUME ShortsTypeOK, NEW q \in Tasks, Found(q), q.pc = "fallback",
         NEW res \in Read(Featured(q.today), (Limit - Cardinality(q.picks)) * Factor),
         res.cut = FALSE,
         NEW picks \in Fill(q.picks, res.rows)
  PROVE  /\ q.picks \subseteq picks /\ picks \subseteq shown
         /\ Cardinality(picks) \in Nat /\ Cardinality(picks) <= Limit
         /\ Cardinality(picks) = Limit \/ picks = shown \/ q.crowded
<1> DEFINE m == Limit - Cardinality(q.picks)
<1> DEFINE F == Featured(q.today)
<1> DEFINE again == {b \in q.picks : mark[b] # Never /\ mark[b] < q.today}
<1>1. /\ q.picks \in SUBSET Books /\ F \in SUBSET Books /\ shown \in SUBSET Books
      /\ q.today \in Nat /\ q.today = day
  <2>1. q.picks \in SUBSET Books /\ q.today \in Days
    BY DEF Tasks
  <2>2. F \in SUBSET Books /\ shown \in SUBSET Books
    BY DEF ShortsTypeOK, Featured
  <2>3. q.today = day
    BY DEF Found
  <2> HIDE DEF F
  <2> QED
    BY <2>1, <2>2, <2>3, DailyShortsAssumption DEF Days
<1>2. m \in Nat /\ m > 0 /\ m * Factor \in Nat /\ m * Factor >= m
  <2>1. m \in Nat /\ m > 0
    BY <1>1, Sizes, DailyShortsAssumption DEF Found
  <2> QED
    BY <2>1, EnoughRead
<1>3. res.rows \in FirstOf(F, m * Factor)
  BY <1>1, <1>2, ReadFacts
<1>4. /\ res.rows \subseteq F
      /\ Cardinality(res.rows) < m * Factor => res.rows = F
  BY <1>1, <1>2, <1>3, FirstFacts
<1>5. Cardinality(q.picks) <= Limit /\ res.rows \in SUBSET Books
  BY <1>1, <1>4, Sizes, DailyShortsAssumption DEF Found
<1>6. /\ q.picks \subseteq picks /\ picks \subseteq q.picks \cup res.rows
      /\ Cardinality(picks) \in Nat /\ Cardinality(picks) <= Limit
      /\ Cardinality(picks) < Limit =>
           res.rows \subseteq picks /\ Cardinality(res.rows \ q.picks) < m
  <2>1. \A rows \in SUBSET Books :
          \A all \in Fill(q.picks, rows) :
            /\ q.picks \subseteq all /\ all \subseteq q.picks \cup rows
            /\ Cardinality(all) \in Nat /\ Cardinality(all) <= Limit
            /\ Cardinality(all) < Limit =>
                 rows \subseteq all
                 /\ Cardinality(rows \ q.picks) < Limit - Cardinality(q.picks)
    BY <1>1, <1>5, FillFacts
  <2> QED
    BY <1>5, <2>1
<1>7. picks \subseteq shown
  <2>1. q.picks \subseteq shown /\ F \subseteq shown
    BY DEF Found, Featured
  <2> HIDE DEF F
  <2> QED
    BY <1>4, <1>6, <2>1
<1>8. \A b \in shown : b \notin F => b \in q.picks
  BY DEF Found, Featured, Eligible
<1>9. ASSUME Cardinality(picks) < Limit, ~q.crowded PROVE F \subseteq picks
  <2>0. res.rows \subseteq picks
    BY <1>6, <1>9
  <2>1. CASE res.rows = F
    BY <2>0, <2>1
  <2>2. CASE res.rows # F
    <3>1. /\ Cardinality(res.rows) >= m * Factor
          /\ \A a \in res.rows, b \in F \ res.rows : Before(a, b)
      <4>1. Cardinality(res.rows) = m * Factor
            /\ \A a \in res.rows, b \in F \ res.rows : Before(a, b)
        BY <1>3, <2>2 DEF FirstOf
      <4> QED
        BY <1>2, <4>1
    <3>2. m * Factor >= Cardinality(again) + m
      <4>1. ~Crowded(q.picks, q.today)
        BY <1>9 DEF Found
      <4>2. Cardinality(again) \in Nat
        <5>1. again \in SUBSET Books
          BY <1>1
        <5> QED
          BY <5>1, Sizes
      <4>3. ~(m * Factor < Cardinality(again) + m)
        BY <4>1 DEF Crowded
      <4> QED
        BY <1>2, <4>2, <4>3
    <3>3. \A b \in F : mark[b] \in Int /\ mark[b] # Never /\ mark[b] <= q.today
      BY <1>1 DEF ShortsTypeOK, Featured, Never, Days
    <3>4. PICK a \in res.rows : mark[a] = q.today
      <4>1. SUFFICES ASSUME \A a \in res.rows : mark[a] # q.today PROVE FALSE
        OBVIOUS
      <4>2. res.rows \cap q.picks \subseteq again
        BY <1>1, <1>4, <3>3, <4>1
      <4>3. /\ Cardinality(res.rows \cap q.picks) \in Nat /\ Cardinality(again) \in Nat
            /\ Cardinality(res.rows \cap q.picks) <= Cardinality(again)
            /\ IsFiniteSet(res.rows)
        <5>1. again \in SUBSET Books /\ res.rows \cap q.picks \in SUBSET again
          BY <1>1, <4>2
        <5>2. res.rows \cap q.picks \in SUBSET Books
          BY <1>1
        <5> QED
          BY <1>5, <5>1, <5>2, Sizes
      <4>4. /\ Cardinality(res.rows \ q.picks)
                 = Cardinality(res.rows) - Cardinality(res.rows \cap q.picks)
            /\ Cardinality(res.rows) \in Nat
        <5>1. IsFiniteSet(res.rows) /\ IsFiniteSet(q.picks)
          BY <1>1, <4>3, Sizes
        <5> QED
          BY <5>1, FS_Difference, FS_CardinalityType
      <4>5. Cardinality(res.rows \ q.picks) < m
        BY <1>6, <1>9
      <4> HIDE DEF m, again, F
      <4> QED
        BY <1>2, <3>1, <3>2, <4>3, <4>4, <4>5
    <3>5. \A b \in F \ res.rows : mark[b] = q.today
      <4> SUFFICES ASSUME NEW b \in F \ res.rows PROVE mark[b] = q.today
        OBVIOUS
      <4>1. Before(a, b) /\ a \in F
        BY <1>4, <3>1
      <4>2. mark[a] <= mark[b]
        BY <3>3, <4>1 DEF Before
      <4> QED
        BY <1>1, <3>3, <3>4, <4>2
    <3>6. F \ res.rows \subseteq q.picks
      BY <3>5 DEF Found, OfDay, Featured
    <3> QED
      BY <1>6, <2>0, <3>6
  <2> QED
    BY <2>1, <2>2
<1>10. Cardinality(picks) = Limit \/ picks = shown \/ q.crowded
  <2> SUFFICES ASSUME Cardinality(picks) # Limit, ~q.crowded PROVE picks = shown
    OBVIOUS
  <2>1. Cardinality(picks) < Limit
    BY <1>6, DailyShortsAssumption
  <2>2. F \subseteq picks
    BY <1>9, <2>1
  <2> HIDE DEF F
  <2> QED
    BY <1>6, <1>7, <1>8, <2>2
<1> QED
  BY <1>6, <1>7, <1>10

-----------------------------------------------------------------------------
(* A call that only reads leaves the others as they are.                    *)
LEMMA OwnStep ==
  ASSUME ShortsInv, NEW r \in Calls, UNCHANGED <<day, shown, mark, edits>>,
         NEW t \in Tasks, task' = [task EXCEPT ![r] = t],
         t.today <= day, Cardinality(t.picks) <= Limit,
         t.pc = "today" => ~t.cut,
         (t.pc # "idle" /\ ~t.overtaken /\ ~t.cut) => Found(t)
  PROVE  ShortsInv'
<1>1. ShortsTypeOK'
  BY DEF ShortsInv, ShortsTypeOK
<1>2. ASSUME NEW s \in Calls PROVE Sound(s)'
  <2>1. Sound(s) /\ task \in [Calls -> Tasks]
    BY DEF ShortsInv, ShortsTypeOK
  <2>2. CASE s = r
    <3>1. task'[s] = t
      BY <2>1, <2>2
    <3> QED
      BY <3>1 DEF Sound, Clean, Found, Enough, OfDay, Eligible, Crowded, Resting, FirstOf, Before
  <2>3. CASE s # r
    <3>1. task'[s] = task[s]
      BY <2>1, <2>3
    <3> QED
      BY <2>1, <3>1
      DEF Sound, Clean, Found, Enough, OfDay, Eligible, Crowded, Resting, FirstOf, Before
  <2> QED
    BY <2>2, <2>3
<1> QED
  BY <1>1, <1>2 DEF ShortsInv

LEMMA ShortsInitInv == ShortsInit => ShortsInv
<1> SUFFICES ASSUME ShortsInit PROVE ShortsInv
  OBVIOUS
<1> USE DailyShortsAssumption
<1>1. NoCall \in Tasks /\ NoCall.today = 0 /\ NoCall.picks = {} /\ NoCall.pc = "idle"
  BY DEF NoCall, Tasks, Days
<1>2. Cardinality({}) = 0
  BY FS_EmptySet
<1>3. ShortsTypeOK
  <2>1. \A r \in Calls : task[r] = NoCall
    BY DEF ShortsInit
  <2>2. mark \in [Books -> 0 .. day \cup {Never}]
    BY DEF ShortsInit
  <2> QED
    BY <1>1, <1>2, <2>1, <2>2 DEF ShortsInit, ShortsTypeOK, Days
<1> QED
  BY <1>1, <1>3 DEF ShortsInit, ShortsInv, Sound

LEMMA BeginStep ==
  ASSUME ShortsInv, NEW r \in Calls, Begin(r)
  PROVE  ShortsInv'
<1> USE DailyShortsAssumption
<1> DEFINE t == [NoCall EXCEPT !.pc = "today", !.today = day]
<1>0. day \in Days /\ day \in Nat
  BY DEF ShortsInv, ShortsTypeOK, Days
<1>1. /\ t.pc = "today" /\ t.today = day /\ t.picks = {} /\ t.cut = FALSE
      /\ t.overtaken = FALSE /\ t \in Tasks
  <2>1. 0 \in Days
    BY DEF Days
  <2> QED
    BY <1>0, <2>1 DEF NoCall, Tasks
<1>2. Cardinality(t.picks) = 0
  BY <1>1, FS_EmptySet
<1>3. Found(t)
  BY <1>1 DEF Found
<1>4. task' = [task EXCEPT ![r] = t] /\ UNCHANGED <<day, shown, mark, edits>>
  BY DEF Begin
<1>5. t.today <= day /\ Cardinality(t.picks) <= Limit
  BY <1>0, <1>1, <1>2
<1> HIDE DEF t
<1>6. t.pc = "today" => ~t.cut
  BY <1>1
<1> QED
  BY <1>1, <1>3, <1>4, <1>5, <1>6, OwnStep

LEMMA ReadTodayStep ==
  ASSUME ShortsInv, NEW r \in Calls, ReadToday(r)
  PROVE  ShortsInv'
<1> USE DailyShortsAssumption
<1>1. PICK res \in Read(OfDay(task[r].today), Limit) :
        task' = [task EXCEPT
                   ![r].picks = res.rows, ![r].cut = res.cut,
                   ![r].pc = IF Cardinality(res.rows) < Limit THEN "eligible" ELSE "done"]
  BY DEF ReadToday
<1> DEFINE q == task[r]
<1>2. /\ q \in Tasks /\ q.today <= day /\ q.today \in Nat /\ day \in Nat
      /\ OfDay(q.today) \in SUBSET Books
  <2>1. q \in Tasks /\ q.today <= day /\ day \in Days /\ shown \subseteq Books
    BY DEF ShortsInv, ShortsTypeOK
  <2>2. q.today \in Days
    BY <2>1 DEF Tasks
  <2>3. OfDay(q.today) \in SUBSET Books
    BY <2>1 DEF OfDay
  <2> HIDE DEF q
  <2> QED
    BY <2>1, <2>2, <2>3 DEF Days
<1>3. /\ res.rows \subseteq OfDay(q.today) /\ Cardinality(res.rows) <= Limit
      /\ res.cut \in BOOLEAN /\ Cardinality(res.rows) \in Nat /\ res.rows \in SUBSET Books
      /\ res.cut = FALSE => /\ res.rows \in FirstOf(OfDay(q.today), Limit)
                            /\ Cardinality(res.rows) < Limit => res.rows = OfDay(q.today)
  <2>1. /\ res.rows \subseteq OfDay(q.today) /\ Cardinality(res.rows) <= Limit
        /\ res.cut \in BOOLEAN
        /\ res.cut = FALSE => res.rows \in FirstOf(OfDay(q.today), Limit)
    BY <1>2, ReadFacts
  <2>2. res.rows \in SUBSET Books
    BY <1>2, <2>1
  <2> QED
    BY <1>2, <2>1, <2>2, Sizes, FirstFacts
<1> DEFINE t == [q EXCEPT !.picks = res.rows, !.cut = res.cut,
                          !.pc = IF Cardinality(res.rows) < Limit THEN "eligible" ELSE "done"]
<1>4. /\ t.pc = IF Cardinality(res.rows) < Limit THEN "eligible" ELSE "done"
      /\ t.today = q.today /\ t.picks = res.rows /\ t.overtaken = q.overtaken
      /\ t.cut = res.cut /\ t.crowded = q.crowded /\ t \in Tasks
  BY <1>2, <1>3 DEF Tasks
<1>5. task' = [task EXCEPT ![r] = t] /\ UNCHANGED <<day, shown, mark, edits>>
  BY <1>1 DEF ReadToday, ShortsInv, ShortsTypeOK
<1>6. ASSUME ~t.overtaken, ~t.cut PROVE Found(t)
  <2>1. res.cut = FALSE /\ q.overtaken = FALSE
    BY <1>2, <1>3, <1>4, <1>6 DEF Tasks
  <2>2. q.pc = "today" /\ Found(q)
    BY <2>1 DEF ReadToday, ShortsInv, Sound, Clean
  <2> QED
    BY <1>3, <1>4, <2>1, <2>2 DEF Found, Enough, OfDay
<1> HIDE DEF t, q
<1> QED
  BY <1>2, <1>3, <1>4, <1>5, <1>6, OwnStep

LEMMA ReadEligibleStep ==
  ASSUME ShortsInv, NEW r \in Calls, ReadEligible(r)
  PROVE  ShortsInv'
<1> USE DailyShortsAssumption
<1> DEFINE q == task[r]
<1>0. PICK res \in Read(Eligible(q.today), (Limit - Cardinality(q.picks)) * Factor) :
        \E picks \in Fill(q.picks, res.rows) :
          task' = [task EXCEPT
                     ![r].picks = picks, ![r].cut = @ \/ res.cut,
                     ![r].crowded = Crowded(picks, q.today),
                     ![r].pc = IF Cardinality(picks) < Limit THEN "fallback" ELSE "mark"]
  BY DEF ReadEligible
<1>1. PICK picks \in Fill(q.picks, res.rows) :
        task' = [task EXCEPT
                   ![r].picks = picks, ![r].cut = @ \/ res.cut,
                   ![r].crowded = Crowded(picks, q.today),
                   ![r].pc = IF Cardinality(picks) < Limit THEN "fallback" ELSE "mark"]
  BY <1>0
<1>2. /\ q \in Tasks /\ q.today <= day /\ q.today \in Nat /\ day \in Nat
      /\ q.picks \in SUBSET Books /\ Eligible(q.today) \in SUBSET Books
  <2>1. q \in Tasks /\ q.today <= day /\ day \in Days /\ shown \subseteq Books
    BY DEF ShortsInv, ShortsTypeOK
  <2>2. q.today \in Days /\ q.picks \in SUBSET Books
    BY <2>1 DEF Tasks
  <2>3. Eligible(q.today) \in SUBSET Books
    BY <2>1 DEF Eligible
  <2> HIDE DEF q
  <2> QED
    BY <2>1, <2>2, <2>3 DEF Days
<1>3. /\ picks \in SUBSET Books /\ res.cut \in BOOLEAN
      /\ Cardinality(picks) \in Nat /\ Cardinality(picks) <= Limit
  BY <1>1, <1>2, FilledRows DEF ShortsInv, ShortsTypeOK
<1> DEFINE c == Crowded(picks, q.today)
<1> DEFINE t == [q EXCEPT !.picks = picks, !.cut = @ \/ res.cut, !.crowded = c,
                          !.pc = IF Cardinality(picks) < Limit THEN "fallback" ELSE "mark"]
<1>4. /\ t.pc = IF Cardinality(picks) < Limit THEN "fallback" ELSE "mark"
      /\ t.today = q.today /\ t.picks = picks /\ t.overtaken = q.overtaken
      /\ t.cut = (q.cut \/ res.cut) /\ t.crowded = c /\ t \in Tasks
  <2>1. c \in BOOLEAN
    BY DEF Crowded
  <2> HIDE DEF c
  <2> QED
    BY <1>2, <1>3, <2>1 DEF Tasks
<1>5. task' = [task EXCEPT ![r] = t] /\ UNCHANGED <<day, shown, mark, edits>>
  <2>1. task \in [Calls -> Tasks] /\ UNCHANGED <<day, shown, mark, edits>>
    BY DEF ReadEligible, ShortsInv, ShortsTypeOK
  <2> HIDE DEF c
  <2> QED
    BY <1>1, <2>1 DEF c
<1>6. ASSUME ~t.overtaken, ~t.cut PROVE Found(t)
  <2>1. res.cut = FALSE /\ Clean(r) /\ q.pc = "eligible"
    BY <1>2, <1>3, <1>4, <1>6 DEF Tasks, Clean, ReadEligible
  <2>2. Found(q)
    BY <2>1 DEF ShortsInv, Sound
  <2>3. /\ OfDay(q.today) \subseteq picks /\ picks \subseteq shown
        /\ Cardinality(picks) < Limit => Eligible(q.today) \subseteq picks
        /\ \A b \in picks : ~Resting(b, q.today)
    BY <1>2, <2>1, <2>2, EligibleTaken DEF ShortsInv
  <2>4. q.today = day
    BY <2>2 DEF Found
  <2>5. t.crowded = Crowded(t.picks, t.today)
    BY <1>4
  <2>6. Cardinality(picks) < Limit \/ Cardinality(picks) = Limit
    BY <1>3
  <2> HIDE DEF t, q, c
  <2>7. CASE Cardinality(picks) < Limit
    BY <1>4, <2>3, <2>4, <2>5, <2>7 DEF Found
  <2>8. CASE Cardinality(picks) = Limit
    BY <1>4, <2>3, <2>4, <2>8 DEF Found, Enough
  <2> QED
    BY <2>6, <2>7, <2>8
<1> HIDE DEF t, q
<1> QED
  BY <1>2, <1>3, <1>4, <1>5, <1>6, OwnStep

LEMMA ReadFallbackStep ==
  ASSUME ShortsInv, NEW r \in Calls, ReadFallback(r)
  PROVE  ShortsInv'
<1> USE DailyShortsAssumption
<1> DEFINE q == task[r]
<1>0. PICK res \in Read(Featured(q.today), (Limit - Cardinality(q.picks)) * Factor) :
        \E picks \in Fill(q.picks, res.rows) :
          task' = [task EXCEPT ![r].picks = picks, ![r].cut = @ \/ res.cut,
                               ![r].pc = IF picks = {} THEN "done" ELSE "mark"]
  BY DEF ReadFallback
<1>1. PICK picks \in Fill(q.picks, res.rows) :
        task' = [task EXCEPT ![r].picks = picks, ![r].cut = @ \/ res.cut,
                             ![r].pc = IF picks = {} THEN "done" ELSE "mark"]
  BY <1>0
<1>2. /\ q \in Tasks /\ q.today <= day /\ q.today \in Nat /\ day \in Nat
      /\ q.picks \in SUBSET Books /\ Featured(q.today) \in SUBSET Books
  <2>1. q \in Tasks /\ q.today <= day /\ day \in Days /\ shown \subseteq Books
    BY DEF ShortsInv, ShortsTypeOK
  <2>2. q.today \in Days /\ q.picks \in SUBSET Books
    BY <2>1 DEF Tasks
  <2>3. Featured(q.today) \in SUBSET Books
    BY <2>1 DEF Featured
  <2> HIDE DEF q
  <2> QED
    BY <2>1, <2>2, <2>3 DEF Days
<1>3. /\ picks \in SUBSET Books /\ res.cut \in BOOLEAN
      /\ Cardinality(picks) \in Nat /\ Cardinality(picks) <= Limit
  BY <1>1, <1>2, FilledRows DEF ShortsInv, ShortsTypeOK
<1> DEFINE t == [q EXCEPT !.picks = picks, !.cut = @ \/ res.cut,
                          !.pc = IF picks = {} THEN "done" ELSE "mark"]
<1>4. /\ t.pc = IF picks = {} THEN "done" ELSE "mark"
      /\ t.today = q.today /\ t.picks = picks /\ t.overtaken = q.overtaken
      /\ t.cut = (q.cut \/ res.cut) /\ t.crowded = q.crowded /\ t \in Tasks
  BY <1>2, <1>3 DEF Tasks
<1>5. task' = [task EXCEPT ![r] = t] /\ UNCHANGED <<day, shown, mark, edits>>
  BY <1>1 DEF ReadFallback, ShortsInv, ShortsTypeOK
<1>6. ASSUME ~t.overtaken, ~t.cut PROVE Found(t)
  <2>1. res.cut = FALSE /\ Clean(r) /\ q.pc = "fallback"
    BY <1>2, <1>3, <1>4, <1>6 DEF Tasks, Clean, ReadFallback
  <2>2. Found(q)
    BY <2>1 DEF ShortsInv, Sound
  <2>3. /\ q.picks \subseteq picks /\ picks \subseteq shown
        /\ Cardinality(picks) = Limit \/ picks = shown \/ q.crowded
    BY <1>2, <2>1, <2>2, FallbackTaken DEF ShortsInv
  <2>4. q.today = day /\ OfDay(q.today) \subseteq q.picks /\ Eligible(q.today) \subseteq q.picks
    BY <2>1, <2>2 DEF Found
  <2>5. OfDay(q.today) \subseteq picks /\ Eligible(q.today) \subseteq picks
    BY <2>3, <2>4
  <2>6. picks = {} => picks \in FirstOf(OfDay(q.today), Limit)
    BY <2>5, FS_EmptySet DEF FirstOf
  <2> HIDE DEF t, q
  <2> QED
    BY <1>4, <2>3, <2>4, <2>5, <2>6 DEF Found, Enough
<1> HIDE DEF t, q
<1> QED
  BY <1>2, <1>3, <1>4, <1>5, <1>6, OwnStep

(* The others of BuildShorts' own steps: an error, the end, a transaction   *)
(* that is rolled back.                                                     *)
LEMMA EndStep ==
  ASSUME ShortsInv, NEW r \in Calls, QueryFails(r) \/ MarkFails(r) \/ Finish(r)
  PROVE  ShortsInv'
<1> USE DailyShortsAssumption
<1> DEFINE q == task[r]
<1>1. /\ q \in Tasks /\ q.today <= day /\ day \in Nat /\ Cardinality(q.picks) <= Limit
      /\ UNCHANGED <<day, shown, mark, edits>> /\ task \in [Calls -> Tasks]
  BY DEF ShortsInv, ShortsTypeOK, Days, QueryFails, MarkFails, Finish
<1>2. Cardinality({}) = 0 /\ 0 \in Days
  BY FS_EmptySet DEF Days
<1>3. CASE QueryFails(r)
  <2> DEFINE t == [q EXCEPT !.pc = "failed", !.picks = {}]
  <2>1. /\ t.pc = "failed" /\ t.picks = {} /\ t.today = q.today /\ t \in Tasks
        /\ t.overtaken = q.overtaken /\ t.cut = q.cut
    BY <1>1 DEF Tasks
  <2>2. task' = [task EXCEPT ![r] = t] /\ q.pc \in {"today", "eligible", "fallback"}
    BY <1>1, <1>3 DEF QueryFails
  <2>3. ASSUME ~t.overtaken, ~t.cut PROVE Found(t)
    <3>1. q.today = day
      BY <2>1, <2>2, <2>3 DEF ShortsInv, Sound, Clean, Found
    <3> HIDE DEF t, q
    <3> QED
      BY <2>1, <3>1 DEF Found
  <2>4. Cardinality(t.picks) <= Limit
    BY <1>2, <2>1
  <2> HIDE DEF t, q
  <2> QED
    BY <1>1, <2>1, <2>2, <2>3, <2>4, OwnStep
<1>4. CASE MarkFails(r)
  <2> DEFINE t == [q EXCEPT !.pc = "done"]
  <2>1. /\ t.pc = "done" /\ t.picks = q.picks /\ t.today = q.today /\ t \in Tasks
        /\ t.overtaken = q.overtaken /\ t.cut = q.cut /\ t.crowded = q.crowded
    BY <1>1 DEF Tasks
  <2>2. task' = [task EXCEPT ![r] = t] /\ q.pc = "mark"
    BY <1>1, <1>4 DEF MarkFails
  <2>3. ASSUME ~t.overtaken, ~t.cut PROVE Found(t)
    <3>1. Found(q)
      BY <2>1, <2>2, <2>3 DEF ShortsInv, Sound, Clean
    <3>2. q.picks \subseteq OfDay(q.today) => q.picks \in FirstOf(OfDay(q.today), Limit)
      BY <1>1, <2>2, <3>1 DEF Found, FirstOf
    <3> HIDE DEF t
    <3> QED
      BY <2>1, <2>2, <3>1, <3>2 DEF Found, Enough
  <2> HIDE DEF t, q
  <2> QED
    BY <1>1, <2>1, <2>2, <2>3, OwnStep
<1>5. CASE Finish(r)
  <2>1. task' = [task EXCEPT ![r] = NoCall]
    BY <1>5 DEF Finish
  <2>2. NoCall \in Tasks /\ NoCall.today <= day /\ Cardinality(NoCall.picks) <= Limit /\ NoCall.pc = "idle"
    BY <1>1, <1>2 DEF NoCall, Tasks
  <2> HIDE DEF q
  <2> QED
    BY <1>1, <2>1, <2>2, OwnStep
<1> QED
  BY <1>3, <1>4, <1>5

-----------------------------------------------------------------------------
(* What overtakes a call leaves it what it is, and asks nothing of it.      *)
LEMMA Overtaken ==
  ASSUME ShortsInv, NEW s \in Calls, task'[s] = [task[s] EXCEPT !.overtaken = TRUE],
         task[s].pc \notin {"idle"}
  PROVE  /\ Sound(s)'
         /\ task'[s] \in Tasks /\ task'[s].today = task[s].today
         /\ task'[s].picks = task[s].picks
<1>1. task[s] \in Tasks
  BY DEF ShortsInv, ShortsTypeOK
<1>2. /\ task'[s] \in Tasks /\ task'[s].today = task[s].today
      /\ task'[s].picks = task[s].picks /\ task'[s].pc = task[s].pc
      /\ task'[s].cut = task[s].cut /\ task'[s].overtaken = TRUE
  BY <1>1 DEF Tasks
<1>3. task[s].pc = "today" => ~task[s].cut
  BY DEF ShortsInv, Sound
<1> QED
  BY <1>2, <1>3 DEF Sound, Clean

(* A call that has read nothing yet is not disturbed, while its day lasts.  *)
LEMMA NotYetBegun ==
  ASSUME ShortsInv, NEW s \in Calls, task'[s] = task[s], task[s].pc \in {"idle", "today"},
         day' = day
  PROVE  Sound(s)'
BY DEF ShortsInv, Sound, Clean, Found

(* The marks are the day's picks and no others.                             *)
LEMMA Marked ==
  ASSUME ShortsInv, NEW r \in Calls, Mark(r), Clean(r)
  PROVE  OfDay(task[r].today)' = task[r].picks
<1>1. Found(task[r]) /\ task[r].pc = "mark"
  BY DEF ShortsInv, Sound, Mark
<1>2. mark' = [b \in Books |-> IF b \in task[r].picks THEN task[r].today ELSE mark[b]]
      /\ shown' = shown /\ shown \subseteq Books
  BY DEF Mark, ShortsInv, ShortsTypeOK
<1>3. task'[r].today = task[r].today
  <2>1. task \in [Calls -> Tasks]
    BY DEF ShortsInv, ShortsTypeOK
  <2>2. task' = [Overtake(r) EXCEPT ![r].pc = "done"]
    BY DEF Mark
  <2> QED
    BY <2>1, <2>2 DEF Overtake, Tasks
<1>4. OfDay(task[r].today) \subseteq task[r].picks /\ task[r].picks \subseteq shown
  BY <1>1 DEF Found
<1> QED
  BY <1>2, <1>3, <1>4 DEF OfDay

LEMMA MarkStep ==
  ASSUME ShortsInv, NEW r \in Calls, Mark(r)
  PROVE  ShortsInv'
<1> USE DailyShortsAssumption
<1> DEFINE q == task[r]
<1>1. /\ q \in Tasks /\ q.today <= day /\ day \in Nat /\ q.today \in Nat
      /\ Cardinality(q.picks) <= Limit /\ q.pc = "mark" /\ task \in [Calls -> Tasks]
      /\ UNCHANGED <<day, shown, edits>>
  BY DEF ShortsInv, ShortsTypeOK, Days, Mark, Tasks
<1>2. \A s \in Calls : s # r =>
        task'[s] = IF task[s].pc \in {"idle", "today"} THEN task[s]
                   ELSE [task[s] EXCEPT !.overtaken = TRUE]
  BY <1>1 DEF Mark, Overtake
<1>3. task'[r] = [q EXCEPT !.pc = "done"]
  BY <1>1 DEF Mark, Overtake
<1>4. /\ task'[r].pc = "done" /\ task'[r].today = q.today /\ task'[r].picks = q.picks
      /\ task'[r].overtaken = q.overtaken /\ task'[r].cut = q.cut
      /\ task'[r].crowded = q.crowded /\ task'[r] \in Tasks
  BY <1>1, <1>3 DEF Tasks
<1>5. ASSUME NEW s \in Calls, s # r
      PROVE  /\ Sound(s)' /\ task'[s] \in Tasks /\ task'[s].today = task[s].today
             /\ task'[s].picks = task[s].picks
  <2>1. CASE task[s].pc \in {"idle", "today"}
    BY <1>1, <1>2, <1>5, <2>1, NotYetBegun
  <2>2. CASE task[s].pc \notin {"idle", "today"}
    BY <1>2, <1>5, <2>2, Overtaken
  <2> QED
    BY <2>1, <2>2
<1>6. Sound(r)'
  <2> SUFFICES ASSUME Clean(r) PROVE Found(task[r])'
    BY <1>4 DEF Sound, Clean
  <2>1. Found(q)
    BY <1>1 DEF ShortsInv, Sound
  <2>2. OfDay(q.today)' = q.picks
    BY Marked
  <2>3. q.picks \in SUBSET q.picks /\ Cardinality(q.picks) <= Limit
    BY <1>1
  <2>4. task'[r].picks \in FirstOf(OfDay(task[r].today), Limit)'
    BY <1>4, <2>2, <2>3 DEF FirstOf
  <2> QED
    BY <1>1, <1>4, <2>1, <2>4 DEF Found, Enough
<1>7. ShortsTypeOK'
  <2>1. mark' \in [Books -> 0 .. day \cup {Never}]
    <3>1. mark \in [Books -> 0 .. day \cup {Never}]
      BY DEF ShortsInv, ShortsTypeOK
    <3>2. mark' = [b \in Books |-> IF b \in q.picks THEN q.today ELSE mark[b]]
      BY DEF Mark
    <3>3. q.today \in 0 .. day
      BY <1>1
    <3> HIDE DEF q
    <3> QED
      BY <3>1, <3>2, <3>3
  <2>2. \A s \in Calls : /\ task'[s] \in Tasks /\ task'[s].today = task[s].today
                             /\ task'[s].picks = task[s].picks
    BY <1>4, <1>5
  <2>3. task' \in [Calls -> Tasks]
    <3>1. DOMAIN task' = Calls /\ task' = [s \in Calls |-> task'[s]]
      BY <1>1 DEF Mark, Overtake
    <3> QED
      BY <2>2, <3>1
  <2> QED
    BY <1>1, <2>1, <2>2, <2>3 DEF ShortsInv, ShortsTypeOK
<1> QED
  BY <1>5, <1>6, <1>7 DEF ShortsInv

(* Midnight and an administrator's change.                                  *)
LEMMA OthersStep ==
  ASSUME ShortsInv, NextDay \/ \E b \in Books : Edit(b)
  PROVE  ShortsInv'
<1> USE DailyShortsAssumption
<1>1. task \in [Calls -> Tasks] /\ day \in Days /\ shown \subseteq Books
      /\ mark \in [Books -> 0 .. day \cup {Never}] /\ edits \in 0 .. MaxEdits
      /\ \A s \in Calls : task[s].today <= day /\ Cardinality(task[s].picks) <= Limit
  BY DEF ShortsInv, ShortsTypeOK
<1>2. NoCall \in Tasks /\ NoCall.pc = "idle" /\ NoCall.today = 0 /\ Cardinality(NoCall.picks) = 0
  BY FS_EmptySet DEF NoCall, Tasks, Days
<1>3. ASSUME NEW s \in Calls
      PROVE  /\ Sound(s)' /\ task'[s] \in Tasks /\ task'[s].today <= day'
             /\ Cardinality(task'[s].picks) <= Limit
  <2>0. task[s] \in Tasks /\ task[s].today <= day /\ Cardinality(task[s].picks) <= Limit
    BY <1>1
  <2>1. CASE NextDay
    <3>1. /\ task'[s] = (IF task[s].pc = "idle" THEN NoCall
                         ELSE [task[s] EXCEPT !.overtaken = TRUE])
          /\ day' = day + 1
      BY <2>1 DEF NextDay
    <3>2. task[s].today \in Days
      BY <2>0 DEF Tasks
    <3>3. 0 <= day' /\ task[s].today <= day' /\ Cardinality(NoCall.picks) <= Limit
      <4>1. day' = day + 1 /\ day \in Nat /\ task[s].today \in Nat
        BY <1>1, <3>1, <3>2 DEF Days
      <4> QED
        BY <1>2, <2>0, <4>1
    <3>4. CASE task[s].pc = "idle"
      <4>1. task'[s] = NoCall
        BY <3>1, <3>4
      <4>2. NoCall.today <= day'
        BY <1>2, <3>3
      <4> QED
        BY <1>2, <3>3, <4>1, <4>2 DEF Sound
    <3>5. CASE task[s].pc # "idle"
      BY <2>0, <3>1, <3>3, <3>5, Overtaken
    <3> QED
      BY <3>4, <3>5
  <2>2. CASE \E b \in Books : Edit(b)
    <3>1. task'[s] = (IF task[s].pc \in {"idle", "today"} THEN task[s]
                      ELSE [task[s] EXCEPT !.overtaken = TRUE])
          /\ day' = day
      BY <2>2 DEF Edit
    <3>2. CASE task[s].pc \in {"idle", "today"}
      BY <2>0, <3>1, <3>2, NotYetBegun
    <3>3. CASE task[s].pc \notin {"idle", "today"}
      BY <2>0, <3>1, <3>3, Overtaken
    <3> QED
      BY <3>2, <3>3
  <2> QED
    BY <2>1, <2>2
<1>4. task' \in [Calls -> Tasks]
  <2>1. task' = [s \in Calls |-> task'[s]]
    BY DEF NextDay, Edit
  <2> QED
    BY <1>3, <2>1
<1>5. /\ day' \in Days /\ edits' \in 0 .. MaxEdits /\ shown' \subseteq Books
      /\ mark' \in [Books -> 0 .. day' \cup {Never}]
  <2>1. CASE NextDay
    <3>1. day' = day + 1 /\ day < MaxDay /\ UNCHANGED <<shown, mark, edits>>
      BY <2>1 DEF NextDay
    <3>2. 0 .. day \subseteq 0 .. day' /\ day' \in Days
      BY <1>1, <3>1 DEF Days
    <3> QED
      BY <1>1, <3>1, <3>2
  <2>2. ASSUME NEW b \in Books, Edit(b)
        PROVE  /\ UNCHANGED <<day, mark>> /\ shown' \subseteq Books
               /\ edits' \in 0 .. MaxEdits
    BY <1>1, <2>2 DEF Edit
  <2> QED
    BY <1>1, <2>1, <2>2
<1> QED
  BY <1>3, <1>4, <1>5 DEF ShortsInv, ShortsTypeOK

LEMMA ShortsInvariant == ShortsSpec => []ShortsInv
<1>1. ShortsInv /\ [ShortsNext]_shortsVars => ShortsInv'
  <2> SUFFICES ASSUME ShortsInv, [ShortsNext]_shortsVars PROVE ShortsInv'
    OBVIOUS
  <2>1. ASSUME NEW r \in Calls, BuildShorts(r) PROVE ShortsInv'
    BY <2>1, BeginStep, ReadTodayStep, ReadEligibleStep, ReadFallbackStep, EndStep, MarkStep
       DEF BuildShorts
  <2>2. CASE NextDay \/ \E b \in Books : Edit(b)
    BY <2>2, OthersStep
  <2>3. CASE UNCHANGED shortsVars
    <3>1. ShortsTypeOK'
      BY <2>3 DEF shortsVars, ShortsInv, ShortsTypeOK
    <3>2. ASSUME NEW r \in Calls PROVE Sound(r)'
      <4>1. Sound(r)
        BY DEF ShortsInv
      <4> QED
        BY <2>3, <4>1 DEF shortsVars, Sound, Clean, Found, Enough, OfDay, Eligible, Crowded, Resting,
                          FirstOf, Before
    <3> QED
      BY <3>1, <3>2 DEF ShortsInv
  <2> QED
    BY <2>1, <2>2, <2>3 DEF ShortsNext
<1> QED
  BY <1>1, ShortsInitInv, PTL DEF ShortsSpec

(* What is marked is marked by Mark.                                        *)
LEMMA MarksIsMark ==
  ASSUME ShortsInv, [ShortsNext]_shortsVars, NEW r \in Calls, Marks(r)
  PROVE  Mark(r)
<1>1. /\ task \in [Calls -> Tasks] /\ task[r].pc = "mark" /\ task'[r].pc = "done"
      /\ mark' # mark
  BY DEF ShortsInv, ShortsTypeOK, Marks
<1>2. ASSUME NEW s \in Calls, Mark(s), s # r PROVE FALSE
  <2>1. task'[r] = Overtake(s)[r]
    BY <1>1, <1>2 DEF Mark, Overtake
  <2>2. Overtake(s)[r].pc = "mark"
    BY <1>1, <1>2 DEF Overtake, Tasks
  <2> QED
    BY <1>1, <2>1, <2>2
<1>3. ASSUME NEW s \in Calls, BuildShorts(s) PROVE Mark(s)
  BY <1>1, <1>3 DEF BuildShorts, Begin, ReadToday, ReadEligible, ReadFallback, QueryFails,
                    MarkFails, Finish
<1> QED
  BY <1>1, <1>2, <1>3 DEF ShortsNext, NextDay, Edit, shortsVars

-----------------------------------------------------------------------------
(* The state is what its comments say, and no call has picked more than the *)
(* limit, whatever overtook it.                                             *)
THEOREM ShortsTypeCorrect == ShortsSpec => []ShortsTypeOK
<1>1. ShortsInv => ShortsTypeOK
  BY DEF ShortsInv
<1> QED
  BY <1>1, ShortsInvariant, PTL

(* Who was not overtaken brings the day's picks up to the limit, not above. *)
THEOREM LimitIsKept == ShortsSpec => LimitKept
<1>1. ASSUME ShortsInv, [ShortsNext]_shortsVars, NEW r \in Calls, Marks(r), Clean(r)
      PROVE  /\ OfDay(task[r].today) \subseteq OfDay(task[r].today)'
             /\ Cardinality(OfDay(task[r].today)') <= Limit
  <2>1. Mark(r)
    BY <1>1, MarksIsMark
  <2>2. OfDay(task[r].today)' = task[r].picks
    BY <1>1, <2>1, Marked
  <2>3. Cardinality(task[r].picks) <= Limit
    BY <1>1 DEF ShortsInv, ShortsTypeOK
  <2>4. OfDay(task[r].today) \subseteq task[r].picks
    BY <1>1, <2>1 DEF Mark, ShortsInv, Sound, Found
  <2> QED
    BY <2>2, <2>3, <2>4
<1>2. ShortsInv /\ [ShortsNext]_shortsVars =>
        [\A r \in Calls : Marks(r) /\ Clean(r) =>
           /\ OfDay(task[r].today) \subseteq OfDay(task[r].today)'
           /\ Cardinality(OfDay(task[r].today)') <= Limit]_shortsVars
  BY <1>1
<1> QED
  BY <1>2, ShortsInvariant, PTL DEF ShortsSpec, LimitKept

(* A book at rest is featured when there is no other, and only then.        *)
THEOREM CooldownIsKept == ShortsSpec => CooldownKept
<1>1. ASSUME ShortsInv, [ShortsNext]_shortsVars, NEW r \in Calls, Marks(r), Clean(r)
      PROVE  \/ \A b \in Books : mark'[b] # mark[b] => ~Resting(b, task[r].today)
             \/ Eligible(task[r].today)' = {}
  <2>1. Mark(r)
    BY <1>1, MarksIsMark
  <2>2. task[r].pc = "mark" /\ Found(task[r])
    BY <1>1, <2>1 DEF Mark, ShortsInv, Sound
  <2>3. \A b \in Books : mark'[b] = IF b \in task[r].picks THEN task[r].today ELSE mark[b]
    BY <2>1 DEF Mark
  <2>4. CASE \A b \in task[r].picks : ~Resting(b, task[r].today)
    BY <2>3, <2>4
  <2>5. CASE Eligible(task[r].today) \subseteq task[r].picks
    <3>1. task'[r].today = task[r].today /\ shown' = shown /\ shown \subseteq Books
      <4>1. task \in [Calls -> Tasks] /\ shown \subseteq Books
        BY <1>1 DEF ShortsInv, ShortsTypeOK
      <4>2. task' = [Overtake(r) EXCEPT ![r].pc = "done"] /\ shown' = shown
        BY <2>1 DEF Mark
      <4>3. task'[r] = [task[r] EXCEPT !.pc = "done"]
        BY <4>1, <4>2 DEF Overtake
      <4> QED
        BY <4>1, <4>2, <4>3 DEF Tasks
    <3>2. task[r].today \in Nat /\ Cooldown \in Nat
      <4>1. task[r] \in Tasks
        BY <1>1 DEF ShortsInv, ShortsTypeOK
      <4>2. task[r].today \in Days
        BY <4>1 DEF Tasks
      <4> QED
        BY <4>2, DailyShortsAssumption DEF Days
    <3>3. ASSUME NEW b \in shown
          PROVE  ~(mark'[b] = Never \/ mark'[b] < task[r].today - Cooldown)
      <4>1. b \in Books
        BY <3>1, <3>3
      <4>2. CASE b \in task[r].picks
        BY <2>3, <3>2, <4>1, <4>2 DEF Never
      <4>3. CASE b \notin task[r].picks
        BY <2>3, <2>5, <3>3, <4>1, <4>3 DEF Eligible
      <4> QED
        BY <4>2, <4>3
    <3> QED
      BY <3>1, <3>3 DEF Eligible
  <2> QED
    BY <2>2, <2>4, <2>5 DEF Found
<1>2. ShortsInv /\ [ShortsNext]_shortsVars =>
        [\A r \in Calls : Marks(r) /\ Clean(r) =>
           \/ \A b \in Books : mark'[b] # mark[b] => ~Resting(b, task[r].today)
           \/ Eligible(task[r].today)' = {}]_shortsVars
  BY <1>1
<1> QED
  BY <1>2, ShortsInvariant, PTL DEF ShortsSpec, CooldownKept

(* There are as many shorts as there can be, unless the fallback's window   *)
(* is taken up by books that are picked already.                            *)
THEOREM DayIsFilled == ShortsSpec => []Filled
<1>1. ShortsInv => Filled
  BY DEF ShortsInv, Sound, Found, Enough, Filled
<1> QED
  BY <1>1, ShortsInvariant, PTL

(* Everybody sees the same shorts on a day.                                 *)
THEOREM SameShortsForAll == ShortsSpec => []SameForAll
<1>1. ShortsInv => SameForAll
  <2> SUFFICES ASSUME ShortsInv, NEW r \in Calls, NEW s \in Calls,
                      task[r].pc = "done", Clean(r),
                      task[r].picks \subseteq OfDay(task[r].today),
                      task[s].pc = "done", Clean(s),
                      task[s].picks \subseteq OfDay(task[s].today),
                      task[r].today = task[s].today
               PROVE  task[r].picks = task[s].picks
    BY DEF SameForAll
  <2>1. /\ task[r].picks \in FirstOf(OfDay(task[r].today), Limit)
        /\ task[s].picks \in FirstOf(OfDay(task[r].today), Limit)
    <3>1. Found(task[r]) /\ Found(task[s])
      BY DEF ShortsInv, Sound
    <3> QED
      BY <3>1 DEF Found
  <2>2. OfDay(task[r].today) \in SUBSET Books /\ ShortsTypeOK /\ Limit \in Nat
    BY DailyShortsAssumption DEF ShortsInv, ShortsTypeOK, OfDay
  <2> QED
    BY <2>1, <2>2, FirstUnique
<1> QED
  BY <1>1, ShortsInvariant, PTL
=============================================================================
