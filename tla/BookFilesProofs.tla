-------------------------- MODULE BookFilesProofs --------------------------
(***************************************************************************)
(* Theorems about BookFiles, for any number of books, slugs, requests and  *)
(* seconds, whatever fails.                                                *)
(***************************************************************************)
EXTENDS BookFiles, TLAPS

-----------------------------------------------------------------------------
(* What a request holds at each of its program points. *)

PointOK(q) ==
  \/ q.op = "upload"  /\ q.pc \in {"pick", "put", "write", "dropOld", "cleanup"}
  \/ q.op = "presign" /\ q.pc \in {"pick", "write", "dropOld"}
  \/ q.op = "create"  /\ q.pc \in {"pick", "put", "insert", "attach", "cleanup"}
  \/ q.op = "delete"  /\ q.pc \in {"delete", "dropOld"}

(* An upload deals with one slot, a presign with the audio. *)
OneSlot(q) ==
  q.op \in {"upload", "presign"} =>
    \E s \in Slots : /\ q.left = {s}
                     /\ \A t \in Slots : t # s => q.key[t] = None /\ q.old[t] = None

(* The slots left have no key yet, but for the one being dealt with. *)
LeftOK(q) ==
  /\ q.pc = "pick" => q.left # {} /\ \A t \in q.left : q.key[t] = None
  /\ q.pc \in {"put", "write"} =>
       /\ q.left # {} /\ q.key[Current(q)] # None
       /\ \A t \in q.left : t # Current(q) => q.key[t] = None

KeysOK(q) ==
  /\ \A s \in Slots : /\ q.key[s] # None => q.key[s] \in picked
                      /\ q.old[s] # None => q.old[s] \in picked
  /\ q.op = "presign" => q.left = {"audio"}
  /\ q.op = "create" => q.old = NoKeys
  /\ q.op = "delete" => q.key = NoKeys

RequestOK(q) ==
  /\ q.pc = "idle" => q.key = NoKeys
  /\ q.pc # "idle" =>
       /\ PointOK(q) /\ OneSlot(q) /\ LeftOK(q) /\ KeysOK(q)
       /\ q.slug \in Slugs
       /\ q.op # "create" => q.id \in Ids
       /\ q.pc = "attach" => q.id \in Ids /\ q.id <= created /\ q.key # NoKeys

RequestsOK ==
  /\ req \in [Requests -> RequestStates]
  /\ \A r \in Requests : RequestOK(req[r])

RowsOK ==
  /\ row \in [Ids -> Rows \cup {None}]
  /\ created \in 0 .. MaxRows
  /\ \A i \in Ids : row[i] # None =>
       /\ i <= created
       /\ \A s \in Slots : row[i].files[s] # None => row[i].files[s] \in picked
  /\ \A i, j \in Ids : row[i] # None /\ Named(j, row[i].slug) => i = j

StoresOK ==
  /\ clock \in 0 .. MaxClock /\ begun \in 0 .. MaxRequests
  /\ objects \subseteq picked /\ awaited \subseteq handed /\ handed \subseteq picked
  /\ doubtful \subseteq picked /\ abandoned \subseteq objects /\ picked \subseteq Keys

TypeInv == RequestsOK /\ RowsOK /\ StoresOK

LEMMA NoKeysFacts == NoKeys \in Files /\ \A s \in Slots : NoKeys[s] = None
BY DEF NoKeys, Files

LEMMA KeysInFacts == \A f, k : k \in KeysIn(f) <=> k # None /\ \E s \in Slots : f[s] = k
BY DEF KeysIn

LEMMA CurrentFacts ==
  ASSUME NEW q \in RequestStates
  PROVE  /\ Current(q) \in Slots
         /\ q.left # {} => Current(q) \in q.left
BY DEF RequestStates, Current, Slots

LEMMA IdleFacts == Idle \in RequestStates /\ Idle.pc = "idle" /\ Idle.key = NoKeys /\ Idle.old = NoKeys
BY NoKeysFacts, BookFilesAssumption DEF Idle, RequestStates

LEMMA TypeInvTypeOK == TypeInv => TypeOK
<1> SUFFICES ASSUME TypeInv PROVE TypeOK
  OBVIOUS
<1>1. ASSUME NEW r \in Requests
      PROVE  /\ req[r].pc \in {"put", "write"} => /\ req[r].left # {}
                                                  /\ req[r].key[Current(req[r])] \in picked
             /\ req[r].pc = "attach" => req[r].id # 0 /\ req[r].key # NoKeys
  <2>1. RequestOK(req[r]) /\ req[r] \in RequestStates
    BY DEF TypeInv, RequestsOK
  <2>2. Current(req[r]) \in Slots
    BY <2>1, CurrentFacts
  <2> QED
    BY <2>1, <2>2, BookFilesAssumption DEF RequestOK, LeftOK, KeysOK, Ids
<1> QED
  BY <1>1 DEF TypeInv, RequestsOK, RowsOK, StoresOK, TypeOK

LEMMA InitTypeInv == Init => TypeInv
<1> SUFFICES ASSUME Init PROVE TypeInv
  OBVIOUS
<1> USE BookFilesAssumption
<1>1. RequestsOK
  BY IdleFacts DEF Init, RequestsOK, RequestOK
<1>2. RowsOK /\ StoresOK
  BY DEF Init, RowsOK, StoresOK, Named
<1> QED
  BY <1>1, <1>2 DEF TypeInv

(* One request moves on, with what it needs; the others keep what they had. *)
LEMMA MoveOn ==
  ASSUME RequestsOK, NEW r \in Requests, NEW q \in RequestStates, Become(r, q), RequestOK(q)',
         picked \subseteq picked',
         created \in Nat, created' \in Nat, created <= created'
  PROVE  RequestsOK'
<1>1. /\ req' \in [Requests -> RequestStates]
      /\ \A s \in Requests : req'[s] = IF s = r THEN q ELSE req[s]
  BY DEF RequestsOK, Become
<1>2. ASSUME NEW s \in Requests, s # r
      PROVE  RequestOK(req[s])'
  <2>1. RequestOK(req[s]) /\ req'[s] = req[s]
    BY <1>1, <1>2 DEF RequestsOK
  <2>2. req[s].pc # "idle" => KeysOK(req[s])'
    BY <2>1 DEF RequestOK, KeysOK
  <2> QED
    BY <2>1, <2>2, BookFilesAssumption
       DEF RequestOK, PointOK, OneSlot, LeftOK, Current, Ids
<1> QED
  BY <1>1, <1>2 DEF RequestsOK

(* ... as does everyone when no request moves. *)
LEMMA StandStill ==
  ASSUME RequestsOK, UNCHANGED <<req, picked, created>>
  PROVE  RequestsOK'
BY DEF RequestsOK, RequestOK, PointOK, OneSlot, LeftOK, KeysOK, Current

LEMMA LetGo ==
  ASSUME RequestsOK, NEW r \in Requests, Become(r, Idle), UNCHANGED <<picked, created>>,
         created \in Nat
  PROVE  RequestsOK'
BY IdleFacts, MoveOn DEF RequestOK

LEMMA StartStep ==
  ASSUME TypeInv, NEW r \in Requests, NEW q \in RequestStates, Start(r, q),
         UNCHANGED <<row, objects, handed, clock, created, picked, awaited, doubtful, abandoned>>,
         RequestOK(q)
  PROVE  TypeInv'
<1>1. RequestOK(q)'
  BY DEF RequestOK, PointOK, OneSlot, LeftOK, KeysOK, Current
<1>2. RequestsOK'
  <2>1. RequestsOK /\ Become(r, q) /\ created \in Nat
    BY BookFilesAssumption DEF TypeInv, RowsOK, Start, Become
  <2> QED
    BY <1>1, <2>1, MoveOn
<1>3. begun' \in 0 .. MaxRequests
  BY BookFilesAssumption DEF Start, TypeInv, StoresOK
<1>4. RowsOK' /\ StoresOK'
  BY <1>3 DEF TypeInv, RowsOK, StoresOK, Named
<1> QED
  BY <1>2, <1>4 DEF TypeInv

(* An upload for a book that exists. *)
LEMMA ReplacingFacts ==
  ASSUME TypeInv, NEW i \in Ids, row[i] # None, NEW op \in {"upload", "presign"}, NEW slot \in Slots,
         op = "presign" => slot = "audio"
  PROVE  /\ Replacing(i, op, slot) \in RequestStates
         /\ RequestOK(Replacing(i, op, slot))
         /\ Replacing(i, op, slot).pc = "pick" /\ Replacing(i, op, slot).id = i
         /\ Replacing(i, op, slot).op = op
         /\ Replacing(i, op, slot).left = {slot}
         /\ Replacing(i, op, slot).key = NoKeys
         /\ Replacing(i, op, slot).old[slot] = row[i].files[slot]
         /\ \A t \in Slots : t # slot => Replacing(i, op, slot).old[t] = None
<1> DEFINE q == Replacing(i, op, slot)
<1>1. row[i] \in Rows /\ row[i].slug \in Slugs /\ row[i].files \in Files
  BY DEF TypeInv, RowsOK, Rows
<1>2. row[i].files[slot] # None => row[i].files[slot] \in picked
  BY DEF TypeInv, RowsOK
<1>3. /\ q.pc = "pick" /\ q.op = op /\ q.slug = row[i].slug /\ q.id = i /\ q.left = {slot}
      /\ q.key = NoKeys /\ q.old = [NoKeys EXCEPT ![slot] = row[i].files[slot]]
  BY DEF Replacing, Idle
<1>4. /\ q.old \in Files /\ q.old[slot] = row[i].files[slot]
      /\ \A t \in Slots : t # slot => q.old[t] = None
  BY <1>1, <1>3, NoKeysFacts DEF Files
<1>5. q \in RequestStates
  <2> DEFINE f == [NoKeys EXCEPT ![slot] = row[i].files[slot]]
  <2>1. f \in Files /\ i \in 0 .. MaxRows /\ {slot} \in SUBSET Slots
    BY <1>3, <1>4, BookFilesAssumption DEF Ids
  <2>2. q = [Idle EXCEPT !.pc = "pick", !.op = op, !.slug = row[i].slug, !.id = i,
                         !.left = {slot}, !.old = f]
    BY DEF Replacing
  <2> HIDE DEF f, q
  <2> QED
    BY <1>1, <2>1, <2>2, IdleFacts DEF RequestStates
<1> HIDE DEF q
<1>6. RequestOK(q)
  BY <1>1, <1>2, <1>3, <1>4, NoKeysFacts DEF RequestOK, PointOK, OneSlot, LeftOK, KeysOK, Slots
<1> QED
  BY <1>3, <1>4, <1>5, <1>6 DEF q

LEMMA DeletingFacts ==
  ASSUME TypeInv, NEW r \in Requests, NEW i \in Ids, StartDelete(r, i)
  PROVE  \E q \in RequestStates :
           /\ Start(r, q) /\ RequestOK(q)
           /\ q.pc = "delete" /\ q.op = "delete" /\ q.id = i /\ q.key = NoKeys
           /\ q.old = row[i].files /\ row[i] # None
<1> DEFINE q == [Idle EXCEPT !.pc = "delete", !.op = "delete", !.slug = row[i].slug,
                             !.id = i, !.old = row[i].files]
<1>1. row[i] # None /\ Start(r, q)
  BY DEF StartDelete
<1>2. row[i].slug \in Slugs /\ row[i].files \in Files
  BY <1>1 DEF TypeInv, RowsOK, Rows
<1>3. /\ q.pc = "delete" /\ q.op = "delete" /\ q.slug = row[i].slug /\ q.id = i
      /\ q.key = NoKeys /\ q.old = row[i].files
  BY DEF Idle
<1>4. q \in RequestStates
  <2>1. i \in 0 .. MaxRows
    BY BookFilesAssumption DEF Ids
  <2> QED
    BY <1>2, <2>1, IdleFacts DEF RequestStates
<1> HIDE DEF q
<1>5. RequestOK(q)
  BY <1>1, <1>2, <1>3, NoKeysFacts
     DEF RequestOK, PointOK, OneSlot, LeftOK, KeysOK, TypeInv, RowsOK
<1> QED
  BY <1>1, <1>3, <1>4, <1>5

LEMMA CreatingFacts ==
  ASSUME NEW r \in Requests, NEW s \in FirstSlugs, NEW files \in SUBSET Slots,
         StartCreate(r, s, files)
  PROVE  \E q \in RequestStates :
           /\ Start(r, q) /\ RequestOK(q)
           /\ q.pc \in {"pick", "insert"} /\ q.op = "create" /\ q.key = NoKeys /\ q.old = NoKeys
<1> DEFINE pc == IF files = {} THEN "insert" ELSE "pick"
           q == [Idle EXCEPT !.pc = pc, !.op = "create", !.slug = s, !.left = files]
<1>1. Start(r, q)
  BY DEF StartCreate
<1>2. q.pc = pc /\ q.op = "create" /\ q.slug = s /\ q.left = files
      /\ q.key = NoKeys /\ q.old = NoKeys
  BY DEF Idle
<1>3. s \in Slugs /\ pc \in {"insert", "pick"} /\ (pc = "pick" => files # {})
  BY BookFilesAssumption
<1>4. q \in RequestStates
  BY <1>3, IdleFacts DEF RequestStates
<1> HIDE DEF q
<1>5. RequestOK(q)
  BY <1>2, <1>3, NoKeysFacts DEF RequestOK, PointOK, OneSlot, LeftOK, KeysOK
<1> QED
  BY <1>1, <1>2, <1>3, <1>4, <1>5

(* Any request that starts. *)
Starts(r) ==
  \/ \E i \in Ids : StartCover(r, i) \/ StartAudio(r, i) \/ StartPresign(r, i)
  \/ \E s \in FirstSlugs, files \in SUBSET Slots : StartCreate(r, s, files)
  \/ \E i \in Ids : StartDelete(r, i)

(* What it starts with: nothing of its own, and the keys it will replace or *)
(* delete as they are in the row.                                           *)
LEMMA StartFacts ==
  ASSUME TypeInv, NEW r \in Requests, Starts(r)
  PROVE  /\ UNCHANGED <<row, objects, handed, clock, created, picked, awaited, doubtful, abandoned>>
         /\ \E q \in RequestStates :
              /\ Start(r, q) /\ RequestOK(q) /\ q.key = NoKeys
              /\ q.pc \in {"pick", "insert", "delete"}
              /\ \/ /\ q.op = "create" /\ q.old = NoKeys
                 \/ /\ q.op \in {"upload", "presign"} /\ q.pc = "pick"
                    /\ q.id \in Ids /\ row[q.id] # None
                    /\ \E s \in Slots : /\ q.left = {s} /\ q.old[s] = row[q.id].files[s]
                                        /\ \A t \in Slots : t # s => q.old[t] = None
                 \/ /\ q.op = "delete" /\ q.pc = "delete"
                    /\ q.id \in Ids /\ row[q.id] # None /\ q.old = row[q.id].files
<1>1. ASSUME NEW i \in Ids, StartCover(r, i) \/ StartAudio(r, i) \/ StartPresign(r, i)
      PROVE  \E op \in {"upload", "presign"}, slot \in Slots :
               /\ op = "presign" => slot = "audio"
               /\ row[i] # None /\ Start(r, Replacing(i, op, slot))
  BY <1>1 DEF StartCover, StartAudio, StartPresign, Slots
<1>2. ASSUME NEW i \in Ids, StartCover(r, i) \/ StartAudio(r, i) \/ StartPresign(r, i)
      PROVE  \E q \in RequestStates :
               /\ Start(r, q) /\ RequestOK(q) /\ q.key = NoKeys
               /\ q.op \in {"upload", "presign"} /\ q.pc = "pick"
               /\ q.id \in Ids /\ row[q.id] # None
               /\ \E s \in Slots : /\ q.left = {s} /\ q.old[s] = row[q.id].files[s]
                                   /\ \A t \in Slots : t # s => q.old[t] = None
  <2>1. PICK op \in {"upload", "presign"}, slot \in Slots :
               /\ op = "presign" => slot = "audio"
               /\ row[i] # None /\ Start(r, Replacing(i, op, slot))
    BY <1>1, <1>2
  <2> DEFINE q == Replacing(i, op, slot)
  <2>2. /\ q \in RequestStates /\ RequestOK(q) /\ q.pc = "pick" /\ q.id = i /\ q.op = op
        /\ q.left = {slot} /\ q.key = NoKeys /\ q.old[slot] = row[i].files[slot]
        /\ \A t \in Slots : t # slot => q.old[t] = None
    BY <2>1, ReplacingFacts
  <2>3. Start(r, q) /\ row[i] # None
    BY <2>1
  <2> HIDE DEF q
  <2> QED
    BY <2>2, <2>3
<1>3. UNCHANGED <<row, objects, handed, clock, created, picked, awaited, doubtful, abandoned>>
  BY DEF Starts, StartCover, StartAudio, StartPresign, StartCreate, StartDelete, histories
<1> QED
  BY <1>2, <1>3, DeletingFacts, CreatingFacts DEF Starts

LEMMA StartsType == ASSUME TypeInv, NEW r \in Requests, Starts(r) PROVE TypeInv'
BY StartFacts, StartStep

-----------------------------------------------------------------------------
(* Steps of an upload. *)

(* A request's state but for its key, and point, is what it was. *)
LEMMA PickKeyFacts ==
  ASSUME TypeInv, NEW r \in Requests, PickKey(r)
  PROVE  LET q == req[r]
             s == Current(q)
             k == [prefix |-> Prefix(q.op, s), slug |-> q.slug, at |-> clock]
         IN  /\ q \in RequestStates /\ RequestOK(q) /\ q.pc = "pick" /\ s \in q.left /\ s \in Slots
             /\ k \in Keys /\ k # None
             /\ picked' = picked \cup {k}
             /\ doubtful' = IF k \in picked THEN doubtful \cup {k} ELSE doubtful
             /\ UNCHANGED <<row, objects, handed, clock, created, begun, awaited, abandoned>>
             /\ \E p \in RequestStates :
                  /\ Become(r, p)
                  /\ p.key \in Files /\ p.key[s] = k
                  /\ \A t \in Slots : t # s => p.key[t] = q.key[t]
                  /\ p.pc = IF q.op = "presign" THEN "write" ELSE "put"
                  /\ p.op = q.op /\ p.slug = q.slug /\ p.id = q.id /\ p.left = q.left
                  /\ p.old = q.old
<1> DEFINE q == req[r]
           s == Current(q)
           k == [prefix |-> Prefix(q.op, s), slug |-> q.slug, at |-> clock]
           pc == IF q.op = "presign" THEN "write" ELSE "put"
           p == [q EXCEPT !.key[s] = k, !.pc = pc]
<1>1. q \in RequestStates /\ RequestOK(q) /\ q.pc = "pick" /\ q.left # {} /\ s \in Slots
      /\ s \in q.left /\ q.slug \in Slugs
  BY CurrentFacts DEF TypeInv, RequestsOK, PickKey, RequestOK, LeftOK
<1>2. k \in Keys
  BY <1>1 DEF Keys, Prefix, TypeInv, StoresOK
<1>3. k # None
  BY <1>2, BookFilesAssumption
<1>4. /\ Become(r, p) /\ picked' = picked \cup {k}
      /\ doubtful' = IF k \in picked THEN doubtful \cup {k} ELSE doubtful
      /\ UNCHANGED <<row, objects, handed, clock, created, begun, awaited, abandoned>>
  BY DEF PickKey
<1>5. q.key \in Files
  BY <1>1 DEF RequestStates
<1>6. [q.key EXCEPT ![s] = k] \in Files
  BY <1>1, <1>2, <1>5 DEF Files
<1>7. p = [q EXCEPT !.key = [q.key EXCEPT ![s] = k], !.pc = pc]
  BY <1>1 DEF RequestStates
<1>8. pc \in {"write", "put"}
  OBVIOUS
<1> HIDE DEF k, pc, s
<1>9. p \in RequestStates
  BY <1>1, <1>6, <1>7, <1>8 DEF RequestStates
<1>10. /\ p.key = [q.key EXCEPT ![s] = k] /\ p.pc = pc
       /\ p.op = q.op /\ p.slug = q.slug /\ p.id = q.id /\ p.left = q.left /\ p.old = q.old
  BY <1>1, <1>7 DEF RequestStates
<1> HIDE DEF p
<1>11. p.key[s] = k /\ \A t \in Slots : t # s => p.key[t] = q.key[t]
  BY <1>1, <1>5, <1>10 DEF Files
<1> QED
  BY <1>1, <1>2, <1>3, <1>4, <1>6, <1>9, <1>10, <1>11 DEF s, k, pc

(* A request whose point alone changes. *)
Alike(p, q) ==
  /\ p.op = q.op /\ p.slug = q.slug /\ p.id = q.id
  /\ p.left = q.left /\ p.key = q.key /\ p.old = q.old

LEMMA GotoFacts ==
  ASSUME RequestsOK, NEW r \in Requests,
         NEW pc \in {"write", "attach", "dropOld", "cleanup"}, Goto(r, pc)
  PROVE  \E p \in RequestStates : Become(r, p) /\ p.pc = pc /\ Alike(p, req[r])
<1> DEFINE p == [req[r] EXCEPT !.pc = pc]
<1>1. req[r] \in RequestStates
  BY DEF RequestsOK
<1>2. p \in RequestStates /\ p.pc = pc /\ Alike(p, req[r])
  BY <1>1 DEF RequestStates, Alike
<1>3. Become(r, p)
  BY DEF Goto, Become
<1> QED
  BY <1>2, <1>3

LEMMA PutFacts ==
  ASSUME TypeInv, NEW r \in Requests, Put(r)
  PROVE  LET q == req[r]
             s == Current(q)
         IN  /\ q \in RequestStates /\ RequestOK(q) /\ q.pc = "put" /\ s \in q.left /\ s \in Slots
             /\ objects' = objects \cup {q.key[s]}
             /\ UNCHANGED <<row, handed, clock, created, begun, picked, awaited, doubtful, abandoned>>
             /\ \E p \in RequestStates :
                  /\ Become(r, p)
                  /\ p.key = q.key /\ p.op = q.op /\ p.slug = q.slug /\ p.id = q.id
                  /\ p.old = q.old
                  /\ \/ q.op = "upload" /\ p.left = q.left /\ p.pc = "write"
                     \/ q.op = "create" /\ p.left = q.left \ {s}
                        /\ p.pc = IF p.left = {} THEN "insert" ELSE "pick"
<1> DEFINE q == req[r]
           s == Current(q)
           left == IF q.op = "create" THEN q.left \ {s} ELSE q.left
           pc == IF q.op = "upload" THEN "write"
                 ELSE IF q.left \ {s} = {} THEN "insert" ELSE "pick"
           p == [q EXCEPT !.left = left, !.pc = pc]
<1>1. q \in RequestStates /\ RequestOK(q) /\ q.pc = "put" /\ q.left # {} /\ s \in Slots
      /\ s \in q.left /\ q.op \in {"upload", "create"}
  BY CurrentFacts DEF TypeInv, RequestsOK, Put, RequestOK, LeftOK, PointOK
<1>2. /\ Become(r, p) /\ objects' = objects \cup {q.key[s]}
      /\ UNCHANGED <<row, handed, clock, created, begun, picked, awaited, doubtful, abandoned>>
  BY DEF Put, Become, histories
<1>3. left \in SUBSET Slots /\ pc \in {"write", "insert", "pick"}
  BY <1>1 DEF RequestStates
<1>4. /\ q.op = "upload" => left = q.left /\ pc = "write"
      /\ q.op = "create" => left = q.left \ {s} /\ pc = IF left = {} THEN "insert" ELSE "pick"
  OBVIOUS
<1> HIDE DEF left, pc, s
<1>5. /\ p \in RequestStates /\ p.pc = pc /\ p.left = left
      /\ p.key = q.key /\ p.op = q.op /\ p.slug = q.slug /\ p.id = q.id /\ p.old = q.old
  BY <1>1, <1>3 DEF RequestStates
<1> HIDE DEF p
<1> QED
  BY <1>1, <1>2, <1>4, <1>5 DEF s

LEMMA PutFailsFacts ==
  ASSUME TypeInv, NEW r \in Requests, PutFails(r)
  PROVE  LET q == req[r]
             s == Current(q)
         IN  /\ q \in RequestStates /\ RequestOK(q) /\ q.pc = "put" /\ s \in q.left /\ s \in Slots
             /\ \/ UNCHANGED <<objects, abandoned>>
                \/ /\ objects' = objects \cup {q.key[s]}
                   /\ abandoned' = (abandoned \cup {q.key[s]}) \cap objects'
             /\ UNCHANGED <<row, handed, clock, created, begun, picked, awaited, doubtful>>
             /\ \E p \in RequestStates :
                  /\ Become(r, p) /\ p.pc = "cleanup"
                  /\ p.op = q.op /\ p.slug = q.slug /\ p.id = q.id /\ p.left = q.left
                  /\ p.old = q.old /\ p.key[s] = None
                  /\ \A t \in Slots : t # s => p.key[t] = q.key[t]
<1> DEFINE q == req[r]
           s == Current(q)
           key == [q.key EXCEPT ![s] = None]
           p == [q EXCEPT !.key[s] = None, !.pc = "cleanup"]
<1>1. q \in RequestStates /\ RequestOK(q) /\ q.pc = "put" /\ q.left # {} /\ s \in Slots
      /\ s \in q.left /\ q.key \in Files
  BY CurrentFacts DEF TypeInv, RequestsOK, PutFails, RequestOK, LeftOK, RequestStates
<1>2. /\ Become(r, p)
      /\ \/ UNCHANGED <<objects, abandoned>>
         \/ /\ objects' = objects \cup {q.key[s]}
            /\ abandoned' = (abandoned \cup {q.key[s]}) \cap objects'
      /\ UNCHANGED <<row, handed, clock, created, begun, picked, awaited, doubtful>>
  BY DEF PutFails, Become, Abandon
<1>3. p = [q EXCEPT !.key = key, !.pc = "cleanup"]
  BY <1>1 DEF RequestStates
<1> HIDE DEF s
<1>4. key \in Files /\ key[s] = None /\ \A t \in Slots : t # s => key[t] = q.key[t]
  BY <1>1 DEF Files
<1> HIDE DEF key
<1>5. /\ p \in RequestStates /\ p.key = key /\ p.pc = "cleanup"
      /\ p.op = q.op /\ p.slug = q.slug /\ p.id = q.id /\ p.left = q.left /\ p.old = q.old
  BY <1>1, <1>3, <1>4 DEF RequestStates
<1> HIDE DEF p
<1> QED
  BY <1>1, <1>2, <1>4, <1>5 DEF s

-----------------------------------------------------------------------------
(* What a step may do to the rows. *)

Rewrote(i, files) ==
  /\ row[i] # None
  /\ row' \in [Ids -> Rows \cup {None}]
  /\ \A j \in Ids : j # i => row'[j] = row[j]
  /\ row'[i] # None /\ row'[i].slug = row[i].slug /\ row'[i].files = files
  /\ created' = created

Inserted(i, slug) ==
  /\ Free(slug) /\ row[i] = None
  /\ i = created + 1 /\ created' = i
  /\ row' \in [Ids -> Rows \cup {None}]
  /\ \A j \in Ids : j # i => row'[j] = row[j]
  /\ row'[i] # None /\ row'[i].slug = slug /\ row'[i].files = NoKeys

Removed(i) ==
  /\ row[i] # None
  /\ row' \in [Ids -> Rows \cup {None}]
  /\ \A j \in Ids : j # i => row'[j] = row[j]
  /\ row'[i] = None
  /\ created' = created

LEMMA OverwriteFacts ==
  ASSUME RowsOK, NEW i \in Ids, row[i] # None, NEW files \in Files, NEW inMind,
         Overwrite(i, files, inMind), created' = created
  PROVE  /\ Rewrote(i, files) /\ objects' = objects
         /\ abandoned' =
              (abandoned \cup (KeysIn(row[i].files) \ (KeysIn(files) \cup inMind))) \cap objects
<1> DEFINE new == [row[i] EXCEPT !.files = files]
<1>1. row[i] \in Rows /\ row \in [Ids -> Rows \cup {None}]
  BY DEF RowsOK
<1>2. row' = [row EXCEPT ![i] = new]
  BY DEF Overwrite
<1>3. new \in Rows /\ new.files = files /\ new.slug = row[i].slug
  BY <1>1 DEF Rows
<1>4. new # None
  BY <1>3, BookFilesAssumption
<1> HIDE DEF new
<1>5. /\ row' \in [Ids -> Rows \cup {None}] /\ row'[i] = new
      /\ \A j \in Ids : j # i => row'[j] = row[j]
  BY <1>1, <1>2, <1>3
<1>6. Rewrote(i, files)
  BY <1>3, <1>4, <1>5 DEF Rewrote
<1>7. /\ objects' = objects
      /\ abandoned' =
           (abandoned \cup (KeysIn(row[i].files) \ (KeysIn(files) \cup inMind))) \cap objects
  BY DEF Overwrite, Abandon
<1> QED
  BY <1>6, <1>7

LEMMA InsertRowFacts ==
  ASSUME RowsOK, NEW slug \in Slugs, InsertRow(slug)
  PROVE  created + 1 \in Ids /\ Inserted(created + 1, slug)
<1> DEFINE i == created + 1
           new == [slug |-> slug, files |-> NoKeys]
<1>1. Free(slug) /\ created' = i /\ row' = [row EXCEPT ![i] = new]
  BY DEF InsertRow
<1>2. i \in Ids /\ created \in Nat
  BY BookFilesAssumption DEF InsertRow, RowsOK, Ids
<1>3. row[i] = None
  BY <1>2 DEF RowsOK
<1>4. new \in Rows /\ new.slug = slug /\ new.files = NoKeys
  BY NoKeysFacts DEF Rows
<1>5. new # None
  BY <1>4, BookFilesAssumption
<1> HIDE DEF new
<1>6. i = created + 1
  OBVIOUS
<1> HIDE DEF i
<1>7. /\ row' \in [Ids -> Rows \cup {None}] /\ row'[i] = new
      /\ \A j \in Ids : j # i => row'[j] = row[j]
  BY <1>1, <1>2, <1>4 DEF RowsOK
<1>8. Inserted(i, slug)
  BY <1>1, <1>3, <1>4, <1>5, <1>6, <1>7 DEF Inserted
<1> QED
  BY <1>2, <1>6, <1>8

LEMMA RemoveRowFacts ==
  ASSUME RowsOK, NEW i \in Ids, NEW inMind, RemoveRow(i, inMind), created' = created
  PROVE  /\ Removed(i) /\ objects' = objects
         /\ abandoned' = (abandoned \cup (KeysIn(row[i].files) \ inMind)) \cap objects
BY DEF RemoveRow, Removed, Abandon, RowsOK

(* The files of a row once an upload, or a creation, has put its own there. *)
LEMMA WrittenFacts ==
  ASSUME TypeInv, NEW r \in Requests, req[r].pc = "write", NEW i \in Ids, row[i] # None
  PROVE  LET q == req[r]
             s == Current(q)
         IN  /\ Written(i, q) \in Files /\ s \in Slots
             /\ Written(i, q)[s] = q.key[s]
             /\ \A t \in Slots : t # s => Written(i, q)[t] = row[i].files[t]
<1> DEFINE q == req[r]
           s == Current(q)
<1>1. q \in RequestStates /\ s \in Slots /\ q.key \in Files /\ row[i].files \in Files
  BY CurrentFacts DEF TypeInv, RequestsOK, RequestStates, RowsOK, Rows
<1>2. Written(i, q) = [row[i].files EXCEPT ![s] = q.key[s]]
  BY DEF Written
<1> HIDE DEF s
<1> DEFINE files == [row[i].files EXCEPT ![s] = q.key[s]]
<1>3. files \in Files /\ files[s] = q.key[s] /\ \A t \in Slots : t # s => files[t] = row[i].files[t]
  BY <1>1 DEF Files
<1> QED
  BY <1>1, <1>2, <1>3 DEF s

LEMMA AttachedFacts ==
  ASSUME TypeInv, NEW r \in Requests, NEW i \in Ids, i = req[r].id, row[i] # None
  PROVE  LET q == req[r]
         IN  /\ Attached(q) \in Files
             /\ \A s \in Slots :
                  Attached(q)[s] = IF q.key[s] = None THEN row[i].files[s] ELSE q.key[s]
<1>1. req[r].key \in Files /\ row[i].files \in Files
  BY DEF TypeInv, RequestsOK, RequestStates, RowsOK, Rows
<1> QED
  BY <1>1 DEF Attached, Files

-----------------------------------------------------------------------------
(* Steps that write, insert or delete a row. *)

LEMMA WriteFacts ==
  ASSUME TypeInv, NEW r \in Requests, Write(r)
  PROVE  LET q == req[r]
             s == Current(q)
         IN  /\ q \in RequestStates /\ RequestOK(q) /\ q.pc = "write" /\ s \in q.left /\ s \in Slots
             /\ UNCHANGED <<objects, handed, clock, created, begun, picked, awaited>>
             /\ \E i \in Ids, files \in Files :
                  /\ Rewrote(i, files)
                  /\ files[s] = q.key[s]
                  /\ \A t \in Slots : t # s => files[t] = row[i].files[t]
                  /\ doubtful' = IF i = q.id THEN doubtful ELSE doubtful \cup KeysIn(q.old)
                  /\ abandoned' = (abandoned \cup (KeysIn(row[i].files) \
                                     (KeysIn(files) \cup KeysIn(q.old)))) \cap objects
             /\ \E p \in RequestStates : Become(r, p) /\ p.pc = "dropOld" /\ Alike(p, q)
<1> DEFINE q == req[r]
           s == Current(q)
<1>1. q \in RequestStates /\ RequestOK(q) /\ q.pc = "write" /\ s \in Slots /\ s \in q.left
  BY CurrentFacts DEF TypeInv, RequestsOK, Write, RequestOK, LeftOK
<1>2. PICK i \in Ids : /\ Named(i, q.slug)
                       /\ Overwrite(i, Written(i, q), KeysIn(q.old))
                       /\ doubtful' = IF i = q.id THEN doubtful ELSE doubtful \cup KeysIn(q.old)
  BY DEF Write
<1>3. \E p \in RequestStates : Become(r, p) /\ p.pc = "dropOld" /\ Alike(p, q)
  BY GotoFacts DEF TypeInv, Write
<1>4. UNCHANGED <<handed, clock, created, begun, picked, awaited>>
  BY DEF Write
<1>5. row[i] # None
  BY <1>2 DEF Named
<1> DEFINE files == Written(i, q)
<1>6. /\ files \in Files /\ files[s] = q.key[s]
      /\ \A t \in Slots : t # s => files[t] = row[i].files[t]
  BY <1>1, <1>5, WrittenFacts
<1> HIDE DEF files, s
<1>7. /\ Rewrote(i, files) /\ objects' = objects
      /\ abandoned' = (abandoned \cup (KeysIn(row[i].files) \
                         (KeysIn(files) \cup KeysIn(q.old)))) \cap objects
  BY <1>2, <1>4, <1>5, <1>6, OverwriteFacts DEF TypeInv, files
<1>8. \E j \in Ids, f \in Files :
        /\ Rewrote(j, f)
        /\ f[s] = q.key[s]
        /\ \A t \in Slots : t # s => f[t] = row[j].files[t]
        /\ doubtful' = IF j = q.id THEN doubtful ELSE doubtful \cup KeysIn(q.old)
        /\ abandoned' = (abandoned \cup (KeysIn(row[j].files) \
                           (KeysIn(f) \cup KeysIn(q.old)))) \cap objects
  BY <1>2, <1>6, <1>7
<1> QED
  BY <1>1, <1>3, <1>4, <1>7, <1>8 DEF s

LEMMA InsertFacts ==
  ASSUME TypeInv, NEW r \in Requests, Insert(r)
  PROVE  LET q == req[r]
             i == created + 1
         IN  /\ q \in RequestStates /\ RequestOK(q) /\ q.pc = "insert"
             /\ i \in Ids /\ Inserted(i, q.slug)
             /\ UNCHANGED <<objects, handed, clock, begun, picked, awaited, doubtful, abandoned>>
             /\ \/ q.key = NoKeys /\ Become(r, Idle)
                \/ /\ q.key # NoKeys
                   /\ \E p \in RequestStates :
                        /\ Become(r, p) /\ p.pc = "attach" /\ p.id = i
                        /\ p.op = q.op /\ p.slug = q.slug /\ p.left = q.left
                        /\ p.key = q.key /\ p.old = q.old
<1> DEFINE q == req[r]
           i == created + 1
           p == [q EXCEPT !.id = i, !.pc = "attach"]
<1>1. q \in RequestStates /\ RequestOK(q) /\ q.pc = "insert" /\ q.slug \in Slugs
  BY DEF TypeInv, RequestsOK, Insert, RequestOK
<1>2. i \in Ids /\ Inserted(i, q.slug)
  BY <1>1, InsertRowFacts DEF TypeInv, Insert
<1>3. /\ Become(r, IF q.key = NoKeys THEN Idle ELSE p)
      /\ UNCHANGED <<objects, handed, clock, begun, picked, awaited, doubtful, abandoned>>
  BY DEF Insert, histories
<1>4. i \in 0 .. MaxRows
  BY <1>2, BookFilesAssumption DEF Ids
<1> HIDE DEF i
<1>5. /\ p \in RequestStates /\ p.pc = "attach" /\ p.id = i
      /\ p.op = q.op /\ p.slug = q.slug /\ p.left = q.left /\ p.key = q.key /\ p.old = q.old
  BY <1>1, <1>4 DEF RequestStates
<1> HIDE DEF p
<1>6. CASE q.key = NoKeys
  BY <1>1, <1>2, <1>3, <1>6 DEF i
<1>7. CASE q.key # NoKeys
  BY <1>1, <1>2, <1>3, <1>5, <1>7 DEF i
<1> QED
  BY <1>6, <1>7

(* With the book gone meanwhile nothing is written. *)
LEMMA AttachFacts ==
  ASSUME TypeInv, NEW r \in Requests, Attach(r)
  PROVE  LET q == req[r]
         IN  /\ q \in RequestStates /\ RequestOK(q) /\ q.pc = "attach" /\ q.id \in Ids
             /\ Become(r, Idle)
             /\ UNCHANGED <<objects, handed, clock, created, begun, picked, awaited, doubtful>>
             /\ \/ /\ UNCHANGED row
                   /\ abandoned' = (abandoned \cup KeysIn(q.key)) \cap objects
                \/ \E files \in Files :
                     /\ Rewrote(q.id, files)
                     /\ \A s \in Slots : files[s] =
                          IF q.key[s] = None THEN row[q.id].files[s] ELSE q.key[s]
                     /\ abandoned' = (abandoned \cup (KeysIn(row[q.id].files) \
                                        KeysIn(files))) \cap objects
<1> DEFINE q == req[r]
<1>1. q \in RequestStates /\ RequestOK(q) /\ q.pc = "attach" /\ q.id \in Ids
  BY DEF TypeInv, RequestsOK, Attach, RequestOK
<1>2. /\ Become(r, Idle)
      /\ UNCHANGED <<handed, clock, created, begun, picked, awaited, doubtful>>
  BY DEF Attach
<1>3. CASE row[q.id] = None
  <2>1. /\ UNCHANGED <<row, objects>>
        /\ abandoned' = (abandoned \cup KeysIn(q.key)) \cap objects
    BY <1>3 DEF Attach, Abandon
  <2> QED
    BY <1>1, <1>2, <2>1
<1>4. CASE row[q.id] # None
  <2> DEFINE files == Attached(q)
  <2>1. /\ files \in Files
        /\ \A s \in Slots : files[s] = IF q.key[s] = None THEN row[q.id].files[s] ELSE q.key[s]
    BY <1>1, <1>4, AttachedFacts
  <2>2. Overwrite(q.id, files, {})
    BY <1>4 DEF Attach
  <2> HIDE DEF files
  <2>3. /\ Rewrote(q.id, files) /\ objects' = objects
        /\ abandoned' = (abandoned \cup (KeysIn(row[q.id].files) \ KeysIn(files))) \cap objects
    BY <1>1, <1>2, <1>4, <2>1, <2>2, OverwriteFacts DEF TypeInv
  <2> QED
    BY <1>1, <1>2, <2>1, <2>3
<1> QED
  BY <1>3, <1>4

LEMMA DeleteRowFacts ==
  ASSUME TypeInv, NEW r \in Requests, DeleteRow(r)
  PROVE  LET q == req[r]
         IN  /\ q \in RequestStates /\ RequestOK(q) /\ q.pc = "delete" /\ q.id \in Ids
             /\ Removed(q.id)
             /\ UNCHANGED <<objects, handed, clock, created, begun, picked, awaited, doubtful>>
             /\ abandoned' = (abandoned \cup (KeysIn(row[q.id].files) \ KeysIn(q.old))) \cap objects
             /\ \E p \in RequestStates : Become(r, p) /\ p.pc = "dropOld" /\ Alike(p, q)
<1>1. /\ req[r] \in RequestStates /\ RequestOK(req[r]) /\ req[r].pc = "delete"
      /\ req[r].id \in Ids
  BY DEF TypeInv, RequestsOK, DeleteRow, RequestOK, PointOK
<1>2. \E p \in RequestStates : Become(r, p) /\ p.pc = "dropOld" /\ Alike(p, req[r])
  BY GotoFacts DEF TypeInv, DeleteRow
<1>3. /\ RemoveRow(req[r].id, KeysIn(req[r].old))
      /\ UNCHANGED <<handed, clock, created, begun, picked, awaited, doubtful>>
  BY DEF DeleteRow
<1> QED
  BY <1>1, <1>2, <1>3, RemoveRowFacts DEF TypeInv

(* Calls that fail: the request goes to clean up, or ends ... *)
Fails(r) ==
  \/ WriteFails(r) \/ InsertFails(r) \/ AttachFails(r) \/ DeleteRowFails(r)

FailsTo(r) ==
  LET q == req[r]
  IN  \/ /\ Become(r, Idle)
         /\ (q.pc = "write" /\ q.op = "presign") \/ q.pc = "delete"
      \/ /\ \/ q.pc = "write" /\ q.op = "upload"
            \/ q.pc \in {"insert", "attach"}
         /\ \E p \in RequestStates : Become(r, p) /\ p.pc = "cleanup" /\ Alike(p, q)

(* ... and the rows stay, or have what was asked for all the same. *)
FailsWith(r) ==
  LET q == req[r]
  IN  \/ UNCHANGED <<row, created, doubtful, abandoned>>
      \/ \E i \in Ids, files \in Files :
           /\ Rewrote(i, files)
           /\ doubtful' = doubtful \cup KeysIn(q.key)
           /\ \A s \in Slots : files[s] = row[i].files[s] \/ files[s] = q.key[s]
           /\ q.pc = "write" => files[Current(q)] = q.key[Current(q)]
           /\ abandoned' = (abandoned \cup (KeysIn(row[i].files) \ KeysIn(files))) \cap objects
      \/ \E i \in Ids : Inserted(i, q.slug) /\ UNCHANGED <<doubtful, abandoned>>
      \/ \E i \in Ids :
           /\ Removed(i) /\ UNCHANGED doubtful
           /\ abandoned' = (abandoned \cup KeysIn(row[i].files)) \cap objects

LEMMA FailsFacts ==
  ASSUME TypeInv, NEW r \in Requests, Fails(r)
  PROVE  /\ req[r] \in RequestStates /\ RequestOK(req[r])
         /\ UNCHANGED <<objects, handed, clock, begun, picked, awaited>>
         /\ FailsTo(r) /\ FailsWith(r)
<1> DEFINE q == req[r]
<1>1. RequestsOK /\ q \in RequestStates /\ RequestOK(q) /\ RowsOK
  BY DEF TypeInv, RequestsOK
<1>2. UNCHANGED <<handed, clock, begun, picked, awaited>>
  BY DEF Fails, WriteFails, InsertFails, AttachFails, DeleteRowFails, histories
<1>3. CASE WriteFails(r)
  <2>1. q.pc = "write" /\ q.op \in {"upload", "presign"} /\ created' = created
    BY <1>1, <1>3 DEF WriteFails, RequestOK, PointOK
  <2>2. FailsTo(r)
    <3>1. CASE q.op = "presign"
      BY <1>3, <2>1, <3>1 DEF WriteFails, FailsTo
    <3>2. CASE q.op = "upload"
      <4>1. Goto(r, "cleanup")
        BY <1>3, <3>2 DEF WriteFails
      <4> QED
        BY <1>1, <2>1, <3>2, <4>1, GotoFacts DEF FailsTo
    <3> QED
      BY <2>1, <3>1, <3>2
  <2>3. objects' = objects /\ FailsWith(r)
    <3>1. CASE UNCHANGED <<row, objects, doubtful, abandoned>>
      BY <2>1, <3>1 DEF FailsWith
    <3>2. ASSUME NEW i \in Ids, Named(i, q.slug), Overwrite(i, Written(i, q), {}),
                 doubtful' = doubtful \cup KeysIn(q.key)
          PROVE  objects' = objects /\ FailsWith(r)
      <4> DEFINE s == Current(q)
                 files == Written(i, q)
      <4>1. row[i] # None
        BY <3>2 DEF Named
      <4>2. /\ files \in Files /\ s \in Slots /\ files[s] = q.key[s]
            /\ \A t \in Slots : t # s => files[t] = row[i].files[t]
        BY <2>1, <4>1, WrittenFacts
      <4> HIDE DEF files
      <4>3. /\ Rewrote(i, files) /\ objects' = objects
            /\ abandoned' = (abandoned \cup (KeysIn(row[i].files) \ KeysIn(files))) \cap objects
        BY <1>1, <2>1, <3>2, <4>1, <4>2, OverwriteFacts DEF files
      <4>4. \A t \in Slots : files[t] = row[i].files[t] \/ files[t] = q.key[t]
        BY <4>2
      <4>5. files[Current(q)] = q.key[Current(q)]
        BY <4>2
      <4> HIDE DEF s
      <4> QED
        BY <3>2, <4>2, <4>3, <4>4, <4>5 DEF FailsWith
    <3> QED
      BY <1>3, <3>1, <3>2 DEF WriteFails
  <2> QED
    BY <1>1, <1>2, <2>2, <2>3
<1>4. CASE InsertFails(r)
  <2>1. q.pc = "insert" /\ Goto(r, "cleanup") /\ UNCHANGED <<objects, doubtful, abandoned>>
    BY <1>4 DEF InsertFails, histories
  <2>2. FailsTo(r)
    BY <1>1, <2>1, GotoFacts DEF FailsTo
  <2>3. UNCHANGED <<row, created>> \/ InsertRow(q.slug)
    BY <1>4 DEF InsertFails
  <2>4. q.slug \in Slugs
    BY <1>1, <2>1 DEF RequestOK
  <2>5. FailsWith(r)
    BY <1>1, <2>1, <2>3, <2>4, InsertRowFacts DEF FailsWith
  <2> QED
    BY <1>1, <1>2, <2>1, <2>2, <2>5
<1>5. CASE AttachFails(r)
  <2>1. q.pc = "attach" /\ Goto(r, "cleanup") /\ created' = created /\ q.id \in Ids
    BY <1>1, <1>5 DEF AttachFails, RequestOK
  <2>2. FailsTo(r)
    BY <1>1, <2>1, GotoFacts DEF FailsTo
  <2>3. CASE UNCHANGED <<row, objects, doubtful, abandoned>>
    BY <1>1, <1>2, <2>1, <2>2, <2>3 DEF FailsWith
  <2>4. CASE /\ row[q.id] # None /\ Overwrite(q.id, Attached(q), {})
             /\ doubtful' = doubtful \cup KeysIn(q.key)
    <3> DEFINE i == q.id
               files == Attached(q)
    <3>1. /\ i \in Ids /\ row[i] # None
          /\ files \in Files
          /\ \A s \in Slots : files[s] = row[i].files[s] \/ files[s] = q.key[s]
      BY <2>1, <2>4, AttachedFacts
    <3> HIDE DEF files
    <3>2. /\ Rewrote(i, files) /\ objects' = objects
          /\ abandoned' = (abandoned \cup (KeysIn(row[i].files) \ KeysIn(files))) \cap objects
      BY <1>1, <2>1, <2>4, <3>1, OverwriteFacts DEF files
    <3> HIDE DEF i
    <3>3. FailsWith(r)
      BY <2>1, <2>4, <3>1, <3>2 DEF FailsWith
    <3> QED
      BY <1>1, <1>2, <2>2, <3>2, <3>3
  <2> QED
    BY <1>5, <2>3, <2>4 DEF AttachFails
<1>6. CASE DeleteRowFails(r)
  <2>1. q.pc = "delete" /\ Become(r, Idle) /\ UNCHANGED <<created, doubtful>> /\ q.id \in Ids
    BY <1>1, <1>6 DEF DeleteRowFails, RequestOK, PointOK
  <2>2. FailsTo(r)
    BY <2>1 DEF FailsTo
  <2>3. CASE UNCHANGED <<row, objects, abandoned>>
    BY <1>1, <1>2, <2>1, <2>2, <2>3 DEF FailsWith
  <2>4. CASE RemoveRow(q.id, {})
    <3>1. /\ Removed(q.id) /\ objects' = objects
          /\ abandoned' = (abandoned \cup KeysIn(row[q.id].files)) \cap objects
      BY <1>1, <2>1, <2>4, RemoveRowFacts
    <3> QED
      BY <1>1, <1>2, <2>1, <2>2, <3>1 DEF FailsWith
  <2> QED
    BY <1>6, <2>3, <2>4 DEF DeleteRowFails
<1> QED
  BY <1>3, <1>4, <1>5, <1>6 DEF Fails

LEMMA RenameFacts ==
  ASSUME TypeInv, NEW i \in Ids, NEW s \in Slugs, Rename(i, s)
  PROVE  /\ row[i] # None /\ Free(s)
         /\ row' \in [Ids -> Rows \cup {None}]
         /\ row'[i] # None /\ row'[i].slug = s /\ row'[i].files = row[i].files
         /\ \A j \in Ids : j # i => row'[j] = row[j]
         /\ UNCHANGED <<objects, handed, req, clock, created, begun, picked, awaited, doubtful,
                        abandoned>>
<1> DEFINE new == [row[i] EXCEPT !.slug = s]
<1>1. row[i] # None /\ Free(s) /\ row' = [row EXCEPT ![i] = new]
  BY DEF Rename
<1>2. row[i] \in Rows /\ row \in [Ids -> Rows \cup {None}]
  BY <1>1 DEF TypeInv, RowsOK
<1>3. new \in Rows /\ new.slug = s /\ new.files = row[i].files
  BY <1>2 DEF Rows
<1>4. new # None
  BY <1>3, BookFilesAssumption
<1> HIDE DEF new
<1>5. /\ row' \in [Ids -> Rows \cup {None}] /\ row'[i] = new
      /\ \A j \in Ids : j # i => row'[j] = row[j]
  BY <1>1, <1>2, <1>3
<1> QED
  BY <1>1, <1>3, <1>4, <1>5 DEF Rename, histories

(* Requests that end: DeleteObject is called for each key, or the process   *)
(* died.                                                                    *)
Ends(r) == DropOld(r) \/ Cleanup(r) \/ Crash(r)

RemovedObjects(keys) ==
  /\ objects' \subseteq objects
  /\ \A k \in objects : k \notin keys => k \in objects'
  /\ abandoned' = (abandoned \cup keys) \cap objects'

LEMMA RemoveFacts == ASSUME NEW keys, Remove(keys) PROVE RemovedObjects(keys)
BY DEF Remove, Abandon, RemovedObjects

LEMMA EndsFacts ==
  ASSUME TypeInv, NEW r \in Requests, Ends(r)
  PROVE  LET q == req[r]
         IN  /\ q \in RequestStates /\ RequestOK(q) /\ q.pc # "idle"
             /\ Become(r, Idle)
             /\ UNCHANGED <<row, clock, created, begun, picked>>
             /\ \/ /\ q.pc = "dropOld" /\ RemovedObjects(KeysIn(q.old))
                   /\ handed' = handed \cup Unanswered(q) /\ awaited' = awaited \cup Unanswered(q)
                   /\ UNCHANGED doubtful
                \/ /\ q.pc = "cleanup" /\ RemovedObjects(KeysIn(q.key))
                   /\ UNCHANGED <<handed, awaited, doubtful>>
                \/ /\ RemovedObjects(InHand(q)) /\ objects' = objects
                   /\ doubtful' = doubtful \cup Unanswered(q)
                   /\ UNCHANGED <<handed, awaited>>
<1> DEFINE q == req[r]
<1>1. RequestsOK /\ q \in RequestStates /\ RequestOK(q)
  BY DEF TypeInv, RequestsOK
<1>2. CASE DropOld(r)
  BY <1>1, <1>2, RemoveFacts DEF DropOld, Unanswered
<1>3. CASE Cleanup(r)
  BY <1>1, <1>3, RemoveFacts DEF Cleanup
<1>4. CASE Crash(r)
  BY <1>1, <1>4 DEF Crash, Abandon, RemovedObjects
<1> QED
  BY <1>2, <1>3, <1>4 DEF Ends

-----------------------------------------------------------------------------
(* Every step keeps TypeInv. *)

LEMMA RowsStill ==
  ASSUME RowsOK, UNCHANGED <<row, created>>, picked \subseteq picked'
  PROVE  RowsOK'
BY DEF RowsOK, Named

(* A row that is rewritten keeps its slug and gets keys already picked. *)
LEMMA RowRewritten ==
  ASSUME RowsOK, NEW i \in Ids, NEW files, Rewrote(i, files), UNCHANGED picked,
         \A s \in Slots : files[s] # None => files[s] \in picked
  PROVE  RowsOK'
BY DEF RowsOK, Rewrote, Named

LEMMA RowInserted ==
  ASSUME RowsOK, NEW i \in Ids, NEW slug, Inserted(i, slug), UNCHANGED picked
  PROVE  RowsOK'
<1>1. created \in Nat /\ created' \in 0 .. MaxRows /\ created' = created + 1
      /\ \A j \in Ids : j \in Nat
  BY BookFilesAssumption DEF RowsOK, Inserted, Ids
<1>2. ASSUME NEW j \in Ids, row'[j] # None
      PROVE  /\ j <= created'
             /\ \A s \in Slots : row'[j].files[s] # None => row'[j].files[s] \in picked'
  <2>1. CASE j = i
    BY <1>1, <2>1, NoKeysFacts DEF Inserted
  <2>2. CASE j # i
    BY <1>1, <1>2, <2>2 DEF RowsOK, Inserted
  <2> QED
    BY <2>1, <2>2
<1>3. ASSUME NEW j \in Ids, NEW k \in Ids, row'[j] # None, Named(k, row[j].slug)'
      PROVE  j = k
  BY <1>3 DEF RowsOK, Named, Free, Inserted
<1> QED
  BY <1>1, <1>2, <1>3 DEF RowsOK, Inserted

LEMMA RowRemoved ==
  ASSUME RowsOK, NEW i \in Ids, Removed(i), UNCHANGED picked
  PROVE  RowsOK'
BY DEF RowsOK, Removed, Named

LEMMA PickKeyTypes == ASSUME TypeInv, NEW r \in Requests, PickKey(r) PROVE TypeInv'
<1> DEFINE q == req[r]
           s == Current(q)
           k == [prefix |-> Prefix(q.op, s), slug |-> q.slug, at |-> clock]
<1>1. /\ q \in RequestStates /\ RequestOK(q) /\ q.pc = "pick" /\ s \in q.left /\ s \in Slots
      /\ k \in Keys /\ k # None
      /\ picked' = picked \cup {k}
      /\ doubtful' = IF k \in picked THEN doubtful \cup {k} ELSE doubtful
      /\ UNCHANGED <<row, objects, handed, clock, created, begun, awaited, abandoned>>
  BY PickKeyFacts
<1>2. PICK p \in RequestStates :
        /\ Become(r, p)
        /\ p.key \in Files /\ p.key[s] = k
        /\ \A t \in Slots : t # s => p.key[t] = q.key[t]
        /\ p.pc = IF q.op = "presign" THEN "write" ELSE "put"
        /\ p.op = q.op /\ p.slug = q.slug /\ p.id = q.id /\ p.left = q.left
        /\ p.old = q.old
  BY PickKeyFacts
<1> HIDE DEF k
<1>3. Current(p) = s
  BY <1>2 DEF Current
<1> HIDE DEF s
<1>4. RequestOK(p)'
  <2>1. PointOK(q) /\ OneSlot(q) /\ LeftOK(q) /\ KeysOK(q) /\ q.slug \in Slugs
        /\ (q.op # "create" => q.id \in Ids)
    BY <1>1 DEF RequestOK
  <2>2. PointOK(p)'
    BY <1>1, <1>2, <2>1 DEF PointOK
  <2>3. OneSlot(p)'
    BY <1>1, <1>2, <2>1 DEF OneSlot
  <2>4. LeftOK(p)'
    <3>1. Current(p)' = s
      BY <1>3 DEF Current
    <3>2. q.left \subseteq Slots
      BY <1>1 DEF RequestStates
    <3> QED
      BY <1>1, <1>2, <2>1, <3>1, <3>2 DEF LeftOK
  <2>5. KeysOK(p)'
    <3>1. q.op = "presign" => s = "audio"
      BY <1>1, <2>1 DEF KeysOK
    <3>2. q.op # "delete"
      BY <1>1, <2>1 DEF PointOK
    <3> QED
      BY <1>1, <1>2, <2>1, <3>1, <3>2 DEF KeysOK
  <2> QED
    BY <1>1, <1>2, <2>1, <2>2, <2>3, <2>4, <2>5 DEF RequestOK
<1>5. RequestsOK'
  <2>1. picked \subseteq picked' /\ RequestsOK
        /\ created \in Nat /\ created' \in Nat /\ created <= created'
    BY <1>1, BookFilesAssumption DEF TypeInv, RowsOK
  <2> QED
    BY <1>2, <1>4, <2>1, MoveOn
<1>6. RowsOK'
  BY <1>1, RowsStill DEF TypeInv
<1>7. StoresOK'
  BY <1>1 DEF TypeInv, StoresOK
<1> QED
  BY <1>5, <1>6, <1>7 DEF TypeInv

LEMMA PutTypes == ASSUME TypeInv, NEW r \in Requests, Put(r) PROVE TypeInv'
<1> DEFINE q == req[r]
           s == Current(q)
<1>1. /\ q \in RequestStates /\ RequestOK(q) /\ q.pc = "put" /\ s \in q.left /\ s \in Slots
      /\ objects' = objects \cup {q.key[s]}
      /\ UNCHANGED <<row, handed, clock, created, begun, picked, awaited, doubtful, abandoned>>
  BY PutFacts
<1>2. PICK p \in RequestStates :
        /\ Become(r, p)
        /\ p.key = q.key /\ p.op = q.op /\ p.slug = q.slug /\ p.id = q.id
        /\ p.old = q.old
        /\ \/ q.op = "upload" /\ p.left = q.left /\ p.pc = "write"
           \/ q.op = "create" /\ p.left = q.left \ {s}
              /\ p.pc = IF p.left = {} THEN "insert" ELSE "pick"
  BY PutFacts
<1>3. PointOK(q) /\ OneSlot(q) /\ LeftOK(q) /\ KeysOK(q) /\ q.slug \in Slugs
      /\ (q.op # "create" => q.id \in Ids)
  BY <1>1 DEF RequestOK
<1>4. RequestOK(p)'
  <2>1. PointOK(p)'
    BY <1>1, <1>2, <1>3 DEF PointOK
  <2>2. OneSlot(p)'
    BY <1>1, <1>2, <1>3 DEF OneSlot
  <2>3. LeftOK(p)'
    <3>1. CASE q.op = "upload"
      <4>1. Current(p)' = s /\ p.pc = "write" /\ p.left = q.left
        BY <1>2, <3>1 DEF Current
      <4> QED
        BY <1>1, <1>2, <1>3, <4>1 DEF LeftOK
    <3>2. CASE q.op = "create"
      BY <1>1, <1>2, <1>3, <3>2 DEF LeftOK
    <3> QED
      BY <1>2, <3>1, <3>2
  <2>4. KeysOK(p)'
    BY <1>1, <1>2, <1>3 DEF KeysOK
  <2> QED
    BY <1>1, <1>2, <1>3, <2>1, <2>2, <2>3, <2>4 DEF RequestOK
<1>5. RequestsOK'
  <2>1. picked \subseteq picked' /\ RequestsOK
        /\ created \in Nat /\ created' \in Nat /\ created <= created'
    BY <1>1, BookFilesAssumption DEF TypeInv, RowsOK
  <2> QED
    BY <1>2, <1>4, <2>1, MoveOn
<1>6. RowsOK'
  BY <1>1, RowsStill DEF TypeInv
<1>7. StoresOK'
  BY <1>1, <1>3 DEF TypeInv, StoresOK, LeftOK, KeysOK
<1> QED
  BY <1>5, <1>6, <1>7 DEF TypeInv

LEMMA PutFailsTypes == ASSUME TypeInv, NEW r \in Requests, PutFails(r) PROVE TypeInv'
<1> DEFINE q == req[r]
           s == Current(q)
<1>1. /\ q \in RequestStates /\ RequestOK(q) /\ q.pc = "put" /\ s \in q.left /\ s \in Slots
      /\ \/ UNCHANGED <<objects, abandoned>>
         \/ /\ objects' = objects \cup {q.key[s]}
            /\ abandoned' = (abandoned \cup {q.key[s]}) \cap objects'
      /\ UNCHANGED <<row, handed, clock, created, begun, picked, awaited, doubtful>>
  BY PutFailsFacts
<1>2. PICK p \in RequestStates :
        /\ Become(r, p) /\ p.pc = "cleanup"
        /\ p.op = q.op /\ p.slug = q.slug /\ p.id = q.id /\ p.left = q.left
        /\ p.old = q.old /\ p.key[s] = None
        /\ \A t \in Slots : t # s => p.key[t] = q.key[t]
  BY PutFailsFacts
<1> HIDE DEF s
<1>3. PointOK(q) /\ OneSlot(q) /\ LeftOK(q) /\ KeysOK(q) /\ q.slug \in Slugs
      /\ (q.op # "create" => q.id \in Ids)
  BY <1>1 DEF RequestOK
<1>4. q.op \in {"upload", "create"}
  BY <1>1, <1>3 DEF PointOK
<1>5. PointOK(p)' /\ LeftOK(p)' /\ OneSlot(p)' /\ KeysOK(p)'
  BY <1>1, <1>2, <1>3, <1>4 DEF PointOK, OneSlot, LeftOK, KeysOK
<1>6. RequestOK(p)'
  BY <1>2, <1>3, <1>5 DEF RequestOK
<1>7. RequestsOK'
  <2>1. picked \subseteq picked' /\ RequestsOK
        /\ created \in Nat /\ created' \in Nat /\ created <= created'
    BY <1>1, BookFilesAssumption DEF TypeInv, RowsOK
  <2> QED
    BY <1>2, <1>6, <2>1, MoveOn
<1>8. RowsOK'
  BY <1>1, RowsStill DEF TypeInv
<1>9. StoresOK'
  <2>1. q.key[s] \in picked
    BY <1>1, <1>3 DEF LeftOK, KeysOK, s
  <2> QED
    BY <1>1, <2>1 DEF TypeInv, StoresOK
<1> QED
  BY <1>7, <1>8, <1>9 DEF TypeInv

(* A request at a new point only. *)
LEMMA AlikeFacts ==
  ASSUME NEW q \in RequestStates, NEW p \in RequestStates, RequestOK(q), q.pc # "idle", Alike(p, q),
         \/ q.pc = "write" /\ q.op = "upload" /\ p.pc \in {"dropOld", "cleanup"}
         \/ q.pc = "write" /\ q.op = "presign" /\ p.pc = "dropOld"
         \/ q.pc \in {"insert", "attach"} /\ p.pc = "cleanup"
         \/ q.pc = "delete" /\ p.pc = "dropOld",
         UNCHANGED picked
  PROVE  RequestOK(p)'
<1>1. PointOK(q) /\ OneSlot(q) /\ KeysOK(q)
  BY DEF RequestOK
<1>2. PointOK(p)' /\ OneSlot(p)' /\ KeysOK(p)' /\ LeftOK(p)'
  BY <1>1 DEF PointOK, OneSlot, KeysOK, LeftOK, Alike
<1> QED
  BY <1>2 DEF RequestOK, Alike

(* The keys a request knows were generated. *)
LEMMA PickedKeys ==
  ASSUME TypeInv, NEW r \in Requests
  PROVE  KeysIn(req[r].key) \subseteq picked /\ (req[r].pc # "idle" => KeysIn(req[r].old) \subseteq picked)
BY NoKeysFacts, KeysInFacts DEF TypeInv, RequestsOK, RequestOK, KeysOK

LEMMA WriteTypes == ASSUME TypeInv, NEW r \in Requests, Write(r) PROVE TypeInv'
<1> DEFINE q == req[r]
           s == Current(q)
<1>1. /\ q \in RequestStates /\ RequestOK(q) /\ q.pc = "write" /\ s \in q.left /\ s \in Slots
      /\ UNCHANGED <<objects, handed, clock, created, begun, picked, awaited>>
  BY WriteFacts
<1>2. PICK i \in Ids, files \in Files :
        /\ Rewrote(i, files)
        /\ files[s] = q.key[s]
        /\ \A t \in Slots : t # s => files[t] = row[i].files[t]
        /\ doubtful' = IF i = q.id THEN doubtful ELSE doubtful \cup KeysIn(q.old)
        /\ abandoned' = (abandoned \cup (KeysIn(row[i].files) \
                           (KeysIn(files) \cup KeysIn(q.old)))) \cap objects
  BY WriteFacts
<1>3. PICK p \in RequestStates : Become(r, p) /\ p.pc = "dropOld" /\ Alike(p, q)
  BY WriteFacts
<1> HIDE DEF s
<1>4. q.op \in {"upload", "presign"} /\ KeysOK(q)
  BY <1>1 DEF RequestOK, PointOK
<1>5. RequestsOK'
  <2>1. RequestOK(p)'
    BY <1>1, <1>3, <1>4, AlikeFacts
  <2>2. picked \subseteq picked' /\ RequestsOK
        /\ created \in Nat /\ created' \in Nat /\ created <= created'
    BY <1>1, BookFilesAssumption DEF TypeInv, RowsOK
  <2> QED
    BY <1>3, <2>1, <2>2, MoveOn
<1>6. RowsOK'
  <2>1. \A t \in Slots : files[t] # None => files[t] \in picked
    BY <1>1, <1>2, <1>4 DEF TypeInv, RowsOK, KeysOK, Rewrote
  <2> QED
    BY <1>1, <1>2, <2>1, RowRewritten DEF TypeInv
<1>7. StoresOK'
  <2>1. doubtful' \subseteq picked
    BY <1>1, <1>2, PickedKeys DEF TypeInv, StoresOK
  <2> QED
    BY <1>1, <1>2, <2>1 DEF TypeInv, StoresOK
<1> QED
  BY <1>5, <1>6, <1>7 DEF TypeInv

LEMMA InsertTypes == ASSUME TypeInv, NEW r \in Requests, Insert(r) PROVE TypeInv'
<1> DEFINE q == req[r]
           i == created + 1
<1>1. /\ q \in RequestStates /\ RequestOK(q) /\ q.pc = "insert"
      /\ i \in Ids /\ Inserted(i, q.slug)
      /\ UNCHANGED <<objects, handed, clock, begun, picked, awaited, doubtful, abandoned>>
  BY InsertFacts
<1>2. created \in Nat /\ created' \in Nat /\ created <= created' /\ created' = i
  BY <1>1, BookFilesAssumption DEF TypeInv, RowsOK, Inserted
<1>3. PointOK(q) /\ OneSlot(q) /\ KeysOK(q) /\ q.slug \in Slugs
  BY <1>1 DEF RequestOK
<1>4. RequestsOK'
  <2>1. CASE q.key = NoKeys /\ Become(r, Idle)
    <3>1. RequestOK(Idle)' /\ Idle \in RequestStates
      BY IdleFacts DEF RequestOK
    <3> QED
      BY <1>1, <1>2, <2>1, <3>1, MoveOn DEF TypeInv
  <2>2. CASE q.key # NoKeys
    <3>1. PICK p \in RequestStates :
            /\ Become(r, p) /\ p.pc = "attach" /\ p.id = i
            /\ p.op = q.op /\ p.slug = q.slug /\ p.left = q.left
            /\ p.key = q.key /\ p.old = q.old
      BY <2>2, InsertFacts
    <3>2. PointOK(p)' /\ OneSlot(p)' /\ KeysOK(p)' /\ LeftOK(p)'
      BY <1>1, <1>3, <3>1 DEF PointOK, OneSlot, KeysOK, LeftOK
    <3>3. RequestOK(p)'
      BY <1>1, <1>2, <1>3, <2>2, <3>1, <3>2 DEF RequestOK
    <3> QED
      BY <1>1, <1>2, <3>1, <3>3, MoveOn DEF TypeInv
  <2> QED
    BY <2>1, <2>2, InsertFacts
<1> HIDE DEF i
<1>5. RowsOK' /\ StoresOK'
  BY <1>1, RowInserted DEF TypeInv, StoresOK
<1> QED
  BY <1>4, <1>5 DEF TypeInv

LEMMA AttachTypes == ASSUME TypeInv, NEW r \in Requests, Attach(r) PROVE TypeInv'
<1> DEFINE q == req[r]
<1>1. /\ q \in RequestStates /\ RequestOK(q) /\ q.pc = "attach" /\ q.id \in Ids
      /\ Become(r, Idle)
      /\ UNCHANGED <<objects, handed, clock, created, begun, picked, awaited, doubtful>>
  BY AttachFacts
<1>2. RequestsOK'
  BY <1>1, LetGo, BookFilesAssumption DEF TypeInv, RowsOK
<1>3. RowsOK' /\ abandoned' \subseteq objects
  <2>1. CASE UNCHANGED row /\ abandoned' = (abandoned \cup KeysIn(q.key)) \cap objects
    BY <1>1, <2>1, RowsStill DEF TypeInv
  <2>2. ASSUME NEW files \in Files, Rewrote(q.id, files),
               \A s \in Slots : files[s] =
                  IF q.key[s] = None THEN row[q.id].files[s] ELSE q.key[s],
               abandoned' = (abandoned \cup (KeysIn(row[q.id].files) \ KeysIn(files))) \cap objects
        PROVE  RowsOK' /\ abandoned' \subseteq objects
    <3>1. \A s \in Slots : files[s] # None => files[s] \in picked
      BY <1>1, <2>2 DEF TypeInv, RowsOK, RequestOK, KeysOK, Rewrote
    <3> QED
      BY <1>1, <2>2, <3>1, RowRewritten DEF TypeInv
  <2> QED
    BY <2>1, <2>2, AttachFacts
<1>4. StoresOK'
  BY <1>1, <1>3 DEF TypeInv, StoresOK
<1> QED
  BY <1>2, <1>3, <1>4 DEF TypeInv

LEMMA DeleteRowTypes == ASSUME TypeInv, NEW r \in Requests, DeleteRow(r) PROVE TypeInv'
<1> DEFINE q == req[r]
<1>1. /\ q \in RequestStates /\ RequestOK(q) /\ q.pc = "delete" /\ q.id \in Ids
      /\ Removed(q.id)
      /\ UNCHANGED <<objects, handed, clock, created, begun, picked, awaited, doubtful>>
      /\ abandoned' = (abandoned \cup (KeysIn(row[q.id].files) \ KeysIn(q.old))) \cap objects
  BY DeleteRowFacts
<1>2. PICK p \in RequestStates : Become(r, p) /\ p.pc = "dropOld" /\ Alike(p, q)
  BY DeleteRowFacts
<1>3. RequestsOK'
  <2>1. RequestOK(p)'
    BY <1>1, <1>2, AlikeFacts
  <2>2. picked \subseteq picked' /\ RequestsOK
        /\ created \in Nat /\ created' \in Nat /\ created <= created'
    BY <1>1, BookFilesAssumption DEF TypeInv, RowsOK
  <2> QED
    BY <1>2, <2>1, <2>2, MoveOn
<1>4. RowsOK' /\ StoresOK'
  BY <1>1, RowRemoved DEF TypeInv, StoresOK
<1> QED
  BY <1>3, <1>4 DEF TypeInv

LEMMA FailsTypes == ASSUME TypeInv, NEW r \in Requests, Fails(r) PROVE TypeInv'
<1> DEFINE q == req[r]
<1>1. /\ q \in RequestStates /\ RequestOK(q)
      /\ UNCHANGED <<objects, handed, clock, begun, picked, awaited>>
      /\ FailsTo(r) /\ FailsWith(r)
  BY FailsFacts
<1>2. RowsOK' /\ created <= created' /\ doubtful' \subseteq picked /\ abandoned' \subseteq objects
  <2>1. created \in Nat /\ doubtful \subseteq picked /\ abandoned \subseteq objects
        /\ KeysIn(q.key) \subseteq picked /\ RowsOK
    BY PickedKeys, BookFilesAssumption DEF TypeInv, RowsOK, StoresOK
  <2>2. CASE UNCHANGED <<row, created, doubtful, abandoned>>
    BY <1>1, <2>1, <2>2, RowsStill
  <2>3. ASSUME NEW i \in Ids, NEW files \in Files,
               Rewrote(i, files), doubtful' = doubtful \cup KeysIn(q.key),
               \A s \in Slots : files[s] = row[i].files[s] \/ files[s] = q.key[s],
               abandoned' = (abandoned \cup (KeysIn(row[i].files) \ KeysIn(files))) \cap objects
        PROVE  RowsOK' /\ created <= created' /\ doubtful' \subseteq picked
               /\ abandoned' \subseteq objects
    <3>1. \A s \in Slots : files[s] # None => files[s] \in picked
      BY <2>1, <2>3, KeysInFacts DEF RowsOK, Rewrote
    <3>2. RowsOK' /\ created' = created
      BY <1>1, <2>1, <2>3, <3>1, RowRewritten DEF Rewrote
    <3> QED
      BY <2>1, <2>3, <3>2
  <2>4. ASSUME NEW i \in Ids, Inserted(i, q.slug), UNCHANGED <<doubtful, abandoned>>
        PROVE  RowsOK' /\ created <= created' /\ doubtful' \subseteq picked
               /\ abandoned' \subseteq objects
    BY <1>1, <2>1, <2>4, RowInserted DEF Inserted
  <2>5. ASSUME NEW i \in Ids, Removed(i), UNCHANGED doubtful,
               abandoned' = (abandoned \cup KeysIn(row[i].files)) \cap objects
        PROVE  RowsOK' /\ created <= created' /\ doubtful' \subseteq picked
               /\ abandoned' \subseteq objects
    BY <1>1, <2>1, <2>5, RowRemoved DEF Removed
  <2> QED
    BY <1>1, <2>2, <2>3, <2>4, <2>5 DEF FailsWith
<1>3. RequestsOK'
  <2>1. picked \subseteq picked' /\ RequestsOK /\ created \in Nat /\ created' \in Nat
    BY <1>1, <1>2, BookFilesAssumption DEF TypeInv, RowsOK
  <2>2. CASE Become(r, Idle)
    <3>1. RequestOK(Idle)' /\ Idle \in RequestStates
      BY IdleFacts DEF RequestOK
    <3> QED
      BY <1>2, <2>1, <2>2, <3>1, MoveOn
  <2>3. ASSUME NEW p \in RequestStates, Become(r, p), p.pc = "cleanup", Alike(p, q),
               (q.pc = "write" /\ q.op = "upload") \/ q.pc \in {"insert", "attach"}
        PROVE  RequestsOK'
    <3>1. RequestOK(p)'
      BY <1>1, <2>3, AlikeFacts
    <3> QED
      BY <1>2, <2>1, <2>3, <3>1, MoveOn
  <2> QED
    BY <1>1, <2>2, <2>3 DEF FailsTo
<1>4. StoresOK'
  BY <1>1, <1>2 DEF TypeInv, StoresOK
<1> QED
  BY <1>2, <1>3, <1>4 DEF TypeInv

LEMMA EndsTypes == ASSUME TypeInv, NEW r \in Requests, Ends(r) PROVE TypeInv'
<1> DEFINE q == req[r]
<1>1. Become(r, Idle) /\ UNCHANGED <<row, clock, created, begun, picked>>
  BY EndsFacts
<1>2. Unanswered(q) \subseteq picked
  BY PickedKeys DEF Unanswered
<1>3. /\ objects' \subseteq objects /\ abandoned' \subseteq objects'
      /\ doubtful' \subseteq doubtful \cup Unanswered(q)
      /\ handed' \subseteq handed \cup Unanswered(q)
      /\ awaited \subseteq handed => awaited' \subseteq handed'
  BY EndsFacts DEF RemovedObjects
<1>4. RequestsOK'
  BY <1>1, LetGo, BookFilesAssumption DEF TypeInv, RowsOK
<1>5. RowsOK' /\ StoresOK'
  BY <1>1, <1>2, <1>3, RowsStill DEF TypeInv, StoresOK
<1> QED
  BY <1>4, <1>5 DEF TypeInv

LEMMA RenameTypes == ASSUME TypeInv, NEW i \in Ids, NEW s \in Slugs, Rename(i, s) PROVE TypeInv'
<1>1. /\ row[i] # None /\ Free(s)
      /\ row' \in [Ids -> Rows \cup {None}]
      /\ row'[i] # None /\ row'[i].slug = s /\ row'[i].files = row[i].files
      /\ \A j \in Ids : j # i => row'[j] = row[j]
      /\ UNCHANGED <<objects, handed, req, clock, created, begun, picked, awaited, doubtful,
                     abandoned>>
  BY RenameFacts
<1>2. RowsOK'
  BY <1>1 DEF TypeInv, RowsOK, Named, Free
<1>3. RequestsOK' /\ StoresOK'
  BY <1>1, StandStill DEF TypeInv, StoresOK
<1> QED
  BY <1>2, <1>3 DEF TypeInv

LEMMA OtherTypes ==
  ASSUME TypeInv, (\E k \in handed : ClientPut(k)) \/ Tick \/ UNCHANGED vars
  PROVE  TypeInv'
<1>1. RowsOK' /\ RequestsOK'
  BY RowsStill, StandStill DEF TypeInv, ClientPut, Tick, vars, histories
<1>2. StoresOK'
  BY BookFilesAssumption DEF TypeInv, StoresOK, ClientPut, Abandon, Tick, vars, histories
<1> QED
  BY <1>1, <1>2 DEF TypeInv

LEMMA NextSteps ==
  ASSUME [Next]_vars
  PROVE  \/ \E r \in Requests : \/ Starts(r)
                               \/ PickKey(r) \/ Put(r) \/ PutFails(r) \/ Write(r)
                               \/ Insert(r) \/ Attach(r) \/ DeleteRow(r)
                               \/ Fails(r) \/ Ends(r)
         \/ \E i \in Ids, s \in Slugs : Rename(i, s)
         \/ (\E k \in handed : ClientPut(k)) \/ Tick \/ UNCHANGED vars
BY DEF Next, Starts, Upload, Create, Delete, Fails, Ends

LEMMA TypeStep == TypeInv /\ [Next]_vars => TypeInv'
BY NextSteps, StartsType, PickKeyTypes, PutTypes, PutFailsTypes, WriteTypes, InsertTypes,
   AttachTypes, DeleteRowTypes, FailsTypes, EndsTypes, RenameTypes, OtherTypes

(* Rows have distinct slugs, only keys that were generated are in the      *)
(* bucket, and a request has the key or the id its next step uses.         *)
THEOREM TypeCorrect == Spec => []TypeOK
<1>1. Spec => []TypeInv
  BY InitTypeInv, TypeStep, PTL DEF Spec
<1> QED
  BY <1>1, TypeInvTypeOK, PTL

-----------------------------------------------------------------------------
(* Why no row dangles.  Every key there is nothing to doubt of has one      *)
(* owner: the request that generated it, until it hands it to a row, and    *)
(* then that row.                                                           *)

Sure == picked \ doubtful

(* A request that may still write the keys it generated, or take them back. *)
Working(q) == q.pc \in {"pick", "put", "write", "insert", "attach", "cleanup"}
Holds(q, k) == Working(q) /\ \E s \in Slots : q.key[s] = k

(* The keys it has uploaded, and has not begun to take back. *)
Has(q, k) ==
  /\ Holds(q, k)
  /\ \/ q.pc \in {"pick", "insert", "attach"}
     \/ q.pc = "write" /\ q.op = "upload"
     \/ q.pc = "put" /\ k # q.key[Current(q)]

At(i, s, k) == row[i] # None /\ row[i].files[s] = k

(* The object is there, or will be when a client does its part. *)
Promised(k) == k \in awaited \/ \E r \in Requests : k \in Unanswered(req[r])
Present(k) == k \in objects \/ Promised(k)

HeldByOne ==
  /\ \A r, u \in Requests, k \in Sure : Holds(req[r], k) /\ Holds(req[u], k) => r = u
  /\ \A r \in Requests, s, t \in Slots, k \in Sure :
       Working(req[r]) /\ req[r].key[s] = k /\ req[r].key[t] = k => s = t

HeldOrNamed ==
  \A r \in Requests, k \in Sure, i \in Ids, s \in Slots : Holds(req[r], k) => ~At(i, s, k)

NamedOnce ==
  \A k \in Sure, i, j \in Ids, s, t \in Slots : At(i, s, k) /\ At(j, t, k) => i = j /\ s = t

(* What a request replaces or deletes is where it was, and gone by the time *)
(* it removes the object.                                                   *)
OldIsItsOwn ==
  \A r \in Requests, s \in Slots, k \in Sure :
    req[r].pc # "idle" /\ req[r].old[s] = k =>
      /\ \A u \in Requests : ~Holds(req[u], k)
      /\ \A i \in Ids, t \in Slots :
           At(i, t, k) => i = req[r].id /\ t = s /\ req[r].pc # "dropOld"

Placed == HeldByOne /\ HeldOrNamed /\ NamedOnce /\ OldIsItsOwn

Stored ==
  /\ \A r \in Requests, k \in Sure : Has(req[r], k) => k \in objects
  /\ \A k \in Sure, i \in Ids, s \in Slots : At(i, s, k) => Present(k)

Owned == Placed /\ Stored

LEMMA KeysNotNone == \A k \in Keys : k # None
BY BookFilesAssumption

LEMMA SureFacts ==
  ASSUME TypeInv
  PROVE  Sure \subseteq Keys /\ \A k \in Sure : k # None /\ k \in picked /\ k \notin doubtful
BY KeysNotNone DEF TypeInv, StoresOK, Sure

(* Nothing becomes sure again. *)
LEMMA SureStep ==
  ASSUME picked' = picked, doubtful \subseteq doubtful'
  PROVE  Sure' \subseteq Sure /\ \A k \in Sure' : k \notin doubtful'
BY DEF Sure

LEMMA OneMoves ==
  ASSUME RequestsOK, NEW r \in Requests, NEW p, Become(r, p)
  PROVE  \A u \in Requests : req'[u] = IF u = r THEN p ELSE req[u]
BY DEF RequestsOK, Become

(* A step that writes no key into a row and generates none. *)
Calm(u) ==
  \/ req'[u].pc = "idle"
  \/ /\ req[u].pc # "idle"
     /\ \A s \in Slots : req'[u].key[s] \in {req[u].key[s], None}
     /\ Working(req[u])' => Working(req[u])
     /\ req'[u].old = req[u].old
     /\ req'[u].id = req[u].id \/ req[u].old = NoKeys
     /\ req'[u].pc = "dropOld" =>
          \/ req[u].pc = "dropOld"
          \/ \A s, t \in Slots, k \in Sure', i \in Ids : req[u].old[s] = k => ~At(i, t, k)'

LEMMA CalmStep ==
  ASSUME TypeInv, Placed, \A u \in Requests : Calm(u), Sure' \subseteq Sure,
         \A i \in Ids, s \in Slots, k \in Sure' : At(i, s, k)' => At(i, s, k)
  PROVE  Placed'
<1>0. \A k \in Sure' : k \in Sure /\ k # None
  BY SureFacts
<1>1. ASSUME NEW u \in Requests, NEW k \in Sure', Holds(req[u], k)'
      PROVE  Holds(req[u], k)
  BY <1>0, <1>1 DEF Calm, Holds, Working
<1>2. HeldByOne'
  <2>1. ASSUME NEW r \in Requests, NEW s \in Slots, NEW t \in Slots, NEW k \in Sure',
               Working(req[r])', req'[r].key[s] = k, req'[r].key[t] = k
        PROVE  s = t
    BY <1>0, <2>1 DEF Calm, Working, Placed, HeldByOne
  <2> QED
    BY <1>0, <1>1, <2>1 DEF Placed, HeldByOne
<1>3. HeldOrNamed'
  BY <1>0, <1>1 DEF Placed, HeldOrNamed
<1>4. NamedOnce'
  BY <1>0 DEF Placed, NamedOnce
<1>5. OldIsItsOwn'
  <2> SUFFICES ASSUME NEW r \in Requests, NEW s \in Slots, NEW k \in Sure',
                      req'[r].pc # "idle", req'[r].old[s] = k
               PROVE  /\ \A u \in Requests : ~Holds(req[u], k)'
                      /\ \A i \in Ids, t \in Slots :
                           At(i, t, k)' => i = req'[r].id /\ t = s /\ req'[r].pc # "dropOld"
    BY DEF OldIsItsOwn
  <2>1. /\ req[r].pc # "idle" /\ req[r].old[s] = k
        /\ req'[r].id = req[r].id \/ req[r].old = NoKeys
    BY DEF Calm
  <2>2. req'[r].id = req[r].id
    BY <1>0, <2>1, NoKeysFacts
  <2> QED
    BY <1>0, <1>1, <2>1, <2>2 DEF Placed, OldIsItsOwn, Calm
<1> QED
  BY <1>2, <1>3, <1>4, <1>5 DEF Placed

(* The URL of a presign that has written its row stays on its way. *)
LEMMA StillPromised ==
  ASSUME TypeInv, NEW r \in Requests, NEW p, Become(r, p), req[r].pc # "dropOld",
         awaited \subseteq awaited'
  PROVE  \A k : Promised(k) => Promised(k)'
<1>1. \A u \in Requests : req'[u] = IF u = r THEN p ELSE req[u]
  BY OneMoves DEF TypeInv
<1>2. ASSUME NEW k, NEW u \in Requests, k \in Unanswered(req[u])
      PROVE  Promised(k)'
  <2>1. req'[u] = req[u]
    BY <1>1, <1>2 DEF Unanswered
  <2> QED
    BY <1>2, <2>1 DEF Promised, Unanswered
<1> QED
  BY <1>2 DEF Promised

LEMMA OwnedStart == ASSUME TypeInv, Owned, NEW r \in Requests, Starts(r) PROVE Owned'
<1>1. UNCHANGED <<row, objects, picked, awaited, doubtful>>
  BY StartFacts
<1>2. PICK q \in RequestStates :
        /\ Start(r, q) /\ q.key = NoKeys
        /\ \/ q.old = NoKeys
           \/ /\ q.pc = "pick" /\ q.id \in Ids /\ row[q.id] # None
              /\ \E s \in Slots : /\ q.old[s] = row[q.id].files[s]
                                  /\ \A t \in Slots : t # s => q.old[t] = None
           \/ /\ q.pc = "delete" /\ q.id \in Ids /\ row[q.id] # None /\ q.old = row[q.id].files
  BY StartFacts
<1>3. /\ req[r].pc = "idle" /\ Become(r, q)
      /\ \A u \in Requests : req'[u] = IF u = r THEN q ELSE req[u]
  BY <1>2, OneMoves DEF Start, Become, TypeInv
<1>4. Placed /\ Stored
  BY DEF Owned
<1>5. /\ \A i \in Ids, s \in Slots, k \in Sure : At(i, s, k)' <=> At(i, s, k)
      /\ Sure' = Sure /\ \A k \in Sure : k # None
  BY <1>1, SureFacts DEF At, Sure
<1>6. ASSUME NEW u \in Requests, NEW k \in Sure, Holds(req[u], k)'
      PROVE  u # r /\ req'[u] = req[u] /\ Holds(req[u], k)
  BY <1>2, <1>3, <1>5, <1>6, NoKeysFacts DEF Holds, Working
<1>7. HeldByOne' /\ HeldOrNamed' /\ NamedOnce'
  <2>1. ASSUME NEW u \in Requests, NEW s \in Slots, NEW t \in Slots, NEW k \in Sure,
               Working(req[u])', req'[u].key[s] = k, req'[u].key[t] = k
        PROVE  s = t
    <3>1. Holds(req[u], k)'
      BY <2>1 DEF Holds
    <3>2. req'[u] = req[u]
      BY <1>6, <3>1
    <3> QED
      BY <1>4, <2>1, <3>2 DEF Placed, HeldByOne, Working
  <2> QED
    BY <1>4, <1>5, <1>6, <2>1 DEF Placed, HeldByOne, HeldOrNamed, NamedOnce
<1>8. OldIsItsOwn'
  <2> SUFFICES ASSUME NEW u \in Requests, NEW s \in Slots, NEW k \in Sure,
                      req'[u].pc # "idle", req'[u].old[s] = k
               PROVE  /\ \A v \in Requests : ~Holds(req[v], k)'
                      /\ \A i \in Ids, t \in Slots :
                           At(i, t, k)' => i = req'[u].id /\ t = s /\ req'[u].pc # "dropOld"
    BY <1>5 DEF OldIsItsOwn
  <2>1. CASE u # r
    BY <1>3, <1>4, <1>5, <1>6, <2>1 DEF Placed, OldIsItsOwn
  <2>2. CASE u = r
    <3>1. q.pc \in {"pick", "delete"} /\ At(q.id, s, k) /\ q.id \in Ids
      BY <1>2, <1>3, <1>5, <2>2, NoKeysFacts DEF At
    <3> QED
      BY <1>3, <1>4, <1>5, <1>6, <2>2, <3>1 DEF Placed, HeldOrNamed, NamedOnce
  <2> QED
    BY <2>1, <2>2
<1>9. Stored'
  <2>1. ASSUME NEW u \in Requests, NEW k \in Sure, Has(req[u], k)'
        PROVE  Has(req[u], k)
    <3>1. Holds(req[u], k)'
      BY <2>1 DEF Has
    <3>2. req'[u] = req[u]
      BY <1>6, <3>1
    <3> QED
      BY <2>1, <3>2 DEF Has, Holds, Working, Current
  <2>2. \A k : Present(k) => Present(k)'
    BY <1>1, <1>3, StillPromised DEF Present
  <2> QED
    BY <1>1, <1>4, <1>5, <2>1, <2>2 DEF Stored
<1> QED
  BY <1>7, <1>8, <1>9 DEF Placed, Owned

LEMMA OwnedPickKey == ASSUME TypeInv, Owned, NEW r \in Requests, PickKey(r) PROVE Owned'
<1> DEFINE q == req[r]
           s == Current(q)
           k == [prefix |-> Prefix(q.op, s), slug |-> q.slug, at |-> clock]
<1>1. /\ q.pc = "pick" /\ s \in Slots /\ k \in Keys /\ RequestOK(q)
      /\ picked' = picked \cup {k}
      /\ doubtful' = IF k \in picked THEN doubtful \cup {k} ELSE doubtful
      /\ UNCHANGED <<row, objects, awaited>>
  BY PickKeyFacts
<1>2. PICK p \in RequestStates :
        /\ Become(r, p)
        /\ p.key[s] = k
        /\ \A t \in Slots : t # s => p.key[t] = q.key[t]
        /\ p.pc = IF q.op = "presign" THEN "write" ELSE "put"
        /\ p.op = q.op /\ p.id = q.id /\ p.left = q.left /\ p.old = q.old
  BY PickKeyFacts
<1>3. Current(p) = s
  BY <1>2 DEF Current
<1> HIDE DEF k, s
<1>4. \A u \in Requests : req'[u] = IF u = r THEN p ELSE req[u]
  BY <1>2, OneMoves DEF TypeInv
<1>5. /\ Placed /\ Stored /\ k # None
      /\ \A l \in Sure' : l # None /\ (l = k \/ l \in Sure)
  BY <1>1, SureFacts, KeysNotNone DEF Owned, Sure
<1>6. \A i \in Ids, t \in Slots, l \in Sure' : At(i, t, l)' <=> At(i, t, l)
  BY <1>1 DEF At
<1>7. ASSUME k \in Sure'
      PROVE  /\ \A i \in Ids, t \in Slots : ~At(i, t, k)
             /\ \A u \in Requests : ~Holds(req[u], k)
             /\ \A u \in Requests, t \in Slots : req[u].pc # "idle" => req[u].old[t] # k
  <2>1. k \notin picked /\ k # None
    BY <1>1, <1>5, <1>7 DEF Sure
  <2> QED
    BY <2>1 DEF TypeInv, RowsOK, RequestsOK, RequestOK, KeysOK, At, Holds, Working
<1>8. ASSUME NEW u \in Requests, NEW l \in Sure', Holds(req[u], l)'
      PROVE  Holds(req[u], l) \/ (u = r /\ l = k)
  BY <1>1, <1>2, <1>4, <1>8 DEF Holds, Working
<1>9. HeldByOne'
  <2>1. ASSUME NEW u \in Requests, NEW t1 \in Slots, NEW t2 \in Slots, NEW l \in Sure',
               Working(req[u])', req'[u].key[t1] = l, req'[u].key[t2] = l
        PROVE  t1 = t2
    <3>1. CASE u # r
      <4>1. Working(req[u]) /\ req[u].key[t1] = l /\ req[u].key[t2] = l
        BY <1>4, <2>1, <3>1 DEF Working
      <4>2. l \in Sure
        BY <1>5, <1>7, <4>1 DEF Holds
      <4> QED
        BY <1>5, <4>1, <4>2 DEF Placed, HeldByOne
    <3>2. CASE u = r
      <4>1. \A t \in Slots : k \in Sure' => q.key[t] # k
        BY <1>1, <1>7 DEF Holds, Working
      <4>2. \A t, v \in Slots, m \in Sure : q.key[t] = m /\ q.key[v] = m => t = v
        BY <1>1, <1>5 DEF Placed, HeldByOne, Working
      <4> QED
        BY <1>2, <1>4, <1>5, <2>1, <3>2, <4>1, <4>2
    <3> QED
      BY <3>1, <3>2
  <2>2. ASSUME NEW u \in Requests, NEW v \in Requests, NEW l \in Sure',
               Holds(req[u], l)', Holds(req[v], l)'
        PROVE  u = v
    BY <1>5, <1>7, <1>8, <2>2 DEF Placed, HeldByOne
  <2> QED
    BY <2>1, <2>2 DEF HeldByOne
<1>10. HeldOrNamed' /\ NamedOnce'
  BY <1>5, <1>6, <1>7, <1>8 DEF Placed, HeldOrNamed, NamedOnce
<1>11. OldIsItsOwn'
  <2> SUFFICES ASSUME NEW u \in Requests, NEW t \in Slots, NEW l \in Sure',
                      req'[u].pc # "idle", req'[u].old[t] = l
               PROVE  /\ \A v \in Requests : ~Holds(req[v], l)'
                      /\ \A i \in Ids, w \in Slots :
                           At(i, w, l)' => i = req'[u].id /\ w = t /\ req'[u].pc # "dropOld"
    BY DEF OldIsItsOwn
  <2>1. /\ req[u].pc # "idle" /\ req[u].old[t] = l /\ req[u].id = req'[u].id
        /\ (req'[u].pc = "dropOld" => req[u].pc = "dropOld")
    BY <1>1, <1>2, <1>4
  <2>2. l # k /\ l \in Sure
    BY <1>5, <1>7, <2>1
  <2> QED
    BY <1>5, <1>6, <1>8, <2>1, <2>2 DEF Placed, OldIsItsOwn
<1>12. Stored'
  <2>1. ASSUME NEW u \in Requests, NEW l \in Sure', Has(req[u], l)'
        PROVE  l \in objects
    <3>1. Has(req[u], l)
      <4>1. CASE u # r
        BY <1>4, <2>1, <4>1 DEF Has, Holds, Working, Current
      <4>2. CASE u = r
        <5>1. req'[r] = p /\ (p.pc = "write" => p.op # "upload") /\ p.pc \in {"put", "write"}
              /\ Current(p)' = s
          BY <1>2, <1>3, <1>4 DEF Current
        <5>2. Holds(p, l) /\ l # k
          BY <1>2, <2>1, <4>2, <5>1 DEF Has, Holds, Working
        <5> QED
          BY <1>1, <1>2, <4>2, <5>2 DEF Has, Holds, Working
      <4> QED
        BY <4>1, <4>2
    <3>2. l \in Sure
      BY <1>5, <1>7, <2>1, <3>1 DEF Has
    <3> QED
      BY <1>5, <3>1, <3>2 DEF Stored
  <2>2. \A l : Present(l) => Present(l)'
    BY <1>1, <1>2, StillPromised DEF Present
  <2>3. ASSUME NEW l \in Sure', NEW i \in Ids, NEW t \in Slots, At(i, t, l)'
        PROVE  Present(l)'
    BY <1>5, <1>6, <1>7, <2>2, <2>3 DEF Stored
  <2> QED
    BY <1>1, <2>1, <2>3 DEF Stored
<1> QED
  BY <1>9, <1>10, <1>11, <1>12 DEF Placed, Owned

(* The stores after a step that takes away no key that matters. *)
LEMMA StoredStep ==
  ASSUME Stored, Sure' \subseteq Sure,
         \A i \in Ids, s \in Slots, k \in Sure' : At(i, s, k)' => At(i, s, k),
         \A u \in Requests, k \in Sure' : Has(req[u], k)' => Has(req[u], k) \/ k \in objects',
         \A u \in Requests, k \in Sure' : k \in objects /\ Has(req[u], k)' => k \in objects',
         \A i \in Ids, s \in Slots, k \in Sure' : Present(k) /\ At(i, s, k)' => Present(k)'
  PROVE  Stored'
BY DEF Stored

LEMMA OwnedPut == ASSUME TypeInv, Owned, NEW r \in Requests, Put(r) PROVE Owned'
<1> DEFINE q == req[r]
           s == Current(q)
<1>1. /\ q \in RequestStates /\ q.pc = "put" /\ s \in Slots
      /\ objects' = objects \cup {q.key[s]}
      /\ UNCHANGED <<row, picked, awaited, doubtful>>
  BY PutFacts
<1>2. PICK p \in RequestStates :
        /\ Become(r, p) /\ p.key = q.key /\ p.id = q.id /\ p.old = q.old
        /\ p.pc \in {"write", "insert", "pick"}
  BY PutFacts
<1>3. \A u \in Requests : req'[u] = IF u = r THEN p ELSE req[u]
  BY <1>2, OneMoves DEF TypeInv
<1>4. Placed /\ Stored /\ Sure' \subseteq Sure
  BY <1>1, SureStep DEF Owned
<1>5. \A i \in Ids, t \in Slots, k \in Sure' : At(i, t, k)' => At(i, t, k)
  BY <1>1 DEF At
<1>6. \A u \in Requests : Calm(u)
  BY <1>1, <1>2, <1>3 DEF Calm, Working
<1>7. ASSUME NEW u \in Requests, NEW k \in Sure', Has(req[u], k)'
      PROVE  Has(req[u], k) \/ k \in objects'
  <2>1. CASE u # r
    BY <1>3, <1>7, <2>1 DEF Has, Holds, Working, Current
  <2>2. CASE u = r
    <3>1. Holds(q, k)
      BY <1>1, <1>2, <1>3, <1>7, <2>2 DEF Has, Holds, Working
    <3> QED
      BY <1>1, <2>2, <3>1 DEF Has
  <2> QED
    BY <2>1, <2>2
<1>8. \A k : Present(k) => Present(k)'
  BY <1>1, <1>2, StillPromised DEF Present
<1>9. Placed'
  BY <1>4, <1>5, <1>6, CalmStep
<1>10. Stored'
  BY <1>1, <1>4, <1>5, <1>7, <1>8, StoredStep
<1> QED
  BY <1>9, <1>10 DEF Owned

LEMMA OwnedPutFails == ASSUME TypeInv, Owned, NEW r \in Requests, PutFails(r) PROVE Owned'
<1> DEFINE q == req[r]
           s == Current(q)
<1>1. /\ q \in RequestStates /\ q.pc = "put" /\ s \in Slots /\ objects \subseteq objects'
      /\ UNCHANGED <<row, picked, awaited, doubtful>>
  BY PutFailsFacts
<1>2. PICK p \in RequestStates :
        /\ Become(r, p) /\ p.pc = "cleanup" /\ p.id = q.id
        /\ p.old = q.old /\ p.key[s] = None
        /\ \A t \in Slots : t # s => p.key[t] = q.key[t]
  BY PutFailsFacts
<1>3. \A u \in Requests : req'[u] = IF u = r THEN p ELSE req[u]
  BY <1>2, OneMoves DEF TypeInv
<1>4. Placed /\ Stored /\ Sure' \subseteq Sure
  BY <1>1, SureStep DEF Owned
<1>5. \A i \in Ids, t \in Slots, k \in Sure' : At(i, t, k)' => At(i, t, k)
  BY <1>1 DEF At
<1>6. \A u \in Requests : Calm(u)
  BY <1>1, <1>2, <1>3 DEF Calm, Working
<1>7. ASSUME NEW u \in Requests, NEW k \in Sure', Has(req[u], k)'
      PROVE  Has(req[u], k)
  BY <1>2, <1>3, <1>7 DEF Has, Holds, Working, Current
<1>8. \A k : Present(k) => Present(k)'
  BY <1>1, <1>2, StillPromised DEF Present
<1>9. Placed'
  BY <1>4, <1>5, <1>6, CalmStep
<1>10. Stored'
  BY <1>1, <1>4, <1>5, <1>7, <1>8, StoredStep
<1> QED
  BY <1>9, <1>10 DEF Owned

LEMMA OwnedInsert == ASSUME TypeInv, Owned, NEW r \in Requests, Insert(r) PROVE Owned'
<1> DEFINE q == req[r]
           i == created + 1
<1>1. /\ q.pc = "insert" /\ RequestOK(q) /\ i \in Ids /\ Inserted(i, q.slug)
      /\ UNCHANGED <<objects, picked, awaited, doubtful>>
  BY InsertFacts
<1>2. q.old = NoKeys
  BY <1>1 DEF RequestOK, PointOK, KeysOK
<1>3. \E p : /\ Become(r, p)
             /\ p.pc = "idle" \/ (p.pc = "attach" /\ p.key = q.key /\ p.old = q.old)
  BY InsertFacts, IdleFacts
<1>4. PICK p : /\ p.pc = "idle" \/ (p.pc = "attach" /\ p.key = q.key /\ p.old = q.old)
               /\ Become(r, p)
               /\ \A u \in Requests : req'[u] = IF u = r THEN p ELSE req[u]
  BY <1>3, OneMoves DEF TypeInv
<1> HIDE DEF i
<1>5. Placed /\ Stored /\ Sure' \subseteq Sure /\ \A k \in Sure' : k # None
  BY <1>1, SureStep, SureFacts DEF Owned
<1>6. \A j \in Ids, t \in Slots, k \in Sure' : At(j, t, k)' => At(j, t, k)
  BY <1>1, <1>5, NoKeysFacts DEF At, Inserted
<1>7. \A u \in Requests : Calm(u)
  BY <1>1, <1>2, <1>4 DEF Calm, Working
<1>8. ASSUME NEW u \in Requests, NEW k \in Sure', Has(req[u], k)'
      PROVE  Has(req[u], k)
  BY <1>1, <1>4, <1>8 DEF Has, Holds, Working, Current
<1>9. \A k : Present(k) => Present(k)'
  BY <1>1, <1>4, StillPromised DEF Present
<1>10. Placed'
  BY <1>5, <1>6, <1>7, CalmStep
<1>11. Stored'
  BY <1>1, <1>5, <1>6, <1>8, <1>9, StoredStep
<1> QED
  BY <1>10, <1>11 DEF Owned

LEMMA OwnedDeleteRow == ASSUME TypeInv, Owned, NEW r \in Requests, DeleteRow(r) PROVE Owned'
<1> DEFINE q == req[r]
<1>1. /\ q.pc = "delete" /\ q.id \in Ids /\ Removed(q.id)
      /\ UNCHANGED <<objects, picked, awaited, doubtful>>
  BY DeleteRowFacts
<1>2. PICK p \in RequestStates : Become(r, p) /\ p.pc = "dropOld" /\ Alike(p, q)
  BY DeleteRowFacts
<1>3. \A u \in Requests : req'[u] = IF u = r THEN p ELSE req[u]
  BY <1>2, OneMoves DEF TypeInv
<1>4. Placed /\ Stored /\ Sure' \subseteq Sure
  BY <1>1, SureStep DEF Owned
<1>5. \A j \in Ids, t \in Slots, k \in Sure' : At(j, t, k)' => At(j, t, k) /\ j # q.id
  BY <1>1 DEF At, Removed
<1>6. \A u \in Requests : Calm(u)
  <2>1. ASSUME NEW s \in Slots, NEW t \in Slots, NEW k \in Sure', NEW j \in Ids, q.old[s] = k
        PROVE  ~At(j, t, k)'
    BY <1>1, <1>4, <1>5, <2>1 DEF Placed, OldIsItsOwn
  <2> QED
    BY <1>1, <1>2, <1>3, <2>1 DEF Calm, Working, Alike
<1>7. ASSUME NEW u \in Requests, NEW k \in Sure', Has(req[u], k)'
      PROVE  Has(req[u], k)
  BY <1>2, <1>3, <1>7 DEF Has, Holds, Working, Current
<1>8. \A k : Present(k) => Present(k)'
  BY <1>1, <1>2, StillPromised DEF Present
<1>9. Placed'
  BY <1>4, <1>5, <1>6, CalmStep
<1>10. Stored'
  BY <1>1, <1>4, <1>5, <1>7, <1>8, StoredStep
<1> QED
  BY <1>9, <1>10 DEF Owned

(* A key written although the statement failed is in doubt from then on. *)
LEMMA OwnedFails == ASSUME TypeInv, Owned, NEW r \in Requests, Fails(r) PROVE Owned'
<1> DEFINE q == req[r]
<1>1. UNCHANGED <<objects, picked, awaited>> /\ FailsTo(r) /\ FailsWith(r)
  BY FailsFacts
<1>2. \E p : /\ Become(r, p)
             /\ p.pc = "idle" \/ (p.pc = "cleanup" /\ Alike(p, q) /\ Working(q))
  BY <1>1, IdleFacts DEF FailsTo, Working
<1>3. PICK p : /\ p.pc = "idle" \/ (p.pc = "cleanup" /\ Alike(p, q) /\ Working(q))
               /\ Become(r, p)
               /\ \A u \in Requests : req'[u] = IF u = r THEN p ELSE req[u]
  BY <1>2, OneMoves DEF TypeInv
<1>4. /\ Placed /\ Stored /\ Sure' \subseteq Sure
      /\ \A k \in Sure' : k # None /\ k \notin doubtful'
  <2>1. doubtful \subseteq doubtful'
    BY <1>1 DEF FailsWith
  <2> QED
    BY <1>1, <2>1, SureStep, SureFacts DEF Owned
<1>5. ASSUME NEW j \in Ids, NEW t \in Slots, NEW k \in Sure', At(j, t, k)'
      PROVE  At(j, t, k)
  <2>1. CASE UNCHANGED row
    BY <1>5, <2>1 DEF At
  <2>2. ASSUME NEW i \in Ids, NEW files, Rewrote(i, files),
               doubtful' = doubtful \cup KeysIn(q.key),
               \A s \in Slots : files[s] = row[i].files[s] \/ files[s] = q.key[s]
        PROVE  At(j, t, k)
    <3>1. q.key[t] # k
      BY <1>4, <2>2, KeysInFacts
    <3> QED
      BY <1>5, <2>2, <3>1 DEF At, Rewrote
  <2>3. ASSUME NEW i \in Ids, Inserted(i, q.slug)
        PROVE  At(j, t, k)
    BY <1>4, <1>5, <2>3, NoKeysFacts DEF At, Inserted
  <2>4. ASSUME NEW i \in Ids, Removed(i)
        PROVE  At(j, t, k)
    BY <1>5, <2>4 DEF At, Removed
  <2> QED
    BY <1>1, <2>1, <2>2, <2>3, <2>4 DEF FailsWith
<1>6. \A u \in Requests : Calm(u)
  BY <1>3 DEF Calm, Working, Alike
<1>7. ASSUME NEW u \in Requests, NEW k \in Sure', Has(req[u], k)'
      PROVE  Has(req[u], k)
  BY <1>3, <1>7 DEF Has, Holds, Working, Current
<1>8. \A k : Present(k) => Present(k)'
  <2>1. q.pc # "dropOld"
    BY <1>1 DEF FailsTo
  <2> QED
    BY <1>1, <1>3, <2>1, StillPromised DEF Present
<1>9. Placed'
  BY <1>4, <1>5, <1>6, CalmStep
<1>10. Stored'
  BY <1>1, <1>4, <1>5, <1>7, <1>8, StoredStep
<1> QED
  BY <1>9, <1>10 DEF Owned

(* Nobody needs what is removed at the end of a request. *)
LEMMA OwnedEnds == ASSUME TypeInv, Owned, NEW r \in Requests, Ends(r) PROVE Owned'
<1> DEFINE q == req[r]
<1>1. /\ Become(r, Idle) /\ UNCHANGED <<row, picked>>
      /\ doubtful \subseteq doubtful' /\ awaited \subseteq awaited'
      /\ Unanswered(q) \subseteq awaited' \cup doubtful'
      /\ \A k \in objects \ objects' : \/ q.pc = "dropOld" /\ k \in KeysIn(q.old)
                                       \/ q.pc = "cleanup" /\ k \in KeysIn(q.key)
  BY EndsFacts DEF RemovedObjects, Unanswered
<1>2. \A u \in Requests : req'[u] = IF u = r THEN Idle ELSE req[u]
  BY <1>1, OneMoves DEF TypeInv
<1>3. /\ Placed /\ Stored /\ Sure' \subseteq Sure
      /\ \A k \in Sure' : k \notin doubtful'
  BY <1>1, SureStep DEF Owned
<1>4. \A i \in Ids, t \in Slots, k \in Sure' : At(i, t, k)' <=> At(i, t, k)
  BY <1>1 DEF At
<1>5. \A u \in Requests : Calm(u)
  BY <1>2, IdleFacts DEF Calm, Working
<1>6. ASSUME NEW u \in Requests, NEW k \in Sure', Has(req[u], k)'
      PROVE  Has(req[u], k) /\ u # r
  BY <1>2, <1>6, IdleFacts DEF Has, Holds, Working, Current
<1>7. ASSUME NEW k \in Sure', k \in objects, k \notin objects'
      PROVE  /\ \A u \in Requests : ~Has(req[u], k)'
             /\ \A i \in Ids, s \in Slots : ~At(i, s, k)'
  <2>1. PICK s \in Slots : \/ q.pc = "dropOld" /\ q.old[s] = k
                           \/ q.pc = "cleanup" /\ q.key[s] = k
    BY <1>1, <1>7, KeysInFacts
  <2>2. k \in Sure
    BY <1>3
  <2>3. CASE q.pc = "dropOld"
    BY <1>3, <1>4, <1>6, <2>1, <2>2, <2>3 DEF Placed, OldIsItsOwn, Has
  <2>4. CASE q.pc = "cleanup"
    <3>1. Holds(q, k)
      BY <2>1, <2>4 DEF Holds, Working
    <3> QED
      BY <1>3, <1>4, <1>6, <2>2, <3>1 DEF Placed, HeldByOne, HeldOrNamed, Has
  <2> QED
    BY <2>1, <2>3, <2>4
<1>8. ASSUME NEW k \in Sure', Promised(k)
      PROVE  Promised(k)'
  <2>1. ASSUME NEW u \in Requests, k \in Unanswered(req[u])
        PROVE  Promised(k)'
    <3>1. CASE u = r
      BY <1>1, <1>3, <2>1, <3>1 DEF Promised
    <3>2. CASE u # r
      <4>1. req'[u] = req[u]
        BY <1>2, <3>2
      <4> QED
        BY <2>1, <4>1 DEF Promised, Unanswered
    <3> QED
      BY <3>1, <3>2
  <2> QED
    BY <1>1, <1>8, <2>1 DEF Promised
<1>9. \A i \in Ids, s \in Slots, k \in Sure' : Present(k) /\ At(i, s, k)' => Present(k)'
  BY <1>7, <1>8 DEF Present
<1>10. Placed'
  BY <1>3, <1>4, <1>5, CalmStep
<1>11. Stored'
  BY <1>3, <1>4, <1>6, <1>7, <1>9, StoredStep
<1> QED
  BY <1>10, <1>11 DEF Owned

LEMMA OwnedOther ==
  ASSUME TypeInv, Owned,
         \/ \E i \in Ids, s \in Slugs : Rename(i, s)
         \/ (\E k \in handed : ClientPut(k)) \/ Tick \/ UNCHANGED vars
  PROVE  Owned'
<1>1. /\ UNCHANGED <<req, picked, doubtful>> /\ objects \subseteq objects'
      /\ \A k \in awaited : k \in awaited' \/ k \in objects'
  BY RenameFacts DEF ClientPut, Tick, vars, histories
<1>2. \A i \in Ids, t \in Slots, k \in Sure' : At(i, t, k)' => At(i, t, k)
  BY RenameFacts DEF ClientPut, Tick, vars, At
<1>3. Placed /\ Stored /\ Sure' \subseteq Sure
  BY <1>1, SureStep DEF Owned
<1>4. \A u \in Requests : Calm(u)
  BY <1>1 DEF Calm, Working
<1>5. \A u \in Requests, k \in Sure' : Has(req[u], k)' => Has(req[u], k)
  BY <1>1 DEF Has, Holds, Working, Current
<1>6. \A k : Present(k) => Present(k)'
  BY <1>1 DEF Present, Promised, Unanswered
<1>7. Placed'
  BY <1>2, <1>3, <1>4, CalmStep
<1>8. Stored'
  BY <1>1, <1>2, <1>3, <1>5, <1>6, StoredStep
<1> QED
  BY <1>7, <1>8 DEF Owned

LEMMA OwnedWrite == ASSUME TypeInv, Owned, NEW r \in Requests, Write(r) PROVE Owned'
<1> DEFINE q == req[r]
           s == Current(q)
<1>1. /\ q \in RequestStates /\ RequestOK(q) /\ q.pc = "write" /\ s \in q.left /\ s \in Slots
      /\ UNCHANGED <<objects, picked, awaited>>
  BY WriteFacts
<1>2. PICK i \in Ids, files \in Files :
        /\ Rewrote(i, files)
        /\ files[s] = q.key[s]
        /\ \A t \in Slots : t # s => files[t] = row[i].files[t]
        /\ doubtful' = IF i = q.id THEN doubtful ELSE doubtful \cup KeysIn(q.old)
  BY WriteFacts
<1>3. PICK p \in RequestStates : Become(r, p) /\ p.pc = "dropOld" /\ Alike(p, q)
  BY WriteFacts
<1>4. \A u \in Requests : req'[u] = IF u = r THEN p ELSE req[u]
  BY <1>3, OneMoves DEF TypeInv
<1>5. /\ q.op \in {"upload", "presign"} /\ OneSlot(q) /\ LeftOK(q)
  BY <1>1 DEF RequestOK, PointOK
<1>6. \A t \in Slots : t # s => q.key[t] = None /\ q.old[t] = None
  BY <1>1, <1>5 DEF OneSlot
<1> PICK k0 : k0 = q.key[s]
  OBVIOUS
<1>7. /\ Holds(q, k0) /\ k0 # None
      /\ q.op = "upload" => Has(q, k0)
  BY <1>1, <1>5 DEF Has, Holds, Working, LeftOK
<1>8. q.op = "presign" => Promised(k0)'
  <2>1. q.op = "presign" => k0 \in Unanswered(req'[r])
    BY <1>1, <1>3, <1>4, <1>7, KeysInFacts DEF Unanswered, Alike
  <2> QED
    BY <2>1 DEF Promised, Unanswered
<1>9. \A k : Present(k) => Present(k)'
  BY <1>1, <1>3, StillPromised DEF Present
<1> HIDE DEF s
<1>10. /\ Placed /\ Stored
       /\ \A k \in Sure' : k \in Sure /\ k # None /\ k \notin doubtful'
  <2>1. doubtful \subseteq doubtful'
    BY <1>2
  <2> QED
    BY <1>1, <2>1, SureStep, SureFacts DEF Owned
<1>11. \A j \in Ids, t \in Slots, k \in Sure' :
         At(j, t, k)' <=> IF j = i /\ t = s THEN k = k0 ELSE At(j, t, k)
  BY <1>1, <1>2 DEF At, Rewrote
<1>12. ASSUME NEW u \in Requests, NEW k \in Sure', Holds(req[u], k)'
       PROVE  u # r /\ req'[u] = req[u] /\ Holds(req[u], k)
  BY <1>3, <1>4, <1>12 DEF Holds, Working
<1>13. \A u \in Requests, k \in Sure' : Holds(req[u], k)' => k # k0
  BY <1>7, <1>10, <1>12 DEF Placed, HeldByOne
<1>14. HeldByOne'
  <2>1. ASSUME NEW u \in Requests, NEW t \in Slots, NEW w \in Slots, NEW k \in Sure',
               Working(req[u])', req'[u].key[t] = k, req'[u].key[w] = k
        PROVE  t = w
    <3>1. Holds(req[u], k)'
      BY <2>1 DEF Holds
    <3>2. req'[u] = req[u]
      BY <1>12, <3>1
    <3> QED
      BY <1>10, <2>1, <3>2 DEF Placed, HeldByOne, Working
  <2> QED
    BY <1>10, <1>12, <2>1 DEF Placed, HeldByOne
<1>15. HeldOrNamed'
  BY <1>10, <1>11, <1>12, <1>13 DEF Placed, HeldOrNamed
<1>16. NamedOnce'
  <2>1. \A j \in Ids, t \in Slots : k0 \in Sure' => ~At(j, t, k0)
    BY <1>7, <1>10 DEF Placed, HeldOrNamed
  <2> QED
    BY <1>10, <1>11, <2>1 DEF Placed, NamedOnce
<1>17. OldIsItsOwn'
  <2> SUFFICES ASSUME NEW u \in Requests, NEW t \in Slots, NEW k \in Sure',
                      req'[u].pc # "idle", req'[u].old[t] = k
               PROVE  /\ \A v \in Requests : ~Holds(req[v], k)'
                      /\ \A j \in Ids, w \in Slots :
                           At(j, w, k)' => j = req'[u].id /\ w = t /\ req'[u].pc # "dropOld"
    BY DEF OldIsItsOwn
  <2>1. /\ req[u].pc # "idle" /\ req[u].old[t] = k /\ req'[u].id = req[u].id
        /\ (u # r => req'[u] = req[u])
    BY <1>1, <1>3, <1>4 DEF Alike
  <2>2. u = r => t = s /\ i = q.id
    BY <1>2, <1>6, <1>10, <2>1, KeysInFacts
  <2>3. /\ \A v \in Requests : ~Holds(req[v], k)
        /\ \A j \in Ids, w \in Slots :
             At(j, w, k) => j = req[u].id /\ w = t /\ req[u].pc # "dropOld"
    BY <1>10, <2>1 DEF Placed, OldIsItsOwn
  <2>4. k # k0
    BY <1>7, <2>3
  <2>5. \A j \in Ids, w \in Slots : At(j, w, k)' => At(j, w, k) /\ ~(j = i /\ w = s)
    BY <1>11, <2>4
  <2> QED
    BY <1>12, <2>1, <2>2, <2>3, <2>5
<1>18. Stored'
  <2>1. ASSUME NEW u \in Requests, NEW k \in Sure', Has(req[u], k)'
        PROVE  Has(req[u], k)
    <3>1. Holds(req[u], k)'
      BY <2>1 DEF Has
    <3>2. req'[u] = req[u]
      BY <1>12, <3>1
    <3> QED
      BY <2>1, <3>2 DEF Has, Holds, Working, Current
  <2>2. k0 \in Sure' => Present(k0)'
    BY <1>1, <1>5, <1>7, <1>8, <1>10 DEF Stored, Present
  <2> QED
    BY <1>1, <1>9, <1>10, <1>11, <2>1, <2>2 DEF Stored
<1> QED
  BY <1>14, <1>15, <1>16, <1>17, <1>18 DEF Placed, Owned

LEMMA OwnedAttach == ASSUME TypeInv, Owned, NEW r \in Requests, Attach(r) PROVE Owned'
<1> DEFINE q == req[r]
           i == q.id
<1>1. /\ q \in RequestStates /\ RequestOK(q) /\ q.pc = "attach" /\ i \in Ids
      /\ Become(r, Idle)
      /\ UNCHANGED <<objects, picked, awaited, doubtful>>
  BY AttachFacts
<1>2. \A u \in Requests : req'[u] = IF u = r THEN Idle ELSE req[u]
  BY <1>1, OneMoves DEF TypeInv
<1>3. Placed /\ Stored /\ \A k \in Sure' : k \in Sure /\ k # None
  BY <1>1, SureStep, SureFacts DEF Owned
<1>4. \A s \in Slots, k \in Sure' : q.key[s] = k => Holds(q, k) /\ Has(q, k)
  BY <1>1 DEF Has, Holds, Working
<1>5. ASSUME NEW u \in Requests, NEW k \in Sure', Holds(req[u], k)'
      PROVE  u # r /\ req'[u] = req[u] /\ Holds(req[u], k)
  BY <1>2, <1>5, IdleFacts DEF Holds, Working
<1>6. \A u \in Requests, k \in Sure', s \in Slots : Holds(req[u], k)' => q.key[s] # k
  BY <1>1, <1>3, <1>4, <1>5 DEF Placed, HeldByOne
<1>7. ASSUME NEW j \in Ids, NEW s \in Slots, NEW k \in Sure', At(j, s, k)'
      PROVE  At(j, s, k) \/ (j = i /\ q.key[s] = k)
  <2>1. CASE UNCHANGED row
    BY <1>7, <2>1 DEF At
  <2>2. ASSUME NEW files \in Files, Rewrote(i, files),
               \A t \in Slots : files[t] =
                 IF q.key[t] = None THEN row[i].files[t] ELSE q.key[t]
        PROVE  At(j, s, k) \/ (j = i /\ q.key[s] = k)
    BY <1>7, <2>2 DEF At, Rewrote
  <2> QED
    BY <2>1, <2>2, AttachFacts
<1> HIDE DEF i
<1>8. HeldByOne'
  <2>1. ASSUME NEW u \in Requests, NEW t \in Slots, NEW w \in Slots, NEW k \in Sure',
               Working(req[u])', req'[u].key[t] = k, req'[u].key[w] = k
        PROVE  t = w
    <3>1. Holds(req[u], k)'
      BY <2>1 DEF Holds
    <3>2. req'[u] = req[u]
      BY <1>5, <3>1
    <3> QED
      BY <1>3, <2>1, <3>2 DEF Placed, HeldByOne, Working
  <2> QED
    BY <1>3, <1>5, <2>1 DEF Placed, HeldByOne
<1>9. HeldOrNamed'
  BY <1>3, <1>5, <1>6, <1>7 DEF Placed, HeldOrNamed
<1>10. NamedOnce'
  <2>1. \A s, t \in Slots, k \in Sure' : q.key[s] = k /\ q.key[t] = k => s = t
    BY <1>1, <1>3 DEF Placed, HeldByOne, Working
  <2>2. \A s, t \in Slots, k \in Sure', j \in Ids : q.key[s] = k => ~At(j, t, k)
    BY <1>1, <1>3, <1>4 DEF Placed, HeldOrNamed
  <2> QED
    BY <1>3, <1>7, <2>1, <2>2 DEF Placed, NamedOnce
<1>11. OldIsItsOwn'
  <2> SUFFICES ASSUME NEW u \in Requests, NEW t \in Slots, NEW k \in Sure',
                      req'[u].pc # "idle", req'[u].old[t] = k
               PROVE  /\ \A v \in Requests : ~Holds(req[v], k)'
                      /\ \A j \in Ids, w \in Slots :
                           At(j, w, k)' => j = req'[u].id /\ w = t /\ req'[u].pc # "dropOld"
    BY DEF OldIsItsOwn
  <2>1. u # r /\ req'[u] = req[u]
    BY <1>2, IdleFacts
  <2>2. /\ \A v \in Requests : ~Holds(req[v], k)
        /\ \A j \in Ids, w \in Slots :
             At(j, w, k) => j = req[u].id /\ w = t /\ req[u].pc # "dropOld"
    BY <1>3, <2>1 DEF Placed, OldIsItsOwn
  <2>3. \A j \in Ids, w \in Slots : At(j, w, k)' => At(j, w, k)
    BY <1>4, <1>7, <2>2
  <2> QED
    BY <1>5, <2>1, <2>2, <2>3
<1>12. Stored'
  <2>1. ASSUME NEW u \in Requests, NEW k \in Sure', Has(req[u], k)'
        PROVE  Has(req[u], k)
    <3>1. Holds(req[u], k)'
      BY <2>1 DEF Has
    <3>2. req'[u] = req[u]
      BY <1>5, <3>1
    <3> QED
      BY <2>1, <3>2 DEF Has, Holds, Working, Current
  <2>2. \A k : Present(k) => Present(k)'
    BY <1>1, StillPromised DEF Present
  <2>3. \A k \in Sure', s \in Slots : q.key[s] = k => Present(k)
    BY <1>3, <1>4 DEF Stored, Present
  <2> QED
    BY <1>1, <1>3, <1>7, <2>1, <2>2, <2>3 DEF Stored
<1> QED
  BY <1>8, <1>9, <1>10, <1>11, <1>12 DEF Placed, Owned

LEMMA OwnedStep == TypeInv /\ Owned /\ [Next]_vars => Owned'
BY NextSteps, OwnedStart, OwnedPickKey, OwnedPut, OwnedPutFails, OwnedWrite, OwnedInsert,
   OwnedAttach, OwnedDeleteRow, OwnedFails, OwnedEnds, OwnedOther

LEMMA InitOwned == Init => Owned
BY DEF Init, Owned, Placed, Stored, HeldByOne, HeldOrNamed, NamedOnce, OldIsItsOwn, Sure

LEMMA ReferencedFacts ==
  ASSUME TypeInv
  PROVE  \A k : k \in Referenced <=> k \in Keys /\ \E i \in Ids, s \in Slots : At(i, s, k)
<1>1. \A i \in Ids : row[i] # None => row[i].files \in Files
  BY DEF TypeInv, RowsOK, Rows
<1> QED
  BY <1>1, KeysNotNone DEF Referenced, KeysIn, At, Files

LEMMA ReferencedPicked ==
  ASSUME TypeInv, NEW i \in Ids, NEW s \in Slots, NEW k, k # None, At(i, s, k)
  PROVE  k \in picked
BY DEF TypeInv, RowsOK, At

(* A file is deleted only after the row names another, or when no row was  *)
(* told of it, so that no row names a file that is gone: however many       *)
(* requests overlap, rename, fail, fail when they have succeeded, or die,   *)
(* but for the four ways to doubt a key that NoDanglingReference lists.     *)
THEOREM NoneDangles == Spec => []NoDanglingReference
<1>1. TypeInv /\ Owned => NoDanglingReference
  <2> SUFFICES ASSUME TypeInv, Owned, NEW k \in Referenced, k \notin doubtful
               PROVE  k \in objects \cup awaited \cup UNION {Unanswered(req[r]) : r \in Requests}
    BY DEF NoDanglingReference
  <2>1. PICK i \in Ids, s \in Slots : At(i, s, k) /\ k # None
    BY ReferencedFacts, KeysNotNone
  <2>2. k \in Sure
    BY <2>1, ReferencedPicked DEF Sure
  <2>3. Present(k)
    BY <2>1, <2>2 DEF Owned, Stored
  <2> QED
    BY <2>3 DEF Present, Promised
<1>2. Spec => [](TypeInv /\ Owned)
  <2>1. Init => TypeInv /\ Owned
    BY InitTypeInv, InitOwned
  <2>2. (TypeInv /\ Owned) /\ [Next]_vars => (TypeInv /\ Owned)'
    BY TypeStep, OwnedStep
  <2> QED
    BY <2>1, <2>2, PTL DEF Spec
<1> QED
  BY <1>1, <1>2, PTL

-----------------------------------------------------------------------------
(* Why nothing is left behind.  Each file in the bucket that nobody has     *)
(* abandoned is named by a row or in the hands of a request that will       *)
(* attach it or remove it.                                                  *)

NamedNow(k) == \E i \in Ids, s \in Slots : At(i, s, k)
Kept == objects \ abandoned

Tidy == \A k \in Kept : NamedNow(k) \/ \E r \in Requests : k \in InHand(req[r])

LEMMA InHandFacts ==
  \A q, k : k \in InHand(q) <=>
    /\ k # None
    /\ IF q.pc = "dropOld" THEN \E s \in Slots : q.old[s] = k
       ELSE \E s \in Slots : q.op # "presign" /\ (q.pc = "put" => s \notin q.left) /\ q.key[s] = k
BY DEF InHand, KeysIn

LEMMA NothingInHand ==
  /\ InHand(Idle) = {}
  /\ \A q : q.pc = "idle" /\ q.key = NoKeys => InHand(q) = {}
BY IdleFacts, NoKeysFacts, InHandFacts

(* What a step of one request has to show. *)
LEMMA TidyThen ==
  ASSUME TypeInv, Tidy, NEW r \in Requests, NEW p, Become(r, p),
         \A k \in Kept' :
           /\ k \in Kept \/ NamedNow(k)' \/ k \in InHand(p)
           /\ NamedNow(k) => NamedNow(k)' \/ k \in InHand(p)
           /\ k \in InHand(req[r]) => NamedNow(k)' \/ k \in InHand(p)
  PROVE  Tidy'
<1>1. \A u \in Requests : req'[u] = IF u = r THEN p ELSE req[u]
  BY OneMoves DEF TypeInv
<1>2. ASSUME NEW k, NEW u \in Requests, k \in InHand(req'[u])
      PROVE  \E v \in Requests : k \in InHand(req[v])'
  BY <1>2 DEF InHand
<1> QED
  BY <1>1, <1>2 DEF Tidy

LEMMA TidyStart == ASSUME TypeInv, Tidy, NEW r \in Requests, Starts(r) PROVE Tidy'
<1>1. UNCHANGED <<row, objects, abandoned>>
  BY StartFacts
<1>2. PICK q \in RequestStates : Start(r, q)
  BY StartFacts
<1>3. Become(r, q) /\ InHand(req[r]) = {}
  BY <1>2, NothingInHand DEF Start, Become, TypeInv, RequestsOK, RequestOK
<1> QED
  BY <1>1, <1>3, TidyThen DEF Kept, NamedNow, At

LEMMA TidyPickKey == ASSUME TypeInv, Tidy, NEW r \in Requests, PickKey(r) PROVE Tidy'
<1> DEFINE q == req[r]
           s == Current(q)
<1>1. /\ q.pc = "pick" /\ s \in Slots /\ s \in q.left /\ RequestOK(q)
      /\ UNCHANGED <<row, objects, abandoned>>
  BY PickKeyFacts
<1>2. PICK p \in RequestStates :
        /\ Become(r, p)
        /\ \A t \in Slots : t # s => p.key[t] = q.key[t]
        /\ p.pc = IF q.op = "presign" THEN "write" ELSE "put"
        /\ p.op = q.op /\ p.left = q.left
  BY PickKeyFacts
<1>3. \A t \in q.left : q.key[t] = None
  BY <1>1 DEF RequestOK, LeftOK
<1>4. InHand(q) \subseteq InHand(p)
  BY <1>1, <1>2, <1>3, InHandFacts
<1> QED
  BY <1>1, <1>2, <1>4, TidyThen DEF Kept, NamedNow, At

LEMMA TidyPut == ASSUME TypeInv, Tidy, NEW r \in Requests, Put(r) PROVE Tidy'
<1> DEFINE q == req[r]
           s == Current(q)
<1>1. /\ q.pc = "put" /\ s \in Slots /\ RequestOK(q)
      /\ objects' = objects \cup {q.key[s]}
      /\ UNCHANGED <<row, abandoned>>
  BY PutFacts
<1>2. PICK p \in RequestStates :
        /\ Become(r, p) /\ p.key = q.key /\ p.op = q.op
        /\ p.pc \in {"write", "insert", "pick"} /\ p.op \in {"upload", "create"}
  BY PutFacts
<1>3. q.key[s] # None
  BY <1>1 DEF RequestOK, LeftOK
<1>4. InHand(q) \subseteq InHand(p) /\ q.key[s] \in InHand(p)
  BY <1>1, <1>2, <1>3, InHandFacts
<1> QED
  BY <1>1, <1>2, <1>4, TidyThen DEF Kept, NamedNow, At

LEMMA TidyPutFails == ASSUME TypeInv, Tidy, NEW r \in Requests, PutFails(r) PROVE Tidy'
<1> DEFINE q == req[r]
           s == Current(q)
<1>1. /\ q.pc = "put" /\ s \in Slots /\ s \in q.left
      /\ \/ UNCHANGED <<objects, abandoned>>
         \/ /\ objects' = objects \cup {q.key[s]}
            /\ abandoned' = (abandoned \cup {q.key[s]}) \cap objects'
      /\ UNCHANGED row
  BY PutFailsFacts
<1>2. PICK p \in RequestStates :
        /\ Become(r, p) /\ p.pc = "cleanup" /\ p.op = q.op
        /\ \A t \in Slots : t # s => p.key[t] = q.key[t]
  BY PutFailsFacts
<1>3. InHand(q) \subseteq InHand(p)
  BY <1>1, <1>2, InHandFacts
<1>4. Kept' \subseteq Kept
  BY <1>1 DEF Kept
<1> QED
  BY <1>1, <1>2, <1>3, <1>4, TidyThen DEF NamedNow, At

(* Files a row no longer names are kept in mind by the request, or          *)
(* abandoned.                                                               *)
LEMMA StillNamed ==
  ASSUME TypeInv, NEW i \in Ids, NEW files, Rewrote(i, files), NEW inMind,
         objects' = objects,
         abandoned' = (abandoned \cup (KeysIn(row[i].files) \ (KeysIn(files) \cup inMind)))
                         \cap objects
  PROVE  /\ Kept' \subseteq Kept
         /\ \A k \in Kept' : NamedNow(k) => NamedNow(k)' \/ k \in inMind
         /\ \A k \in KeysIn(files) : NamedNow(k)'
<1>1. \A k \in KeysIn(files) : NamedNow(k)'
  BY KeysInFacts DEF NamedNow, At, Rewrote
<1>2. Kept' \subseteq Kept
  BY DEF Kept
<1>3. ASSUME NEW k \in Kept', NEW j \in Ids, NEW s \in Slots, At(j, s, k)
      PROVE  NamedNow(k)' \/ k \in inMind
  <2>1. CASE j # i
    BY <1>3, <2>1 DEF NamedNow, At, Rewrote
  <2>2. CASE j = i
    <3>1. k # None /\ k \notin abandoned' /\ k \in objects
      BY KeysNotNone DEF Kept, TypeInv, StoresOK
    <3>2. k \in KeysIn(row[i].files)
      BY <1>3, <2>2, <3>1, KeysInFacts DEF At
    <3> QED
      BY <1>1, <3>1, <3>2
  <2> QED
    BY <2>1, <2>2
<1> QED
  BY <1>1, <1>2, <1>3 DEF NamedNow

LEMMA StillNamedRemoved ==
  ASSUME TypeInv, NEW i \in Ids, Removed(i), NEW inMind, objects' = objects,
         abandoned' = (abandoned \cup (KeysIn(row[i].files) \ inMind)) \cap objects
  PROVE  /\ Kept' \subseteq Kept
         /\ \A k \in Kept' : NamedNow(k) => NamedNow(k)' \/ k \in inMind
<1>1. Kept' \subseteq Kept
  BY DEF Kept
<1>2. ASSUME NEW k \in Kept', NEW j \in Ids, NEW s \in Slots, At(j, s, k)
      PROVE  NamedNow(k)' \/ k \in inMind
  <2>1. CASE j # i
    BY <1>2, <2>1 DEF NamedNow, At, Removed
  <2>2. CASE j = i
    <3>1. k # None /\ k \notin abandoned' /\ k \in objects
      BY KeysNotNone DEF Kept, TypeInv, StoresOK
    <3>2. k \in KeysIn(row[i].files)
      BY <1>2, <2>2, <3>1, KeysInFacts DEF At
    <3> QED
      BY <3>1, <3>2
  <2> QED
    BY <2>1, <2>2
<1> QED
  BY <1>1, <1>2 DEF NamedNow

LEMMA StillNamedInserted ==
  ASSUME NEW i \in Ids, NEW slug, Inserted(i, slug)
  PROVE  \A k : NamedNow(k) => NamedNow(k)'
BY DEF NamedNow, At, Inserted

LEMMA TidyWrite == ASSUME TypeInv, Tidy, NEW r \in Requests, Write(r) PROVE Tidy'
<1> DEFINE q == req[r]
           s == Current(q)
<1>1. /\ RequestOK(q) /\ q.pc = "write" /\ s \in q.left /\ s \in Slots
      /\ objects' = objects
  BY WriteFacts
<1>2. PICK i \in Ids, files \in Files :
        /\ Rewrote(i, files)
        /\ files[s] = q.key[s]
        /\ abandoned' = (abandoned \cup (KeysIn(row[i].files) \
                           (KeysIn(files) \cup KeysIn(q.old)))) \cap objects
  BY WriteFacts
<1>3. PICK p \in RequestStates : Become(r, p) /\ p.pc = "dropOld" /\ Alike(p, q)
  BY WriteFacts
<1>4. \A t \in Slots : t # s => q.key[t] = None
  BY <1>1 DEF RequestOK, PointOK, OneSlot
<1>5. /\ Kept' \subseteq Kept
      /\ \A k \in Kept' : NamedNow(k) => NamedNow(k)' \/ k \in KeysIn(q.old)
      /\ \A k \in KeysIn(files) : NamedNow(k)'
  BY <1>1, <1>2, StillNamed
<1>6. KeysIn(q.old) \subseteq InHand(p)
  BY <1>3, InHandFacts, KeysInFacts DEF Alike
<1>7. InHand(q) \subseteq KeysIn(files)
  BY <1>1, <1>2, <1>4, InHandFacts, KeysInFacts
<1> HIDE DEF s
<1> QED
  BY <1>3, <1>5, <1>6, <1>7, TidyThen

LEMMA TidyInsert == ASSUME TypeInv, Tidy, NEW r \in Requests, Insert(r) PROVE Tidy'
<1> DEFINE q == req[r]
           i == created + 1
<1>1. /\ q.pc = "insert" /\ i \in Ids /\ Inserted(i, q.slug)
      /\ UNCHANGED <<objects, abandoned>>
  BY InsertFacts
<1>2. PICK p : /\ Become(r, p)
               /\ \/ p = Idle /\ q.key = NoKeys
                  \/ p.pc = "attach" /\ p.key = q.key /\ p.op = q.op
  <2>1. \E p : /\ Become(r, p)
               /\ \/ p = Idle /\ q.key = NoKeys
                  \/ p.pc = "attach" /\ p.key = q.key /\ p.op = q.op
    BY InsertFacts
  <2> QED
    BY <2>1
<1>3. InHand(q) \subseteq InHand(p)
  BY <1>1, <1>2, InHandFacts, NoKeysFacts
<1>4. Kept' = Kept /\ \A k : NamedNow(k) => NamedNow(k)'
  BY <1>1, StillNamedInserted DEF Kept
<1> QED
  BY <1>2, <1>3, <1>4, TidyThen

LEMMA TidyAttach == ASSUME TypeInv, Tidy, NEW r \in Requests, Attach(r) PROVE Tidy'
<1> DEFINE q == req[r]
<1>1. q.pc = "attach" /\ q.id \in Ids /\ Become(r, Idle) /\ objects' = objects
  BY AttachFacts
<1>2. InHand(q) \subseteq KeysIn(q.key)
  BY <1>1, InHandFacts, KeysInFacts
<1>3. CASE UNCHANGED row /\ abandoned' = (abandoned \cup KeysIn(q.key)) \cap objects
  <2>1. Kept' \subseteq Kept /\ \A k \in Kept' : k \notin InHand(q)
    BY <1>1, <1>2, <1>3 DEF Kept
  <2> QED
    BY <1>1, <1>3, <2>1, TidyThen DEF NamedNow, At
<1>4. ASSUME NEW files \in Files, Rewrote(q.id, files),
             \A s \in Slots : files[s] =
               IF q.key[s] = None THEN row[q.id].files[s] ELSE q.key[s],
             abandoned' = (abandoned \cup (KeysIn(row[q.id].files) \ KeysIn(files))) \cap objects
      PROVE  Tidy'
  <2>1. /\ Kept' \subseteq Kept
        /\ \A k \in Kept' : NamedNow(k) => NamedNow(k)' \/ k \in {}
        /\ \A k \in KeysIn(files) : NamedNow(k)'
    BY <1>1, <1>4, StillNamed
  <2>2. KeysIn(q.key) \subseteq KeysIn(files)
    BY <1>4, KeysInFacts
  <2> QED
    BY <1>1, <1>2, <2>1, <2>2, TidyThen
<1> QED
  BY <1>3, <1>4, AttachFacts

LEMMA TidyDeleteRow == ASSUME TypeInv, Tidy, NEW r \in Requests, DeleteRow(r) PROVE Tidy'
<1> DEFINE q == req[r]
<1>1. /\ q.pc = "delete" /\ q.id \in Ids /\ Removed(q.id) /\ RequestOK(q)
      /\ objects' = objects
      /\ abandoned' = (abandoned \cup (KeysIn(row[q.id].files) \ KeysIn(q.old))) \cap objects
  BY DeleteRowFacts
<1>2. PICK p \in RequestStates : Become(r, p) /\ p.pc = "dropOld" /\ Alike(p, q)
  BY DeleteRowFacts
<1>3. InHand(q) = {}
  <2>1. q.key = NoKeys
    BY <1>1 DEF RequestOK, PointOK, KeysOK
  <2> QED
    BY <1>1, <2>1, InHandFacts, NoKeysFacts
<1>4. KeysIn(q.old) \subseteq InHand(p)
  BY <1>2, InHandFacts, KeysInFacts DEF Alike
<1>5. /\ Kept' \subseteq Kept
      /\ \A k \in Kept' : NamedNow(k) => NamedNow(k)' \/ k \in KeysIn(q.old)
  BY <1>1, StillNamedRemoved
<1> QED
  BY <1>2, <1>3, <1>4, <1>5, TidyThen

LEMMA TidyFails == ASSUME TypeInv, Tidy, NEW r \in Requests, Fails(r) PROVE Tidy'
<1> DEFINE q == req[r]
<1>1. /\ RequestOK(q) /\ objects' = objects /\ FailsTo(r) /\ FailsWith(r)
  BY FailsFacts
<1>2. PICK p : /\ Become(r, p)
               /\ \/ /\ p = Idle
                     /\ (q.pc = "write" /\ q.op = "presign") \/ q.pc = "delete"
                  \/ /\ p.pc = "cleanup" /\ p.key = q.key /\ p.op = q.op
                     /\ q.pc \in {"write", "insert", "attach"}
  <2>1. \E p : /\ Become(r, p)
               /\ \/ /\ p = Idle
                     /\ (q.pc = "write" /\ q.op = "presign") \/ q.pc = "delete"
                  \/ /\ p.pc = "cleanup" /\ p.key = q.key /\ p.op = q.op
                     /\ q.pc \in {"write", "insert", "attach"}
    BY <1>1 DEF FailsTo, Alike
  <2> QED
    BY <2>1
<1>3. InHand(q) \subseteq InHand(p)
  <2>1. q.pc = "delete" => q.key = NoKeys
    BY <1>1 DEF RequestOK, PointOK, KeysOK
  <2> QED
    BY <1>2, <2>1, InHandFacts, NoKeysFacts
<1>4. Kept' \subseteq Kept /\ \A k \in Kept' : NamedNow(k) => NamedNow(k)'
  <2>1. CASE UNCHANGED <<row, abandoned>>
    BY <1>1, <2>1 DEF Kept, NamedNow, At
  <2>2. ASSUME NEW i \in Ids, NEW files, Rewrote(i, files),
               abandoned' = (abandoned \cup (KeysIn(row[i].files) \ KeysIn(files))) \cap objects
        PROVE  Kept' \subseteq Kept /\ \A k \in Kept' : NamedNow(k) => NamedNow(k)'
    <3>1. Kept' \subseteq Kept /\ \A k \in Kept' : NamedNow(k) => NamedNow(k)' \/ k \in {}
      BY <1>1, <2>2, StillNamed
    <3> QED
      BY <3>1
  <2>3. ASSUME NEW i \in Ids, Inserted(i, q.slug), UNCHANGED abandoned
        PROVE  Kept' \subseteq Kept /\ \A k \in Kept' : NamedNow(k) => NamedNow(k)'
    BY <1>1, <2>3, StillNamedInserted DEF Kept
  <2>4. ASSUME NEW i \in Ids, Removed(i),
               abandoned' = (abandoned \cup KeysIn(row[i].files)) \cap objects
        PROVE  Kept' \subseteq Kept /\ \A k \in Kept' : NamedNow(k) => NamedNow(k)'
    <3> PICK none : none = {}
      OBVIOUS
    <3>1. abandoned' = (abandoned \cup (KeysIn(row[i].files) \ none)) \cap objects
      BY <2>4
    <3>2. Kept' \subseteq Kept /\ \A k \in Kept' : NamedNow(k) => NamedNow(k)' \/ k \in none
      BY <1>1, <2>4, <3>1, StillNamedRemoved
    <3> QED
      BY <3>2
  <2> QED
    BY <1>1, <2>1, <2>2, <2>3, <2>4 DEF FailsWith
<1> QED
  BY <1>2, <1>3, <1>4, TidyThen

(* A request ends with all it answers for removed, or left to nobody. *)
LEMMA TidyEnds == ASSUME TypeInv, Tidy, NEW r \in Requests, Ends(r) PROVE Tidy'
<1> DEFINE q == req[r]
<1>1. /\ Become(r, Idle) /\ UNCHANGED row
      /\ \E keys : RemovedObjects(keys) /\ InHand(q) \subseteq keys
  <2>1. q.pc = "dropOld" => InHand(q) \subseteq KeysIn(q.old)
    BY InHandFacts, KeysInFacts
  <2>2. q.pc = "cleanup" => InHand(q) \subseteq KeysIn(q.key)
    BY InHandFacts, KeysInFacts
  <2> QED
    BY <2>1, <2>2, EndsFacts
<1>2. Kept' \subseteq Kept /\ \A k \in Kept' : k \notin InHand(q)
  BY <1>1 DEF Kept, RemovedObjects
<1> QED
  BY <1>1, <1>2, TidyThen DEF NamedNow, At

LEMMA TidyOther ==
  ASSUME TypeInv, Tidy,
         \/ \E i \in Ids, s \in Slugs : Rename(i, s)
         \/ (\E k \in handed : ClientPut(k)) \/ Tick \/ UNCHANGED vars
  PROVE  Tidy'
<1>1. /\ UNCHANGED req /\ \A k : NamedNow(k) => NamedNow(k)'
      /\ \A k \in Kept' : k \in Kept \/ k \in Referenced
  <2>1. CASE \E i \in Ids, s \in Slugs : Rename(i, s)
    BY <2>1, RenameFacts DEF Kept, NamedNow, At
  <2>2. CASE \E k \in handed : ClientPut(k)
    BY <2>2 DEF ClientPut, Abandon, Kept, NamedNow, At
  <2>3. CASE Tick \/ UNCHANGED vars
    BY <2>3 DEF Tick, vars, histories, Kept, NamedNow, At
  <2> QED
    BY <2>1, <2>2, <2>3
<1>2. \A k \in Referenced : NamedNow(k)
  BY ReferencedFacts DEF NamedNow
<1> QED
  BY <1>1, <1>2 DEF Tidy, InHand

LEMMA TidyStep == TypeInv /\ Tidy /\ [Next]_vars => Tidy'
BY NextSteps, TidyStart, TidyPickKey, TidyPut, TidyPutFails, TidyWrite, TidyInsert,
   TidyAttach, TidyDeleteRow, TidyFails, TidyEnds, TidyOther

LEMMA InitTidy == Init => Tidy
BY DEF Init, Tidy, Kept

(* Every file in the bucket is named by a row, or some request will attach  *)
(* it or remove it, or it is among those NoOrphans says nobody minds: so    *)
(* requests that overlap leave nothing behind but what they took from one   *)
(* another, and failures nothing but what they were failures of.            *)
THEOREM NoneIsLost == Spec => []NoOrphans
<1>1. TypeInv /\ Tidy => NoOrphans
  <2> SUFFICES ASSUME TypeInv, Tidy, \A r \in Requests : req[r].pc = "idle",
                      NEW k \in objects, k \notin abandoned
               PROVE  k \in Referenced
    BY DEF NoOrphans
  <2>1. \A r \in Requests : InHand(req[r]) = {}
    BY NothingInHand DEF TypeInv, RequestsOK, RequestOK
  <2>2. NamedNow(k)
    BY <2>1 DEF Tidy, Kept
  <2>3. k \in Keys
    BY DEF TypeInv, StoresOK
  <2> QED
    BY <2>2, <2>3, ReferencedFacts DEF NamedNow
<1>2. Spec => [](TypeInv /\ Tidy)
  <2>1. Init => TypeInv /\ Tidy
    BY InitTypeInv, InitTidy
  <2>2. (TypeInv /\ Tidy) /\ [Next]_vars => (TypeInv /\ Tidy)'
    BY TypeStep, TidyStep
  <2> QED
    BY <2>1, <2>2, PTL DEF Spec
<1> QED
  BY <1>1, <1>2, PTL
=============================================================================
