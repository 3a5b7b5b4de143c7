----------------------------- MODULE BookFiles -----------------------------
(***************************************************************************)
(* The audio and the cover of a book: objects in the R2 bucket, named by   *)
(* books.audio_key and books.cover_url.  The handlers that upload, replace *)
(* and delete them write to two stores that know nothing of each other, in *)
(* calls that may fail one by one (internal/api/handlers/books, over       *)
(* internal/store/books and internal/storage/s3).                          *)
(*                                                                         *)
(* Rows are known by their ids, never used twice; slugs are unique, follow *)
(* the title and are what clients address books by.  (Addressing them by   *)
(* id, which the handlers allow too, pins the row.)  An object key is made *)
(* of the handler's prefix, the slug and the time in whole seconds;        *)
(* extensions other than those of the upload handlers only set keys        *)
(* further apart and are left out.                                         *)
(***************************************************************************)
EXTENDS Naturals, FiniteSets

CONSTANTS
  Slugs,            \* of books
  FirstSlugs,       \* bound of the model: those of them books are created with
  Requests,         \* places for requests in progress
  MaxClock,         \* bound of the model: seconds
  MaxRows,          \* bound of the model: rows of books inserted
  MaxRequests,      \* bound of the model: requests begun
  Faults,           \* what goes wrong, a subset of FaultKinds
  None

VARIABLES
  row,       \* the row of each id, or None
  objects,   \* keys of the objects in the bucket
  handed,    \* keys of the presigned upload URLs clients were given
  req,       \* requests in progress
  clock,     \* time.Now().Unix()
  created,   \* rows inserted so far, which also numbers them
  begun,     \* requests begun so far
  picked,    \* history: keys generated
  awaited,   \* history: those handed out that no client has uploaded to yet
  doubtful,  \* history: keys a row may name although there is nothing there
  abandoned  \* history: objects nobody will delete though no row names them

vars == <<row, objects, handed, req, clock, created, begun, picked, awaited,
          doubtful, abandoned>>

histories == <<awaited, doubtful, abandoned>>

(* The process dies; an upload fails that stored the object; a deletion     *)
(* fails; a statement or a COMMIT took effect, and its answer is lost.      *)
FaultKinds == {"crash", "put", "delete", "lost"}

(* The kinds of file a book has. *)
Slots == {"audio", "cover"}
Ids == 1 .. MaxRows
Keys == [prefix : {"summary", "audio", "cover"}, slug : Slugs, at : 0 .. MaxClock]
NoKeys == [s \in Slots |-> None]
Files == [Slots -> Keys \cup {None}]
Rows == [slug : Slugs, files : Files]

ASSUME BookFilesAssumption ==
  /\ MaxClock \in Nat /\ MaxRows \in Nat /\ MaxRequests \in Nat
  /\ Faults \subseteq FaultKinds
  /\ FirstSlugs \subseteq Slugs
  /\ None \notin Slugs \cup Keys \cup Rows

(* The prefix: AdminCreate names audio in a way of its own, and covers like *)
(* the upload handler.                                                      *)
Prefix(op, slot) ==
  IF slot = "cover" THEN "cover" ELSE IF op = "create" THEN "audio" ELSE "summary"

Idle == [pc |-> "idle", op |-> None, slug |-> None, id |-> 0,
         left |-> {}, key |-> NoKeys, old |-> NoKeys]

Start(r, q) ==
  /\ req[r].pc = "idle"
  /\ begun < MaxRequests /\ begun' = begun + 1
  /\ req' = [req EXCEPT ![r] = q]
Become(r, q) == req' = [req EXCEPT ![r] = q]
Goto(r, pc) == req' = [req EXCEPT ![r].pc = pc]

KeysIn(files) == {files[s] : s \in Slots} \ {None}

(* WHERE slug = s *)
Named(i, s) == row[i] # None /\ row[i].slug = s
Free(s) == \A i \in Ids : ~Named(i, s)

Referenced == UNION {KeysIn(row[i].files) : i \in {j \in Ids : row[j] # None}}

(* Nobody will delete the objects under these keys any more.                *)
Abandon(keys) == abandoned' = (abandoned \cup keys) \cap objects'

(* Files of a row are overwritten.  Those not kept in mind are abandoned:   *)
(* another request put them there since this one looked.                    *)
Overwrite(i, files, inMind) ==
  /\ row' = [row EXCEPT ![i].files = files]
  /\ objects' = objects
  /\ Abandon(KeysIn(row[i].files) \ (KeysIn(files) \cup inMind))

Init ==
  /\ row = [i \in Ids |-> None]
  /\ objects = {} /\ handed = {} /\ picked = {}
  /\ awaited = {} /\ doubtful = {} /\ abandoned = {}
  /\ req = [r \in Requests |-> Idle]
  /\ clock = 0 /\ created = 0 /\ begun = 0

-----------------------------------------------------------------------------
(* Mutant: the slot to replace is forgotten. *)
Replacing_NoSlot(i, op, slot) ==
  [Idle EXCEPT !.pc = "pick", !.op = op, !.slug = row[i].slug, !.id = i,
               !.old = [NoKeys EXCEPT ![slot] = row[i].files[slot]]]

(* An upload for a book that exists: the key there is noted, to delete it   *)
(* later.                                                                   *)
Replacing(i, op, slot) ==
  [Idle EXCEPT !.pc = "pick", !.op = op, !.slug = row[i].slug, !.id = i,
               !.left = {slot}, !.old = [NoKeys EXCEPT ![slot] = row[i].files[slot]]]

(* UploadBookCoverHandler, DirectAudioUploadHandler and                     *)
(* GenerateBookAudioURLHandler, which hands out a URL and leaves the upload *)
(* to the client: each up to the object key.                                *)
StartCover(r, i) ==
  /\ row[i] # None
  /\ Start(r, Replacing(i, "upload", "cover"))
  /\ UNCHANGED <<row, objects, handed, clock, created, picked, histories>>

StartAudio(r, i) ==
  /\ row[i] # None
  /\ Start(r, Replacing(i, "upload", "audio"))
  /\ UNCHANGED <<row, objects, handed, clock, created, picked, histories>>

StartPresign(r, i) ==
  /\ row[i] # None
  /\ Start(r, Replacing(i, "presign", "audio"))
  /\ UNCHANGED <<row, objects, handed, clock, created, picked, histories>>

(* AdminCreate, its input accepted, with any of the two files. *)
StartCreate(r, s, files) ==
  /\ Start(r, [Idle EXCEPT !.pc = IF files = {} THEN "insert" ELSE "pick",
                           !.op = "create", !.slug = s, !.left = files])
  /\ UNCHANGED <<row, objects, handed, clock, created, picked, histories>>

(* DeleteV2 reads the id and both keys. *)
StartDelete(r, i) ==
  /\ row[i] # None
  /\ Start(r, [Idle EXCEPT !.pc = "delete", !.op = "delete", !.slug = row[i].slug,
                           !.id = i, !.old = row[i].files])
  /\ UNCHANGED <<row, objects, handed, clock, created, picked, histories>>

(* The file being dealt with: the audio comes first. *)
Current(q) == IF "audio" \in q.left THEN "audio" ELSE "cover"

(* Mutant: the row is written before the upload. *)
PickKey_WriteFirst(r) ==
  LET q == req[r]
      s == Current(q)
      k == [prefix |-> Prefix(q.op, s), slug |-> q.slug, at |-> clock]
  IN  /\ q.pc = "pick"
      /\ Become(r, [q EXCEPT !.key[s] = k,
                             !.pc = IF q.op = "create" THEN "put" ELSE "write"])
      /\ picked' = picked \cup {k}
      /\ doubtful' = IF k \in picked THEN doubtful \cup {k} ELSE doubtful
      /\ UNCHANGED <<row, objects, handed, clock, created, begun, awaited, abandoned>>

(* The object key, from the clock: for want of a second between them two    *)
(* uploads may pick the same, and one clean up after the other.             *)
PickKey(r) ==
  LET q == req[r]
      s == Current(q)
      k == [prefix |-> Prefix(q.op, s), slug |-> q.slug, at |-> clock]
  IN  /\ q.pc = "pick"
      /\ Become(r, [q EXCEPT !.key[s] = k,
                             !.pc = IF q.op = "presign" THEN "write" ELSE "put"])
      /\ picked' = picked \cup {k}
      /\ doubtful' = IF k \in picked THEN doubtful \cup {k} ELSE doubtful
      /\ UNCHANGED <<row, objects, handed, clock, created, begun, awaited, abandoned>>

(* uploadFileToR2 succeeds; the next file, or on to the database. *)
Put(r) ==
  LET q == req[r]
      s == Current(q)
      left == q.left \ {s}
  IN  /\ q.pc = "put"
      /\ objects' = objects \cup {q.key[s]}
      /\ Become(r, [q EXCEPT !.left = IF q.op = "create" THEN left ELSE @,
                             !.pc = IF q.op = "upload" THEN "write"
                                    ELSE IF left = {} THEN "insert" ELSE "pick"])
      /\ UNCHANGED <<row, handed, clock, created, begun, picked, histories>>

(* Mutant: a file already uploaded is not cleaned up after. *)
PutFails_NoCleanup(r) ==
  /\ req[r].pc = "put"
  /\ Become(r, Idle)
  /\ UNCHANGED <<row, objects, handed, clock, created, begun, picked, histories>>

(* ... or fails, on a size or type refused or an error; the object may be   *)
(* there all the same.  The file uploaded before it is cleaned up.          *)
PutFails(r) ==
  LET q == req[r]
      s == Current(q)
  IN  /\ q.pc = "put"
      /\ \/ UNCHANGED <<objects, abandoned>>
         \/ /\ "put" \in Faults
            /\ objects' = objects \cup {q.key[s]}
            /\ Abandon({q.key[s]})
      /\ Become(r, [q EXCEPT !.key[s] = None, !.pc = "cleanup"])
      /\ UNCHANGED <<row, handed, clock, created, begun, picked, awaited, doubtful>>

(* UPDATE books SET audio_key (cover_url), by slug: whatever book that is   *)
(* by now.  If it is another than the upload began with, the file deleted   *)
(* next is still that one's.                                                *)
Written(i, q) == [row[i].files EXCEPT ![Current(q)] = q.key[Current(q)]]

Write(r) ==
  LET q == req[r]
  IN  /\ q.pc = "write"
      /\ \E i \in Ids :
           /\ Named(i, q.slug)
           /\ Overwrite(i, Written(i, q), KeysIn(q.old))
           /\ doubtful' = IF i = q.id THEN doubtful ELSE doubtful \cup KeysIn(q.old)
      /\ Goto(r, "dropOld")
      /\ UNCHANGED <<handed, clock, created, begun, picked, awaited>>

(* An error, or the book is gone: an uploaded file is cleaned up.  The      *)
(* UPDATE may have taken effect, and the row names the file.                *)
WriteFails(r) ==
  LET q == req[r]
  IN  /\ q.pc = "write"
      /\ \/ UNCHANGED <<row, objects, doubtful, abandoned>>
         \/ /\ "lost" \in Faults
            /\ \E i \in Ids : Named(i, q.slug) /\ Overwrite(i, Written(i, q), {})
            /\ doubtful' = doubtful \cup KeysIn(q.key)
      /\ IF q.op = "presign" THEN Become(r, Idle) ELSE Goto(r, "cleanup")
      /\ UNCHANGED <<handed, clock, created, begun, picked, awaited>>

(* CreateV2 commits. *)
InsertRow(slug) ==
  /\ Free(slug)
  /\ created < MaxRows
  /\ created' = created + 1
  /\ row' = [row EXCEPT ![created + 1] = [slug |-> slug, files |-> NoKeys]]

Insert(r) ==
  LET q == req[r]
  IN  /\ q.pc = "insert"
      /\ InsertRow(q.slug)
      /\ Become(r, IF q.key = NoKeys THEN Idle
                   ELSE [q EXCEPT !.id = created + 1, !.pc = "attach"])
      /\ UNCHANGED <<objects, handed, clock, begun, picked, histories>>

(* ... or fails, on a coda or slug already there or an error, that of a     *)
(* COMMIT that was done included.                                           *)
InsertFails(r) ==
  /\ req[r].pc = "insert"
  /\ UNCHANGED <<row, created>> \/ ("lost" \in Faults /\ InsertRow(req[r].slug))
  /\ Goto(r, "cleanup")
  /\ UNCHANGED <<objects, handed, clock, begun, picked, histories>>

(* AdminCreate's UPDATE by id; that it may match no row is not looked at.   *)
Attached(q) ==
  [s \in Slots |-> IF q.key[s] = None THEN row[q.id].files[s] ELSE q.key[s]]

Attach(r) ==
  LET q == req[r]
  IN  /\ q.pc = "attach"
      /\ IF row[q.id] = None
         THEN UNCHANGED <<row, objects>> /\ Abandon(KeysIn(q.key))
         ELSE Overwrite(q.id, Attached(q), {})
      /\ Become(r, Idle)
      /\ UNCHANGED <<handed, clock, created, begun, picked, awaited, doubtful>>

(* ... which may have taken effect when it fails.                           *)
AttachFails(r) ==
  LET q == req[r]
  IN  /\ q.pc = "attach"
      /\ \/ UNCHANGED <<row, objects, doubtful, abandoned>>
         \/ /\ "lost" \in Faults
            /\ row[q.id] # None
            /\ Overwrite(q.id, Attached(q), {})
            /\ doubtful' = doubtful \cup KeysIn(q.key)
      /\ Goto(r, "cleanup")
      /\ UNCHANGED <<handed, clock, created, begun, picked, awaited>>

(* DeleteV2's transaction.  Files the book got since its keys were read     *)
(* stay behind.                                                             *)
RemoveRow(i, inMind) ==
  /\ row[i] # None
  /\ row' = [row EXCEPT ![i] = None]
  /\ objects' = objects
  /\ Abandon(KeysIn(row[i].files) \ inMind)

DeleteRow(r) ==
  LET q == req[r]
  IN  /\ q.pc = "delete"
      /\ RemoveRow(q.id, KeysIn(q.old))
      /\ Goto(r, "dropOld")
      /\ UNCHANGED <<handed, clock, created, begun, picked, awaited, doubtful>>

(* ... or an error, or somebody else's DELETE came first.  With an error of *)
(* a COMMIT that was done, the files stay.                                  *)
DeleteRowFails(r) ==
  /\ req[r].pc = "delete"
  /\ \/ UNCHANGED <<row, objects, abandoned>>
     \/ "lost" \in Faults /\ RemoveRow(req[r].id, {})
  /\ Become(r, Idle)
  /\ UNCHANGED <<handed, clock, created, begun, picked, awaited, doubtful>>

(* DeleteObject for each key, errors ignored or logged. *)
Remove(keys) ==
  \E gone \in SUBSET keys :
    /\ "delete" \notin Faults => gone = keys
    /\ objects' = objects \ gone
    /\ Abandon(keys)

(* The files replaced, or of the deleted book; then the answer, with the    *)
(* upload URL of a presign.                                                 *)
DropOld(r) ==
  LET q == req[r]
      urls == IF q.op = "presign" THEN KeysIn(q.key) ELSE {}
  IN  /\ q.pc = "dropOld"
      /\ Remove(KeysIn(q.old))
      /\ handed' = handed \cup urls /\ awaited' = awaited \cup urls
      /\ Become(r, Idle)
      /\ UNCHANGED <<row, clock, created, begun, picked, doubtful>>

(* The files this request uploaded, for nothing. *)
Cleanup(r) ==
  /\ req[r].pc = "cleanup"
  /\ Remove(KeysIn(req[r].key))
  /\ Become(r, Idle)
  /\ UNCHANGED <<row, handed, clock, created, begun, picked, awaited, doubtful>>

(* Keys a request has still to see to: the files it replaced, or those it   *)
(* has uploaded.                                                            *)
InHand(q) ==
  IF q.pc = "dropOld" THEN KeysIn(q.old)
  ELSE {q.key[s] : s \in {t \in Slots : q.op # "presign" /\ (q.pc = "put" => t \notin q.left)}}
         \ {None}

(* The URL of a presign that has written its row and not answered. *)
Unanswered(q) == IF q.pc = "dropOld" /\ q.op = "presign" THEN KeysIn(q.key) ELSE {}

(* The process dies: what the request held is left to nobody, and the URL   *)
(* its row waits for is never handed out.                                   *)
Crash(r) ==
  /\ "crash" \in Faults
  /\ req[r].pc # "idle"
  /\ objects' = objects /\ Abandon(InHand(req[r]))
  /\ doubtful' = doubtful \cup Unanswered(req[r])
  /\ Become(r, Idle)
  /\ UNCHANGED <<row, handed, clock, created, begun, picked, awaited>>

(* A client uploads to the URL it was given, whatever has become of the     *)
(* book: when that has another file or none by now, for nothing.            *)
ClientPut(k) ==
  /\ k \in handed
  /\ objects' = objects \cup {k}
  /\ awaited' = awaited \ {k}
  /\ Abandon({k} \ Referenced)
  /\ UNCHANGED <<row, handed, req, clock, created, begun, picked, doubtful>>

(* ReplaceV2 and PatchV2 with a new title: one transaction, by id. *)
Rename(i, s) ==
  /\ row[i] # None
  /\ Free(s)
  /\ row' = [row EXCEPT ![i].slug = s]
  /\ UNCHANGED <<objects, handed, req, clock, created, begun, picked, histories>>

Tick ==
  /\ clock < MaxClock
  /\ clock' = clock + 1
  /\ UNCHANGED <<row, objects, handed, req, created, begun, picked, histories>>

Upload(r) == PickKey(r) \/ Put(r) \/ PutFails(r) \/ Write(r) \/ WriteFails(r)
Create(r) == Insert(r) \/ InsertFails(r) \/ Attach(r) \/ AttachFails(r)
Delete(r) == DeleteRow(r) \/ DeleteRowFails(r)

Next ==
  \/ \E r \in Requests :
       \/ \E i \in Ids : StartCover(r, i) \/ StartAudio(r, i) \/ StartPresign(r, i)
       \/ \E s \in FirstSlugs, files \in SUBSET Slots : StartCreate(r, s, files)
       \/ \E i \in Ids : StartDelete(r, i)
       \/ Upload(r) \/ Create(r) \/ Delete(r)
       \/ DropOld(r) \/ Cleanup(r) \/ Crash(r)
  \/ \E k \in handed : ClientPut(k)
  \/ \E i \in Ids, s \in Slugs : Rename(i, s)
  \/ Tick

Spec == Init /\ [][Next]_vars

-----------------------------------------------------------------------------
RequestStates ==
  [pc : {"idle", "pick", "put", "write", "insert", "attach", "delete", "dropOld", "cleanup"},
   op : {"upload", "presign", "create", "delete", None}, slug : Slugs \cup {None},
   id : 0 .. MaxRows, left : SUBSET Slots, key : Files, old : Files]

(* Types; a request knows what its next step needs, and only objects under  *)
(* keys that were generated are in the bucket.                              *)
TypeOK ==
  /\ row \in [Ids -> Rows \cup {None}]
  /\ req \in [Requests -> RequestStates]
  /\ clock \in 0 .. MaxClock /\ created \in 0 .. MaxRows /\ begun \in 0 .. MaxRequests
  /\ objects \subseteq picked /\ awaited \subseteq handed /\ handed \subseteq picked
  /\ doubtful \subseteq picked /\ abandoned \subseteq objects /\ picked \subseteq Keys
  /\ \A i \in Ids : row[i] # None => i <= created
  /\ \A i, j \in Ids : row[i] # None /\ Named(j, row[i].slug) => i = j
  /\ \A r \in Requests :
       /\ req[r].pc \in {"put", "write"} => /\ req[r].left # {}
                                            /\ req[r].key[Current(req[r])] \in picked
       /\ req[r].pc = "attach" => req[r].id # 0 /\ req[r].key # NoKeys

(* A row never names a file that is not there: whatever overlaps, is        *)
(* renamed, fails or crashes, its key is that of an object in the bucket or *)
(* of an upload some client has been asked for, or is about to be.  There   *)
(* are four ways to doubt that of a key, and none of them touches another:  *)
(* two uploads picked it in one second; it was to be replaced, and the slug *)
(* went to another book meanwhile; it was written, and an error said it was *)
(* not; or the process died before the client got its URL.                  *)
NoDanglingReference ==
  Referenced \ doubtful \subseteq
     objects \cup awaited \cup UNION {Unanswered(req[r]) : r \in Requests}

(* Nothing else is left behind: when no request is in progress every object *)
(* in the bucket is named by a row, except where a call failed or the       *)
(* process died with that key in hand, or a file took the place of one that *)
(* was not there when its request looked, or came to a book gone since, or  *)
(* a client was late.                                                       *)
NoOrphans ==
  (\A r \in Requests : req[r].pc = "idle") => objects \subseteq Referenced \cup abandoned
=============================================================================
