# books-api in TLA+

A formal model of the parts of books-api whose correctness depends on the order in
which things happen: handlers that overlap, stores that know nothing of each other,
calls that fail one by one, keys that expire, a process that ends. Each module is
translated from the Go source named in its header and, definition by definition, in
`PROJECT.json` ("map"). TLC checks small instances; the `*Proofs` modules hold theorems
checked by TLAPS for every value of the constants.

To check one run, in this directory: `tlc -config MCSessions_concurrent.cfg MCSessions`;
one proof: `tlapm SessionsProofs.tla`.

## The system

An HTTP API in Go (`cmd/api/server.go`) over Postgres, Redis and an S3 bucket (R2).
Every request is a goroutine; nothing in the process is shared between them but the
connection pools and the queue of views. So the interleavings that matter are those of
calls to the stores, and a handler is modelled as the sequence of its calls, one action
each, in a *request slot* (`req[r]`, with a program counter and what the handler has
read). Between two of its steps any other slot may move.

| Component | State | Operations | Interacts through | What is hard | What makes it correct |
|---|---|---|---|---|---|
| accounts, tokens, sessions (`internal/auth`, `middlewares/auth.go`) | `users` row (hash, token_version), `rt:<token>` in Redis, signed tokens at the clients | register, login (rehash), refresh, logout, logout-all, change of password, RequireAuth | Postgres and Redis, no transaction over both | overlapping handlers act on versions read earlier; ignored errors | revoked stays revoked; a bump ends every session; a spent token stays spent; rotation passes a session on and does not multiply it |
| view queue (`internal/metrics/viewqueue`) | channel, batches of the workers | Enqueue, worker loop, Shutdown, end of the process | channels, Postgres | drain at shutdown, full channel, `log.Fatal` | nothing lost or written twice; the end flushes |
| rate limiter (`rate_limiter.go`) | token bucket in Redis | one Lua script | Redis, its wall clock | lazy refill, expiry, clock set back, failures | burst plus refill bounds what passes |
| login limiter (`login_rate_limit.go`) | count with TTL in Redis | INCR, EXPIRE | Redis | the gap between the two | a window admits a bounded number, and ends |
| e-mail verification (`verify_handlers.go`) | quota and link in Redis, `email_verified_at` | send, verify | Redis and Postgres | link used twice, failure half-way, quota renewed | quota over any day; first verification stands |
| administration of users (`handlers/admin`, `store/admin`) | role, status, audit | ban, unban, set role, logout-all, resend | Postgres, Redis quota | check, then act; audit after the fact | an administrator remains; the audit tells the truth |
| files of books (`handlers/books`, `storage/s3`) | audio_key, cover_url; objects | upload, presign, create with files, delete | Postgres and R2 | two stores, failing halves, keys made of slug and second | no row names an object that is gone; no orphans: but for the keys a named fault has touched |
| catalogue (`store/books`) | books, book_authors, book_categories | create, replace, patch, delete | Postgres, READ COMMITTED | overlapping transactions, reads before the transaction | a stored book is one request's, whole; PATCH puts back nothing older than itself; a deletion leaves no old links |
| connection pool (`sqlconnect`, lists of books) | connections in use | every statement | `database/sql` | a handler that needs two connections | only lists can bring all to wait for each other; short of that everyone is answered |
| for-you feed, cache (`foryou/build.go`, `cache.go`) | version and sections in Redis | build, bump | Redis, Postgres | a feed outlives the version it read; Redis restarts; one of many calls fails | no feed is older than the last bump before it |
| for-you feed, shorts (`foryou/shorts.go`) | `short_last_featured_at` | three queries and a marking | Postgres, the calendar | read, then mark; midnight; result sets that break off | limit and cooldown are kept, the day is filled, all see the same |
| lists (`handlers/books/list.go`, `admin_list.go`, `admin/users.go`, `audit.go`) behind `hpp.go` | the client's place in the list | count and page of rows | query parameters, Postgres | pages by position while rows come and go; parameters that never arrive | nothing is missed or shown twice, filters that arrive select |
| middleware pipeline (`middlewaresutil.go`, `recovery.go`) | none | wrapping order | wraps all handlers | order of wrapping | not modelled: no state |
| other read-only routes, search, statistics, user's books | rows | queries, single upserts | Postgres | nothing in TLC's reach | not modelled |
| passwords, JWT, validation, error mapping, other middlewares | none | functions of their input | none | cryptography, formatting | not modelled |

## Modules

`M` models a component, `MCM` instantiates it for TLC (symmetry sets), `MProofs` proves.
Abstract specifications are modules of their own. Each component is a composition in
itself (handlers, Postgres, Redis or R2); components meet only in rows, and where they
do the module of one says what it takes from the other (logout-all of an administrator
is a step of `Sessions` and leaves its trace in `AdminUsers`; a deletion of a book takes
its row in `Catalogue` and its files in `BookFiles`).

**Sessions** implements **SessionBook**. Variables are the two columns, the Redis keys and
the claims at clients. `LoginRead`, `LoginRehash`, `Refresh*`, `Logout`, `LogoutAll`,
`Change*` and `Issue` are the calls of `auth_handlers.go` and `user_handlers.go` in their
order. Hashes stand for the passwords they verify and tokens for their claims. The book
knows neither versions nor requests: a token is opened once, closed, never opened again,
and all of a user's are closed in one step. That an integer in one row does this is what
the refinement (`BookSpec`) shows: `holder` is the user of a token that Redis holds and
whose version is the row's. `line` is the history of which sign-in a token descends from, and
`unspent` has the sign-ins of which a DEL of Refresh removed nothing.

**ViewQueue**: channel and batches are sets of views (each has its own time stamp), with
how often each was written; `owed` is what Shutdown found accepted and not yet inserted. A worker is at `select`, in a flush, or draining. `Ends` says
how the process ends: by Shutdown, or by the `log.Fatal` of `server.go`, which runs no
deferred call.

**TokenBucket** implements **IdealBucket**: the script stores the tokens left and the time;
the level a reader would expect is `Refilled`, which the refinement maps to the level of a
bucket that fills by one unit a tick. The clock may be set back; Redis may fail, lose the
answer or drop the key when it expires.

**LoginLimiter**, **Verification**: keys with a TTL that counts down, time without bound, and
a history of what was let through, as pairs of its age and of which of its key it was (`recent`),
so that "over any stretch of a window" can be said. What is older than a window is forgotten.

**AdminUsers**: role check, count of administrators, quota, UPDATE, audit INSERT as five
steps. `done` is the history of mutations that the audit is compared to; `fresh` says that no
other request has changed a role since this one began.

**BookFiles**: rows by id with the slug clients address them by; objects are keys
`(prefix, slug, second)`. Each handler is: read the row, pick a key, put, write the row,
delete the old object, with its clean-ups. Faults are chosen by the configuration: the process
dies at any point, an upload fails that stored its object, a deletion fails, a statement or a
COMMIT takes effect and its answer is lost. Slugs may be renamed at any time. Nothing ends a
behaviour when something has gone wrong; instead three histories say which *keys* it was:
`doubtful` those a row may name although nothing is there, `abandoned` the objects nobody will
delete though no row names them, `awaited` those a client has been asked to upload to. Each is
filled by the one step that makes the key so, with the reason in its comment.

**Catalogue**: a request's statements by the part of the book they deal with (`Rank` is
their order). A DELETE of links takes its snapshot (`Clear`), waits for those who delete the
same rows and deletes what is still there (`Cleared`): that is READ COMMITTED as this code
uses it. What a transaction inserts takes effect at `Commit`, and `Fail` undoes it. When a deletion
commits, links committed after its DELETE go with the row (a cascade), stay (no foreign key),
or the deletion is refused (`Fail`): the schema is not in the repository, and the model has all
three. `held` is the history of what the book was since a request came, `began` of when that was.

**ConnPool**: a statement is waiting or on a connection; a list's result set keeps its own
connection while `LoadAuthorsForBook` and `LoadCategoriesForBook` ask for another. Nothing in the
code keeps lists below the number of connections, so the runs have as many.

**LoginRoute** composes LoginLimiter with ConnPool: what the limiter lets through begins a
statement, what it refuses never touches the pool, an error of Redis lets through uncounted.
Both modules' promises are checked of the composition.

**FeedCache**: the catalogue is the number of changes committed, a section is the catalogue
it was read from, and the cache is what each version has of each section. `Commit` and `Bump`
are the two halves of an administrator's change; a `Build` reads the version, looks for every
section, queries what it did not find and stores it under the version it read. `bumped` (the
changes behind each version) is the history the properties compare with.

**DailyShorts**: `mark` is `short_last_featured_at` in days. A call reads the day's picks, then
the books not at rest, then the fallback, and marks what it picked with the day it began
on; `Read` is a result set, which may break off without being noticed. `overtaken`, `cut` and
`crowded` are the history that says which calls the promises are for.

**Lists**: one client walks one of four lists. `Arrives` is what the parameter filter lets
through, `Size` and `Start` what the four handlers make of limit, size, page and offset, and a
request is the count and then the page, with `Insert` and `Delete` in between. Items of one moment
(`Ties`) come in any order, another one for each query: `Pages` is the set of pages LIMIT and
OFFSET may give.

## What is checked

Runs that pass:

| Run | Shows | Instance, and why it is enough |
|---|---|---|
| sessions_concurrent | no token is ahead of its user, revoked and spent tokens stay so, a bump ends all sessions, rotation splits none short of a DEL that removed nothing, and the protocol implements SessionBook, whatever overlaps and whichever ignored error occurs | 1 account (a handler touches one; the theorems have any number), 3 tokens for two rotations, 2 passwords, 2 requests, versions to 3 so that a change of password meets another bump |
| viewqueue_ends | every accepted view is in one place and written at most once; batches fit; Shutdown flushes what was accepted and returns; no view waits for ever | 3 views over a channel of 1 and 2 workers with batches of 2: the channel is full while both workers hold views; both ends of the process |
| tokenbucket | the bound on what is admitted, and the refinement | burst 2, 2 ticks a token, 12 ticks: the bucket fills three times over |
| loginroute | at most twice the limit less one over any window; a refused address gets in again if its key has a TTL; only as many lists as connections bring everyone to wait for each other, that lasts until a client gives up, and otherwise everybody let through is answered | 2 attempts in 2 ticks by 2 logins, all calls of Redis may fail; 2 lists of a book on a pool of 2: the smallest instance in which all wait for each other, which TLC reaches |
| verification_links | quota over any day, first verification stands, a failed link works again | 2 users, 2 links, 2 requests, 2 sends in 2 ticks |
| adminusers_concurrent | the audit never tells of what was not done; a change of role leaves an administrator unless another change of role came between its checks and its write | 2 users, 2 requests, 2 mutations: one can fall between the checks and the write of the other; audit failing |
| bookfiles_all | a row's key is that of an object or an awaited upload unless that very key is in doubt; no other object is left behind than those abandoned by name | 1 slug books are created with and 1 for renaming, which can change hands between 2 books; both kinds of file; 3 requests, 2 at a time: an upload to replace and two that overlap, or one beside the deletion or creation of another book; 1 or 2 seconds, so that keys collide or do not; all faults, any number of them |
| catalogue_overlap | a stored book is one request's, whole; a patch puts back nothing the book has not held since it came; a deletion leaves no link from before it | 1 id, 2 requests, 3 commits (create and the two that overlap), blank names; 1 link table: the theorem covers both |
| lists | who walks a list to its end has seen what was there all the time; nothing is shown twice unless something came in ahead; filters that arrive select; all of it but for rows of one moment | up to 4 items, 2 of them of one moment, pages of 1 to 3, the greatest offset inside the list, filters that pass and filters that do not, 1 failed request |
| feedcache | no feed is older than the last bump before it began; a bump begins with nothing stored | 1 feed at a time (what feeds share is the cache, which outlives them; the theorem has any number), 2 changes at once, 3 in all, 1 restart of Redis |
| dailyshorts | limit, cooldown, a filled day, the same shorts for all | 3 books, 2 shorts a day, 1 row read for a pick so that the fallback can be crowded, 1 day of cooldown over 3 days, 2 calls, 1 change |

One run ends in a counterexample, a finding of `PROJECT.json` quoting what the repository
says: adminusers_demotion (two administrators step down together).

The type invariants of Sessions, TokenBucket, AdminUsers, Catalogue, ConnPool, FeedCache and
DailyShorts are left to the proofs; the runs check those of the other modules, which are
theorems too.

### Where a promise ends

Several properties hold up to a condition that is part of their statement, since the code
does not keep the promise without it:

- A login that rehashes (`auth_handlers.go:100`) writes back the password it verified over one
  that was changed meanwhile. The model does so, and no property speaks of the stored password:
  without this case nothing is left to say but the two assignments.
- `RotationAddsNone`: `auth_handlers.go:128` reads a refresh token and line 151 deletes it without
  looking at what DEL removed or whether it failed, so overlapping refreshes of one token each get
  a successor, and a token whose DEL failed stays good. Lines this happened to are `unspent`.
  All of their tokens end together at the next bump (`BumpEndsSessions`).
- `NeverAhead` is one-sided: `user_handlers.go:101` stamps the version read plus one, so a
  logout-all in between leaves a change of password with a session that is already revoked.
- `ShutdownFlushes` speaks of Shutdown: `server.go:37` defers it under `log.Fatal`, which
  does not run it, and queued views are lost then.
- `Reopens` needs a TTL: when EXPIRE fails or is never called (`login_rate_limit.go:31`), the
  address is shut out for good.
- `QuotaBound` has no converse: every attempt renews the day the count lives for
  (`verify_handlers.go:62`), so who keeps asking is refused with fewer sends than the quota.
- `SomeAdminRemains` speaks of writes no other change of role came before since their checks:
  `users.go:105` counts and line 120 writes (the finding). That an administrator demoted meanwhile
  goes on (`roles.go:12`) is in the model; a property that excepts it would restate the check.
- `AuditNeverInvents` has no converse: the handlers ignore an error of InsertAudit.
- `NoDanglingReference` excepts keys in doubt, in four ways. Two uploads picked it: object keys
  have a resolution of a second (`admin_books_audio.go:60`), and one may clean up after the other.
  It was to be replaced, and the slug went to another book meanwhile: an upload finds its row by slug
  twice (`books_cover.go:27` and `:78`), and then deletes the file of the one and overwrites the key
  of the other. It was written by an UPDATE that reported an error although it took effect, and the
  clean-up deletes it (`books_cover.go:80`, `admin_books_audio_direct.go:90`, `admin_create.go:348`).
  Or the process died before the client got the URL its row waits for. None harms another key.
  A key whose URL a client has and has not uploaded to (`awaited`) counts as there: the old audio is
  deleted when the URL is handed out (`admin_books_audio.go:90`).
- `NoOrphans` excepts objects that were abandoned: a call failed or the process died with that key in
  hand, a file took the place of one that was not there when its request looked (of two
  overlapping replacements both delete the object they read, and the loser's own stays), a file came
  to a book deleted since or was attached after the deletion had read the row, or a client was late.
- `PatchInventsNothing` does not say that a PATCH loses nothing: it reads the book before its
  transaction and writes all of it back (`update.go:66`), undoing what was committed between. It
  says how far back that may reach, for the row and for each table of links by itself.
- `DeletionLeavesNothingOld` speaks of links from before the deletion. Those committed after its
  DELETE (`delete.go:35`) stay where the schema has neither a cascade nor a foreign key.
- `OnlyListsGridlock` says who stops everybody, not that nobody does: `fetchAdminBooks` asks the pool
  for further connections (`read.go:195`, `:200`) while its result set keeps one, and nothing limits
  the wait or the number of lists. The pool has ten (`sqlconfig.go:31`); with ten lists half-way
  through their pages nothing that needs Postgres is answered until a client gives up
  (`GridlockLasts`), and `Answered` ends there. TLC reaches this state in `loginroute`.
- `FreshFeed` excepts the first bump: a missing `fy:ver` reads as 1 and INCR makes it 1
  (`cache.go:73`), so that what was stored before it stays. It excepts feeds whose version could
  not be read, and, after a restart of Redis, feeds that were being built under it. It speaks
  of changes that were bumped: `AdminPut` and others ignore an error of BumpVersion, and
  `AdminCreate` makes no bump at all, although `cache.go:159` asks for one.
- `CacheSound` excepts the shorts: an error of their query is stored as an empty list
  (`build.go:154`). A result set that breaks off is stored too, for nobody asks `rows.Err`.
- `LimitKept`, `CooldownKept`, `Filled`, `SameForAll` are for calls nobody overtook: of two that
  read before either marks, both pick (`shorts.go:41`), and one that began before midnight may
  set marks of a later day back. `Build` and the handler take the day from different clocks.
  They except calls whose result set broke off (`shorts.go:31`), and `Filled` those whose
  fallback was `Crowded`: it reads rows for the missing picks only, of which some may be picked
  already (`shorts.go:88`).
- `NothingMissed` and `ShownRight` except rows that share their `created_at`: lists are ordered by it
  alone (`read.go:176`, `sql.go:98` and `:247`), and Postgres promises no order of those from page to page.
- `NothingMissed` excepts what moves when something ahead of the client is deleted, and offsets
  beyond the greatest. For who stops by the total it needs an offset on a page's start: `list.go`
  rounds others down (line 41) and repeats the one asked for in its answer.
- `ShownRight` speaks of filters that arrive. `hpp.go` lets neither `size` nor `query` through, nor
  `role`, `verified`, `status` and the filters of the audit list: the administrators' lists then
  show everything in pages of the default size.
- A stored book may have no author: `validateV2` (`helpers.go:43`) counts the names sent, and
  `Dedup` drops blank ones later. `Whole` therefore compares with the names kept.

Bounds (`Max*` and `FirstSlugs`, named in each module) end the model, not the program; runs whose
states all end that way say so and switch the deadlock check off. Values, names and slugs
are model values, with symmetry where no property distinguishes them and none is temporal.

### Fairness

Safety runs assume none. `ViewQueue!Fairness`: the runtime schedules worker goroutines and
Shutdown's wait; requests are not assumed to come. `LoginRoute!RouteSpec`: time passes (weak);
attempts need not stop and no request need call EXPIRE; statements end and handlers go on
(weak); a waiting statement gets a connection if connections keep coming free (strong, since
`database/sql` hands a freed connection to one of those waiting, drawn at random). A login
let through need not begin, and clients are never assumed to leave, though they may. The other runs check
safety only, and action properties.

## What is proved

Every safety invariant, action property and refinement that a passing run checks is a theorem,
for all values of the constants, the bounds among them, from the named assumptions of the
modules and those a theorem states. The assumptions say that constants are of their types,
that a limit, a window or a page is not zero, that a value which stands for "none" is no
other value, and, where something is counted, that it is finite.

- **SessionsProofs**: TypeOK; `NeverAhead`, with that Redis holds only tokens that were drawn
  (`Provenance`); from these and from versions only growing, `RevocationFinal`, `SpentStaysSpent`,
  `BumpEndsSessions`; and that Sessions implements SessionBook. `NeverAhead` is what makes the rest
  inductive: were a token ahead of its row, a later bump would bring it to life.
  `RotationAddsNone`: a line has one heir, a token or a refresh about to issue, because a step that
  makes one removes the other, or marks the line.
- **ViewQueueProofs**: TypeOK, `Conserved`, `ShutdownFlushes`. That batches fit rests on a worker
  having room whenever it waits for a view (`Room`). The places a view can be in are made
  exclusive one by one (`Placed`). For Shutdown: a worker drains the channel until it has seen it
  without anything owed, and goes to its last flush only then, so that what is still owed is in
  some worker's batch, and nowhere when all have returned (`Ending`).
- **QuotaProofs**: of TokenBucket, TypeOK, `AdmissionBound` and the refinement of IdealBucket; the
  invariant adds to the bound that `granted` and the level together never exceed the burst and
  the ticks. Of Verification, LinkTypeOK, `QuotaBound`, `VerifiedOnce`, `LinkKeepsWorking`: while
  a key lives it has counted every send of the last window, since each attempt renews its day, so
  that no number comes twice (`Charged`); who is to delete a link has seen its user verified
  (`Following`).
- **AdminUsersProofs**: TypeOK; `SomeAdminRemains` for any number of users and overlapping requests.
  The invariant carries what the role check and the count established over to the write
  (`ActorsAreAdmins`, `Counted`); `fresh`, the history that no other change of role came between, is
  what it depends on. `AuditNeverInvents`, for finitely many users: each kind of entry is counted,
  in the audit and in the requests that may still make one, against what was done (`Accounted`).
- **BookFilesProofs**: TypeOK, `NoDanglingReference`, `NoOrphans`, for all interleavings, renames and
  faults. Every key there is no doubt of (`Sure`) has one owner: the request that generated it, then
  the one slot of the one row that names it, then the request that deletes it (`Placed`). What a
  row names is in the bucket, awaited, or about to be handed out, and what a request has put and
  not begun to take back is in the bucket (`Stored`): a deletion hits nothing that is named because
  of `Placed`, and a key drawn anew is nobody's because every key in use was drawn before
  (`TypeInv`). For `NoOrphans`: an object not abandoned is named by a row or in the hand of a
  request (`Tidy`), and no hand is full when all are idle.
- **LoginRouteProofs**: of ConnPool, TypeOK, `OnlyListsGridlock` and `GridlockLasts`, for any number
  of requests, lists and connections, by counting: open result sets belong to lists only. Of
  LoginLimiter, LimiterTypeOK and `WindowBound`: what was let through in a window belongs to two
  keys at most, and the first of the older is out of sight (`TwoKeys`), whence twice the limit
  *less one*. That every step of LoginRoute is a step of either module or leaves it alone is
  proved as two refinements, and the promises about gridlock for the composition by the first.
- **CatalogueProofs**: of Catalogue, TypeOK with the exclusion of row locks, `Whole`,
  `PatchInventsNothing` and `DeletionLeavesNothingOld`. The invariant (`Inv`) says that a transaction
  past its UPDATE has the row to itself, so that the links it saw and deleted are still all there
  are when it commits (`HoldsRow`); a deletion, which clears the links first, needs the row only. It
  rests on the order of statements (`Rank`). What a patch has read so far was each the book's at
  some moment it `held`, and what a deletion has not cleared was linked after it `began`
  (`Recorded`), which every commit of another request preserves. Of Lists, ListTypeOK,
  `NothingMissed`, `ShownRight`: LIMIT and OFFSET count rows, so the proof is about the depth of a
  row, how many are newer, which is where it stands in every order of ties if it is in none
  (lemma `HeadDepth`). What the client waits for is no less deep than its page begins if nothing
  was deleted above it (`Ahead`), what it has seen is less deep if nothing came in above
  (`Behind`), the total it was told is no less than the rows until something comes in
  (`Counted`); and a page with a row below it is full (lemma `PageDepth`, by cardinalities).
- **ForYouProofs**: of FeedCache, TypeOK, `FreshFeed`, `CacheSound`, for any number of feeds, sections
  and writers (finitely many at a time). The invariant says that what is stored under a version
  is at least as new as the change that made it (`StoreFits`), that a feed in progress holds only
  such sections and a version that is or was, and, by counting changes against bumps yet to
  come, that there is no version without a change. Of DailyShorts, TypeOK, `LimitKept`,
  `CooldownKept`, `Filled`, `SameForAll`, for any limit, factor, cooldown and number of calls: the
  invariant says what a call that nobody overtook knows at each of its points: its picks contain
  the day's, and when it goes on to the fallback, everything that was eligible (`Sound`). It
  rests on lemmas about what LIMIT cuts off and what a shuffle picks, by cardinalities.

Model-checked only, since the prover has no fairness or ENABLED: `AcceptedIsAttempted` and
`ShutdownReturns` of ViewQueue, `Answered` and `Reopens` of LoginRoute. The counterexample of
adminusers_demotion is TLC's.

## What is left out

- Rounding of the rate limiter's floating-point numbers; lengths and wording of texts.
- Unique columns other than slugs, and whether the schema cascades: the schema is not in the
  repository. A refusal by the database is a step that fails.
- A statement that reports an error although it took effect, outside BookFiles and the calls of Redis.
- Reading progress, favourites and notes: single upserts on one user's rows.
- The order in which middlewares wrap each other: fixed at start-up. `server.go:90` lists Recovery
  first, which makes it the innermost: it sees the panics of handlers and not of middlewares.
- Of the feed: the copy of an answer the handler keeps for a user for five minutes, and what the
  SQL of each section selects. As wired the route answers 401 before it gets there
  (`router.go:43` mounts it without RequireAuth) and `Build` has no caller; both modules model
  what the code does when it is called.
- Of statistics: the counts, and the half minute Redis keeps them.
- The components the table marks, and why, are in `PROJECT.json` ("components").

## Plan

Done: Sessions, ViewQueue, TokenBucket, AdminUsers, BookFiles, LoginLimiter, Verification,
ConnPool, Catalogue, FeedCache, DailyShorts, Lists, LoginRoute, in this order, and eight proof
modules with a theorem for every safety property of theirs.

1. What liveness rests on, as far as it is safety: of `Answered`, that a statement which waits
   finds a connection or someone who will free one, unless all wait for each other.
2. That the exceptions of "Where a promise ends" are the only ones: for each, a behaviour that
   takes it.
