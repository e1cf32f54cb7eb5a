# Verification of the solar inverter incident control program

TLA+ modules, model-checking runs and machine-checked proofs about the
program in this repository: a Go backend (Gin, GORM, PostgreSQL, Redis) that
keeps four kinds of records with optimistic locking and an audit log, and a
React workbench through which users move the records' statuses.

## Inventory

### Components

| component | state | operations | correct when |
|---|---|---|---|
| status graphs (`constants/status.go`) | none | `CanTransition` | graphs are closed; the frontend's lists follow them |
| generic store (`model`, `repository/base.go`, four wrappers) | one table per kind: code (unique, removed rows included), status, version, `deleted_at`, business fields | `Get`, `Create`, `Update … WHERE version`, soft `Delete`, `List`, `CountByStatus` | one change per version; no update is lost; codes are never shared |
| record services (`service/*.go`) | none of their own; locals of each request | `Create`, `Update`, `Transition`, `Delete` | every change follows the graph and is audited; answers are truthful |
| audit log (`service/security.go`, `repository/security.go`) | `audit_logs` | `Audit`; list, summary and history queries | tells of what happened, of all of it and of nothing else |
| handlers and DTOs | none | binding rules, error mapping | 404/409/422/500 mean what they say |
| rate limiter (`middleware/ratelimit.go`) | Redis counters shared by all processes; a mutex-guarded map per process | `increment`, `incrementLocal`, `cleanupLocal` | a client gets its limit per minute, not more and not less |
| startup (`cmd/server/main.go`, `database/database.go`) | what it finds in the database | connection loop, migrate, seed, Redis ping, exit | a restart completes what is missing, changes nothing else, and succeeds |
| authentication and roles (`middleware/auth.go`, `service/security.go`) | accounts; tokens that are kept by their holders | login, `Authenticate`, `RequireRoles`, `RequireMinimumRole` | a token grants what its account was entitled to, for its lifetime |
| overview, runtime and audit queries (`handler/system.go`) | none | several queries per answer | the parts of an answer fit together |
| workbench page (`EntityPage.tsx`, `stores/factory.ts`, dialogs) | the last list and error, the open dialog, the drawer and its checkbox | load, create, transition, review | a move starts from what the user saw and, for remote kinds, reviewed |
| frontend session and routes (`useAuth.ts`, `client.ts`, `RequireAuth.tsx`) | the session in the browser's storage, shared by its tabs | login, logout, guards | a page offers what the server permits |
| configuration (`config/config.go`) | none after the start | `Load`, `Validate` | no process runs with values it cannot work with |
| frontend views, request context, routing, deployment | none across requests | rendering, wiring | — |

### How they interact

The page calls the API; the limiter (in every request, before the token is
checked) talks to Redis; the handlers bind the call and hand it to a service;
the service reads, checks and writes through the store and then appends to the
audit log. Nothing is shared in memory between requests but the limiter's map:
requests interact through the database, one SQL statement at a time, and *no
transaction spans two statements of a request*. docker-compose restarts the
process when it exits.

### What is hard

* **Concurrency.** `Transition` is SELECT, check, `UPDATE … WHERE version =
  expected` of every column, INSERT of the audit record, SELECT. Any other
  request can run between any two of them, and the version compared is the
  caller's, not the snapshot's.
* **Failure.** A statement, its acknowledgement, or the whole process can fail
  between the write and its audit record; the four operations treat a failing
  audit differently.
* **Ordering.** Redis keys are made before they are counted, across minute
  boundaries; list answers overtake each other in the page.
* **Restart.** Seeding runs on every start, over tables users have changed; a
  new environment may change the secret under tokens that browsers hold.
* **Stale state.** A token carries the role its account had at the login; a
  page shows the buttons of the session it was rendered with; a list is read
  page after page while its order changes.

`PROJECT.json` lists each hazard at its line with the properties that cover it.

## Modules

| module | models | builds on |
|---|---|---|
| `Entities` | the four status graphs and what each service file passes to the common protocol (initial and seeded statuses, second confirmation) | |
| `Rows` | the four tables as one function from primary keys to rows; what one statement of `repository/base.go` sees and does | `Entities` |
| `VersionedRecords` | **abstract**: what the services promise about the rows, one atomic action per operation | `Rows` |
| `RecordService` | the four services over the store and the audit log, one step per SQL statement, with faults | `Rows`; implements `VersionedRecords` |
| `RateLimiter` | several backend processes, Redis, the clock | |
| `Startup` | the process's life over the database, with `VersionedRecords` as what users do meanwhile | `Rows`, `VersionedRecords` |
| `Pages` | the bounds of a page request, and what ORDER BY, OFFSET and LIMIT may answer | |
| `AuditQueries` | the summary's five queries and the list's pages over a log that is being written | `Pages` |
| `ListPages` | a table read page after page while its rows are changed | `Pages` |
| `Workbench` | the pages of one user's workbench over the services, with `VersionedRecords` as what other users do | `Rows`, `VersionedRecords`, `Pages` |
| `Config` | from the environment to a validated configuration | |
| `Access` | login, tokens, what the middlewares answer to them; accounts, restarts, time | `Config` |
| `Browser` | the session and the pages' buttons in the tabs of one browser | `Access` |
| `MC…` | instances for TLC | |
| `RowsProofs` | lemmas about the graphs, the rows and the statements on them | `Rows` |
| `RecordServiceProofs` | theorems about the services' refinement and their histories | `RecordService`, `RowsProofs` |
| `RateLimiterProofs`, `StartupProofs`, `BrowserProofs`, `WorkbenchProofs`, `AuditQueriesProofs`, `ListPagesProofs` | theorems about one component each | that component |

`RecordService`, `Startup` and `Workbench` take the abstract records by
`Records == INSTANCE VersionedRecords WITH rows <- rows`: `RecordService` is
checked and proved to implement `Records!Spec`, the other two use its actions
for what users do through the services.

Definitions marked *Mutant* in a comment are not part of the model. Each is a
plausible bug in the definition that follows it, kept to confirm that the
property it belongs to notices that bug (`PROJECT.json`, `mutants`).

### `RecordService` and the code

The four service files are the same text but for names, the graph, the initial
status and, for mitigation actions, `requireSecondConfirmation`; `Entities`
holds those differences and `RecordService` models the rest once. `pc[r]` is
the next statement of request `r`:

| `pc` | statement | actions |
|---|---|---|
| `idle` | not arrived | `ArriveCreate`, `ArriveUpdate`, `ArriveTransition`, `ArriveDelete` |
| `start` | checks, then `First` or `Create` | `RefuseUnread`, `Read`, `Insert`, `InsertDuplicate` |
| `write` | `Updates` or `Delete` | `Write`, `WriteConflict`, `Remove`, `RemoveMissing` |
| `audit` | `AppendAudit` | `Audit`, `AuditFails` |
| `reread` | the second `Get` | `Reread` |
| `done` | answered | |

`item[r]` is the request's local struct, so a write takes every column but the
key and the code from it (`Overwritten`), as `Select("*").Omit(…)` does.
`StatementFails`, `AuditFails`, the second alternative of `Committed` and
`Crash` are the faults: a statement that fails, an INSERT or UPDATE that
commits and whose acknowledgement is lost, the death of the process. `effects`
is a history variable: the writes that were committed.

Contents of business fields are model values; a blank field is `Blank`. Codes
stand for what is left after trimming and upper-casing. `GuessAhead` says how
far past a row's version a caller's `expectedVersion` may be: 0 for a caller
that echoes versions it was given, which is what the workbench does.

### `RateLimiter`

A request stamps its Redis key (`Stamp`), runs INCR and EXPIRE in one
transaction (`Exec`), or falls back on the map (`ExecFails`, `CountLocal`), and
is judged (`Judge`). Redis may run a transaction whose answer is lost, in which
case the driver repeats it (`ExecRepeats`) or gives up; `repeats` is a history
variable that counts those. A process without Redis (`REDIS_ADDR` empty) is one
for which `ExecFails` is always taken. `place` is where a request was counted:
Redis, or one run of one process. Time is counted in minutes. Assumed: the
clock does not step back, and a Redis call with its retries ends before a
second minute boundary (the driver's timeouts are seconds).

### `Startup`

`stage` follows `main` and `Open`; each seed function is one step that inserts
all rows of its kind or none. Every error is `Exit`, as in `main`, and `Start`
is docker's restart. `trouble` bounds crashes and outages.

### `AuditQueries`

`Stamp` is `Audit` giving an entry its `created_at`, `Insert` the INSERT that
makes it visible. `QueryPart` is the next of the five queries of
`SummarizeAudits`, `CountEntries` and `FindPage` are the two of `ListAudits`;
`PagesAt` is everything `ORDER BY created_at DESC OFFSET … LIMIT …` may answer,
equal stamps in any order. The reader of pages is an external caller that goes
on until a page is not full. One that stops at `meta.total` could miss an
entry, since the total is counted before the page is read.

### `ListPages`

The same two queries over a table of records, in the order `updated_at DESC, id
DESC`, with a filter that rows come to match or cease to. A writer has its
`updated_at` from its own clock (`Read`) before its statement runs (`Write`), so
a changed row does not always come to the front. `left` and `came` count the
rows that left the reader's list and those that came to it or moved in it.
`BoundSize` is `bindPage` followed by `normalizePage`, whose own upper bound no
request reaches.

### `Workbench`

The store's `load`, `createRecord` and `transition` are split where they await.
`posts` and `loads` are requests under way; the server answers a POST with the
whole of `Create` or `Transition` at the commit of its write (what happens
between its statements is `RecordService`'s subject). Dialogs cover the table,
so a row is only chosen when none is open; the buttons of a dialog stay enabled
while a request runs. `Open` is the page being mounted again after the user
left it: the dialogs are gone, the store is not, and answers still under way
change the store but no dialog (`Mounted`). Pages of different kinds share no
state, so each behaviour has one kind (`page`, fixed by `Init`), with the other
pages as places to be away to. Every request may fail, before or after its
write.

A list request asks for the first `PageSize` rows (`page=1&pageSize=20`) by
`updated_at`, and what it answers is one of `FirstPages`: `PagesAt` of the live
rows, with any rows first. The order is left open because `updated_at` is a
time of the process that wrote the row, so neither the row that was written
last nor the one this user moved has to come first; `ListPages` has the stamps.
Hence `SuccessShown` has an exception of its own: the reloaded list may be full
with other rows (`FullOfOthers`), and the page does not tell. It rules out that
a row is missing from a list with room for it. A search would only show fewer
rows, and the reloads after a write search for nothing (`load(path)`).

### `Config`, `Access` and `Browser`

`Config` is what `Load` makes of an environment and which results `Validate`
accepts; `Access` starts the process only in those. A login is two steps,
`ReadAccount` and `Sign`, as the comparison of the password takes a while; the
token carries the role that was read, and `exp` in whole seconds. No handler
changes an account, so `ChangeAccount` is an operator's SQL. `Reply` is what
`Authenticate` and the route's requirement (`Needs`) answer to a token.

`Browser` puts tabs on top: each logs in when it is opened (`useAuth` logs in
at every mount), stores the session where all tabs find it, and decides what it
offers from the session it was last rendered with (`seen`). A failed login
leaves what is stored; after a logout that is nothing. The guard of
`RequireAuth` asks for a session, not for a role: a viewer may open the audit
page, which the server refuses to fill.

## Runs

| run | question | bounds |
|---|---|---|
| `RecordService_overlap` | Do overlapping calls implement the abstract records? Are 409s real, refusals without trace, answers the caller's own writes, all writes audited when nothing fails? | 3 calls, a seeded fault event and a free key, 2 codes, 2 contents |
| `RecordService_faults` | What survives failing statements, lost acknowledgements and crashes? | 3 calls on one fault event, faults at every step |
| `RecordService_live` | Is every call answered and every write audited? | 2 calls; a mitigation action and two sites |
| `RecordService_overwrite` | *violated*: may `expectedVersion` be anything? | 2 calls, `GuessAhead = 1` |
| `RecordService_unaudited` | *violated*: is every change audited, faults included? | 2 calls, faults |
| `AuditQueries_reads` | Do a summary's parts fit together, and does paging see every entry, while entries are inserted? | 3 entries, page size 1, window of 1 tick, 3 ticks; one reader |
| `ListPages_reads` | What does paging miss or repeat while the table changes? | 4 ids, 3 of them seeded, 2 writers, sizes 0 to 3 asked of a default of 1 and a largest of 2, 2 ticks |
| `RateLimiter_failover` | Is the limit one limit per counting place, over all processes while Redis answers, and what is promised while it fails and processes restart? | 3 requests, 2 clients, 2 processes, limit 1, sweep at 1, 3 minutes, 1 restart |
| `Startup_restarts` | Is seeding complete, atomic per kind, harmless to users' changes, and does the process come back? | 3 site keys (2 seeded), 1 action, versions to 2, 1 crash or outage after an initial one |
| `Startup_emptied` | *violated*: does it come back whatever users removed? | versions to 1 |
| `Workbench_pages` | Does a move start from what was seen and reviewed, are offered moves accepted, and does a success show? | a page of two inverters or of one fault event, none stored at first; a page size of 1; 2 changing requests (at most 1 creation, whose dialog is opened until then), 3 list requests (the buttons leave one to the reloads); other users create and remove inverters and change the fault event to version 2; page opened twice |
| `Browser_tabs` | What do tokens grant, how long, and do the pages offer what they grant? | 2 tabs, 3 logins, 2 changes of the account or stops, 4 environments (2 valid), 4 ticks, 2 to a second |

Why the bounds are enough: a lost update takes one reader, one writer and the
version between them, so two calls on one row; the third call adds every
three-party case (a retry, a removal in between, a second conflict). More rows
would add nothing, as no statement touches two of them, but for codes, which
take a second row of the kind. Two contents let a write undo another visibly.
For the limiter, one minute boundary on each side of a request needs three
minutes; with a limit of 1, two requests of one client reach and exceed it, on
one process or two, and the third is a repeated one, the other client's, or one
counted by the other place. For the page, two overlapping requests and a list
request that overtakes their reloads are the cases; the rows begin unseeded, so
that a behaviour creates what it moves; a second version lets another user get
there first, and with two inverters and a page size of 1 either hides the
other: without its exception `SuccessShown` is violated within nine states. For the tabs, a third login lets each tab log in while the
other has a session; lifetimes of 3 and of 1 ticks end within, and before, the
first and the second second. For the pages of a list, two writers are enough
to move one row forward and to take one away between two pages. For the audit
queries, one entry on each side of an inserted one is enough to move it over a
page boundary, and two ticks to move the window past an entry.

`RecordService`, `RateLimiter`, `AuditQueries` and `ListPages` stop when all
their calls are answered (`Finished`); `Startup` and `Browser` idle (`Quiet`).
The page may simply be left, so deadlock is not checked there.

**Fairness.** `RecordService`: a goroutine whose next statement can run runs it
(`WF` of `Serve(r)`); callers owe nothing. `Startup`: docker restarts the
process (`restart: unless-stopped`), a process that starts goes on, and an
outage ends. No other run uses fairness, and no property relies on a user or a
caller acting.

### What the violated runs show

* `RecordService_overwrite`. `Update` and `Transition` never compare the
  version they read with `expectedVersion`. Two calls on version 1: the first
  names version 2, reads version 1 and pauses; the second moves the row to
  version 2; the first then matches version 2 and overwrites all columns from
  its snapshot. `EntityPage.tsx:48` promises that the version number prevents
  this. It takes a caller that names a version it was not given; for all
  others the theorem below says that it cannot happen.
* `RecordService_unaudited`. `README.md:35` of the repository promises an audit
  record for every status change. The write and its record are two
  transactions. What does hold under faults is `AuditTruthful` and `OkIsAudited`.
  (`AuditTruthful` makes one concession: `Delete` looks at no version, so the
  log may tell of a removal from a status that a transition had replaced.)
* `Startup_emptied`. The seed functions count live rows; the unique index also
  holds the soft-deleted ones. Once the last record of a table was removed,
  no start gets past seeding. `ServesAgainIfStartable` says this is the only
  obstacle.

## Proofs

`tlapm` checks every step of these for all values of the constants: any number
of rows, requests, processes, tabs and writers, any limits and page sizes.

| theorem | says |
|---|---|
| **`RecordServiceProofs`** | |
| `TypeCorrect` | the services' variables keep their types |
| `RecordServiceImplementsRecords` | if `GuessAhead = 0`: `Spec => RecordsImplemented` |
| `RowsAlwaysOK`, `CodesStayUnique` | abstract rows keep their columns' types and their kind's statuses; no two rows of a kind ever share a code |
| `ServicesKeepCodesUnique` | nor do the services' rows, whatever versions callers name |
| `AlwaysVersionHistory` | each version of a row is replaced once at most, and each but the last by one committed write |
| `AlwaysTraces` | `Traces`, below |
| `AlwaysRefusedLeavesNoTrace`, `AlwaysOkIsAudited` | what a refused request, and a successful transition or deletion, leaves behind |
| `AlwaysReadsOwnWrite` | an answer shows the caller's write or a later version |
| `AlwaysChangesAudited` | if `~Faulty`: every write is audited once nothing is under way |
| `AlwaysConflictMeansProgress`, `AlwaysAuditTruthful` | if `GuessAhead = 0`: a 409 means that the row went on; the log tells of committed writes only, of none twice |
| **`RateLimiterProofs`** | |
| `TypeCorrect`, `AlwaysGrantedOnce`, `AlwaysSharedLimit`, `AlwaysRefusedOnlyWhenFull`, `AlwaysTableBounded` | each counting place admits up to its limit, refuses only when it is used up, and the map of a process is bounded |
| **`StartupProofs`** | |
| `TypeCorrect`, `AlwaysServesSeeded`, `AlwaysSeededTogether`, `AlwaysStartsPreserveRecords` | seeding is complete before serving, atomic per kind, and harmless to what users changed |
| **`BrowserProofs`** | |
| `TypeCorrect`, `AlwaysGrantsBacked`, `AlwaysTokensLast`, `AlwaysOffersPermitted` | what tokens grant, how long, and what pages offer |
| **`WorkbenchProofs`** | |
| `TypeCorrect`, `AlwaysMovesAsSeen`, `AlwaysRemoteReviewed`, `AlwaysDrawerShowsMove`, `AlwaysRefusedOnlyWhenStale`, `AlwaysSuccessShown` | moves start from what was seen and reviewed, late answers leave the dialogs sound, a success is shown unless other rows fill the first page |
| **`AuditQueriesProofs`** | |
| `TypeCorrect`, `AlwaysSummaryFits`, `AlwaysPagingMissesNothing` | a summary's parts fit together; paging through the log misses nothing |
| **`ListPagesProofs`** | |
| `TypeCorrect`, `AlwaysMissedOnlyByRemovals`, `AlwaysRepeatsOnlyByWrites` | what paging through a changing list may miss or repeat |

### Assumptions

Those of the modules, which TLC evaluates in every run. Keys belong to kinds,
seeded codes are distinct within a kind, the zero values are no real values
(`Rows`). The limiter's limit is positive and Redis is none of the processes.
An environment names an application and a secret or leaves them blank
(`Access`). The reader's sizes obey `normalizePage`, and what is in a list and
who writes to it are finite (`ListPages`, `AuditQueries`), and so are the rows
of `Workbench`, whose page size is positive: the counts in their properties
mean nothing otherwise. The limiter needs no such assumption, since
its invariant says that only finitely many requests have been counted yet. The
bounds of the runs (`LastTime`, `MaxTrouble`, `Leave` and the like) are
constants of the specifications, so a theorem holds for each value of them.

Four theorems have a hypothesis of their own. `GuessAhead = 0` says that
callers name versions they were given; the run `RecordService_overwrite` shows
that the refinement needs it. `AlwaysConflictMeansProgress` and
`AlwaysAuditTruthful` need it too: with `GuessAhead = 1` TLC finds a 409 for a
row that did not change, and an entry that tells of a move from a status the row
no longer had. `~Faulty` in
`AlwaysChangesAudited` is what `RecordService_unaudited` shows to be needed.

### Arguments

The inductive invariants stand at the end of their component's module, and TLC
has checked each on its component's instance before it was proved. Each proof
has one lemma per action.

**Record services.** `TypeOK` is not inductive: that a stored row has a status
of its kind depends on what the writing request has read. `Shape` adds that
each table is well formed and, per request, what it has established by the time
it gets to each statement (`ProgressOK`: a well-formed call, an existing key, a
target that follows from the snapshot's status).

For the refinement, `Shape` is not enough: a write must replace the very row
its request read. `Snapshots` says why it does. A caller names a version no
later than the row's at its arrival; the request reads the row afterwards; rows
only move forward (`RowsAdvance`: versions never decrease, and while a version
stays, so do status and fields). So the named version is at most the
snapshot's, which is at most the row's; if the UPDATE finds the named version,
all three are equal, and the overwritten columns are those that were read. Then
`Write` is `Edit` or `Move`, `Insert` is `Create`, `Remove` is `Remove`, and
every other step, crashes included, leaves the rows alone. The refinement
mapping is the identity on `rows`.

`VersionHistory` is inductive next to `Shape`: the UPDATE that replaces version
*v* finds *v* in the row and leaves *v + 1*, for whatever version its caller
named. `Traces` says of each request whether it has written and logged when it
gets to each statement; `OwnWrites` that the row a request goes on to read
again shows its write or a later version; `Truths` that the entry a request is
about to append, and each one appended, tells of a write in `effects` (for a
deletion: from the row's status, or from one that a transition replaced).

**Rate limiter.** `Tallies` ties every counting place to the requests it
counted: two requests counted in one place for one client and minute have
different counts (`CountedApart`), no count is left out before the last but for
`repeats` (`CountedInTurn`), and the counter stands where they end
(`SharedTally`, `LocalTally`). Hence at most `Limit` counts can be admitted and
a refused request has `Limit` others, or repeats, before it. `Tables` adds that
no bucket is of a later minute than the clock, so that a sweep leaves only
buckets of the current one.

**Startup.** `Seeding`: each kind is untouched (`Unused`) or seeded, a seed row
keeps its code even when it is removed, and a stage is only reached when the
kinds before it (`Before`) are seeded. A kind whose rows were all removed cannot
be seeded again because its codes are taken, so a start changes no row.

**Browser.** `Sessions`: a login under way has read a role that the account had
then, by a process that still runs (`Reading`); `held` follows the account
(`Holding`); so each stored token expires as its signer computed it and carries
a role the account had within a login's time of its issue (`Issued`).

**Workbench.** `Working`: whatever the list, an answer under way, a dialog or a
request holds was once a row of the server (`FromServer`, `Was`), and those only
move forward. A move that finds its version therefore starts from the row as
it was shown; each move is by one request, which is past it (`MovesOK`), and the
row has gone on since, so that the same request cannot succeed twice. A first
page skips no rows and ends only when it is full or has them all (`FirstPage`);
so an answer to a reload shows the row that was written, unless the row is gone
or the page is full without it (`ReloadOK`).

**Audit queries.** `Reading`: the answers so far are the parts of states of the
window that only grow (`Answered`), so later counts are no less than earlier
ones; and an entry not shown yet has at least `Offset` newer ones (`Ahead`),
which insertions cannot take away.

**List pages.** `Paging` counts. A row that may still be missed (`Passed`) is
one the offset has gone past, and one row that leaves the list moves at most
one row over the offset, as ranks differ; a row to be shown again (`Due`) is
behind the offset, and one that comes or moves pushes at most one there. So
`Passed` never exceeds `left`, nor `Due` and `Repeats` together `came`.

### Only model-checked

The liveness properties (`EveryCallAnswered`, `EveryWriteAudited`,
`ServesAgainIfStartable`): the prover has no rules for fairness and `ENABLED`.
That the hypotheses `GuessAhead = 0` and `~Faulty` are needed is shown by the
violated runs. `Config` has no state of its own, and what `Load` makes of an
environment enters the proofs about `Browser` through its definitions.

Induction over data is out of reach too. No module declares a `RECURSIVE`
operator, and sums (`Sum` in `AuditQueries`, `Repeats` in `ListPages`) are
cardinalities of sets of pairs rather than folds, so that the facts about finite
sets apply to them.

## Not modelled

Single queries that change nothing and relate nothing (`CountByStatus`,
`Overview`, `Session`, `Runtime`, `EntityHistory`, `Status` of the limiter);
request ids, headers and logging; malformed requests; the search text; the
rendering of given data. Version numbers do not wrap. The clock does not step
back. Seconds within a minute (`Retry-After`) are not modelled. `AuditQueries`
has audit timestamps, `RecordService` has not. Of the configuration, only what
another module looks at. Passwords are right or wrong, and `Access` has one
account, as the workbench logs in as one.

Three things that were met on the way are stated by no property.
Nothing keeps a second press of the creation dialog's button from making a
second demonstration record, whose code differs by the milliseconds. A
`TOKEN_TTL` below a second is valid, and its tokens may be dead when they are
issued (`TokensLast` allows for the second that is cut off). And after a logout
followed by a failed login the page has no session: its guard sends it to
`/sites`, whose guard does the same, until the user reloads.

## Plan

Done, in this order: `Entities`, `Rows`, `VersionedRecords`, `RecordService`
with its refinement proof, `RateLimiter`, `Startup`, `Workbench`, `AuditQueries`,
`Pages`, `ListPages`, `Config`, `Access`, `Browser`. The models are complete but
for what is listed above.

Proved: every invariant and every action property that the passing runs check.

Left: that the limiter's counting refines an abstract allowance per place and
minute, and that the workbench's view of a row refines the row's own history;
the lemmas on finite sets that `AuditQueriesProofs` and `ListPagesProofs` share.
