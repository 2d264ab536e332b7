# A verification project for laika

laika keeps Elasticsearch documents in step with data that other services own.
A service notifies laika that a resource changed; laika registers the change in
Postgres, runs the resource's projection plans against the providers, writes one
document per Schema Version and follows stored edges from a changed child to the
Parents whose documents contain it. Several instances run at once and share
nothing but Postgres and Elasticsearch. No lock is held across a build: safety
rests on numbers drawn from one sequence, on guarded statements and on a stale
mark that outlives every failure.

This directory holds TLA+ models of that machinery, TLC configurations that
check them on small instances, and TLAPS proofs for the build pool, the locks of the
store, the read alias and the ownership of work.

## 1. The system

| Part | Code | State | Operations | What is hard |
|---|---|---|---|---|
| Build pool | `core/pool.go` | queue, `pending`, `closed`, `done`, `slotFreed` | `trySubmit`, `submitWait`, `worker`, `shutdown` | lock-free races of submit and shutdown; coalesced wakeups; cascades during a drain |
| Resource rows | `storage/postgres/pg.go`, `pg_schema.sql` | `version`, `build_idx`, `stale_seq`, `change_seq`, `stale_since`, `deleted`, `owner_seq`, `owner_since`, `sweep_after` | the statements named in `RowStore` | guards on captured numbers, leases that lapse, rows removed and recreated |
| Registration | `core/register.go` | none of its own | `RegisterChanges`, `markMissedParents` | a statement's snapshot is older than its commit; crash between commit and submit |
| Builds | `core/schedule.go`, `core/build.go`, `core/build_batch.go` | what a task has fetched and captured | mark, claim, submit, renew, `Build`, drift check, finish, follow-up | overlapping builds of one row; fetched data that ages before it is written; partial failures |
| Deletes | `core/handle.go` | captured mark | `deleteOne`, `handleDelete` | superseded deletes; a recreate under a running delete |
| Stale sweep | `core/sweep.go` | listed entries | `SweepStale` | claims that lapse while earlier entries run |
| Edge sets | `pg.go` (`ReplaceEdges`, `RemoveResource`, `ParentsOf`) | `relations`, `edge_sets` | replace, remove, read | writes in the opposite order of their fetches; the order of row locks; statements older than the locks they waited for |
| Documents | `backend/elasticsearch/es.go` | `_version` and body | bulk upsert, delete | reordered requests, conflicts that count as success, `index.gc_deletes` |
| Plans | `app/dsl` | none | root fetch, relation fetches, Parents | the root and its relations are read at different times |
| Rebuild walks | `core/rebuild.go`, `core/rebuild_flusher.go`, `core/build.go` 826-1226 | pages, pending resources, checkpoint | `RebuildAll`, `RebuildByIDs` | resume after a lost attempt, failures that cannot be marked, salvage |
| Probe pass, reverse sweep, forward walk | `core/rebuild_probe_pass.go`, `core/reverse_sweep.go`, `core/forward_walk.go` | cursors | page, probe, mark, build | listings that age; an attempt that runs on beside its retry; deletes nobody notified |
| Temporal wiring | `core/temporal.go` | heartbeat cursor | activities, schedules | a new attempt's heartbeat erasing the old cursor |
| Aliases, cutover | `core/alias.go`, `core/cutover.go`, `app/cmd/{indexer,gen-mapping,cleanup,cutover-check}` | alias targets, indices | converge, `gen-mapping`, `cleanup`, `cutover-check` | instances that start together, crash or roll back; tools run with another config file |
| Scans | `core/scan.go`, `backend/elasticsearch/scan.go` | scan token, point in time | first page, later page | a cutover, a config edit or a lost answer between two pages |
| Search | `core/search.go`, `core/federated_search.go`, `core/reference_search.go`, `backend/elasticsearch/search.go` | none | validation, translation, merge | negation and scope in nested data; two executions that must agree; caps |
| Aggregation | `aggregation/plan.go`, `app/dsl` | channels between stages | `Execute`, `executePlan` | senders nobody reads; an end of the channel that hides an error |
| Configuration, mappings, servers, commands | `core/resource`, `backend/elasticsearch/mapping*.go`, `app/...` | static | validation, formatting, I/O | nothing concurrent |

How the parts interact: a gRPC handler calls `RegisterChanges`; its one statement
versions, marks and claims the changed rows and marks and claims their Parents;
`markMissedParents` then reads the edges again; claimed rows are submitted to the
pool. A worker renews the claim, builds, writes documents and edges, schedules
Parents, checks for drift and finishes; the finish clears the mark it captured or
hands a newer one to a follow-up. The sweep claims and serves whatever kept a
mark without a live owner. `PROJECT.json` lists the hazards at their lines.

## 2. Modules

| Module | Models | Used by |
|---|---|---|
| `BuildPool` | `core/pool.go`, one step per atomic or channel operation | `MCBuildPool`, `BuildPoolProofs` |
| `PoolContract` | what the pool promises, without its machinery | `BuildPool` (refinement) |
| `BuildPoolProofs`, `RowLocksProofs`, `ReadAliasProofs`, `IndexerProofs` | theorems about the module each is named after; `IndexerProofs` begins with those about `RowStore` | - |
| `RebuildProofs` | theorems about `RebuildWalk` | `RebuildRootProofs` |
| `RebuildRootProofs` | theorems about what becomes of a root of `RebuildWalk`: the cursor leaves none behind, and a document has a row | - |
| `BuildSequenceProofs` | the ranks of a finite set of numbers | `IndexerProofs`, `AuditProofs`, `RebuildProofs` |
| `AuditProofs` | theorems about `SourceAudit` | - |
| `RowStore` | each statement that writes a resources row, as a function of the row | `Indexer` |
| `BuildSequence` | what a write at a Build Sequence does to a document and to an edge set | `Indexer`, `RebuildWalk`, `RowLocks`, `SourceAudit` |
| `Indexer` | registration, fanout, scheduling, owned builds and deletes, sweep, edges, documents, leases, failures, against a changing source | `MCIndexer` |
| `RebuildWalk` | one rebuild of a type: the activity's attempts and cursor, the page and the batch loop, the flusher, against registrations and live builds | `MCRebuildWalk` |
| `RowLocks` | the transactions of `pg.go` lock by lock, for resources rows and edge sets | `MCRowLocks` |
| `SourceAudit` | the reverse sweep, the forward walk and the probe pass with the workflows that retry them | `MCSourceAudit` |
| `ReadAlias` | one type's read alias and indices through rolling deploys, with the operator's tools | `Scan` |
| `Scan` | one scan, page by page, beside everything `ReadAlias` does | `MCScan` |
| `Pipeline` | a plan's stages, their channels and the two callers that consume them | `MCPipeline` |
| `Search` | paged and federated search from the request to the page | `MCSearch` |
| `MCBuildPool`, `MCIndexer`, `MCRebuildWalk`, `MCRowLocks`, `MCSourceAudit`, `MCScan`, `MCPipeline`, `MCSearch` | the small instances | TLC |

In every module but the pool's the constant `Setups` holds several situations (what
exists at first, what may happen, how often), and `Init` chooses one. The records and
their fields are in the `MC` modules; one run covers all of a module's situations.

Definitions whose comment says *faulty variant* are plausible bugs of the code;
they are part of no specification. Each is the mutated form of one definition,
under which one of the checked properties fails.

### BuildPool

`queued` is `len(queue)`: tasks are interchangeable. Each goroutine has a `pc`.
`trySubmit` is `load -> add -> recheck -> send`, with `undo` for a pool found
closed or a full queue. A worker between its dequeue and its `pending.Add(-1)` is
in `busy`; while its task runs it may itself enter `trySubmit`, which is how
cascades submit. `submitWait` is the loop around it, asleep at `wsleep`.
`shutdown` is `SetClosed` (the `CompareAndSwap`), `CloseDone`, the polling of
`waitIdle`, and `Cancel`; several may run at once. `drained` is history: some
shutdown saw `pending` at zero.

### RowStore and Indexer

`rows` is the resources table. Times become booleans: `live` (the lease has not
expired) and `waiting` (`sweep_after` lies ahead). A missing row is `BlankRow`.
`edges[r][v]` is an edge set with its `build_seq`; `docs[r][v]` is a document with
its Elasticsearch version, kept after a delete until `ForgetDelete`. `src` is the
truth: a change count `n`, the Schema Versions whose plan finds the resource,
what it refers to (`refs`) and the Parents its own data names (`ups`).

Every store statement and every Elasticsearch request is one step, with one
exception: `RegisterChanges` is `RegBegin` (snapshot of the edges, row locks,
numbers drawn) and `RegCommit`, because its snapshot is what the second fanout
exists for. While it is open, other writers of the rows it has locked wait; rows
that do not exist yet are locked by nobody. A build is
`BeginBuild -> (FetchRoot -> FetchRelated) per version -> BulkUpsert -> DeleteNil
-> ReplaceEdges -> ScheduleParents -> CheckDrift -> Remark -> Finish`; one whose
plans all return nil goes to the delete path, `DeleteEach -> RemoveResource ->
DropRow`, which a tombstone reaches through `BeginDelete`. `entries` is work
claimed and queued (or listed by the sweep). `Shed` stands for a pool that
refuses, so `BuildPool` is not composed into `Indexer`: what matters here is only
that any submission may be refused and any queued task lost.

Abstractions a reader should know of:

- a batch of several ids is several tasks of one id; per-id outcomes of one
  `Build` are therefore interleaved more freely than in the code;
- metadata is not modelled; the numeric backoff is the boolean `waiting`;
- a failed release after a failed build is `CrashTask`, a lost answer of a
  committed registration is the second branch of `RegCommit`;
- a resource never names itself as Parent, and the instances have no cycle of
  Parents named by data (such a cycle schedules itself forever in the code too);
- upstreams deliver a delete in order with later changes of the same resource
  (`Deliverable`): it carries no version, so the code takes a late one at its
  word;
- Elasticsearch forgets a delete only after every request below it has ended
  (`ForgetDelete`), the assumption the deployment notes make of `gc_deletes`;
- a reference to a child that does not exist yet has no edge, so the child's
  creation must name the Parent itself (`ups`), as reverse relations do.

The history variable `exposed` records children whose change may have passed a
Parent by: `fanout` (the second fanout failed or its process stopped), `removed`
(the child's row was removed before a running Parent build's drift check; both are
listed in ADR 0002) and `lowered` (section 6).

### RebuildWalk

`w` is the attempt that runs: its program counter, the plans left, the pages its
plan's pipeline has fetched (`inbox`) and the one the loop is at (`page`), the
documents queued (`pending`) and being flushed (`chunk`), the last page consumed
(`completed`). `entry[r]` is the flusher's `pendingResource`. `job` is what
outlives the attempt: the cursor Temporal has (`recorded`), the one the next beat
records (`latest`), the attempts made and how the activity ended. A cursor is the
number of a page.

The page loop is `Execute -> (TakePage -> items -> PageConsumed)* -> EndPlan` per
plan, with `FetchPage` the pipeline beside it; the batch loop is
`BeginBatch -> AskPlans -> items -> BatchDone`. An item is begun, then added,
skipped, counted as a nil, or found to contradict its plan's earlier answer. A
flush is `BulkUpsert -> StoreEdges* -> CountDocs -> DropNils* -> CheckDrift ->
Narrow -> Remark* -> Complete* or FailPartial*`, and `FlusherReturns` checkpoints.
A last outcome that is a nil enters the same sequence at `DropNils` (`how` is
`nil`, `leave` or `remove`). Each of these has its error path: an abort salvages,
a failed resource is marked, a mark may fail too and is then recorded as lost.

Abstractions:

- of a row only its presence and its mark are kept, and a marked row may be built
  at any time, by a build that draws its number and fetches in one step and writes
  and finishes in another (`LiveBegin`, `LiveEnd`); `Indexer` has the rest;
- a page's roots and their children are fetched at one instant; the loop sees it
  later. The deletes of one resource's nils and the emptying of their edge sets
  are one step when they succeed, any part of the deletes when they fail;
- a failed resource is marked in the step that fails it, and the ids of a batch
  that a plan failed are failed before the others are processed;
- the batches of a rebuild by ids have no id in common: `idBatches` splits ids that were
  deduplicated before (core/build_batch.go:44-66);
- drift checks ask about the children a root's document always shows (`KidsOf`);
- one attempt runs at a time: a worker that outlives its heartbeat timeout is
  modelled in `SourceAudit`, not here, and so is the probe pass after a walk of some
  versions;
- `exposed` leaves out roots that a live delete removed, row included, after the
  walk had fetched them: the walk recreates those, which ADR 0012 accepts (lines
  199-201). After a crash, or when a mark is lost, such a delete can also leave a
  document without a row (ADR 0012, 193-198), and the properties that say what documents
  and rows end as (`ServedHasRow`, `EdgesCoverDocs`, `RegisteredKept`) leave those rebuilds
  out. Section 5 has the history.

### RowLocks

The other modules take each statement of `pg.go` as one step; here a call is a
transaction that takes its locks one at a time and commits later. Of the transaction of
call `t`, `pc[t]` is where it is, `todo[t]` the rows still to take, `seen[t]` what the
snapshot of its first statement showed, and `took`, `cut`, `made` and `out` what it will
commit; `lock` maps every resources row and every edge_sets row to its holder. A
statement takes its rows in ascending order, so `todo` is a set and the row a transaction
is at is the least of it (`Here`); the `ORDER BY` and the sorted versions of the code are
that operator. A lock on a row that is not there is an uncommitted insert. Reads are READ
COMMITTED: a statement that waited looks at the row as it is then, and finds nothing
when another transaction removed it (`moved`). A registration goes through `lock`, `write`
(the items' upsert) and `parents` (that of their Parents); `ReplaceEdges` through `lock`
and `meta`.

`Call(t).kind` is `replace` (`ReplaceEdges`: edge sets in ascending Schema Version,
then the relations, then the metadata report on the resources row), `remove`
(`RemoveResource`), `register` (`RegisterChanges`: `locked` takes the items and the
Parents the snapshot names, then the upserts), `mark` (`MarkStale` and the like,
`BeginBuild` too), `touch` (the statements of an owner, which update and insert
nothing), `drop` (a guarded delete of a row) and `list` (`ListStale` with `SKIP
LOCKED`). Which items a registration accepts is left open. `Abort` is what Postgres
does to one transaction of a deadlock.

### SourceAudit

`src` says which versions' plans find an id and under which metadata: metadata is
the actor a provider answers, so a plan asked with other metadata finds nothing and
one asked without fails. `notices` are changes not yet registered, `unheard` those
nobody will ever notify. `rows`, `docs`, `edges` and `live` are as in `RebuildWalk`.
`sweep` is a reverse sweep's run as Temporal has it (recorded cursor, outcome) and
`atts` its attempts: each lists a page of rows after its cursor, probes them in groups
of one metadata, marks what the source no longer has, and heartbeats; a timed-out
attempt runs on beside its successor. `pass` is the probe pass, which lists rows the
rebuilt versions have no edge set for, begins a build, asks the plans and writes what
they answer. `fwd` is the forward walk's run: one walk per metadata, one after the other,
whose failures are collected. What a walk has of an id is in `fwd.hand` and moves in steps
of its own, as in the code: `WalkFetches` takes the listing's answers, `WalkBegins` is the
`BeginBuild` that comes after the page (and inserts a missing row, pg.go:618-633),
`WalkWrites` writes documents and edge sets, `WalkSettles` checks `change_seq` against the
walk's start and clears the mark that the begin captured, or leaves the id to
`WalkRemarks`. Changes, registrations, builds, the sweep's marks and the pass may come
between any two of them; `WalkMarks` is an id that fails, `WalkFails` a walk that fails
and marks what it has begun, or is lost with its process and marks nothing. `Listable` is what
`ListResources` returns: rows that are not tombstones.

Two history variables say where an older answer of a walk is nobody's fault but the
walk's. `exposed` has the ids whose row a build removed while a walk held an older answer
of them, and those a lost walk left with its older answer or with a row without one, until
they are registered again. `gone` has the ids a sweep's run must settle: listable and lost
to the probed plan when the run began, not fetched and unbegun in a walk's hands then, and
not exposed since.

The fifteen setups of `MCSourceAudit` are a schedule of sweeps, a change under one run,
versions that disagree, the pass with changes, with a failure, with a lost process and beside a walk that may
have inserted the row, forward walk and sweep together (plain, with changes, with a
failure, with a lost process), a walk lost while its resource goes and comes back, a walk
per actor one of which fails, a resource only the forward walk has heard of, and one that
a notified change reaches between two lost ones (`Rebuilt`).

### ReadAlias and Scan

A setup is a deployment history: `plan` is the sequence of configs rolled out one
after the other. Each instance has the config it runs with and the place its startup
has reached: `VerifyIndicesExist -> ReadAliasTarget -> MoveAlias -> serving`, with the
target it read possibly old when it moves the alias. It may crash and start again at
any step. Beside them run `gen-mapping` (with the current config,
any older one, or the next while that keeps the version read or lowers it), `cleanup` (with
the last) and `cutover-check`, gate by gate: alias state, target
index, coverage, document gap, stale backlog. Builds write every configured version's
index; an index that is missing is created by the write, without its mapping, and the
model says so (`made`). An older config may read a higher version than the one rolled out:
the cutover's, after its rollback. `decideAliasApply` (gen-mapping/main.go:112-113) takes
the alias forward to it without `-force`; `used.ahead` is that config from then until an
instance moves the alias again.

`Scan` adds one consumer. The first page pins the version the alias points to; every
page carries a token with the start time, the pinned version, the fingerprint of
request and config, and the last document seen, and may be asked of any serving
instance. A page's answer may be lost and asked for again, the point in time may
expire, and shards may fail.

### Pipeline

A plan is a chain of goroutines: the root fetch, one stage per denormalized relation
in `resolveOrder`, and the shaping stage. Channels are unbuffered: a send is one step
of sender and receiver together. A stage ends at an error, when the channel it reads
is closed, or when its context is done while nobody receives. `caller` is either
`executePlan`, which asks about ids, checks that each is answered once and cancels the
plan when it returns, or the page loop of a walk, which takes what the listing finds.
Plans not built from configuration may answer in several pages, twice or unasked.

### Search

`Ask -> (Refuse or Query)`, or `RefuseInvalid`: a request is validated, its nested paths derived, its
reference filters resolved by child searches and folded into terms, its paging
normalized; the backend builds clauses (a clause is the set of documents and nested
entries it matches) and cuts a page, in one query over all aliases
or in one leg per Type merged afterwards. `Cutover` may move an alias between the
steps. A Type already known to match nothing builds no filters and a scoped block without a
scope builds none of its own, so neither can refuse; a single Type that matches nothing is
answered before its window is looked at (`Refused`). What a request means is
defined a second time without clauses (`Wanted`), from the documents' data directly; the properties compare the two.

## 3. Properties and runs

| Run | Instance | Properties |
|---|---|---|
| `pool` | 2 clients, 1 worker, 1 closer, queue 2, high water 2 | `TypeOK`, `PendingCounts`, `DrainedMeansIdle`, `NoLostWakeup`, `ImplementsContract`, `ShutdownEnds` |
| `failures` | 1 versioned resource, 2 changes, 1 error, 1 crash, 1 lapse, 1 shed | `TypeOK`, `Converged`, `CleanRowIsServed`, `OwnedOnce`, `Settles` |
| `changes` | 5 setups: an unversioned resource at 2 Schema Versions with a forgotten delete and a lapse, the same with an error; Parent and child with 2 registrations at once; Parent and child with 2 workers; both settled, batches of 2, 1 lapse | `Converged`, `EdgesCoverDocs` |
| `lowered_number` | Parent and child, 2 registrations at once | `ConvergedAsDocumented` (violated) |
| `locks` | 3 resources, 3 Schema Versions; 3 or 4 calls at once in every mixture the setups name, from each stored state | `NoDeadlock`, `StatementsAtomic` |
| `walks` | 6 setups: 2 plans that find a root apart from one another; pages lost and resumed, with 1 error or with 2; a root that comes and goes under a lost and repeated attempt; given ids at 2 of 3 versions; a root repeated after a full chunk and one omitted by the second plan | `TypeOK`, `Backfilled`, `RegisteredKept`, `ServedHasRow`, `CursorSettled`, `EdgesCoverDocs`, `NoFlipAtOneSequence`, `CursorNeverLost` |
| `unserved_mark` | 1 root, 1 of 2 versions, 1 change | `ServedAsDocumented` (violated) |
| `audits` | 15 setups of 1 or 2 ids, 1 or 2 versions, pages of one, 2 attempts | `TypeOK`, `SweptIsSettled`, `CoveredIsAnswered`, `NoGhostRow`, `Repaired`, `LostDeletesGo` |
| `reads` | 9 deployment histories of up to 5 configs, 1 or 2 instances, 6 of them with a scan of up to 3 documents in pages of one | `SettledAlias`, `ServedComplete`, `ScanExact`, `AliasKept`, `ReadyIsAnswered` |
| `pipeline` | 8 setups: walks of 4 or 5 pages and by-id calls of 3 ids over 0 to 2 relation stages, up to 2 faults | `WalkInOrder`, `FinishedWalkIsWhole`, `AnswersHold`, `EverythingEnds` |
| `searches` | 3 Types, at most 2 pages asked, windows of 6, pages of 2 or 3 | `PageIsCut`, `CountsHold` |
| `reference_ceiling` | more children than the ceiling | `CeilingIsLoud` (violated) |

`Converged` is the property the design exists for: whenever nothing is under way
and no row is marked, every document is what a build run now would write. Each setup
enables another set of races; one with all of them is out of reach. `Backfilled` is its
counterpart for a rebuild: what the activity reports done, or failed and marked, ends as
the source says once the marks are served, and a version the rebuild did not ask still
serves what it finds, also where every asked plan found the root gone (`mayDelete`).
`RegisteredKept` is the half of it that holds
at any time. `OwnedOnce` says that a claim has exactly one live holder.

`NoDeadlock` covers both families of locks: edge sets are never part of a deadlock, and
statements over resources rows deadlock only when a row is inserted or removed under
them, which the code answers with `ErrRegistrationAborted`. `StatementsAtomic` is what
lets the other modules take `ReplaceEdges` and `RemoveResource` as single steps.

`SweptIsSettled` is stated at the cursor, so it also speaks of a run that is never
completed. It speaks of the ids whose row is listable when the run begins and when the
property is read, because the sweep reaches a document only through its row, and of those
no walk had fetched and not begun when the run began. Three cases fall outside.

- A walk fetched before the loss and begins after the sweep's `MarkStale`. The mark moves
  `stale_seq` and not `change_seq`, so the walk captures it, writes its older answer, finds
  no drift and clears it. The run has passed the id; the next one marks it again, which
  `LostDeletesGo` checks.
- A build that found nothing removes the row (`DeleteResourceIfSeq`) from under a document
  that a walk wrote meanwhile: the document without a row of ADR 0012, 193-198.
- A walk that finds a resource whose row is a tombstone writes its documents and clears
  the mark (`ClearStale`, pg.go:858, leaves `deleted` alone), after which neither the stale
  sweep nor `ListResources` (pg.go:1023) has it.

`Rebuilt` has the last two. They need a notified delete, and a walk that read before it or a
re-creation whose notification is lost; a later notification for the id repairs either.
`LostDeletesGo` is for that reason claimed of the schedules without notified changes.

ADR 0012 (199-201) names the ghost row: a walk whose page was fetched before a notified
delete begins after the delete's build has removed the row, inserts it again and leaves it
unmarked, with a document the source no longer has; the row is new, so the drift check finds
nothing. The model reaches it (`exposed`), and `NoGhostRow`, `CoveredIsAnswered` and
`Repaired` say that it is the only one: a delete registered while the row stands is found by
the drift check, and the probe pass, which begins existing rows only, brings none back.
`SweptIsSettled` holds of such a row, so the next sweep reaps it, as the ADR says. What a
walk lost with its process leaves is in `exposed` too, since such a walk checks nothing.

`CoveredIsAnswered` is what `cutover-check` rests on; `ReadyIsAnswered` is the
check's own promise. `Repaired` and `LostDeletesGo` are the purpose of the audits: what
was lost is found, and neither audit undoes the other's repair.

`ServedComplete` holds at every moment of a rollout, `SettledAlias` at its end: the alias is
where the rolled-out config has it, unless `gen-mapping` was run since with an older config
that reads a higher version. `AliasKept` rests on `classifyIndex` refusing the index that
`cleanup` read the alias to have; that no cutover comes between its read and its delete is
assumed (section 7).
`ScanExact` says that a scan is one snapshot. `FinishedWalkIsWhole` and `AnswersHold` say
that an error upstream is never mistaken for the end of the data. `PageIsCut` compares
every page with the ranking of what the request means, and with it the single query with
the fan-out.

Why the bounds are enough to be interesting: two clients and a worker that
cascades give every pair of racing submits; more add no new pair of operations on
the shared counters (and the proofs cover any number of clients, workers and
closers). In `Indexer` one lapse makes
two builds of a row overlap, two changes put one of them between the other's fetch
and finish, a third follows a delete and a recreate. One error or crash at any
step, in any order with the lapse and the shed, covers each error path of each
handler. The worker and the sweep are two actors, so one worker suffices for
overlapping builds; `Builds` adds a second to overlap a child's and a Parent's
inline builds. In `RebuildWalk` a page fetched ahead and one change give every
order of fetch, change, registration, live build and flush; a failed resource
whose mark fails too takes two errors, which `ResumedFailing` has; two plans are
enough for a root to be partial, repeated, contradicted or omitted. In `RowLocks` three
transactions give cycles of length two and three, and three versions or rows every
order of the locks they share. In `SourceAudit` pages of one put a cursor between any two
ids, and one failure with two attempts a retry at each of them. In `ReadAlias` two
instances, one of which may crash, give every order of two startups with the alias
that one of them saw; three documents let a scan's page fall before, between and after a
change. In `Pipeline` listings longer than the chain fill every channel, and a fault at
any call meets every state of the stages around it. In `Search` every cap is six, so that
pages, legs and references lie below, at and above it. Each bound is a
constant or a field of a setup that appears as a guard; a spent bound disables only the
event it counts.

Deadlock checking is on in every run but three: in `pipeline` every goroutine ends, and
in `searches` and `reference_ceiling` the pages asked for are bounded. `Indexer`,
`RebuildWalk` and `SourceAudit` may stop only in `Quiet`, `RowLocks` when every
transaction is over, and the pool's clients may always call again.

## 4. Fairness

- Pool: goroutines that can take a step do (the Go scheduler), and a running task
  returns (builds run under deadlines): strong fairness of `TaskReturns`, because
  cascades may interrupt it. Clients need not call and contexts need not end.
- Indexer: callers retry what they have not registered; a registration that began
  goes on; the sweep runs periodically; workers keep taking tasks; leases of
  owners that are gone and backoffs run out. Nothing is assumed of errors,
  crashes, sheds or lapses, which are bounded in number instead.
- SourceAudit: the schedule keeps starting sweeps, a marked row is built (the stale sweep, `Settles`), and Temporal keeps
  running the attempts of a run. Only a setup with a schedule (`runs = Forever`) is
  claimed anything of by `LostDeletesGo`.
- Pipeline: stages, the root and the caller take the steps they can (provider calls
  return, they have deadlines). A walk's context ends once the walk has returned (it is
  the activity's or the request's); nothing is assumed to end the context given to
  `executePlan`, which cancels its own.

## 5. Proofs

`BuildPoolProofs` proves, for every finite set of clients, workers and closers and
every `1 <= HighWater <= QueueCap` (`PoolAssumption`, which `New` enforces):

| Theorem | Statement |
|---|---|
| `TypeCorrect` | `Spec => []TypeOK` |
| `PendingExact` | `Spec => []PendingCounts` |
| `DrainSafe` | `Spec => []DrainedMeansIdle` |
| `WakeupsNotLost` | `Spec => []NoLostWakeup` |
| `PoolImplementsContract` | `Spec => ImplementsContract` |

None of the last four is inductive alone. The inductive invariant `IInv` is their
conjunction with four facts about program counters: a client inside `submitWait`
has `waits` set (`WaitersKnow`), a worker running or submitting is in `busy`
(`BusyHoldTasks`), a closer past its first step found or made the pool closed
(`ClosersClosed`), and `WakeupComes`, which extends `NoLostWakeup` to waiters that
go to sleep after a full queue refused them: they were refused because the queue
was at its capacity, so a worker must dequeue, and signal, before it can be below
the high-water mark. The drain argument: `pending` is exact, so a closer that
reads zero sees an empty queue, idle workers and no submit past its
`pending.Add(1)`; the pool is closed by then, so every later submit stops at its
second read of `closed`. The refinement maps `outstanding` to
`queued + Cardinality(busy)`; a send is `Accept`, a finish is `Finish`, reading
zero is `Drain`, and every other step leaves both alone.

### RowLocksProofs

For any number of calls at once, of any kind, over any resources, Schema Versions and
stored state. `LocksAssumption` says only what a call is: resources and versions are
ordered, and Build Sequences are drawn from 1.

| Theorem | Statement |
|---|---|
| `DeadlocksOnlyOverNewRows` | `Spec => []NoDeadlock` |
| `CommitsAreAtomic` | `Spec => StatementsAtomic` |

`LockInv` is the ordering argument: who holds an edge_sets row has only higher versions
of the same resource left (`EdgeLocksAscend`), who holds a resources row has only higher
rows left to lock, or is a transaction of edge sets with nothing left to take
(`RowLocksAscend`), and a statement that writes holds every row of its input that was
there and has not been removed (`InputLocked`). A cycle of waiting transactions has a
member whose held row is the highest of those waited for; it waits for a higher one,
unless it waits past its locking phase, and then for a row that is new or removed.
`CommitsAreAtomic` needs `SetsInv`: for each version a transaction has come to, what it
will commit is what one atomic guarded write would decide on the set *as it is now*,
although it decided on an older snapshot, because the lock it holds since has kept the
set as it was (`Decided`).

### ReadAliasProofs

For any number of instances, resources and Schema Versions and any sequence of configs
within the limits of the runbook, which `AliasAssumption` states: neighbouring configs
both configure the version either reads; a version that the last config no longer has is
read only from the beginning on; a version the plan goes back from, to a lower one, stays
configured from the config that read it to the one that went back and in the last; an alias
that was built by hand is in front of nothing that is dropped. The theorems are stated of `Scan`'s specification, the one the run checks.

| Theorem | Statement |
|---|---|
| `RolloutSettlesAlias` | `Spec => []SettledAlias` |
| `CutoversServeWholeIndices` | `Spec => []ServedComplete` |
| `AliasIsNeverLost` | `Spec => AliasKept` |
| `ReadyTargetIsWhole` | `Spec => ReadyIsAnswered` |

`AliasInv` says between the states the properties speak of what makes them true: at most
two neighbouring configs run and the alias is where one of them has it, or ahead (`Near`);
while it is ahead every instance that serves writes that version too (`AheadKnows`); a
`gen-mapping` run with another config moves the alias only forward and only with an older
one, and a `cleanup` that did not see the served index keeps it all the same
(`ToolKnows`); what a
`cutover-check` has found so far is still so (`CheckKnows`), because builds and
registrations only add edge sets to clean rows; an index of the last config is never made
by a document (`LastMade`); every index that is, is about to be or may come to be read
(`Held`, with `Lasting`: what some config read and every one since has) has its
mapping, an edge set per clean row (`HeldWhole`) and the answer for each of them
(`SetsAnswered`).

### IndexerProofs

For any finite set of resources, any Schema Versions, workers, registrations in flight and
bounds, and any source (`IndexerAssumption`, which says no more than the types of the
constants and that a row starts with no edge to itself).

| Theorem | Statement |
|---|---|
| `TypeInvariant` | `Spec => []TypeOK` |
| `WorkIsOwnedOnce` | `Spec => []OwnedOnce` |

The lemmas about `RowStore` say for each statement which of a row's numbers, mark and
owner it changes, and that the row stays well formed: a missing row has neither mark nor
owner, and a marked row a number. `OwnInv` adds to `TypeOK` and `OwnedOnce`:

- `Numbered`: every number a row carries has been drawn and is none of those that an open
  registration has drawn and not yet written, and two open registrations have drawn
  different ones. Without it a registration that commits late could put on a row a number
  that is already its owner's, and a finish would take the newer mark for its own;
- `HeldOnce`, while no lease has lapsed under a working owner: all work of a row (queued,
  claimed by a call, or under way in a task) is one piece, carries the row's own token,
  and the row's lease is live. That the lease is live is what keeps the sweep and other
  marks from claiming the row again;
- `Watched`, while nothing has crashed: an owned row's work is somewhere.

Both halves survive every error, refusal, failed release, superseded delete and
follow-up. One step per action, each reduced to one of four shapes by what it does to the
work of a row: stays, is released, moves from one place to another, or is new.

On top of `OwnInv`, for the same constants:

| Theorem | Statement |
|---|---|
| `CleanRowsAreServed` | `Spec => []CleanRowIsServed` |

`CleanRowIsServed` speaks of the moment a mark is gone; what makes it true is spread over
every build under way, the lapsed and superseded ones included. `ServeInv` adds to
`OwnInv`:

- `Heard`: no row, notification or call names a version the source has not reached, so
  what is fetched from now on is never older than a row;
- `Dated`: documents and tasks carry Build Sequences that have been drawn, a build's
  captured mark is a number that is no open registration's (from `Numbered`), and a task
  has data only under a Build Sequence drawn before it was fetched;
- `Serves(r)`, for each Schema Version. For each build that captured the mark the row has
  now (`ServedBy`): it has fetched nothing older than the row; whatever is older, in the
  document or in another task, has a lower Build Sequence; and the versions it has
  written are `Clear`. For a row without a mark: every version is `Clear`. A version is
  `Clear` when its document is not older than the row and every task that could still
  write something older has a Build Sequence below the document's, so that
  Elasticsearch refuses it.

A new mark is at a number that nobody has captured, so no build serves it yet; a build
begins above every number there is, which orders it after all older data; a write keeps
both halves of `Clear` by `external_gte`; a finish clears the mark only where its build
captured it, and by then has written every version; Elasticsearch forgets the version of a
deleted document only when no lower write is left.

### AuditProofs

For any sequence of setups, page size and number of attempts (`AuditAssumption`: a setup
is well-formed, with finitely many ids and versions, all resources of the type have
metadata or none has, and pages and attempts are at least one).

| Theorem | Statement |
|---|---|
| `AuditTypes` | `Spec => []TypeOK` |
| `SweepsMissNothing` | `Spec => []SweptIsSettled` |
| `NoRowComesBack` | `Spec => []NoGhostRow` |
| `PassAnswers` | `Spec => []CoveredIsAnswered` |

`SweptIsSettled` speaks of the recorded cursor; what makes it true is where every attempt
is, the timed-out ones included, and what every build under way is about to write.
`AuditInv` is `TypeOK` and:

- `Underway`: a run that is running has an attempt, a forward walk that walks has
  metadata left, and only such a walk has ids in hand;
- `Drawn`: every mark, captured mark and Build Sequence has been drawn from the sequence,
  so a new mark differs from the mark any build or walk captured;
- `Ordered` and `HandOrdered`, of every id: marks, builds and writes are numbered in the
  order they happened in. A build serves a mark below its own number, its row is there and
  is marked again only above that number; a row that is clean after a mark has every version
  written above it; the same of what the walk has begun; and of a build and a walk in work
  on one id the later captured the mark the earlier did, or one set since (`Turns`);
- `Swept`: each id of `gone` is still lost to the probed version, a walk that has fetched it
  and not begun it has a current answer (`Fresh`) and, unless its probe failed, it is
  `Ahead` or `Kept`. `Ahead`: it is listable, neither the
  recorded cursor nor any attempt's cursor has passed it, and an attempt with a page in
  hand has it among what it still probes or marks, or will list it on a later page
  (`Beyond`: the page was full and all before it). `Kept`: its row is marked, a tombstone, or its
  documents are ones the source has; and the build under way and the walk that has begun it,
  if there is one, either serve an older mark than the row's (`Guarded`, `HandGuarded`), so
  the mark survives them, or leave only documents the source has;
- `Buries`: of a resource that is gone, whose delete has been registered and which is not
  exposed, the row is marked, the build under way finds nothing or is `Guarded`, and a walk
  that has it in hand is going to find the drift.

`Kept` covers the build and the walk under way because a repair is sound only if what ends
later does not leave what was to be removed, and `Fresh` covers the walk that has yet to
begin, which would capture the sweep's mark. The step proofs are split accordingly. What a
step does to one id is one of a few effects (`Affects`: unchanged, marked, registered, one
of the five steps of a build, one of the six of a walk, ruled on by the pass); one lemma per
part of the invariant shows that each effect keeps it (`OrderedStep`, `HandOrderedStep`,
`FreshStep`, `KeptStep`, `BuriedStep`), the store lemmas that each action has one of the
effects, the sweep lemmas that an attempt's cursor only passes what
it has marked, found or failed to probe. `PageFacts` gives what a page is (a page that is
not full is the last; everything not on a full page lies beyond it) and rests on
`NthFacts`: the ranks of a finite set of n numbers are 1 to n.

`PassAnswers` needs a second invariant on top, `CoverInv`, because `CoveredIsAnswered`
speaks of unmarked rows without a build, and is lost unless marked rows, builds under way
and the page the pass has in hand are in order too:

- `Truthful`, of every id all of whose changes are registered and which is not exposed: its
  row has its metadata or none; what was decided above the row's mark, or stamped where there
  never was a mark, is what the source has, or an older answer of a walk that is going to mark
  the row again (`Late`); the build that serves the row's mark found all there is; and an
  older answer in a walk's hands is one whose change the drift check will find;
- `Ruled`, of the same ids: what the pass asked for, it asked with the resource's metadata, and
  what it excluded its version does not find, or the pass's number has no say any more
  (`Superseded`: the row is marked again or written above it). This
  is why the pass draws its number before the probe;
- `PassShape` and `Deciding`: what the pass has in hand by where it is, that an edge set is
  emptied only after its document was deleted, and that a pass none of whose calls failed
  has covered every row of its metadata it is past (`Covered`), or has it still to come
  (`Awaited`: after the cursor, beyond a full page, or on the page and not yet written).

The same effects carry it (`TruthfulStep`, `SupersededStep`,
`CoveredStep`); `IdsFacts` collects them, `StandCover` is every step that is not the pass's,
`PageCover` the steps that go on with a page. That resources of one type all have metadata or
none is needed: with both kinds in a type, `CoveredIsAnswered` fails after a forward walk, since a
build that began before a resource lost its metadata reports the old one into the row of the newer
registration, where nothing was given to keep (`Reported`).

### RebuildProofs and RebuildRootProofs

For any sequence of setups, chunk size and look-ahead (`RebuildAssumption`: a setup is
well-formed, with finitely many roots, children and Schema Versions, at least one of them
selected, batches that have no id in common, and at least one attempt).

| Theorem | Statement |
|---|---|
| `RebuildTypeOK` | `Spec => []TypeOK` |
| `RebuildCursorNeverLost` | `Spec => CursorNeverLost` |
| `RebuildNoFlip` | `Spec => NoFlipAtOneSequence` |
| `RebuildCursorSettled` | `Spec => []CursorSettled` |
| `RebuildServedHasRow` | `Spec => []ServedHasRow` |

Not even `TypeOK` is inductive: a resource's outstanding outcomes stay a natural number
only because each of them is counted once. `CoreInv` is `TypeOK` and:

- `WalkInv`, about the walk alone: what the loop and the flusher have in hand at each of
  their places (`Placed`), that a queued document was found by its plan (`Found`), that
  pages and batches are worked on in order and by their own plan (`Paged`), that nothing
  in hand is as old as what the rebuild started from (`AllNew`);
- `RootInv`, a ledger per resource. `Books`: the outcomes still to come, queued or not
  written, and not counted yet, are no more than the entry's `remaining`; and at the
  resource's own Build Sequence each document is what its plan answered. `Handled`: what
  the flusher works on is open, and what it completes has been written. `Begun`: an id
  of a batch is new when its batch begins, which is where disjoint batches are needed;
- `DrawnInv`: every number stored was drawn, and no live build shares a resource's number;
- `FreshInv`: a document above its first number was fetched since;
- `CursorInv`: `recorded <= latest`, and neither is beyond a page the loop has still to
  consume.

`RebuildNoFlip` follows from `Books` and `DrawnInv`: a document can only be written at the
number it has by the resource's own walk, and then says what that plan answered before.
`RebuildCursorNeverLost` follows from `CursorInv`: an attempt starts its beats from the
cursor recorded.

`RebuildCursorSettled` needs two more parts, for walks of one plan, the only ones that
resume. `HandInv`: a resource that is open is queued, in the chunk being flushed, or the
item the loop is at, so a flush that returns leaves nothing open. `PassedInv`: a root is
`SafeNow` (applied, gone, marked, announced, or in a live build's hands), or it is `NotYet`
passed: on no page before the cursor; and unless a mark was lost, not failed, open if its
page is completed, and open or still on a page in hand if its page was fetched. The
exception is why `afterFlush` checkpoints nothing once a mark was lost. The proof has two
halves. `SafeStep`: no step of anybody makes a safe root unsafe, because a mark only goes
when the documents are written. The step lemmas about `NotYet`: a page only leaves the
loop's hands with its roots open, and an open root is only released by being applied,
marked, or lost (`Releases`). Each action is composed of what its caller leaves and of
`fail`, so the parts take the walk and the entry as arguments, and `fail`'s lemmas are
stated once.

`RebuildServedHasRow`: a root with a document has a row, unless its change is not
registered yet or a live build removed it while the walk had an older answer in hand
(`exposed`). Rows go in two ways, and each relies on what the other actor did before: a
live build removes the row of a root it found gone, while the walk may write an older
page's document; the walk removes one when every version answered nil, while a live build
may be writing. `ServedInv` is `CoreInv` and `RowInv` of every root:

- `Numbered`, `MarkedSince`: marks are drawn from the same sequence as builds, so a root
  that was marked since the rebuild began it has a mark above the rebuild's number for it;
- `LiveAgrees`, `ComingAgrees`, `EntryAgrees`: while a root is not marked again, what its
  live build, the pages in hand and the rebuild's counted outcomes say of it is what the
  source has. Given ids are fetched after their entry is begun, listed roots only after the
  walk drew its `start`, so "not changed since" is the mark in one case and
  `changed[r] > w.start` in the other, as in `driftCheck`;
- `DriftSeen`: a root that changed before the drift check read is marked again, or is in
  what it has still to mark;
- `RemovesAll`, `NilSum`: a root is removed only by a rebuild of every version, each of
  which said nil: the nils counted and the outcomes outstanding add up to the versions
  selected;
- `GoneRow`: a root without a row has no document, and what its late live build has still
  to write is older than what the delete left.

A step does one of a few things to a row (`RowTo`: kept, marked or dropped) and to a
document, and the parts are shown for each. The proof is what corrected the
property: stated without exception, `ServedHasRow` is false. The walk fetches a root that
then goes; the delete is registered, and a live build that finds it gone draws its number;
the walk begins the root, at a higher number, writes the document it had fetched, and stops
before its drift check marks the row (a crash, or a failed flush whose mark was lost too);
the live build's delete has the lower number and leaves the document, and its row goes.
ADR 0012 (193-198) names documents whose row is gone as what the sweep cannot see, and the
setup `Crashing` of the run `walks` reaches this one. `ServedHasRow` therefore speaks of
rebuilds that lost nothing, and `RebuildServedHasRow` proves that it needs no other
exception.

### What is only model-checked

All liveness (`ShutdownEnds`, `Settles`, `LostDeletesGo`, `EverythingEnds`), which TLAPS
does not handle under fairness. `Converged` and `EdgesCoverDocs` of
`Indexer`, which need the history of the source and of every child's registration beside
that of the documents. Of `RebuildWalk`: `RegisteredKept`,
`EdgesCoverDocs` and `Backfilled`, which relate the rows and edge sets the walk and live
builds write by turns to the source's history. `Repaired` of `SourceAudit`, which relates the
ends of a forward walk and of a sweep to one another. `ScanExact`, whose token and cursor are sequences that the
page cut goes through by induction; `Pipeline` and `Search`, whose operators are folds
over sequences of pages and legs: what a recursive definition computes for every input
cannot be proved with the installed provers.

## 6. Where the code and its documentation part

`lowered_number`: `RegisterChanges` overwrites `change_seq` (pg.go:374). Two
registrations of a child without a row lock nothing, so the one with the lower
number can commit second and lower the column. A Parent build whose start lies
between the two numbers, which fetched before the newer change and stored its edge
after both second fanouts had read the edges, then passes its drift check, and its
document stays stale until the child changes again. ADR 0002 says of such a build
that it "sees the change and re-marks the Parent". `Converged` leaves such children
out through the `lowered` window, `ConvergedAsDocumented` does not.

`unserved_mark`: a rebuild that selects some of a type's Schema Versions clears the
mark of every resource whose selected documents landed (rebuild_flusher.go:473). If
that mark was set by a registered change whose own build has not run, because it
was shed or is still queued (`ClearStale` drops its ownership, so the queued task is
skipped at its renewal), the documents of the versions not selected keep the old
data and no mark is left. ADR 0008 (398-399) says "A stale mark must be cleared only
when the change that set it has actually been served". `RegisteredKept` therefore
speaks of the selected versions only.

`reference_ceiling`: a filter on a reference relation is resolved by a child search whose
keys become terms of the parent's query, and reference_search.go:180 refuses the request
when `childResp.Total > maxReferenceTerms`. The search's body sets no
`track_total_hits`, so Elasticsearch counts no further than 10 000, which is also the
ceiling: the comparison is never true, and the parents of the children beyond the first
10 000 are missing from the answer. The comment at reference_search.go:267-268 says
"exceeding it is a misconfiguration and fails loudly rather than silently truncating".

## 7. Not modelled, and the plan

What the modules leave out:

- `Indexer`, `RebuildWalk`: the numeric backoff (one SQL expression, pg.go:781), a batch
  of several ids as one `Build`, overlapping attempts of a rebuild, a row
  that is gone when the narrowing queries of a drift check run
  (rebuild_flusher.go:842).
- `SourceAudit`: scheduled runs are far enough apart for marks to be served between
  them; documents without a row and unmarked tombstones occur in it, and no property
  claims that an audit repairs them (section 3). The forward walk's inner rebuild is
  `RebuildWalk`'s; here the plans of one walk answer about an id at one instant and its
  documents and edge sets are written in one step, per id and not per chunk.
- `ReadAlias`: `cutover-check` is run after a rollout is complete (ADR 0010, step 4);
  deploys come one at a time and while no tool runs; neighbouring configs of a plan both
  configure the version that is read, and a version that was rolled back from stays
  configured. A migration that is abandoned after its cutover and then withdrawn is thus
  not covered: run with the cutover's config file, `gen-mapping` would move the alias to an
  index nobody writes any more. `cleanup` is run with the plan's last config.
  Between its reads and its deletes `cleanup` assumes that no instance starts with
  another config, and `gen-mapping` likewise; the runbook's order excludes it, the code
  does not. Builds and the backfill are single steps.
- `Scan`: one scan, without reference filters (their membership may shift during a scan,
  ADR 0015, deferral D9); the cluster's release only moves forward; that a token expires after `ScanMaxAge` is modelled, and no
  property is about the expiry itself.
- `Pipeline`: `rebuildAll` has no cancel of its own, so after a failed walk the stages
  above are released only when the context of the activity or request ends. A cycle of
  relations is refused by `verifyNoCyclesVersion` and `verifyFieldRelations`
  (core/resource/validations.go), so the plans checked have none.
- `Search`: text analysis is membership of a word and relevance a given number, the same
  for both executions; the index changes during a request only by a cutover; a Type
  named twice in one federated request and filters on unscoped nested blocks without a
  `NestedPath` are left out, as are totals above the cap, which are lower bounds.

Not modelled at all: generated code, mapping formatting, configuration loading and
validation, servers and commands beyond what `ReadAlias` uses. They keep no state that
two actors share.

What is left to do, in this order:

1. Proofs: `EdgesCoverDocs` of `Indexer`, on top of `ServeInv`; `RegisteredKept` and
   `EdgesCoverDocs` of `RebuildWalk`, on top of `ServedInv`; `Repaired` of
   `SourceAudit`, on top of `CoverInv`.
2. One `Build` over several ids with per-id failure; overlapping attempts in
   `RebuildWalk`.
3. The numeric backoff, as a function checked against its closed form.
