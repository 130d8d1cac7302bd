# Open Data Fusion: a verification project in TLA+

This directory models the parts of Open Data Fusion whose correctness depends on
the order in which several actors do things: transactions on PostgreSQL, worker
processes, a Redis stream, event streams to browsers, an edge agent, the embedded
SQLite plane with its files, people who review each other's requests, and a browser
whose answers arrive late. TLC checks the models on small instances, and
TLAPS proves the main results for every value of the constants.

Contents

1. The system and its components
2. The modules and the code they model
3. The runs: what they check, their bounds, what they show
4. Fairness
5. The proofs
6. Where the code and its documents disagree
7. What is not modelled, and why
8. The plan
9. How to run it

## 1. The system and its components

Open Data Fusion is an industrial data platform in TypeScript. An API (Fastify,
`src/apps/api`) serves two planes behind the same contracts: a local-first SQLite
plane, one process and synchronous statements, and a PostgreSQL plane with several
API replicas (`src/packages/postgres-runtime`, `src/apps/api/src/postgres-*.ts`,
the migrations in `src/infra/postgres`). Three more processes exist on the second:
the outbox worker, the pipeline worker and the edge agent. Almost all of the
concurrency is on the PostgreSQL plane; the SQLite plane has the interleavings that
an `await` between two statements makes, and kills between a file and its row.

```
 CSV / SQL / OPC UA                       browsers
        |                                  ^    |
   edge agent --- HTTP ingest ---+    SSE  |    | PUT, operations, members,
   (SQLite queue)                v         |    v reviews, executions
                             +---- API replicas ----+------ external executor
                             |  READ COMMITTED      ^
                             v  transactions        | XREAD
                        PostgreSQL             Redis stream
                          |     ^                   ^
             outbox rows  |     | runs              | XADD
                          v     v                   |
                 outbox worker  pipeline worker     |
                          +-------------------------+
```

How the components interact: every change that others must learn of writes an
`outbox_events` row in its own transaction; outbox workers copy these rows to one
Redis stream; every API replica reads that stream and hands the events to the
server-sent event streams it serves. The edge agent talks to the API over HTTP
with retries. The pipeline worker takes runs from a table. Nothing else is shared.

| Component | State | Operations | What is hard | What makes it correct |
| --- | --- | --- | --- | --- |
| Outbox and outbox worker | rows with lease, back-off, attempts; the Redis stream | commit of a row, claim, publish, mark, release, dead letter, requeue | stalls past the lease, crash between XADD and mark, lost replies, rows that become visible out of order | nothing is lost; no event overtakes its predecessor; a copy more needs a fault; progress |
| Workspace membership | members, row locks, an advisory lock, audit, events | add, change, remove a member | two owners demote each other; lock order; deduplicated events | an owner stays; audit and events tell the membership; every request ends |
| Workspace document | version, snapshot, revisions, events | save, operations, rollback | snapshots read before the write transaction; waiting UPDATEs | no lost update; linear, append-only history; one event per version, in order |
| Event fan-out | cursor, seen ids, subscriptions, frame queues | read, deduplicate, subscribe, check membership, write, disconnect | duplicates, reordering, revocation between check and subscription | nothing later than a revocation is written; order per connection; members catch up |
| Bundle ingest and raw landing | landing, run, points, hierarchy | archive, ingest, close, fail | retries and late requests, lost COMMIT replies, deadlocks, write skew | an answer means stored evidence; a run id is entered once, whole; no cycle |
| Edge agent, CSV source | file, checkpoint, queue, archive, requests | poll, archive, enqueue, claim, send, time out, release, restart | crash between two stores, file changes, late requests | rows are collected once; batches are accepted once and at last |
| Edge agent, PostgreSQL and OPC UA sources | checkpoints of a column and of nodes | query, read, check, queue | what a stored checkpoint loses, clocks that go back, rows committed late | nothing is collected twice or passed unseen |
| Pipeline runs and worker | runs, events, locks, jobs, scopes | create, claim, execute, finish, cancel, shutdown | concurrent claims, cancel against finish, grace period, round robin | one worker per run; one terminal state; no starvation |
| Write-back | requests, reviews, events, acts | file, review, begin, call, finish, record | reviews and executions that race, crash after the act | four eyes; at most one act; the trail tells what happened |
| SQLite ingest, relations, raw landing, replay | files, landing rows, runs, points, hierarchy, relations, search catalog | land, ingest, complete, review, replay | torn files, kills between file and row, retries, a review against an ingest of the same relation | what is accepted is backed by a file and a run; decisions are final; no cycle |
| SQLite governed objects | files, versions, search document | upload, version, download | no transaction spans a file and its row | a version names a whole file; readers get what was uploaded |
| SQLite workspaces, canvas operations | snapshot, revisions, members, audit ledger, event streams | save, operations, rollback, members, subscribe | rights checked before an await; dependent operations in one batch | the ledger tells versions and members; streams follow it |
| SQLite write-back | request, reviews, policy of the process | file, review, begin, complete, restart | a restart with another policy between review and execution | at most one act, covered by reviews |
| SQLite catalog and search | resources, search index, full-text mirror, runs, members | create, trigger, review, search, rebuild | failing mirror statements, assets indexed after their commit | search is exact; one answer per key; an owner stays |
| Governed objects and object storage (PostgreSQL) | blobs, versions, times | upload, put, commit, download | bytes stored before the transaction; lost replies; time order | a version names stored bytes; the refused were overtaken |
| Model graph repository | model versions, views, instances, batch keys | publish, upsert | publication and batches that race for an instance | an instance stays with its model; a batch is entered once |
| Administration, tenant provisioning | statuses, roles, ledger | bootstrap, create, change, add, remove | two managers, serializable bootstrap, deduplicated events | an owner stays; the ledger tells the state |
| Compatibility catalog | keyed rows, versions, runs, decisions | create, append, trigger, decide, retry | lost replies, triggers that twin two tables | an answer is stored and the client's own |
| Paging | cursors, offsets | next page, count | rows added, moved or removed between two pages; times cut to milliseconds | what stayed is missed or repeated only where a cursor cut a time; by number, a client lacks no more than was changed |
| Transactions, pool, schema attestation, discovery | connections, identities, schema version | connect, begin, configure, work, commit, release | every statement may fail, roles change meanwhile | nothing carries over on a connection |
| Cutover | source, bundle, target, audit sequence | preflight, re-read, import, apply | late writers, retries, a second operator | one whole source; the next id is free |
| Web lists, forms and row actions | rows, cursor, flags, form, requests under way | load, more, create, review, execute, replay, retry | no request but the first carries an abort signal; two projects use the same ids | rows of the project shown, none missed; nothing waits for ever; text is kept |
| Web shell: tenant, project, address, explorer | context, history, discoveries, what is shown | discover, choose, navigate, back, retry, open | answers overtake choices, history and retries | choice, list, address and what is shown agree |
| Web canvas | widgets, connectors, comments, undo, history, clipboard, drag, the browser's storage | every tool, drag, undo, restore, save, reset | keys, late files and timers in the middle of a drag | a change can be undone; no end dangles; "Saved" is stored |
| platform-core algorithms | none | order of steps, merge, matching, quality | cycles, ties | agreement with a definition |
| Authentication, contracts, observability, ingest dialogs, deployment | see section 7 | | | |

## 2. The modules and the code they model

Each component has one module (state, `Init`, one action per statement, handler or
step, `Next`, `Spec`). The first eight in the table also have a `...Proofs` module and, but
for `WorkspaceDocument`, a passing run of their own, which `WorkspaceMembers` and `WriteBack` share
(`MCMembersWriteBack`: a behaviour is one of either). Where the values TLC uses are more than model
values, an `MC` module has them (`PipelineRuns` its two itself).
The other sixteen are composed in four modules of four that share no state: `Governance`
(write-back in SQLite, transactions, administration, cutover), `DataPlane` (SQLite ingest, both object
stores, model graph), `CatalogPlane` (SQLite catalog, compatibility catalog, paging, edge connectors) and `WebPlane`
(SQLite workspace, web lists, web shell, canvas editor: what people work with in a browser).
`MCPlatform` checks these with the document (section 3); the
theorems about `GovernanceSpec`, `DataSpec` and `CatalogPlaneSpec` stand in `WorkspaceMembersProofs`,
`IngestProofs` and `PipelineRunsProofs`, next to those about the component of the first group that has
the same subject or the same lemmas; those about `WebSpec` are divided between `WorkspaceDocumentProofs` (SQLite workspace, canvas
editor) and `EventFanoutProofs` (lists, shell), which share the work of checking them (section 5). Nine components have an abstract specification beside
them, and are shown to implement it.

| Module | Code | Abstract specification |
| --- | --- | --- |
| `Outbox` | `apps/outbox-worker/src/{outbox,postgres,redis,recovery-cli}.ts`, migrations 001, 003 | `OrderedFeed` |
| `WorkspaceMembers` | `packages/postgres-runtime/src/workspace-repository.ts`, migrations 002, 010 | |
| `WorkspaceDocument` | the same repository, `apps/api/src/postgres-workspace-persistence.ts`, `app.ts` | `VersionedDocument` |
| `EventFanout` | `apps/api/src/{shared-event-delivery,collaboration,app}.ts` | |
| `Ingest` | `apps/api/src/{app,postgres-industrial-persistence,postgres-raw-landing}.ts`, migration 011 | `IngestLedger` |
| `EdgeAgent` | `apps/edge-agent/src/{runner,queue,delivery,archive,connectors/csv}.ts` | `StoreAndForward` |
| `PipelineRuns` | `apps/pipeline-worker/src/worker.ts`, `packages/postgres-runtime/src/{queue,pipeline-quality}-repository.ts` | |
| `WriteBack` | `apps/api/src/postgres-platform-compatibility{,-routes}.ts`, migration 014, `packages/platform-core/src/writeback.ts` | `DualControl` |
| `LocalIngest` | `apps/api/src/{sqlite-industrial-persistence,raw-landing,app}.ts` | `IngestLedger` |
| `LocalObjects` | `apps/api/src/object-{store,routes}.ts` | `ObjectArchive` |
| `LocalWorkspace` | `apps/api/src/{database,collaboration,app}.ts` | |
| `LocalWriteBack` | `apps/api/src/advanced-platform{,-routes}.ts`, `packages/platform-core/src/writeback.ts` | |
| `LocalCatalog` | `apps/api/src/{platform,advanced-platform,app}.ts` | |
| `GovernedObjects` | `apps/api/src/{postgres-governed-object-store,object-storage,object-routes}.ts`, migration 011 | `ObjectArchive` |
| `ModelGraph` | `packages/postgres-runtime/src/model-{repository,instance-helpers}.ts`, migration 015 | `IngestLedger` |
| `Administration` | `packages/postgres-runtime/src/administration-repository.ts`, `apps/api/src/{platform-administration,tenant-provision}.ts`, migrations 005, 007, 012 | |
| `Catalog` | `apps/api/src/postgres-platform-{compatibility,data}.ts`, `packages/postgres-runtime/src/{catalog,pipeline-quality,advanced-platform}-repository.ts`, migrations 013, 014, 016 | |
| `Paging` | every `list...` of both planes, `platform-support.ts`, `platform-mappers.ts`, `model-query-sql.ts` | |
| `Transactions` | `packages/postgres-runtime/src/{runtime,pool,types,postgres-project-access-resolver}.ts`, `apps/api/src/{server,platform-discovery}.ts`, migrations 003, 008, 009 | |
| `Cutover` | `apps/api/src/cutover-{preflight,import}{,-cli}.ts`, migration 004 | |
| `EdgeConnectors` | `apps/edge-agent/src/connectors/{postgres,opcua}.ts`, `mapping.ts`, `runner.ts` | |
| `WebPanels` | `apps/web/src/components/{PlatformWorkspaces,AdvancedPlatformWorkspaces,SectionWorkspaces,DataExplorerWorkspace,ProjectOverviewWorkspace,Topbar}.tsx`, `App.tsx` | |
| `WebShell` | `apps/web/src/{App.tsx,lib/appRoute.ts,lib/api.ts}`, `components/ProjectSwitcher.tsx` | |
| `CanvasEditor` | `apps/web/src/components/{CanvasWorkspace,IndustrialCanvas*}.tsx`, `industrialCanvas.ts` | |

`PROJECT.json` ("map") gives the source lines of every definition; together they are about 13 500 lines, a third of the
TypeScript of the repository.

Conventions that hold in all of them:

- A READ COMMITTED transaction is several actions, one per statement that reads or
  waits; each sees what is committed when it runs, and a statement that waits for a
  lock is the action that gets the lock. What a transaction writes becomes visible in
  the action that commits it. Statements whose effect nobody can see before the
  COMMIT and that hold no lock anybody else asks for are part of that action.
- Time is not modelled: a lease may run out, a back-off elapse and a request time out
  at any moment at which it is pending.
- A `...Unheard` action is a call that takes effect and whose reply is lost; a
  `...Fails` action is one that takes no effect. Both, and crashes, spend one unit of
  `MaxFaults`.
- Hashes are the data they are taken of, UUIDs are model values or numbers, and the
  contents of a snapshot, a row or a bundle are small sets of model values.
- A definition called a variant in its comment (`SettledAnyway`, `ClaimablePastDeferred`,
  ...) is not used by the specification. It is the code with one plausible mistake, and
  putting it in place of the definition after it makes TLC report the property that
  `PROJECT.json` names for it: this is how each property was tried.

### Outbox

An event is a number, its place in the order `(occurred_at, event_id)` of the claim
query. `Commit` makes a row visible; for aggregates in `Serialized` this happens in
that order, for others in any. `Claim` is the single UPDATE of `claim` in
`postgres.ts` with its predecessor test, LIMIT and lease; `Publish`, `Mark` and
`Settle` are the three calls `runOnce` makes per event, with what they do when the
lease has gone to someone else (`MarkRefused`, `SettleRefused`), and `Requeue` is
the recovery CLI. Which aggregates are serialised is not assumed silently: an
aggregate is when every writer starts its transaction after the one before it has
committed, and `WorkspaceDocument` proves that of workspace saves
(`StartsAfterPredecessor`). Membership changes do not have this property.

### WorkspaceMembers

One transaction is `Authorize` (the separate permission check), `CheckOwner`, `ReadBefore`, `LockRow`
(INSERT ... ON CONFLICT, or DELETE), `LockOwners` and `CountOwners` (the trigger of
migration 002: an advisory lock, then a count with a fresh snapshot), `Commit`. The
key that deduplicates `members.updated` is the member and the correlation id;
`ReuseCorrelation` says whether a client may send the same id twice.

### WorkspaceDocument

A client loads a version (`Load`), the server checks the member and reads the current
row and, for a rollback, the target, in transactions of their own, applies the
change to what it read, and starts the write transaction (`Begin`, `StartUpdate`,
`LockRow`, `NoRow`, `Commit`). A snapshot is the set of edits it contains, which is
what tells a lost update from a kept one. `ChangeAccess` lets memberships change
at any time.

### EventFanout

`Save`, `Change` and `Publish` are the environment: committed changes, and the
outbox's stream with its duplicates and, across transactions, any order. Module
`Outbox` justifies that environment: what it proves of the stream (nothing missing but
what is not yet published, copies only after faults) is what `Publish` may do.
`Read`, `TimeOut` and `Consume` are the read loop, `Receive` the hub. A connection
goes through `Request` (first membership check), `Subscribe`, then per frame `Check` (the
membership query) and `Write`, which are two steps because the code awaits
between them; `Leave`, `HangUp`, `Close` end it. `dispatched`, `missed`, `since` and
`written` are history variables that no action reads.

### Ingest

A request is `Find` and `Land` (raw landing, with its advisory lock), `Begin` (the
advisory lock of the run and the row found under it), `Take` (row locks, in the bundle's order), `CheckTree`,
`Commit`, then `Accept`; on an error `Record` and `Reject`. `Mismatch` is
a point that contradicts a stored one, `GiveUp` what ends a wait (deadlock detection, lock or
statement time-out). A bundle is its run id, the parents it states and the points
it carries; everything else it writes is an upsert of the same transaction.

### EdgeAgent

The poll loop (`PollStart`, `ReadRow`, `ReadEnd`, `Archive`, `Enqueue`) and the
delivery loop (`Claim`, `Post`, `Timeout`, `MarkSent`, `Release`) interleave at their
awaits; the file's owner appends, rewrites, truncates and replaces; the
endpoint answers late, refuses or completes a run and is not heard. The hash of a file
prefix is the prefix itself. `line` holds the order of `available_at`.

### PipelineRuns

A claim locks queued rows (`Claim`, with SKIP LOCKED) and commits later (`Commit`), a
transition names the state it expects. `visit` and `offset` are the round robin over
scopes, `job` the bounded execution loops, `Stop`, `Abort` and `Stopped` the
shutdown with its grace period. The number of a run is the place of its identifier, a
random UUID, in the order of the claim; runs are created in any order, so there is no
first-in first-out order to check.

### WriteBack

`Create`, then per review `StartReview` (the row is read), `CheckPending` (the trigger),
`Insert` (the unique review), `Count` (what the transaction sees), `Settle` (UPDATE,
event, COMMIT); per execution `StartExecution`, `BeginExecution` or `RecordUnavailable`, `Call`,
`Finish`. Two merges of statements are worth an argument. The UPDATE is joined with the
COMMIT because it holds the row until then and nobody reads uncommitted rows.
`normalizePolicy` refuses a policy that asks for fewer approvals than the trigger does, so
the trigger refuses nothing `Count` has not refused.

### LocalIngest, LocalObjects, LocalWorkspace, LocalWriteBack, LocalCatalog

The SQLite plane is one process whose statements are synchronous, so an action is
everything between two awaits: a whole BEGIN IMMEDIATE transaction, and the reads and
writes beside it that no await separates from it. What interleaves is requests at their awaits.
In `LocalIngest` these are the calls on the archive file (`Open`, `Write`, `Compare`) before
the row (`Land`, which runs on to the answer); in `LocalObjects` the stream, the rename and the removal of files; in
`LocalWorkspace` the checks of rights (`Authorise`) before the synchronous operation, and the
membership check of a stream before each frame. `Kill...` ends the process between two of them, which may
leave a file torn. In `LocalWriteBack` the reviews are part of the trail, `Restart` brings another policy or takes the
executor away, and the route awaits the executor between `Begin` and `Complete`. In `LocalCatalog`
the full-text table is a mirror whose every statement may fail and switch it off (`fts`);
`held` is what the roles were when the handler checked them, before its await.

### GovernedObjects, ModelGraph, Administration, Catalog

These are transactions on PostgreSQL, like those of the first modules. `GovernedObjects` has the
put before the transaction, the advisory lock after `now()` is fixed, and the trigger that refuses a time that goes back.
`ModelGraph` separates the check of the instances (`Check`) from the upsert (`Write`), whose WHERE alone is atomic; it is mapped to the
ledger of `Ingest`, a batch being entered under its idempotency key. `Administration` has the SQL functions
of migration 012 with their owner triggers, and the serializable bootstrap of migration 007 (`Provision...`).
`Catalog` has the create, find, append and trigger methods by the way they treat a repeated key; a request may be asked again whether or not it was answered.

### Paging, Transactions, Cutover

A listing of `Paging` is an order, how a page goes on from the last one, and what other clients may do to the table; `Collections` names
every one the API has. By cursor (`FetchPage`), the listing says to what grain the cursor keeps a time. By number (`FetchOffset`), it says
whether the rows are counted in the statement that reads the page, or synchronously with it, or in a statement of its own after which others may commit
(`CountRows`: audit entries and revisions on PostgreSQL); the client is that of the web application (`loadMoreAssets` of `App.tsx`, `loadMore` of
`SectionWorkspaces.tsx`; it pages assets and audit entries, and revisions are taken to be read in the same way): it skips as many rows as it has,
drops those it has already (`Fresh`) and asks for more while it has fewer than the answer says there are. Nothing that is listed by number is ever deleted
(`PagingAssumption`). A statement answers with any list that `InOrder` allows, which is one list when no two rows are
equal, so that no sorting has to be defined. `Transactions` has `withTransaction` from `connect` to `release`, every call of which may
fail or go unheard, and requests that resolve the role first and work later; the schema may lack a
migration when the process starts. `Cutover` has the preflight and the import with its second read, the lock, the counts and digests; a
bundle is the number of writes it contains.

### WebPanels, WebShell, CanvasEditor

The browser is one thread: an action is one event handler, or the continuation of one after an
`await`, with the state changes it makes and the effects they set off; React applies the changes of one
handler together and runs the effects before the next event. What interleaves is the answers.
In `WebPanels` a panel is a row of a table: what its effect does when the project changes (`Load`), and for each request
what it does with the answer and whether it first compares the project (`Handler(does, guarded)`). `Init` chooses one panel, and
the actions are what a user can do with it (`Switch`, `LoadMore`, `Type`, `Act`, `Reload`), the server's answer
(`Serve`, `Refuse`) and its arrival (`Deliver`), in any order. An effect's
requests are aborted by the next effect, so that they are not answered; the others are. `WebShell` keeps the tab's history, discovery and the requests for projects,
assets, workspace and snapshot, each with the signal it carries or does not. In
`CanvasEditor` the canvas is a function of widget ids, `gesture` holds the canvas from which a drag works, `late` is
the files being read and questions asked, and `timer` the 420 ms after which the canvas is saved.
A drag captures the pointer, so that only keys, timers, the wheel and late answers come in between (`Key`, `Pointer`).

### EdgeConnectors

`EdgeAgent` has the queue and its delivery; this module has what a poll of the other two sources asks for and accepts.
A checkpoint column is told by what the agent stores of each value and by the rank in which
it compares what is stored, while the database orders the values themselves (`Column`); the initial checkpoint of the configuration is taken to be below every
value. `Query`, `Accept` and `Enqueue` are separated by awaits; rows are committed and device values
change in between, and a poll that throws leaves the checkpoint alone (`Over`).

## 3. The runs: what they check, their bounds, what they show

Seven runs pass (one of them for seventeen components); five show a disagreement (section 6). `CHECK_DEADLOCK` is off in all of
them because each system may come to rest: there are finitely many events, edits,
requests or sends, and when they are used up and served nothing has to happen. That
nobody waits for ever is what the liveness properties say.

| Run | Instance | Distinct states | Properties |
| --- | --- | --- | --- |
| `outbox` | 3 events (two serialised, one not), 2 workers, batches of 2, 2 attempts, 2 faults | 48 239 | `DuplicatesNeedFaults`, `ImplementsOrderedFeed`, `EventuallyPublishedOrDeadLettered` |
| `members` | 3 users, 2 connections, 3 requests with distinct correlation ids; or 1 write-back request (low or high risk, the default policy), 3 people, 2 handlers, 1 attempt without executor, 1 fault | 306 806 (181 586; 125 220) | `AtLeastOneOwner`, `EventsTellMembership`, `EveryRequestEnds`; `TrailTellsState`, `ImplementsDualControl` |
| `platform` | one component per behaviour, see below | 1 125 299 | `WellTyped` and one property or more of each component, see below |
| `fanout` | 1 instance, 2 connections of one member, a memory of 1 id, 2 events, 1 fault | 167 839 | `NoPayloadAfterRevocation`, `DeliveredAsDispatched`, `RevocationCloses`, `MembersCatchUp` |
| `ingest` | 2 clients, 4 bundles with 3 run ids, 2 assets, 2 points, 3 sends, 2 faults | 80 451 | `AnsweredIsStored`, `ImplementsIngestLedger`, `EveryRequestEnds` |
| `edge` | files of 2 rows with 2 contents, 3 edits, batches of 2, 2 faults | 258 303 | `CheckpointMatchesQueue`, `ImplementsStoreAndForward`, `EveryBatchSent` |
| `pipeline` | 2 workers, 2 runs in the second of 2 scopes, 1 scope per cycle, 1 execution loop, 1 shutdown, 1 fault | 75 096 | `ClaimedOnce`, `EventsTellState`, `NoScopeStarves`, `EveryRunEnds` |

What each shows, and why its bounds are enough to show it:

- **outbox.** With stalls past the lease, crashes, lost replies and operator requeues,
  the first copies of a serialised aggregate's events stand on the stream in their durable order,
  every extra copy was paid for with a fault, and every committed event is published or
  sits behind a dead letter once the faults are over. Two events of one aggregate are what an overtaking needs, the third
  makes a batch with mixed aggregates; two workers are what a stolen lease needs; two faults let an event become a
  dead letter (two attempts) or let one worker stall while the other one's reply is lost.
- **members.** In every interleaving of the statements of two transactions the workspace
  keeps an owner, events name the current role of everybody, and no order of
  row locks and the advisory lock makes a transaction wait for ever. The shortest way
  to a workspace without an owner is: promote a second owner, then let both go at once,
  which is three requests on two connections.
- **platform, document.** A save, a batch of operations or a rollback yields its predecessor plus its own
  edit, or exactly the revision it names, whatever committed between its reads and its
  write. Three versions are enough for a rollback to a version that was not the first and for a
  session to be two versions behind.
- **members, write-back.** See `DualControl`: no own review, one review per person, a rejection
  settles an open request, nothing begins without enough approvals, at most one act on the plant. The
  event trail alone tells the state, although reviews that race may record a result that never came about.
  Three users are the author and the two reviewers high risk needs.
- **fanout.** Nothing that was committed when its user was no longer a member is written to
  an event stream, except the removal itself; a stream's frames are those its instance
  dispatched since the subscription, in that order; a removed member's streams end, also when the removal falls between
  the check and the subscription; and what the reader has ahead of it reaches every stream that stays open.
  A removal and one change before or after it are the two events; two connections of one member show that
  one removal ends both. With one id of memory a duplicate already has room to come back, and an instance dispatches an
  event again only when it has forgotten it (the first conjunct of `DeliveredAsDispatched`).
- **ingest.** Retries, late attempts and lost replies of one run id make one entry; a
  sender that was answered finds its points stored; a point that contradicts a stored one
  leaves nothing behind; bundles that lock the same rows in opposite orders end. The four bundles
  are chosen for those cases (comment in `MCIngest`), and three sends are one request, its retry, and a rival.
- **edge.** The batches partition the processed prefix of the file through
  crashes, truncation, rewriting and replacement; the endpoint completes a batch once; every batch is sent
  at last. Three edits make two rows and then a change under a running poll. Two faults are a lost
  answer and a crash.
- **pipeline.** Two concurrent claims never take the same run, cancel and finish never overwrite one
  another, a shutdown leaves nothing `running`, and runs in a scope that the first cycle does not
  visit are claimed. Two runs with one loop make a run that waits inside its worker while the grace
  period ends.
- **outbox_overlap, members_reused_id, ingest_hierarchy, writeback_race, paging_times** each check one property
  that a document, comment or check of the repository states and that the code does not keep.

### The run `platform`

`MCPlatform` lets each behaviour be a behaviour of one of seventeen components, named by `part` and, within a
group, by `governancePart`, `dataPart`, `catalogPart` or `webPart`; the others rest: the document in an
initial state, the rest with variables at a value of no meaning. The components share no state, so that their product would only
multiply their states: every interleaving of the product projects to these behaviours, and every
property is about one component. Each component of a group has variables of its own, to which its
`INSTANCE ... WITH` maps those it declares; the document is extended. `WellTyped` is the type invariant of whichever component runs. The properties combine what their module states:

| part | Instance | Distinct states | Property | of |
| --- | --- | --- | --- | --- |
| `document` | 2 sessions of a user whose access changes, 2 edits, versions up to 3 | 217 404 | `ImplementsVersionedDocument` | refinement of `VersionedDocument` |
| `ingest` | 2 clients, 5 bundles of 3 run ids, 2 assets, 1 point, 2 relations, a replay, 3 sends, 1 kill | 13 593 | `IngestKeepsEvidence` | `HierarchyIsForest`, `AcceptedIsBacked`, `KeepsDecisions`, refinement of `IngestLedger` |
| `objects` | 3 uploads of 2 objects, a reader, 2 faults | 10 912 | `FilesFollowRows` | `FilesMatchRows`, refinement of `ObjectArchive` |
| `canvas` | 2 sessions, 2 users who own, join and leave, 3 batches, a stream, 2 changes | 215 776 | `CanvasFollowsLedger` | `LedgerTellsWorkspace`, `StreamsFollowLedger`, `KeepsEdits` |
| `reviews` | 1 request, 3 people, policies of 0 to 2 approvals, 2 restarts | 5 916 | `ActsFollowReviews` | `ActsAreCovered`, `ReviewsSettle` |
| `registry` | a source, a rule, a pipeline, a candidate, 2 model versions, an asset, 2 users, 4 steps | 24 632 | `RegistryAnswersOnce` | `SearchIsExact`, `OneAnswer`, `OwnerRemains` |
| `store` | 3 uploads of 2 objects, a reader, 1 fault | 58 695 | `StoredIsBacked` | `VersionsAreBacked`, `RefusedWereOvertaken`, refinement of `ObjectArchive` |
| `graph` | 2 clients, 2 versions, 2 views, 4 instances, 5 batches of 3 keys, 1 fault | 18 058 | `GraphStaysBound` | `InstancesAreBound`, `KeepsModels`, refinement of `IngestLedger` |
| `admin` | 2 handlers, 2 users, a tenant, 2 projects, 2 bootstraps, 4 changes | 30 117 | `AdministrationIsLedgered` | `OwnersRemain`, `LedgerTellsAdministration`, `UnchangedMeansApplied` |
| `catalog` | 2 handlers, 6 workloads, 3 effects, 1 fault | 7 322 | `CatalogAnswersOnce` | `AnswersAgree`, `RecordedOnce`, `VersionsAreTwinned` |
| `pages` | 12 kinds of listing, 3 rows, 3 keys, pages of 1 and 2, 2 changes | 132 576 | `PagingStraysAtCutsOnly`, `OffsetsComplete` | `CursorsStrayAtCutsOnly`, `OffsetsStrayByChanges` |
| `sessions` | 3 requests on 1 connection, 1 change, 1 fault | 57 199 | `SessionsAreScoped` | `NothingCarriesOver`, `RoleWasHeld`, `ServesWhatIsThere` |
| `import` | 1 source, 2 invocations, 1 late write, 1 fault | 15 186 | `CutoverIsExact` | `TargetHoldsOneSource`, `NextIdIsFree`, `RehearsalsLeaveNoTrace` |
| `panels` | one panel of any workspace, 2 projects with the same ids, 3 acts, 1 failure | 33 807 | `PagesKeepToProject` | `ShowsItsProject`, `ShowsAllItPassed`, `WaitsForSomething`, `KeyedFormsKeepText` |
| `shell` | 2 tenants with 2 and 1 projects, 2 assets, 3 addresses, 3 acts, 1 failure | 98 427 | `PagesKeepToProject` | `ContextIsListed`, `ShownForContext`, `AddressAgrees`, `AssetAgrees` |
| `editor` | 2 joined widgets stored, room for a third and a comment, 2 changes, 1 pick, 1 save, a history of 2 | 92 887 | `CanvasKeepsWork` | `EndsAreThere`, `SavedIsStored`, `ChangesCanBeUndone` |
| `polls` | 3 columns, 3 keys, batches of 2, 2 nodes, 4 values, 2 changes, 1 fault | 92 792 | `PollsCollectOnce` | `RowsAreCollectedOnce`, `PassedRowsAreKnown`, `TimesGoUp` |

The bounds follow the hazards. Two clients are what a race for one key needs and a third send its
retry; one fault is the kill or the lost reply after which the retry comes (`objects` has two, because a
failing removal needs a failing insert before it). Two restarts let a policy go down and up again. The bundles, batches, workloads and requests in
`MCPlatform` are chosen to contradict one another: the same key with another input, a parent both ways, a
node that becomes an edge. In the browser three acts are a request, a change of project, and a second request or the way back; rows of one
project have ids of the other, so that a row in the wrong list is seen. In the editor two changes are a drag and what comes in its middle; the three columns are
one read as it is, one cut below its precision and one the agent orders otherwise. One connection is enough for what one request leaves to the next. Three keys, of which two are one millisecond, are what
a row at a cut, one beside it and one beyond it need; a client may be given 6 rows of 3, which is every row twice. All of `Collections` of
`Paging` is among the kinds explored (`EveryListingIsChecked`, an assumption that TLC checks). `ClientSymmetry` is a symmetry of the document's
clients only, which no other component has.

What the parts show beyond the table's words: the SQLite ingest and the model graph enter a key once and whole although each does it in its own way, and
both object stores are one archive although one removes what it could not name and the other must not; a listing by cursor strays
among the rows of the millisecond at which a cursor was cut and nowhere else: downwards it misses some, upwards it repeats some, and never the other way round
(section 6). By number, a client is never past more rows it lacks than were changed since it began, and it takes as many
changes as a page has rows for a page to bring nothing new.

The abstract specifications are properties of the runs (`ImplementsOrderedFeed`,
`ImplementsVersionedDocument`, `ImplementsIngestLedger`, `ImplementsStoreAndForward`,
`ImplementsDualControl`, and within `IngestKeepsEvidence`, `FilesFollowRows`, `StoredIsBacked` and
`GraphStaysBound`). They say in a page what the component promises: an ordered feed without workers or leases, a
linear history, a ledger that enters each run once, batches accepted exactly once, a dual-control ledger, an archive whose versions stay and are served as stored.

## 4. Fairness

Only what the code keeps doing is fair; faults, users, operators and file owners never are.

| Module | Fair | Why |
| --- | --- | --- |
| `Outbox` | the steps of `runOnce`; the claim of a row that keeps becoming claimable (strong); the end of leases and back-offs | `server.ts` loops until stopped; the claim orders by `available_at`, so a row that stays due moves to the front of the LIMIT; time passes |
| `WorkspaceMembers` | each statement of an open transaction (strong) | PostgreSQL grants a lock in the order of arrival; between two grants the lock may be taken by others, hence strong |
| `EventFanout` | the read loop; subscription, check, write, close of a connection | `readLoop` and the promise chain go on by themselves |
| `Ingest` | the next step of a handler (weak) | the event loop; a wait ends in a time-out or a deadlock error, which is a step |
| `EdgeAgent` | both loops, the endpoint, leases, close and restart | the loops of `server.ts`; the container is restarted (`restart: unless-stopped` in `docker-compose.yml`); the API answers a request or the fault bound is spent |
| `PipelineRuns` | a worker's cycle, its executions, the end of a shutdown, a restart | the loop of `worker.ts`; the built-in executor is a bounded computation (at most 100 steps, `executor.ts` line 10); the container is restarted (`restart: unless-stopped`) |

`WorkspaceDocument` claims no liveness: a request that loses against a rival is answered 409,
and nothing promises that a retry wins. The other components of `MCPlatform` claim none either:
their handlers run to an answer by themselves, and what they wait for is covered by the liveness of `Ingest` and `WorkspaceMembers`.

## 5. The proofs

Every theorem below is checked by `tlapm` for all values of the constants under the `ASSUME` of its
module (numbers of workers, users, events, attempts, any bound). Faults are bounded by a
constant that is any natural number. The assumptions say what kind of thing a constant is, and what the code
guarantees of it: a bundle names assets, points and relations there can be, run ids made for replays are new, a batch binds instances to its own version. TLC evaluates them in
every run, so that none of them is void.

| Module | Theorems | Obligations |
| --- | --- | --- |
| `OutboxProofs` | `TypeCorrect`, `NothingLost`, `HeadOfLine`, `FirstCopiesOrdered`, `DeadLettersExhausted`, `Refinement`, `DuplicatesArePaidFor` | 1234 |
| `WorkspaceMembersProofs` | `TypeCorrect`, `OwnerKept`, `AuditComplete`, `EventsComplete`; of `Governance`: `SessionsStayScoped`, `ActsFollowTheirReviews`, `CutoverStaysExact`, `AdministrationStaysLedgered` | 4204 |
| `WorkspaceDocumentProofs` | `TypeCorrect`, `NothingLost`, `OrderedStarts`, `EventsComplete`, `HistoryKept`, `Refinement`; of `WebPlane`: `EmbeddedCanvasFollowsLedger`, `EditorKeepsWork` | 2803 |
| `EventFanoutProofs` | `TypeCorrect`, `NothingAfterRevocation`, `DuplicatesAreOld`, `ClientsFollowTheirInstance`; of `WebPlane`: `PagesKeepToTheirProject` | 5559 |
| `IngestProofs` | `TypeCorrect`, `EvidenceFirst`, `AnswersHold`, `NothingHalfDone`, `IngestIsALedger`; of `DataPlane`: `EmbeddedIngestKeepsEvidence`, `ObjectsStayWhole`, `StoreStaysBacked`, `BatchesStayBound` | 3474 |
| `EdgeAgentProofs` | `TypeCorrect`, `CollectedOnce`, `ArchivedFirst`, `AcceptedAtMostOnce`, `SentIsAccepted`, `NeverStranded`, `CollectedStays`, `StoresAndForwards` | 1478 |
| `PipelineRunsProofs` | `TypeCorrect`, `ClaimedByOne`, `HistoryTold`, `NothingGivenUp`, `EndStays`; of `CatalogPlane`: `PollsStayExact`, `RegistryStaysExact`, `CatalogStaysExact`, `ListingsStrayAtCutsOnly`, `OffsetsStayComplete` | 5426 |
| `WriteBackProofs` | `TypeCorrect`, `Refinement`, `TrailComplete` | 1657 |

Every safety property that `platform` checks of its groups is a theorem, but for the conjunction `WellTyped`, and so is every safety property of
the other passing runs; the refinements are proved step by step, initial states to initial states
and every step to a step or a stutter of the abstract specification.

The arguments, each by an inductive invariant. Every one of them was checked by TLC on the instance of its run before it was
proved:

- **Outbox** (`OrderInv`). `FirstCopiesInOrder` speaks of the stream only and a worker with a lost lease may
  append to it at any time, so it is not inductive. What makes it so is `ClaimsInOrder`: a claim is a certificate.
  Whatever has become of the lease, every visible predecessor of a claimed event was published when
  the claim was made, and published rows stay published. `PublishedWasDelivered` and
  `MarkingFollowsPublishing` link rows and stream. `Serialized` enters in the commit step only.
  `DuplicatesNeedFaults` counts (`CopiesInv`): the copies on the stream together with those still due, a worker's or a later
  claim's, are no more than the committed events and the faults.
- **Members** (`OwnerInv`). The transaction that takes an owner away holds the member's row from
  its write on (`RowsLocked`) and the advisory lock from the count on, and while it holds both, another owner remains
  (`Guarded`): nobody else can take that one away without the advisory lock, nobody can touch the row.
  `EventsComplete` has the hypothesis `~ReuseCorrelation`; under it no key of a transaction at work is among those announced
  (`FreshCorrelations`). The run `members_reused_id` shows that it cannot be dropped.
- **Document** (`DocumentInv`). A request in flight carries what the revision of its base version determines
  (`Carried`); the UPDATE that finds `version = base` therefore writes the right successor. The
  refinement maps the history to the sequence of snapshots.
- **Fan-out** (`FanoutInv`). What a check has cleared may be written whatever commits before the write
  (`ClearedInv`: membership at some moment not earlier than the event), and the set of seen
  ids is the end of the history of dispatches (`SeenInv`). `FollowsDispatch` says by counting, not by filtering, that the
  frames written and those in line are the dispatches since the subscription: the j-th frame that is an event is the
  dispatch that has as many before it.
- **Ingest** (`IInv`). A request beyond the landing carries the bundle that is archived; an open
  transaction holds its run and that run has not succeeded; what a succeeded run carried is stored.
- **Edge** (`EdgeInv`). `PollKnows` says what a poll knows of the checkpoint at each of its awaits; with it the
  batches partition the processed prefix. `NothingStranded` says that an unsent batch waits exactly once or is leased.
- **Pipeline** (`PipelineInv`). Locked rows are queued and locked once (`LockInv`), so a commit takes runs
  that nobody has; a worker that is idle or stopped has neither locks nor jobs.
- **Write-back** (`LedgerInv`, then `TrailInv`). Per handler: what a review concluded stays sound while it waits, because
  approvals only grow and a rejection can only be committed together with the settling of an open
  request (`ReviewSound`); of the handlers past `BeginExecution`, only one is about a given request (`RunSound`). Per request: an
  open one has no rejection, an act needs a beginning (`RequestSound`).
- **Transactions** (`SessionsInv`). A connection is owed to requests that wait, each once, and used by one
  (`PoolInv`); what its session holds is what that request did so far (`SessionInv`); an answer is of what was
  written and heard (`AnswerInv`); what a request may do is among what its user could have selected since it came (`RoleInv`).
- **SQLite write-back** (`ReviewsInv`). The trail has a start exactly if the request has begun, the executor is called only
  for one that is executing and has not been acted upon: with that no restart, whatever policy it brings, leads to a second act.
- **Cutover** (`CutoverInv`). One invocation is past the advisory lock, and what it has inserted is nobody's yet. The bounds of
  the sequence hold only while nobody else has used the target (`LeftAloneInv`); when someone has, the properties promise less.
- **Administration** (`AdministrationInv`). A role is told by its last entry and a change of `ledger` appends one, so each step needs that the entries
  of others are not touched; a scope that does not exist has no members and no entries (`Blank`); and what a
  bootstrap saw in place is first in the ledger for good (`Sound`).
- **SQLite catalog** (`RegistryInv`). A mirror in use is a copy of the index (`MirrorFollows`): it is switched off by the statement
  that fails, and switched on only by a rebuild from what is indexed.
- **Compatibility catalog** (`CatalogInv`). Two handlers never hold one lock (`LocksExclude`), and under it what a
  handler has looked up stays so: no row of its key, the next number of its model (`Knows`). The versions are 1 to n by the cardinality lemmas of the library.
- **Paging** (`PagingInv`). By cursor: of what was given, only rows of the cursor's own millisecond are beyond it again, and only read upwards (`Again`);
  a row that stays and is not given is beyond it, or at a cut of a listing that is not read upwards. By number: the rows passed and not given (`Passed`) are counted.
  A page passes no more than it gives or the client has, because the rows of a window have different ranks; a row that comes or moves puts at most one row more
  before the next offset, itself or the one neighbour that it moved away from. When the client stops it has as many different rows as were counted, and lacks
  of those that stayed no more than it has of others.
- **Edge connectors** (`PollsInv`). A batch ends no further by rank than the checkpoint; a poll that has read its rows left behind
  only late ones or some no less than its last.
- **SQLite ingest** (`IngestInv`). What a completed run named is there, whatever the order of row, run and search index at a
  kill; a row keeps the bundle it was made for; a request lands a file it has seen whole, and replays what a row
  names. That the hierarchy stays a forest needs no more of `OwnAncestor`, a recursive function, than that it is what the transaction
  tested; only of the empty hierarchy is it unfolded.
- **SQLite objects** (`ObjectsInv` of `LocalObjects`). An upload is answered exactly if a row names it; its file is in place from the rename
  on; one that failed without a fault left none.
- **PostgreSQL objects** (`ObjectsInv` of `GovernedObjects`). An upload's phase tells whether its bytes are stored and whether it may be named; the
  holder of an object's lock has seen all its versions, and `updated_at` is the start of one of them (`LocksSerialise`), so that a refused upload began before one that is named.
- **Model graph** (`GraphInv`). From the upsert to COMMIT the rows of a batch have its model and nobody else
  writes them; from the lock on, nobody else enters its key (`OpenBatches`). The check before the upsert does not appear: it may be stale, and the
  WHERE of the upsert is what the proof uses.
- **SQLite workspace** (`LocalWorkspaceInv`). The ledger is told by positions, not by filtered sequences: a user's role is what the last
  entry about that user left, and each such entry starts from what the one before left (`About`, `Leaves`), so that an entry appended disturbs
  nobody else's. What a request may carry is in its type (`IsRequest`): the revision it was made from is still the one of
  that number, so that a save that finds its base version adds one client's batch to it. Rights are checked a step before the synchronous operation, and may be
  gone by then; that an owner remains needs the count inside the operation only.
- **Web lists** (`WebPanelsInv`). An answer may arrive after anything, so what it carries must be sound when it arrives: an answered page is whole for
  what the table had when it was asked (`PageIsWhole`), and a page asked of this copy of the list goes on from what is shown (`PagesFollow`). Tables
  only grow (`TablesGrow`). `FormsWait` ties what a keyed form holds to the request still under way. The invariant has one lemma per kind of answer, whatever the panel's handlers are.
- **Web shell** (`WebShellInv`). There is never more than one request for projects, it is for the tenant selected, and until it is answered nothing is
  chosen (`LoadsAreSound`): that makes discovery, retries and the history agree. `ExplorerIsSound` says of an asset that is asked for or shown
  that it is the one selected, unless an answer without a signal came late.
- **Canvas editor** (`EditorInv`). The canvas, its stored copy, every entry of the three histories and the canvas a drag works from are
  canvases that join only their own widgets (`EditorFine`); each tool makes one of these of one of these, or a connector from a removed widget, which `stray` records
  for good. What a change keeps is then a fact of the step alone.

What the provers cannot do shaped some definitions, without changing what they say. A statement that sorts is modelled by the
choice of an ordered list; filtered sequences are counted (`EventsIn`); the theorems of induction of the library take an operator
as a parameter, which no backend instantiates, so that an induction over the naturals is made on a set: the set of counterexamples has a least
element (`LeastNatural`). The proofs found three mistakes that TLC had not. The outcome of an SQLite ingest was a CASE
with arms that overlap, which TLA+ leaves unordered and TLC takes in order; it is now a chain of conditions in the order of the code (`Outcome` of `LocalIngest`).
`AssetAgrees` of the shell was not inductive because an empty list of assets deselects one that is still being loaded (section 6): the property now names that case.
And `ChangesCanBeUndone` of the editor was false beyond the bounds: it asked that the content before a drag can be brought back after every move, but a drag that goes on while keys make more
changes than the history keeps (50 in the code) pushes it out, and what the code records when the drag ends is that content. It now says so: at once for every change but the moves of a drag,
and at its end for those.

Only model-checked: everything under fairness (`EventuallyPublishedOrDeadLettered`, both
`EveryRequestEnds`, `RevocationCloses`, `MembersCatchUp`, `EveryBatchSent`, `NoScopeStarves`, `EveryRunEnds`,
and the fairness of `StoreAndForward`, of which the proof covers the safety part), which is out of the
provers' reach; and `WellTyped`, which has the types of all seventeen components: each is, as it stands or as its parts, the first conjunct
of an invariant above, but for the editor's selection, the kind of its drag and the bounds of its counters, which its proof does not need.

Proved and in no run: the type invariants of the first eight modules (`TypeOK`, which holds for all values of the
constants), `FirstCopiesInOrder` and `NoLostUpdate`, which the refinements `ImplementsOrderedFeed` and `ImplementsVersionedDocument` of the runs contain, `NothingAbandoned`, `AuditTellsMembership`, `RunsWereArchived`, `AcceptedOnce`, `StartsAfterPredecessor` and `DuplicatesNeedEviction`
(the last as a conjunct of `DeliveredAsDispatched`); the conjuncts of the inductive invariants that are worth knowing by themselves
(`PublishedWasDelivered`, `HeadOfLineBlocks`, `OneEventPerVersion`, `QueuedWasArchived`, `SentWasAccepted`,
`NothingStranded`, `AcceptedMeansSucceeded`, `PointsHaveOrigin`) and the action properties `RevisionsAppendOnly`,
`CollectedForGood` and `EndIsFinal`.

## 6. Where the code and its documents disagree

- **Overlapping transactions overtake** (`outbox_overlap`). `occurred_at` is the start time of the
  writing transaction (migration 001, line 93), and a claim sees only committed rows: a transaction
  that starts first and commits last adds a predecessor after its successor was published. The comment at
  `outbox.ts:53` says that events of one aggregate "must never overtake one another". Workspace saves
  are safe (`StartsAfterPredecessor`); membership changes are not ordered.
- **A reused correlation id swallows an event** (`members_reused_id`). The deduplication key of
  `members.updated` is the member and the client's `x-correlation-id`; a second, different change under the same
  id commits without an event, although ADR 0005, line 94, promises one with the business transaction.
- **Two bundles close a cycle** (`ingest_hierarchy`). The cycle check reads what other open
  transactions are changing; two bundles that each move one asset below the other both pass and commit.
  From then on the check refuses every bundle of the project.
- **A keyset listing repeats a row for ever** (`paging_times`). ADR 0007, line 60, lists "stable keyset paging" among what model queries
  support. A query sorted by a timestamp compares microseconds (`model-query-sql.ts:68`), and its cursor carries them cut to
  milliseconds (l. 264): upwards, the last row of a page is beyond the cursor made of it (l. 151-152), comes again with the same cursor, and a
  client that follows the cursors never ends; downwards, other rows of that millisecond are never given. The run reads two rows a row at a time and changes nothing.
- **Two approvals leave a request pending** (`writeback_race`). The store that serves the route counts
  committed approvals without the advisory lock that `writeback-repository.ts:142` says is needed; a third
  reviewer can still settle the request.

The modules of `MCPlatform` record further behaviour that a reader of the code may not expect. No document denies
it except where one is named; where a property has an exception for it, the comment of the property says so.

- **Paging.** The cursors of the other listings by time are cut in the same way (`platform-mappers.ts:36`); they are all read downwards, and skip
  rows of the boundary's millisecond. Assets are listed by name and offset on both planes, audit entries and revisions by time and offset: rows added or renamed
  between two pages move others across the offset. A page may then bring nothing that the web application does not have, which leaves the offset where it was.
- **Fan-out.** XREAD from "$" skips what is added between two calls until the first message has been read (`shared-event-delivery.ts:411`).
  `MembersCatchUp` and `RevocationCloses` excuse an instance that has skipped a message (`missed`).
- **Catalog.** Creates without a key answer 409 to the retry of a create whose reply was lost. A result
  with a correlation id seen before is answered from the stored one without comparing the input. A model created
  through the graph API blocks the legacy registry from the same external id and version. A create after a rename conflicts with itself.
- **Administration.** Removing a member of the tenant leaves the memberships of its projects. An event is
  deduplicated by its correlation id (migration 012, lines 433 and 475), as in `members_reused_id`: `ledger` is the audit log, which has every entry, and
  the outbox row beside an entry is not modelled. `createProject` reads the tenant's status without a lock.
  `administration_require_tenant_manager` (migration 012, lines 320-336) tests a missing role with NOT IN, which is NULL and raises
  nothing; the model does the same. The gate of migration 007 (line 190) is taken in a serializable transaction (`tenant-provision.ts:319`), whose snapshot is older than the lock.
- **SQLite ingest.** A bundle that asserts a relation a reviewer has decided always conflicts, when it is replayed too. An
  unfinished replay leaves a completed run that no landing names.
- **SQLite workspace.** A full save does not validate the snapshot as operations do; saves, operations and rollbacks do not
  look at the membership again after the route's check. A workspace without a scope row gets no check
  of its streams (`app.ts:868`).
- **SQLite catalog.** Members seeded by a demo workspace come back at every start after they were removed (`platform.ts:267-287`). Run
  ids are a prefix of a hash of the key.
- **Cutover.** What is written to the source after the second read is lost. The audit sequence is moved
  outside the transaction, and it may be moved back if the application has used it.
- **Transactions.** Nothing listens for errors of idle connections (`pool.ts:124-137`), so that one ends the process. No store
  attests migrations 015 and 016 at the start: a request on the model graph fails later.
- **Web lists.** A retry, or the answer to another request, enables a form whose own request is still under way: it can be sent
  twice, or what was typed since is cleared. Going from one project to another and back while "more" is under way appends its page to a
  fresh list, and so does the refresh after an execution; panels that do not compare the project (context, the advanced workspaces) show or replace rows of another one. A late
  answer in Diagrams erases newer text. A create after a failed load clears the notice and hides the retry; a created row vanishes if the first page was read before
  it. The audit list asks for the next page at an old offset during a change of project, and only an abort that rejects protects its effect.
  A first load of the explorer that fails after a successful reload empties the list.
- **Web shell.** The answer to a retry overrides a navigation back. A boot or retry that fails after one leaves "failed" beside a
  context. A retry that finds no tenant does not abort a request for projects. An address without a tenant
  leaves the context as it was. `reloadAssets` (`App.tsx:433`) carries no signal, so a late answer shows assets of the earlier project; an asset opened from another view and aborted by the
  view's effect leaves the explorer loading. A list of assets that comes back empty deselects an asset that is still being loaded, and when that one arrives it is shown although none is selected (`App.tsx` 344-369).
- **Canvas.** Leaving within 420 ms loses the last change; a save that fails says "Saved" and a toast. A file or an answer that
  arrives late overwrites what was typed meanwhile (which can be undone); for a widget that is gone it records an empty change and clears redo. A question card
  that is saved while it waits waits for ever after a reload. Undo in the middle of a drag is overwritten by the next move. A connector
  drawn from a widget removed since it was picked dangles (`stray`). The storage is the browser's, not the project's.
- **Edge connectors.** A timestamp column with microseconds (a Date keeps milliseconds), values that `localeCompare` orders otherwise than the database, equal keys in one batch, or one row that cannot be mapped stop a
  source for good, since the poll throws each time. Rows equal to the last of a batch, and rows committed late with smaller values, are passed over silently.
  A node without timestamps is collected at every poll under the agent's time, and one whose clock went back stops all nodes of its source.

## 7. What is not modelled, and why

Inside the modelled components: health files, telemetry, logging; project-level
authorization, which is a read before the modelled steps; columns that carry no control; the
audit and outbox rows of ingest and its upserts that only add columns; the content of snapshots (which nodes
and connections an edit touches, in `WorkspaceDocument`; `LocalWorkspace` has them); roles other than owner and non-owner in `WorkspaceMembers`;
what presence frames say and when heartbeats are sent; the publish path of the SQLite profile,
which dispatches locally before it publishes; what a pipeline computes; the configuration, secrets and contract rehearsal of the edge agent; two tabs that save one canvas, of which the last wins.

Whole components:

| Component | Why |
| --- | --- |
| Relations on PostgreSQL | the rules are those of `LocalIngest`; the statements are one more upsert of the transaction in `Ingest` |
| The query compiler of the model graph | it generates SQL text; its paging is in `Paging` |
| platform-core | the order of steps and the merge are planned; scores and geometry are floating-point arithmetic |
| Quality rules, extraction, discovery | what they compute is data to the models, never control |
| Grants and policies of the schema | checked by the database per statement; `Transactions` has the identity they depend on |
| Authentication and permissions | pure checks in front of every handler |
| Contracts and schemas | input validation; the models take inputs that pass it |
| Observability, deployment scripts | nothing reads their results back |
| Ingest dialogs, sign-in and charts of the web application | parsing of one file into one request, one redirect, drawing |

Recovery that the code does not have is not claimed: a pipeline run whose worker crashed stays `running`, a
write-back request whose API process died stays `executing`, a batch the endpoint refuses for good is
retried for ever. The models have these states, and the liveness properties say where they stop
(`faults > 0`).

## 8. The plan

What was built first are the components whose failure would lose or falsify data: outbox, membership, document,
fan-out, ingest, edge, pipelines, write-back; then the SQLite plane and the remaining repositories of the other; then the browser and the
other two sources of the edge agent. The next steps:

1. **Order of pipeline steps** (`executor.ts` 67-85, `workflow.ts`): a pure module, Kahn's algorithm as a recursive
   function against the definition of a topological order that is least by name, over all graphs of up to four steps.
2. **Composition of membership, outbox and fan-out**: `EventFanout` with the stream of `Outbox` instead of its environment, to show
   end to end that a removal ends the streams of the removed member.
3. **Relations on PostgreSQL** as statements of `Ingest`, with the review route.

## 9. How to run it

```
tlc -workers 2 -config Outbox.cfg MCOutbox        # and the other pairs listed in PROJECT.json
tlapm OutboxProofs.tla                            # and the other ...Proofs modules
```

No run takes much longer than four minutes on two cores; the proofs take from two to twenty minutes each.
