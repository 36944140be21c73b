# Enfyra page server: formal models

TLA+ models of the parts of the Enfyra server where steps of several actors
interleave, or where one of several steps can fail: the caches that the
instances of a cluster keep in step over Redis, the executor that runs user
scripts in pooled child processes, changes of a table's schema on SQL and on
MongoDB, the first start on an empty database, the AI agent's requests and
tools, packages, files, and nested writes of records. TLC checks them on small
instances; TLAPS proves most of the safety properties for every value of the
constants.

Paths below are relative to `src/src/`, the `src` directory of the repository.

## The system

Several server processes ("instances") share one database (Postgres, MySQL or
MongoDB) and one Redis. Tables, columns, routes and handlers are rows; each
instance serves requests from what it has cached of them in memory.

| Component | State | Operations | Made correct by |
| --- | --- | --- | --- |
| Redis locks, pub/sub (`infrastructure/cache/services/cache.service.ts`, `redis-pubsub.service.ts`) | lock keys with a TTL, subscriber connections | acquire, release, publish, deliver | a key is released only for its owner; it always comes back |
| Metadata cache (`metadata-cache.service.ts`) | `inMemoryCache` | boot, reload, receive, lazy fill | reloads exclude each other, snapshots never go backwards, instances agree |
| Route cache and engine (`route-cache.service.ts`, `shared/utils/enfyra-route-engine.ts`) | `routesCache`, `allMethods`, `routeEngine` | boot, reload, receive, match | list and engine agree, instances agree, the right route matches |
| Configuration caches (`package-`, `storage-config-`, `ai-config-cache.service.ts`) | one list each, `cacheLoaded` | reload, receive, lazy getter | lists that are loaded agree with the database |
| Handler executor (`infrastructure/handler-executor/`) | pool of children, listeners, timers, pending promises | run, call, $throw, done, error, exit, timeout | every run is settled once by its own code, children are never shared or lost |
| Dynamic repository (`modules/dynamic-api/repositories/dynamic.repository.ts`) | none | create, update, delete, reload | every write is followed by the reload it needs |
| SQL schema lock (`infrastructure/knex/services/schema-migration-lock.service.ts`) | advisory lock of a session, one row | acquire, release | changes of different instances do not overlap; the lock comes back |
| SQL table handler (`modules/table-management/services/sql-table-handler.service.ts`, `infrastructure/knex/services/sql-schema-migration.service.ts`, `infrastructure/knex/utils/migration/`) | metadata rows, physical tables, foreign keys, junction tables | createTable, updateTable, delete | rows and physical schema describe the same thing |
| Admin (`modules/admin/admin.controller.ts`) | none | reload endpoints, metadata-sync | sync repairs and does not break |
| Mongo handler, lock, migration (`modules/table-management/services/mongo-table-handler.service.ts`, `infrastructure/mongo/services/`) | metadata documents, the collection's documents, an expiring lock document | as above, renames in the background | as above, with a lock that expires |
| Database initialisation (`../scripts/init-db*.ts`, `core/bootstrap/`, `infrastructure/knex/utils/migration/`) | tables, keys, metadata, default rows, `isInit` | init-db, comparison with the snapshot, metadata, default records | complete when it says so, up to what it has logged as failed; nothing twice, edits of users stay |
| Bootstrap scripts (`core/bootstrap/services/bootstrap-script.service.ts`) | a lock key | run the scripts, reload them | one instance runs them, and all of them are run |
| AI agent (`modules/ai-agent/`) | conversations, numbered messages, registry of streams, tool results | question, stream, cancel, summarise, tool calls | every question is answered once, a call has one answer, reports are true |
| Packages (`modules/package-management/`) | rows, `package.json`, `node_modules` | install, update, uninstall | what the server needs stays installed; lists and rows agree |
| Files (`modules/file-management/`) | rows, objects on disk or in a cloud | upload, replace, move, delete | a row's file is there and is the one described |
| Cascade handler (`infrastructure/knex/utils/cascade-handler.ts`, `knex.service.ts`, `entity-manager.ts`) | a map of relations to be written | insert, update, delete with relations | a write stores its own relations |
| Authentication (`core/auth/services/`) | session rows, tokens | login, refresh, logout | a closed session refreshes no token |
| Query builder, query engine, GraphQL, Swagger | none, or derived | queries, rebuilds | translate faithfully |

How they interact: a write through the repository changes rows and then awaits
`reload()` of the caches concerned; a reload takes the Redis lock of its cache,
reads the database, publishes to all instances, and releases the lock. A write
to `table_definition` first goes through the table handler, which holds the
schema lock, writes rows in a transaction and executes DDL, partly on other
connections. A user script runs in a child process and calls back into
repositories and helpers by messages; those calls may themselves write, reload
and run scripts. The agent's tools write through the same repositories, one
table after another. At the start init-db and the bootstrap services write the
tables that all the others read, and the bootstrap scripts run as handlers do;
one that changes a script has Redis emptied, with every lock in it.

What is hard here: interleavings of reloads across instances, locks that run
out, are flushed or are given back by somebody else, lost and late broadcasts;
processes that die between two steps of a series that no transaction holds
together; timeouts and cancels that race answers; children re-used while
something of the last script still runs; DDL and rows that are changed in
different transactions; descriptions that come from a cache, and names that are
derived from what an update changes; state of a process that requests share.
`PROJECT.json` lists each hazard at its line.

## Modules

| Module | What it is | Code |
| --- | --- | --- |
| `ReloadProtocol` | the steps all caches share: database version, lock key, processes, subscriber connections, calls of `reload()`, faults | `cache.service.ts`, `redis-pubsub.service.ts`, `reload()` |
| `MetadataCache` | extends it: broadcast, then keep; the lock-less fill | `metadata-cache.service.ts` |
| `RouteCache` | extends it: list, methods and engine, replaced at different moments | `route-cache.service.ts` |
| `SnapshotFeed` | abstract: one feed of snapshots that moves forward, instances that move along it | what `MetadataCache` promises |
| `HandlerExecutor` | runs, pool, children, messages, timeout, leftovers of a script | `handler-executor/` |
| `SchemaGate` | abstract: changes of two instances never run together | what the schema lock promises |
| `SchemaLock` | the advisory lock on pooled sessions | `schema-migration-lock.service.ts` |
| `TableHandler` | extends `SchemaGate`: one table as rows and as physical columns, create, update, delete, metadata-sync, caches | `sql-table-handler.service.ts`, `sql-schema-migration.service.ts`, `sql-diff-generator.ts`, `admin.controller.ts` |
| `RelationMigration` | relation rows of several tables, the foreign keys and junction tables that store them, the statements by which one follows the other | `relation-changes.ts`, `foreign-key-operations.ts`, `sql-diff-generator.ts`, `sql-table-handler.service.ts` |
| `MongoTableHandler` | one collection: its metadata, validator, documents, background renames, the expiring lock | `mongo-table-handler.service.ts`, `mongo-schema-migration*.service.ts` |
| `Bootstrap` | init-db and the first start of several instances | `scripts/init-db*.ts`, `bootstrap.service.ts`, `core-init-*.service.ts`, `default-data.service.ts`, `bootstrap/processors/` |
| `BootstrapScripts` | the scripts' lock, FLUSHALL, execution | `bootstrap-script.service.ts` |
| `AgentRequest` | a question, its conversation, the stream and its registry, cancels, summaries | `ai-agent.service.ts`, `conversation*.service.ts`, `stream-management.service.ts`, `message-builder.helper.ts` |
| `ToolLoop` | model, tool calls, results | `llm.service.ts` |
| `TableWorkflow` | the agent's tools for tables | `table-*-workflow.ts`, `executors/` |
| `Packages` | npm, rows, the package cache of each instance | `package.controller.ts`, `package-management.service.ts`, `package-cache.service.ts` |
| `FileManagement` | rows and objects, undo and backups | `file-management.service.ts`, `file.controller.ts`, `upload-file.helper.ts` |
| `Subsequence` | what a filter or a query keeps of a list, in its order | external |
| `CascadeWrites` | requests that write records with relations, the map they share | `cascade-handler.ts`, `knex.service.ts`, `entity-manager.ts` |
| `MC...` | instances of the above for TLC | |
| `...Proofs` | theorems: `MetadataCacheProofs`, `RouteCacheProofs`, `RequestProofs` (a run of a script, nested writes), `SchemaLockProofs` (with MongoDB), `TablesProofs` (columns, relations), `BootstrapProofs`, `ServicesProofs` (tools, scripts, packages, files), `AgentProofs` | |

The dependencies go one way: `TableHandler` uses the gate that `SchemaLock` is
proved to implement, and takes one reload at a time from what is proved of
`MetadataCache`. `RelationMigration` takes from both that changes are under the
lock, `TableWorkflow` that a change of a table is one step of it. Four MC
modules put modules together that meet only in the database: `MCSchemaLocks`
(a server has one of the two locks), `MCTables` (columns, relations),
`MCAgent` (the request, its loop) and `MCServices` (tools, scripts, packages,
files). A behaviour of such a run is one of one part, so that its size is the
sum of the parts.

### State and actions

**ReloadProtocol.** `db` counts committed writes, so a snapshot is a version.
`lock` is the Redis key, `pc` the place of each call in `reload()`, `inbox[i]`
what Redis has sent to the subscriber connection of instance `i`. One action is
what happens between two awaits: `Acquire` / `Skip` / `AcquireFails` for
`SET NX PX`, `Load` / `LoadFails` for the queries, `Publish`, `Release` /
`ReleaseFails` for the Lua script, `Take` for a delivery, `Lapse` for Redis
dropping the key, `Crash` for the end of a process. A process draws a random
instance id when it starts, so a restarted process is another member of `Inst`.
`WriteAndReload` is a request that writes and reloads, `WriteOnly` one whose
read-back throws before the reload.

**MetadataCache.** `cache[i]` is `inMemoryCache`. `ReloadPublish` comes before
`ReloadSet`, as in the code. `Receive` ignores the messages of its own
instance and otherwise replaces whatever is there. `FillBegin`, `FillLoad` and
`FillSet` are `getMetadata()` with nothing cached.

**RouteCache.** `LoadMethods` is the query for the methods, made while none are
known and kept if the next query fails; `LoadRoutes` replaces the list,
`PublishRoutes` sends both, `BuildEngine` replaces the engine.

**HandlerExecutor.** `Start` lends a child and attaches timer and listeners in
one turn of the event loop; `StartFails` is that turn when the context cannot be
put into a message or sent (the fault `unsent`): the child goes back to the pool
and the run is rejected, but its timer and its listeners stay. A child may
therefore have the listeners of several runs (`listens[c]`), each of which handles
every message; giving back a child that is not lent any more is a rejection that
nobody takes, and ends the server (`server`). `out[c]` holds the messages of child `c` in order;
`HandleCall`, `HandleThrow`, `HandleDone`, `HandleError` are the listener's
branches and `Drop` a message that nobody listens to. A message carries, in the
model only, the run whose code sent it. `ScriptDetaches` is a call without
`await`: the runner adds `await` to the proxies it recognises, and a call
inside a callback or through a variable is not one of them. `LeftoverFails` and
`Exits` are `unhandledRejection` and the exit 100 ms later. `HandleCall` may
start another run and wait for it (`sub`).

**SchemaLock.** `holder` and `depth` are the session that holds the advisory
lock and how often; `PoolSession` is any connection of the caller's pool,
chosen anew for the lock and for the unlock. `row` is the informative row.

**TableHandler.** `meta` is the committed set of column rows (id and name),
`phys` the set of physical column names. `createTable`: `CreateChecks` (drop of
an undescribed physical table, transactional on Postgres and committing on
MySQL), `CreateInserts`, `CreateBuilds` (the other connection), `CreateCommits`
or `CreateCommitFails` and `CreateUndoes`. `updateTable`: `UpdateCommits` (the
transaction, with the old description from the cache), `UpdatePlans` (`Diff`
is `analyzeColumnChanges`), `Alter` (`Batches`: one transaction on Postgres,
statement by statement on MySQL). `delete`: `DeleteRows`, `DropTable`.
metadata-sync: `SyncBegins` ... `SyncUpdates`, without the schema lock. `End`
gives the lock back and goes on to `Reload` and `Publish` unless something was
thrown.

**RelationMigration.** `rels` are the rows, `db` the tables, link columns, foreign
keys and junction tables, `known` what the cache has of each table, the
generated inverses included. `CreateTable`, `UpdateTable` and `DeleteTable` are
one change each: the rows, and then the statements that `RelStatements` makes of
the old relations (`known`) and the new ones - deleted, created and renamed, in
the code's order - as far as they are possible (`Possible`, `Effect`: a column
that is there twice, a key on a column that is not, and so on stop them). A body
that repeats a relation of the target is refused (`IsInverse`), but the code looks
for it only in the targets of the body's many-to-many relations, and so does the
model. A column is named by a table and a property, as the code derives names; a
constraint by the name its column had when it was made. `dirty` counts changes
that were thrown or that the code does not follow.

**MongoTableHandler.** `rows` are the metadata documents, `coll` the collection
with its validator and its documents, `lockDoc` the lock with `expired`, `edit` a
call with its place and what it has read, `renames` the renames that have been
started and not awaited. Each `await` that writes is an action
(`InsertTable`, `DropColumn`, `WriteColumn`, `WriteLinks`, `MakeCollection`,
`ModifyCollection`, `DeleteColumnRows`, ...), after any of which
`StatementFails` or `MongoCrash` may end the call; `RenameField` runs at any time
after `StartRenames`, `SaveDocument` is a user's write.

**Bootstrap.** Each instance goes through `step[n]`, one action for a statement
that others can get in front of: looking for a table and creating it are two,
and so are looking for a default record and inserting it. `schema` is the
physical side, `rows` and `meta` the default records and the metadata,
`settings` the rows of `setting_definition`. A start may find an empty database
or one that an older snapshot left half made. A query that fails, a table that
another instance has made in between, or a unique key ends the process (`Exits`)
or is logged, as the code does at that place: `ForeignKeyFails` for a foreign key,
which no later start adds, since its column is there; `MetaFails` for a document
of the metadata on MongoDB, where `LoadIds` and `DescribeTable` then pass over the
columns and relations of a table without a row; `RecordFails` for a record, and
`TransformFails` for all records of a table whose transformation asks the
database. `lost` is what was given up so. `Die` is a death without an error. The process manager starts the instance again.
`Compare`, `AlterTable` and `SyncJunctions` are the migration of an older
schema, `Edit` a user's change of a default record.

**BootstrapScripts.** `scriptLock` is the key, a round is one execution of
`withBootstrapLock()`: `AskForLock`, `ClearAll` (only when a script has asked
for the reload), `ReadScripts`, `ExecuteScript` one by one, `ReleaseScripts`.

**AgentRequest.** `log` is a conversation's messages as inserted, `req` the place
of each request between two awaits of `processRequestStream()`, `saves` its
partial answers on their way to the database (the close of the connection and
the catch each start one), `registry` the running streams of each instance,
`mail` cancels on their way, `era` the messages a summary has left. The
provider streams, returns or throws as it likes.

**ToolLoop.** `thread` is what the model is shown, `batch` the calls of its last
answer, `executed` what has been answered, `selected` the tools that the loop was
given, `Answer` any list of calls with ids that may repeat. `CheckCalls` drops what was not offered or has no arguments,
`ReplyAgain` answers from `executedToolCalls`, `StartTool` and `ToolEnds` execute.

**TableWorkflow.** `catalog` has the ids of each table and its columns, `flow` a
request's place in the graph with its retries, `writer` the schema lock,
`reports` what the tools said. `LoadCurrentTable`, `MergeData` and `Commit` are
the read, the decision and the write of an update. A merge that throws does not
stop the update: it goes on with nothing in it (`blank`), and is tried again like
any other (`Again`).

**Packages.** `disk` is what npm and the process have on each instance, `names`
its list, `pcall` a request. `CheckInstalled` looks into `package.json`,
`NpmInstall` and `NpmUninstall` are the commands with their attempts (a failed one
may have worked), `RequirePackage` the test, `SavePackage` / `ChangeRow` /
`DeleteRow` the row - an update writes the whole body (`Edited`), a removal reads
the row with the fields of the request, `isSystem` or not - `BeginReload` ... `SaveList` the cache's reload, which a
request that finds the lock taken leaves out. `evaded` records that the check of
`isSystem` has been passed by for something the server depends on.

**FileManagement.** `objects` are what a storage has under a key, `fileRows` the
rows, `backups` the copies that a replacement makes. `StoreUpload` and
`InsertFile`, `Overwrite` or `BackupFile` / `UnlinkOld` / `CopyNew` and
`UpdateFileRow`, `RemoveFile` and `ForgetRow` are the steps; `UndoUpload`,
`RestoreFile` and `CleanUp` what is done when one of them throws. `gap` is a
history variable: rows whose last change lost its undo to a second failure, a
crash, or another request on the same file.

**CascadeWrites.** `context` is the map of each process, with one entry for the
table that is followed; `BeginWrite` puts the body's relations there, the steps
from `Untag` on take them from there. `contended` and `shared` record, for the
properties, that requests of one process overlapped, or two requests had a
record or child in common.

## Runs

| Run | Question | Expected |
| --- | --- | --- |
| `metadata_reload` | Do reloads exclude each other, stay in order, implement the feed, and do caches agree in the end? | pass |
| `metadata_faults` | What survives every fault: nobody releases the key of another, the lock comes back, calls return? | pass |
| `route_cache` | Do list and engine agree, and all engines in the end? | pass |
| `handler_executor` | Is lending exclusive, does a run decide only itself, is every run answered and over? | pass |
| `schema_locks` | SQL: do changes of two instances never run together, and does the row name a running one? MongoDB: does a change that is in time keep the lock, and does the collection end up as described? | pass |
| `tables` | Do changes that run alone and in step leave rows, columns, foreign keys and junction tables in step; does a described table exist? | pass |
| `inverse_relations` | Does an update of a table leave the relations of other tables alone? | violated |
| `bootstrap` | Is a database that says so complete, with nothing twice; do later starts undo nothing; does some start get there? | pass |
| `agent` | Is each question answered once, does the registry name the running stream, has every tool call one answer, does everything end? | pass |
| `services` | Are the tools' reports true and loaded columns kept; have the scripts one runner; do the server's packages stay and the lists agree; are files as described? | pass |
| `record_writes` | Does a write that is alone in its process store all the relations it names? | pass |
| `concurrent_writes` | Does every write? | violated |

The violated runs check what a comment or a log line says; `findings` in
`PROJECT.json` quotes each one and tells the run of events. Neither needs a
fault. Every property of a passing run has a mutant, a plausible mistake in one
action, that violates it under the same configuration.

Some modules state a property that the code does not have and that no run
lists: `BroadcastReachesWaiter` (`RouteCache`), `HandlersAreSandboxed`
(`HandlerExecutor`), `LockedMeansUpdating` (`SchemaLock`), `CreatedMeansMigrated`,
`UpdatedMeansMigrated` and `SyncFollowsMetadata` (`TableHandler`),
`AskedTheQuestion` and `NumbersIncrease` (`AgentRequest`), `ReloadsHaveTheLock`
(`BootstrapScripts`), `UpdatesAddColumns` and `SuccessIsCommitted` (`TableWorkflow`), `SettingIsSingle`
and `SuccessIsComplete` (`Bootstrap`), `SystemPackagesAreCore` and
`SystemPackagesStay` (`Packages`), and `LinksHaveTables`
(`MongoTableHandler`). Added to the properties of the run that has the module,
with nothing else changed, TLC finds each of them violated; the findings without
a run describe these, and a few disagreements seen while reading the code that
no property is about.

### Bounds

- `MaxVersion`, `MaxBegun`: database writes and calls of `reload()`. Three
  instances with four calls, two of them overlapping on one instance, and two
  writes are enough for an old and a new snapshot to race, for a refused and a
  granted reload on one instance, and for a boot in between. `metadata_faults`
  has no versions to tell apart (`MaxVersion = 0`), because its properties are
  about locks and calls, and affords all faults and liveness instead.
- `MaxOut`: unread messages of a child. Two let a leftover message be in front
  of, or behind, a message of the next run.
- Two runs and one child: both orders of lending, nested runs with the pool
  exhausted, and re-use after a death (an id is re-used when all of it is gone).
- `MaxDepth`: how often the advisory lock is held. Three allows a leak on top
  of two overlapping changes.
- `MaxId`, `MaxBegun` in `tables`: three column rows over two names and
  three calls give create, update and a third call of any kind around them.
- `MaxRel`, `MaxDirty`: two relations ever made between two tables or of one to
  itself, of every type and with every named inverse, are enough for two of them
  to want one name, and for a relation to be created, renamed and deleted.
  Nothing follows the first change that is not followed, since the code does not
  know of it either.
- `MaxSent`, `MaxKey`, `MaxEdits`: two columns or relations of a body, over two
  names of columns and two of relations, and three calls, two at a time: a
  change, another that overlaps it or its renames, and one after both.
- `Bootstrap`: two tables with unique keys, one with a relation to the other, a
  junction table, and six records, one of each kind that is treated
  differently; one death, one failed query, one user's edit and any number of
  starts of two instances.
- `AgentRequest`: two requests of one conversation of at most three messages
  before a summary. A cancel or a failure, not both, which the MC module's
  `OneTrouble` says. With more than two requests in one conversation a summary may
  delete a question that others have numbered theirs after; the clause of
  `EndedIsAnswered` on numbers is therefore about requests that are alone, and it
  is the proof, which has no bound, that shows it for any number of requests.
  `ToolLoop`: two answers with two calls each from two ids and four tools, one of
  which the server has not and one of which answers nothing, with no tool selected
  or all: an id or a call that repeats within an answer and between two. The
  branch for three equal failures (`stuck`) needs no larger bound: since a failure is
  remembered like any answer, no count ever reaches three, as a finding says.
- `TableWorkflow`, `BootstrapScripts`, `Packages`, `FileManagement`: two actors,
  one more call than actors, and one mishap, so that each failure meets every
  interleaving of two.
- `CascadeWrites`: two requests at a time and three in all, so that a third may
  find what a failed one left. Two children are there at the start, numbered
  from 1 as a serial key does, and one may be born.
- Symmetry is used for safety only: instances (with their calls) that are given
  alike, calls of one instance, names, and in `tables` the two tables of the
  relations, which are exchanged together with the column names.

Runs switch deadlock checking off because every bounded system stops when its
calls are used up.

### Assumptions about the environment

Redis executes one command at a time and delivers a channel in order. Unless
the fault `slow` is on, a reload ends within its lock (30 s); unless `late` is
on, a message that reached a connection is handled before the answers to the
same instance's later queries. The properties that depend on these name the
fault in their formula, so the same module can be run with the fault on.
Single statements are atomic, unique keys are enforced, and MongoDB has no
transactions here, as the code uses none. npm is one step that may have worked
although it failed.

### Fairness

`MetadataCache`: weak fairness of each call's next step, of each delivery and
of key expiry - Node runs continuations, ioredis delivers, Redis expires keys.
No fairness for requests, writes, faults or boots. `HandlerExecutor`: timers
fire, the parent handles messages, the pool forks and evicts; strong fairness
only for `Start`, which stands for the pool's first-come queue. A script may
loop for ever and a helper call may never return: `EveryRunEnds` rests on the
timeout alone. `Bootstrap`: each instance's next step, a start included, since
the process manager starts a process that has ended; none for deaths, failing
queries or edits. `MCAgent`: a request's next step, the provider's end of a
stream included, because the provider's client has a timeout; the loop's next
step, where a tool returns or throws. No fairness for cancels, closed
connections or aborts. The other modules state no liveness.

## Proofs

| Theorem | Statement | Module |
| --- | --- | --- |
| `TypeCorrect` | `Spec => []TypeOK` | `MetadataCacheProofs` |
| `LockHeldByItsOwner` | `Spec => []LockHeldByOwner` | |
| `MutualExclusion` | `Spec => []OneReloadAtATime` | |
| `NobodyElseReleases` | `Spec => OnlyItsInstanceReleases` | |
| `FeedInOrder` | `Spec => []BroadcastsInOrder` | |
| `ImplementsFeed` | `Calm => (Spec => CachesFollowTheFeed)` | |
| `CachesAgreeInTheEnd` | `Spec => []SettledCachesAgree` | |
| `TypeCorrect` | `Spec => []TypeOK` | `RouteCacheProofs` |
| `EngineFollowsList` | `Spec => []ListAndEngineAgree` | |
| `EnginesAgreeInTheEnd` | `Spec => []SettledEnginesAgree` | |
| `TypeCorrect` | `Spec => []TypeOK` | `RequestProofs` |
| `ExclusiveLending` | `Spec => []LendingIsExclusive` | |
| `EveryEndAnswers` | `Spec => []OverIsSettled` | |
| `Isolation` | `Spec => []OnlyStraysReachOthers` | |
| `WritesSynced` | `WritesSpec => []WritesAreSynced` | |
| `WritesTypeCorrect` | `WritesSpec => []WritesTypeOK` | |
| `LockTypeCorrect` | `Spec => []TypeOK` | `SchemaLockProofs` |
| `ChangesOfOneInstance` | `Spec => []OneInstanceAtATime` | |
| `LockImplementsGate` | `Spec => KeepsInstancesApart` | |
| `LocksTypeCorrect` | `MCSpec => []TypesOK` | |
| `LocksStayTheirHolders` | `MCSpec => []LocksAreKept` | |
| `MongoTypeCorrect` | `MongoSpec => []MongoTypeOK` | |
| `TimelyChangeHasLock` | `MongoSpec => []LockIsKept` | |
| `CollectionMatchesMetadata` | `MongoSpec => []CollectionAsDescribed` | |
| `DescribedTablesExist` | `Spec => []MetadataHasTable` | `TablesProofs` |
| `SoundChangesLeadBack` | `Spec => []SoundChangesMigrate` | |
| `TablesTyped` | `Spec => []TypeOK` | |
| `RelationsStored` | `MigSpec => []StoredAsDescribed` | |
| `BothTyped` | `MCSpec => []TypesOK` | |
| `BootTypeCorrect` | `BootSpec => []BootTypeOK` | `BootstrapProofs` |
| `InitialisedMeansComplete` | `BootSpec => []InitialisedIsComplete` | |
| `EditsStay` | `BootSpec => EditsSurviveStarts` | |
| `ToolsReportWhatIs` | `FlowSpec => []ReportsAreSo` | `ServicesProofs` |
| `UpdatesKeepColumns` | `FlowSpec => LoadedColumnsStay` | |
| `OneRunner` | `ScriptsSpec => []ScriptsHaveOneRunner` | |
| `DependenciesStay` | `PackagesSpec => []ServerDependenciesStay` | |
| `ListsAgreeInTheEnd` | `PackagesSpec => []SettledListsAgree` | |
| `FilesStayDescribed` | `FilesSpec => []FilesAreAsDescribed` | |
| `ServicesTypeCorrect` | `MCSpec => []TypesOK` | |
| `ResultsReused` | `MCSpec => []ResultsAreReused` | `AgentProofs` |
| `CallsAnswered` | `MCSpec => []CallsAreAnswered` | |
| `RegistryIsRight` | `MCSpec => []RegistryNamesTheRunning` | |
| `RequestsAnswered` | `MCSpec => []EndedIsAnswered` | |
| `AgentTypesCorrect` | `MCSpec => []TypesOK` | |

They hold for any instances, calls, columns, tables, relations, sessions, children,
conversations, tools, packages, files, bodies and bounds that satisfy the modules' assumptions, all of
which TLC evaluates: `ReloadAssumption`, `LazyReadsAssumption`,
`MessageAssumption`, `ExecutorAssumption`, `LockAssumption`, `MongoAssumption`,
`TableAssumption`, `NothingAssumption`, `MigAssumption`,
`EngineAssumption`, `BootstrapAssumption`, `WorkflowAssumption`, `ScriptsAssumption`,
`PackagesAssumption`, `FilesAssumption`, `AgentAssumption`, `OldAssumption`,
`LoopAssumption`, `CascadeAssumption`. They say that bounds are numbers, that sets whose members
the model counts are finite, that a name for "nothing" is not a member of the set
it stands beside, and of the data what the code relies on (the children that are
there at the start are numbered from 1). The bounds stay in the specifications
as numbers without a value, so that a theorem holds for each of them.

### Caches

*Mutual exclusion.* "One call in the section" is not inductive: a second call
could enter if the key could be free meanwhile. `LockHeldByOwner` adds that a
call in the section finds the key carrying its instance and set by itself; the
key alone would not do, since two calls of one instance share their value.

*Order of broadcasts.* `FeedInv` adds that nothing waits before the first
broadcast (`Started`), that a broadcast version comes from the database
(`Behind`), that what waits is in order (`Ordered`), and that the reload in the
section carries a snapshot between the last broadcast and the database
(`Carried`). Mutual exclusion is what keeps `Carried` when another call loads.

*Refinement of the feed.* `ServeInv` relates what an instance serves to the
last broadcast and to what still waits for it: nothing from another instance
that waits is older than what is served, and what waits for the instance that
is reloading is its own broadcast. It needs `Calm`: no slow reload, no late
broadcast, no lock-less fill; with any of them the refinement is false.

*Agreement in the end.* That settled caches agree speaks of moments when nothing
is in flight. `EndInv` says what is true on the way: what waits for an instance
ends with the last broadcast (`LastIsLast`), the call that is about to keep its
snapshot is of the instance that broadcast last (`KeepsLast`), and an instance
for which nothing waits serves the last broadcast (`HasLast`). The sender is the
difficulty, since it ignores its own message and may have read others too late;
`OwnOnly` says that, unless broadcasts are late, it has only its own to read. For
the routes, where the engine is built after the broadcast, `BuildsLast` and
`SenderHasLast` take these places.

*List and engine.* A reload replaces the list first and the engine last, so the
two agree outside only if nothing replaces either between. `NothingComesBetween`
says why: a reload in its window has kept what it loaded, and of what its
instance has still to read everything was sent by that instance, which ignores
it. That there is one window at a time is mutual exclusion (`LockHeldByOwner`),
proved here for the route cache's own steps.

### Runs of scripts

*Lending.* `LendingInv` adds to exclusive lending which runs are under way, and on
which child (`RunsAreUnderWay`). Only a child that was given before to a run whose
message could not be sent has other listeners than those of the run that has it
now, and only through such a run can the server end: the property and its
invariant carry this exception (`unsent`), without which it is not true of the
code. `OverIsSettled` is inductive with the types.

*Isolation.* `IsolationInv` adds who owns a message: what is unread is of the run
that has the child, or of a run that left calls behind, and nothing of the same
run but such calls follows its "done" (`MessagesHaveOwners`). So when a child
goes back to the pool, what is unread in it is of strays, and the next run hears
its own code only. The listeners that an unsent run has left hear the same
messages, with their own context; what decides the run that has the child is
still its own code. `ChildrenInOrder` says the same of what is left in the child.

### Schema changes

*The SQL lock.* The invariant counts: until a session was lost, the lock is held
at least as often as there are changes between lock and unlock
(`HeldOftenEnough`), and by a session of their instance (`HeldByItsInstance`).
The count is what makes it inductive: sessions re-enter, unlocks miss, failing
queries leak, and each of these may only leave the count too high. The gate that
`TableHandler` uses follows, step by step (`LockImplementsGate`).

*Both locks.* `LocksInv` joins this with `RowNamesARunningChange`, which needs
that a change that ends clears the row only where it names that change, and with
the invariant of MongoDB's lock.

*The collection.* `MongoInv` is a phase argument. `InTimeHolds`: a change that has
not outlived its lock holds it. As long as nothing untidy has happened (a failure,
a crash or a lock that ran out; a change that begins, or a document that is
written, while renames are to be done, or before or from a stale cache; a
document that is written during an update; a rename to a name that is still in use), there
is one change at a time, the collection is as described between changes (`Settled`), and `PhaseOf`
says for each place of the one change what is done and what is still to do. A
document's field may be under a column's old name while the rename waits, and the
renames do not meet: none renames to what another renames from (`Placed`,
`RenamesApart`). A renamed
relation counts as untidy too, which the proof came upon:
`dropRelationFieldsBeforeUpdate()` unsets fields by the names of the new body, so
that the field of a renamed relation stays in the documents under the old one.

*Metadata has its table.* `OneByOne` adds where the calls are: as long as no two
changes have overlapped and no physical table was replaced, there is one change
in the gate at most, a creation that is past its check and a deletion that is
past its rows find no rows, and a creation that is about to commit has its
table. For this a call has to be at a place of its kind and the gate has to hold
the calls that are changes (`KindsFit`), which is where a crash and a call of
metadata-sync, outside the gate, have to be dealt with.

*Sound changes.* `FreshOnes`: a call that has been alone is still the only one
that may change the table, and if nothing unsound has happened to it, finds at
each place what `Reached` says. The heart is `Leads`: the statements that
`Diff` makes of two lists of rows lead from the columns of one to those of the
other (`DiffLeads`), and what is left of them after some have been executed
leads there from what these have made (`BatchLeads`), on MySQL one by one and on
PostgreSQL at once. It is also why the theorem is of rows of which none has a
name that another had before: with such a row `DiffLeads` is false.

*Relations.* `StoredAsDescribed` says that the columns and their tables are those
of the rows. The invariant `StoredInv` adds that no two relations have the same
column and that a junction table is named after the relation it was made for
(`DescribedBy`), and, whatever failed before, the types with what they need:
ids and properties are unique, constraints' names too, a constraint's name is
of a table that is there, and the caches agree with the rows on types and
junction tables (`RelInv`). For an update, the proof
goes from the rows to the database in three steps.

1. *Which statements.* `RelStatements` goes through three lists, nine functions
   for each, in the code's order. Each group is characterised as a set
   (`DropOwnIs`, ..., `RelStatementsAre`): a statement is in the sequence exactly if
   there is a row of which the code makes it. For an update that the code
   follows, the cache has the table's rows and no column is taken by two groups
   (`GroupsApart`), so that the sequence takes no column twice and adds a
   constraint after its column only (`Ordered`).
2. *What they do.* For statements in such an order that are all possible,
   `ColumnsDone`, `LinksDone` and `JunctionsDone` say what `After` makes of the
   database, whatever their number: a column is there exactly if it was and no
   statement has taken it, or a statement has made it. `MadeOnce` is why: a
   second statement that made the same column would not have been possible. These are
   inductions over the statements, done as a least counterexample.
3. *What the rows say.* With both, the database after the update is described by
   the rows it leaves (`UpdateFollows`, `UpdateDescribes`): a row's column stays,
   moves, is added or is lost.

A deletion takes the columns that refer to the table under two descriptions, a
name that the code makes of the table's and the constraints of the database
(`DeletesIs`), and is described unless the name belongs to another relation.

### The first start

*Complete.* `BootInv` says what an instance has done by each of its steps:
`Migrated` of tables, columns and junction tables, `Described` of metadata,
`Filled` of records (those before its place are there and bound, or given up).
That alone is not inductive, since others go through the same steps at the same
time, from what they looked up before. `Keeps` is why they do no harm: of two
migrations each changes towards the snapshot only (a difference names nothing
that is right, `Differs`), no row is deleted, and what was given up stays so.
So what an instance has done stays done, and who sets isInit has done all of it,
but for what it or an earlier start has given up after an error that is only
logged (`lost`): such a record, foreign key or document of the metadata is no
start's to make up, and the property says so.
The order of the lists is an assumption that the proof needs: a record that is
stored without what it refers to has a reason (`BareHasReason`) only because that
record came before.

*Nothing twice, and edits.* `Alone` is what is true while one instance at a time
initialises: what was looked for and not found is still not there when it is
inserted; a column of a relation that is there has its foreign key, or is in the
difference that is being applied (`FksFollow`), without which the comparison
would not see what is missing; and no instance is past `ReadSetting` when the
database says isInit. The last is why edits stay: the only step that sets a
record back is a step of an instance that initialises, before isInit, when
nobody has edited anything.

### The agent

*The loop.* `ThreadIsAnswered` names the one answer whose calls are being executed
(`AnswerAt`): every call of every other answer is answered or was before, and of
this one all that are not in the batch. `RunsAreKept` ties the runs of tools to
what `executedToolCalls` remembers, from which follows that a call is executed
again only when it threw.

*The request.* `AgentInv` has four parts. `Registered`: the registry names a
request while the model or what comes before it is at work, and every such
request that is alone and was not aborted. `CrowdsAreKnown`: who is not alone is
known before anything comes of it. `Bookkept`: where the two savers of a partial
answer may be while the request is at a place. `Counted`: how many questions and
answers of a request the conversation has at each place of the request, which
must survive that a summary deletes a question and inserts it again; and
`Numbered`, that the number of a request's answer comes after its question's, for
which a message of another request with the number that was read has to stay on
the first page (`Backed`). The lemmas under it are about subsequences: how many
elements a filter keeps, and where.

*Tools for tables.* `FlowInv`: a call's counts of attempts and commits fit its
place, and the merge of an update keeps the ids of the columns that it loaded
(`CallsAreGood`; an update whose merge failed is told apart, for what it commits is
nothing that was asked for), who is committing is who has the lock (`WriterCommits`), and
what a creation committed is there, once, unless something is deleted
(`CreatedIsThere`).

### Services

*Scripts.* `LockIsHeld`: as long as the lock goes by release() only, an execution
inside holds it and is alone. `ScriptsAreRun`: as long as nothing breaks, a lock
that is taken and the end of an execution that was inside tell of one that runs
the scripts or has run them all, and an instance that has started has asked;
from which it follows that those that were refused left the scripts to another.

*Packages.* `PkgInv` adds that rows named after something the server depends on
are rows of the system, that a request on its way to such a row carries that
mark from the check on, and that no request on its way to uninstall names one -
until one of the three ways past the check has been taken (`evaded`).
For the lists, `ListInv`: one call reloads at a time and the last list is its
instance's (`OneReloads`), what it carries is what the database has unless a
request that has changed it is still to reload (`CarriesListed`), and with no
such request everything that is on its way ends with what the database has
(`ListsAgree`).

*Files.* `FilesInv` has three layers. Always: keys of objects and ids of rows are
unique and every name is old, so that a new upload meets nothing (`NamesInv`). As
long as what failed was undone: no two requests are at one row, a row at which
none is has its object, a request at a row has what its place says, and a backup
is a copy of what the row describes (`WorkInv`). As long as nothing has failed:
nothing is left over (`NothingIsLeft`). The backups are why the first two need
each other: the code makes one per replacement, and a restore has to find the
one of its own.

### Nested writes

`WritesInv` says of every request that is alone in its process and shares no
record or child: before its statement the map holds its own relations
(`Prepared`); afterwards it follows its own record with its own body
(`Cascading`), and at each place the tags and children of the record are those of
the body, but for what is still to do (`Relating`). A new record's number is
larger than any that is in use, and so is a new child's, which is why a write
that starts finds nothing that is already related to its record. When any two
requests meet in a process or a record the invariant ends, and the violated run
shows that it has to.

### How the induction is done

Each theorem is the usual three facts: the initial states satisfy the invariant,
every action preserves it (a lemma for each action, or for each group of actions
that touch the same things), and it implies the property. Lemmas on data that
would take induction (the greatest element of a finite set of numbers, the
subsequence of a list) are proved without the induction theorems, by a least
counterexample or by the library's facts on bijections and cardinality.

Proofs that did not go through corrected the models. A replacement of a file has a
backup of its own, as in the code, where the model had shared one. The clause of
`EndedIsAnswered` on numbers had been stated of all requests, which a run of two
cannot tell from what is true (see Bounds). A renamed column keeps the constraint
of its old name, so that a creation whose one-to-many relation makes a column of
that name again fails in the database (`sql-schema-migration.service.ts:425`):
the model let it succeed with two constraints of one name. The value that stands
for "no table" has to be none of the tables' (`NothingAssumption`), which the
runs had by their choice of constants. And a place that no behaviour reaches was
removed.

### Only model-checked

- Liveness (`CallsReturn`, `EveryRunEnds`, `EventuallyInitialised`,
  `EverythingEnds`): it rests on fairness and ENABLED, which are out of the
  prover's reach.

Every invariant of a run is the statement of a theorem, and so is every action
property of a run that passes.

## What is abstracted

- A snapshot of metadata or routes is one version, read at once. The code reads
  it by many queries outside a transaction.
- `TableHandler` has one table without system columns or renames of the table;
  its route is written with its row. A new column is one per update. The gate is
  used without the loss of a session. A reload is a load and a broadcast to
  all, one at a time. On MySQL, what `createTable` inserts after a DROP has ended
  its transaction is one step. Its relations are `RelationMigration`'s, where a
  change is one step that can end before its last statement.
- `RelationMigration` leaves out ordinary columns, nullability, `onDelete` and
  indexes. `MongoTableHandler` leaves out indexes and routes.
- `HandlerExecutor` leaves out the merge of the context after a run.
- Properties speak up to what their formula names, and the hazards of
  `PROJECT.json` say what is thereby not caught: `SettledCachesAgree` leaves out
  the sender where broadcasts come late (its run has none that do), and is of the
  last broadcast, which a write without a reload overtakes; `SettledListsAgree`
  leaves out the last publisher and refused reloads; `CollectionAsDescribed`,
  `SoundChangesMigrate`, `WritesAreSynced`, `ScriptsHaveOneRunner` and
  `FilesAreAsDescribed` hold until the history variables `untidy`, `sound`,
  `shared` and `contended`, `loose`, and `gap` say that something has happened
  after which the code promises nothing.
- `Bootstrap`: a record is its name, what it refers to and whether it is linked;
  types of columns are one thing that differs or not.
- `AgentRequest` leaves out prompts, token counts, `messageCount` and
  `lastActivityAt` of a conversation, the choice of tools
  (`evaluateNeedsTools()`), heartbeats, and the branch for a missing answer that
  no return of `chatStream()` reaches. `ToolLoop` leaves out what tools do and
  how their results are shortened.
- `TableWorkflow`: what a change does to the physical schema is the other
  modules'; here it commits, fails before, or fails after.
- `CascadeWrites` has one table with one relation of each kind that cascades, and
  leaves out the transformation of relations to columns and the stripping of
  unknown fields, which happen before, and partners that exist already.
- Variables marked "history" record what happened for the properties; no guard
  of an action that models code reads them, but for `Lapse`, whose guard states
  the assumption on slow reloads.

## Not modelled

- Authentication: login, refresh and logout are one or two statements on a
  session row; what they promise is in signed tokens and not in an order of
  steps.
- Query builder and query engine: a translation of filters, sorting and joins to
  SQL and MongoDB, with no state of their own.
- GraphQL and Swagger: rebuilt from cached metadata and routes.
- The matching of paths in the route engine; the storage and AI configuration
  caches, which are the package cache's code over other tables.
- Unique keys, indexes and renames of tables in schema changes, and the waiting
  of the two connections of `createTable` inside the database.
- The agent's other tools, and everything a model says.

## Next

Proofs: with every invariant proved, `StoredAsDescribed` for updates from a stale
cache, of which the model says only that the code does not follow them
(`dirty`); and what a creation that fails half way leaves of its relations.

Models: matching of the route engine (static before parameter before wildcard)
against a reference definition; a snapshot read row by row in `MetadataCache`;
indexes and renames of tables in `RelationMigration`.
