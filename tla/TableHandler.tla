---------------------------- MODULE TableHandler ----------------------------
(***************************************************************************)
(* SqlTableHandlerService and SqlSchemaMigrationService: one table, as the *)
(* rows of table_definition and column_definition that describe it and as  *)
(* the physical table that the DDL statements make of it, changed by the   *)
(* instances of a cluster, on Postgres or on MySQL.                        *)
(*                                                                         *)
(* A column is an id, the key of its row, and a name.  The table's route   *)
(* is written and deleted with its row and is left out, and so are its     *)
(* relations and its system columns.  The schema lock is the gate of       *)
(* SchemaGate, which SchemaLock is shown to implement.  A reload of the    *)
(* metadata cache is a load, that leaves out a table without its physical  *)
(* table, and a broadcast, by one call at a time (MetadataCache).          *)
(***************************************************************************)
EXTENDS SchemaGate, Naturals, FiniteSets

CONSTANTS Inst,
          Name,       \* column names
          MaxId,      \* bound on the column rows ever inserted
          NoTable,    \* there is no such table
          Unloaded,   \* nothing is cached
          None,
          Dialects,   \* DB_TYPE, a subset of {"postgres", "mysql"}
          MaxBegun,   \* bound on the calls that are begun
          Faults      \* a subset of AllFaults

(***************************************************************************)
(* "ddl":    a DDL statement fails that could have succeeded.              *)
(* "commit": the transaction of createTable() cannot be committed.         *)
(* "crash":  an instance dies and starts again.                            *)
(***************************************************************************)
AllFaults == {"ddl", "commit", "crash"}

ASSUME TableAssumption ==
    /\ At \in [Change -> Inst]
    /\ MaxId \in Nat /\ MaxBegun \in Nat
    /\ Dialects \subseteq {"postgres", "mysql"}
    /\ Faults \subseteq AllFaults

Column == [id : 1 .. MaxId, name : Name]
Ids(T) == {c.id : c \in T}
Names(T) == {c.name : c \in T}

\* The primary key, and the unique index on (name, table).
Table == {T \in SUBSET Column :
             \A c, d \in T : c.id = d.id \/ c.name = d.name => c = d}

\* The constants that stand for nothing are nothing else.
ASSUME NothingAssumption ==
    /\ \A T \in Table \cup SUBSET Name : T # NoTable
    /\ \A T \in Table \cup {NoTable} : T # Unloaded
    /\ \A o \in Change : o # None

VARIABLES dialect,   \* the database
          meta,      \* the committed rows of the table
          phys,      \* the names of its physical columns
          nextId,    \* the next id of column_definition
          cache,     \* what each instance's metadata cache says of the table
          loading,   \* the call that reloads metadata
          snap,      \* what it has loaded
          pc,        \* where each call is
          kind,      \* what it does
          old,       \* the cached metadata that it has read
          rows,      \* the rows that createTable() has inserted
          trx,       \* what has become of its transaction
          made,      \* schemaCreated
          todo,      \* the column statements still to be executed
          ok,        \* the call has not thrown
          begun,     \* number of calls begun
          fresh,     \* history: the call is alone, and found everything in step
          sound,     \* history: it took over no name, trusted no stale cache
                     \* and had no failure of a DDL statement
          odd        \* history: "overlap", "orphan" happened

dbVars == <<meta, phys, nextId>>
cacheVars == <<cache, loading, snap>>
jobVars == <<kind, old, rows, trx, made, todo, ok, fresh, sound>>
vars == <<dialect, dbVars, cacheVars, active, pc, jobVars, begun, odd>>

Statements == [rename : SUBSET (Name \X Name), drop : SUBSET Name, add : SUBSET Name]
NoStatement == [rename |-> {}, drop |-> {}, add |-> {}]

TypeOK ==
    /\ dialect \in Dialects
    /\ meta \in Table \cup {NoTable}
    /\ phys \in (SUBSET Name) \cup {NoTable}
    /\ nextId \in 1 .. MaxId + 1
    /\ cache \in [Inst -> Table \cup {NoTable, Unloaded}]
    /\ loading \in Change \cup {None}
    /\ snap \in Table \cup {NoTable}
    /\ active \subseteq Change
    /\ pc \in [Change -> {"idle", "create", "insert", "build", "commit", "undo",
                          "update", "plan", "alter", "delete", "dropTable",
                          "sync", "syncDrop", "leave", "reload", "publish"}]
    /\ kind \in [Change -> {"none", "create", "update", "delete", "sync"}]
    /\ old \in [Change -> Table \cup {NoTable}]
    /\ rows \in [Change -> Table]
    /\ trx \in [Change -> {"open", "dropped", "auto"}]
    /\ made \in [Change -> BOOLEAN]
    /\ todo \in [Change -> Statements]
    /\ ok \in [Change -> BOOLEAN]
    /\ begun \in 0 .. MaxBegun
    /\ fresh \in [Change -> BOOLEAN]
    /\ sound \in [Change -> BOOLEAN]
    /\ odd \subseteq {"overlap", "orphan"}

Init ==
    /\ dialect \in Dialects
    /\ meta = NoTable
    /\ phys = NoTable
    /\ nextId = 1
    /\ cache = [i \in Inst |-> NoTable]
    /\ loading = None
    /\ snap = NoTable
    /\ GateInit
    /\ pc = [o \in Change |-> "idle"]
    /\ kind = [o \in Change |-> "none"]
    /\ old = [o \in Change |-> NoTable]
    /\ rows = [o \in Change |-> {}]
    /\ trx = [o \in Change |-> "open"]
    /\ made = [o \in Change |-> FALSE]
    /\ todo = [o \in Change |-> NoStatement]
    /\ ok = [o \in Change |-> TRUE]
    /\ begun = 0
    /\ fresh = [o \in Change |-> FALSE]
    /\ sound = [o \in Change |-> TRUE]
    /\ odd = {}

-----------------------------------------------------------------------------
\* Metadata and physical table say the same.
InStep == IF meta = NoTable THEN phys = NoTable ELSE phys = Names(meta)

Go(o, from, to) == /\ pc[o] = from
                   /\ pc' = [pc EXCEPT ![o] = to]

\* The call throws; what it has to do first is at "to".
Throws(o, to) == /\ pc' = [pc EXCEPT ![o] = to]
                 /\ ok' = [ok EXCEPT ![o] = FALSE]

\* A DDL statement of the call fails.
DdlFails(o) == /\ "ddl" \in Faults
               /\ sound' = [sound EXCEPT ![o] = FALSE]

\* Calls that may still change the table.
Busy == {o \in Change : pc[o] \notin {"idle", "reload", "publish"}}

\* A call begins, where the metadata has been loaded: it spoils the freshness
\* of the others.
Begins(o, k) ==
    /\ begun < MaxBegun
    /\ pc[o] = "idle"
    /\ cache[At[o]] # Unloaded
    /\ begun' = begun + 1
    /\ kind' = [kind EXCEPT ![o] = k]
    /\ pc' = [pc EXCEPT ![o] = k]
    /\ ok' = [ok EXCEPT ![o] = TRUE]
    /\ fresh' = [p \in Change |->
                   p = o /\ Busy = {} /\ InStep]
    /\ sound' = [sound EXCEPT ![o] = TRUE]

\* The call has ended for the schema: its private state goes.
Done(o) == /\ kind' = [kind EXCEPT ![o] = "none"]
           /\ old' = [old EXCEPT ![o] = NoTable]
           /\ rows' = [rows EXCEPT ![o] = {}]
           /\ trx' = [trx EXCEPT ![o] = "open"]
           /\ made' = [made EXCEPT ![o] = FALSE]
           /\ todo' = [todo EXCEPT ![o] = NoStatement]
           /\ ok' = [ok EXCEPT ![o] = TRUE]
           /\ fresh' = [fresh EXCEPT ![o] = FALSE]
           /\ sound' = [sound EXCEPT ![o] = TRUE]

\* runWithSchemaLock(): a change that is refused has done nothing.
Begin(o, k) ==
    /\ Begins(o, k)
    /\ Enter(o)
    /\ odd' = IF active = {} THEN odd ELSE odd \cup {"overlap"}
    /\ UNCHANGED <<dialect, dbVars, cacheVars, old, rows, trx, made, todo>>

\* The lock is given back, by a call that has it; the metadata is reloaded
\* only if nothing was thrown.
End(o) ==
    /\ Go(o, "leave", IF ok[o] THEN "reload" ELSE "idle")
    /\ Leave({o} \cap active)
    /\ Done(o)
    /\ UNCHANGED <<dialect, dbVars, cacheVars, begun, odd>>

-----------------------------------------------------------------------------
\* createTable()

\* Postgres and MySQL differ in what a DROP TABLE does to its transaction:
\* Postgres makes it part of it, MySQL commits what there is and goes on
\* without one.
Open(o) == pc[o] \in {"insert", "build", "commit"} /\ trx[o] # "auto"
OtherOpen(o) == \E p \in Change \ {o} : Open(p) /\ (rows[p] # {} \/ trx[p] = "dropped")

\* A described table is refused; a physical one that nothing describes is
\* dropped in the transaction.
CreateChecks(o) ==
    /\ pc[o] = "create"
    /\ \/ /\ meta # NoTable
          /\ Throws(o, "leave")
          /\ UNCHANGED <<phys, trx, odd>>
       \/ /\ meta = NoTable /\ phys = NoTable
          /\ pc' = [pc EXCEPT ![o] = "insert"]
          /\ UNCHANGED <<phys, trx, odd, ok>>
       \/ /\ meta = NoTable /\ phys # NoTable
          /\ ~OtherOpen(o)
          /\ pc' = [pc EXCEPT ![o] = "insert"]
          /\ odd' = odd \cup {"orphan"}
          /\ IF dialect = "postgres"
             THEN trx' = [trx EXCEPT ![o] = "dropped"] /\ UNCHANGED phys
             ELSE trx' = [trx EXCEPT ![o] = "auto"] /\ phys' = NoTable
          /\ UNCHANGED ok
    /\ UNCHANGED <<dialect, meta, nextId, cacheVars, active, kind, old, rows, made,
                   todo, begun, fresh, sound>>

\* The body is not valid: the transaction is rolled back.
CreateRejected(o) ==
    /\ pc[o] = "insert"
    /\ Throws(o, "leave")
    /\ UNCHANGED <<dialect, dbVars, cacheVars, active, kind, old, rows, trx, made, todo,
                   begun, fresh, sound, odd>>

\* Mutation of CreateInserts: the rows are written outside the transaction.
CreateInsertsAtOnce(o) ==
    /\ Go(o, "insert", "build")
    /\ meta = NoTable
    /\ \E T \in Table :
          /\ T # {}
          /\ Ids(T) = nextId .. nextId + Cardinality(T) - 1
          /\ rows' = [rows EXCEPT ![o] = T]
          /\ nextId' = nextId + Cardinality(T)
          /\ meta' = T
    /\ UNCHANGED <<dialect, phys, cacheVars, active, kind, old, trx, made, todo, ok, begun,
                   fresh, sound, odd>>

\* The rows of the table and its columns; the unique name makes a second
\* transaction wait for the first, and fail after it.
CreateInserts(o) ==
    /\ pc[o] = "insert"
    /\ ~OtherOpen(o)
    /\ \/ /\ meta # NoTable
          /\ Throws(o, "leave")
          /\ UNCHANGED <<meta, nextId, rows>>
       \/ /\ meta = NoTable
          /\ \E T \in Table :
                /\ T # {}
                /\ Ids(T) = nextId .. nextId + Cardinality(T) - 1
                /\ rows' = [rows EXCEPT ![o] = T]
                /\ nextId' = nextId + Cardinality(T)
                /\ meta' = IF trx[o] = "auto" THEN T ELSE meta
          /\ pc' = [pc EXCEPT ![o] = "build"]
          /\ UNCHANGED ok
    /\ UNCHANGED <<dialect, phys, cacheVars, active, kind, old, trx, made, todo, begun,
                   fresh, sound, odd>>

\* CREATE TABLE on another connection, which skips a table that it sees there.
CreateBuilds(o) ==
    /\ pc[o] = "build"
    /\ \/ /\ phys' = IF phys = NoTable THEN Names(rows[o]) ELSE phys
          /\ made' = [made EXCEPT ![o] = TRUE]
          /\ pc' = [pc EXCEPT ![o] = "commit"]
          /\ UNCHANGED <<ok, sound>>
       \/ /\ DdlFails(o)
          /\ phys = NoTable
          /\ phys' \in {phys, Names(rows[o])}
          /\ Throws(o, "leave")
          /\ UNCHANGED made
    /\ UNCHANGED <<dialect, meta, nextId, cacheVars, active, kind, old, rows, trx, todo,
                   begun, fresh, odd>>

CreateCommits(o) ==
    /\ Go(o, "commit", "leave")
    /\ meta' = rows[o]
    /\ phys' = IF trx[o] = "dropped" THEN NoTable ELSE phys
    /\ UNCHANGED <<dialect, nextId, cacheVars, active, jobVars, begun, odd>>

\* The commit fails: after the rollback, the physical table is dropped again.
CreateCommitFails(o) ==
    /\ pc[o] = "commit"
    /\ "commit" \in Faults
    /\ trx[o] # "auto"
    /\ Throws(o, "undo")
    /\ UNCHANGED <<dialect, dbVars, cacheVars, active, kind, old, rows, trx, made, todo,
                   begun, fresh, sound, odd>>

CreateUndoes(o) ==
    /\ Go(o, "undo", "leave")
    /\ \/ phys' = NoTable /\ UNCHANGED sound
       \/ DdlFails(o) /\ UNCHANGED phys
    /\ UNCHANGED <<dialect, meta, nextId, cacheVars, active, kind, old, rows, trx, made,
                   todo, ok, begun, fresh, odd>>

-----------------------------------------------------------------------------
\* updateTable()

\* The rows that a body can make of the table: those of its columns that come
\* without an id are new, here at most one.  A column is not given the name
\* that a kept one has had: which of such bodies the unique index lets pass
\* depends on their order.
Bodies == {T \in Table :
              /\ T # {}
              /\ Ids(T) \subseteq Ids(meta) \cup {nextId}
              /\ \A c \in T, d \in meta :
                    c.name = d.name /\ d.id \in Ids(T) /\ c.id # nextId => c = d}

\* Nothing takes over a name that the table has had for another column.
IsPlain(T) == \A c \in T, d \in meta : c.name = d.name => c.id = d.id

UpdateRejected(o) ==
    /\ pc[o] = "update"
    /\ Throws(o, "leave")
    /\ UNCHANGED <<dialect, dbVars, cacheVars, active, kind, old, rows, trx, made, todo,
                   begun, fresh, sound, odd>>

\* The transaction on the rows; what the table was like is taken from the
\* cache, and a table that the cache does not have is not altered.
UpdateCommits(o) ==
    /\ meta # NoTable
    /\ Go(o, "update", IF cache[At[o]] = NoTable THEN "leave" ELSE "plan")
    /\ \E T \in Bodies :
          /\ meta' = T
          /\ nextId' = IF nextId \in Ids(T) THEN nextId + 1 ELSE nextId
          /\ sound' = [sound EXCEPT ![o] = IsPlain(T)]
    /\ old' = [old EXCEPT ![o] = cache[At[o]]]
    /\ fresh' = [fresh EXCEPT ![o] = @ /\ cache[At[o]] = meta]
    /\ UNCHANGED <<dialect, phys, cacheVars, active, kind, rows, trx, made, todo, ok,
                   begun, odd>>

\* Mutation of Diff: a column with a new name counts as unchanged.
DiffWithoutRenames(T, U) ==
    [rename |-> {},
     drop   |-> {c.name : c \in {d \in T : d.id \notin Ids(U)}},
     add    |-> {c.name : c \in {d \in U : d.id \notin Ids(T)}} \ Names(T)]

\* analyzeColumnChanges(): a column is renamed if its id has another name,
\* dropped if its id is gone, and added if its id is new, unless the table had
\* a column of that name.
Diff(T, U) ==
    [rename |-> {<<m[1].name, m[2].name>> : m \in
                    {x \in T \X U : x[1].id = x[2].id /\ x[1].name # x[2].name}},
     drop   |-> {c.name : c \in {d \in T : d.id \notin Ids(U)}},
     add    |-> {c.name : c \in {d \in U : d.id \notin Ids(T)}} \ Names(T)]

\* The rows are read again, after the commit.
UpdatePlans(o) ==
    /\ pc[o] = "plan"
    /\ \/ /\ meta = NoTable
          /\ Throws(o, "leave")
          /\ UNCHANGED <<phys, todo>>
       \/ /\ meta # NoTable /\ phys = NoTable
          /\ phys' = Names(meta)
          /\ pc' = [pc EXCEPT ![o] = "leave"]
          /\ UNCHANGED <<todo, ok>>
       \/ /\ meta # NoTable /\ phys # NoTable
          /\ todo' = [todo EXCEPT ![o] = Diff(old[o], meta)]
          /\ pc' = [pc EXCEPT ![o] = "alter"]
          /\ UNCHANGED <<phys, ok>>
    /\ UNCHANGED <<dialect, meta, nextId, cacheVars, active, kind, old, rows, trx, made,
                   begun, fresh, sound, odd>>

\* What goes to the database at once: on Postgres everything, in a
\* transaction; elsewhere one statement, renames before drops before adds.
Batches(s) ==
    CASE dialect = "postgres" -> {s}
      [] dialect # "postgres" /\ s.rename # {} ->
            {[NoStatement EXCEPT !.rename = {r}] : r \in s.rename}
      [] dialect # "postgres" /\ s.rename = {} /\ s.drop # {} ->
            {[NoStatement EXCEPT !.drop = {n}] : n \in s.drop}
      [] OTHER -> {[NoStatement EXCEPT !.add = {n}] : n \in s.add}

Minus(s, b) == [rename |-> s.rename \ b.rename, drop |-> s.drop \ b.drop,
                add |-> s.add \ b.add]

RenameAll(P, R) == (P \ {r[1] : r \in R}) \cup {r[2] : r \in R}

\* The database accepts the statements of b.
Executable(b) ==
    /\ phys # NoTable
    /\ {r[1] : r \in b.rename} \subseteq phys
    /\ {r[2] : r \in b.rename} \cap phys = {}
    /\ b.drop \subseteq RenameAll(phys, b.rename)
    /\ b.add \cap (RenameAll(phys, b.rename) \ b.drop) = {}

\* A transaction that has dropped the table keeps others from altering it.
Dropping == \E o \in Change : Open(o) /\ trx[o] = "dropped"

\* executeBatchSQL(): what has been executed stays, the rest is not tried.
Alter(o) ==
    /\ pc[o] = "alter"
    /\ ~Dropping
    /\ \/ /\ todo[o] = NoStatement
          /\ pc' = [pc EXCEPT ![o] = "leave"]
          /\ UNCHANGED <<phys, todo, ok, sound>>
       \/ /\ todo[o] # NoStatement
          /\ \E b \in Batches(todo[o]) :
                \/ /\ Executable(b)
                   /\ phys' = (RenameAll(phys, b.rename) \ b.drop) \cup b.add
                   /\ todo' = [todo EXCEPT ![o] = Minus(@, b)]
                   /\ UNCHANGED <<pc, ok, sound>>
                \/ /\ IF Executable(b) THEN DdlFails(o) ELSE UNCHANGED sound
                   /\ Throws(o, "leave")
                   /\ UNCHANGED <<phys, todo>>
    /\ UNCHANGED <<dialect, meta, nextId, cacheVars, active, kind, old, rows, trx, made,
                   begun, fresh, odd>>

-----------------------------------------------------------------------------
\* delete()

\* Postgres deletes the rows and drops the table in one transaction; for MySQL
\* the DROP TABLE commits the deletion of the rows before it is executed.
DeleteRows(o) ==
    /\ pc[o] = "delete"
    /\ \/ /\ meta = NoTable \/ "ddl" \in Faults
          /\ Throws(o, "leave")
          /\ UNCHANGED <<meta, phys>>
       \/ /\ meta # NoTable
          /\ meta' = NoTable
          /\ IF dialect = "postgres"
             THEN phys' = NoTable /\ pc' = [pc EXCEPT ![o] = "leave"]
             ELSE pc' = [pc EXCEPT ![o] = "dropTable"] /\ UNCHANGED phys
          /\ UNCHANGED ok
    /\ UNCHANGED <<dialect, nextId, cacheVars, active, kind, old, rows, trx, made, todo,
                   begun, fresh, sound, odd>>

DropTable(o) ==
    /\ pc[o] = "dropTable"
    /\ \/ /\ phys' = NoTable
          /\ pc' = [pc EXCEPT ![o] = "leave"]
          /\ UNCHANGED <<ok, sound>>
       \/ /\ DdlFails(o)
          /\ Throws(o, "leave")
          /\ UNCHANGED phys
    /\ UNCHANGED <<dialect, meta, nextId, cacheVars, active, kind, old, rows, trx, made,
                   todo, begun, fresh, odd>>

-----------------------------------------------------------------------------
\* POST /admin/metadata-sync/:id makes the physical table what the cache says,
\* and does not take the schema lock.
SyncBegins(o) ==
    /\ Begins(o, "sync")
    /\ UNCHANGED <<dialect, dbVars, cacheVars, active, old, rows, trx, made, todo, odd>>

SyncReads(o) ==
    /\ pc[o] = "sync"
    /\ \/ /\ meta = NoTable \/ cache[At[o]] = NoTable
          /\ Throws(o, "leave")
          /\ UNCHANGED <<phys, old, todo>>
       \/ /\ meta # NoTable /\ cache[At[o]] # NoTable /\ phys = NoTable
          /\ phys' = Names(cache[At[o]])
          /\ pc' = [pc EXCEPT ![o] = "leave"]
          /\ UNCHANGED <<old, todo, ok>>
       \/ /\ meta # NoTable /\ cache[At[o]] # NoTable /\ phys # NoTable
          /\ old' = [old EXCEPT ![o] = cache[At[o]]]
          /\ todo' = [todo EXCEPT ![o] =
                        [NoStatement EXCEPT !.drop = phys \ Names(cache[At[o]]),
                                            !.add = Names(cache[At[o]]) \ phys]]
          /\ pc' = [pc EXCEPT ![o] = "syncDrop"]
          /\ UNCHANGED <<phys, ok>>
    /\ sound' = [sound EXCEPT ![o] = cache[At[o]] = meta]
    /\ UNCHANGED <<dialect, meta, nextId, cacheVars, active, kind, rows, trx, made, begun,
                   fresh, odd>>

\* dropColumnDirectly(), column by column; what goes wrong is logged.
SyncDrops(o) ==
    /\ pc[o] = "syncDrop"
    /\ ~Dropping
    /\ \E n \in todo[o].drop :
          /\ \/ phys' = (IF phys = NoTable THEN phys ELSE phys \ {n}) /\ UNCHANGED sound
             \/ DdlFails(o) /\ UNCHANGED phys
          /\ todo' = [todo EXCEPT ![o].drop = @ \ {n}]
    /\ UNCHANGED <<dialect, meta, nextId, cacheVars, active, pc, kind, old, rows, trx,
                   made, ok, begun, fresh, odd>>

\* updateTable() from the physical columns to the cached ones; it creates a
\* table that has gone meanwhile.
SyncUpdates(o) ==
    /\ pc[o] = "syncDrop"
    /\ todo[o].drop = {}
    /\ IF phys = NoTable
       THEN /\ phys' = Names(old[o])
            /\ todo' = [todo EXCEPT ![o] = NoStatement]
            /\ pc' = [pc EXCEPT ![o] = "leave"]
       ELSE /\ pc' = [pc EXCEPT ![o] = "alter"]
            /\ UNCHANGED <<phys, todo>>
    /\ UNCHANGED <<dialect, meta, nextId, cacheVars, active, kind, old, rows, trx, made,
                   ok, begun, fresh, sound, odd>>

-----------------------------------------------------------------------------
\* The cache: what a load sees, and where it gets to.
Visible == IF meta = NoTable \/ phys = NoTable THEN NoTable ELSE meta

\* Another reload is under way: this one is refused.
Reload(o) ==
    /\ pc[o] = "reload"
    /\ IF loading = None
       THEN /\ loading' = o
            /\ snap' = Visible
            /\ pc' = [pc EXCEPT ![o] = "publish"]
       ELSE /\ pc' = [pc EXCEPT ![o] = "idle"]
            /\ UNCHANGED <<loading, snap>>
    /\ UNCHANGED <<dialect, dbVars, cache, active, jobVars, begun, odd>>

Publish(o) ==
    /\ Go(o, "publish", "idle")
    /\ cache' = [i \in Inst |-> IF cache[i] = Unloaded THEN Unloaded ELSE snap]
    /\ loading' = None
    /\ snap' = NoTable
    /\ UNCHANGED <<dialect, dbVars, active, jobVars, begun, odd>>

Boot(i) ==
    /\ cache[i] = Unloaded
    /\ cache' = [cache EXCEPT ![i] = Visible]
    /\ UNCHANGED <<dialect, dbVars, loading, snap, active, pc, jobVars, begun, odd>>

\* Instance i dies: its transactions are rolled back, its session of the schema
\* lock ends.
Crash(i) ==
    LET mine == {o \in Change : At[o] = i}
        Reset(f, v) == [o \in Change |-> IF At[o] = i THEN v ELSE f[o]]
    IN  /\ "crash" \in Faults
        /\ cache[i] # Unloaded
        /\ cache' = [cache EXCEPT ![i] = Unloaded]
        /\ IF loading \in mine THEN loading' = None /\ snap' = NoTable
                                ELSE UNCHANGED <<loading, snap>>
        /\ Leave(mine \cap active)
        /\ pc' = Reset(pc, "idle")
        /\ kind' = Reset(kind, "none")
        /\ old' = Reset(old, NoTable)
        /\ rows' = Reset(rows, {})
        /\ trx' = Reset(trx, "open")
        /\ made' = Reset(made, FALSE)
        /\ todo' = Reset(todo, NoStatement)
        /\ ok' = Reset(ok, TRUE)
        /\ fresh' = Reset(fresh, FALSE)
        /\ sound' = Reset(sound, TRUE)
        /\ UNCHANGED <<dialect, dbVars, begun, odd>>

Next ==
    \/ \E o \in Change :
          \/ \E k \in {"create", "update", "delete"} : Begin(o, k)
          \/ CreateChecks(o) \/ CreateRejected(o) \/ CreateInserts(o) \/ CreateBuilds(o)
          \/ CreateCommits(o) \/ CreateCommitFails(o) \/ CreateUndoes(o)
          \/ UpdateRejected(o) \/ UpdateCommits(o) \/ UpdatePlans(o) \/ Alter(o)
          \/ DeleteRows(o) \/ DropTable(o)
          \/ SyncBegins(o) \/ SyncReads(o) \/ SyncDrops(o) \/ SyncUpdates(o)
          \/ End(o) \/ Reload(o) \/ Publish(o)
    \/ \E i \in Inst : Boot(i) \/ Crash(i)

Spec == Init /\ [][Next]_vars

-----------------------------------------------------------------------------
(***************************************************************************)
(* A change or metadata-sync that runs alone, from a physical table and a  *)
(* cache that say what the metadata says, leaves a physical table and a    *)
(* metadata that agree, whether it succeeds or throws, if it gives no      *)
(* column an old name and no DDL statement fails.                          *)
(***************************************************************************)
SoundChangesMigrate ==
    \A o \in Change : pc[o] = "leave" /\ fresh[o] /\ sound[o] => InStep

(***************************************************************************)
(* The columns of a described table can be queried at all: no crash, no    *)
(* failure, no metadata-sync and no stale cache leaves its rows without a  *)
(* physical table, as long as changes of one instance have not overlapped  *)
(* and no physical table without rows has been replaced.                   *)
(***************************************************************************)
MetadataHasTable == odd = {} /\ meta # NoTable => phys # NoTable

(***************************************************************************)
(* createTable() reports "Physical schema migrated": then the table that   *)
(* its rows describe is there.                                             *)
(***************************************************************************)
CreatedMeansMigrated ==
    \A o \in Change :
       made[o] /\ ok[o] /\ pc[o] = "leave" /\ meta = rows[o] => phys # NoTable

(***************************************************************************)
(* updateTable() reports "metadata + physical schema" of a change that ran *)
(* alone and from an up-to-date cache: then the two agree.                 *)
(***************************************************************************)
UpdatedMeansMigrated ==
    \A o \in Change :
       kind[o] = "update" /\ pc[o] = "leave" /\ ok[o] /\ fresh[o] => InStep

(***************************************************************************)
(* metadata-sync takes the "metadata as source of truth": one that runs    *)
(* alone does not part a physical table from the metadata it agreed with.  *)
(***************************************************************************)
SyncFollowsMetadata ==
    \A o \in Change :
       kind[o] = "sync" /\ pc[o] = "leave" /\ ok[o] /\ fresh[o] => InStep
=============================================================================
