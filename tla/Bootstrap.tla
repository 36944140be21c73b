----------------------------- MODULE Bootstrap ------------------------------
(***************************************************************************)
(* The first start of the server.  main.ts runs init-db (tables, foreign   *)
(* keys, junction tables, comparison with the snapshot; on Mongo,          *)
(* collections), then BootstrapService.onModuleInit() writes the metadata  *)
(* of the snapshot and the default records, and sets isInit.  Nothing      *)
(* excludes two instances from doing so at once, and each may die between  *)
(* any two of its steps; the process manager starts it again.              *)
(***************************************************************************)
EXTENDS Naturals, FiniteSets, Sequences, SequencesExt

CONSTANTS Node,
          TableSeq,  \* the tables of snapshot.json, in order
          SnapCol,   \* [table -> names of its columns]
          SnapRef,   \* [table -> targets of its many-to-one relations]
          OldCol,    \* the columns that an older snapshot gave to each table
          OldRef,    \* the relations it gave to each table
          Junction,  \* junction tables of the snapshot
          Unique,    \* tables with a unique key
          TableDef,  \* table_definition
          RecordSeq, \* the records of init.json, in order
          KindOf,    \* [record -> "setting", "user", "method", "route", "hook", "menu"]
          RefOf,     \* [record -> what it refers to by name, or "none"]
          Unguarded, \* kinds whose table has no unique key
          Critical,  \* the record that every later start looks for
          MaxDeaths, \* bound on the deaths that no error explains
          MaxErrors, \* bound on the queries that fail
          MaxEdits   \* bound on the changes that users make

Table  == ToSet(TableSeq)
Record == ToSet(RecordSeq)
\* Columns; that of a relation has the name of its target.
Col == UNION {SnapCol[t] \cup SnapRef[t] \cup OldCol \cup OldRef[t] : t \in Table}

\* A column has not the name of a table, as that of a relation has.  There is one
\* record of settings; records are in the order in which they are processed.
ASSUME BootstrapAssumption ==
    /\ TableDef \in Table /\ TableSeq \in Seq(Table)
    /\ Critical \in Record /\ RecordSeq \in Seq(Record)
    /\ Unique \subseteq Table
    /\ {SnapRef, OldRef} \subseteq [Table -> SUBSET Table]
    /\ \A t \in Table : (SnapCol[t] \cup OldCol) \cap Table = {}
    /\ RefOf \in [Record -> Record \cup Table \cup {"none"}]
    /\ KindOf[Critical] # "setting"
    /\ \A r, s \in Record : KindOf[r] = "setting" /\ KindOf[s] = "setting" => r = s
    /\ \A i \in DOMAIN RecordSeq :
          LET r == RecordSeq[i]
              Before == {RecordSeq[j] : j \in 1 .. i - 1}
          IN /\ RefOf[r] \in Record => RefOf[r] \in Before
             /\ KindOf[r] \in {"route", "hook"} => \E m \in Before : KindOf[m] = "method"
    /\ {MaxDeaths, MaxErrors, MaxEdits} \subseteq Nat

VARIABLES
    db,        \* "sql" or "mongo"
    cols,      \* [table -> column -> "none", "old" (to be modified) or "new"]
    fks,       \* [table -> targets that its foreign keys refer to]
    keyed,     \* tables whose unique keys exist
    made,      \* physical tables
    junctions, \* physical junction tables
    meta,      \* [table -> number of its rows in table_definition]
    described, \* tables whose column and relation rows exist
    settings,  \* isInit of each row of setting_definition, by id
    count,     \* [record -> number of its rows]
    linked,    \* records whose methods are stored
    bare,      \* records stored without what they refer to
    edited,    \* records that a user has changed
    step,      \* where each instance is
    pos,       \* its place in the list that it works through
    seen,      \* what its last query told it
    diff,      \* what compareSchemas() told it
    lost,      \* history: records given up after an error, and tables of which a row
               \* or a foreign key was
    gaveUp,    \* history: an instance got no connection, and serves all the same
    overlap,   \* history: two instances have initialised at once
    deaths, errors, edits

schema   == <<cols, fks, keyed, made, junctions>>
rows     == <<meta, described, settings, count, linked, bare, edited>>
history  == <<lost, gaveUp, overlap, deaths, errors, edits>>
bootVars == <<db, schema, rows, step, pos, seen, diff, history>>

Steps == {"off", "create", "make", "key", "fk", "junction", "junctions",
          "compare", "migrate", "sync", "nest", "meta", "insert", "ids", "describe",
          "physical", "find", "write", "link", "last", "isInit", "critical", "up"}

Initialising == Steps \ {"off", "critical", "up"}

NoDiff == [add |-> {}, remove |-> {}, modify |-> {}, unrelate |-> {},
           relate |-> {}, bind |-> {}]

BootTypeOK ==
    /\ cols \in [Table -> [Col -> {"none", "old", "new"}]]
    /\ fks \in [Table -> SUBSET Table]
    /\ keyed \subseteq Unique /\ made \subseteq Table
    /\ junctions \subseteq Junction
    /\ meta \in [Table -> Nat] /\ described \subseteq Table
    /\ settings \in Seq(BOOLEAN) /\ \A r \in Record : KindOf[r] = "setting" => Len(settings) = count[r]
    /\ count \in [Record -> Nat]
    /\ linked \cup bare \cup edited \subseteq Record /\ lost \subseteq Record \cup Table
    /\ step \in [Node -> Steps]
    /\ seen \in [Node -> SUBSET (Junction \cup Table \cup Record)]
    /\ {overlap, gaveUp} \subseteq BOOLEAN
    /\ deaths <= MaxDeaths /\ errors <= MaxErrors /\ edits <= MaxEdits
    /\ \A n \in Node : step[n] # "migrate" => diff[n] = NoDiff

\* The database is empty, or an older version died when it had made the tables.
BootInit ==
    /\ db \in {"sql", "mongo"}
    /\ \E older \in IF db = "sql" THEN BOOLEAN ELSE {FALSE} :
          /\ made = IF older THEN Table ELSE {}
          /\ keyed = made \cap Unique
          /\ fks = [t \in Table |-> IF older THEN OldRef[t] ELSE {}]
          /\ cols = [t \in Table |-> [c \in Col |->
                       IF older /\ c \in OldCol \cup OldRef[t]
                       THEN IF c \in OldCol THEN "old" ELSE "new" ELSE "none"]]
    /\ junctions = {} /\ described = {}
    /\ meta = [t \in Table |-> 0]
    /\ settings = <<>>
    /\ count = [r \in Record |-> 0]
    /\ linked = {} /\ bare = {} /\ edited = {} /\ lost = {}
    /\ step = [n \in Node |-> "off"]
    /\ pos = [n \in Node |-> 0]
    /\ seen = [n \in Node |-> {}]
    /\ diff = [n \in Node |-> NoDiff]
    /\ overlap = FALSE /\ gaveUp = FALSE
    /\ deaths = 0 /\ errors = 0 /\ edits = 0

\* What BootstrapService looks at: the row with the smallest id.
Initialised == settings # <<>> /\ settings[1]

-----------------------------------------------------------------------------
Go(n, from, to, i) ==
    /\ step[n] = from
    /\ step' = [step EXCEPT ![n] = to]
    /\ pos' = [pos EXCEPT ![n] = i]

\* The next entry of a list, or the next phase.
Onward(n, from, list, again, to) ==
    IF pos[n] < Len(list) THEN Go(n, from, again, pos[n] + 1)
                          ELSE Go(n, from, to, 1)

Learns(n, what) == seen' = [seen EXCEPT ![n] = what]

TableAt(n)  == TableSeq[pos[n]]
RecordAt(n) == RecordSeq[pos[n]]

Leaves(n) ==
    /\ step' = [step EXCEPT ![n] = "off"]
    /\ pos' = [pos EXCEPT ![n] = 0]
    /\ Learns(n, {})
    /\ diff' = [diff EXCEPT ![n] = NoDiff]

\* An error that nobody catches ends the process.
Exits(n, from) == step[n] = from /\ Leaves(n)

Fails == errors < MaxErrors /\ errors' = errors + 1

\* Of the history, only what the step says.
OnlyErrors == UNCHANGED <<lost, gaveUp, overlap, deaths, edits>>

-----------------------------------------------------------------------------
(***************************************************************************)
(* init-db, before the modules of the server exist.                        *)
(***************************************************************************)

\* On SQL first() without an order returns any row; on Mongo the query is for
\* isInit: true.
Start(n) ==
    /\ \/ settings = <<>> /\ Go(n, "off", "create", 1)
       \/ \E i \in DOMAIN settings :
             IF settings[i] THEN Go(n, "off", "nest", 1)
             ELSE /\ db = "mongo" => TRUE \notin ToSet(settings)
                  /\ Go(n, "off", "create", 1)
    /\ overlap' = (overlap \/ \E m \in Node \ {n} : step[m] \in Initialising)
    /\ UNCHANGED <<db, schema, rows, seen, diff, lost, gaveUp, deaths, errors, edits>>

\* After the tables: on Mongo there is nothing but collections and indexes.
AfterTables == IF db = "sql" THEN "fk" ELSE "nest"

\* Mutation of LookForTable: CREATE TABLE without asking hasTable().
MakeEveryTable(n) ==
    /\ Go(n, "create", "make", pos[n])
    /\ UNCHANGED <<db, schema, rows, seen, diff, history>>

LookForTable(n) ==
    /\ step[n] = "create"
    /\ IF TableAt(n) \in made
       THEN Onward(n, "create", TableSeq, "create", AfterTables)
       ELSE Go(n, "create", "make", pos[n])
    /\ UNCHANGED <<db, schema, rows, seen, diff, history>>

\* CREATE TABLE; an error when another instance has been faster.
MakeTable(n) ==
    LET t == TableAt(n) IN
    /\ step[n] = "make"
    /\ IF t \in made
       THEN Exits(n, "make") /\ UNCHANGED <<made, cols>>
       ELSE /\ Go(n, "make", "key", pos[n])
            /\ made' = made \cup {t}
            /\ cols' = [cols EXCEPT ![t] = [c \in Col |->
                          IF c \in SnapCol[t] \cup SnapRef[t] THEN "new" ELSE "none"]]
            /\ UNCHANGED <<seen, diff>>
    /\ UNCHANGED <<db, fks, keyed, junctions, rows, history>>

\* Unique keys and indexes are made by statements of their own.
MakeKeys(n) ==
    /\ Onward(n, "key", TableSeq, "create", AfterTables)
    /\ keyed' = keyed \cup ({TableAt(n)} \cap Unique)
    /\ UNCHANGED <<db, fks, made, cols, junctions, rows, seen, diff, history>>

\* The foreign keys that addForeignKeys() can add to a table.
Bindable(t) == {u \in SnapRef[t] : cols[t][u] # "none"}

AddForeignKeys(n) ==
    LET t == TableAt(n) IN
    /\ Onward(n, "fk", TableSeq, "fk", "junction")
    /\ fks' = [fks EXCEPT ![t] = @ \cup Bindable(t)]
    /\ UNCHANGED <<db, keyed, made, cols, junctions, rows, seen, diff, history>>

\* Any error is taken for "already exists", and the start goes on.
ForeignKeyFails(n) ==
    LET t == TableAt(n) IN
    /\ Fails
    /\ Onward(n, "fk", TableSeq, "fk", "junction")
    /\ \E u \in Bindable(t) \ fks[t] :
          fks' = [fks EXCEPT ![t] = @ \cup (Bindable(t) \ {u})]
    /\ lost' = lost \cup {t}
    /\ UNCHANGED <<db, keyed, made, cols, junctions, rows, seen, diff, gaveUp, overlap,
                   deaths, edits>>

\* createJunctionTables(): first looks which are missing ...
LookForJunctions(n) ==
    /\ Go(n, "junction", "junctions", 1)
    /\ Learns(n, Junction \ junctions)
    /\ UNCHANGED <<db, schema, rows, diff, history>>

\* ... then makes one after the other.
MakeJunction(n) ==
    /\ \/ /\ seen[n] = {}
          /\ Go(n, "junctions", "compare", 1)
          /\ UNCHANGED <<junctions, seen, diff>>
       \/ \E j \in seen[n] :
             IF j \in junctions
             THEN Exits(n, "junctions") /\ UNCHANGED junctions
             ELSE /\ Go(n, "junctions", "junctions", 1)
                  /\ junctions' = junctions \cup {j}
                  /\ Learns(n, seen[n] \ {j})
                  /\ UNCHANGED diff
    /\ UNCHANGED <<db, fks, keyed, made, cols, rows, history>>

\* compareSchemas(): unique keys are not looked at.
Difference(t) ==
    [add      |-> {c \in SnapCol[t] : cols[t][c] = "none"},
     remove   |-> {c \in Col \ (SnapCol[t] \cup SnapRef[t] \cup fks[t]) :
                     cols[t][c] # "none"},
     modify   |-> {c \in SnapCol[t] : cols[t][c] = "old"},
     unrelate |-> fks[t] \ SnapRef[t],
     relate   |-> {u \in SnapRef[t] \ fks[t] : cols[t][u] = "none"},
     bind     |-> {}]

Compare(n) ==
    /\ Go(n, "compare", "migrate", pos[n])
    /\ diff' = [diff EXCEPT ![n] = Difference(TableAt(n))]
    /\ UNCHANGED <<db, schema, rows, seen, history>>

\* The parts of a difference are applied in this order, each when those before
\* it are done; a new relation gets its column, then its foreign key.
Parts == <<"add", "remove", "modify", "unrelate", "bind", "relate">>

NextPart(n) == {p \in DOMAIN Parts : /\ diff[n][Parts[p]] # {}
                                     /\ \A q \in 1 .. p - 1 : diff[n][Parts[q]] = {}}

\* An ALTER TABLE fails when another instance has already made the change.
Stale(n, part) ==
    LET t == TableAt(n) IN
    CASE part \in {"add", "relate"}      -> \E c \in diff[n][part] : cols[t][c] # "none"
      [] part \in {"remove", "modify", "unrelate"} -> \E c \in diff[n][part] : cols[t][c] = "none"
      [] part = "bind"                   -> FALSE

AlterTable(n, part) ==
    LET t == TableAt(n)
        D == diff[n][part]
        Becomes(v) == [cols EXCEPT ![t] = [c \in Col |-> IF c \in D THEN v ELSE @[c]]]
        bound == IF part = "relate" THEN D ELSE {}
        rest == [diff[n] EXCEPT ![part] = {}]
    IN /\ cols' = CASE part \in {"add", "modify", "relate"} -> Becomes("new")
                    [] part \in {"remove", "unrelate"}      -> Becomes("none")
                    [] part = "bind"                        -> cols
       /\ fks' = CASE part = "bind"     -> [fks EXCEPT ![t] = @ \cup D]
                   [] part = "unrelate" -> [fks EXCEPT ![t] = @ \ D]
                   [] OTHER             -> fks
       /\ diff' = [diff EXCEPT ![n] = [rest EXCEPT !.bind = rest.bind \cup bound]]

\* Mutation of Migrate: a new relation gets its column and no foreign key.
MigrateUnbound(n) ==
    /\ step[n] = "migrate"
    /\ \/ /\ [diff[n] EXCEPT !.bind = {}] = NoDiff
          /\ Onward(n, "migrate", TableSeq, "compare", "sync")
          /\ UNCHANGED <<cols, fks, seen, diff>>
       \/ \E p \in NextPart(n) :
             IF Stale(n, Parts[p])
             THEN Exits(n, "migrate") /\ UNCHANGED <<cols, fks>>
             ELSE AlterTable(n, Parts[p]) /\ UNCHANGED <<step, pos, seen>>
    /\ UNCHANGED <<db, keyed, made, junctions, rows, history>>

Migrate(n) ==
    /\ step[n] = "migrate"
    /\ \/ /\ diff[n] = NoDiff
          /\ Onward(n, "migrate", TableSeq, "compare", "sync")
          /\ UNCHANGED <<cols, fks, seen, diff>>
       \/ \E p \in NextPart(n) :
             IF Stale(n, Parts[p])
             THEN Exits(n, "migrate") /\ UNCHANGED <<cols, fks>>
             ELSE AlterTable(n, Parts[p]) /\ UNCHANGED <<step, pos, seen>>
    /\ UNCHANGED <<db, keyed, made, junctions, rows, history>>

\* syncJunctionTables(): looks and makes what is still missing.
SyncJunctions(n) ==
    /\ Go(n, "sync", "nest", 1)
    /\ junctions' = Junction
    /\ UNCHANGED <<db, fks, keyed, made, cols, rows, seen, diff, history>>

-----------------------------------------------------------------------------
(***************************************************************************)
(* BootstrapService.onModuleInit().                                        *)
(***************************************************************************)
\* Mutation of ReadSetting: isInit is not looked at.
ReadSettingAlways(n) ==
    /\ Go(n, "nest", "meta", 1)
    /\ overlap' = (overlap \/ \E m \in Node \ {n} : step[m] \in Initialising)
    /\ UNCHANGED <<db, schema, rows, seen, diff, lost, gaveUp, deaths, errors, edits>>

ReadSetting(n) ==
    /\ IF Initialised THEN Go(n, "nest", "critical", 1) ELSE Go(n, "nest", "meta", 1)
    /\ overlap' = (overlap \/ /\ ~Initialised
                              /\ \E m \in Node \ {n} : step[m] \in Initialising)
    /\ UNCHANGED <<db, schema, rows, seen, diff, lost, gaveUp, deaths, errors, edits>>

\* waitForDatabaseConnection() gives up: the server starts all the same.
NoConnection(n) ==
    /\ Fails
    /\ Go(n, "nest", "up", 1)
    /\ gaveUp' = TRUE
    /\ UNCHANGED <<db, schema, rows, seen, diff, lost, overlap, deaths, edits>>

\* Which tables have their row: on SQL all of them in a transaction, on Mongo
\* one after the other.
LookForMeta(n) ==
    /\ Go(n, "meta", "insert", pos[n])
    /\ Learns(n, {t \in IF db = "sql" THEN Table ELSE {TableAt(n)} : meta[t] = 0})
    /\ UNCHANGED <<db, schema, rows, diff, history>>

\* A second row of one name violates the unique key, if the key was made.  On
\* SQL the transaction fails and its error ends the process; on Mongo the
\* processor logs it.
InsertMeta(n) ==
    LET clash == TableDef \in keyed /\ \E t \in seen[n] : meta[t] > 0
        Inserted == [t \in Table |-> IF t \in seen[n] THEN meta[t] + 1 ELSE meta[t]]
    IN /\ step[n] = "insert"
       /\ IF db = "sql"
          THEN IF clash
               THEN Exits(n, "insert") /\ UNCHANGED <<meta, described>>
               ELSE /\ Go(n, "insert", "physical", 1)
                    /\ meta' = Inserted
                    /\ described' = Table
                    /\ UNCHANGED <<seen, diff>>
          ELSE /\ Onward(n, "insert", TableSeq, "meta", "ids")
               /\ meta' = IF clash THEN meta ELSE Inserted
               /\ UNCHANGED <<described, seen, diff>>
       /\ UNCHANGED <<db, schema, settings, count, linked, bare, edited, history>>

\* Mongo: the ids of the tables that have a row (tableNameToId).
LoadIds(n) ==
    /\ Go(n, "ids", "describe", 1)
    /\ Learns(n, {t \in Table : meta[t] > 0})
    /\ UNCHANGED <<db, schema, rows, diff, history>>

\* Column and relation documents of one table after the other; those of a table
\* without an id, and relations to one, are passed over.
DescribeTable(n) ==
    LET t == TableAt(n) IN
    /\ Onward(n, "describe", TableSeq, "describe", "find")
    /\ described' = IF {t} \cup SnapRef[t] \subseteq seen[n] THEN described \cup {t}
                                                          ELSE described
    /\ UNCHANGED <<db, schema, meta, settings, count, linked, bare, edited, seen, diff, history>>

\* Mongo: processMongo() logs a failing query for a document and goes on.
MetaFails(n) ==
    /\ db = "mongo" /\ Fails
    /\ \/ step[n] \in {"meta", "insert"} /\ Onward(n, step[n], TableSeq, "meta", "ids")
       \/ Onward(n, "describe", TableSeq, "describe", "find")
    /\ lost' = lost \cup {TableAt(n)}
    /\ UNCHANGED <<db, schema, rows, seen, diff, gaveUp, overlap, deaths, edits>>

\* syncPhysicalSchemaFromMetadata(): each error is only logged.
SyncPhysical(n) ==
    /\ Go(n, "physical", "find", 1)
    /\ cols' = [t \in Table |-> [c \in Col |->
                  IF c \in SnapCol[t] /\ cols[t][c] = "old" THEN "new" ELSE cols[t][c]]]
    /\ UNCHANGED <<db, fks, keyed, made, junctions, rows, seen, diff, history>>

-----------------------------------------------------------------------------
(***************************************************************************)
(* DefaultDataService: each record is looked for by its unique identifier, *)
(* then updated or inserted, then its junction rows are written.  The      *)
(* processors of the tables differ in what becomes of a name that is not   *)
(* found.                                                                  *)
(***************************************************************************)
Of(r, kind) == KindOf[r] = kind

Known(name) == IF name \in Table THEN meta[name] > 0
               ELSE name \in Record /\ count[name] > 0

\* RouteDefinitionProcessor: a route whose table has no row is left out.
RouteDropped(r) == Of(r, "route") /\ ~Known(RefOf[r])

\* HookDefinitionProcessor: so is a hook whose route is not there.
HookDropped(r) == Of(r, "hook") /\ RefOf[r] # "none" /\ ~Known(RefOf[r])

\* UserDefinitionProcessor: a user whose role is not found has none.
UserBare(r) == Of(r, "user") /\ RefOf[r] # "none" /\ ~Known(RefOf[r])

\* MenuDefinitionProcessor: an item whose parent is not found goes to the top.
MenuBare(r) == Of(r, "menu") /\ RefOf[r] # "none" /\ ~Known(RefOf[r])

\* The methods that are stored with a route are those of its afterUpsert(); on
\* Mongo they are the inverse of the methods' routes, which nobody writes.
RouteLinks(r) == Of(r, "route") /\ db = "sql" /\ \E m \in Record : Of(m, "method") /\ Known(m)

\* On Mongo a hook carries its methods itself.
HookLinks(r) == Of(r, "hook") /\ db = "sql" /\ \E m \in Record : Of(m, "method") /\ Known(m)

\* A user that exists is left alone, whatever differs.
UserKept(r) == Of(r, "user")

NextRecord(n, from) == Onward(n, from, RecordSeq, "find", "last")

\* transformRecords(), then the query for what is there.
FindRecord(n) ==
    LET r == RecordAt(n) IN
    /\ step[n] = "find"
    /\ IF RouteDropped(r) \/ HookDropped(r)
       THEN NextRecord(n, "find") /\ lost' = lost \cup {r} /\ UNCHANGED seen
       ELSE /\ Go(n, "find", "write", pos[n])
            /\ Learns(n, IF count[r] > 0 THEN {r} ELSE {})
            /\ UNCHANGED lost
    /\ UNCHANGED <<db, schema, rows, diff, gaveUp, overlap, deaths, errors, edits>>

AfterUpsert(r) == IF Of(r, "route") \/ Of(r, "hook") THEN "link" ELSE "find"

Upserted(n, r) == IF AfterUpsert(r) = "link" THEN Go(n, "write", "link", pos[n])
                                             ELSE NextRecord(n, "write")

\* A row with or without what its record refers to; on Mongo with its methods.
Stored(r) ==
    /\ bare' = IF UserBare(r) \/ MenuBare(r) THEN bare \cup {r} ELSE bare \ {r}
    /\ linked' = IF Of(r, "hook") /\ db = "mongo" THEN linked \cup {r} ELSE linked

\* Mutation of UpdateRecord: only a new record gets its junction rows.
UpdateRecordAlone(n) ==
    LET r == RecordAt(n) IN
    /\ r \in seen[n]
    /\ NextRecord(n, "write")
    /\ edited' = edited \ {r}
    /\ settings' = IF Of(r, "setting") THEN [settings EXCEPT ![1] = FALSE] ELSE settings
    /\ UNCHANGED <<db, schema, meta, described, count, linked, bare, seen, diff, history>>

\* A record that differs is overwritten; isInit of the setting is FALSE.
UpdateRecord(n) ==
    LET r == RecordAt(n) IN
    /\ r \in seen[n]
    /\ Upserted(n, r)
    /\ IF UserKept(r)
       THEN UNCHANGED <<edited, bare, linked, settings>>
       ELSE /\ edited' = edited \ {r}
            /\ Stored(r)
            /\ settings' = IF Of(r, "setting") THEN [settings EXCEPT ![1] = FALSE] ELSE settings
    /\ UNCHANGED <<db, schema, meta, described, count, seen, diff, history>>

\* A second row violates the unique key, if its table has one that was made.
Guarded(r) == /\ KindOf[r] \notin Unguarded
              /\ KindOf[r] \in Table => KindOf[r] \in keyed

InsertRecord(n) ==
    LET r == RecordAt(n) IN
    /\ r \notin seen[n]
    /\ IF Guarded(r) /\ count[r] > 0
       THEN NextRecord(n, "write") /\ UNCHANGED <<settings, count, linked, bare>>
       ELSE /\ Upserted(n, r)
            /\ count' = [count EXCEPT ![r] = @ + 1]
            /\ Stored(r)
            /\ settings' = IF Of(r, "setting") THEN Append(settings, FALSE) ELSE settings
    /\ UNCHANGED <<db, schema, meta, described, edited, seen, diff, history>>

WriteRecord(n) == step[n] = "write" /\ (UpdateRecord(n) \/ InsertRecord(n))

\* A query for a record fails: it is logged, and the next record follows.
RecordFails(n) ==
    /\ Fails
    /\ step[n] \in {"write", "link"}
    /\ NextRecord(n, step[n])
    /\ lost' = lost \cup {RecordAt(n)}
    /\ UNCHANGED <<db, schema, rows, seen, diff, gaveUp, overlap, deaths, edits>>

\* Records whose transformation has a query to make.
Asks(r) == Of(r, "route") \/ Of(r, "hook") \/ RefOf[r] # "none"

\* transformRecords() has no catch of its own: a query that fails in it costs all
\* records of the table that it was called for (of menus, those with a parent).
TransformFails(n) ==
    /\ Fails
    /\ step[n] = "find" /\ Asks(RecordAt(n))
    /\ \A j \in 1 .. pos[n] - 1 : KindOf[RecordSeq[j]] = KindOf[RecordAt(n)] => ~Asks(RecordSeq[j])
    /\ \E i \in pos[n] .. Len(RecordSeq) :
          /\ KindOf[RecordSeq[i]] = KindOf[RecordAt(n)]
          /\ \A j \in i + 1 .. Len(RecordSeq) : KindOf[RecordSeq[j]] # KindOf[RecordAt(n)]
          /\ IF i < Len(RecordSeq) THEN Go(n, "find", "find", i + 1) ELSE Go(n, "find", "last", 1)
          /\ lost' = lost \cup {RecordSeq[j] : j \in pos[n] .. i}
    /\ UNCHANGED <<db, schema, rows, seen, diff, gaveUp, overlap, deaths, edits>>

LinkRecord(n) ==
    LET r == RecordAt(n) IN
    /\ NextRecord(n, "link")
    /\ linked' = IF RouteLinks(r) \/ HookLinks(r) THEN linked \cup {r} ELSE linked
    /\ UNCHANGED <<db, schema, meta, described, settings, count, bare, edited, seen, diff, history>>

\* The setting is read again: without it the error ends the process.
ReadSettingAgain(n) ==
    /\ IF settings = <<>> THEN Exits(n, "last")
                          ELSE Go(n, "last", "isInit", 1) /\ UNCHANGED <<seen, diff>>
    /\ UNCHANGED <<db, schema, rows, history>>

SetIsInit(n) ==
    /\ Go(n, "isInit", "up", 1)
    /\ settings' = [settings EXCEPT ![1] = TRUE]
    /\ UNCHANGED <<db, schema, meta, described, count, linked, bare, edited, seen, diff, history>>

\* ensureCriticalRecords(): errors are only logged.
EnsureCritical(n) ==
    /\ Go(n, "critical", "up", 1)
    /\ \/ count' = [count EXCEPT ![Critical] = IF @ = 0 THEN 1 ELSE @] /\ UNCHANGED errors
       \/ Fails /\ UNCHANGED count
    /\ OnlyErrors
    /\ UNCHANGED <<db, schema, meta, described, settings, linked, bare, edited, seen, diff>>

-----------------------------------------------------------------------------
(***************************************************************************)
(* The world around.                                                       *)
(***************************************************************************)
\* A user of an instance that serves an initialised database changes a record.
Edit(r) ==
    /\ Initialised /\ \E n \in Node : step[n] = "up"
    /\ edits < MaxEdits /\ edits' = edits + 1
    /\ count[r] > 0
    /\ edited' = edited \cup {r}
    /\ UNCHANGED <<db, schema, meta, described, settings, count, linked, bare, step, pos,
                   seen, diff, lost, gaveUp, overlap, deaths, errors>>

Die(n) ==
    /\ step[n] # "off"
    /\ deaths < MaxDeaths /\ deaths' = deaths + 1
    /\ Leaves(n)
    /\ UNCHANGED <<db, schema, rows, lost, gaveUp, overlap, errors, edits>>

InitDb(n) == \/ Start(n) \/ LookForTable(n) \/ MakeTable(n) \/ MakeKeys(n)
             \/ AddForeignKeys(n) \/ LookForJunctions(n) \/ MakeJunction(n)
             \/ Compare(n) \/ Migrate(n) \/ SyncJunctions(n)

ModuleInit(n) == \/ ReadSetting(n) \/ LookForMeta(n) \/ InsertMeta(n)
                 \/ LoadIds(n) \/ DescribeTable(n) \/ SyncPhysical(n) \/ FindRecord(n)
                 \/ WriteRecord(n) \/ LinkRecord(n) \/ ReadSettingAgain(n)
                 \/ SetIsInit(n) \/ EnsureCritical(n)

BootNext == \/ \E n \in Node : \/ InitDb(n) \/ ModuleInit(n)
                               \/ NoConnection(n) \/ ForeignKeyFails(n) \/ MetaFails(n)
                               \/ RecordFails(n) \/ TransformFails(n) \/ Die(n)
            \/ \E r \in Record : Edit(r)

\* The process manager starts a dead instance again, and its start goes on.
BootFairness == \A n \in Node : WF_bootVars(InitDb(n) \/ ModuleInit(n))

BootSpec == BootInit /\ [][BootNext]_bootVars /\ BootFairness

-----------------------------------------------------------------------------
(***************************************************************************)
(* Properties.                                                             *)
(***************************************************************************)

\* A database that says isInit has everything that the snapshot and the default
\* data name, but for what a start gave up after an error that it only logged:
\* records, foreign keys, and on Mongo rows of the metadata.  So however often,
\* and where, the starts before it died; and nothing is in it twice.  When two
\* instances overlapped, the one that was slower may still owe a foreign key or a
\* junction row, and both may have entered a record.
InitialisedIsComplete ==
    Initialised =>
        /\ overlap \/ \A r \in Record : count[r] <= 1
        /\ overlap \/ \A t \in Table : meta[t] <= 1
        /\ made = Table
        /\ \A t \in Table :
              /\ meta[t] > 0 \/ (db = "mongo" /\ t \in lost)
              /\ t \in described \/ (db = "mongo" /\ ({t} \cup SnapRef[t]) \cap lost # {})
        /\ db = "sql" => /\ junctions = Junction
                         /\ \A t \in Table : /\ fks[t] \subseteq SnapRef[t]
                                             /\ overlap \/ t \in lost \/ SnapRef[t] \subseteq fks[t]
                         /\ \A t \in Table, c \in Col :
                               cols[t][c] = IF c \in SnapCol[t] \cup SnapRef[t]
                                            THEN "new" ELSE "none"
        /\ \A r \in Record \ lost : count[r] > 0
        /\ \A r \in bare : RefOf[r] \in lost
        /\ \A r \in Record \ (lost \cup linked) : AfterUpsert(r) = "link" =>
              \/ overlap
              \/ Of(r, "route") /\ db = "mongo"
              \/ \E m \in lost : Of(m, "method")

\* What a user has changed is not set back to the default by a later start, and
\* an initialised database stays so, unless two instances overlapped.
EditsSurviveStarts ==
    [][\/ overlap'
       \/ edited \subseteq edited' /\ (Initialised => Initialised')]_bootVars

\* Wherever the starts die, the next ones get the database initialised, and it
\* stays so, unless an instance gave up waiting for its connection.
EventuallyInitialised == <>[](Initialised \/ gaveUp)

\* bootstrap.service.ts:90: "Initialization successful": every table has its rows
\* of metadata, and on SQL its foreign keys.
SuccessIsComplete ==
    Initialised => /\ described = Table /\ \A t \in Table : meta[t] > 0
                   /\ db = "sql" => \A t \in Table : SnapRef[t] \subseteq fks[t]

\* setting-definition.processor.ts:31: "Setting table should have only one
\* record".
SettingIsSingle == Len(settings) <= 1
=============================================================================
