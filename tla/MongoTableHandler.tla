-------------------------- MODULE MongoTableHandler --------------------------
(***************************************************************************)
(* Creating, updating and deleting a collection on MongoDB                 *)
(* (MongoTableHandlerService): a change is a series of writes to the       *)
(* metadata, to the documents and to the collection, in no transaction, so *)
(* that it can end after any of them; under a lock that is a document and  *)
(* expires after five minutes whether its holder is done or not            *)
(* (MongoSchemaMigrationLockService).  Fields are renamed in the           *)
(* background, after the change has returned.                              *)
(*                                                                         *)
(* One collection is followed, and of its documents, in which field the    *)
(* values of which column are.  Column and relation names are kept apart,  *)
(* as validateUniquePropertyNames() does.                                  *)
(***************************************************************************)
EXTENDS Integers, FiniteSets, SequencesExt

CONSTANTS Edit,        \* calls of createTable, updateTable and delete
          Field,       \* names of columns
          Link,        \* names of relations
          NoEdit,      \* the lock is free
          MaxSent,     \* bound on the columns and relations of a body
          MaxKey,      \* bound on the ids given out
          MaxEdits,    \* bound on the calls
          MaxMishaps   \* bound on failed statements, crashes and expiries

ASSUME MongoAssumption == /\ {MaxSent, MaxKey, MaxEdits, MaxMishaps} \subseteq Nat
                          /\ NoEdit \notin Edit /\ Field \cap Link = {}

VARIABLES lockDoc,     \* the lock: its holder, and whether it has expired
          rows,        \* metadata: id of the table's row, those of columns and relations
          coll,        \* the collection: made or not, its validator, its documents
          cached,      \* the metadata cache: the table's id, its columns and relations
          edit,        \* the calls: where they are, with their locals
          renames,     \* background renames that are still to be done
          keys, edits, mishaps,  \* ids, calls and mishaps so far
          untidy       \* history: a mishap, or a step of those described below

mongoVars == <<lockDoc, rows, coll, cached, edit, renames, keys, edits, mishaps, untidy>>

Steps == {"idle", "ready", "begin", "drop", "columns", "coll", "unlist", "remove", "release"}
Holding == Steps \ {"idle", "ready"}
ColumnRow == [id : 1 .. MaxKey, name : Field, of : 1 .. MaxKey]
LinkRow == [id : 1 .. MaxKey, name : Link, of : 1 .. MaxKey]
SentColumn == [id : 0 .. MaxKey, name : Field]
SentLink == [id : 0 .. MaxKey, name : Link]
Empty == [n \in Field \cup Link |-> 0]
NoBody == [columns |-> {}, links |-> {}]
EditState == [at : Steps, kind : {"create", "update", "delete"},
              body : [columns : SUBSET SentColumn, links : SUBSET SentLink],
              table : 0 .. MaxKey, old : SUBSET ColumnRow, todo : SUBSET SentColumn,
              over : BOOLEAN]
Resting == [at |-> "idle", kind |-> "create", body |-> NoBody, table |-> 0, old |-> {},
            todo |-> {}, over |-> FALSE]

InStep(o, s) == edit[o].at = s
Step(o, e) == edit' = [edit EXCEPT ![o] = e]
To(o, s) == Step(o, [edit[o] EXCEPT !.at = s])
Tidy == UNCHANGED untidy

\* The rows of a table.
ColumnsOf(t) == {c \in rows.columns : c.of = t}
LinksOf(t) == {x \in rows.links : x.of = t}
Ids(S) == {x.id : x \in S}
Names(S) == {x.name : x \in S}

Described == ColumnsOf(rows.table) \cup LinksOf(rows.table)

Unset(d, S) == [n \in DOMAIN d |-> IF n \in S THEN 0 ELSE d[n]]
Moved(d, x) == [Unset(d, {x.old}) EXCEPT ![x.new] = d[x.old]]

-----------------------------------------------------------------------------
\* The calls and the lock.

\* What a body may be: rows as they are now, one of them renamed, and a new
\* one, whose id is 0; each name once.
Kept(S) == {[id |-> x.id, name |-> x.name] : x \in S}
OneRenamed(K, N) == {(K \ {x}) \cup {[x EXCEPT !.name = n]} : x \in K, n \in N}
OneMore(K, N) == {K \cup {[id |-> 0, name |-> n]} : n \in N}
Sent(S, N) ==
    LET Old == UNION {{K} \cup OneRenamed(K, N) : K \in SUBSET Kept(S)}
    IN {K \in UNION {{L} \cup OneMore(L, N) : L \in Old} :
           \A x, y \in K : x.name = y.name => x = y}

CallMongo(o) ==
    /\ InStep(o, "idle") /\ edits < MaxEdits
    /\ edits' = edits + 1
    /\ \/ \E n \in Field, ls \in Sent({}, Link) :
             Step(o, [Resting EXCEPT !.at = "ready",
                                     !.body = [columns |-> {[id |-> 0, name |-> n]}, links |-> ls]])
       \/ /\ rows.table # 0
          /\ \E cs \in Sent(ColumnsOf(rows.table), Field), ls \in Sent(LinksOf(rows.table), Link) :
                /\ cs # {} /\ Cardinality(cs) + Cardinality(ls) <= MaxSent
                /\ Step(o, [Resting EXCEPT !.at = "ready", !.kind = "update", !.table = rows.table,
                                           !.body = [columns |-> cs, links |-> ls]])
       \/ /\ rows.table # 0
          /\ Step(o, [Resting EXCEPT !.at = "ready", !.kind = "delete", !.table = rows.table])
    /\ UNCHANGED <<lockDoc, rows, coll, cached, renames, keys, mishaps, untidy>>

\* The lock document is taken when it is free or has expired; otherwise the
\* insertion that follows fails on its key, and the call with it.
AcquireMongo(o) ==
    /\ InStep(o, "ready")
    /\ IF lockDoc.holder = NoEdit \/ lockDoc.expired
       THEN /\ lockDoc' = [holder |-> o, expired |-> FALSE]
            /\ Step(o, [edit[o] EXCEPT !.at = "begin", !.over = FALSE])
       ELSE Step(o, Resting) /\ UNCHANGED lockDoc
    /\ untidy' = (untidy \/ renames # <<>>)
    /\ UNCHANGED <<rows, coll, cached, renames, keys, edits, mishaps>>

\* Five minutes have passed.
Expire ==
    /\ lockDoc.holder # NoEdit /\ ~lockDoc.expired /\ mishaps < MaxMishaps
    /\ mishaps' = mishaps + 1 /\ untidy' = TRUE
    /\ lockDoc' = [lockDoc EXCEPT !.expired = TRUE]
    /\ Step(lockDoc.holder, [edit[lockDoc.holder] EXCEPT !.over = TRUE])
    /\ UNCHANGED <<rows, coll, cached, renames, keys, edits>>

\* Mutation of Freed: the token is not looked at.
FreedByAny(o) == [holder |-> NoEdit, expired |-> FALSE]

\* The lock without the holder o.
Freed(o) == IF lockDoc.holder = o THEN [holder |-> NoEdit, expired |-> FALSE] ELSE lockDoc

ReleaseMongo(o) == /\ InStep(o, "release")
                   /\ lockDoc' = Freed(o)
                   /\ Step(o, Resting)
                   /\ UNCHANGED <<rows, coll, cached, renames, keys, edits, mishaps, untidy>>

\* DynamicRepository reloads the metadata after a change; so do others.
ReloadMongo == /\ cached' = [table |-> rows.table, has |-> Described]
               /\ UNCHANGED <<lockDoc, rows, coll, edit, renames, keys, edits, mishaps, untidy>>

-----------------------------------------------------------------------------
\* The first step: the table's row.

\* A collection without metadata is dropped.
InsertTable(o) ==
    /\ InStep(o, "begin") /\ edit[o].kind = "create"
    /\ IF rows.table # 0
       THEN To(o, "release") /\ UNCHANGED <<rows, coll, keys>>
       ELSE /\ keys < MaxKey
            /\ keys' = keys + 1
            /\ rows' = [rows EXCEPT !.table = keys']
            /\ coll' = [made |-> FALSE, validator |-> {}, data |-> Empty]
            /\ Step(o, [edit[o] EXCEPT !.at = "columns", !.table = keys',
                                       !.todo = edit[o].body.columns])
    /\ Tidy /\ UNCHANGED <<lockDoc, cached, renames, edits, mishaps>>

FindTable(o) ==
    /\ InStep(o, "begin") /\ edit[o].kind # "create"
    /\ IF rows.table # edit[o].table
       THEN To(o, "release")
       ELSE Step(o, [edit[o] EXCEPT !.at = IF edit[o].kind = "update" THEN "drop" ELSE "unlist",
                                    !.old = ColumnsOf(rows.table)])
    /\ UNCHANGED <<lockDoc, rows, coll, cached, renames, keys, edits, mishaps, untidy>>

-----------------------------------------------------------------------------
\* updateTable(): columns.

GoneColumns(o) == {c \in edit[o].old : c.id \notin Ids(edit[o].body.columns)}

\* A column that is not in the body: its field, and its row.
DropColumn(o) ==
    /\ InStep(o, "drop")
    /\ \E c \in GoneColumns(o) :
          /\ coll' = [coll EXCEPT !.data = Unset(@, {c.name})]
          /\ rows' = [rows EXCEPT !.columns = {x \in @ : x.id # c.id}]
          /\ Step(o, [edit[o] EXCEPT !.old = @ \ {c}])
    /\ Tidy /\ UNCHANGED <<lockDoc, cached, renames, keys, edits, mishaps>>

\* Mutation of Renamed: fields are not renamed.
RenamedNever(o) == {}

\* The columns with another name than before.
Renamed(o) == UNION {{[id |-> c.id, old |-> x.name, new |-> c.name] :
                         x \in {y \in edit[o].old : y.id = c.id /\ y.name # c.name}} :
                     c \in edit[o].body.columns}

\* The renames are started, in the order of the body, and not waited for.  They
\* go wrong when a name is still another column's.
StartRenames(o) ==
    /\ InStep(o, "drop") /\ GoneColumns(o) = {}
    /\ \E new \in SetToSeqs(Renamed(o)) : renames' = renames \o new
    /\ untidy' = (untidy \/ \E x \in Renamed(o) : x.new \in Names(edit[o].old))
    /\ Step(o, [edit[o] EXCEPT !.at = "columns", !.todo = edit[o].body.columns])
    /\ UNCHANGED <<lockDoc, rows, coll, cached, keys, edits, mishaps>>

RenameField ==
    /\ renames # <<>>
    /\ LET x == Head(renames)
       IN coll' = IF ~coll.made \/ coll.data[x.old] = 0 THEN coll
                  ELSE [coll EXCEPT !.data = Moved(@, x)]
    /\ renames' = Tail(renames)
    /\ UNCHANGED <<lockDoc, rows, cached, edit, keys, edits, mishaps, untidy>>

\* Mutation of Inserted: the columns of a table are all given the same id.
InsertedAlike(o, c) == [id |-> edit[o].table + 1, name |-> c.name, of |-> edit[o].table]

Inserted(o, c) == [id |-> keys + 1, name |-> c.name, of |-> edit[o].table]

\* Each column of the body is updated, if it is still there, or inserted.
WriteColumn(o) ==
    /\ InStep(o, "columns")
    /\ \E c \in edit[o].todo :
          /\ IF c.id = 0
             THEN /\ keys < MaxKey
                  /\ keys' = keys + 1
                  /\ rows' = [rows EXCEPT !.columns = @ \cup {Inserted(o, c)}]
             ELSE /\ rows' = [rows EXCEPT !.columns =
                                 {IF x.id = c.id THEN [x EXCEPT !.name = c.name] ELSE x : x \in @}]
                  /\ UNCHANGED keys
          /\ Step(o, [edit[o] EXCEPT !.todo = @ \ {c}])
    /\ Tidy /\ UNCHANGED <<lockDoc, coll, cached, renames, edits, mishaps>>

-----------------------------------------------------------------------------
\* Relations: the fields of all that are in the body are dropped, by their new
\* names, "Will be recreated by runtime logic", then those that are gone, fields
\* and rows.

\* The row of a relation, by the body.
Relinked(o, x) ==
    IF x.of = edit[o].table /\ x.id \in Ids(edit[o].body.links)
    THEN [x EXCEPT !.name = (CHOOSE y \in edit[o].body.links : y.id = x.id).name] ELSE x

WriteLinks(o) ==
    /\ InStep(o, "columns") /\ edit[o].todo = {}
    /\ LET t == edit[o].table
           body == edit[o].body.links
           gone == {x \in LinksOf(t) : x.id \notin Ids(body)}
       IN \E new \in SetToSeqs({x \in body : x.id = 0}) :
             /\ keys + Len(new) <= MaxKey
             /\ keys' = keys + Len(new)
             /\ coll' = IF edit[o].kind = "create" THEN coll
                        ELSE [coll EXCEPT !.data = Unset(@, Names(body) \cup Names(gone))]
             /\ rows' = [rows EXCEPT !.links =
                  {Relinked(o, x) : x \in @ \ gone}
                  \cup {[id |-> keys + n, name |-> new[n].name, of |-> t] : n \in DOMAIN new}]
             /\ untidy' = (untidy \/ \E x \in LinksOf(t), y \in body : y.id = x.id /\ y.name # x.name)
    /\ To(o, "coll")
    /\ UNCHANGED <<lockDoc, cached, renames, edits, mishaps>>

-----------------------------------------------------------------------------
\* The collection.

\* createCollection(), after the route has been inserted: a collection that is
\* there is left as it is.
MakeCollection(o) ==
    /\ InStep(o, "coll") /\ edit[o].kind = "create"
    /\ coll' = IF coll.made THEN coll
               ELSE [coll EXCEPT !.made = TRUE, !.validator = Names(ColumnsOf(edit[o].table))]
    /\ To(o, "release")
    /\ Tidy /\ UNCHANGED <<lockDoc, rows, cached, renames, keys, edits, mishaps>>

\* Mutation of Validated: the validator is the one of the columns as they were.
ValidatedBefore(o) == Names(edit[o].old)

Validated(o) == Names(ColumnsOf(edit[o].table))

\* updateCollection(): it is left out when the cache has not the table.
ModifyCollection(o) ==
    /\ InStep(o, "coll") /\ edit[o].kind = "update"
    /\ coll' = IF cached.table # 0 /\ coll.made THEN [coll EXCEPT !.validator = Validated(o)] ELSE coll
    /\ untidy' = (untidy \/ cached.table = 0)
    /\ To(o, "release")
    /\ UNCHANGED <<lockDoc, rows, cached, renames, keys, edits, mishaps>>

-----------------------------------------------------------------------------
\* delete(): relations are asked for by sourceTableId, a field that they have
\* not, and stay.

DeleteColumnRows(o) ==
    /\ InStep(o, "unlist")
    /\ rows' = [rows EXCEPT !.columns = @ \ ColumnsOf(edit[o].table)]
    /\ To(o, "remove")
    /\ Tidy /\ UNCHANGED <<lockDoc, coll, cached, renames, keys, edits, mishaps>>

DeleteTableRow(o) ==
    /\ InStep(o, "remove") /\ rows.table = edit[o].table
    /\ rows' = [rows EXCEPT !.table = 0]
    /\ Tidy /\ UNCHANGED <<lockDoc, coll, cached, edit, renames, keys, edits, mishaps>>

DropCollection(o) ==
    /\ InStep(o, "remove") /\ rows.table # edit[o].table
    /\ coll' = [made |-> FALSE, validator |-> {}, data |-> Empty]
    /\ To(o, "release")
    /\ Tidy /\ UNCHANGED <<lockDoc, rows, cached, renames, keys, edits, mishaps>>

-----------------------------------------------------------------------------
\* Documents are written, by the metadata as it is in the cache: after a change
\* that may be what it was before.  Bound: the documents are not followed any
\* more once they are untidy.
SaveDocument ==
    /\ coll.made /\ ~untidy
    /\ coll' = [coll EXCEPT !.data = [n \in DOMAIN @ |->
          LET owners == {x \in cached.has : x.name = n}
          IN IF @[n] = 0 /\ owners # {} THEN (CHOOSE x \in owners : TRUE).id ELSE @[n]]]
    /\ untidy' = \/ untidy \/ cached.has # Described \/ renames # <<>>
                  \/ \E o \in Edit : edit[o].at \in Holding /\ edit[o].kind = "update"
    /\ UNCHANGED <<lockDoc, rows, cached, edit, renames, keys, edits, mishaps>>

\* A statement fails.  A creation takes back its table's row when a column has
\* not been inserted, and the columns too when a relation has not; everything
\* else stays as far as it is.
StatementFails(o) ==
    /\ edit[o].at \in Holding \ {"release"} /\ mishaps < MaxMishaps
    /\ mishaps' = mishaps + 1 /\ untidy' = TRUE
    /\ rows' = IF edit[o].kind = "create" /\ InStep(o, "columns")
               THEN [rows EXCEPT !.table = 0,
                                 !.columns = IF edit[o].todo = {} THEN @ \ ColumnsOf(edit[o].table)
                                             ELSE @]
               ELSE rows
    /\ To(o, "release")
    /\ UNCHANGED <<lockDoc, coll, cached, renames, keys, edits>>

\* The process ends: the lock stays, the renames are gone with it.
MongoCrash(o) ==
    /\ edit[o].at \in Holding /\ mishaps < MaxMishaps
    /\ mishaps' = mishaps + 1 /\ untidy' = TRUE
    /\ renames' = <<>>
    /\ Step(o, Resting)
    /\ UNCHANGED <<lockDoc, rows, coll, cached, keys, edits>>

-----------------------------------------------------------------------------
MongoInit ==
    /\ lockDoc = [holder |-> NoEdit, expired |-> FALSE]
    /\ rows = [table |-> 0, columns |-> {}, links |-> {}]
    /\ coll = [made |-> FALSE, validator |-> {}, data |-> Empty]
    /\ cached = [table |-> 0, has |-> {}] /\ untidy = FALSE
    /\ edit = [o \in Edit |-> Resting]
    /\ renames = <<>>
    /\ keys = 0 /\ edits = 0 /\ mishaps = 0

MongoStep(o) ==
    \/ AcquireMongo(o) \/ ReleaseMongo(o) \/ InsertTable(o) \/ FindTable(o) \/ DropColumn(o)
    \/ StartRenames(o) \/ WriteColumn(o) \/ WriteLinks(o) \/ MakeCollection(o)
    \/ ModifyCollection(o) \/ DeleteColumnRows(o) \/ DeleteTableRow(o) \/ DropCollection(o)

MongoNext == \/ \E o \in Edit : CallMongo(o) \/ MongoStep(o) \/ StatementFails(o) \/ MongoCrash(o)
             \/ Expire \/ ReloadMongo \/ RenameField \/ SaveDocument

MongoSpec == MongoInit /\ [][MongoNext]_mongoVars

MongoTypeOK ==
    /\ lockDoc \in [holder : Edit \cup {NoEdit}, expired : BOOLEAN]
    /\ rows \in [table : 0 .. MaxKey, columns : SUBSET ColumnRow, links : SUBSET LinkRow]
    /\ \A x, y \in rows.columns \cup rows.links : x.id = y.id => x = y
    /\ coll \in [made : BOOLEAN, validator : SUBSET Field, data : [Field \cup Link -> 0 .. MaxKey]]
    /\ cached \in [table : 0 .. MaxKey, has : SUBSET (ColumnRow \cup LinkRow)]
    /\ edit \in [Edit -> EditState]
    /\ renames \in Seq([id : 1 .. MaxKey, old : Field, new : Field])
    /\ keys \in 0 .. MaxKey /\ edits \in 0 .. MaxEdits /\ mishaps \in 0 .. MaxMishaps
    /\ untidy \in BOOLEAN

(* A change that is within its five minutes has the lock until it is done, *)
(* also when one that has overstayed gives up its own at last              *)
(* (MongoSchemaMigrationLockService.release()).                            *)
LockIsKept ==
    \A o \in Edit : (edit[o].at \in Holding /\ ~edit[o].over) => lockDoc.holder = o

(* When no change is under way and no rename pending, the collection is as *)
(* the metadata says: it is there when the table's row is, its validator   *)
(* knows the table's columns, and in the documents every field is a         *)
(* column's, with that column's values.  So until the first of these: a     *)
(* mishap, a lock that expired, a call made while renames were pending, an  *)
(* update that renamed a column to a name still in use or a relation, whose *)
(* old field stays, or came before the cache had the table, a document      *)
(* written during an update, before its renames or by metadata that was no  *)
(* longer so (updateTable()).                                              *)
CollectionAsDescribed ==
    (~untidy /\ renames = <<>> /\ \A o \in Edit : edit[o].at \in {"idle", "ready"}) =>
       /\ coll.made <=> rows.table # 0
       /\ coll.validator = Names(ColumnsOf(rows.table))
       /\ \A c \in rows.columns : c.of = rows.table
       /\ \A n \in Field \cup Link : coll.data[n] # 0 =>
             \E x \in ColumnsOf(rows.table) \cup LinksOf(rows.table) :
                x.name = n /\ x.id = coll.data[n]

(* A relation's row goes with its table's: "Delete metadata (MongoDB:      *)
(* sourceTableId and table are ObjectIds)".                                *)
LinksHaveTables ==
    \A x \in rows.links : x.of = rows.table \/ \E o \in Edit : edit[o].at \in Holding
=============================================================================
