-------------------------- MODULE RelationMigration --------------------------
(***************************************************************************)
(* The relations of the tables of an SQL database: the rows of             *)
(* relation_definition, the foreign key columns and junction tables that   *)
(* store them, and the statements by which SqlTableHandlerService makes    *)
(* the second follow the first when a table is created, updated, deleted.  *)
(*                                                                         *)
(* A table's ordinary columns are TableHandler's, and with them the clash  *)
(* of a foreign key with one of them.  Changes are under the schema lock,  *)
(* so that here each is one step, that can end before its last statement.  *)
(* A foreign key column is named by its table and a property; so is the    *)
(* constraint on it, unless the column has been renamed since.             *)
(***************************************************************************)
EXTENDS Integers, FiniteSets, SequencesExt

CONSTANTS Tab,
          Prop,       \* property names
          NoProp,     \* no inverse is named
          InvNames,   \* the inverses that bodies name, NoProp among them
          NoTab,      \* the cache does not have the table
          NamedAs,    \* the property whose column has the name of a table's
          MaxRel,     \* bound on the relations ever inserted
          MaxDirty,   \* bound on the changes that are not clean: nothing follows the last
          MigDialects

ASSUME MigAssumption ==
    /\ InvNames \subseteq Prop \cup {NoProp}
    /\ NamedAs \in [Tab -> Prop] /\ MaxRel \in Nat /\ MaxDirty \in Nat
    /\ MigDialects \subseteq {"postgres", "mysql"}

VARIABLES engine,    \* DB_TYPE
          rels,      \* the rows of relation_definition
          db,        \* what is in the database
          known,     \* what the metadata cache says of each table's relations
          nextRel,   \* the next id
          dirty      \* history: number of changes that have failed, or are of
                     \* a kind that is known to leave the database behind

migVars == <<engine, rels, db, known, nextRel, dirty>>

M2O == "many-to-one"
O2O == "one-to-one"
O2M == "one-to-many"
M2M == "many-to-many"
HasColumn == {M2O, O2O}

NoJunction == <<>>
Junction == Tab \X Prop \X Tab
Relation == [id : 1 .. MaxRel, from : Tab, type : {M2O, O2O, O2M, M2M}, prop : Prop,
             inv : Prop \cup {NoProp}, to : Tab, jt : Junction \cup {NoJunction}]
LinkColumn == Tab \X Prop

\* A constraint is named fk_<table>_<column> by an update and
\* <table>_<column>_foreign by a creation.
Constraint == [col : LinkColumn, name : {"fk", "foreign"} \X LinkColumn, to : Tab]

Own(t) == {r \in rels : r.from = t}
Others(t) == rels \ Own(t)

-----------------------------------------------------------------------------
\* The metadata cache.

InverseType(type) == CASE type = O2M -> M2O [] type = M2O -> O2M [] OTHER -> type

\* The property that names the column of a relation, as the cache has it: a
\* one-to-one without its column is taken for the inverse of another.
ForeignKey(r, d) == IF r.type = O2M \/ (r.type = O2O /\ <<r.from, r.prop>> \notin d.cols)
                    THEN r.inv ELSE r.prop

\* A one-to-one without column and inverse makes its table unreadable.
Readable(t, rs, d) ==
    /\ t \in d.tabs
    /\ \A r \in rs : (r.from = t /\ r.type = O2O) => ForeignKey(r, d) # NoProp

KnownRow(r, d) == [id |-> r.id, type |-> r.type, prop |-> r.prop, inv |-> r.inv,
                   to |-> r.to, fk |-> ForeignKey(r, d), jt |-> r.jt]

\* A relation with a named inverse, which the target does not have, adds it
\* there.  It has no id: here it is minus that of the relation it inverts.
Generated(t, rs, d) ==
    LET Names(S) == {r.prop : r \in S}
        Sources == {r \in rs : /\ r.to = t /\ r.inv # NoProp /\ Readable(r.from, rs, d)
                               /\ r.inv \notin Names({s \in rs : s.from = t})}
    IN {[id |-> 0 - r.id, type |-> InverseType(r.type), prop |-> r.inv, inv |-> r.prop,
         to |-> r.from, jt |-> r.jt,
         fk |-> IF r.type = M2O THEN r.prop ELSE r.inv] :
           r \in {s \in Sources : \A o \in Sources : o.inv = s.inv => s.id <= o.id}}

Load(rs, d) ==
    [t \in Tab |-> IF Readable(t, rs, d)
                   THEN {KnownRow(r, d) : r \in {s \in rs : s.from = t}} \cup Generated(t, rs, d)
                   ELSE {NoTab}]

-----------------------------------------------------------------------------
\* RelStatements.

Possible(d, s) ==
    CASE s.op = "addColumn"    -> s.col \notin d.cols
      [] s.op = "addKey"       -> \A k \in d.keys : k.name # <<"fk", s.col>>
      [] s.op = "dropColumn"   -> s.col \in d.cols
      [] s.op = "renameColumn" -> s.col \in d.cols /\ s.new \notin d.cols
      [] s.op = "renameTable"  -> s.col \in d.junctions /\ s.new \notin d.junctions
      [] OTHER -> TRUE

WithoutKeys(d, cs) == [d EXCEPT !.keys = {k \in @ : k.col \notin cs}]
WithoutColumns(d, cs) == [WithoutKeys(d, cs) EXCEPT !.cols = @ \ cs]

Effect(d, s) ==
    CASE s.op = "addColumn"    -> [d EXCEPT !.cols = @ \cup {s.col}]
      [] s.op = "addKey"       -> [d EXCEPT !.keys = @ \cup {[col |-> s.col, to |-> s.new,
                                                             name |-> <<"fk", s.col>>]}]
      [] s.op = "dropColumn"   -> WithoutColumns(d, {s.col})
      [] s.op = "renameColumn" ->
            [d EXCEPT !.cols = (@ \ {s.col}) \cup {s.new},
                      !.keys = {IF k.col = s.col THEN [k EXCEPT !.col = s.new] ELSE k : k \in @}]
      [] s.op = "renameTable"  -> [d EXCEPT !.junctions = (@ \ {s.col}) \cup {s.new}]
      [] s.op = "createTable"  -> [d EXCEPT !.junctions = @ \cup {s.col}]
      [] s.op = "dropTable"    -> [d EXCEPT !.junctions = @ \ {s.col}]

Stmt(op, col, new) == [op |-> op, col |-> col, new |-> new]

\* The database after each number of the statements.
After(d, ss) == LET by[i \in 0 .. Len(ss)] == IF i = 0 THEN d ELSE Effect(by[i - 1], ss[i])
                IN by

\* The number of statements that can be executed.
AllPossible(d, ss) == CHOOSE n \in 0 .. Len(ss) :
                        /\ \A i \in 1 .. n : Possible(After(d, ss)[i - 1], ss[i])
                        /\ n < Len(ss) => ~Possible(After(d, ss)[n], ss[n + 1])

-----------------------------------------------------------------------------
\* analyzeRelationChanges() and generateSQLFromDiff(), for table t whose
\* relations were "old" in the cache and are the rows R.

ById(S) == [i \in 1 .. Cardinality(S) |->
               CHOOSE r \in S : Cardinality({s \in S : s.id < r.id}) = i - 1]
Each(s, Op(_)) == FlattenSeq([i \in DOMAIN s |-> Op(s[i])])

\* The relations that are gone, among them every generated one: it is looked
\* up by the id that it has not, which finds the first of them each time.
Deleted(old, R) ==
    LET Gone == {r \in old : r.id > 0 /\ r.id \notin {s.id : s \in R}}
        Nameless == {r \in old : r.id < 0}
        First == CHOOSE r \in Nameless : \A s \in Nameless : s.id <= r.id
    IN ById(Gone) \o [i \in 1 .. Cardinality(Nameless) |-> First]

\* The column of a deleted relation.  A generated one-to-one has none: it is
\* taken to be called after the property.
DropOwn(t, r) ==
    IF r.type \in HasColumn
    THEN <<Stmt("dropColumn", <<t, IF r.id < 0 /\ r.type = O2O THEN r.prop ELSE r.fk>>, NoTab)>>
    ELSE <<>>

DropOther(r) == IF r.type = O2M THEN <<Stmt("dropColumn", <<r.to, r.fk>>, NoTab)>> ELSE <<>>

DropJunction(r) == IF r.type = M2M THEN <<Stmt("dropTable", r.jt, NoTab)>> ELSE <<>>

AddColumn(col, to) == <<Stmt("addColumn", col, NoTab), Stmt("addKey", col, to)>>

AddOwn(r) == IF r.type \in HasColumn THEN AddColumn(<<r.from, r.prop>>, r.to) ELSE <<>>

AddOther(r) == IF r.type = O2M THEN AddColumn(<<r.to, r.inv>>, r.from) ELSE <<>>

AddJunction(r, d) ==
    IF r.type = M2M /\ <<r.from, r.prop, r.to>> \notin d.junctions
    THEN <<Stmt("createTable", <<r.from, r.prop, r.to>>, NoTab)>>
    ELSE <<>>

\* A pair of a relation as it was and as it is.  Nothing follows a change of
\* the target; the type does not change.
RenameOwn(p) ==
    IF p.now.type \in HasColumn /\ p.was.prop # p.now.prop /\ p.was.fk # p.now.prop
    THEN <<Stmt("renameColumn", <<p.now.from, p.was.fk>>, <<p.now.from, p.now.prop>>)>>
    ELSE <<>>

\* Mutation of RenameOther: it looks at the property, as for other types.
RenameOtherByProperty(p) ==
    IF p.now.type = O2M /\ p.was.prop # p.now.prop
    THEN <<Stmt("renameColumn", <<p.was.to, p.was.fk>>, <<p.was.to, p.now.inv>>)>>
    ELSE <<>>

RenameOther(p) ==
    IF p.now.type = O2M /\ p.was.inv # p.now.inv
    THEN <<Stmt("renameColumn", <<p.was.to, p.was.fk>>, <<p.was.to, p.now.inv>>)>>
    ELSE <<>>

RenameJunction(p) ==
    LET new == <<p.now.from, p.now.prop, p.now.to>>
    IN IF p.now.type = M2M /\ p.was.prop # p.now.prop /\ p.was.jt # new
       THEN <<Stmt("renameTable", p.was.jt, new)>>
       ELSE <<>>

Kept(old, R) == ById({[id |-> r.id, now |-> r, was |-> CHOOSE o \in old : o.id = r.id] :
                         r \in {s \in R : s.id \in {o.id : o \in old}}})
Created(old, R) == ById({r \in R : r.id \notin {o.id : o \in old}})

\* The list of junctions to rename is missing once a junction is to be made
\* or dropped, and an exception is thrown.
Analysable(old, R) ==
    ~ /\ Each(Kept(old, R), RenameJunction) # <<>>
      /\ \/ \E i \in DOMAIN Deleted(old, R) : Deleted(old, R)[i].type = M2M
         \/ \E i \in DOMAIN Created(old, R) : Created(old, R)[i].type = M2M

RelStatements(t, old, R, d) ==
    LET deleted == Deleted(old, R)
        created == Created(old, R)
        kept == Kept(old, R)
    IN Each(kept, RenameOwn)
       \o Each(deleted, LAMBDA r : DropOwn(t, r))
       \o Each(created, AddOwn)
       \o Each(deleted, DropOther)
       \o Each(created, AddOther)
       \o Each(kept, RenameOther)
       \o Each(kept, RenameJunction)
       \o Each(created, LAMBDA r : AddJunction(r, d))
       \o Each(deleted, DropJunction)

\* The constraints of the columns to be dropped go while the statements are
\* being made, on their own.
Prepared(d, ss) == WithoutKeys(d, {ss[i].col : i \in {j \in DOMAIN ss : ss[j].op = "dropColumn"}})

-----------------------------------------------------------------------------
\* createTable(), with at most one relation.

\* The junction table of a relation with column col to a table.
JunctionOf(type, col, to) == IF type = M2M THEN <<col[1], col[2], to>> ELSE NoJunction

\* The relations that a body can add to t.
AnyRelation(t) ==
    {[id |-> nextRel, from |-> t, type |-> y, prop |-> p, inv |-> i, to |-> u,
      jt |-> JunctionOf(y, <<t, p>>, u)] :
        y \in {M2O, O2O, O2M, M2M}, p \in Prop, i \in InvNames, u \in db.tabs}

\* Mutation of NewRelations: validateRelations() asks for no inverse.
NewRelationsUnnamed(t) == IF nextRel > MaxRel THEN {} ELSE AnyRelation(t)

\* A one-to-many has to name its inverse.
NewRelations(t) ==
    IF nextRel > MaxRel THEN {}
    ELSE {r \in AnyRelation(t) : r.type = O2M => r.inv # NoProp}

\* The column is added with a constraint of another name than an update's.
BuiltFor(d, r) ==
    IF r.type = M2M
    THEN [d EXCEPT !.junctions = @ \cup {r.jt}]
    ELSE LET col == IF r.type = O2M THEN <<r.to, r.inv>> ELSE <<r.from, r.prop>>
             to == IF r.type = O2M THEN r.from ELSE r.to
         IN [d EXCEPT !.cols = @ \cup {col},
                      !.keys = @ \cup {[col |-> col, name |-> <<"foreign", col>>, to |-> to]}]

\* A creation fails, and is not an action, where the other table has the column of
\* a one-to-many relation, or the constraint that the creation names after it: a
\* column that an update renamed has kept the constraint of its old name.
CreateTable(t) ==
    /\ t \notin db.tabs /\ dirty < MaxDirty
    /\ LET made == [db EXCEPT !.tabs = @ \cup {t}]
       IN \/ /\ db' = made
             /\ UNCHANGED <<rels, nextRel>>
          \/ \E r \in NewRelations(t) :
                /\ r.type = O2M => /\ <<r.to, r.inv>> \notin db.cols
                                   /\ \A k \in db.keys : k.name # <<"foreign", <<r.to, r.inv>>>>
                /\ rels' = rels \cup {r}
                /\ nextRel' = nextRel + 1
                /\ db' = BuiltFor(made, r)
    /\ known' = Load(rels', db')
    /\ UNCHANGED <<engine, dirty>>

-----------------------------------------------------------------------------
\* updateTable()

\* The body R repeats as r a relation that the target has with this table.  It is
\* looked for in the targets of the body's many-to-many relations alone.
IsInverse(r, R) ==
    /\ \E m \in R : m.type = M2M /\ m.to = r.to
    /\ \E s \in rels :
          /\ s.from = r.to /\ s.to = r.from
          /\ CASE r.type \in HasColumn -> s.inv = r.prop \/ s.prop = r.inv
               [] r.type = O2M         -> s.prop = r.inv /\ s.type \in HasColumn
               [] r.type = M2M         -> s.prop = r.inv /\ s.type = M2M

\* What a body makes of a row: its type and its junction stay.
AnyEdit(r) ==
    {[r EXCEPT !.prop = p, !.inv = i, !.to = u] : p \in Prop, i \in InvNames, u \in db.tabs}
Edits(r) == {s \in AnyEdit(r) : s.type = O2M => s.inv # NoProp}

\* The bodies: some rows are kept, here one of them edited, and one is added.
\* Property names are unique, in the database too, where the rows are written
\* one after the other: a row is not given a name that a kept one has had.
RelBodies(t) ==
    LET Bases == UNION {{K} \cup UNION {{(K \ {r}) \cup {s} : s \in Edits(r)} : r \in K} :
                           K \in SUBSET Own(t)}
        All == Bases \cup UNION {{B \cup {r} : B \in Bases} : r \in NewRelations(t)}
    IN {R \in All : /\ \A r, s \in R : r.prop = s.prop => r = s
                    /\ \A r \in R, s \in Own(t) :
                          (r.prop = s.prop /\ s.id \in {x.id : x \in R} /\ r.id # nextRel) => r.id = s.id
                    /\ \A r \in R : ~IsInverse(r, R)}

\* Changes after which the database is as the rows say, when the cache is.
Follows(t, R) ==
    /\ \A r \in known[t] : r.id > 0
    /\ \A r \in R, s \in Own(t) : r.id # s.id => r.jt = NoJunction \/ r.jt # s.jt
    /\ \A r \in R, s \in Own(t) :
          r.id = s.id => (r.to = s.to /\ (r.type = M2M => r.prop = s.prop))

\* The rows are committed; what the table was like is the cache's; the
\* statements are executed in one transaction on Postgres, one by one on MySQL.
\* (The statements are bound, not defined, so that TLC makes them once.)
UpdateTable(t) ==
    /\ t \in db.tabs /\ dirty < MaxDirty
    /\ LET accurate == known = Load(rels, db) IN
       \E R \in RelBodies(t) :
          /\ rels' = Others(t) \cup R
          /\ nextRel' = IF nextRel \in {r.id : r \in R} THEN nextRel + 1 ELSE nextRel
          /\ \/ /\ known[t] = {NoTab}
                /\ known' = Load(rels', db)
                /\ dirty' = dirty + 1
                /\ UNCHANGED db
             \/ /\ known[t] # {NoTab} /\ ~Analysable(known[t], R)
                /\ dirty' = dirty + 1
                /\ UNCHANGED <<db, known>>
             \/ /\ known[t] # {NoTab} /\ Analysable(known[t], R)
                /\ \E ss \in {RelStatements(t, known[t], R, db)} :
                   \E d \in {Prepared(db, ss)} : \E n \in {AllPossible(d, ss)} :
                      \/ /\ n = Len(ss)
                         /\ db' = After(d, ss)[n]
                         /\ known' = Load(rels', db')
                         /\ dirty' = IF Follows(t, R) /\ accurate THEN dirty ELSE dirty + 1
                      \/ /\ n < Len(ss)
                         /\ db' = IF engine = "postgres" THEN d ELSE After(d, ss)[n]
                         /\ dirty' = dirty + 1
                         /\ UNCHANGED known
    /\ UNCHANGED engine

-----------------------------------------------------------------------------
\* deleteTable()

\* First, in the tables with a relation to t, the column that is called after
\* t; then each column that a constraint makes refer to t.
Unreferenced(d, t) ==
    LET e == WithoutColumns(d, {<<r.from, NamedAs[t]>> :
                                   r \in {s \in rels : s.to = t /\ s.type # M2M}} \cap d.cols)
    IN WithoutColumns(e, {k.col : k \in {x \in e.keys : x.to = t}})

\* The column called after t is another relation's.
TakesAnother(t) == \E r, s \in rels :
    /\ r.to = t /\ r.type # M2M
    /\ \/ s.type \in HasColumn /\ s.to # t /\ <<s.from, s.prop>> = <<r.from, NamedAs[t]>>
       \/ s.type = O2M /\ s.from # t /\ <<s.to, s.inv>> = <<r.from, NamedAs[t]>>

DeleteTable(t) ==
    /\ t \in db.tabs /\ dirty < MaxDirty
    /\ LET involved == {r \in rels : t \in {r.from, r.to}}
           d == Unreferenced(db, t)
       IN /\ rels' = rels \ involved
          /\ db' = [WithoutColumns(d, {t} \X Prop) EXCEPT
                       !.tabs = @ \ {t},
                       !.junctions = @ \ {r.jt : r \in involved}]
    /\ known' = Load(rels', db')
    /\ dirty' = IF TakesAnother(t) THEN dirty + 1 ELSE dirty
    /\ UNCHANGED <<engine, nextRel>>

\* Metadata is reloaded for another reason.
Refresh == /\ dirty < MaxDirty
           /\ known' = Load(rels, db)
           /\ UNCHANGED <<engine, rels, db, nextRel, dirty>>

-----------------------------------------------------------------------------
MigInit == /\ engine \in MigDialects
           /\ rels = {}
           /\ db = [tabs |-> {}, cols |-> {}, keys |-> {}, junctions |-> {}]
           /\ known = Load(rels, db)
           /\ nextRel = 1
           /\ dirty = 0

MigNext == \/ \E t \in Tab : CreateTable(t) \/ UpdateTable(t) \/ DeleteTable(t)
           \/ Refresh

MigSpec == MigInit /\ [][MigNext]_migVars

MigTypeOK ==
    /\ engine \in MigDialects
    /\ rels \subseteq Relation
    /\ \A r, s \in rels : (r.id = s.id \/ <<r.from, r.prop>> = <<s.from, s.prop>>) => r = s
    /\ db.tabs \subseteq Tab /\ db.cols \subseteq LinkColumn /\ db.junctions \subseteq Junction
    /\ db.keys \subseteq Constraint
    /\ \A k, l \in db.keys : k.name = l.name => k = l
    /\ nextRel \in 1 .. MaxRel + 1 /\ dirty \in Nat

\* Relations are stored as their rows say, by a column with a constraint to
\* the right table or by a junction table, and nothing else is left in the
\* database, whatever sequence of creations, updates and deletions led there,
\* unless one of them failed, named a table by no row of its own or was an
\* update that the code does not follow (SqlTableHandlerService).
StoredAsDescribed ==
    dirty = 0 =>
       LET own == {r \in rels : r.type \in HasColumn}
           other == {r \in rels : r.type = O2M}
           columns == {<<<<r.from, r.prop>>, r.to>> : r \in own}
                      \cup {<<<<r.to, r.inv>>, r.from>> : r \in other}
       IN /\ db.cols = {c[1] : c \in columns}
          /\ {<<k.col, k.to>> : k \in db.keys} = columns
          /\ db.junctions = {r.jt : r \in {s \in rels : s.type = M2M}}

Stored(r, d) == CASE r.type \in HasColumn -> <<r.from, r.prop>> \in d.cols
                  [] r.type = O2M         -> <<r.to, r.inv>> \in d.cols
                  [] r.type = M2M         -> r.jt \in d.junctions

(* An update of a table takes nothing from a relation that stays as it is:  *)
(* "Preserving ... inverse relations" (sql-table-handler.service.ts:730).   *)
InverseRelationsStay ==
    [][\A r \in rels \cap rels' :
          (db'.tabs = db.tabs /\ Stored(r, db)) => Stored(r, db')]_migVars
=============================================================================
