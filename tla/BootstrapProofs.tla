-------------------------- MODULE BootstrapProofs ---------------------------
(***************************************************************************)
(* Theorems about the first start, for any tables, columns, relations,     *)
(* records, instances and bounds.                                          *)
(*                                                                         *)
(* That a database which says isInit is complete is not inductive: an      *)
(* instance must have made, by each of its steps, what comes before        *)
(* (Migrated, Described, Filled), and what is there must stay there when   *)
(* another instance goes through the same steps at the same time (Keeps).  *)
(* What is true only while one instance initialises is Alone: nothing is   *)
(* in the database twice, foreign keys follow columns, and an initialised  *)
(* database is left alone, from which follows that edits stay.             *)
(***************************************************************************)
EXTENDS Bootstrap, TLAPS

-----------------------------------------------------------------------------
\* Types, and the places in the lists.

AtTable  == {"create", "make", "key", "fk", "compare", "migrate", "meta", "insert", "describe"}
AtRecord == {"find", "write", "link"}

Diff == [add : SUBSET Col, remove : SUBSET Col, modify : SUBSET Col,
         unrelate : SUBSET Table, relate : SUBSET Table, bind : SUBSET Table]

SchemaTypes ==
    /\ cols \in [Table -> [Col -> {"none", "old", "new"}]] /\ fks \in [Table -> SUBSET Table]
    /\ keyed \subseteq Unique /\ made \subseteq Table /\ junctions \subseteq Junction
    /\ db \in {"sql", "mongo"}

RowTypes ==
    /\ meta \in [Table -> Nat] /\ described \subseteq Table
    /\ settings \in Seq(BOOLEAN) /\ \A r \in Record : KindOf[r] = "setting" => Len(settings) = count[r]
    /\ count \in [Record -> Nat] /\ linked \cup bare \cup edited \subseteq Record

HistoryTypes ==
    /\ lost \subseteq Record \cup Table /\ overlap \in BOOLEAN /\ gaveUp \in BOOLEAN
    /\ deaths \in 0 .. MaxDeaths /\ errors \in 0 .. MaxErrors /\ edits \in 0 .. MaxEdits

Placed(n) ==
    /\ step[n] \in AtTable => pos[n] \in 1 .. Len(TableSeq)
    /\ step[n] \in AtRecord => pos[n] \in 1 .. Len(RecordSeq)
    /\ step[n] # "migrate" => diff[n] = NoDiff

WalkTypes ==
    /\ step \in [Node -> Steps] /\ pos \in [Node -> Nat] /\ diff \in [Node -> Diff]
    /\ seen \in [Node -> SUBSET (Junction \cup Table \cup Record)]
    /\ \A n \in Node : Placed(n)

BootTypes == SchemaTypes /\ RowTypes /\ HistoryTypes /\ WalkTypes

-----------------------------------------------------------------------------
\* The physical schema.  What is right stays right, whoever else migrates.

Right(t, c) == cols[t][c] = IF c \in SnapCol[t] \cup SnapRef[t] THEN "new" ELSE "none"
RightTable(t) == (\A c \in Col : Right(t, c)) /\ fks[t] \subseteq SnapRef[t]

SchemaDone ==
    /\ made = Table
    /\ db = "sql" => /\ junctions = Junction
                     /\ \A t \in Table : /\ RightTable(t)
                                         /\ overlap \/ t \in lost \/ SnapRef[t] \subseteq fks[t]

KeysHaveColumns ==
    \A t \in Table : /\ t \notin made => fks[t] = {}
                     /\ \A u \in fks[t] : u \in Col /\ cols[t][u] # "none"
                     /\ \A u \in Table \cap Col : cols[t][u] # "old"

Served == {"nest", "meta", "insert", "ids", "describe", "physical", "find", "write", "link",
           "last", "isInit", "critical", "up"}

\* What a difference may name, and that it names all that is wrong.
Owed(d) == d.add \cup d.remove \cup d.modify \cup d.unrelate \cup d.relate

Differs(t, d) ==
    /\ d.add \cup d.modify \subseteq SnapCol[t] /\ d.relate \cup d.bind \subseteq SnapRef[t]
    /\ d.unrelate \cap (SnapCol[t] \cup SnapRef[t]) = {}
    /\ d.remove \cap (SnapCol[t] \cup SnapRef[t] \cup fks[t]) = {}
    /\ \A u \in d.bind : cols[t][u] # "none"
    /\ \A c \in Col : Right(t, c) \/ c \in Owed(d)
    /\ fks[t] \subseteq SnapRef[t] \cup d.unrelate

Migrated(n) ==
    /\ step[n] \in {"create", "make"} => \A i \in 1 .. pos[n] - 1 : TableSeq[i] \in made
    /\ step[n] = "key" => \A i \in 1 .. pos[n] : TableSeq[i] \in made
    /\ step[n] \notin {"off", "create", "make", "key"} => made = Table
    /\ step[n] \in {"compare", "migrate"} => \A i \in 1 .. pos[n] - 1 : RightTable(TableSeq[i])
    /\ step[n] = "migrate" => Differs(TableAt(n), diff[n])
    /\ step[n] = "junctions" => seen[n] \subseteq Junction
    /\ step[n] = "sync" => \A t \in Table : RightTable(t)
    /\ step[n] \in Served => SchemaDone

-----------------------------------------------------------------------------
\* The metadata and the default records.

\* Its rows, or on Mongo an error that was only logged.
HasRow(t)  == meta[t] > 0 \/ (db = "mongo" /\ t \in lost)
HasRows(t) == t \in described \/ (db = "mongo" /\ ({t} \cup SnapRef[t]) \cap lost # {})
MetaDone == \A t \in Table : HasRow(t) /\ HasRows(t)

Entered(r) == r \in lost \/ count[r] > 0
Bound(r) == AfterUpsert(r) = "link" => \/ r \in lost \cup linked \/ overlap
                                       \/ Of(r, "route") /\ db = "mongo"
                                       \/ \E m \in lost : Of(m, "method")
RecordsDone == \A r \in Record : Entered(r) /\ Bound(r)

Complete == SchemaDone /\ MetaDone /\ RecordsDone

Described(n) ==
    /\ step[n] \in {"meta", "insert"} /\ db # "sql" =>
          \A i \in 1 .. pos[n] - 1 : HasRow(TableSeq[i])
    /\ step[n] = "insert" =>
          /\ seen[n] \subseteq IF db = "sql" THEN Table ELSE {TableAt(n)}
          /\ \A t \in IF db = "sql" THEN Table ELSE {TableAt(n)} : t \in seen[n] \/ meta[t] > 0
    /\ step[n] \in {"ids", "describe"} => \A t \in Table : HasRow(t)
    /\ step[n] = "describe" => /\ \A t \in Table \ seen[n] : db = "mongo" /\ t \in lost
                               /\ \A i \in 1 .. pos[n] - 1 : HasRows(TableSeq[i])
    /\ step[n] \in {"physical", "find", "write", "link", "last", "isInit"} => MetaDone

Filled(n) ==
    /\ step[n] \in AtRecord => \A i \in 1 .. pos[n] - 1 : Entered(RecordSeq[i]) /\ Bound(RecordSeq[i])
    /\ step[n] = "write" /\ RecordAt(n) \in seen[n] => count[RecordAt(n)] > 0
    /\ step[n] = "link" => /\ Entered(RecordAt(n))
                           /\ Of(RecordAt(n), "hook") /\ db = "mongo" => RecordAt(n) \in linked
    /\ step[n] \in {"last", "isInit"} => RecordsDone

BareHasReason == \A r \in bare : RefOf[r] \in lost
DoneIsComplete == (\E i \in DOMAIN settings : settings[i]) => Complete

-----------------------------------------------------------------------------
\* One instance at a time.

Follows(t, bound) ==
    t \in lost \/ \A u \in SnapRef[t] : cols[t][u] # "none" => u \in fks[t] \cup bound

FksFollow(n) ==
    /\ step[n] = "fk" => \A i \in 1 .. pos[n] - 1 : Follows(TableSeq[i], {})
    /\ step[n] \in {"junction", "junctions", "compare"} => \A t \in Table : Follows(t, {})
    /\ step[n] = "migrate" => \A t \in Table : Follows(t, IF t = TableAt(n) THEN diff[n].bind ELSE {})
    /\ step[n] = "sync" => \A t \in Table : t \in lost \/ SnapRef[t] \subseteq fks[t]

AlonePlaces ==
    /\ \A m, n \in Node : step[m] \in Initialising /\ step[n] \in Initialising => m = n
    /\ Initialised => \A n \in Node : step[n] \in Initialising => step[n] = "nest"
    /\ \A n \in Node : step[n] = "critical" => Initialised
    /\ edited # {} => Initialised

AloneRows ==
    /\ Len(settings) <= 1
    /\ \A r \in Record : count[r] <= 1
    /\ \A t \in Table : meta[t] <= 1
    /\ \A n \in Node : /\ step[n] = "insert" => \A t \in seen[n] : meta[t] = 0
                       /\ step[n] = "write" /\ RecordAt(n) \notin seen[n] => count[RecordAt(n)] = 0

Alone == ~overlap => AlonePlaces /\ AloneRows /\ \A n \in Node : FksFollow(n)

BootInv == /\ BootTypes /\ KeysHaveColumns /\ BareHasReason /\ DoneIsComplete /\ Alone
           /\ \A n \in Node : Migrated(n) /\ Described(n) /\ Filled(n)
-----------------------------------------------------------------------------
(***************************************************************************)
(* The constants.                                                          *)
(***************************************************************************)
LEMMA Lists ==
    /\ Len(TableSeq) \in Nat \ {0} /\ Len(RecordSeq) \in Nat \ {0}
    /\ \A i \in 1 .. Len(TableSeq) : TableSeq[i] \in Table
    /\ \A t \in Table : \E i \in 1 .. Len(TableSeq) : t = TableSeq[i]
    /\ \A i \in 1 .. Len(RecordSeq) : RecordSeq[i] \in Record
    /\ \A r \in Record : \E i \in 1 .. Len(RecordSeq) : r = RecordSeq[i]
<1>1. /\ TableSeq \in Seq(Table) /\ TableDef \in Table
      /\ RecordSeq \in Seq(Record) /\ Critical \in Record
  BY BootstrapAssumption
<1>2. /\ Table = {TableSeq[i] : i \in DOMAIN TableSeq}
      /\ Record = {RecordSeq[i] : i \in DOMAIN RecordSeq}
  BY DEF Table, Record, ToSet
<1>3. DOMAIN TableSeq = 1 .. Len(TableSeq) /\ DOMAIN RecordSeq = 1 .. Len(RecordSeq)
  BY <1>1
<1> QED BY <1>1, <1>2, <1>3

LEMMA Columns ==
    /\ \A t \in Table : /\ SnapCol[t] \cup SnapRef[t] \cup OldCol \cup OldRef[t] \subseteq Col
                        /\ SnapRef[t] \subseteq Table /\ OldRef[t] \subseteq Table
                        /\ SnapCol[t] \cap Table = {} /\ OldCol \cap Table = {}
  BY BootstrapAssumption DEF Col

LEMMA Order ==
    ASSUME NEW i \in 1 .. Len(RecordSeq)
    PROVE  /\ RefOf[RecordSeq[i]] \in Record \cup Table \cup {"none"}
           /\ RefOf[RecordSeq[i]] \in Record => \E j \in 1 .. i - 1 : RecordSeq[j] = RefOf[RecordSeq[i]]
           /\ KindOf[RecordSeq[i]] \in {"route", "hook"} =>
                 \E j \in 1 .. i - 1 : KindOf[RecordSeq[j]] = "method"
<1>1. i \in DOMAIN RecordSeq /\ RecordSeq[i] \in Record
  BY Lists, BootstrapAssumption
<1> QED BY <1>1, BootstrapAssumption

LEMMA Bounds == {MaxDeaths, MaxErrors, MaxEdits} \subseteq Nat
  BY BootstrapAssumption

(***************************************************************************)
(* Steps of one instance.                                                  *)
(***************************************************************************)
LEMMA Going ==
    ASSUME BootTypes, NEW n \in Node, NEW from, NEW to \in Steps, NEW i \in Nat,
           Go(n, from, to, i)
    PROVE  /\ step[n] = from /\ step'[n] = to /\ pos'[n] = i
           /\ step' \in [Node -> Steps] /\ pos' \in [Node -> Nat]
           /\ \A m \in Node \ {n} : step'[m] = step[m] /\ pos'[m] = pos[m]
  BY DEF Go, BootTypes, WalkTypes

LEMMA Leaving ==
    ASSUME BootTypes, NEW n \in Node, Leaves(n)
    PROVE  /\ step'[n] = "off" /\ pos'[n] = 0 /\ seen'[n] = {} /\ diff'[n] = NoDiff
           /\ \A m \in Node \ {n} : /\ step'[m] = step[m] /\ pos'[m] = pos[m]
                                    /\ seen'[m] = seen[m] /\ diff'[m] = diff[m]
           /\ WalkTypes'
<1>1. NoDiff \in Diff
  BY DEF NoDiff, Diff
<1>2. /\ step \in [Node -> Steps] /\ pos \in [Node -> Nat] /\ diff \in [Node -> Diff]
      /\ seen \in [Node -> SUBSET (Junction \cup Table \cup Record)]
      /\ \A m \in Node : Placed(m)
  BY DEF BootTypes, WalkTypes
<1>3. /\ step' = [step EXCEPT ![n] = "off"] /\ pos' = [pos EXCEPT ![n] = 0]
      /\ seen' = [seen EXCEPT ![n] = {}] /\ diff' = [diff EXCEPT ![n] = NoDiff]
  BY DEF Leaves, Learns
<1>4. /\ step'[n] = "off" /\ pos'[n] = 0 /\ seen'[n] = {} /\ diff'[n] = NoDiff
      /\ \A m \in Node \ {n} : /\ step'[m] = step[m] /\ pos'[m] = pos[m]
                               /\ seen'[m] = seen[m] /\ diff'[m] = diff[m]
  BY <1>2, <1>3
<1>5. /\ step' \in [Node -> Steps] /\ pos' \in [Node -> Nat] /\ diff' \in [Node -> Diff]
      /\ seen' \in [Node -> SUBSET (Junction \cup Table \cup Record)]
  BY <1>1, <1>2, <1>3 DEF Steps
<1>6. \A m \in Node : Placed(m)'
  BY <1>2, <1>4 DEF Placed, AtTable, AtRecord
<1> QED BY <1>4, <1>5, <1>6 DEF WalkTypes

LEMMA Walking ==
    ASSUME BootTypes, NEW n \in Node, NEW from, NEW to \in Steps, NEW i \in Nat,
           Go(n, from, to, i), from # "migrate", to # "migrate",
           to \in AtTable => i \in 1 .. Len(TableSeq),
           to \in AtRecord => i \in 1 .. Len(RecordSeq),
           diff' = diff, seen' \in [Node -> SUBSET (Junction \cup Table \cup Record)]
    PROVE  WalkTypes'
<1>1. /\ diff \in [Node -> Diff] /\ \A m \in Node : Placed(m)
  BY DEF BootTypes, WalkTypes
<1>2. \A m \in Node : Placed(m)'
  BY <1>1, Going DEF Placed
<1> QED BY <1>1, <1>2, Going DEF WalkTypes

LEMMA OnwardTables ==
    ASSUME BootTypes, NEW n \in Node, NEW from \in AtTable, NEW again, NEW to,
           Onward(n, from, TableSeq, again, to)
    PROVE  \/ pos[n] + 1 \in 1 .. Len(TableSeq) /\ Go(n, from, again, pos[n] + 1)
           \/ pos[n] = Len(TableSeq) /\ Go(n, from, to, 1)
  BY Lists DEF Onward, Go, BootTypes, WalkTypes, Placed

LEMMA OnwardRecords ==
    ASSUME BootTypes, NEW n \in Node, NEW from \in AtRecord, NextRecord(n, from)
    PROVE  \/ pos[n] + 1 \in 1 .. Len(RecordSeq) /\ Go(n, from, "find", pos[n] + 1)
           \/ pos[n] = Len(RecordSeq) /\ Go(n, from, "last", 1)
  BY Lists DEF NextRecord, Onward, Go, BootTypes, WalkTypes, Placed

-----------------------------------------------------------------------------
(***************************************************************************)
(* What every step keeps, whoever takes it.                                *)
(***************************************************************************)
KeepsSchema ==
    /\ db' = db /\ made \subseteq made' /\ junctions \subseteq junctions'
    /\ \A t \in Table : /\ \A c \in Col : Right(t, c) => Right(t, c)'
                        /\ fks'[t] \subseteq fks[t] \cup SnapRef[t]
                        /\ fks[t] \cap SnapRef[t] \subseteq fks'[t]
                        /\ \A u \in SnapRef[t] : cols[t][u] # "none" => cols'[t][u] # "none"

KeepsRows ==
    /\ described \subseteq described' /\ linked \subseteq linked'
    /\ \A t \in Table : meta[t] > 0 => meta'[t] > 0
    /\ \A r \in Record : count[r] > 0 => count'[r] > 0

KeepsHistory == lost \subseteq lost' /\ (overlap => overlap')

Keeps == KeepsSchema /\ KeepsRows /\ KeepsHistory

(***************************************************************************)
(* A part of a difference is applied.                                      *)
(***************************************************************************)
Altered(n, t, D, v, f, d) ==
    /\ \A s \in Table, c \in Col : cols'[s][c] = IF s = t /\ c \in D THEN v ELSE cols[s][c]
    /\ \A s \in Table : fks'[s] = IF s = t THEN f ELSE fks[s]
    /\ diff'[n] = d

Alters(n, t, d) ==
    \/ Altered(n, t, d.add, "new", fks[t], [d EXCEPT !.add = {}])
    \/ Altered(n, t, d.remove, "none", fks[t], [d EXCEPT !.remove = {}])
    \/ Altered(n, t, d.modify, "new", fks[t], [d EXCEPT !.modify = {}])
    \/ Altered(n, t, d.unrelate, "none", fks[t] \ d.unrelate, [d EXCEPT !.unrelate = {}])
    \/ Altered(n, t, {}, "new", fks[t] \cup d.bind, [d EXCEPT !.bind = {}])
    \/ Altered(n, t, d.relate, "new", fks[t],
               [[d EXCEPT !.relate = {}] EXCEPT !.bind = d.bind \cup d.relate])

LEMMA Emptying ==
    ASSUME NEW d \in Diff
    PROVE  /\ [[d EXCEPT !["add"] = {}] EXCEPT !.bind = [d EXCEPT !["add"] = {}].bind \cup {}] = [d EXCEPT !.add = {}]
           /\ [d EXCEPT !.add = {}] \in Diff
           /\ [[d EXCEPT !["remove"] = {}] EXCEPT !.bind = [d EXCEPT !["remove"] = {}].bind \cup {}] = [d EXCEPT !.remove = {}]
           /\ [d EXCEPT !.remove = {}] \in Diff
           /\ [[d EXCEPT !["modify"] = {}] EXCEPT !.bind = [d EXCEPT !["modify"] = {}].bind \cup {}] = [d EXCEPT !.modify = {}]
           /\ [d EXCEPT !.modify = {}] \in Diff
           /\ [[d EXCEPT !["unrelate"] = {}] EXCEPT !.bind = [d EXCEPT !["unrelate"] = {}].bind \cup {}] = [d EXCEPT !.unrelate = {}]
           /\ [d EXCEPT !.unrelate = {}] \in Diff
           /\ [[d EXCEPT !["bind"] = {}] EXCEPT !.bind = [d EXCEPT !["bind"] = {}].bind \cup {}] = [d EXCEPT !.bind = {}]
           /\ [d EXCEPT !.bind = {}] \in Diff
           /\ [[d EXCEPT !["relate"] = {}] EXCEPT !.bind = [d EXCEPT !["relate"] = {}].bind \cup d.relate] =
                 [[d EXCEPT !.relate = {}] EXCEPT !.bind = d.bind \cup d.relate]
           /\ [[d EXCEPT !.relate = {}] EXCEPT !.bind = d.bind \cup d.relate] \in Diff
<1>1. /\ [[d EXCEPT !["add"] = {}] EXCEPT !.bind = [d EXCEPT !["add"] = {}].bind \cup {}] = [d EXCEPT !.add = {}]
      /\ [d EXCEPT !.add = {}] \in Diff
  BY DEF Diff
<1>2. /\ [[d EXCEPT !["remove"] = {}] EXCEPT !.bind = [d EXCEPT !["remove"] = {}].bind \cup {}] = [d EXCEPT !.remove = {}]
      /\ [d EXCEPT !.remove = {}] \in Diff
  BY DEF Diff
<1>3. /\ [[d EXCEPT !["modify"] = {}] EXCEPT !.bind = [d EXCEPT !["modify"] = {}].bind \cup {}] = [d EXCEPT !.modify = {}]
      /\ [d EXCEPT !.modify = {}] \in Diff
  BY DEF Diff
<1>4. /\ [[d EXCEPT !["unrelate"] = {}] EXCEPT !.bind = [d EXCEPT !["unrelate"] = {}].bind \cup {}] = [d EXCEPT !.unrelate = {}]
      /\ [d EXCEPT !.unrelate = {}] \in Diff
  BY DEF Diff
<1>5. /\ [[d EXCEPT !["bind"] = {}] EXCEPT !.bind = [d EXCEPT !["bind"] = {}].bind \cup {}] = [d EXCEPT !.bind = {}]
      /\ [d EXCEPT !.bind = {}] \in Diff
  BY DEF Diff
<1>6. /\ [[d EXCEPT !["relate"] = {}] EXCEPT !.bind = [d EXCEPT !["relate"] = {}].bind \cup d.relate] =
            [[d EXCEPT !.relate = {}] EXCEPT !.bind = d.bind \cup d.relate]
      /\ [[d EXCEPT !.relate = {}] EXCEPT !.bind = d.bind \cup d.relate] \in Diff
  BY DEF Diff
<1> QED BY <1>1, <1>2, <1>3, <1>4, <1>5, <1>6

LEMMA Altering ==
    ASSUME BootTypes, NEW n \in Node, step[n] = "migrate", NEW p \in NextPart(n),
           AlterTable(n, Parts[p]), UNCHANGED <<db, keyed, made, junctions>>
    PROVE  /\ Alters(n, TableAt(n), diff[n])
           /\ SchemaTypes'
           /\ diff' \in [Node -> Diff] /\ \A m \in Node \ {n} : diff'[m] = diff[m]
<1> DEFINE t == TableAt(n)
<1> DEFINE d == diff[n]
<1>1. t \in Table /\ d \in Diff /\ SchemaTypes /\ diff \in [Node -> Diff]
  BY Lists DEF TableAt, BootTypes, WalkTypes, Placed, AtTable
<1>2. p \in 1 .. 6
  BY DEF NextPart, Parts
<1>3. ASSUME NEW D, NEW v \in {"none", "old", "new"}, NEW f \in SUBSET Table, NEW e \in Diff,
             cols' = [cols EXCEPT ![t] = [c \in Col |-> IF c \in D THEN v ELSE cols[t][c]]],
             fks' = [fks EXCEPT ![t] = f], diff' = [diff EXCEPT ![n] = e]
      PROVE  /\ Altered(n, t, D, v, f, e) /\ SchemaTypes'
             /\ diff' \in [Node -> Diff] /\ \A m \in Node \ {n} : diff'[m] = diff[m]
  <2>1. /\ diff' \in [Node -> Diff] /\ \A m \in Node \ {n} : diff'[m] = diff[m]
        /\ diff'[n] = e
    BY <1>1, <1>3
  <2>2. /\ fks' \in [Table -> SUBSET Table]
        /\ \A s \in Table : fks'[s] = IF s = t THEN f ELSE fks[s]
    BY <1>1, <1>3 DEF SchemaTypes
  <2>3. [c \in Col |-> IF c \in D THEN v ELSE cols[t][c]] \in [Col -> {"none", "old", "new"}]
    BY <1>1 DEF SchemaTypes
  <2>4. /\ cols' \in [Table -> [Col -> {"none", "old", "new"}]]
        /\ \A s \in Table, c \in Col : cols'[s][c] = IF s = t /\ c \in D THEN v ELSE cols[s][c]
    BY <1>1, <1>3, <2>3 DEF SchemaTypes
  <2> QED BY <1>1, <2>1, <2>2, <2>4 DEF Altered, SchemaTypes
<1>4. CASE p = 1
  <2>1. Parts[p] = "add"
    BY <1>4 DEF Parts
  <2>2. cols' = [cols EXCEPT ![t] = [c \in Col |-> IF c \in d.add THEN "new" ELSE cols[t][c]]]
    BY <2>1, <1>1 DEF AlterTable, SchemaTypes, Diff
  <2>3. fks' = [fks EXCEPT ![t] = fks[t]]
    BY <2>1, <1>1 DEF AlterTable, SchemaTypes
  <2>4. diff' = [diff EXCEPT ![n] = [[d EXCEPT !["add"] = {}] EXCEPT !.bind = [d EXCEPT !["add"] = {}].bind \cup {}]]
    BY <2>1 DEF AlterTable
  <2>5. /\ [[d EXCEPT !["add"] = {}] EXCEPT !.bind = [d EXCEPT !["add"] = {}].bind \cup {}] = [d EXCEPT !.add = {}]
        /\ [d EXCEPT !.add = {}] \in Diff
    BY <1>1, Emptying
  <2>6. (fks[t]) \in SUBSET Table
    BY <1>1 DEF Diff, SchemaTypes
  <2> QED BY <1>3, <2>2, <2>3, <2>4, <2>5, <2>6 DEF Alters
<1>5. CASE p = 2
  <2>1. Parts[p] = "remove"
    BY <1>5 DEF Parts
  <2>2. cols' = [cols EXCEPT ![t] = [c \in Col |-> IF c \in d.remove THEN "none" ELSE cols[t][c]]]
    BY <2>1, <1>1 DEF AlterTable, SchemaTypes, Diff
  <2>3. fks' = [fks EXCEPT ![t] = fks[t]]
    BY <2>1, <1>1 DEF AlterTable, SchemaTypes
  <2>4. diff' = [diff EXCEPT ![n] = [[d EXCEPT !["remove"] = {}] EXCEPT !.bind = [d EXCEPT !["remove"] = {}].bind \cup {}]]
    BY <2>1 DEF AlterTable
  <2>5. /\ [[d EXCEPT !["remove"] = {}] EXCEPT !.bind = [d EXCEPT !["remove"] = {}].bind \cup {}] = [d EXCEPT !.remove = {}]
        /\ [d EXCEPT !.remove = {}] \in Diff
    BY <1>1, Emptying
  <2>6. (fks[t]) \in SUBSET Table
    BY <1>1 DEF Diff, SchemaTypes
  <2> QED BY <1>3, <2>2, <2>3, <2>4, <2>5, <2>6 DEF Alters
<1>6. CASE p = 3
  <2>1. Parts[p] = "modify"
    BY <1>6 DEF Parts
  <2>2. cols' = [cols EXCEPT ![t] = [c \in Col |-> IF c \in d.modify THEN "new" ELSE cols[t][c]]]
    BY <2>1, <1>1 DEF AlterTable, SchemaTypes, Diff
  <2>3. fks' = [fks EXCEPT ![t] = fks[t]]
    BY <2>1, <1>1 DEF AlterTable, SchemaTypes
  <2>4. diff' = [diff EXCEPT ![n] = [[d EXCEPT !["modify"] = {}] EXCEPT !.bind = [d EXCEPT !["modify"] = {}].bind \cup {}]]
    BY <2>1 DEF AlterTable
  <2>5. /\ [[d EXCEPT !["modify"] = {}] EXCEPT !.bind = [d EXCEPT !["modify"] = {}].bind \cup {}] = [d EXCEPT !.modify = {}]
        /\ [d EXCEPT !.modify = {}] \in Diff
    BY <1>1, Emptying
  <2>6. (fks[t]) \in SUBSET Table
    BY <1>1 DEF Diff, SchemaTypes
  <2> QED BY <1>3, <2>2, <2>3, <2>4, <2>5, <2>6 DEF Alters
<1>7. CASE p = 4
  <2>1. Parts[p] = "unrelate"
    BY <1>7 DEF Parts
  <2>2. cols' = [cols EXCEPT ![t] = [c \in Col |-> IF c \in d.unrelate THEN "none" ELSE cols[t][c]]]
    BY <2>1, <1>1 DEF AlterTable, SchemaTypes, Diff
  <2>3. fks' = [fks EXCEPT ![t] = fks[t] \ d.unrelate]
    BY <2>1, <1>1 DEF AlterTable, SchemaTypes
  <2>4. diff' = [diff EXCEPT ![n] = [[d EXCEPT !["unrelate"] = {}] EXCEPT !.bind = [d EXCEPT !["unrelate"] = {}].bind \cup {}]]
    BY <2>1 DEF AlterTable
  <2>5. /\ [[d EXCEPT !["unrelate"] = {}] EXCEPT !.bind = [d EXCEPT !["unrelate"] = {}].bind \cup {}] = [d EXCEPT !.unrelate = {}]
        /\ [d EXCEPT !.unrelate = {}] \in Diff
    BY <1>1, Emptying
  <2>6. (fks[t] \ d.unrelate) \in SUBSET Table
    BY <1>1 DEF Diff, SchemaTypes
  <2> QED BY <1>3, <2>2, <2>3, <2>4, <2>5, <2>6 DEF Alters
<1>8. CASE p = 5
  <2>1. Parts[p] = "bind"
    BY <1>8 DEF Parts
  <2>2. cols' = [cols EXCEPT ![t] = [c \in Col |-> IF c \in {} THEN "new" ELSE cols[t][c]]]
    BY <2>1, <1>1 DEF AlterTable, SchemaTypes, Diff
  <2>3. fks' = [fks EXCEPT ![t] = fks[t] \cup d.bind]
    BY <2>1, <1>1 DEF AlterTable, SchemaTypes
  <2>4. diff' = [diff EXCEPT ![n] = [[d EXCEPT !["bind"] = {}] EXCEPT !.bind = [d EXCEPT !["bind"] = {}].bind \cup {}]]
    BY <2>1, <1>1 DEF AlterTable
  <2>5. /\ [[d EXCEPT !["bind"] = {}] EXCEPT !.bind = [d EXCEPT !["bind"] = {}].bind \cup {}] = [d EXCEPT !.bind = {}]
        /\ [d EXCEPT !.bind = {}] \in Diff
    BY <1>1, Emptying
  <2>6. (fks[t] \cup d.bind) \in SUBSET Table
    BY <1>1 DEF Diff, SchemaTypes
  <2>7. /\ Altered(n, t, {}, "new", fks[t] \cup d.bind, [d EXCEPT !.bind = {}]) /\ SchemaTypes'
        /\ diff' \in [Node -> Diff] /\ \A m \in Node \ {n} : diff'[m] = diff[m]
    <3>1. PICK D : D = {}
      OBVIOUS
    <3>2. PICK e \in Diff : e = [d EXCEPT !.bind = {}]
      BY <2>5
    <3>3. /\ cols' = [cols EXCEPT ![t] = [c \in Col |-> IF c \in D THEN "new" ELSE cols[t][c]]]
          /\ diff' = [diff EXCEPT ![n] = e]
      BY <2>2, <2>4, <2>5, <3>1, <3>2
    <3>4. "new" \in {"none", "old", "new"}
      OBVIOUS
    <3>5. /\ Altered(n, t, D, "new", fks[t] \cup d.bind, e) /\ SchemaTypes'
          /\ diff' \in [Node -> Diff] /\ \A m \in Node \ {n} : diff'[m] = diff[m]
      BY <1>3, <2>3, <2>6, <3>3, <3>4
    <3> QED BY <3>1, <3>2, <3>5
  <2> QED BY <2>7 DEF Alters
<1>9. CASE p = 6
  <2>1. Parts[p] = "relate"
    BY <1>9 DEF Parts
  <2>2. cols' = [cols EXCEPT ![t] = [c \in Col |-> IF c \in d.relate THEN "new" ELSE cols[t][c]]]
    BY <2>1, <1>1 DEF AlterTable, SchemaTypes, Diff
  <2>3. fks' = [fks EXCEPT ![t] = fks[t]]
    BY <2>1, <1>1 DEF AlterTable, SchemaTypes
  <2>4. diff' = [diff EXCEPT ![n] = [[d EXCEPT !["relate"] = {}] EXCEPT !.bind = [d EXCEPT !["relate"] = {}].bind \cup d.relate]]
    BY <2>1 DEF AlterTable
  <2>5. /\ [[d EXCEPT !["relate"] = {}] EXCEPT !.bind = [d EXCEPT !["relate"] = {}].bind \cup d.relate] = [[d EXCEPT !.relate = {}] EXCEPT !.bind = d.bind \cup d.relate]
        /\ [[d EXCEPT !.relate = {}] EXCEPT !.bind = d.bind \cup d.relate] \in Diff
    BY <1>1, Emptying
  <2>6. (fks[t]) \in SUBSET Table
    BY <1>1 DEF Diff, SchemaTypes
  <2> QED BY <1>3, <2>2, <2>3, <2>4, <2>5, <2>6 DEF Alters
<1> QED BY <1>2, <1>4, <1>5, <1>6, <1>7, <1>8, <1>9

-----------------------------------------------------------------------------
(***************************************************************************)
(* The schema.                                                             *)
(***************************************************************************)
SchemaGoesOn == KeepsSchema /\ SchemaTypes' /\ KeysHaveColumns'

LEMMA SchemaStays ==
    ASSUME BootInv, UNCHANGED <<db, schema>>
    PROVE  SchemaGoesOn
  BY DEF SchemaGoesOn, KeepsSchema, SchemaTypes, KeysHaveColumns, Right, schema, BootInv, BootTypes

LEMMA TableAtIs ==
    ASSUME BootTypes, NEW n \in Node, step[n] \in AtTable
    PROVE  TableAt(n) \in Table /\ TableAt(n) = TableSeq[pos[n]] /\ pos[n] \in 1 .. Len(TableSeq)
  BY Lists DEF TableAt, BootTypes, WalkTypes, Placed

LEMMA MakeTableSchema ==
    ASSUME BootInv, NEW n \in Node, MakeTable(n)
    PROVE  SchemaGoesOn
<1>1. BootTypes /\ SchemaTypes /\ KeysHaveColumns
  BY DEF BootInv, BootTypes
<1>2. step[n] = "make"
  BY DEF MakeTable
<1>3. TableAt(n) \in Table
  BY <1>1, <1>2, TableAtIs DEF AtTable
<1>4. CASE TableAt(n) \in made
  BY <1>4, SchemaStays DEF MakeTable, schema
<1>5. CASE TableAt(n) \notin made
  <2>1. PICK t \in Table : t = TableAt(n)
    BY <1>3
  <2>2. PICK v : v = [c \in Col |-> IF c \in SnapCol[t] \cup SnapRef[t] THEN "new" ELSE "none"]
    OBVIOUS
  <2>3. /\ cols' = [cols EXCEPT ![t] = v] /\ made' = made \cup {t}
        /\ UNCHANGED <<db, fks, keyed, junctions>>
    BY <1>5, <2>1, <2>2 DEF MakeTable
  <2>4. v \in [Col -> {"none", "old", "new"}]
    BY <2>2
  <2>5. SchemaTypes'
    BY <1>1, <2>3, <2>4 DEF SchemaTypes
  <2>6. /\ \A s \in Table \ {t} : cols'[s] = cols[s]
        /\ \A c \in Col : cols'[t][c] = IF c \in SnapCol[t] \cup SnapRef[t] THEN "new" ELSE "none"
    BY <1>1, <2>2, <2>3 DEF SchemaTypes
  <2>7. KeepsSchema
    BY <2>3, <2>6, Columns DEF KeepsSchema, Right
  <2>8. t \notin made
    BY <1>5, <2>1
  <2>9. KeysHaveColumns'
    BY <1>1, <2>3, <2>6, <2>8, Columns DEF KeysHaveColumns
  <2> QED BY <2>5, <2>7, <2>9 DEF SchemaGoesOn
<1> QED BY <1>4, <1>5

LEMMA MakeKeysSchema ==
    ASSUME BootInv, NEW n \in Node, MakeKeys(n)
    PROVE  SchemaGoesOn
  BY DEF MakeKeys, SchemaGoesOn, KeepsSchema, SchemaTypes, KeysHaveColumns, Right, BootInv, BootTypes

LEMMA AddForeignKeysSchema ==
    ASSUME BootInv, NEW n \in Node, AddForeignKeys(n) \/ ForeignKeyFails(n)
    PROVE  SchemaGoesOn
<1>1. BootTypes /\ SchemaTypes /\ KeysHaveColumns /\ Migrated(n)
  BY DEF BootInv, BootTypes
<1>2. step[n] = "fk"
  BY DEF AddForeignKeys, ForeignKeyFails, Onward, Go
<1>3. PICK t \in Table : t = TableAt(n)
  BY <1>1, <1>2, TableAtIs DEF AtTable
<1>4. made = Table
  BY <1>1, <1>2 DEF Migrated
<1>5. /\ UNCHANGED <<db, cols, keyed, made, junctions>>
      /\ \E D \in SUBSET Bindable(t) : fks' = [fks EXCEPT ![t] = fks[t] \cup D]
  <2>1. CASE AddForeignKeys(n)
    <3>1. PICK D \in SUBSET Bindable(t) : D = Bindable(t)
      OBVIOUS
    <3> QED BY <1>3, <2>1, <3>1 DEF AddForeignKeys
  <2>2. CASE ForeignKeyFails(n)
    <3>1. PICK u : fks' = [fks EXCEPT ![t] = fks[t] \cup (Bindable(t) \ {u})]
      BY <1>3, <2>2 DEF ForeignKeyFails
    <3>2. PICK D \in SUBSET Bindable(t) : D = Bindable(t) \ {u}
      OBVIOUS
    <3> QED BY <2>2, <3>1, <3>2 DEF ForeignKeyFails
  <2> QED BY <2>1, <2>2
<1>6. PICK D \in SUBSET Bindable(t) : fks' = [fks EXCEPT ![t] = fks[t] \cup D]
  BY <1>5
<1>7. D \subseteq SnapRef[t] /\ D \subseteq Table /\ D \subseteq Col /\ \A u \in D : cols[t][u] # "none"
  BY <1>6, Columns DEF Bindable
<1>8. \A s \in Table : fks'[s] = IF s = t THEN fks[t] \cup D ELSE fks[s]
  BY <1>1, <1>6 DEF SchemaTypes
<1>9. SchemaTypes'
  BY <1>1, <1>5, <1>6, <1>7 DEF SchemaTypes
<1>10. KeepsSchema
  BY <1>5, <1>7, <1>8 DEF KeepsSchema, Right
<1>11. KeysHaveColumns'
  BY <1>1, <1>4, <1>5, <1>7, <1>8 DEF KeysHaveColumns
<1> QED BY <1>9, <1>10, <1>11 DEF SchemaGoesOn

LEMMA MakeJunctionSchema ==
    ASSUME BootInv, NEW n \in Node, MakeJunction(n), seen[n] \subseteq Junction
    PROVE  SchemaGoesOn
  BY DEF MakeJunction, SchemaGoesOn, KeepsSchema, SchemaTypes, KeysHaveColumns, Right, BootInv,
     BootTypes

LEMMA SyncJunctionsSchema ==
    ASSUME BootInv, NEW n \in Node, SyncJunctions(n)
    PROVE  SchemaGoesOn
  BY DEF SyncJunctions, SchemaGoesOn, KeepsSchema, SchemaTypes, KeysHaveColumns, Right, BootInv,
     BootTypes

LEMMA SyncPhysicalSchema ==
    ASSUME BootInv, NEW n \in Node, SyncPhysical(n)
    PROVE  SchemaGoesOn
<1>1. BootTypes /\ SchemaTypes /\ KeysHaveColumns
  BY DEF BootInv, BootTypes
<1>2. /\ cols' = [t \in Table |-> [c \in Col |->
                  IF c \in SnapCol[t] /\ cols[t][c] = "old" THEN "new" ELSE cols[t][c]]]
      /\ UNCHANGED <<db, fks, keyed, made, junctions>>
  BY DEF SyncPhysical
<1>3. \A t \in Table, c \in Col :
         cols'[t][c] = IF c \in SnapCol[t] /\ cols[t][c] = "old" THEN "new" ELSE cols[t][c]
  BY <1>2
<1>4. SchemaTypes'
  BY <1>1, <1>2 DEF SchemaTypes
<1>5. KeepsSchema
  BY <1>2, <1>3, Columns DEF KeepsSchema, Right
<1>6. KeysHaveColumns'
  BY <1>1, <1>2, <1>3 DEF KeysHaveColumns
<1> QED BY <1>4, <1>5, <1>6 DEF SchemaGoesOn

(***************************************************************************)
(* An ALTER TABLE leaves what is right, and the rest is still in the       *)
(* difference.                                                             *)
(***************************************************************************)
\* What makes the change of a part one of those towards the snapshot.
Fits(t, d, D, v, f, e) ==
    /\ v \in {"new", "none"}
    /\ \A c \in D : v = IF c \in SnapCol[t] \cup SnapRef[t] THEN "new" ELSE "none"
    /\ f \subseteq fks[t] \cup SnapRef[t] /\ fks[t] \cap SnapRef[t] \subseteq f
    /\ f \subseteq SnapRef[t] \cup e.unrelate
    /\ \A u \in f : u \in Col /\ (IF u \in D THEN v # "none" ELSE cols[t][u] # "none")
    /\ e.add \cup e.modify \subseteq SnapCol[t] /\ e.relate \cup e.bind \subseteq SnapRef[t]
    /\ e.unrelate \subseteq d.unrelate /\ e.remove \subseteq d.remove
    /\ Owed(d) \subseteq Owed(e) \cup D
    /\ \A u \in e.bind : IF u \in D THEN v # "none" ELSE cols[t][u] # "none"

LEMMA AlteredKeeps ==
    ASSUME KeysHaveColumns, made = Table, UNCHANGED <<db, made, junctions>>,
           NEW n \in Node, NEW t \in Table, NEW d \in Diff, Differs(t, d),
           NEW D, NEW v, NEW f \in SUBSET Table, NEW e \in Diff,
           Altered(n, t, D, v, f, e), Fits(t, d, D, v, f, e)
    PROVE  KeepsSchema /\ KeysHaveColumns' /\ Differs(t, e)'
<1>1. /\ \A s \in Table, c \in Col : cols'[s][c] = IF s = t /\ c \in D THEN v ELSE cols[s][c]
      /\ \A s \in Table : fks'[s] = IF s = t THEN f ELSE fks[s]
  BY DEF Altered
<1> USE DEF Fits
<1>2. \A s \in Table, c \in Col : Right(s, c) => Right(s, c)'
  BY <1>1 DEF Right
<1>3. \A c \in D \cap Col : Right(t, c)'
  BY <1>1 DEF Right
<1>4. KeepsSchema
  <2>1. \A s \in Table : \A u \in SnapRef[s] : u \in Col /\ (cols[s][u] # "none" => cols'[s][u] # "none")
    BY <1>1, Columns
  <2>2. \A s \in Table : /\ fks'[s] \subseteq fks[s] \cup SnapRef[s]
                        /\ fks[s] \cap SnapRef[s] \subseteq fks'[s]
    BY <1>1
  <2> QED BY <1>2, <2>1, <2>2 DEF KeepsSchema
<1>5. KeysHaveColumns'
  <2>1. \A s \in Table : \A u \in fks'[s] : u \in Col /\ cols'[s][u] # "none"
    BY <1>1 DEF KeysHaveColumns
  <2>2. \A s \in Table, u \in Table \cap Col : cols'[s][u] # "old"
    BY <1>1 DEF KeysHaveColumns
  <2> QED BY <2>1, <2>2 DEF KeysHaveColumns
<1>6. Differs(t, e)'
  <2>1. \A c \in Col : Right(t, c)' \/ c \in Owed(e)
    BY <1>2, <1>3 DEF Differs
  <2>2. \A u \in e.bind : cols'[t][u] # "none"
    BY <1>1, Columns
  <2>3. /\ e.unrelate \cap (SnapCol[t] \cup SnapRef[t]) = {}
        /\ e.remove \cap (SnapCol[t] \cup SnapRef[t] \cup fks'[t]) = {}
        /\ fks'[t] \subseteq SnapRef[t] \cup e.unrelate
    BY <1>1 DEF Differs
  <2> QED BY <2>1, <2>2, <2>3 DEF Differs, Owed
<1> QED BY <1>4, <1>5, <1>6

LEMMA AlteringKeeps ==
    ASSUME BootInv, NEW n \in Node, step[n] = "migrate", Alters(n, TableAt(n), diff[n]),
           SchemaTypes', UNCHANGED <<db, keyed, made, junctions>>
    PROVE  /\ SchemaGoesOn
           /\ \E t \in Table, e \in Diff : t = TableAt(n) /\ e = diff'[n] /\ Differs(t, e)'
<1>1. BootTypes /\ SchemaTypes /\ KeysHaveColumns /\ Migrated(n)
  BY DEF BootInv, BootTypes
<1>2. PICK t \in Table : t = TableAt(n)
  BY <1>1, TableAtIs DEF AtTable
<1>3. PICK d \in Diff : d = diff[n]
  BY <1>1 DEF BootTypes, WalkTypes
<1>4. Differs(t, d) /\ made = Table
  BY <1>1, <1>2, <1>3 DEF Migrated
<1>5. /\ fks[t] \subseteq Table /\ \A u \in fks[t] : u \in Col /\ cols[t][u] # "none"
      /\ SnapRef[t] \subseteq Table /\ SnapRef[t] \subseteq Col
      /\ SnapCol[t] \cap Table = {} /\ SnapCol[t] \subseteq Col
  BY <1>1, Columns DEF SchemaTypes, KeysHaveColumns
<1> DEFINE Done(e) == KeepsSchema /\ KeysHaveColumns' /\ Differs(t, e)' /\ diff'[n] = e
<1>6. ASSUME Altered(n, t, d.add, "new", fks[t], [d EXCEPT !.add = {}]) PROVE \E e \in Diff : Done(e)
  <2>1. PICK e : e = [d EXCEPT !.add = {}]
    OBVIOUS
  <2>2. /\ e \in Diff /\ e.add = {} /\ e.remove = d.remove /\ e.modify = d.modify
        /\ e.unrelate = d.unrelate /\ e.relate = d.relate /\ e.bind = d.bind
    BY <2>1, <1>3, <1>5, Emptying DEF Diff
  <2>3. PICK D, f, v : D = d.add /\ f = fks[t] /\ v = "new" /\ v \in {"new", "none"}
    OBVIOUS
  <2>4. Altered(n, t, D, v, f, e) /\ f \in SUBSET Table /\ diff'[n] = e
    BY <1>6, <1>4, <1>5, <2>1, <2>3 DEF Altered, Differs
  <2>5. \A c \in D : v = IF c \in SnapCol[t] \cup SnapRef[t] THEN "new" ELSE "none"
    BY <1>4, <1>5, <2>3 DEF Differs
  <2>6. /\ f \subseteq fks[t] \cup SnapRef[t] /\ fks[t] \cap SnapRef[t] \subseteq f
        /\ f \subseteq SnapRef[t] \cup e.unrelate
        /\ \A u \in f : u \in Col /\ (IF u \in D THEN v # "none" ELSE cols[t][u] # "none")
    BY <1>4, <1>5, <2>2, <2>3 DEF Differs
  <2>7. /\ e.add \cup e.modify \subseteq SnapCol[t] /\ e.relate \cup e.bind \subseteq SnapRef[t]
        /\ e.unrelate \subseteq d.unrelate /\ e.remove \subseteq d.remove
        /\ Owed(d) \subseteq Owed(e) \cup D
        /\ \A u \in e.bind : IF u \in D THEN v # "none" ELSE cols[t][u] # "none"
    BY <1>4, <1>5, <2>2, <2>3 DEF Differs, Owed
  <2>8. KeysHaveColumns /\ made = Table /\ Differs(t, d) /\ UNCHANGED <<db, made, junctions>>
    BY <1>1, <1>4
  <2>9. e \in Diff /\ Fits(t, d, D, v, f, e)
    BY <2>2, <2>3, <2>5, <2>6, <2>7 DEF Fits
  <2>10. KeepsSchema /\ KeysHaveColumns' /\ Differs(t, e)'
    BY <2>4, <2>8, <2>9, AlteredKeeps
  <2> QED BY <2>4, <2>9, <2>10
<1>7. ASSUME Altered(n, t, d.remove, "none", fks[t], [d EXCEPT !.remove = {}]) PROVE \E e \in Diff : Done(e)
  <2>1. PICK e : e = [d EXCEPT !.remove = {}]
    OBVIOUS
  <2>2. /\ e \in Diff /\ e.add = d.add /\ e.remove = {} /\ e.modify = d.modify
        /\ e.unrelate = d.unrelate /\ e.relate = d.relate /\ e.bind = d.bind
    BY <2>1, <1>3, <1>5, Emptying DEF Diff
  <2>3. PICK D, f, v : D = d.remove /\ f = fks[t] /\ v = "none" /\ v \in {"new", "none"}
    OBVIOUS
  <2>4. Altered(n, t, D, v, f, e) /\ f \in SUBSET Table /\ diff'[n] = e
    BY <1>7, <1>4, <1>5, <2>1, <2>3 DEF Altered, Differs
  <2>5. \A c \in D : v = IF c \in SnapCol[t] \cup SnapRef[t] THEN "new" ELSE "none"
    BY <1>4, <1>5, <2>3 DEF Differs
  <2>6. /\ f \subseteq fks[t] \cup SnapRef[t] /\ fks[t] \cap SnapRef[t] \subseteq f
        /\ f \subseteq SnapRef[t] \cup e.unrelate
        /\ \A u \in f : u \in Col /\ (IF u \in D THEN v # "none" ELSE cols[t][u] # "none")
    BY <1>4, <1>5, <2>2, <2>3 DEF Differs
  <2>7. /\ e.add \cup e.modify \subseteq SnapCol[t] /\ e.relate \cup e.bind \subseteq SnapRef[t]
        /\ e.unrelate \subseteq d.unrelate /\ e.remove \subseteq d.remove
        /\ Owed(d) \subseteq Owed(e) \cup D
        /\ \A u \in e.bind : IF u \in D THEN v # "none" ELSE cols[t][u] # "none"
    BY <1>4, <1>5, <2>2, <2>3 DEF Differs, Owed
  <2>8. KeysHaveColumns /\ made = Table /\ Differs(t, d) /\ UNCHANGED <<db, made, junctions>>
    BY <1>1, <1>4
  <2>9. e \in Diff /\ Fits(t, d, D, v, f, e)
    BY <2>2, <2>3, <2>5, <2>6, <2>7 DEF Fits
  <2>10. KeepsSchema /\ KeysHaveColumns' /\ Differs(t, e)'
    BY <2>4, <2>8, <2>9, AlteredKeeps
  <2> QED BY <2>4, <2>9, <2>10
<1>8. ASSUME Altered(n, t, d.modify, "new", fks[t], [d EXCEPT !.modify = {}]) PROVE \E e \in Diff : Done(e)
  <2>1. PICK e : e = [d EXCEPT !.modify = {}]
    OBVIOUS
  <2>2. /\ e \in Diff /\ e.add = d.add /\ e.remove = d.remove /\ e.modify = {}
        /\ e.unrelate = d.unrelate /\ e.relate = d.relate /\ e.bind = d.bind
    BY <2>1, <1>3, <1>5, Emptying DEF Diff
  <2>3. PICK D, f, v : D = d.modify /\ f = fks[t] /\ v = "new" /\ v \in {"new", "none"}
    OBVIOUS
  <2>4. Altered(n, t, D, v, f, e) /\ f \in SUBSET Table /\ diff'[n] = e
    BY <1>8, <1>4, <1>5, <2>1, <2>3 DEF Altered, Differs
  <2>5. \A c \in D : v = IF c \in SnapCol[t] \cup SnapRef[t] THEN "new" ELSE "none"
    BY <1>4, <1>5, <2>3 DEF Differs
  <2>6. /\ f \subseteq fks[t] \cup SnapRef[t] /\ fks[t] \cap SnapRef[t] \subseteq f
        /\ f \subseteq SnapRef[t] \cup e.unrelate
        /\ \A u \in f : u \in Col /\ (IF u \in D THEN v # "none" ELSE cols[t][u] # "none")
    BY <1>4, <1>5, <2>2, <2>3 DEF Differs
  <2>7. /\ e.add \cup e.modify \subseteq SnapCol[t] /\ e.relate \cup e.bind \subseteq SnapRef[t]
        /\ e.unrelate \subseteq d.unrelate /\ e.remove \subseteq d.remove
        /\ Owed(d) \subseteq Owed(e) \cup D
        /\ \A u \in e.bind : IF u \in D THEN v # "none" ELSE cols[t][u] # "none"
    BY <1>4, <1>5, <2>2, <2>3 DEF Differs, Owed
  <2>8. KeysHaveColumns /\ made = Table /\ Differs(t, d) /\ UNCHANGED <<db, made, junctions>>
    BY <1>1, <1>4
  <2>9. e \in Diff /\ Fits(t, d, D, v, f, e)
    BY <2>2, <2>3, <2>5, <2>6, <2>7 DEF Fits
  <2>10. KeepsSchema /\ KeysHaveColumns' /\ Differs(t, e)'
    BY <2>4, <2>8, <2>9, AlteredKeeps
  <2> QED BY <2>4, <2>9, <2>10
<1>9. ASSUME Altered(n, t, d.unrelate, "none", fks[t] \ d.unrelate, [d EXCEPT !.unrelate = {}]) PROVE \E e \in Diff : Done(e)
  <2>1. PICK e : e = [d EXCEPT !.unrelate = {}]
    OBVIOUS
  <2>2. /\ e \in Diff /\ e.add = d.add /\ e.remove = d.remove /\ e.modify = d.modify
        /\ e.unrelate = {} /\ e.relate = d.relate /\ e.bind = d.bind
    BY <2>1, <1>3, <1>5, Emptying DEF Diff
  <2>3. PICK D, f, v : D = d.unrelate /\ f = fks[t] \ d.unrelate /\ v = "none" /\ v \in {"new", "none"}
    OBVIOUS
  <2>4. Altered(n, t, D, v, f, e) /\ f \in SUBSET Table /\ diff'[n] = e
    BY <1>9, <1>4, <1>5, <2>1, <2>3 DEF Altered, Differs
  <2>5. \A c \in D : v = IF c \in SnapCol[t] \cup SnapRef[t] THEN "new" ELSE "none"
    BY <1>4, <1>5, <2>3 DEF Differs
  <2>6. /\ f \subseteq fks[t] \cup SnapRef[t] /\ fks[t] \cap SnapRef[t] \subseteq f
        /\ f \subseteq SnapRef[t] \cup e.unrelate
        /\ \A u \in f : u \in Col /\ (IF u \in D THEN v # "none" ELSE cols[t][u] # "none")
    BY <1>4, <1>5, <2>2, <2>3 DEF Differs
  <2>7. /\ e.add \cup e.modify \subseteq SnapCol[t] /\ e.relate \cup e.bind \subseteq SnapRef[t]
        /\ e.unrelate \subseteq d.unrelate /\ e.remove \subseteq d.remove
        /\ Owed(d) \subseteq Owed(e) \cup D
        /\ \A u \in e.bind : IF u \in D THEN v # "none" ELSE cols[t][u] # "none"
    BY <1>4, <1>5, <2>2, <2>3 DEF Differs, Owed
  <2>8. KeysHaveColumns /\ made = Table /\ Differs(t, d) /\ UNCHANGED <<db, made, junctions>>
    BY <1>1, <1>4
  <2>9. e \in Diff /\ Fits(t, d, D, v, f, e)
    BY <2>2, <2>3, <2>5, <2>6, <2>7 DEF Fits
  <2>10. KeepsSchema /\ KeysHaveColumns' /\ Differs(t, e)'
    BY <2>4, <2>8, <2>9, AlteredKeeps
  <2> QED BY <2>4, <2>9, <2>10
<1>10. ASSUME Altered(n, t, {}, "new", fks[t] \cup d.bind, [d EXCEPT !.bind = {}]) PROVE \E e \in Diff : Done(e)
  <2>1. PICK e : e = [d EXCEPT !.bind = {}]
    OBVIOUS
  <2>2. /\ e \in Diff /\ e.add = d.add /\ e.remove = d.remove /\ e.modify = d.modify
        /\ e.unrelate = d.unrelate /\ e.relate = d.relate /\ e.bind = {}
    BY <2>1, <1>3, <1>5, Emptying DEF Diff
  <2>3. PICK D, f, v : D = {} /\ f = fks[t] \cup d.bind /\ v = "new" /\ v \in {"new", "none"}
    OBVIOUS
  <2>4. Altered(n, t, D, v, f, e) /\ f \in SUBSET Table /\ diff'[n] = e
    BY <1>10, <1>4, <1>5, <2>1, <2>3 DEF Altered, Differs
  <2>5. \A c \in D : v = IF c \in SnapCol[t] \cup SnapRef[t] THEN "new" ELSE "none"
    BY <1>4, <1>5, <2>3 DEF Differs
  <2>6. /\ f \subseteq fks[t] \cup SnapRef[t] /\ fks[t] \cap SnapRef[t] \subseteq f
        /\ f \subseteq SnapRef[t] \cup e.unrelate
        /\ \A u \in f : u \in Col /\ (IF u \in D THEN v # "none" ELSE cols[t][u] # "none")
    BY <1>4, <1>5, <2>2, <2>3 DEF Differs
  <2>7. /\ e.add \cup e.modify \subseteq SnapCol[t] /\ e.relate \cup e.bind \subseteq SnapRef[t]
        /\ e.unrelate \subseteq d.unrelate /\ e.remove \subseteq d.remove
        /\ Owed(d) \subseteq Owed(e) \cup D
        /\ \A u \in e.bind : IF u \in D THEN v # "none" ELSE cols[t][u] # "none"
    BY <1>4, <1>5, <2>2, <2>3 DEF Differs, Owed
  <2>8. KeysHaveColumns /\ made = Table /\ Differs(t, d) /\ UNCHANGED <<db, made, junctions>>
    BY <1>1, <1>4
  <2>9. e \in Diff /\ Fits(t, d, D, v, f, e)
    BY <2>2, <2>3, <2>5, <2>6, <2>7 DEF Fits
  <2>10. KeepsSchema /\ KeysHaveColumns' /\ Differs(t, e)'
    BY <2>4, <2>8, <2>9, AlteredKeeps
  <2> QED BY <2>4, <2>9, <2>10
<1>11. ASSUME Altered(n, t, d.relate, "new", fks[t], [[d EXCEPT !.relate = {}] EXCEPT !.bind = d.bind \cup d.relate]) PROVE \E e \in Diff : Done(e)
  <2>1. PICK e : e = [[d EXCEPT !.relate = {}] EXCEPT !.bind = d.bind \cup d.relate]
    OBVIOUS
  <2>2. /\ e \in Diff /\ e.add = d.add /\ e.remove = d.remove /\ e.modify = d.modify
        /\ e.unrelate = d.unrelate /\ e.relate = {} /\ e.bind = d.bind \cup d.relate
    BY <2>1, <1>3, <1>5, Emptying DEF Diff
  <2>3. PICK D, f, v : D = d.relate /\ f = fks[t] /\ v = "new" /\ v \in {"new", "none"}
    OBVIOUS
  <2>4. Altered(n, t, D, v, f, e) /\ f \in SUBSET Table /\ diff'[n] = e
    BY <1>11, <1>4, <1>5, <2>1, <2>3 DEF Altered, Differs
  <2>5. \A c \in D : v = IF c \in SnapCol[t] \cup SnapRef[t] THEN "new" ELSE "none"
    BY <1>4, <1>5, <2>3 DEF Differs
  <2>6. /\ f \subseteq fks[t] \cup SnapRef[t] /\ fks[t] \cap SnapRef[t] \subseteq f
        /\ f \subseteq SnapRef[t] \cup e.unrelate
        /\ \A u \in f : u \in Col /\ (IF u \in D THEN v # "none" ELSE cols[t][u] # "none")
    BY <1>4, <1>5, <2>2, <2>3 DEF Differs
  <2>7. /\ e.add \cup e.modify \subseteq SnapCol[t] /\ e.relate \cup e.bind \subseteq SnapRef[t]
        /\ e.unrelate \subseteq d.unrelate /\ e.remove \subseteq d.remove
        /\ Owed(d) \subseteq Owed(e) \cup D
        /\ \A u \in e.bind : IF u \in D THEN v # "none" ELSE cols[t][u] # "none"
    BY <1>4, <1>5, <2>2, <2>3 DEF Differs, Owed
  <2>8. KeysHaveColumns /\ made = Table /\ Differs(t, d) /\ UNCHANGED <<db, made, junctions>>
    BY <1>1, <1>4
  <2>9. e \in Diff /\ Fits(t, d, D, v, f, e)
    BY <2>2, <2>3, <2>5, <2>6, <2>7 DEF Fits
  <2>10. KeepsSchema /\ KeysHaveColumns' /\ Differs(t, e)'
    BY <2>4, <2>8, <2>9, AlteredKeeps
  <2> QED BY <2>4, <2>9, <2>10
<1>12. \E e \in Diff : Done(e)
  <2>1. Alters(n, t, d)
    BY <1>2, <1>3
  <2> QED BY <1>6, <1>7, <1>8, <1>9, <1>10, <1>11, <2>1 DEF Alters
<1> QED BY <1>1, <1>2, <1>12 DEF SchemaGoesOn

-----------------------------------------------------------------------------
(***************************************************************************)
(* What an instance has done stays done while others go on.                *)
(***************************************************************************)
SamePlace(m) == /\ step'[m] = step[m] /\ pos'[m] = pos[m]
                /\ seen'[m] = seen[m] /\ diff'[m] = diff[m]

LEMMA RightStays ==
    ASSUME Keeps, NEW t \in Table, RightTable(t)
    PROVE  RightTable(t)'
<1>1. \A c \in Col : Right(t, c)'
  BY DEF Keeps, KeepsSchema, RightTable
<1>2. fks'[t] \subseteq SnapRef[t]
  BY DEF Keeps, KeepsSchema, RightTable
<1> QED BY <1>1, <1>2 DEF RightTable

LEMMA SchemaDoneStays ==
    ASSUME Keeps, SchemaTypes', SchemaDone
    PROVE  SchemaDone'
<1>1. made' = Table /\ db' = db
  BY DEF Keeps, KeepsSchema, SchemaDone, SchemaTypes
<1>2. ASSUME db = "sql" PROVE junctions' = Junction
  BY <1>2 DEF Keeps, KeepsSchema, SchemaDone, SchemaTypes
<1>3. ASSUME db = "sql", NEW t \in Table
      PROVE  RightTable(t)' /\ (overlap' \/ t \in lost' \/ SnapRef[t] \subseteq fks'[t])
  <2>1. RightTable(t) /\ (overlap \/ t \in lost \/ SnapRef[t] \subseteq fks[t])
    BY <1>3 DEF SchemaDone
  <2>2. overlap' \/ t \in lost' \/ SnapRef[t] \subseteq fks'[t]
    BY <2>1 DEF Keeps, KeepsSchema, KeepsHistory
  <2> QED BY <2>1, <2>2, RightStays
<1> QED BY <1>1, <1>2, <1>3 DEF SchemaDone

LEMMA DiffersStays ==
    ASSUME Keeps, NEW t \in Table, NEW d, Differs(t, d)
    PROVE  Differs(t, d)'
<1>1. /\ \A c \in Col : Right(t, c) => Right(t, c)'
      /\ fks'[t] \subseteq fks[t] \cup SnapRef[t]
      /\ \A u \in SnapRef[t] : cols[t][u] # "none" => cols'[t][u] # "none"
  BY DEF Keeps, KeepsSchema
<1>2. \A c \in Col : Right(t, c)' \/ c \in Owed(d)
  BY <1>1 DEF Differs
<1>3. /\ d.remove \cap (SnapCol[t] \cup SnapRef[t] \cup fks'[t]) = {}
      /\ \A u \in d.bind : cols'[t][u] # "none"
      /\ fks'[t] \subseteq SnapRef[t] \cup d.unrelate
  BY <1>1 DEF Differs
<1> QED BY <1>2, <1>3 DEF Differs

LEMMA RowsStay ==
    ASSUME Keeps, RowTypes'
    PROVE  /\ \A t \in Table : (HasRow(t) => HasRow(t)') /\ (HasRows(t) => HasRows(t)')
           /\ MetaDone => MetaDone'
           /\ \A r \in Record : /\ Entered(r) => Entered(r)'
                                /\ Bound(r) => Bound(r)'
           /\ RecordsDone => RecordsDone'
<1>1. \A t \in Table : (HasRow(t) => HasRow(t)') /\ (HasRows(t) => HasRows(t)')
  BY DEF HasRow, HasRows, Keeps, KeepsSchema, KeepsRows, KeepsHistory
<1>2. \A r \in Record : Entered(r) => Entered(r)'
  BY DEF Entered, Keeps, KeepsRows, KeepsHistory
<1>3. \A r \in Record : Bound(r) => Bound(r)'
  BY DEF Bound, Keeps, KeepsSchema, KeepsRows, KeepsHistory
<1> QED BY <1>1, <1>2, <1>3 DEF RecordsDone, MetaDone

LEMMA MigratedStays ==
    ASSUME BootInv, Keeps, SchemaTypes', NEW m \in Node, SamePlace(m)
    PROVE  Migrated(m)'
<1>1. BootTypes /\ Migrated(m) /\ made \subseteq made' /\ made' \subseteq Table
  BY DEF BootInv, Keeps, KeepsSchema, SchemaTypes
<1>2. step[m] = "migrate" => Differs(TableAt(m), diff[m])'
  <2>1. SUFFICES ASSUME step[m] = "migrate" PROVE Differs(TableAt(m), diff[m])'
    OBVIOUS
  <2>2. PICK t \in Table, d \in Diff : t = TableAt(m) /\ d = diff[m] /\ Differs(t, d)
    BY <1>1, <2>1, TableAtIs DEF AtTable, Migrated, BootTypes, WalkTypes
  <2>3. TableAt(m)' = t /\ diff'[m] = d
    BY <2>2 DEF TableAt, SamePlace
  <2>4. Differs(t, d)'
    BY <2>2, DiffersStays
  <2> QED BY <2>3, <2>4
<1>3. step[m] \in {"compare", "migrate"} => \A i \in 1 .. pos[m] - 1 : RightTable(TableSeq[i])'
  <2>1. SUFFICES ASSUME step[m] \in {"compare", "migrate"}, NEW i \in 1 .. pos[m] - 1
                 PROVE RightTable(TableSeq[i])'
    OBVIOUS
  <2>2. pos[m] \in 1 .. Len(TableSeq)
    BY <1>1, <2>1, TableAtIs DEF AtTable
  <2>3. RightTable(TableSeq[i]) /\ TableSeq[i] \in Table
    BY <1>1, <2>1, <2>2, Lists DEF Migrated
  <2> QED BY <2>3, RightStays
<1>4. step[m] = "sync" => \A t \in Table : RightTable(t)'
  BY <1>1, RightStays DEF Migrated
<1>5. step[m] \in Served => SchemaDone'
  BY <1>1, SchemaDoneStays DEF Migrated
<1> QED BY <1>1, <1>2, <1>3, <1>4, <1>5 DEF Migrated, SamePlace

LEMMA DescribedStays ==
    ASSUME BootInv, Keeps, RowTypes', NEW m \in Node, SamePlace(m)
    PROVE  Described(m)'
<1>1. BootTypes /\ Described(m) /\ TableAt(m)' = TableAt(m) /\ db' = db
  BY DEF BootInv, SamePlace, TableAt, Keeps, KeepsSchema
<1>2. /\ step[m] \in AtTable => TableAt(m) \in Table
      /\ \A i \in 1 .. pos[m] - 1 : step[m] \in AtTable => TableSeq[i] \in Table
  BY <1>1, TableAtIs, Lists
<1>3. /\ \A t \in Table : meta[t] > 0 => meta'[t] > 0
      /\ \A t \in Table : (HasRow(t) => HasRow(t)') /\ (HasRows(t) => HasRows(t)')
      /\ lost \subseteq lost' /\ (MetaDone => MetaDone')
  BY RowsStay DEF Keeps, KeepsRows, KeepsHistory
<1>4. /\ step[m] \in {"meta", "insert"} /\ db # "sql" =>
            \A i \in 1 .. pos[m] - 1 : HasRow(TableSeq[i])'
      /\ step[m] = "describe" => \A i \in 1 .. pos[m] - 1 : HasRows(TableSeq[i])'
  BY <1>1, <1>2, <1>3 DEF Described, AtTable
<1>5. /\ step[m] \in {"ids", "describe"} => \A t \in Table : HasRow(t)'
      /\ step[m] = "describe" => \A t \in Table \ seen[m] : db = "mongo" /\ t \in lost'
  BY <1>1, <1>3 DEF Described
<1> QED BY <1>1, <1>2, <1>3, <1>4, <1>5 DEF Described, SamePlace, AtTable

LEMMA FilledStays ==
    ASSUME BootInv, Keeps, RowTypes', NEW m \in Node, SamePlace(m)
    PROVE  Filled(m)'
<1>1. BootTypes /\ Filled(m) /\ RecordAt(m)' = RecordAt(m) /\ db' = db
  BY DEF BootInv, SamePlace, RecordAt, Keeps, KeepsSchema
<1>2. /\ step[m] \in AtRecord => RecordAt(m) \in Record
      /\ \A i \in 1 .. pos[m] - 1 : step[m] \in AtRecord => RecordSeq[i] \in Record
  BY <1>1, Lists DEF BootTypes, WalkTypes, Placed, RecordAt
<1>3. /\ \A r \in Record : count[r] > 0 => count'[r] > 0
      /\ linked \subseteq linked'
      /\ \A r \in Record : (Entered(r) => Entered(r)') /\ (Bound(r) => Bound(r)')
      /\ RecordsDone => RecordsDone'
  BY RowsStay DEF Keeps, KeepsRows
<1>4. step'[m] \in AtRecord =>
         \A i \in 1 .. pos'[m] - 1 : Entered(RecordSeq[i])' /\ Bound(RecordSeq[i])'
  BY <1>1, <1>2, <1>3 DEF Filled, SamePlace
<1>5. step'[m] = "link" => Entered(RecordAt(m))'
  <2>1. PICK r : r = RecordAt(m)
    OBVIOUS
  <2>2. step'[m] = "link" => r \in Record /\ Entered(r)
    BY <1>1, <1>2, <2>1 DEF Filled, SamePlace, AtRecord
  <2>3. step'[m] = "link" => Entered(r)'
    BY <1>3, <2>2
  <2> QED BY <1>1, <2>1, <2>3
<1>6. step'[m] = "write" /\ RecordAt(m)' \in seen'[m] => count'[RecordAt(m)'] > 0
  BY <1>1, <1>2, <1>3 DEF Filled, SamePlace, AtRecord
<1>7. step'[m] = "link" /\ Of(RecordAt(m)', "hook") /\ db' = "mongo" => RecordAt(m)' \in linked'
  BY <1>1, <1>2, <1>3 DEF Filled, SamePlace, AtRecord, Of
<1> QED BY <1>1, <1>3, <1>4, <1>5, <1>6, <1>7 DEF Filled, SamePlace, Of

-----------------------------------------------------------------------------
(***************************************************************************)
(* A step of n keeps what the others have done and does its own.           *)
(***************************************************************************)
OthersStay(n) == \A m \in Node \ {n} : SamePlace(m)
NewlyDone == (\E i \in DOMAIN settings' : settings'[i]) =>
                Complete \/ \E i \in DOMAIN settings : settings[i]

Claims(n) == Migrated(n) /\ Described(n) /\ Filled(n)
RowsGoOn == KeepsRows /\ RowTypes' /\ BareHasReason' /\ NewlyDone
HistoryGoesOn == KeepsHistory /\ HistoryTypes'

Advances(n) == /\ SchemaGoesOn /\ RowsGoOn /\ HistoryGoesOn /\ WalkTypes'
               /\ OthersStay(n) /\ Claims(n)'

LEMMA RowsUnchanged ==
    ASSUME BootInv, UNCHANGED rows, lost \subseteq lost'
    PROVE  RowsGoOn
  BY DEF rows, RowsGoOn, KeepsRows, RowTypes, BareHasReason, NewlyDone, BootInv, BootTypes

LEMMA HistoryUnchanged ==
    ASSUME BootInv, UNCHANGED history
    PROVE  HistoryGoesOn
  BY DEF history, HistoryGoesOn, KeepsHistory, HistoryTypes, BootInv, BootTypes

LEMMA OnlyErrorsHistory ==
    ASSUME BootInv, Fails, UNCHANGED <<overlap, deaths, edits>>, lost' \in SUBSET (Record \cup Table),
           gaveUp' \in BOOLEAN, lost \subseteq lost'
    PROVE  HistoryGoesOn
<1>1. errors' \in 0 .. MaxErrors
  BY Bounds DEF Fails, HistoryTypes, BootInv, BootTypes
<1> QED BY <1>1 DEF HistoryGoesOn, KeepsHistory, HistoryTypes, BootInv, BootTypes

Reaches(to, i) ==
    /\ to \in Steps /\ to # "migrate" /\ i \in Nat
    /\ to \in AtTable => i \in 1 .. Len(TableSeq)
    /\ to \in AtRecord => i \in 1 .. Len(RecordSeq)

StepOf(n, to, i) == /\ WalkTypes' /\ OthersStay(n)
                    /\ step'[n] = to /\ pos'[n] = i /\ diff'[n] = diff[n]

LEMMA LearnsTo ==
    ASSUME BootTypes, NEW n \in Node, NEW from, NEW to, NEW i,
           Go(n, from, to, i), from # "migrate", Reaches(to, i), diff' = diff,
           NEW S \in SUBSET (Junction \cup Table \cup Record), Learns(n, S)
    PROVE  StepOf(n, to, i) /\ seen'[n] = S
<1>1. seen \in [Node -> SUBSET (Junction \cup Table \cup Record)]
  BY DEF BootTypes, WalkTypes
<1>2. /\ seen' \in [Node -> SUBSET (Junction \cup Table \cup Record)]
      /\ seen'[n] = S /\ \A m \in Node \ {n} : seen'[m] = seen[m]
  BY <1>1 DEF Learns
<1>3. WalkTypes'
  BY <1>2, Walking DEF Reaches
<1> QED BY <1>2, <1>3, Going DEF OthersStay, SamePlace, StepOf, Reaches

LEMMA StepsTo ==
    ASSUME BootTypes, NEW n \in Node, NEW from, NEW to, NEW i,
           Go(n, from, to, i), from # "migrate", Reaches(to, i), diff' = diff, seen' = seen
    PROVE  StepOf(n, to, i)
<1>1. Learns(n, seen[n]) /\ seen[n] \in SUBSET (Junction \cup Table \cup Record)
  BY DEF BootTypes, WalkTypes, Learns
<1> QED BY <1>1, LearnsTo

LEMMA Exiting ==
    ASSUME BootTypes, NEW n \in Node, Leaves(n)
    PROVE  WalkTypes' /\ OthersStay(n) /\ Claims(n)'
<1>1. step'[n] = "off"
  BY Leaving
<1>2. Claims(n)'
  BY <1>1 DEF Claims, Migrated, Described, Filled, Served, AtRecord
<1> QED BY <1>2, Leaving DEF OthersStay, SamePlace

LEMMA AllReached ==
    /\ \A to \in Steps \ (AtTable \cup AtRecord) : to # "migrate" /\ Reaches(to, 1)
    /\ \A to \in AtTable \ {"migrate"} : \A i \in 1 .. Len(TableSeq) : Reaches(to, i)
    /\ \A to \in AtRecord : \A i \in 1 .. Len(RecordSeq) : Reaches(to, i)
    /\ 1 \in 1 .. Len(TableSeq) /\ 1 \in 1 .. Len(RecordSeq)
  BY Lists DEF Steps, Reaches, AtTable, AtRecord

LEMMA FirstReached ==
    /\ \A to \in {"create", "fk", "meta", "compare", "describe", "find"} : Reaches(to, 1)
    /\ \A to \in {"junction", "junctions", "sync", "nest", "ids", "physical", "last", "isInit", "critical",
                   "up"} : Reaches(to, 1)
  BY Lists DEF Steps, Reaches, AtTable, AtRecord

(***************************************************************************)
(* init-db.                                                                *)
(***************************************************************************)
LEMMA StartAdvances ==
    ASSUME BootInv, NEW n \in Node, Start(n)
    PROVE  Advances(n)
<1>1. BootTypes /\ DoneIsComplete /\ settings \in Seq(BOOLEAN)
  BY DEF BootInv, BootTypes, RowTypes
<1>2. SchemaGoesOn /\ RowsGoOn
  BY SchemaStays, RowsUnchanged DEF Start
<1>3. HistoryGoesOn
  BY DEF Start, HistoryGoesOn, KeepsHistory, HistoryTypes, BootInv, BootTypes
<1>4. Keeps
  BY <1>2, <1>3 DEF Keeps, SchemaGoesOn, RowsGoOn, HistoryGoesOn
<1>5. \/ Go(n, "off", "create", 1)
      \/ Go(n, "off", "nest", 1) /\ \E i \in DOMAIN settings : settings[i]
  BY DEF Start
<1>6. CASE Go(n, "off", "create", 1)
  <2>1. StepOf(n, "create", 1)
    BY <1>1, <1>6, StepsTo, FirstReached DEF Start
  <2>2. Claims(n)'
    BY <2>1 DEF Claims, Migrated, Described, Filled, Served, AtRecord, StepOf
  <2> QED BY <1>2, <1>3, <2>1, <2>2 DEF Advances, StepOf
<1>7. CASE Go(n, "off", "nest", 1) /\ \E i \in DOMAIN settings : settings[i]
  <2>1. StepOf(n, "nest", 1)
    BY <1>1, <1>7, StepsTo, FirstReached DEF Start
  <2>2. SchemaDone'
    BY <1>1, <1>2, <1>4, <1>7, SchemaDoneStays DEF DoneIsComplete, Complete, SchemaGoesOn
  <2>3. Claims(n)'
    BY <2>1, <2>2 DEF Claims, Migrated, Described, Filled, Served, AtRecord, StepOf, SchemaDone
  <2> QED BY <1>2, <1>3, <2>1, <2>3 DEF Advances, StepOf
<1> QED BY <1>5, <1>6, <1>7

(***************************************************************************)
(* The table at hand is made: the next one, or the next phase.             *)
(***************************************************************************)
LEMMA OnwardFromMade ==
    ASSUME BootInv, Keeps, SchemaTypes', NEW n \in Node, NEW from \in {"create", "key"},
           Onward(n, from, TableSeq, "create", AfterTables), UNCHANGED <<seen, diff>>,
           \A i \in 1 .. pos[n] : TableSeq[i] \in made'
    PROVE  WalkTypes' /\ OthersStay(n) /\ Claims(n)'
<1>1. BootTypes /\ db' = db /\ made' \subseteq Table
  BY DEF BootInv, Keeps, KeepsSchema, SchemaTypes
<1>2. pos[n] \in 1 .. Len(TableSeq) /\ step[n] = from
  BY <1>1, TableAtIs DEF Onward, Go, AtTable
<1>3. \/ pos[n] + 1 \in 1 .. Len(TableSeq) /\ Go(n, from, "create", pos[n] + 1)
      \/ pos[n] = Len(TableSeq) /\ Go(n, from, AfterTables, 1)
  BY <1>1, OnwardTables DEF AtTable
<1>4. CASE pos[n] + 1 \in 1 .. Len(TableSeq) /\ Go(n, from, "create", pos[n] + 1)
  <2>1. StepOf(n, "create", pos[n] + 1)
    <3>1. Reaches("create", pos[n] + 1)
      BY <1>4, AllReached DEF AtTable
    <3> QED BY <1>1, <1>4, <3>1, StepsTo
  <2>2. Claims(n)'
    BY <1>2, <2>1 DEF Claims, Migrated, Described, Filled, Served, AtRecord, StepOf
  <2> QED BY <2>1, <2>2 DEF StepOf
<1>5. CASE pos[n] = Len(TableSeq) /\ Go(n, from, AfterTables, 1)
  <2>1. PICK to \in {"fk", "nest"} : to = AfterTables /\ (to = "nest" => db # "sql")
    BY DEF AfterTables
  <2>2. StepOf(n, to, 1)
    BY <1>1, <1>5, <2>1, StepsTo, FirstReached
  <2>3. made' = Table
    <3>1. ASSUME NEW t \in Table PROVE t \in made'
      BY <1>5, Lists
    <3> QED BY <1>1, <3>1
  <2>4. Claims(n)'
    BY <1>1, <2>1, <2>2, <2>3 DEF Claims, Migrated, Described, Filled, Served, AtRecord, StepOf, SchemaDone
  <2> QED BY <2>2, <2>4 DEF StepOf
<1> QED BY <1>3, <1>4, <1>5

LEMMA LookForTableAdvances ==
    ASSUME BootInv, NEW n \in Node, LookForTable(n)
    PROVE  Advances(n)
<1>1. BootTypes /\ Migrated(n) /\ step[n] = "create"
  BY DEF BootInv, LookForTable
<1>2. SchemaGoesOn /\ RowsGoOn /\ HistoryGoesOn /\ UNCHANGED <<made, seen, diff>>
  BY SchemaStays, RowsUnchanged, HistoryUnchanged DEF LookForTable, history, schema
<1>3. Keeps /\ SchemaTypes'
  BY <1>2 DEF Keeps, SchemaGoesOn, RowsGoOn, HistoryGoesOn
<1>4. TableAt(n) = TableSeq[pos[n]] /\ pos[n] \in 1 .. Len(TableSeq)
  BY <1>1, TableAtIs DEF AtTable
<1>5. CASE TableAt(n) \in made
  <2>1. \A i \in 1 .. pos[n] : TableSeq[i] \in made'
    BY <1>1, <1>2, <1>4, <1>5 DEF Migrated
  <2>2. WalkTypes' /\ OthersStay(n) /\ Claims(n)'
    BY <1>2, <1>3, <1>5, <2>1, OnwardFromMade DEF LookForTable
  <2> QED BY <1>2, <2>2 DEF Advances
<1>6. CASE TableAt(n) \notin made
  <2>1. StepOf(n, "make", pos[n])
    <3>1. Reaches("make", pos[n])
      BY <1>4, AllReached DEF AtTable
    <3> QED BY <1>1, <1>2, <1>6, <3>1, StepsTo DEF LookForTable
  <2>2. Claims(n)'
    BY <1>1, <1>2, <2>1 DEF Claims, Migrated, Described, Filled, Served, AtRecord, StepOf
  <2> QED BY <1>2, <2>1, <2>2 DEF Advances, StepOf
<1> QED BY <1>5, <1>6

LEMMA MakeTableAdvances ==
    ASSUME BootInv, NEW n \in Node, MakeTable(n)
    PROVE  Advances(n)
<1>1. BootTypes /\ Migrated(n) /\ step[n] = "make"
  BY DEF BootInv, MakeTable
<1>2. SchemaGoesOn /\ RowsGoOn /\ HistoryGoesOn
  BY MakeTableSchema, RowsUnchanged, HistoryUnchanged DEF MakeTable, history
<1>3. TableAt(n) = TableSeq[pos[n]] /\ pos[n] \in 1 .. Len(TableSeq)
  BY <1>1, TableAtIs DEF AtTable
<1>4. CASE TableAt(n) \in made
  <2>1. Leaves(n)
    BY <1>4 DEF MakeTable, Exits
  <2> QED BY <1>1, <1>2, <2>1, Exiting DEF Advances
<1>5. CASE TableAt(n) \notin made
  <2>1. Go(n, "make", "key", pos[n]) /\ made' = made \cup {TableAt(n)} /\ UNCHANGED <<seen, diff>>
    BY <1>5 DEF MakeTable
  <2>2. StepOf(n, "key", pos[n])
    <3>1. Reaches("key", pos[n])
      BY <1>3, AllReached DEF AtTable
    <3> QED BY <1>1, <2>1, <3>1, StepsTo
  <2>3. Claims(n)'
    BY <1>1, <1>3, <2>1, <2>2 DEF Claims, Migrated, Described, Filled, Served, AtRecord, StepOf
  <2> QED BY <1>2, <2>2, <2>3 DEF Advances, StepOf
<1> QED BY <1>4, <1>5

LEMMA MakeKeysAdvances ==
    ASSUME BootInv, NEW n \in Node, MakeKeys(n)
    PROVE  Advances(n)
<1>1. BootTypes /\ Migrated(n) /\ step[n] = "key" /\ UNCHANGED <<made, seen, diff>>
  BY DEF BootInv, MakeKeys, Onward, Go
<1>2. SchemaGoesOn /\ RowsGoOn /\ HistoryGoesOn
  BY MakeKeysSchema, RowsUnchanged, HistoryUnchanged DEF MakeKeys, history
<1>3. Keeps /\ SchemaTypes'
  BY <1>2 DEF Keeps, SchemaGoesOn, RowsGoOn, HistoryGoesOn
<1>4. \A i \in 1 .. pos[n] : TableSeq[i] \in made'
  BY <1>1 DEF Migrated
<1>5. WalkTypes' /\ OthersStay(n) /\ Claims(n)'
  BY <1>1, <1>3, <1>4, OnwardFromMade DEF MakeKeys
<1> QED BY <1>2, <1>5 DEF Advances

LEMMA AddForeignKeysAdvances ==
    ASSUME BootInv, NEW n \in Node, AddForeignKeys(n) \/ ForeignKeyFails(n)
    PROVE  Advances(n)
<1>1. /\ BootTypes /\ HistoryTypes /\ Migrated(n) /\ step[n] = "fk"
      /\ Onward(n, "fk", TableSeq, "fk", "junction") /\ UNCHANGED <<made, rows, seen, diff>>
  BY DEF BootInv, BootTypes, AddForeignKeys, ForeignKeyFails, Onward, Go
<1>2. SchemaGoesOn /\ RowsGoOn /\ HistoryGoesOn
  <2>1. CASE AddForeignKeys(n)
    BY <2>1, AddForeignKeysSchema, RowsUnchanged, HistoryUnchanged DEF AddForeignKeys, history
  <2>2. CASE ForeignKeyFails(n)
    <3>1. TableAt(n) \in Table
      BY <1>1, TableAtIs DEF AtTable
    <3>2. lost' \in SUBSET (Record \cup Table) /\ lost \subseteq lost' /\ gaveUp' \in BOOLEAN
      BY <1>1, <2>2, <3>1 DEF ForeignKeyFails, HistoryTypes
    <3>3. HistoryGoesOn
      BY <2>2, <3>2, OnlyErrorsHistory DEF ForeignKeyFails
    <3> QED BY <1>1, <2>2, <3>2, <3>3, AddForeignKeysSchema, RowsUnchanged
  <2> QED BY <2>1, <2>2
<1>3. \E to \in {"fk", "junction"}, i \in Nat : StepOf(n, to, i)
  <2>1. \/ pos[n] + 1 \in 1 .. Len(TableSeq) /\ Go(n, "fk", "fk", pos[n] + 1)
        \/ Go(n, "fk", "junction", 1)
    BY <1>1, OnwardTables DEF AtTable
  <2>2. CASE pos[n] + 1 \in 1 .. Len(TableSeq) /\ Go(n, "fk", "fk", pos[n] + 1)
    <3>1. Reaches("fk", pos[n] + 1)
      BY <2>2, AllReached DEF AtTable
    <3>2. StepOf(n, "fk", pos[n] + 1)
      BY <1>1, <2>2, <3>1, StepsTo
    <3> QED BY <2>2, <3>2
  <2>3. CASE Go(n, "fk", "junction", 1)
    <3>1. StepOf(n, "junction", 1)
      BY <1>1, <2>3, StepsTo, FirstReached
    <3> QED BY <3>1
  <2> QED BY <2>1, <2>2, <2>3
<1>4. made' = Table
  BY <1>1 DEF Migrated
<1>5. Claims(n)'
  BY <1>3, <1>4 DEF Claims, Migrated, Described, Filled, Served, AtRecord, StepOf
<1> QED BY <1>2, <1>3, <1>5 DEF Advances, StepOf

LEMMA LookForJunctionsAdvances ==
    ASSUME BootInv, NEW n \in Node, LookForJunctions(n)
    PROVE  Advances(n)
<1>1. BootTypes /\ Migrated(n) /\ step[n] = "junction" /\ UNCHANGED <<made, diff>>
  BY DEF BootInv, LookForJunctions, Go, schema
<1>2. SchemaGoesOn /\ RowsGoOn /\ HistoryGoesOn
  BY SchemaStays, RowsUnchanged, HistoryUnchanged DEF LookForJunctions, history
<1>3. /\ Go(n, "junction", "junctions", 1) /\ Learns(n, Junction \ junctions)
      /\ (Junction \ junctions) \in SUBSET (Junction \cup Table \cup Record)
  BY DEF LookForJunctions
<1>4. StepOf(n, "junctions", 1) /\ seen'[n] = Junction \ junctions
  BY <1>1, <1>3, LearnsTo, FirstReached
<1>5. made' = Table
  BY <1>1 DEF Migrated
<1>6. Claims(n)'
  BY <1>4, <1>5 DEF Claims, Migrated, Described, Filled, Served, AtRecord, StepOf
<1> QED BY <1>2, <1>4, <1>6 DEF Advances, StepOf

LEMMA MakeJunctionAdvances ==
    ASSUME BootInv, NEW n \in Node, MakeJunction(n)
    PROVE  Advances(n)
<1>1. BootTypes /\ Migrated(n) /\ step[n] = "junctions" /\ UNCHANGED <<made>>
  BY DEF BootInv, MakeJunction, Go, Exits
<1>2. seen[n] \subseteq Junction /\ made' = Table
  BY <1>1 DEF Migrated
<1>3. SchemaGoesOn /\ RowsGoOn /\ HistoryGoesOn
  BY <1>2, MakeJunctionSchema, RowsUnchanged, HistoryUnchanged DEF MakeJunction, history
<1>4. CASE Go(n, "junctions", "compare", 1) /\ UNCHANGED <<seen, diff>>
  <2>1. StepOf(n, "compare", 1)
    BY <1>1, <1>4, StepsTo, FirstReached
  <2>2. Claims(n)'
    BY <1>2, <2>1 DEF Claims, Migrated, Described, Filled, Served, AtRecord, StepOf
  <2> QED BY <1>3, <2>1, <2>2 DEF Advances, StepOf
<1>5. CASE Exits(n, "junctions")
  BY <1>1, <1>3, <1>5, Exiting DEF Advances, Exits
<1>6. ASSUME NEW j \in seen[n], Go(n, "junctions", "junctions", 1), Learns(n, seen[n] \ {j}),
             diff' = diff
      PROVE  Advances(n)
  <2>1. (seen[n] \ {j}) \in SUBSET (Junction \cup Table \cup Record)
    BY <1>2
  <2>2. StepOf(n, "junctions", 1) /\ seen'[n] = seen[n] \ {j}
    BY <1>1, <1>6, <2>1, LearnsTo, FirstReached
  <2>3. Claims(n)'
    BY <1>2, <2>2 DEF Claims, Migrated, Described, Filled, Served, AtRecord, StepOf
  <2> QED BY <1>3, <2>2, <2>3 DEF Advances, StepOf
<1> QED BY <1>4, <1>5, <1>6 DEF MakeJunction

(***************************************************************************)
(* The comparison of a table with the snapshot, and what follows from it.  *)
(***************************************************************************)
LEMMA DifferenceFits ==
    ASSUME SchemaTypes, KeysHaveColumns, NEW t \in Table
    PROVE  Difference(t) \in Diff /\ Differs(t, Difference(t))
<1>1. PICK d : d = Difference(t)
  OBVIOUS
<1>2. /\ d.add = {c \in SnapCol[t] : cols[t][c] = "none"}
      /\ d.remove = {c \in Col \ (SnapCol[t] \cup SnapRef[t] \cup fks[t]) : cols[t][c] # "none"}
      /\ d.modify = {c \in SnapCol[t] : cols[t][c] = "old"}
      /\ d.unrelate = fks[t] \ SnapRef[t]
      /\ d.relate = {u \in SnapRef[t] \ fks[t] : cols[t][u] = "none"}
      /\ d.bind = {}
  BY <1>1 DEF Difference
<1>3. /\ fks[t] \subseteq Table /\ \A u \in fks[t] : u \in Col /\ cols[t][u] # "none"
      /\ SnapRef[t] \subseteq Table /\ SnapRef[t] \subseteq Col
      /\ SnapCol[t] \cap Table = {} /\ SnapCol[t] \subseteq Col
      /\ \A u \in Table \cap Col : cols[t][u] # "old"
      /\ \A c \in Col : cols[t][c] \in {"none", "old", "new"}
  BY Columns DEF SchemaTypes, KeysHaveColumns
<1>4. d \in Diff
  <2>1. /\ d.add \subseteq Col /\ d.remove \subseteq Col /\ d.modify \subseteq Col
        /\ d.unrelate \subseteq Table /\ d.relate \subseteq Table /\ d.bind \subseteq Table
    BY <1>2, <1>3
  <2>2. d = [add |-> d.add, remove |-> d.remove, modify |-> d.modify,
             unrelate |-> d.unrelate, relate |-> d.relate, bind |-> d.bind]
    BY <1>1 DEF Difference
  <2> QED BY <2>1, <2>2 DEF Diff
<1>5. \A c \in Col : Right(t, c) \/ c \in Owed(d)
  <2>1. ASSUME NEW c \in Col, c \in SnapCol[t] PROVE Right(t, c) \/ c \in Owed(d)
    BY <1>2, <1>3, <2>1 DEF Right, Owed
  <2>2. ASSUME NEW c \in Col, c \in SnapRef[t] PROVE Right(t, c) \/ c \in Owed(d)
    BY <1>2, <1>3, <2>2 DEF Right, Owed
  <2>3. ASSUME NEW c \in Col, c \notin SnapCol[t] \cup SnapRef[t] PROVE Right(t, c) \/ c \in Owed(d)
    BY <1>2, <1>3, <2>3 DEF Right, Owed
  <2> QED BY <2>1, <2>2, <2>3
<1>6. Differs(t, d)
  BY <1>2, <1>3, <1>5 DEF Differs
<1> QED BY <1>1, <1>4, <1>6

LEMMA CompareAdvances ==
    ASSUME BootInv, NEW n \in Node, Compare(n)
    PROVE  Advances(n)
<1>1. BootTypes /\ SchemaTypes /\ KeysHaveColumns /\ Migrated(n) /\ WalkTypes
  BY DEF BootInv, BootTypes
<1>2. Go(n, "compare", "migrate", pos[n]) /\ UNCHANGED <<db, schema, rows, seen, history>>
  BY DEF Compare
<1>3. SchemaGoesOn /\ RowsGoOn /\ HistoryGoesOn
  BY <1>2, SchemaStays, RowsUnchanged, HistoryUnchanged DEF history
<1>4. Keeps
  BY <1>3 DEF Keeps, SchemaGoesOn, RowsGoOn, HistoryGoesOn
<1>5. step[n] = "compare" /\ TableAt(n) \in Table /\ pos[n] \in 1 .. Len(TableSeq)
  BY <1>1, <1>2, TableAtIs DEF Go, AtTable
<1>6. PICK t \in Table : t = TableAt(n)
  BY <1>5
<1>7. PICK d \in Diff : d = Difference(t) /\ Differs(t, d)
  BY <1>1, DifferenceFits
<1>8. diff' = [diff EXCEPT ![n] = d]
  BY <1>6, <1>7 DEF Compare
<1>9. /\ diff' \in [Node -> Diff] /\ diff'[n] = d
      /\ \A m \in Node \ {n} : diff'[m] = diff[m]
  BY <1>1, <1>8 DEF WalkTypes
<1>10. /\ step'[n] = "migrate" /\ pos'[n] = pos[n]
       /\ step' \in [Node -> Steps] /\ pos' \in [Node -> Nat]
       /\ \A m \in Node \ {n} : step'[m] = step[m] /\ pos'[m] = pos[m]
  <2>1. "migrate" \in Steps /\ pos[n] \in Nat
    BY <1>1 DEF Steps, WalkTypes
  <2> QED BY <1>1, <1>2, <2>1, Going
<1>11. OthersStay(n)
  BY <1>2, <1>9, <1>10 DEF OthersStay, SamePlace
<1>12. WalkTypes'
  <2>1. \A m \in Node : Placed(m)'
    BY <1>1, <1>5, <1>9, <1>10 DEF Placed, WalkTypes, AtTable, AtRecord
  <2> QED BY <1>1, <1>2, <1>9, <1>10, <2>1 DEF WalkTypes
<1>13. Claims(n)'
  <2>1. made' = Table /\ TableAt(n)' = t
    BY <1>1, <1>2, <1>5, <1>6, <1>10 DEF Migrated, schema, TableAt
  <2>2. Differs(t, d)'
    BY <1>4, <1>7, DiffersStays
  <2>3. Differs(TableAt(n), diff[n])'
    BY <1>9, <2>1, <2>2
  <2>4. \A i \in 1 .. pos[n] - 1 : RightTable(TableSeq[i])'
    BY <1>1, <1>4, <1>5, Lists, RightStays DEF Migrated
  <2> QED BY <1>10, <2>1, <2>3, <2>4 DEF Claims, Migrated, Described, Filled, Served, AtRecord
<1> QED BY <1>3, <1>11, <1>12, <1>13 DEF Advances

LEMMA MigrateAdvances ==
    ASSUME BootInv, NEW n \in Node, Migrate(n)
    PROVE  Advances(n)
<1>1. BootTypes /\ SchemaTypes /\ KeysHaveColumns /\ Migrated(n) /\ WalkTypes
  BY DEF BootInv, BootTypes
<1>2. step[n] = "migrate" /\ UNCHANGED <<db, keyed, made, junctions, rows, history>>
  BY DEF Migrate
<1>3. RowsGoOn /\ HistoryGoesOn
  BY <1>2, RowsUnchanged, HistoryUnchanged DEF history
<1>4. TableAt(n) = TableSeq[pos[n]] /\ TableAt(n) \in Table /\ pos[n] \in 1 .. Len(TableSeq)
  BY <1>1, <1>2, TableAtIs DEF AtTable
<1>5. made' = Table
  BY <1>1, <1>2 DEF Migrated
<1>6. CASE diff[n] = NoDiff /\ Onward(n, "migrate", TableSeq, "compare", "sync")
           /\ UNCHANGED <<cols, fks, seen, diff>>
  <2>1. SchemaGoesOn
    BY <1>2, <1>6, SchemaStays DEF schema
  <2>2. Keeps
    BY <1>3, <2>1 DEF Keeps, SchemaGoesOn, RowsGoOn, HistoryGoesOn
  <2>3. RightTable(TableAt(n))
    <3>1. Differs(TableAt(n), NoDiff)
      BY <1>1, <1>2, <1>6 DEF Migrated
    <3> QED BY <3>1 DEF Differs, NoDiff, Owed, RightTable
  <2>4. \A i \in 1 .. pos[n] : TableSeq[i] \in Table /\ RightTable(TableSeq[i])
    BY <1>1, <1>2, <1>4, <2>3, Lists DEF Migrated
  <2>5. \A i \in 1 .. pos[n] : RightTable(TableSeq[i])'
    BY <2>2, <2>4, RightStays
  <2>6. \/ pos[n] + 1 \in 1 .. Len(TableSeq) /\ Go(n, "migrate", "compare", pos[n] + 1)
        \/ pos[n] = Len(TableSeq) /\ Go(n, "migrate", "sync", 1)
    BY <1>1, <1>6, OnwardTables DEF AtTable
  <2>7. ASSUME NEW to \in {"compare", "sync"}, NEW i \in Nat, Go(n, "migrate", to, i),
               to = "compare" => i \in 1 .. Len(TableSeq)
        PROVE  StepOf(n, to, i)
    <3>1. /\ step'[n] = to /\ pos'[n] = i
          /\ step' \in [Node -> Steps] /\ pos' \in [Node -> Nat]
          /\ \A m \in Node \ {n} : step'[m] = step[m] /\ pos'[m] = pos[m]
      <4>1. to \in Steps /\ i \in Nat
        BY DEF Steps
      <4>2. Go(n, "migrate", to, i)
        BY <2>7
      <4> QED BY <1>1, <4>1, <4>2, Going
    <3>2. \A m \in Node : Placed(m)'
      BY <1>1, <1>6, <2>7, <3>1 DEF Placed, WalkTypes, AtTable, AtRecord
    <3> QED BY <1>1, <1>6, <3>1, <3>2 DEF StepOf, WalkTypes, OthersStay, SamePlace
  <2>8. CASE pos[n] + 1 \in 1 .. Len(TableSeq) /\ Go(n, "migrate", "compare", pos[n] + 1)
    <3>1. StepOf(n, "compare", pos[n] + 1)
      BY <2>7, <2>8
    <3>2. Claims(n)'
      BY <1>4, <1>5, <2>5, <3>1 DEF Claims, Migrated, Described, Filled, Served, AtRecord, StepOf
    <3> QED BY <1>3, <2>1, <3>1, <3>2 DEF Advances, StepOf
  <2>9. CASE pos[n] = Len(TableSeq) /\ Go(n, "migrate", "sync", 1)
    <3>1. StepOf(n, "sync", 1)
      BY <2>7, <2>9
    <3>2. \A t \in Table : RightTable(t)'
      BY <2>5, <2>9, Lists
    <3>3. Claims(n)'
      BY <1>5, <3>1, <3>2 DEF Claims, Migrated, Described, Filled, Served, AtRecord, StepOf
    <3> QED BY <1>3, <2>1, <3>1, <3>3 DEF Advances, StepOf
  <2> QED BY <2>6, <2>8, <2>9
<1>7. CASE Exits(n, "migrate") /\ UNCHANGED <<cols, fks>>
  <2>1. SchemaGoesOn
    BY <1>2, <1>7, SchemaStays DEF schema
  <2> QED BY <1>1, <1>3, <1>7, <2>1, Exiting DEF Advances, Exits
<1>8. ASSUME NEW p \in NextPart(n), AlterTable(n, Parts[p]), UNCHANGED <<step, pos, seen>>
      PROVE  Advances(n)
  <2>1. /\ Alters(n, TableAt(n), diff[n]) /\ SchemaTypes'
        /\ diff' \in [Node -> Diff] /\ \A m \in Node \ {n} : diff'[m] = diff[m]
    BY <1>1, <1>2, <1>8, Altering
  <2>2. /\ SchemaGoesOn
        /\ \E t \in Table, e \in Diff : t = TableAt(n) /\ e = diff'[n] /\ Differs(t, e)'
    BY <1>2, <2>1, AlteringKeeps
  <2>3. Keeps
    BY <1>3, <2>2 DEF Keeps, SchemaGoesOn, RowsGoOn, HistoryGoesOn
  <2>4. WalkTypes' /\ OthersStay(n)
    <3>1. \A m \in Node : Placed(m)'
      BY <1>1, <1>2, <1>8, <2>1 DEF Placed, WalkTypes
    <3> QED BY <1>1, <1>8, <2>1, <3>1 DEF WalkTypes, OthersStay, SamePlace
  <2>5. \A i \in 1 .. pos[n] - 1 : RightTable(TableSeq[i])'
    <3>1. \A i \in 1 .. pos[n] - 1 : TableSeq[i] \in Table /\ RightTable(TableSeq[i])
      BY <1>1, <1>2, <1>4, Lists DEF Migrated
    <3> QED BY <2>3, <3>1, RightStays
  <2>6. Differs(TableAt(n), diff[n])'
    <3>1. TableAt(n)' = TableAt(n)
      BY <1>8 DEF TableAt
    <3>2. PICK t \in Table, e \in Diff : t = TableAt(n) /\ e = diff'[n] /\ Differs(t, e)'
      BY <2>2
    <3> QED BY <3>1, <3>2
  <2>7. Claims(n)'
    BY <1>2, <1>5, <1>8, <2>5, <2>6 DEF Claims, Migrated, Described, Filled, Served, AtRecord
  <2> QED BY <1>3, <2>2, <2>4, <2>7 DEF Advances
<1> QED BY <1>6, <1>7, <1>8 DEF Migrate

LEMMA SyncJunctionsAdvances ==
    ASSUME BootInv, NEW n \in Node, SyncJunctions(n)
    PROVE  Advances(n)
<1>1. BootTypes /\ Migrated(n) /\ Alone
  BY DEF BootInv
<1>2. Go(n, "sync", "nest", 1) /\ junctions' = Junction
      /\ UNCHANGED <<db, fks, keyed, made, cols, rows, seen, diff, history>>
  BY DEF SyncJunctions
<1>3. SchemaGoesOn /\ RowsGoOn /\ HistoryGoesOn
  BY <1>2, SyncJunctionsSchema, RowsUnchanged, HistoryUnchanged DEF history
<1>4. Keeps
  BY <1>3 DEF Keeps, SchemaGoesOn, RowsGoOn, HistoryGoesOn
<1>5. StepOf(n, "nest", 1) /\ step[n] = "sync"
  BY <1>1, <1>2, StepsTo, FirstReached DEF Go
<1>6. made' = Table /\ \A t \in Table : RightTable(t)
  BY <1>1, <1>2, <1>5 DEF Migrated
<1>7. \A t \in Table : RightTable(t)'
  BY <1>4, <1>6, RightStays
<1>8. \A t \in Table : overlap' \/ t \in lost' \/ SnapRef[t] \subseteq fks'[t]
  BY <1>1, <1>2, <1>5 DEF Alone, FksFollow, history
<1>9. SchemaDone'
  BY <1>2, <1>6, <1>7, <1>8 DEF SchemaDone
<1>10. Claims(n)'
  BY <1>5, <1>6, <1>9 DEF Claims, Migrated, Described, Filled, Served, AtRecord, StepOf
<1> QED BY <1>3, <1>5, <1>10 DEF Advances, StepOf

-----------------------------------------------------------------------------
(***************************************************************************)
(* BootstrapService: the setting and the metadata.                         *)
(***************************************************************************)
LEMMA ServedStays ==
    ASSUME BootInv, NEW n \in Node, step[n] \in Served, SchemaGoesOn, RowsGoOn, HistoryGoesOn
    PROVE  Keeps /\ SchemaDone' /\ made' = Table /\ (MetaDone => MetaDone')
<1>1. Keeps /\ SchemaTypes' /\ RowTypes'
  BY DEF Keeps, SchemaGoesOn, RowsGoOn, HistoryGoesOn
<1>2. SchemaDone
  BY DEF BootInv, Migrated
<1> QED BY <1>1, <1>2, SchemaDoneStays, RowsStay DEF SchemaDone

LEMMA ReadSettingAdvances ==
    ASSUME BootInv, NEW n \in Node, ReadSetting(n)
    PROVE  Advances(n)
<1>1. BootTypes /\ step[n] = "nest"
  BY DEF BootInv, ReadSetting, Go
<1>2. SchemaGoesOn /\ RowsGoOn
  BY SchemaStays, RowsUnchanged DEF ReadSetting
<1>3. HistoryGoesOn
  BY DEF ReadSetting, HistoryGoesOn, KeepsHistory, HistoryTypes, BootInv, BootTypes
<1>4. SchemaDone'
  BY <1>1, <1>2, <1>3, ServedStays DEF Served
<1>5. PICK to \in {"critical", "meta"} : StepOf(n, to, 1)
  BY <1>1, StepsTo, FirstReached DEF ReadSetting
<1>6. Claims(n)'
  BY <1>4, <1>5 DEF Claims, Migrated, Described, Filled, Served, AtRecord, StepOf, SchemaDone
<1> QED BY <1>2, <1>3, <1>5, <1>6 DEF Advances, StepOf

LEMMA NoConnectionAdvances ==
    ASSUME BootInv, NEW n \in Node, NoConnection(n)
    PROVE  Advances(n)
<1>1. BootTypes /\ step[n] = "nest" /\ HistoryTypes
  BY DEF BootInv, BootTypes, NoConnection, Go
<1>2. SchemaGoesOn /\ RowsGoOn
  BY SchemaStays, RowsUnchanged DEF NoConnection
<1>3. HistoryGoesOn
  BY <1>1, OnlyErrorsHistory DEF NoConnection, HistoryTypes
<1>4. SchemaDone'
  BY <1>1, <1>2, <1>3, ServedStays DEF Served
<1>5. StepOf(n, "up", 1)
  BY <1>1, StepsTo, FirstReached DEF NoConnection
<1>6. Claims(n)'
  BY <1>4, <1>5 DEF Claims, Migrated, Described, Filled, Served, AtRecord, StepOf, SchemaDone
<1> QED BY <1>2, <1>3, <1>5, <1>6 DEF Advances, StepOf

LEMMA LookForMetaAdvances ==
    ASSUME BootInv, NEW n \in Node, LookForMeta(n)
    PROVE  Advances(n)
<1>1. BootTypes /\ step[n] = "meta" /\ Described(n) /\ meta \in [Table -> Nat]
      /\ UNCHANGED <<db, schema, rows, diff, history>>
  BY DEF BootInv, BootTypes, RowTypes, LookForMeta, Go
<1>2. SchemaGoesOn /\ RowsGoOn /\ HistoryGoesOn
  BY <1>1, SchemaStays, RowsUnchanged, HistoryUnchanged DEF history
<1>3. SchemaDone' /\ db' = db /\ meta' = meta
  BY <1>1, <1>2, ServedStays DEF Served, rows
<1>4. TableAt(n) = TableSeq[pos[n]] /\ TableAt(n) \in Table /\ pos[n] \in 1 .. Len(TableSeq)
  BY <1>1, TableAtIs DEF AtTable
<1>5. PICK Q \in SUBSET Table : Q = IF db = "sql" THEN Table ELSE {TableAt(n)}
  BY <1>4
<1>6. PICK S \in SUBSET Table : S = {t \in Q : meta[t] = 0}
  OBVIOUS
<1>7. StepOf(n, "insert", pos[n]) /\ seen'[n] = S
  <2>1. Reaches("insert", pos[n])
    BY <1>4, AllReached DEF AtTable
  <2>2. Go(n, "meta", "insert", pos[n]) /\ Learns(n, S) /\ S \in SUBSET (Junction \cup Table \cup Record)
    BY <1>5, <1>6 DEF LookForMeta
  <2> QED BY <1>1, <2>1, <2>2, LearnsTo
<1>8. Described(n)'
  <2>1. \A t \in Q : t \in S \/ meta[t] > 0
    BY <1>1, <1>6
  <2>2. TableAt(n)' = TableAt(n) /\ lost' = lost
    BY <1>1, <1>7 DEF TableAt, StepOf, history
  <2> QED BY <1>1, <1>3, <1>5, <1>6, <1>7, <2>1, <2>2 DEF Described, StepOf, HasRow
<1>9. Claims(n)'
  BY <1>3, <1>7, <1>8 DEF Claims, Migrated, Filled, Served, AtRecord, StepOf, SchemaDone
<1> QED BY <1>2, <1>7, <1>9 DEF Advances, StepOf

LEMMA InsertMetaRows ==
    ASSUME BootInv, NEW n \in Node, InsertMeta(n)
    PROVE  /\ RowsGoOn
           /\ db = "sql" /\ step'[n] # "off" => MetaDone'
           /\ db # "sql" => meta'[TableAt(n)] > 0
<1>1. /\ RowTypes /\ Described(n) /\ step[n] = "insert" /\ BareHasReason
      /\ UNCHANGED <<db, schema, settings, count, linked, bare, edited, history>>
  BY DEF BootInv, BootTypes, InsertMeta
<1>2. TableAt(n) \in Table
  BY <1>1, TableAtIs DEF AtTable, BootInv
<1>3. PICK Q \in SUBSET Table : Q = IF db = "sql" THEN Table ELSE {TableAt(n)}
  BY <1>2
<1>4. seen[n] \subseteq Q /\ \A t \in Q : t \in seen[n] \/ meta[t] > 0
  BY <1>1, <1>3 DEF Described
<1>5. PICK v : v = [t \in Table |-> IF t \in seen[n] THEN meta[t] + 1 ELSE meta[t]]
  OBVIOUS
<1>6. v \in [Table -> Nat] /\ \A t \in Table : v[t] = IF t \in seen[n] THEN meta[t] + 1 ELSE meta[t]
  BY <1>1, <1>5 DEF RowTypes
<1>7. (\A t \in Q : v[t] > 0) /\ (\A t \in Table : meta[t] > 0 => v[t] > 0)
  <2>1. \A t \in Table : meta[t] \in Nat
    BY <1>1 DEF RowTypes
  <2>2. \A t \in Table : meta[t] > 0 => v[t] > 0
    BY <1>6, <2>1
  <2>3. ASSUME NEW t \in Q PROVE v[t] > 0
    BY <1>4, <1>6, <2>1, <2>2
  <2> QED BY <2>2, <2>3
<1>8. /\ meta' \in {meta, v} /\ (described' = described \/ described' = Table)
      /\ db = "sql" /\ step'[n] # "off" => meta' = v /\ described' = Table
      /\ db # "sql" => \/ meta' = v
                       \/ meta' = meta /\ \E t \in seen[n] : meta[t] > 0
  <2>1. step \in [Node -> Steps]
    BY DEF BootInv, BootTypes, WalkTypes
  <2> QED BY <1>5, <2>1 DEF InsertMeta, Exits, Leaves
<1>9. RowsGoOn
  <2>1. /\ meta' \in [Table -> Nat] /\ (\A t \in Table : meta[t] > 0 => meta'[t] > 0)
        /\ described' \subseteq Table /\ described \subseteq described'
    BY <1>1, <1>6, <1>7, <1>8 DEF RowTypes
  <2> QED BY <1>1, <2>1 DEF RowsGoOn, KeepsRows, RowTypes, BareHasReason, NewlyDone, history
<1>10. ASSUME db = "sql", step'[n] # "off" PROVE MetaDone'
  BY <1>3, <1>7, <1>8, <1>10 DEF MetaDone, HasRow, HasRows
<1>11. ASSUME db # "sql" PROVE meta'[TableAt(n)] > 0
  BY <1>3, <1>4, <1>7, <1>8, <1>11
<1> QED BY <1>9, <1>10, <1>11

\* Mongo: the table at hand has its row, or is given up.
LEMMA OnwardMeta ==
    ASSUME BootInv, NEW n \in Node, step[n] \in {"meta", "insert"}, db # "sql",
           Onward(n, step[n], TableSeq, "meta", "ids"), UNCHANGED <<seen, diff>>,
           SchemaGoesOn, RowsGoOn, HistoryGoesOn, NEW t, t = TableAt(n), HasRow(t)'
    PROVE  Advances(n)
<1>1. BootTypes /\ Described(n)
  BY DEF BootInv
<1>2. t = TableSeq[pos[n]] /\ t \in Table /\ pos[n] \in 1 .. Len(TableSeq)
  BY <1>1, TableAtIs DEF AtTable
<1>3. Keeps /\ SchemaDone' /\ made' = Table /\ db' = db /\ RowTypes'
  BY ServedStays DEF Served, SchemaGoesOn, RowsGoOn, KeepsSchema
<1>4. \A i \in 1 .. pos[n] : HasRow(TableSeq[i])'
  <2>1. TAKE i \in 1 .. pos[n]
  <2>2. CASE i = pos[n]
    BY <1>2, <2>2
  <2>3. CASE i # pos[n]
    <3>1. i \in 1 .. pos[n] - 1 /\ TableSeq[i] \in Table /\ HasRow(TableSeq[i])
      BY <1>1, <1>2, <2>3, Lists DEF Described
    <3> QED BY <1>3, <3>1, RowsStay
  <2> QED BY <2>2, <2>3
<1>5. \/ pos[n] + 1 \in 1 .. Len(TableSeq) /\ Go(n, step[n], "meta", pos[n] + 1)
      \/ pos[n] = Len(TableSeq) /\ Go(n, step[n], "ids", 1)
  BY <1>1, OnwardTables DEF AtTable
<1>6. CASE pos[n] + 1 \in 1 .. Len(TableSeq) /\ Go(n, step[n], "meta", pos[n] + 1)
  <2>1. Reaches("meta", pos[n] + 1) /\ step[n] # "migrate"
    BY <1>6, AllReached DEF AtTable
  <2>2. StepOf(n, "meta", pos[n] + 1)
    BY <1>1, <1>6, <2>1, StepsTo
  <2>3. Claims(n)'
    BY <1>2, <1>3, <1>4, <2>2 DEF Claims, Migrated, Described, Filled, Served, AtRecord, StepOf
  <2> QED BY <2>2, <2>3 DEF Advances, StepOf
<1>7. CASE pos[n] = Len(TableSeq) /\ Go(n, step[n], "ids", 1)
  <2>1. StepOf(n, "ids", 1)
    <3>1. step[n] # "migrate"
      OBVIOUS
    <3> QED BY <1>1, <1>7, <3>1, StepsTo, FirstReached
  <2>2. \A s \in Table : HasRow(s)'
    <3>1. TAKE s \in Table
    <3>2. PICK i \in 1 .. Len(TableSeq) : s = TableSeq[i]
      BY Lists
    <3>3. HasRow(TableSeq[i])'
      BY <1>4, <1>7
    <3> QED BY <3>2, <3>3
  <2>3. Claims(n)'
    BY <1>3, <2>1, <2>2 DEF Claims, Migrated, Described, Filled, Served, AtRecord, StepOf
  <2> QED BY <2>1, <2>3 DEF Advances, StepOf
<1> QED BY <1>5, <1>6, <1>7

LEMMA InsertMetaAdvances ==
    ASSUME BootInv, NEW n \in Node, InsertMeta(n)
    PROVE  Advances(n)
<1>1. /\ BootTypes /\ Described(n) /\ step[n] = "insert"
      /\ UNCHANGED <<db, schema, settings, count, linked, bare, edited, history>>
  BY DEF BootInv, InsertMeta
<1>2. SchemaGoesOn /\ RowsGoOn /\ HistoryGoesOn
  BY <1>1, SchemaStays, InsertMetaRows, HistoryUnchanged
<1>3. Keeps /\ SchemaDone' /\ made' = Table /\ db' = db
  BY <1>1, <1>2, ServedStays DEF Served
<1>4. CASE Exits(n, "insert")
  BY <1>1, <1>2, <1>4, Exiting DEF Advances, Exits
<1>5. CASE db = "sql" /\ Go(n, "insert", "physical", 1) /\ UNCHANGED <<seen, diff>>
  <2>1. StepOf(n, "physical", 1)
    BY <1>1, <1>5, StepsTo, FirstReached
  <2>2. MetaDone'
    BY <1>5, <2>1, InsertMetaRows DEF StepOf
  <2>3. Claims(n)'
    BY <1>3, <2>1, <2>2 DEF Claims, Migrated, Described, Filled, Served, AtRecord, StepOf
  <2> QED BY <1>2, <2>1, <2>3 DEF Advances, StepOf
<1>6. CASE db # "sql" /\ Onward(n, "insert", TableSeq, "meta", "ids") /\ UNCHANGED <<seen, diff>>
  <2>1. PICK t : t = TableAt(n)
    OBVIOUS
  <2>2. HasRow(t)'
    BY <1>6, <2>1, InsertMetaRows DEF HasRow
  <2> QED BY <1>1, <1>2, <1>6, <2>1, <2>2, OnwardMeta
<1> QED BY <1>4, <1>5, <1>6 DEF InsertMeta

LEMMA LoadIdsAdvances ==
    ASSUME BootInv, NEW n \in Node, LoadIds(n)
    PROVE  Advances(n)
<1>1. /\ BootTypes /\ Described(n) /\ step[n] = "ids" /\ Go(n, "ids", "describe", 1)
      /\ UNCHANGED <<db, schema, rows, diff, history>>
  BY DEF BootInv, LoadIds, Go
<1>2. SchemaGoesOn /\ RowsGoOn /\ HistoryGoesOn
  BY <1>1, SchemaStays, RowsUnchanged, HistoryUnchanged DEF history
<1>3. SchemaDone' /\ made' = Table
  BY <1>1, <1>2, ServedStays DEF Served
<1>4. PICK S \in SUBSET (Junction \cup Table \cup Record) : S = {t \in Table : meta[t] > 0}
  OBVIOUS
<1>5. StepOf(n, "describe", 1) /\ seen'[n] = S
  BY <1>1, <1>4, LearnsTo, FirstReached DEF LoadIds
<1>6. \A t \in Table : HasRow(t) /\ HasRow(t)'
  BY <1>1 DEF Described, HasRow, rows, history
<1>7. \A t \in Table \ S : db = "mongo" /\ t \in lost
  BY <1>4, <1>6 DEF HasRow
<1>8. Described(n)'
  BY <1>1, <1>5, <1>6, <1>7 DEF Described, StepOf, history
<1>9. Claims(n)'
  BY <1>3, <1>5, <1>8 DEF Claims, Migrated, Filled, Served, AtRecord, StepOf
<1> QED BY <1>2, <1>5, <1>9 DEF Advances, StepOf

LEMMA OnwardDescribed ==
    ASSUME BootInv, NEW n \in Node, Onward(n, "describe", TableSeq, "describe", "find"),
           UNCHANGED <<seen, diff>>, SchemaGoesOn, RowsGoOn, HistoryGoesOn,
           NEW t, t = TableAt(n), HasRows(t)'
    PROVE  Advances(n)
<1>1. BootTypes /\ Described(n) /\ step[n] = "describe"
  BY DEF BootInv, Onward, Go
<1>2. t = TableSeq[pos[n]] /\ t \in Table /\ pos[n] \in 1 .. Len(TableSeq)
  BY <1>1, TableAtIs DEF AtTable
<1>3. Keeps /\ SchemaDone' /\ made' = Table /\ db' = db /\ RowTypes' /\ lost \subseteq lost'
  BY <1>1, ServedStays DEF Served, SchemaGoesOn, RowsGoOn, HistoryGoesOn, KeepsSchema, KeepsHistory
<1>4. \A i \in 1 .. pos[n] : HasRows(TableSeq[i])'
  <2>1. TAKE i \in 1 .. pos[n]
  <2>2. CASE i = pos[n]
    BY <1>2, <2>2
  <2>3. CASE i # pos[n]
    <3>1. i \in 1 .. pos[n] - 1 /\ TableSeq[i] \in Table /\ HasRows(TableSeq[i])
      BY <1>1, <1>2, <2>3, Lists DEF Described
    <3> QED BY <1>3, <3>1, RowsStay
  <2> QED BY <2>2, <2>3
<1>5. /\ \A s \in Table : HasRow(s)'
      /\ \A s \in Table \ seen'[n] : db' = "mongo" /\ s \in lost'
  <2>1. /\ \A s \in Table : HasRow(s)
        /\ \A s \in Table \ seen[n] : db = "mongo" /\ s \in lost
    BY <1>1 DEF Described
  <2> QED BY <1>3, <2>1, RowsStay
<1>6. \/ pos[n] + 1 \in 1 .. Len(TableSeq) /\ Go(n, "describe", "describe", pos[n] + 1)
      \/ pos[n] = Len(TableSeq) /\ Go(n, "describe", "find", 1)
  BY <1>1, OnwardTables DEF AtTable
<1>7. CASE pos[n] + 1 \in 1 .. Len(TableSeq) /\ Go(n, "describe", "describe", pos[n] + 1)
  <2>1. Reaches("describe", pos[n] + 1)
    BY <1>7, AllReached DEF AtTable
  <2>2. StepOf(n, "describe", pos[n] + 1)
    BY <1>1, <1>7, <2>1, StepsTo
  <2>3. Claims(n)'
    BY <1>2, <1>3, <1>4, <1>5, <2>2 DEF Claims, Migrated, Described, Filled, Served, AtRecord, StepOf
  <2> QED BY <2>2, <2>3 DEF Advances, StepOf
<1>8. CASE pos[n] = Len(TableSeq) /\ Go(n, "describe", "find", 1)
  <2>1. StepOf(n, "find", 1)
    BY <1>1, <1>8, StepsTo, FirstReached
  <2>2. MetaDone'
    <3>1. ASSUME NEW s \in Table PROVE HasRows(s)'
      <4>1. PICK i \in 1 .. Len(TableSeq) : s = TableSeq[i]
        BY Lists
      <4>2. HasRows(TableSeq[i])'
        BY <1>4, <1>8
      <4> QED BY <4>1, <4>2
    <3> QED BY <1>5, <3>1 DEF MetaDone
  <2>3. Claims(n)'
    BY <1>3, <2>1, <2>2 DEF Claims, Migrated, Described, Filled, Served, AtRecord, StepOf
  <2> QED BY <2>1, <2>3 DEF Advances, StepOf
<1> QED BY <1>6, <1>7, <1>8

LEMMA DescribeTableAdvances ==
    ASSUME BootInv, NEW n \in Node, DescribeTable(n)
    PROVE  Advances(n)
<1>1. /\ BootTypes /\ Described(n) /\ step[n] = "describe"
      /\ UNCHANGED <<db, schema, meta, settings, count, linked, bare, edited, seen, diff, history>>
  BY DEF BootInv, DescribeTable, Onward, Go
<1>2. PICK t \in Table : t = TableAt(n)
  BY <1>1, TableAtIs DEF AtTable
<1>3. described' = IF {t} \cup SnapRef[t] \subseteq seen[n] THEN described \cup {t} ELSE described
  BY <1>2 DEF DescribeTable
<1>4. RowsGoOn
  BY <1>1, <1>3 DEF RowsGoOn, KeepsRows, RowTypes, BareHasReason, NewlyDone, BootInv, BootTypes, history
<1>5. SchemaGoesOn /\ HistoryGoesOn
  BY <1>1, SchemaStays, HistoryUnchanged
<1>6. HasRows(t)'
  <2>1. \A s \in Table \ seen[n] : db = "mongo" /\ s \in lost
    BY <1>1 DEF Described
  <2>2. SnapRef[t] \subseteq Table
    BY Columns
  <2> QED BY <1>1, <1>3, <2>1, <2>2 DEF HasRows, history
<1> QED BY <1>1, <1>2, <1>4, <1>5, <1>6, OnwardDescribed DEF DescribeTable

LEMMA MetaFailsAdvances ==
    ASSUME BootInv, NEW n \in Node, MetaFails(n)
    PROVE  Advances(n)
<1>1. /\ BootTypes /\ HistoryTypes /\ db = "mongo" /\ Fails
      /\ UNCHANGED <<db, schema, rows, seen, diff, gaveUp, overlap, deaths, edits>>
      /\ \/ step[n] \in {"meta", "insert"} /\ Onward(n, step[n], TableSeq, "meta", "ids")
         \/ Onward(n, "describe", TableSeq, "describe", "find")
  BY DEF BootInv, BootTypes, MetaFails
<1>2. step[n] \in {"meta", "insert", "describe"}
  BY <1>1 DEF Onward, Go
<1>3. PICK t \in Table : t = TableAt(n)
  BY <1>1, <1>2, TableAtIs DEF AtTable
<1>4. lost' = lost \cup {t} /\ lost' \in SUBSET (Record \cup Table) /\ gaveUp' \in BOOLEAN
  BY <1>1, <1>3 DEF MetaFails, HistoryTypes
<1>5. HistoryGoesOn
  BY <1>1, <1>4, OnlyErrorsHistory
<1>6. SchemaGoesOn /\ RowsGoOn
  BY <1>1, <1>4, SchemaStays, RowsUnchanged
<1>7. HasRow(t)' /\ HasRows(t)' /\ db # "sql"
  BY <1>1, <1>4 DEF HasRow, HasRows
<1> QED BY <1>1, <1>2, <1>3, <1>5, <1>6, <1>7, OnwardMeta, OnwardDescribed

LEMMA SyncPhysicalAdvances ==
    ASSUME BootInv, NEW n \in Node, SyncPhysical(n)
    PROVE  Advances(n)
<1>1. /\ BootTypes /\ Described(n) /\ Go(n, "physical", "find", 1)
      /\ UNCHANGED <<db, rows, seen, diff, history>>
  BY DEF BootInv, SyncPhysical
<1>2. SchemaGoesOn /\ RowsGoOn /\ HistoryGoesOn
  BY <1>1, SyncPhysicalSchema, RowsUnchanged, HistoryUnchanged DEF history
<1>3. StepOf(n, "find", 1) /\ step[n] = "physical"
  BY <1>1, StepsTo, FirstReached DEF Go
<1>4. SchemaDone' /\ made' = Table /\ MetaDone'
  BY <1>1, <1>2, <1>3, ServedStays DEF Served, Described
<1>5. Claims(n)'
  BY <1>3, <1>4 DEF Claims, Migrated, Described, Filled, Served, AtRecord, StepOf
<1> QED BY <1>2, <1>3, <1>5 DEF Advances, StepOf

-----------------------------------------------------------------------------
(***************************************************************************)
(* DefaultDataService: one record after the other.                         *)
(***************************************************************************)
LEMMA RecordAtIs ==
    ASSUME BootTypes, NEW n \in Node, step[n] \in AtRecord
    PROVE  RecordAt(n) \in Record /\ RecordAt(n) = RecordSeq[pos[n]] /\ pos[n] \in 1 .. Len(RecordSeq)
  BY Lists DEF RecordAt, BootTypes, WalkTypes, Placed

\* What an instance has when it works on the records.
LEMMA RecordsGoOn ==
    ASSUME BootInv, NEW n \in Node, step[n] \in AtRecord, SchemaGoesOn, RowsGoOn, HistoryGoesOn
    PROVE  /\ Keeps /\ SchemaDone' /\ made' = Table /\ MetaDone' /\ db' = db
           /\ \A i \in 1 .. pos[n] - 1 : Entered(RecordSeq[i])' /\ Bound(RecordSeq[i])'
<1>1. Keeps /\ SchemaDone' /\ made' = Table /\ MetaDone' /\ db' = db
  BY ServedStays DEF Served, AtRecord, BootInv, Described, SchemaGoesOn, KeepsSchema
<1>2. pos[n] \in 1 .. Len(RecordSeq)
  BY RecordAtIs DEF BootInv
<1>3. \A i \in 1 .. pos[n] - 1 : RecordSeq[i] \in Record /\ Entered(RecordSeq[i]) /\ Bound(RecordSeq[i])
  BY <1>2, Lists DEF BootInv, Filled
<1>4. \A i \in 1 .. pos[n] - 1 : Entered(RecordSeq[i])' /\ Bound(RecordSeq[i])'
  BY <1>1, <1>3, RowsStay DEF RowsGoOn
<1> QED BY <1>1, <1>4

LEMMA NextRecordAdvances ==
    ASSUME BootInv, NEW n \in Node, NEW from \in AtRecord, NextRecord(n, from),
           SchemaGoesOn, RowsGoOn, HistoryGoesOn, UNCHANGED <<seen, diff>>,
           NEW r, r = RecordAt(n), Entered(r)', Bound(r)'
    PROVE  Advances(n)
<1>1. BootTypes /\ step[n] = from
  BY DEF BootInv, NextRecord, Onward, Go
<1>2. r = RecordSeq[pos[n]] /\ pos[n] \in 1 .. Len(RecordSeq)
  BY <1>1, RecordAtIs
<1>3. /\ Keeps /\ SchemaDone' /\ made' = Table /\ MetaDone' /\ db' = db
      /\ \A i \in 1 .. pos[n] - 1 : Entered(RecordSeq[i])' /\ Bound(RecordSeq[i])'
  BY <1>1, RecordsGoOn
<1>4. \A i \in 1 .. pos[n] : Entered(RecordSeq[i])' /\ Bound(RecordSeq[i])'
  <2>1. TAKE i \in 1 .. pos[n]
  <2>2. CASE i = pos[n]
    BY <1>2, <2>2
  <2>3. CASE i # pos[n]
    BY <1>2, <1>3, <2>3
  <2> QED BY <2>2, <2>3
<1>5. \/ pos[n] + 1 \in 1 .. Len(RecordSeq) /\ Go(n, from, "find", pos[n] + 1)
      \/ pos[n] = Len(RecordSeq) /\ Go(n, from, "last", 1)
  BY <1>1, OnwardRecords
<1>6. CASE pos[n] + 1 \in 1 .. Len(RecordSeq) /\ Go(n, from, "find", pos[n] + 1)
  <2>1. Reaches("find", pos[n] + 1) /\ from # "migrate"
    BY <1>6, AllReached DEF AtRecord
  <2>2. StepOf(n, "find", pos[n] + 1)
    BY <1>1, <1>6, <2>1, StepsTo
  <2>3. Claims(n)'
    BY <1>2, <1>3, <1>4, <2>2 DEF Claims, Migrated, Described, Filled, Served, AtRecord, StepOf
  <2> QED BY <2>2, <2>3 DEF Advances, StepOf
<1>7. CASE pos[n] = Len(RecordSeq) /\ Go(n, from, "last", 1)
  <2>1. StepOf(n, "last", 1)
    <3>1. from # "migrate"
      BY DEF AtRecord
    <3> QED BY <1>1, <1>7, <3>1, StepsTo, FirstReached
  <2>2. RecordsDone'
    <3>1. \A s \in Record : Entered(s)' /\ Bound(s)'
      <4>1. TAKE s \in Record
      <4>2. PICK i \in 1 .. Len(RecordSeq) : s = RecordSeq[i]
        BY Lists
      <4>3. Entered(RecordSeq[i])' /\ Bound(RecordSeq[i])'
        BY <1>4, <1>7
      <4> QED BY <4>2, <4>3
    <3> QED BY <3>1 DEF RecordsDone
  <2>3. Claims(n)'
    BY <1>3, <2>1, <2>2 DEF Claims, Migrated, Described, Filled, Served, AtRecord, StepOf
  <2> QED BY <2>1, <2>3 DEF Advances, StepOf
<1> QED BY <1>5, <1>6, <1>7

LEMMA FindRecordAdvances ==
    ASSUME BootInv, NEW n \in Node, FindRecord(n)
    PROVE  Advances(n)
<1>1. /\ BootTypes /\ step[n] = "find" /\ count \in [Record -> Nat]
      /\ UNCHANGED <<db, schema, rows, diff, gaveUp, overlap, deaths, errors, edits>>
  BY DEF BootInv, BootTypes, RowTypes, FindRecord
<1>2. PICK r \in Record : r = RecordAt(n) /\ r = RecordSeq[pos[n]] /\ pos[n] \in 1 .. Len(RecordSeq)
  BY <1>1, RecordAtIs DEF AtRecord
<1>3. lost' \in {lost, lost \cup {r}}
  BY <1>2 DEF FindRecord
<1>4. HistoryGoesOn
  BY <1>1, <1>3 DEF HistoryGoesOn, KeepsHistory, HistoryTypes, BootInv, BootTypes
<1>5. SchemaGoesOn /\ RowsGoOn
  BY <1>1, <1>3, SchemaStays, RowsUnchanged
<1>6. CASE NextRecord(n, "find") /\ lost' = lost \cup {r} /\ UNCHANGED seen
  <2>1. Entered(r)' /\ Bound(r)'
    BY <1>6 DEF Entered, Bound
  <2>2. UNCHANGED <<seen, diff>> /\ "find" \in AtRecord
    BY <1>1, <1>6 DEF AtRecord
  <2> QED BY <1>2, <1>4, <1>5, <1>6, <2>1, <2>2, NextRecordAdvances
<1>7. CASE /\ Go(n, "find", "write", pos[n])
           /\ Learns(n, IF count[r] > 0 THEN {r} ELSE {})
           /\ UNCHANGED lost
  <2>1. PICK S \in SUBSET (Junction \cup Table \cup Record) : S = IF count[r] > 0 THEN {r} ELSE {}
    BY <1>2
  <2>2. StepOf(n, "write", pos[n]) /\ seen'[n] = S
    <3>1. Reaches("write", pos[n])
      BY <1>2, AllReached DEF AtRecord
    <3> QED BY <1>1, <1>7, <2>1, <3>1, LearnsTo
  <2>3. /\ SchemaDone' /\ made' = Table /\ MetaDone' /\ db' = db
        /\ \A i \in 1 .. pos[n] - 1 : Entered(RecordSeq[i])' /\ Bound(RecordSeq[i])'
    BY <1>1, <1>4, <1>5, RecordsGoOn DEF AtRecord
  <2>4. RecordAt(n)' = r /\ (r \in seen'[n] => count'[r] > 0)
    BY <1>1, <1>2, <2>1, <2>2 DEF RecordAt, StepOf, rows
  <2>5. Claims(n)'
    BY <2>2, <2>3, <2>4 DEF Claims, Migrated, Described, Filled, Served, AtRecord, StepOf
  <2> QED BY <1>4, <1>5, <2>2, <2>5 DEF Advances, StepOf
<1> QED BY <1>2, <1>6, <1>7 DEF FindRecord

\* A name that a record refers to is known, or its record was given up.
LEMMA NamesKnown ==
    ASSUME BootInv, NEW n \in Node, step[n] \in AtRecord
    PROVE  /\ RefOf[RecordAt(n)] = "none" \/ Known(RefOf[RecordAt(n)]) \/ RefOf[RecordAt(n)] \in lost
           /\ AfterUpsert(RecordAt(n)) = "link" =>
                 \E m \in Record : Of(m, "method") /\ (Known(m) \/ m \in lost)
<1>1. MetaDone /\ \A i \in 1 .. pos[n] - 1 : Entered(RecordSeq[i])
  BY DEF BootInv, Described, Filled, AtRecord
<1>2. pos[n] \in 1 .. Len(RecordSeq) /\ RecordAt(n) = RecordSeq[pos[n]]
  BY RecordAtIs DEF BootInv
<1>3. \A i \in 1 .. pos[n] - 1 : RecordSeq[i] \in Record /\ (Known(RecordSeq[i]) \/ RecordSeq[i] \in lost)
  <2>1. ASSUME NEW r \in Record, Entered(r) PROVE Known(r) \/ r \in lost
    <3>1. CASE r \in Table
      <4>1. HasRow(r)
        BY <1>1, <3>1 DEF MetaDone
      <4> QED BY <3>1, <4>1 DEF HasRow, Known
    <3>2. CASE r \notin Table
      BY <2>1, <3>2 DEF Entered, Known
    <3> QED BY <3>1, <3>2
  <2>2. \A i \in 1 .. pos[n] - 1 : RecordSeq[i] \in Record /\ Entered(RecordSeq[i])
    BY <1>1, <1>2, Lists
  <2> QED BY <2>1, <2>2
<1>4. /\ RefOf[RecordAt(n)] \in Record \cup Table \cup {"none"}
      /\ RefOf[RecordAt(n)] \in Record => \E j \in 1 .. pos[n] - 1 : RecordSeq[j] = RefOf[RecordAt(n)]
      /\ KindOf[RecordAt(n)] \in {"route", "hook"} =>
            \E j \in 1 .. pos[n] - 1 : KindOf[RecordSeq[j]] = "method"
  BY <1>2, Order
<1>5. \A t \in Table : Known(t) \/ t \in lost
  BY <1>1 DEF Known, MetaDone, HasRow
<1> QED BY <1>3, <1>4, <1>5 DEF AfterUpsert, Of

LEMMA UpsertedAdvances ==
    ASSUME BootInv, NEW n \in Node, step[n] = "write", NEW r, r = RecordAt(n), Upserted(n, r),
           SchemaGoesOn, RowsGoOn, HistoryGoesOn, UNCHANGED <<seen, diff>>,
           Entered(r)', Of(r, "hook") /\ db = "mongo" => r \in linked'
    PROVE  Advances(n)
<1>1. BootTypes /\ pos[n] \in 1 .. Len(RecordSeq)
  BY RecordAtIs DEF BootInv, AtRecord
<1>2. CASE AfterUpsert(r) = "link"
  <2>1. StepOf(n, "link", pos[n])
    <3>1. Reaches("link", pos[n])
      BY <1>1, AllReached DEF AtRecord
    <3> QED BY <1>1, <1>2, <3>1, StepsTo DEF Upserted
  <2>2. /\ SchemaDone' /\ made' = Table /\ MetaDone' /\ db' = db
        /\ \A i \in 1 .. pos[n] - 1 : Entered(RecordSeq[i])' /\ Bound(RecordSeq[i])'
    BY RecordsGoOn DEF AtRecord
  <2>3. RecordAt(n)' = r
    BY <2>1 DEF RecordAt, StepOf
  <2>4. Entered(RecordAt(n))'
    BY <2>3 DEF Entered
  <2>5. Of(RecordAt(n)', "hook") /\ db' = "mongo" => RecordAt(n)' \in linked'
    BY <2>2, <2>3
  <2>6. Filled(n)'
    BY <2>1, <2>2, <2>4, <2>5 DEF Filled, AtRecord, StepOf, Of
  <2>7. Claims(n)'
    BY <2>1, <2>2, <2>6 DEF Claims, Migrated, Described, Served, StepOf
  <2> QED BY <2>1, <2>7 DEF Advances, StepOf
<1>3. CASE AfterUpsert(r) # "link"
  <2>1. NextRecord(n, "write") /\ Bound(r)' /\ "write" \in AtRecord
    BY <1>3 DEF Upserted, Bound, AfterUpsert, Of, AtRecord
  <2> QED BY <2>1, NextRecordAdvances
<1> QED BY <1>2, <1>3

\* What Stored() makes of the records that are bare, or have their methods.
LEMMA StoredHasReason ==
    ASSUME BootInv, NEW n \in Node, step[n] = "write", NEW r \in Record, r = RecordAt(n), Stored(r),
           UNCHANGED lost
    PROVE  /\ BareHasReason' /\ bare' \subseteq Record
           /\ linked \subseteq linked' /\ linked' \subseteq Record
           /\ Of(r, "hook") /\ db = "mongo" => r \in linked'
<1>1. BareHasReason /\ bare \subseteq Record /\ linked \subseteq Record
  BY DEF BootInv, BootTypes, RowTypes
<1>2. UserBare(r) \/ MenuBare(r) => RefOf[r] \in lost
  BY NamesKnown DEF UserBare, MenuBare, AtRecord
<1>3. bare' \subseteq bare \cup {r} /\ (r \in bare' => RefOf[r] \in lost)
  BY <1>2 DEF Stored
<1>4. linked' \in {linked, linked \cup {r}} /\ (Of(r, "hook") /\ db = "mongo" => r \in linked')
  BY DEF Stored
<1>5. BareHasReason'
  BY <1>1, <1>3 DEF BareHasReason
<1> QED BY <1>1, <1>3, <1>4, <1>5

LEMMA SettingOff ==
    ASSUME settings \in Seq(BOOLEAN), settings' = [settings EXCEPT ![1] = FALSE]
    PROVE  /\ settings' \in Seq(BOOLEAN) /\ Len(settings') = Len(settings)
           /\ \A i \in DOMAIN settings' : settings'[i] => i \in DOMAIN settings /\ settings[i]
<1>1. settings \in [1 .. Len(settings) -> BOOLEAN] /\ Len(settings) \in Nat
  OBVIOUS
<1>2. /\ settings' \in [1 .. Len(settings) -> BOOLEAN]
      /\ \A i \in 1 .. Len(settings) : settings'[i] = IF i = 1 THEN FALSE ELSE settings[i]
  BY <1>1
<1>3. settings' \in Seq(BOOLEAN) /\ Len(settings') = Len(settings)
  BY <1>1, <1>2
<1>4. DOMAIN settings = 1 .. Len(settings) /\ DOMAIN settings' = 1 .. Len(settings)
  BY <1>1, <1>2
<1> QED BY <1>2, <1>3, <1>4

LEMMA UpdateRecordAdvances ==
    ASSUME BootInv, NEW n \in Node, step[n] = "write", UpdateRecord(n)
    PROVE  Advances(n)
<1>1. /\ BootTypes /\ RowTypes /\ BareHasReason
      /\ UNCHANGED <<db, schema, meta, described, count, seen, diff, history>>
  BY DEF BootInv, BootTypes, UpdateRecord
<1>2. PICK r \in Record : r = RecordAt(n)
  BY <1>1, RecordAtIs DEF AtRecord
<1>3. r \in seen[n] /\ Upserted(n, r) /\ count[r] > 0
  BY <1>2 DEF UpdateRecord, BootInv, Filled
<1>4. SchemaGoesOn /\ HistoryGoesOn /\ UNCHANGED <<lost, overlap>>
  BY <1>1, SchemaStays, HistoryUnchanged DEF history
<1>5. Entered(r)'
  BY <1>1, <1>3 DEF Entered
<1>6. /\ edited' \subseteq Record /\ bare' \subseteq Record /\ BareHasReason'
      /\ linked \subseteq linked' /\ linked' \subseteq Record
      /\ Of(r, "hook") /\ db = "mongo" => r \in linked'
  <2>1. CASE UserKept(r)
    BY <1>1, <1>2, <1>4, <2>1 DEF UpdateRecord, UserKept, Of, RowTypes, BareHasReason
  <2>2. CASE ~UserKept(r)
    <3>1. Stored(r) /\ edited' = edited \ {r}
      BY <1>2, <2>2 DEF UpdateRecord
    <3>2. edited' \subseteq Record
      BY <1>1, <3>1 DEF RowTypes
    <3> QED BY <1>2, <1>4, <3>1, <3>2, StoredHasReason
  <2> QED BY <2>1, <2>2
<1>7. /\ settings' \in Seq(BOOLEAN) /\ Len(settings') = Len(settings)
      /\ NewlyDone
  <2>1. settings' = settings \/ settings' = [settings EXCEPT ![1] = FALSE]
    BY <1>2 DEF UpdateRecord
  <2> QED BY <1>1, <2>1, SettingOff DEF RowTypes, NewlyDone
<1>8. RowsGoOn
  BY <1>1, <1>6, <1>7 DEF RowsGoOn, KeepsRows, RowTypes
<1> QED BY <1>1, <1>2, <1>3, <1>4, <1>5, <1>6, <1>8, UpsertedAdvances

LEMMA InsertRecordAdvances ==
    ASSUME BootInv, NEW n \in Node, step[n] = "write", InsertRecord(n)
    PROVE  Advances(n)
<1>1. /\ BootTypes /\ RowTypes /\ BareHasReason /\ Alone
      /\ UNCHANGED <<db, schema, meta, described, edited, seen, diff, history>>
  BY DEF BootInv, BootTypes, InsertRecord
<1>2. PICK r \in Record : r = RecordAt(n)
  BY <1>1, RecordAtIs DEF AtRecord
<1>3. SchemaGoesOn /\ HistoryGoesOn /\ UNCHANGED <<lost, overlap>>
  BY <1>1, SchemaStays, HistoryUnchanged DEF history
<1>4. CASE Guarded(r) /\ count[r] > 0
  <2>1. NextRecord(n, "write") /\ UNCHANGED <<settings, count, linked, bare>> /\ r \notin seen[n]
    BY <1>2, <1>4 DEF InsertRecord
  <2>2. RowsGoOn
    BY <1>1, <1>3, <2>1, RowsUnchanged DEF rows
  <2>3. Entered(r)'
    BY <1>4, <2>1 DEF Entered
  <2>4. overlap'
    <3>1. count[r] = 0 \/ overlap
      BY <1>1, <1>2, <2>1 DEF Alone, AloneRows
    <3> QED BY <1>3, <1>4, <3>1
  <2>5. Bound(r)' /\ "write" \in AtRecord
    BY <2>4 DEF Bound, AtRecord
  <2> QED BY <1>1, <1>2, <1>3, <2>1, <2>2, <2>3, <2>5, NextRecordAdvances
<1>5. CASE ~(Guarded(r) /\ count[r] > 0)
  <2>1. /\ Upserted(n, r) /\ Stored(r) /\ count' = [count EXCEPT ![r] = @ + 1]
        /\ settings' = IF Of(r, "setting") THEN Append(settings, FALSE) ELSE settings
    BY <1>2, <1>5 DEF InsertRecord
  <2>2. /\ count' \in [Record -> Nat] /\ count'[r] = count[r] + 1 /\ count[r] \in Nat
        /\ \A s \in Record \ {r} : count'[s] = count[s]
    BY <1>1, <2>1 DEF RowTypes
  <2>3. \A s \in Record : count[s] > 0 => count'[s] > 0
    <3>1. TAKE s \in Record
    <3> QED BY <2>2
  <2>4. Entered(r)'
    BY <2>2 DEF Entered
  <2>5. /\ bare' \subseteq Record /\ BareHasReason'
        /\ linked \subseteq linked' /\ linked' \subseteq Record
        /\ Of(r, "hook") /\ db = "mongo" => r \in linked'
    BY <1>2, <1>3, <2>1, StoredHasReason
  <2>6. /\ settings' \in Seq(BOOLEAN) /\ NewlyDone
        /\ Len(settings') = IF Of(r, "setting") THEN Len(settings) + 1 ELSE Len(settings)
    <3>1. settings \in Seq(BOOLEAN)
      BY <1>1 DEF RowTypes
    <3>2. CASE Of(r, "setting")
      <4>1. settings' = Append(settings, FALSE)
        BY <2>1, <3>2
      <4>2. /\ settings' \in Seq(BOOLEAN) /\ Len(settings') = Len(settings) + 1
            /\ \A i \in DOMAIN settings' : settings'[i] => i \in DOMAIN settings /\ settings[i]
        BY <3>1, <4>1
      <4> QED BY <3>2, <4>2 DEF NewlyDone
    <3>3. CASE ~Of(r, "setting")
      BY <2>1, <3>1, <3>3 DEF NewlyDone
    <3> QED BY <3>2, <3>3
  <2>7. \A s \in Record : KindOf[s] = "setting" => Len(settings') = count'[s]
    <3>1. TAKE s \in Record
    <3>2. CASE s = r
      BY <1>1, <2>2, <2>6, <3>2 DEF RowTypes, Of
    <3>3. CASE s # r
      <4>1. ~(KindOf[s] = "setting" /\ KindOf[r] = "setting")
        BY <3>3, BootstrapAssumption
      <4> QED BY <1>1, <2>2, <2>6, <3>3, <4>1 DEF RowTypes, Of
    <3> QED BY <3>2, <3>3
  <2>8. RowsGoOn
    BY <1>1, <2>2, <2>3, <2>5, <2>6, <2>7 DEF RowsGoOn, KeepsRows, RowTypes
  <2> QED BY <1>1, <1>2, <1>3, <2>1, <2>4, <2>5, <2>8, UpsertedAdvances
<1> QED BY <1>4, <1>5

LEMMA RecordFailsAdvances ==
    ASSUME BootInv, NEW n \in Node, RecordFails(n)
    PROVE  Advances(n)
<1>1. /\ BootTypes /\ HistoryTypes /\ step[n] \in {"write", "link"} /\ NextRecord(n, step[n])
      /\ Fails /\ UNCHANGED <<db, schema, rows, seen, diff, gaveUp, overlap, deaths, edits>>
  BY DEF BootInv, BootTypes, RecordFails
<1>2. PICK r \in Record : r = RecordAt(n)
  BY <1>1, RecordAtIs DEF AtRecord
<1>3. lost' = lost \cup {r} /\ lost' \in SUBSET (Record \cup Table)
  BY <1>1, <1>2 DEF RecordFails, HistoryTypes
<1>4. SchemaGoesOn /\ RowsGoOn
  BY <1>1, <1>3, SchemaStays, RowsUnchanged
<1>5. HistoryGoesOn
  BY <1>1, <1>3, OnlyErrorsHistory DEF HistoryTypes
<1>6. Entered(r)' /\ Bound(r)' /\ step[n] \in AtRecord
  BY <1>1, <1>3 DEF Entered, Bound, AtRecord
<1> QED BY <1>1, <1>2, <1>4, <1>5, <1>6, NextRecordAdvances

\* All records that were to be transformed with the one at hand are given up.
LEMMA TransformFailsAdvances ==
    ASSUME BootInv, NEW n \in Node, TransformFails(n)
    PROVE  Advances(n)
<1>1. /\ BootTypes /\ HistoryTypes /\ step[n] = "find" /\ Fails
      /\ UNCHANGED <<db, schema, rows, seen, diff, gaveUp, overlap, deaths, edits>>
  BY DEF BootInv, BootTypes, TransformFails
<1>2. pos[n] \in 1 .. Len(RecordSeq) /\ Len(RecordSeq) \in Nat
  BY <1>1, RecordAtIs, Lists DEF AtRecord
<1>3. PICK i \in pos[n] .. Len(RecordSeq) :
         /\ IF i < Len(RecordSeq) THEN Go(n, "find", "find", i + 1) ELSE Go(n, "find", "last", 1)
         /\ lost' = lost \cup {RecordSeq[j] : j \in pos[n] .. i}
  BY DEF TransformFails
<1>4. i \in 1 .. Len(RecordSeq)
  BY <1>2
<1>5. \A j \in pos[n] .. i : RecordSeq[j] \in Record
  <2>1. \A j \in pos[n] .. i : j \in 1 .. Len(RecordSeq)
    BY <1>2, <1>4
  <2> QED BY <2>1, Lists
<1>6. lost' \in SUBSET (Record \cup Table) /\ lost \subseteq lost' /\ gaveUp' \in BOOLEAN
  BY <1>1, <1>3, <1>5 DEF HistoryTypes
<1>7. SchemaGoesOn /\ RowsGoOn /\ HistoryGoesOn
  BY <1>1, <1>6, SchemaStays, RowsUnchanged, OnlyErrorsHistory
<1>8. /\ SchemaDone' /\ made' = Table /\ MetaDone' /\ db' = db
      /\ \A j \in 1 .. pos[n] - 1 : Entered(RecordSeq[j])' /\ Bound(RecordSeq[j])'
  BY <1>1, <1>7, RecordsGoOn DEF AtRecord
<1>9. \A j \in 1 .. i : Entered(RecordSeq[j])' /\ Bound(RecordSeq[j])'
  <2>1. TAKE j \in 1 .. i
  <2>2. CASE j \in pos[n] .. i
    <3>1. RecordSeq[j] \in lost'
      BY <1>3, <2>2
    <3> QED BY <3>1 DEF Entered, Bound
  <2>3. CASE j \in 1 .. pos[n] - 1
    BY <1>8, <2>3
  <2> QED BY <1>2, <2>2, <2>3
<1>10. CASE i < Len(RecordSeq)
  <2>1. i + 1 \in 1 .. Len(RecordSeq) /\ Go(n, "find", "find", i + 1)
    BY <1>2, <1>3, <1>4, <1>10
  <2>2. StepOf(n, "find", i + 1)
    <3>1. Reaches("find", i + 1)
      BY <2>1, AllReached DEF AtRecord
    <3> QED BY <1>1, <2>1, <3>1, StepsTo
  <2>3. Claims(n)'
    BY <1>4, <1>8, <1>9, <2>2 DEF Claims, Migrated, Described, Filled, Served, AtRecord, StepOf
  <2> QED BY <1>7, <2>2, <2>3 DEF Advances, StepOf
<1>11. CASE ~(i < Len(RecordSeq))
  <2>1. i = Len(RecordSeq) /\ Go(n, "find", "last", 1)
    BY <1>2, <1>3, <1>4, <1>11
  <2>2. StepOf(n, "last", 1)
    BY <1>1, <2>1, StepsTo, FirstReached
  <2>3. RecordsDone'
    <3>1. ASSUME NEW s \in Record PROVE Entered(s)' /\ Bound(s)'
      <4>1. PICK j \in 1 .. Len(RecordSeq) : s = RecordSeq[j]
        BY Lists
      <4>2. Entered(RecordSeq[j])' /\ Bound(RecordSeq[j])'
        BY <1>9, <2>1
      <4> QED BY <4>1, <4>2
    <3> QED BY <3>1 DEF RecordsDone
  <2>4. Claims(n)'
    BY <1>8, <2>2, <2>3 DEF Claims, Migrated, Described, Filled, Served, AtRecord, StepOf
  <2> QED BY <1>7, <2>2, <2>4 DEF Advances, StepOf
<1> QED BY <1>10, <1>11

LEMMA LinkRecordAdvances ==
    ASSUME BootInv, NEW n \in Node, LinkRecord(n)
    PROVE  Advances(n)
<1>1. /\ BootTypes /\ SchemaTypes /\ RowTypes /\ BareHasReason /\ Filled(n)
      /\ step[n] = "link" /\ NextRecord(n, "link")
      /\ UNCHANGED <<db, schema, meta, described, settings, count, bare, edited, seen, diff, history>>
  BY DEF BootInv, BootTypes, LinkRecord, NextRecord, Onward, Go
<1>2. PICK r \in Record : r = RecordAt(n)
  BY <1>1, RecordAtIs DEF AtRecord
<1>3. linked' = IF RouteLinks(r) \/ HookLinks(r) THEN linked \cup {r} ELSE linked
  BY <1>2 DEF LinkRecord
<1>4. SchemaGoesOn /\ HistoryGoesOn /\ UNCHANGED <<lost, overlap>>
  BY <1>1, SchemaStays, HistoryUnchanged DEF history
<1>5. RowsGoOn
  BY <1>1, <1>3, <1>4 DEF RowsGoOn, KeepsRows, RowTypes, BareHasReason, NewlyDone
<1>6. Entered(r)'
  BY <1>1, <1>2, <1>4 DEF Filled, Entered
<1>7. Bound(r)'
  <2>1. SUFFICES ASSUME AfterUpsert(r) = "link"
                 PROVE  \/ r \in linked'
                        \/ Of(r, "route") /\ db = "mongo"
                        \/ \E m \in lost : Of(m, "method")
    BY <1>1, <1>4 DEF Bound, Of, AfterUpsert
  <2>2. Of(r, "route") \/ Of(r, "hook")
    BY <2>1 DEF AfterUpsert
  <2>3. PICK m \in Record : Of(m, "method") /\ (Known(m) \/ m \in lost)
    BY <1>1, <1>2, <2>1, NamesKnown DEF AtRecord
  <2>4. CASE db = "sql"
    <3>1. CASE m \in lost
      BY <2>3, <3>1
    <3>2. CASE Known(m)
      <4>1. \E k \in Record : Of(k, "method") /\ Known(k)
        BY <2>3, <3>2
      <4>2. RouteLinks(r) \/ HookLinks(r)
        BY <2>2, <2>4, <4>1 DEF RouteLinks, HookLinks
      <4>3. linked' = linked \cup {r}
        BY <1>3, <4>2
      <4> QED BY <4>3
    <3> QED BY <2>3, <3>1, <3>2
  <2>5. CASE db = "mongo"
    BY <1>1, <1>2, <1>3, <2>2, <2>5 DEF Filled
  <2> QED BY <1>1, <2>4, <2>5 DEF SchemaTypes
<1>8. "link" \in AtRecord
  BY DEF AtRecord
<1> QED BY <1>1, <1>2, <1>4, <1>5, <1>6, <1>7, <1>8, NextRecordAdvances

(***************************************************************************)
(* The end of a start.                                                     *)
(***************************************************************************)
LEMMA ReadSettingAgainAdvances ==
    ASSUME BootInv, NEW n \in Node, ReadSettingAgain(n)
    PROVE  Advances(n)
<1>1. /\ BootTypes /\ Described(n) /\ Filled(n) /\ step[n] = "last"
      /\ UNCHANGED <<db, schema, rows, history>>
  BY DEF BootInv, ReadSettingAgain, Exits, Go
<1>2. SchemaGoesOn /\ RowsGoOn /\ HistoryGoesOn
  BY <1>1, SchemaStays, RowsUnchanged, HistoryUnchanged DEF history
<1>3. Keeps /\ SchemaDone' /\ made' = Table /\ MetaDone'
  BY <1>1, <1>2, ServedStays DEF Served, Described
<1>4. RecordsDone'
  BY <1>1, <1>2, <1>3, RowsStay DEF Filled, RowsGoOn
<1>5. CASE Exits(n, "last")
  BY <1>1, <1>2, <1>5, Exiting DEF Advances, Exits
<1>6. CASE Go(n, "last", "isInit", 1) /\ UNCHANGED <<seen, diff>>
  <2>1. StepOf(n, "isInit", 1)
    BY <1>1, <1>6, StepsTo, FirstReached
  <2>2. Claims(n)'
    BY <1>3, <1>4, <2>1 DEF Claims, Migrated, Described, Filled, Served, AtRecord, StepOf
  <2> QED BY <1>2, <2>1, <2>2 DEF Advances, StepOf
<1> QED BY <1>5, <1>6 DEF ReadSettingAgain

LEMMA SetIsInitAdvances ==
    ASSUME BootInv, NEW n \in Node, SetIsInit(n)
    PROVE  Advances(n)
<1>1. /\ BootTypes /\ RowTypes /\ BareHasReason /\ Claims(n)
      /\ Go(n, "isInit", "up", 1) /\ settings' = [settings EXCEPT ![1] = TRUE]
      /\ UNCHANGED <<db, schema, meta, described, count, linked, bare, edited, seen, diff, history>>
  BY DEF BootInv, BootTypes, SetIsInit, Claims
<1>2. step[n] = "isInit" /\ StepOf(n, "up", 1)
  BY <1>1, StepsTo, FirstReached DEF Go
<1>3. NewlyDone
  BY <1>1, <1>2 DEF NewlyDone, Complete, Claims, Migrated, Described, Filled, Served
<1>4. SchemaGoesOn /\ HistoryGoesOn /\ UNCHANGED lost
  BY <1>1, SchemaStays, HistoryUnchanged DEF history
<1>5. settings' \in Seq(BOOLEAN) /\ Len(settings') = Len(settings)
  <2>1. settings \in [1 .. Len(settings) -> BOOLEAN] /\ Len(settings) \in Nat
    BY <1>1 DEF RowTypes
  <2>2. settings' \in [1 .. Len(settings) -> BOOLEAN]
    BY <1>1, <2>1
  <2> QED BY <2>1, <2>2
<1>6. RowsGoOn
  BY <1>1, <1>3, <1>4, <1>5 DEF RowsGoOn, KeepsRows, RowTypes, BareHasReason
<1>7. SchemaDone' /\ made' = Table
  BY <1>2, <1>4, <1>6, ServedStays DEF Served
<1>8. Claims(n)'
  BY <1>2, <1>7 DEF Claims, Migrated, Described, Filled, Served, AtRecord, StepOf
<1> QED BY <1>2, <1>4, <1>6, <1>8 DEF Advances, StepOf

LEMMA EnsureCriticalAdvances ==
    ASSUME BootInv, NEW n \in Node, EnsureCritical(n)
    PROVE  Advances(n)
<1>1. /\ BootTypes /\ RowTypes /\ HistoryTypes /\ BareHasReason /\ Go(n, "critical", "up", 1)
      /\ UNCHANGED <<lost, gaveUp, overlap, deaths, edits>>
      /\ UNCHANGED <<db, schema, meta, described, settings, linked, bare, edited, seen, diff>>
  BY DEF BootInv, BootTypes, EnsureCritical, OnlyErrors
<1>2. step[n] = "critical" /\ StepOf(n, "up", 1)
  BY <1>1, StepsTo, FirstReached DEF Go
<1>3. Critical \in Record /\ KindOf[Critical] # "setting"
  BY BootstrapAssumption
<1>4. /\ count' \in [Record -> Nat] /\ count'[Critical] \in {count[Critical], 1}
      /\ \A r \in Record \ {Critical} : count'[r] = count[r]
      /\ \A r \in Record : count[r] > 0 => count'[r] > 0
  <2>1. CASE count' = [count EXCEPT ![Critical] = IF @ = 0 THEN 1 ELSE @]
    BY <1>1, <1>3, <2>1 DEF RowTypes
  <2>2. CASE count' = count
    BY <1>1, <2>2 DEF RowTypes
  <2> QED BY <2>1, <2>2 DEF EnsureCritical
<1>5. HistoryGoesOn
  <2>1. errors' = errors \/ Fails
    BY DEF EnsureCritical
  <2>2. errors' \in 0 .. MaxErrors
    BY <1>1, <2>1, Bounds DEF Fails, HistoryTypes
  <2> QED BY <1>1, <2>2 DEF HistoryGoesOn, KeepsHistory, HistoryTypes
<1>6. SchemaGoesOn
  BY <1>1, SchemaStays
<1>7. RowsGoOn
  BY <1>1, <1>3, <1>4 DEF RowsGoOn, KeepsRows, RowTypes, BareHasReason, NewlyDone
<1>8. SchemaDone' /\ made' = Table
  BY <1>2, <1>5, <1>6, <1>7, ServedStays DEF Served
<1>9. Claims(n)'
  BY <1>2, <1>8 DEF Claims, Migrated, Described, Filled, Served, AtRecord, StepOf
<1> QED BY <1>2, <1>5, <1>6, <1>7, <1>9 DEF Advances, StepOf

LEMMA DieAdvances ==
    ASSUME BootInv, NEW n \in Node, Die(n)
    PROVE  Advances(n)
<1>1. BootTypes /\ HistoryTypes /\ Leaves(n)
      /\ UNCHANGED <<db, schema, rows, lost, gaveUp, overlap, errors, edits>>
  BY DEF BootInv, BootTypes, Die
<1>2. deaths' \in 0 .. MaxDeaths
  BY <1>1, Bounds DEF Die, HistoryTypes
<1>3. HistoryGoesOn
  BY <1>1, <1>2 DEF HistoryGoesOn, KeepsHistory, HistoryTypes
<1>4. SchemaGoesOn /\ RowsGoOn
  BY <1>1, SchemaStays, RowsUnchanged
<1> QED BY <1>1, <1>3, <1>4, Exiting DEF Advances

-----------------------------------------------------------------------------
(***************************************************************************)
(* What holds with any number of instances goes on.                        *)
(***************************************************************************)
Shared == /\ BootTypes /\ KeysHaveColumns /\ BareHasReason /\ DoneIsComplete
          /\ \A n \in Node : Migrated(n) /\ Described(n) /\ Filled(n)

LEMMA SharedGoesOn ==
    ASSUME BootInv, SchemaGoesOn, RowsGoOn, HistoryGoesOn, WalkTypes',
           \A m \in Node : SamePlace(m) \/ Claims(m)'
    PROVE  Shared'
<1>1. Keeps /\ SchemaTypes' /\ RowTypes' /\ HistoryTypes' /\ KeysHaveColumns' /\ BareHasReason'
  BY DEF Keeps, SchemaGoesOn, RowsGoOn, HistoryGoesOn
<1>2. \A m \in Node : Migrated(m)' /\ Described(m)' /\ Filled(m)'
  <2>1. TAKE m \in Node
  <2>2. CASE SamePlace(m)
    BY <1>1, <2>2, MigratedStays, DescribedStays, FilledStays
  <2>3. CASE Claims(m)'
    BY <2>3 DEF Claims
  <2> QED BY <2>2, <2>3
<1>3. DoneIsComplete'
  <2>1. SUFFICES ASSUME \E i \in DOMAIN settings' : settings'[i] PROVE Complete'
    BY DEF DoneIsComplete
  <2>2. Complete
    BY <2>1 DEF RowsGoOn, NewlyDone, BootInv, DoneIsComplete
  <2> QED BY <1>1, <2>2, SchemaDoneStays, RowsStay DEF Complete
<1> QED BY <1>1, <1>2, <1>3 DEF Shared, BootTypes

LEMMA AdvancesShared ==
    ASSUME BootInv, NEW n \in Node, Advances(n)
    PROVE  Shared'
<1>1. \A m \in Node : SamePlace(m) \/ Claims(m)'
  BY DEF Advances, OthersStay
<1> QED BY <1>1, SharedGoesOn DEF Advances

LEMMA EditShared ==
    ASSUME BootInv, NEW r \in Record, Edit(r)
    PROVE  Shared'
<1>1. /\ BootTypes /\ HistoryTypes /\ edits' \in 0 .. MaxEdits
      /\ UNCHANGED <<db, schema, meta, described, settings, count, linked, bare, step, pos,
                     seen, diff, lost, gaveUp, overlap, deaths, errors>>
  BY Bounds DEF Edit, BootInv, BootTypes, HistoryTypes
<1>2. SchemaGoesOn
  BY <1>1, SchemaStays
<1>3. RowsGoOn
  BY DEF Edit, RowsGoOn, KeepsRows, RowTypes, BareHasReason, NewlyDone, BootInv, BootTypes
<1>4. HistoryGoesOn
  BY <1>1 DEF HistoryGoesOn, KeepsHistory, HistoryTypes
<1>5. WalkTypes'
  BY <1>1 DEF BootTypes, WalkTypes, Placed
<1>6. \A m \in Node : SamePlace(m)
  BY <1>1 DEF SamePlace
<1> QED BY <1>2, <1>3, <1>4, <1>5, <1>6, SharedGoesOn

-----------------------------------------------------------------------------
(***************************************************************************)
(* What holds while one instance at a time initialises.                    *)
(***************************************************************************)
ByItself == AlonePlaces /\ AloneRows /\ \A n \in Node : FksFollow(n)

LEMMA WasByItself ==
    ASSUME BootInv, NEW n \in Node, Advances(n), ~overlap'
    PROVE  /\ ~overlap /\ ByItself
           /\ step[n] \in Initialising => \A m \in Node \ {n} : step'[m] \notin Initialising
           /\ step[n] \in Initialising \ {"nest"} => ~Initialised /\ edited = {}
  BY DEF Advances, HistoryGoesOn, KeepsHistory, BootInv, Alone, ByItself, AlonePlaces, OthersStay,
     SamePlace

LEMMA PlacesByItself ==
    ASSUME BootInv, NEW n \in Node, Advances(n), ~overlap', step[n] \in Initialising \ {"nest"},
           step'[n] # "critical", edited' \subseteq edited,
           Initialised' => step'[n] \notin Initialising
    PROVE  AlonePlaces'
<1>1. /\ ~Initialised /\ edited' = {} /\ AlonePlaces
      /\ \A m \in Node \ {n} : step'[m] \notin Initialising /\ step'[m] = step[m]
  BY WasByItself DEF ByItself, Advances, OthersStay, SamePlace
<1> QED BY <1>1 DEF AlonePlaces

LEMMA RowsByItself ==
    ASSUME BootInv, NEW n \in Node, Advances(n), ~overlap', step[n] \in Initialising,
           Len(settings') <= 1, \A r \in Record : count'[r] <= 1, \A t \in Table : meta'[t] <= 1,
           step'[n] = "insert" => \A t \in seen'[n] : meta'[t] = 0,
           step'[n] = "write" /\ RecordAt(n)' \notin seen'[n] => count'[RecordAt(n)'] = 0
    PROVE  AloneRows'
<1>1. \A m \in Node \ {n} : step'[m] \notin {"insert", "write"}
  BY WasByItself DEF Initialising, Steps
<1> QED BY <1>1 DEF AloneRows

LEMMA FksByItself ==
    ASSUME BootInv, NEW n \in Node, Advances(n), ~overlap', step[n] \in Initialising, FksFollow(n)'
    PROVE  \A m \in Node : FksFollow(m)'
<1>1. \A m \in Node \ {n} : step'[m] \notin Initialising
  BY WasByItself
<1>2. \A m \in Node \ {n} : FksFollow(m)'
  BY <1>1 DEF FksFollow, Initialising, Steps
<1> QED BY <1>2

LEMMA NoFksOwed ==
    ASSUME NEW n \in Node,
           step'[n] \notin {"fk", "junction", "junctions", "compare", "migrate", "sync"}
    PROVE  FksFollow(n)'
  BY DEF FksFollow

\* A step of an instance that initialises, and writes no row that matters.
LEMMA QuietByItself ==
    ASSUME BootInv, NEW n \in Node, Advances(n), ~overlap', step[n] \in Initialising \ {"nest"},
           UNCHANGED <<meta, settings, count, edited>>,
           step'[n] \notin {"critical", "insert", "write"}, FksFollow(n)'
    PROVE  ByItself'
<1>1. ByItself /\ ~Initialised'
  BY WasByItself DEF Initialised
<1>2. AlonePlaces'
  BY <1>1, PlacesByItself
<1>3. AloneRows'
  BY <1>1, RowsByItself DEF ByItself, AloneRows
<1> QED BY <1>2, <1>3, FksByItself DEF ByItself

\* A step after which an instance no longer initialises, and changes nothing.
LEMMA StoppingByItself ==
    ASSUME BootInv, NEW n \in Node, Advances(n), ~overlap', step'[n] \in {"off", "up"},
           UNCHANGED <<schema, meta, settings, count, edited>>
    PROVE  ByItself'
<1>1. ByItself /\ lost \subseteq lost' /\ \A m \in Node \ {n} : SamePlace(m)
  BY WasByItself DEF Advances, OthersStay, HistoryGoesOn, KeepsHistory
<1>2. Initialised' <=> Initialised
  BY DEF Initialised
<1>3. AlonePlaces'
  BY <1>1, <1>2 DEF ByItself, AlonePlaces, SamePlace, Initialising
<1>4. AloneRows'
  BY <1>1 DEF ByItself, AloneRows, SamePlace, RecordAt
<1>5. \A m \in Node \ {n} : FksFollow(m)'
  BY <1>1 DEF ByItself, FksFollow, SamePlace, Follows, TableAt, schema
<1>6. FksFollow(n)'
  BY NoFksOwed
<1> QED BY <1>3, <1>4, <1>5, <1>6 DEF ByItself

LEMMA Lands ==
    ASSUME BootInv, NEW n \in Node, NEW from, NEW to, NEW i, Go(n, from, to, i)
    PROVE  step[n] = from /\ step'[n] = to /\ pos'[n] = i
  BY DEF Go, BootInv, BootTypes, WalkTypes

(***************************************************************************)
(* init-db.                                                                *)
(***************************************************************************)
LEMMA StartByItself ==
    ASSUME BootInv, NEW n \in Node, Start(n), Advances(n), ~overlap'
    PROVE  ByItself'
<1>1. /\ ByItself /\ settings \in Seq(BOOLEAN)
      /\ UNCHANGED <<db, schema, rows, seen, diff, lost, gaveUp, deaths, errors, edits>>
      /\ \A m \in Node \ {n} : step[m] \notin Initialising /\ step'[m] = step[m]
  BY WasByItself DEF Start, Advances, OthersStay, SamePlace, BootInv, BootTypes, RowTypes
<1>2. Initialised' <=> Initialised
  BY <1>1 DEF Initialised, rows
<1>3. step'[n] \in {"create", "nest"} /\ (Initialised => step'[n] = "nest") /\ pos'[n] = 1
  <2>1. CASE settings = <<>> /\ Go(n, "off", "create", 1)
    BY <2>1, Lands DEF Initialised
  <2>2. ASSUME NEW i \in DOMAIN settings, settings[i], Go(n, "off", "nest", 1)
        PROVE  step'[n] = "nest" /\ pos'[n] = 1
    BY <2>2, Lands
  <2>3. ASSUME NEW i \in DOMAIN settings, ~settings[i], Go(n, "off", "create", 1)
        PROVE  ~Initialised /\ step'[n] = "create" /\ pos'[n] = 1
    <3>1. i = 1
      BY <1>1 DEF ByItself, AloneRows
    <3> QED BY <2>3, <3>1, Lands DEF Initialised
  <2> QED BY <2>1, <2>2, <2>3 DEF Start
<1>4. AlonePlaces'
  BY <1>1, <1>2, <1>3 DEF ByItself, AlonePlaces, rows
<1>5. AloneRows'
  BY <1>1, <1>3 DEF ByItself, AloneRows, rows, Initialising, Steps
<1>6. \A m \in Node : FksFollow(m)'
  BY <1>1, <1>3 DEF FksFollow, Initialising, Steps
<1> QED BY <1>4, <1>5, <1>6 DEF ByItself

LEMMA InitDbTablesByItself ==
    ASSUME BootInv, NEW n \in Node, LookForTable(n) \/ MakeTable(n) \/ MakeKeys(n), Advances(n), ~overlap'
    PROVE  ByItself'
<1>1. step[n] \in {"create", "make", "key"} /\ UNCHANGED rows
  BY DEF LookForTable, MakeTable, MakeKeys, Onward, Go
<1>2. \/ step'[n] \in {"off", "make", "key", "create", "nest"}
      \/ step'[n] = "fk" /\ pos'[n] = 1
  <2>1. CASE LookForTable(n)
    BY <2>1, Lands DEF LookForTable, Onward, AfterTables
  <2>2. CASE MakeTable(n)
    BY <2>2, Lands, Leaving DEF MakeTable, Exits, BootInv
  <2>3. CASE MakeKeys(n)
    BY <2>3, Lands DEF MakeKeys, Onward, AfterTables
  <2> QED BY <2>1, <2>2, <2>3
<1>3. FksFollow(n)'
  BY <1>2 DEF FksFollow
<1> QED BY <1>1, <1>2, <1>3, QuietByItself DEF rows, Initialising, Steps

LEMMA AddForeignKeysByItself ==
    ASSUME BootInv, NEW n \in Node, AddForeignKeys(n) \/ ForeignKeyFails(n), Advances(n), ~overlap'
    PROVE  ByItself'
<1>1. /\ BootTypes /\ SchemaTypes /\ FksFollow(n) /\ step[n] = "fk" /\ UNCHANGED <<cols, rows>>
      /\ Onward(n, "fk", TableSeq, "fk", "junction") /\ lost \subseteq lost'
  BY WasByItself DEF BootInv, BootTypes, ByItself, AddForeignKeys, ForeignKeyFails, Onward, Go,
     history
<1>2. PICK t \in Table : t = TableAt(n) /\ t = TableSeq[pos[n]] /\ pos[n] \in 1 .. Len(TableSeq)
  BY <1>1, TableAtIs DEF AtTable
<1>3. \E D \in SUBSET Bindable(t) : /\ fks' = [fks EXCEPT ![t] = fks[t] \cup D]
                                    /\ t \in lost' \/ D = Bindable(t)
  <2>1. CASE AddForeignKeys(n)
    <3>1. PICK D \in SUBSET Bindable(t) : D = Bindable(t)
      OBVIOUS
    <3> QED BY <1>2, <2>1, <3>1 DEF AddForeignKeys
  <2>2. CASE ForeignKeyFails(n)
    <3>1. PICK u : fks' = [fks EXCEPT ![t] = fks[t] \cup (Bindable(t) \ {u})]
      BY <1>2, <2>2 DEF ForeignKeyFails
    <3>2. PICK D \in SUBSET Bindable(t) : D = Bindable(t) \ {u}
      OBVIOUS
    <3>3. t \in lost'
      BY <1>2, <2>2 DEF ForeignKeyFails
    <3> QED BY <3>1, <3>2, <3>3
  <2> QED BY <2>1, <2>2
<1>4. Follows(t, {})' /\ \A s \in Table : Follows(s, {}) => Follows(s, {})'
  BY <1>1, <1>3 DEF SchemaTypes, Follows, Bindable
<1>5. \A i \in 1 .. pos[n] : TableSeq[i] \in Table /\ Follows(TableSeq[i], {})'
  <2>1. TAKE i \in 1 .. pos[n]
  <2>2. CASE i = pos[n]
    BY <1>2, <1>4, <2>2
  <2>3. CASE i # pos[n]
    <3>1. i \in 1 .. pos[n] - 1 /\ TableSeq[i] \in Table
      BY <1>2, <2>3, Lists
    <3> QED BY <1>1, <1>4, <3>1 DEF FksFollow
  <2> QED BY <2>2, <2>3
<1>6. \/ Go(n, "fk", "fk", pos[n] + 1)
      \/ pos[n] = Len(TableSeq) /\ Go(n, "fk", "junction", 1)
  BY <1>1, OnwardTables DEF AtTable
<1>7. \/ step'[n] = "fk" /\ pos'[n] = pos[n] + 1
      \/ pos[n] = Len(TableSeq) /\ step'[n] = "junction"
  BY <1>6, Lands
<1>8. FksFollow(n)'
  <2>1. CASE step'[n] = "fk" /\ pos'[n] = pos[n] + 1
    BY <1>2, <1>5, <2>1 DEF FksFollow
  <2>2. CASE pos[n] = Len(TableSeq) /\ step'[n] = "junction"
    <3>1. \A s \in Table : Follows(s, {})'
      BY <1>5, <2>2, Lists
    <3> QED BY <2>2, <3>1 DEF FksFollow
  <2> QED BY <1>7, <2>1, <2>2
<1> QED BY <1>1, <1>7, <1>8, QuietByItself DEF rows, Initialising, Steps

LEMMA InitDbJunctionsByItself ==
    ASSUME BootInv, NEW n \in Node, LookForJunctions(n) \/ MakeJunction(n), Advances(n), ~overlap'
    PROVE  ByItself'
<1>1. /\ FksFollow(n) /\ step[n] \in {"junction", "junctions"} /\ UNCHANGED <<cols, fks, rows, lost>>
  BY WasByItself DEF ByItself, LookForJunctions, MakeJunction, Exits, Go, schema, history
<1>2. step'[n] \in {"junctions", "compare", "off"}
  <2>1. CASE LookForJunctions(n)
    BY <2>1, Lands DEF LookForJunctions
  <2>2. CASE MakeJunction(n)
    <3>1. \/ Go(n, "junctions", "compare", 1) \/ Go(n, "junctions", "junctions", 1)
          \/ Leaves(n)
      BY <2>2 DEF MakeJunction, Exits
    <3> QED BY <3>1, Lands, Leaving DEF BootInv
  <2> QED BY <2>1, <2>2
<1>3. FksFollow(n)'
  BY <1>1, <1>2 DEF FksFollow, Follows
<1> QED BY <1>1, <1>2, <1>3, QuietByItself DEF rows, Initialising, Steps

LEMMA CompareByItself ==
    ASSUME BootInv, NEW n \in Node, Compare(n), Advances(n), ~overlap'
    PROVE  ByItself'
<1>1. /\ FksFollow(n) /\ step[n] = "compare" /\ UNCHANGED <<cols, fks, rows, lost>>
  BY WasByItself DEF ByItself, Compare, Go, schema, history
<1>2. step'[n] = "migrate"
  BY Lands DEF Compare
<1>3. \A t \in Table : \A b : Follows(t, {}) => Follows(t, b)'
  BY <1>1 DEF Follows
<1>4. FksFollow(n)'
  BY <1>1, <1>2, <1>3 DEF FksFollow
<1> QED BY <1>1, <1>2, <1>4, QuietByItself DEF rows, Initialising, Steps

\* Foreign keys follow columns when a part of a difference has been applied.
LEMMA AltersFollows ==
    ASSUME BootInv, NEW n \in Node, step[n] = "migrate", FksFollow(n), Alters(n, TableAt(n), diff[n]),
           UNCHANGED <<step, pos, lost>>
    PROVE  FksFollow(n)'
<1>1. BootTypes /\ Migrated(n) /\ SchemaTypes
  BY DEF BootInv, BootTypes
<1>2. PICK t \in Table : t = TableAt(n)
  BY <1>1, TableAtIs DEF AtTable
<1>3. PICK d \in Diff : d = diff[n]
  BY <1>1 DEF BootTypes, WalkTypes
<1>4. Differs(t, d) /\ \A s \in Table : Follows(s, IF s = t THEN d.bind ELSE {})
  BY <1>1, <1>2, <1>3 DEF Migrated, FksFollow
<1>5. /\ SnapRef[t] \subseteq Table /\ SnapRef[t] \subseteq Col
      /\ SnapCol[t] \cap Table = {} /\ \A s \in Table : SnapRef[s] \subseteq Col
  BY <1>1, Columns
<1>6. ASSUME NEW D, NEW v, NEW f, NEW e \in Diff, Altered(n, t, D, v, f, e),
             t \in lost \/ \A u \in SnapRef[t] :
                               (IF u \in D THEN v # "none" ELSE cols[t][u] # "none") => u \in f \cup e.bind
      PROVE  FksFollow(n)'
  <2>1. /\ \A s \in Table, c \in Col : cols'[s][c] = IF s = t /\ c \in D THEN v ELSE cols[s][c]
        /\ \A s \in Table : fks'[s] = IF s = t THEN f ELSE fks[s]
        /\ diff'[n] = e
    BY <1>6 DEF Altered
  <2>2. Follows(t, e.bind)'
    BY <1>5, <1>6, <2>1 DEF Follows
  <2>3. \A s \in Table \ {t} : Follows(s, {})'
    BY <1>4, <1>5, <2>1 DEF Follows
  <2>4. step'[n] = "migrate" /\ TableAt(n)' = t
    BY <1>2 DEF TableAt
  <2>5. \A s \in Table : Follows(s, IF s = t THEN e.bind ELSE {})'
    BY <2>2, <2>3
  <2> QED BY <2>1, <2>4, <2>5 DEF FksFollow
<1>7. t \in lost \/ \A u \in SnapRef[t] : cols[t][u] # "none" => u \in fks[t] \cup d.bind
  BY <1>4 DEF Follows
<1>8. ASSUME Altered(n, t, d.add, "new", fks[t], [d EXCEPT !.add = {}])
      PROVE  FksFollow(n)'
  <2>1. PICK e \in Diff : e = [d EXCEPT !.add = {}] /\ e.bind = d.bind
    BY Emptying DEF Diff
  <2>2. PICK D, v, f : D = d.add /\ v = "new" /\ f = fks[t]
    OBVIOUS
  <2>3. Altered(n, t, D, v, f, e)
    BY <1>8, <2>1, <2>2
  <2>4. t \in lost \/ \A u \in SnapRef[t] : (IF u \in D THEN v # "none" ELSE cols[t][u] # "none") => u \in f \cup e.bind
    BY <1>7, <2>1, <2>2, <1>4, <1>5 DEF Differs
  <2> QED BY <1>6, <2>3, <2>4
<1>9. ASSUME Altered(n, t, d.remove, "none", fks[t], [d EXCEPT !.remove = {}])
      PROVE  FksFollow(n)'
  <2>1. PICK e \in Diff : e = [d EXCEPT !.remove = {}] /\ e.bind = d.bind
    BY Emptying DEF Diff
  <2>2. PICK D, v, f : D = d.remove /\ v = "none" /\ f = fks[t]
    OBVIOUS
  <2>3. Altered(n, t, D, v, f, e)
    BY <1>9, <2>1, <2>2
  <2>4. t \in lost \/ \A u \in SnapRef[t] : (IF u \in D THEN v # "none" ELSE cols[t][u] # "none") => u \in f \cup e.bind
    BY <1>7, <2>1, <2>2
  <2> QED BY <1>6, <2>3, <2>4
<1>10. ASSUME Altered(n, t, d.modify, "new", fks[t], [d EXCEPT !.modify = {}])
      PROVE  FksFollow(n)'
  <2>1. PICK e \in Diff : e = [d EXCEPT !.modify = {}] /\ e.bind = d.bind
    BY Emptying DEF Diff
  <2>2. PICK D, v, f : D = d.modify /\ v = "new" /\ f = fks[t]
    OBVIOUS
  <2>3. Altered(n, t, D, v, f, e)
    BY <1>10, <2>1, <2>2
  <2>4. t \in lost \/ \A u \in SnapRef[t] : (IF u \in D THEN v # "none" ELSE cols[t][u] # "none") => u \in f \cup e.bind
    BY <1>7, <2>1, <2>2, <1>4, <1>5 DEF Differs
  <2> QED BY <1>6, <2>3, <2>4
<1>11. ASSUME Altered(n, t, d.unrelate, "none", fks[t] \ d.unrelate, [d EXCEPT !.unrelate = {}])
      PROVE  FksFollow(n)'
  <2>1. PICK e \in Diff : e = [d EXCEPT !.unrelate = {}] /\ e.bind = d.bind
    BY Emptying DEF Diff
  <2>2. PICK D, v, f : D = d.unrelate /\ v = "none" /\ f = fks[t] \ d.unrelate
    OBVIOUS
  <2>3. Altered(n, t, D, v, f, e)
    BY <1>11, <2>1, <2>2
  <2>4. t \in lost \/ \A u \in SnapRef[t] : (IF u \in D THEN v # "none" ELSE cols[t][u] # "none") => u \in f \cup e.bind
    BY <1>7, <2>1, <2>2, <1>4, <1>5 DEF Differs
  <2> QED BY <1>6, <2>3, <2>4
<1>12. ASSUME Altered(n, t, {}, "new", fks[t] \cup d.bind, [d EXCEPT !.bind = {}])
      PROVE  FksFollow(n)'
  <2>1. PICK e \in Diff : e = [d EXCEPT !.bind = {}] /\ e.bind = {}
    BY Emptying DEF Diff
  <2>2. PICK D, v, f : D = {} /\ v = "new" /\ f = fks[t] \cup d.bind
    OBVIOUS
  <2>3. Altered(n, t, D, v, f, e)
    BY <1>12, <2>1, <2>2
  <2>4. t \in lost \/ \A u \in SnapRef[t] : (IF u \in D THEN v # "none" ELSE cols[t][u] # "none") => u \in f \cup e.bind
    BY <1>7, <2>1, <2>2
  <2> QED BY <1>6, <2>3, <2>4
<1>13. ASSUME Altered(n, t, d.relate, "new", fks[t], [[d EXCEPT !.relate = {}] EXCEPT !.bind = d.bind \cup d.relate])
      PROVE  FksFollow(n)'
  <2>1. PICK e \in Diff : e = [[d EXCEPT !.relate = {}] EXCEPT !.bind = d.bind \cup d.relate] /\ e.bind = d.bind \cup d.relate
    BY Emptying DEF Diff
  <2>2. PICK D, v, f : D = d.relate /\ v = "new" /\ f = fks[t]
    OBVIOUS
  <2>3. Altered(n, t, D, v, f, e)
    BY <1>13, <2>1, <2>2
  <2>4. t \in lost \/ \A u \in SnapRef[t] : (IF u \in D THEN v # "none" ELSE cols[t][u] # "none") => u \in f \cup e.bind
    BY <1>7, <2>1, <2>2
  <2> QED BY <1>6, <2>3, <2>4
<1>14. Alters(n, t, d)
  BY <1>2, <1>3
<1> QED BY <1>8, <1>9, <1>10, <1>11, <1>12, <1>13, <1>14 DEF Alters

LEMMA MigrateByItself ==
    ASSUME BootInv, NEW n \in Node, Migrate(n), Advances(n), ~overlap'
    PROVE  ByItself'
<1>1. /\ BootTypes /\ FksFollow(n) /\ step[n] = "migrate"
      /\ UNCHANGED <<db, keyed, made, junctions, rows, history>>
  BY WasByItself DEF BootInv, ByItself, Migrate
<1>2. CASE diff[n] = NoDiff /\ Onward(n, "migrate", TableSeq, "compare", "sync")
           /\ UNCHANGED <<cols, fks, seen, diff>>
  <2>1. step'[n] \in {"compare", "sync"}
    <3>1. Go(n, "migrate", "compare", pos[n] + 1) \/ Go(n, "migrate", "sync", 1)
      BY <1>2 DEF Onward
    <3> QED BY <3>1, Lands
  <2>2. \A t \in Table : Follows(t, {})'
    <3>1. \A t \in Table : Follows(t, {})
      BY <1>1, <1>2 DEF FksFollow, NoDiff
    <3> QED BY <1>1, <1>2, <3>1 DEF Follows, history
  <2>3. step'[n] = "sync" => \A t \in Table : t \in lost' \/ SnapRef[t] \subseteq fks'[t]
    <3>1. SUFFICES ASSUME step'[n] = "sync", NEW t \in Table, t \notin lost', NEW u \in SnapRef[t]
                   PROVE  u \in fks'[t]
      OBVIOUS
    <3>2. RightTable(t)'
      BY <3>1 DEF Advances, Claims, Migrated
    <3>3. cols'[t][u] # "none"
      BY <3>2, Columns DEF RightTable, Right
    <3> QED BY <2>2, <3>1, <3>3 DEF Follows
  <2>4. FksFollow(n)'
    BY <2>1, <2>2, <2>3 DEF FksFollow
  <2> QED BY <1>1, <2>1, <2>4, QuietByItself DEF rows, Initialising, Steps
<1>3. CASE Exits(n, "migrate")
  <2>1. step'[n] = "off"
    BY <1>1, <1>3, Leaving DEF Exits
  <2>2. FksFollow(n)'
    BY <2>1, NoFksOwed
  <2> QED BY <1>1, <2>1, <2>2, QuietByItself DEF rows, Initialising, Steps
<1>4. ASSUME NEW p \in NextPart(n), AlterTable(n, Parts[p]), UNCHANGED <<step, pos, seen>>
      PROVE  ByItself'
  <2>1. Alters(n, TableAt(n), diff[n])
    BY <1>1, <1>4, Altering
  <2>2. FksFollow(n)' /\ step'[n] = "migrate"
    BY <1>1, <1>4, <2>1, AltersFollows DEF history
  <2> QED BY <1>1, <2>2, QuietByItself DEF rows, Initialising, Steps
<1> QED BY <1>2, <1>3, <1>4 DEF Migrate

LEMMA SyncJunctionsByItself ==
    ASSUME BootInv, NEW n \in Node, SyncJunctions(n), Advances(n), ~overlap'
    PROVE  ByItself'
<1>1. step[n] = "sync" /\ step'[n] = "nest" /\ UNCHANGED rows
  BY Lands DEF SyncJunctions
<1> QED BY <1>1, NoFksOwed, QuietByItself DEF rows, Initialising, Steps

(***************************************************************************)
(* BootstrapService.                                                       *)
(***************************************************************************)
LEMMA ReadSettingByItself ==
    ASSUME BootInv, NEW n \in Node, ReadSetting(n), Advances(n), ~overlap'
    PROVE  ByItself'
<1>1. /\ ByItself /\ step[n] = "nest" /\ UNCHANGED <<schema, rows, seen>>
      /\ \A m \in Node \ {n} : step'[m] \notin Initialising /\ step'[m] = step[m]
  BY WasByItself DEF ReadSetting, Go, Advances, OthersStay, SamePlace, Initialising, Steps
<1>2. step'[n] = IF Initialised THEN "critical" ELSE "meta"
  BY Lands DEF ReadSetting
<1>3. Initialised' <=> Initialised
  BY <1>1 DEF Initialised, rows
<1>4. AlonePlaces'
  BY <1>1, <1>2, <1>3 DEF ByItself, AlonePlaces, Initialising, rows
<1>5. AloneRows'
  BY <1>1, <1>2 DEF ByItself, AloneRows, rows, Initialising, Steps
<1>6. \A m \in Node : FksFollow(m)'
  BY <1>1, <1>2 DEF FksFollow, Initialising, Steps
<1> QED BY <1>4, <1>5, <1>6 DEF ByItself

LEMMA LookForMetaByItself ==
    ASSUME BootInv, NEW n \in Node, LookForMeta(n), Advances(n), ~overlap'
    PROVE  ByItself'
<1>1. /\ ByItself /\ step[n] = "meta" /\ UNCHANGED rows /\ step[n] \in Initialising \ {"nest"}
  BY WasByItself DEF LookForMeta, Go, Initialising, Steps
<1>2. step'[n] = "insert"
  BY Lands DEF LookForMeta
<1>3. \A t \in seen'[n] : meta'[t] = 0
  BY <1>1 DEF LookForMeta, Learns, rows, BootInv, BootTypes, WalkTypes
<1>4. ~Initialised'
  BY <1>1, WasByItself DEF Initialised, rows
<1>5. AlonePlaces'
  BY <1>1, <1>2, <1>4, PlacesByItself DEF rows
<1>6. AloneRows'
  BY <1>1, <1>2, <1>3, RowsByItself DEF ByItself, AloneRows, rows
<1> QED BY <1>1, <1>2, <1>5, <1>6, NoFksOwed, FksByItself DEF ByItself

LEMMA InsertMetaByItself ==
    ASSUME BootInv, NEW n \in Node, InsertMeta(n), Advances(n), ~overlap'
    PROVE  ByItself'
<1>1. /\ ByItself /\ step[n] = "insert" /\ step[n] \in Initialising \ {"nest"}
      /\ UNCHANGED <<settings, count, edited>>
  BY WasByItself DEF InsertMeta, Initialising, Steps
<1>2. step'[n] \in {"off", "physical", "meta", "ids"}
  <2>1. \/ Leaves(n) \/ Go(n, "insert", "physical", 1)
        \/ Onward(n, "insert", TableSeq, "meta", "ids")
    BY DEF InsertMeta, Exits
  <2> QED BY <2>1, Lands, Leaving DEF Onward, BootInv
<1>3. \A t \in Table : meta'[t] <= 1
  <2>1. \A t \in Table : t \in seen[n] => meta[t] = 0
    BY <1>1 DEF ByItself, AloneRows
  <2>2. \/ meta' = meta
        \/ meta' = [t \in Table |-> IF t \in seen[n] THEN meta[t] + 1 ELSE meta[t]]
    BY DEF InsertMeta
  <2> QED BY <1>1, <2>1, <2>2 DEF ByItself, AloneRows
<1>4. ~Initialised'
  BY <1>1, WasByItself DEF Initialised
<1>5. AlonePlaces'
  BY <1>1, <1>2, <1>4, PlacesByItself
<1>6. AloneRows'
  BY <1>1, <1>2, <1>3, RowsByItself DEF ByItself, AloneRows
<1>7. FksFollow(n)'
  BY <1>2, NoFksOwed
<1> QED BY <1>1, <1>5, <1>6, <1>7, FksByItself DEF ByItself

LEMMA QuietModuleInitByItself ==
    ASSUME BootInv, NEW n \in Node, Advances(n), ~overlap',
           \/ LoadIds(n) \/ DescribeTable(n) \/ MetaFails(n) \/ SyncPhysical(n)
           \/ RecordFails(n) \/ TransformFails(n) \/ LinkRecord(n) \/ ReadSettingAgain(n)
    PROVE  ByItself'
<1>1. /\ step[n] \in {"meta", "insert", "ids", "describe", "physical", "find", "write", "link", "last"}
      /\ UNCHANGED <<meta, settings, count, edited>>
  BY DEF LoadIds, DescribeTable, MetaFails, SyncPhysical, RecordFails, TransformFails, LinkRecord,
     ReadSettingAgain, NextRecord, Onward, Go, Exits, rows
<1>2. step'[n] \in {"off", "meta", "ids", "describe", "find", "last", "isInit"}
  <2>1. CASE LoadIds(n) \/ DescribeTable(n)
    BY <2>1, Lands DEF LoadIds, DescribeTable, Onward
  <2>2. CASE MetaFails(n) \/ SyncPhysical(n)
    BY <2>2, Lands DEF MetaFails, SyncPhysical, Onward
  <2>3. CASE RecordFails(n)
    BY <2>3, Lands DEF RecordFails, NextRecord, Onward
  <2>4. CASE TransformFails(n)
    BY <2>4, Lands DEF TransformFails
  <2>5. CASE LinkRecord(n)
    BY <2>5, Lands DEF LinkRecord, NextRecord, Onward
  <2>6. CASE ReadSettingAgain(n)
    BY <2>6, Lands, Leaving DEF ReadSettingAgain, Exits, BootInv
  <2> QED BY <2>1, <2>2, <2>3, <2>4, <2>5, <2>6
<1>3. FksFollow(n)'
  BY <1>2, NoFksOwed
<1> QED BY <1>1, <1>2, <1>3, QuietByItself DEF Initialising, Steps

LEMMA FindRecordByItself ==
    ASSUME BootInv, NEW n \in Node, FindRecord(n), Advances(n), ~overlap'
    PROVE  ByItself'
<1>1. /\ ByItself /\ step[n] = "find" /\ UNCHANGED rows /\ step[n] \in Initialising \ {"nest"}
      /\ BootTypes /\ RowTypes
  BY WasByItself DEF FindRecord, Initialising, Steps, BootInv, BootTypes
<1>2. \/ step'[n] \in {"find", "last"}
      \/ /\ step'[n] = "write" /\ pos'[n] = pos[n]
         /\ Learns(n, IF count[RecordAt(n)] > 0 THEN {RecordAt(n)} ELSE {})
  BY Lands DEF FindRecord, NextRecord, Onward
<1>3. step'[n] = "write" /\ RecordAt(n)' \notin seen'[n] => count'[RecordAt(n)'] = 0
  <2>1. SUFFICES ASSUME step'[n] = "write", RecordAt(n)' \notin seen'[n]
                 PROVE  count'[RecordAt(n)'] = 0
    OBVIOUS
  <2>2. /\ seen'[n] = IF count[RecordAt(n)] > 0 THEN {RecordAt(n)} ELSE {}
        /\ RecordAt(n)' = RecordAt(n)
    BY <1>1, <1>2, <2>1 DEF Learns, RecordAt, BootTypes, WalkTypes
  <2>3. count[RecordAt(n)] \in Nat
    BY <1>1, RecordAtIs DEF AtRecord, RowTypes
  <2> QED BY <1>1, <2>1, <2>2, <2>3 DEF rows
<1>4. ~Initialised'
  BY <1>1, WasByItself DEF Initialised, rows
<1>5. step'[n] \in {"find", "last", "write"}
  BY <1>2
<1>6. AlonePlaces'
  BY <1>1, <1>5, <1>4, PlacesByItself DEF rows
<1>7. AloneRows'
  BY <1>1, <1>5, <1>3, RowsByItself DEF ByItself, AloneRows, rows
<1>8. FksFollow(n)'
  BY <1>5, NoFksOwed
<1> QED BY <1>1, <1>6, <1>7, <1>8, FksByItself DEF ByItself

LEMMA WriteRecordByItself ==
    ASSUME BootInv, NEW n \in Node, WriteRecord(n), Advances(n), ~overlap'
    PROVE  ByItself'
<1>1. /\ ByItself /\ step[n] = "write" /\ step[n] \in Initialising \ {"nest"}
      /\ BootTypes /\ RowTypes /\ ~Initialised /\ edited = {}
      /\ settings \in Seq(BOOLEAN) /\ Len(settings) <= 1
  BY WasByItself DEF WriteRecord, Initialising, Steps, BootInv, BootTypes, RowTypes, ByItself, AloneRows
<1>2. PICK r \in Record : r = RecordAt(n)
  BY <1>1, RecordAtIs DEF AtRecord
<1>3. step'[n] \in {"link", "find", "last"}
  <2>1. Upserted(n, r) \/ NextRecord(n, "write")
    BY <1>2 DEF WriteRecord, UpdateRecord, InsertRecord
  <2> QED BY <2>1, Lands DEF Upserted, NextRecord, Onward
<1>4. UNCHANGED meta /\ edited' \subseteq edited
  BY DEF WriteRecord, UpdateRecord, InsertRecord
<1>5. (\A s \in Record : count'[s] <= 1) /\ Len(settings') <= 1 /\ ~Initialised'
  <2>1. CASE UpdateRecord(n)
    <3>1. count' = count /\ (settings' = settings \/ settings' = [settings EXCEPT ![1] = FALSE])
      BY <1>2, <2>1 DEF UpdateRecord
    <3>2. Len(settings') = Len(settings) /\ ~Initialised'
      <4>1. CASE settings' = settings
        BY <1>1, <4>1 DEF Initialised
      <4>2. CASE settings' = [settings EXCEPT ![1] = FALSE]
        <5>1. /\ settings' \in Seq(BOOLEAN) /\ Len(settings') = Len(settings)
              /\ \A i \in DOMAIN settings' : settings'[i] => i \in DOMAIN settings /\ settings[i]
          BY <1>1, <4>2, SettingOff
        <5>2. settings' # <<>> => 1 \in DOMAIN settings' /\ settings # <<>>
          BY <1>1, <5>1
        <5> QED BY <1>1, <5>1, <5>2 DEF Initialised
      <4> QED BY <3>1, <4>1, <4>2
    <3> QED BY <1>1, <3>1, <3>2 DEF ByItself, AloneRows
  <2>2. CASE InsertRecord(n)
    <3>1. count[r] = 0
      BY <1>1, <1>2, <2>2 DEF InsertRecord, ByItself, AloneRows
    <3>2. /\ count' = [count EXCEPT ![r] = @ + 1]
          /\ settings' = IF Of(r, "setting") THEN Append(settings, FALSE) ELSE settings
      <4>1. ~(Guarded(r) /\ count[r] > 0)
        BY <3>1
      <4> QED BY <1>2, <2>2, <4>1, Zenon DEF InsertRecord
    <3>3. \A s \in Record : count'[s] <= 1
      BY <1>1, <3>1, <3>2 DEF ByItself, AloneRows, RowTypes
    <3>4. Len(settings') <= 1 /\ ~Initialised'
      <4>1. CASE Of(r, "setting")
        <5>1. Len(settings) = 0
          BY <1>1, <3>1, <4>1 DEF RowTypes, Of
        <5>2. settings' = Append(settings, FALSE)
          BY <3>2, <4>1
        <5>3. Len(settings') = 1 /\ settings'[1] = FALSE
          BY <1>1, <5>1, <5>2
        <5> QED BY <5>3 DEF Initialised
      <4>2. CASE ~Of(r, "setting")
        BY <1>1, <3>2, <4>2 DEF Initialised
      <4> QED BY <4>1, <4>2
    <3> QED BY <3>3, <3>4
  <2> QED BY <2>1, <2>2 DEF WriteRecord
<1>6. AlonePlaces'
  BY <1>1, <1>3, <1>4, <1>5, PlacesByItself
<1>7. AloneRows'
  BY <1>1, <1>3, <1>4, <1>5, RowsByItself DEF ByItself, AloneRows
<1>8. FksFollow(n)'
  BY <1>3, NoFksOwed
<1> QED BY <1>1, <1>6, <1>7, <1>8, FksByItself DEF ByItself

LEMMA SetIsInitByItself ==
    ASSUME BootInv, NEW n \in Node, SetIsInit(n), Advances(n), ~overlap'
    PROVE  ByItself'
<1>1. /\ ByItself /\ step[n] = "isInit" /\ step[n] \in Initialising \ {"nest"}
      /\ settings \in Seq(BOOLEAN) /\ settings' = [settings EXCEPT ![1] = TRUE]
      /\ UNCHANGED <<meta, count, edited>>
  BY WasByItself DEF SetIsInit, Go, Initialising, Steps, BootInv, BootTypes, RowTypes
<1>2. step'[n] = "up"
  BY Lands DEF SetIsInit
<1>3. AlonePlaces'
  BY <1>1, <1>2, PlacesByItself DEF Initialising
<1>4. Len(settings') = Len(settings)
  <2>1. settings \in [1 .. Len(settings) -> BOOLEAN] /\ Len(settings) \in Nat
    BY <1>1
  <2>2. settings' \in [1 .. Len(settings) -> BOOLEAN]
    BY <1>1, <2>1
  <2> QED BY <2>1, <2>2
<1>5. AloneRows'
  BY <1>1, <1>2, <1>4, RowsByItself DEF ByItself, AloneRows
<1>6. FksFollow(n)'
  BY <1>2, NoFksOwed
<1> QED BY <1>1, <1>3, <1>5, <1>6, FksByItself DEF ByItself

LEMMA EnsureCriticalByItself ==
    ASSUME BootInv, NEW n \in Node, EnsureCritical(n), Advances(n), ~overlap'
    PROVE  ByItself'
<1>1. /\ ByItself /\ \A m \in Node \ {n} : SamePlace(m)
      /\ RowTypes /\ UNCHANGED <<db, schema, meta, settings, edited>>
  BY WasByItself DEF EnsureCritical, Advances, OthersStay, BootInv, BootTypes
<1>2. step[n] = "critical" /\ step'[n] = "up"
  BY Lands DEF EnsureCritical
<1>3. Initialised /\ Initialised'
  BY <1>1, <1>2 DEF ByItself, AlonePlaces, Initialised
<1>4. \A m \in Node : step[m] \in Initialising => step[m] = "nest"
  BY <1>1, <1>3 DEF ByItself, AlonePlaces
<1>5. AlonePlaces'
  BY <1>1, <1>2, <1>3, <1>4 DEF ByItself, AlonePlaces, SamePlace, Initialising
<1>6. \A r \in Record : count'[r] <= 1
  <2>1. \/ count' = [count EXCEPT ![Critical] = IF @ = 0 THEN 1 ELSE @]
        \/ count' = count
    BY DEF EnsureCritical
  <2> QED BY <1>1, <2>1 DEF ByItself, AloneRows, RowTypes
<1>7. \A m \in Node : step'[m] \notin {"insert", "write"}
  BY <1>1, <1>2, <1>4 DEF SamePlace, Initialising, Steps
<1>8. AloneRows'
  BY <1>1, <1>6, <1>7 DEF ByItself, AloneRows
<1>9. \A m \in Node : FksFollow(m)'
  BY <1>1, <1>2, <1>4 DEF FksFollow, SamePlace, Initialising, Steps
<1> QED BY <1>5, <1>8, <1>9 DEF ByItself

LEMMA StopsByItself ==
    ASSUME BootInv, NEW n \in Node, NoConnection(n) \/ Die(n), Advances(n), ~overlap'
    PROVE  ByItself'
<1>1. UNCHANGED <<schema, rows>> /\ step'[n] \in {"off", "up"}
  BY Lands, Leaving DEF NoConnection, Die, BootInv
<1> QED BY <1>1, StoppingByItself DEF rows

LEMMA EditByItself ==
    ASSUME BootInv, NEW r \in Record, Edit(r), ~overlap'
    PROVE  ByItself'
<1>1. /\ ByItself /\ Initialised
      /\ UNCHANGED <<db, schema, meta, described, settings, count, linked, bare, step, pos,
                     seen, diff, lost, gaveUp, overlap>>
  BY DEF Edit, BootInv, Alone, ByItself
<1>2. AlonePlaces'
  BY <1>1 DEF ByItself, AlonePlaces, Initialised
<1>3. AloneRows'
  BY <1>1 DEF ByItself, AloneRows, RecordAt
<1>4. \A m \in Node : FksFollow(m)'
  BY <1>1 DEF ByItself, FksFollow, Follows, TableAt, schema
<1> QED BY <1>2, <1>3, <1>4 DEF ByItself

-----------------------------------------------------------------------------
(***************************************************************************)
(* Every step.                                                             *)
(***************************************************************************)
\* The steps of an instance that are not those of a start which goes well.
Mishap(n) == \/ NoConnection(n) \/ ForeignKeyFails(n) \/ MetaFails(n)
             \/ RecordFails(n) \/ TransformFails(n) \/ Die(n)

LEMMA NodeAdvances ==
    ASSUME BootInv, NEW n \in Node,
           InitDb(n) \/ ModuleInit(n) \/ Mishap(n)
    PROVE  Advances(n)
<1>1. InitDb(n) => Advances(n)
  BY StartAdvances, LookForTableAdvances, MakeTableAdvances, MakeKeysAdvances, AddForeignKeysAdvances,
     LookForJunctionsAdvances, MakeJunctionAdvances, CompareAdvances, MigrateAdvances,
     SyncJunctionsAdvances DEF InitDb
<1>2. ModuleInit(n) => Advances(n)
  BY ReadSettingAdvances, LookForMetaAdvances, InsertMetaAdvances, LoadIdsAdvances, DescribeTableAdvances,
     SyncPhysicalAdvances, FindRecordAdvances, UpdateRecordAdvances, InsertRecordAdvances,
     LinkRecordAdvances, ReadSettingAgainAdvances, SetIsInitAdvances, EnsureCriticalAdvances
     DEF ModuleInit, WriteRecord
<1>3. Mishap(n) => Advances(n)
  BY NoConnectionAdvances, AddForeignKeysAdvances, MetaFailsAdvances, RecordFailsAdvances,
     TransformFailsAdvances, DieAdvances DEF Mishap
<1> QED BY <1>1, <1>2, <1>3

LEMMA NodeByItself ==
    ASSUME BootInv, NEW n \in Node, ~overlap',
           InitDb(n) \/ ModuleInit(n) \/ Mishap(n)
    PROVE  ByItself'
<1>1. Advances(n)
  BY NodeAdvances
<1>2. InitDb(n) => ByItself'
  BY <1>1, StartByItself, InitDbTablesByItself, AddForeignKeysByItself, InitDbJunctionsByItself,
     CompareByItself, MigrateByItself, SyncJunctionsByItself DEF InitDb
<1>3. ModuleInit(n) => ByItself'
  BY <1>1, ReadSettingByItself, LookForMetaByItself, InsertMetaByItself, QuietModuleInitByItself,
     FindRecordByItself, WriteRecordByItself, SetIsInitByItself, EnsureCriticalByItself DEF ModuleInit
<1>4. Mishap(n) => ByItself'
  BY <1>1, AddForeignKeysByItself, QuietModuleInitByItself, StopsByItself DEF Mishap
<1> QED BY <1>2, <1>3, <1>4

LEMMA InvFrom ==
    ASSUME Shared', ~overlap' => ByItself'
    PROVE  BootInv'
  BY DEF Shared, ByItself, BootInv, Alone

LEMMA BootInvHolds == BootInit => BootInv
<1> SUFFICES ASSUME BootInit PROVE BootInv
  OBVIOUS
<1> USE DEF BootInit
<1>1. PICK older \in BOOLEAN :
         /\ made = IF older THEN Table ELSE {}
         /\ keyed = made \cap Unique
         /\ fks = [t \in Table |-> IF older THEN OldRef[t] ELSE {}]
         /\ cols = [t \in Table |-> [c \in Col |->
                       IF older /\ c \in OldCol \cup OldRef[t]
                       THEN IF c \in OldCol THEN "old" ELSE "new" ELSE "none"]]
  OBVIOUS
<1>2. \A t \in Table : OldRef[t] \subseteq Table /\ OldRef[t] \subseteq Col /\ OldCol \cap Table = {}
  BY Columns
<1>3. \A t \in Table, c \in Col :
         cols[t][c] = IF older /\ c \in OldCol \cup OldRef[t]
                      THEN IF c \in OldCol THEN "old" ELSE "new" ELSE "none"
  BY <1>1
<1>4. SchemaTypes
  <2>1. fks \in [Table -> SUBSET Table] /\ cols \in [Table -> [Col -> {"none", "old", "new"}]]
    BY <1>1, <1>2
  <2>2. keyed \subseteq Unique /\ made \subseteq Table
    BY <1>1
  <2> QED BY <2>1, <2>2 DEF SchemaTypes
<1>5. RowTypes /\ HistoryTypes
  <2>1. HistoryTypes
    <3>1. 0 \in 0 .. MaxDeaths /\ 0 \in 0 .. MaxErrors /\ 0 \in 0 .. MaxEdits
      BY Bounds
    <3>2. lost = {} /\ overlap = FALSE /\ gaveUp = FALSE /\ deaths = 0 /\ errors = 0 /\ edits = 0
      OBVIOUS
    <3> QED BY <3>1, <3>2 DEF HistoryTypes
  <2>2. settings \in Seq(BOOLEAN) /\ Len(settings) = 0
    OBVIOUS
  <2>3. \A r \in Record : count[r] = 0
    OBVIOUS
  <2>4. meta \in [Table -> Nat] /\ count \in [Record -> Nat]
    OBVIOUS
  <2> QED BY <2>1, <2>2, <2>3, <2>4 DEF RowTypes
<1>6. WalkTypes
  BY DEF WalkTypes, Placed, Steps, Diff, NoDiff, AtTable, AtRecord
<1>7. KeysHaveColumns
  <2>1. \A t \in Table : fks[t] = IF older THEN OldRef[t] ELSE {}
    BY <1>1
  <2>2. \A t \in Table : \A u \in fks[t] : u \in Col /\ cols[t][u] # "none"
    BY <1>2, <1>3, <2>1
  <2>3. \A t \in Table, u \in Table \cap Col : cols[t][u] # "old"
    BY <1>2, <1>3
  <2> QED BY <1>1, <2>1, <2>2, <2>3 DEF KeysHaveColumns
<1>8. BareHasReason /\ DoneIsComplete
  BY DEF BareHasReason, DoneIsComplete
<1>9. Alone
  BY DEF Alone, AlonePlaces, AloneRows, FksFollow, Initialising, Initialised
<1>10. \A n \in Node : Migrated(n) /\ Described(n) /\ Filled(n)
  BY DEF Migrated, Described, Filled, Served, AtRecord
<1> QED BY <1>4, <1>5, <1>6, <1>7, <1>8, <1>9, <1>10 DEF BootInv, BootTypes

LEMMA BootInvKept == BootInv /\ [BootNext]_bootVars => BootInv'
<1> SUFFICES ASSUME BootInv, [BootNext]_bootVars PROVE BootInv'
  OBVIOUS
<1>1. ASSUME NEW n \in Node,
             InitDb(n) \/ ModuleInit(n) \/ Mishap(n)
      PROVE  BootInv'
  <2>1. Shared'
    BY <1>1, NodeAdvances, AdvancesShared
  <2>2. ~overlap' => ByItself'
    BY <1>1, NodeByItself
  <2> QED BY <2>1, <2>2, InvFrom
<1>2. ASSUME NEW r \in Record, Edit(r) PROVE BootInv'
  BY <1>2, EditShared, EditByItself, InvFrom
<1>3. CASE UNCHANGED bootVars
  <2>1. SchemaGoesOn /\ RowsGoOn /\ HistoryGoesOn
    BY <1>3, SchemaStays, RowsUnchanged, HistoryUnchanged DEF bootVars, history
  <2>2. UNCHANGED <<db, schema, rows, history, step, pos, seen, diff>>
    BY <1>3 DEF bootVars
  <2>3. WalkTypes' /\ \A m \in Node : SamePlace(m)
    BY <2>2 DEF SamePlace, BootInv, BootTypes, WalkTypes, Placed
  <2>4. Shared'
    BY <2>1, <2>3, SharedGoesOn
  <2>5. ~overlap' => ByItself'
    <3>1. SUFFICES ASSUME ~overlap' PROVE ByItself'
      OBVIOUS
    <3>2. ByItself
      BY <2>2, <3>1 DEF BootInv, Alone, ByItself, history
    <3>3. AlonePlaces'
      BY <2>2, <3>2 DEF ByItself, AlonePlaces, Initialised, rows
    <3>4. AloneRows'
      BY <2>2, <3>2 DEF ByItself, AloneRows, RecordAt, rows
    <3>5. \A m \in Node : FksFollow(m)'
      BY <2>2, <3>2 DEF ByItself, FksFollow, Follows, TableAt, schema, history
    <3> QED BY <3>3, <3>4, <3>5 DEF ByItself
  <2> QED BY <2>4, <2>5, InvFrom
<1> QED BY <1>1, <1>2, <1>3 DEF BootNext, Mishap

-----------------------------------------------------------------------------
(***************************************************************************)
(* Theorems.                                                               *)
(***************************************************************************)

\* The invariant of the first start, from which the rest follows: what each
\* instance has done by each of its steps, and what is so while one initialises.
THEOREM BootInvCorrect == BootSpec => []BootInv
  BY BootInvHolds, BootInvKept, PTL DEF BootSpec

LEMMA InvTyped == BootInv => BootTypeOK
<1> SUFFICES ASSUME BootInv PROVE BootTypeOK
  OBVIOUS
<1>1. BootTypes
  BY DEF BootInv
<1>2. deaths <= MaxDeaths /\ errors <= MaxErrors /\ edits <= MaxEdits
  BY <1>1, Bounds DEF BootTypes, HistoryTypes
<1> QED BY <1>1, <1>2 DEF BootTypes, SchemaTypes, RowTypes, HistoryTypes, WalkTypes, Placed, BootTypeOK

LEMMA InvComplete == BootInv => InitialisedIsComplete
<1> SUFFICES ASSUME BootInv, Initialised PROVE InitialisedIsComplete
  BY DEF InitialisedIsComplete
<1>1. BootTypes /\ SchemaTypes /\ RowTypes
  BY DEF BootInv, BootTypes
<1>2. Complete /\ BareHasReason /\ Alone
  <2>1. 1 \in DOMAIN settings /\ settings[1]
    BY <1>1 DEF Initialised, RowTypes
  <2> QED BY <2>1 DEF BootInv, DoneIsComplete
<1>3. /\ overlap \/ \A r \in Record : count[r] <= 1
      /\ overlap \/ \A t \in Table : meta[t] <= 1
  BY <1>2 DEF Alone, AloneRows
<1>4. /\ made = Table
      /\ \A t \in Table :
            /\ meta[t] > 0 \/ (db = "mongo" /\ t \in lost)
            /\ t \in described \/ (db = "mongo" /\ ({t} \cup SnapRef[t]) \cap lost # {})
      /\ \A r \in Record \ lost : count[r] > 0
      /\ \A r \in bare : RefOf[r] \in lost
  BY <1>2 DEF Complete, SchemaDone, MetaDone, HasRow, HasRows, RecordsDone, Entered, BareHasReason
<1>5. db = "sql" => /\ junctions = Junction
                    /\ \A t \in Table : /\ fks[t] \subseteq SnapRef[t]
                                        /\ overlap \/ t \in lost \/ SnapRef[t] \subseteq fks[t]
                    /\ \A t \in Table, c \in Col :
                          cols[t][c] = IF c \in SnapCol[t] \cup SnapRef[t] THEN "new" ELSE "none"
  BY <1>2 DEF Complete, SchemaDone, RightTable, Right
<1>6. \A r \in Record \ (lost \cup linked) : AfterUpsert(r) = "link" =>
         \/ overlap
         \/ Of(r, "route") /\ db = "mongo"
         \/ \E m \in lost : Of(m, "method")
  BY <1>2 DEF Complete, RecordsDone, Bound
<1> QED BY <1>3, <1>4, <1>5, <1>6 DEF InitialisedIsComplete

LEMMA NodeSparesEdits ==
    ASSUME BootInv, NEW n \in Node, ~overlap',
           InitDb(n) \/ ModuleInit(n) \/ Mishap(n)
    PROVE  edited \subseteq edited' /\ (Initialised => Initialised')
<1>1. Advances(n)
  BY NodeAdvances
<1>2. CASE WriteRecord(n) \/ SetIsInit(n)
  <2>1. step[n] \in Initialising \ {"nest"}
    BY <1>2, Lands DEF WriteRecord, SetIsInit, Initialising, Steps
  <2> QED BY <1>1, <2>1, WasByItself
<1>3. CASE InitDb(n) \/ Mishap(n)
  <2>1. UNCHANGED <<edited, settings>>
    BY <1>3 DEF InitDb, Mishap, NoConnection, ForeignKeyFails, MetaFails, RecordFails, TransformFails,
       Die, Start, LookForTable, MakeTable, MakeKeys,
       AddForeignKeys, LookForJunctions, MakeJunction, Compare, Migrate, SyncJunctions, rows
  <2> QED BY <2>1 DEF Initialised
<1>4. CASE ModuleInit(n) /\ ~(WriteRecord(n) \/ SetIsInit(n))
  <2>1. UNCHANGED <<edited, settings>>
    BY <1>4 DEF ModuleInit, ReadSetting, LookForMeta, InsertMeta, LoadIds, DescribeTable, SyncPhysical,
       FindRecord, LinkRecord, ReadSettingAgain, EnsureCritical, rows
  <2> QED BY <2>1 DEF Initialised
<1> QED BY <1>2, <1>3, <1>4

LEMMA EditsSpared ==
    ASSUME BootInv, [BootNext]_bootVars
    PROVE  [\/ overlap'
            \/ edited \subseteq edited' /\ (Initialised => Initialised')]_bootVars
<1>1. ASSUME NEW r \in Record, Edit(r)
      PROVE  edited \subseteq edited' /\ (Initialised => Initialised')
  BY <1>1 DEF Edit, Initialised
<1> QED BY <1>1, NodeSparesEdits DEF BootNext, Mishap

\* Type correctness of the first start: a difference is kept only while it is being
\* applied, whoever dies in between, and each row of the setting was counted.
THEOREM BootTypeCorrect == BootSpec => []BootTypeOK
<1>1. BootInv => BootTypeOK
  BY InvTyped
<1> QED BY <1>1, BootInvCorrect, PTL

\* A database that says isInit has everything that the snapshot and the default data
\* name, but for what a start gave up after an error that it only logged (records,
\* foreign keys, on Mongo rows of the metadata), wherever the starts before it died.
\* Of two instances that overlapped, the slower one may owe a foreign key or a junction
\* row, and records may be there twice.
THEOREM InitialisedMeansComplete == BootSpec => []InitialisedIsComplete
<1>1. BootInv => InitialisedIsComplete
  BY InvComplete
<1> QED BY <1>1, BootInvCorrect, PTL

\* No start sets back what a user has changed, nor isInit, while one instance at a
\* time initialises.
THEOREM EditsStay == BootSpec => EditsSurviveStarts
<1>1. BootInv /\ [BootNext]_bootVars =>
         [\/ overlap'
          \/ edited \subseteq edited' /\ (Initialised => Initialised')]_bootVars
  BY EditsSpared
<1> QED BY <1>1, BootInvCorrect, PTL DEF BootSpec, EditsSurviveStarts
=============================================================================
