---------------------------- MODULE TablesProofs ----------------------------
(***************************************************************************)
(* Proofs about the SQL table handler.                                     *)
(*                                                                         *)
(* Columns (TableHandler): for any number of instances, calls and columns, *)
(* with every fault, a described table has a physical one as long as       *)
(* changes of one instance have not overlapped and no physical table has   *)
(* been replaced, and a change that is alone and sound leaves the metadata *)
(* and the physical table in step.                                         *)
(*                                                                         *)
(* Relations (RelationMigration): for any number of tables, properties and *)
(* relations, the foreign key columns, their constraints and the junction  *)
(* tables are those that the rows describe, whatever creations, updates    *)
(* and deletions there were, as long as the code follows them.             *)
(***************************************************************************)
EXTENDS MCTables, FiniteSetTheorems, TLAPS

-----------------------------------------------------------------------------
\* Tables and statements.

(***************************************************************************)
(* A table of metadata is a finite set of columns with names and ids; it   *)
(* is none of the values that stand for no table, and neither is a set of  *)
(* physical columns.                                                       *)
(***************************************************************************)
LEMMA TablesAre ==
    /\ {} \in Table
    /\ \A T \in Table : /\ Names(T) \subseteq Name /\ Ids(T) \subseteq 1 .. MaxId
                        /\ T # NoTable /\ T # Unloaded
    /\ \A N \in SUBSET Name : N # NoTable
    /\ NoTable # Unloaded
  <1>1. {} \in Table
    BY DEF Table
  <1>2. ASSUME NEW T \in Table PROVE Names(T) \subseteq Name /\ Ids(T) \subseteq 1 .. MaxId
    BY DEF Table, Column, Names, Ids
  <1> QED
    BY <1>1, <1>2, NothingAssumption

(***************************************************************************)
(* The rows of a created table get the next ids, one after the other.      *)
(***************************************************************************)
LEMMA InsertedIds ==
    ASSUME NEW T \in Table, T # {}, NEW n \in 1 .. MaxId + 1,
           Ids(T) = n .. n + Cardinality(T) - 1
    PROVE  n + Cardinality(T) \in 1 .. MaxId + 1
  <1> DEFINE f == [c \in T |-> c.id]
  <1>0. MaxId \in Nat
    BY TableAssumption
  <1>1. f \in Injection(T, 1 .. MaxId)
    BY DEF Table, Column, Injection, IsInjective
  <1>2. IsFiniteSet(T)
    BY <1>0, <1>1, FS_Injection, FS_Interval
  <1>3. Cardinality(T) \in Nat
    BY <1>2, FS_CardinalityType
  <1>4. PICK c \in T : c.id \in Ids(T)
    BY DEF Ids
  <1>5. Ids(T) \subseteq 1 .. MaxId
    BY TablesAre
  <1>6. n <= n + Cardinality(T) - 1
    BY <1>3, <1>4, <1>0
  <1>7. n + Cardinality(T) - 1 \in 1 .. MaxId
    BY <1>3, <1>5, <1>6, <1>0
  <1> QED
    BY <1>7, <1>3, <1>0

(***************************************************************************)
(* What analyzeColumnChanges() finds are statements, and what is left of   *)
(* statements after some have been executed are statements.                *)
(***************************************************************************)
LEMMA StatementsAre ==
    /\ NoStatement \in Statements
    /\ \A T, U \in Table : Diff(T, U) \in Statements
    /\ \A s \in Statements : \A b1 : Minus(s, b1) \in Statements
    /\ \A s \in Statements, n \in Name : [s EXCEPT !.drop = @ \ {n}] \in Statements
    /\ \A D, A \in SUBSET Name : [NoStatement EXCEPT !.drop = D, !.add = A] \in Statements
  <1>1. ASSUME NEW T \in Table, NEW U \in Table PROVE Diff(T, U) \in Statements
    <2>1. \A c \in T \cup U : c.name \in Name
      BY DEF Table, Column
    <2> QED
      BY <2>1 DEF Diff, Statements
  <1> QED
    BY <1>1 DEF Statements, NoStatement, Minus

(***************************************************************************)
(* What is executed at once is a part of the statements.                   *)
(***************************************************************************)
LEMMA BatchesAre ==
    ASSUME NEW s \in Statements, NEW b1 \in Batches(s)
    PROVE  b1 \in Statements
  <1>1. \A R \in SUBSET (Name \X Name) : [NoStatement EXCEPT !.rename = R] \in Statements
    BY DEF Statements, NoStatement
  <1>2. \A N \in SUBSET Name : /\ [NoStatement EXCEPT !.drop = N] \in Statements
                               /\ [NoStatement EXCEPT !.add = N] \in Statements
    BY DEF Statements, NoStatement
  <1>3. /\ \A r \in s.rename : {r} \in SUBSET (Name \X Name)
        /\ \A n \in s.drop \cup s.add : {n} \in SUBSET Name
    BY DEF Statements
  <1> QED
    BY <1>1, <1>2, <1>3 DEF Batches

(***************************************************************************)
(* The names of a physical table stay names when statements are executed.  *)
(***************************************************************************)
LEMMA RenamedAre ==
    ASSUME NEW N \in SUBSET Name, NEW s \in Statements
    PROVE  (RenameAll(N, s.rename) \ s.drop) \cup s.add \in SUBSET Name
  <1>1. s.rename \subseteq Name \X Name /\ s.add \subseteq Name
    BY DEF Statements
  <1>2. \A r \in s.rename : r[2] \in Name
    BY <1>1
  <1> QED
    BY <1>1, <1>2 DEF RenameAll

-----------------------------------------------------------------------------
\* Types.

\* A call runs where the metadata has been loaded, and what it compares the
\* table with is there.
CallsKnow ==
    \A o \in Change : /\ pc[o] # "idle" => cache[At[o]] # Unloaded
                      /\ pc[o] \in {"plan", "syncDrop"} => old[o] # NoTable

\* Alter() with statements to execute: some are executed at once, or fail.
Executes(o, b1) ==
    /\ Executable(b1)
    /\ phys' = (RenameAll(phys, b1.rename) \ b1.drop) \cup b1.add
    /\ todo' = [todo EXCEPT ![o] = Minus(todo[o], b1)]
    /\ UNCHANGED <<pc, ok, sound>>
Breaks(o, b1) ==
    /\ IF Executable(b1) THEN DdlFails(o) ELSE UNCHANGED sound
    /\ Throws(o, "leave")
    /\ UNCHANGED <<phys, todo>>

(***************************************************************************)
(* With statements left, executeBatchSQL() executes those that it sends at *)
(* once, or throws.                                                        *)
(***************************************************************************)
LEMMA AlterDoes ==
    ASSUME NEW o \in Change, Alter(o), todo[o] # NoStatement
    PROVE  \E b1 \in Batches(todo[o]) : Executes(o, b1) \/ Breaks(o, b1)
  BY DEF Alter, Executes, Breaks

(***************************************************************************)
(* Every step of a call, of a reload and of an instance keeps the types.   *)
(***************************************************************************)
LEMMA TableTypesKept == TypeOK /\ CallsKnow /\ [Next]_vars => TypeOK'
  <1> SUFFICES ASSUME TypeOK, CallsKnow, [Next]_vars PROVE TypeOK'
    OBVIOUS
  <1>0. CASE UNCHANGED vars
    BY <1>0 DEF TypeOK, vars, dbVars, cacheVars, jobVars
  <1>1. ASSUME NEW o \in Change, NEW k \in {"create", "update", "delete"}, Begin(o, k)
        PROVE  TypeOK'
    <2>1. InStep \in BOOLEAN
      BY DEF InStep
    <2>2. fresh' \in [Change -> BOOLEAN]
      BY <1>1, <2>1 DEF Begin, Begins
    <2> QED
      BY <1>1, <2>2, TableAssumption DEF TypeOK, Begin, Begins, Enter, dbVars, cacheVars
  <1>2. ASSUME NEW o \in Change,
               CreateChecks(o) \/ CreateRejected(o) \/ CreateBuilds(o) \/ CreateCommits(o)
               \/ CreateCommitFails(o) \/ CreateUndoes(o)
        PROVE  TypeOK'
    <2>1. CASE CreateChecks(o)
      <3>1. CASE meta # NoTable
        BY <2>1, <3>1 DEF TypeOK, CreateChecks, Throws, cacheVars
      <3>2. CASE meta = NoTable /\ phys = NoTable
        BY <2>1, <3>2 DEF TypeOK, CreateChecks, Throws, cacheVars
      <3>3. CASE meta = NoTable /\ phys # NoTable
        <4>1. /\ trx' \in {[trx EXCEPT ![o] = "dropped"], [trx EXCEPT ![o] = "auto"]}
              /\ phys' \in {phys, NoTable} /\ ok' = ok
              /\ pc' = [pc EXCEPT ![o] = "insert"] /\ odd' = odd \cup {"orphan"}
          BY <2>1, <3>3 DEF CreateChecks
        <4>2. trx' \in [Change -> {"open", "dropped", "auto"}]
          BY <4>1 DEF TypeOK
        <4> QED
          BY <2>1, <4>1, <4>2 DEF TypeOK, CreateChecks, cacheVars
      <3> QED
        BY <3>1, <3>2, <3>3
    <2>2. CASE CreateRejected(o)
      BY <2>2 DEF TypeOK, CreateRejected, Throws, cacheVars, dbVars
    <2>3. CASE CreateBuilds(o)
      BY <2>3, TablesAre DEF TypeOK, CreateBuilds, Throws, DdlFails, cacheVars
    <2>4. CASE CreateCommits(o)
      BY <2>4 DEF TypeOK, CreateCommits, Go, cacheVars, jobVars
    <2>5. CASE CreateCommitFails(o)
      BY <2>5 DEF TypeOK, CreateCommitFails, Throws, cacheVars, dbVars
    <2>6. CASE CreateUndoes(o)
      BY <2>6 DEF TypeOK, CreateUndoes, Go, DdlFails, cacheVars
    <2> QED
      BY <1>2, <2>1, <2>2, <2>3, <2>4, <2>5, <2>6
  <1>3. ASSUME NEW o \in Change, CreateInserts(o) PROVE TypeOK'
    <2>1. CASE meta # NoTable
      BY <1>3, <2>1 DEF TypeOK, CreateInserts, Throws, cacheVars
    <2>2. CASE meta = NoTable
      <3>1. PICK T \in Table :
                /\ T # {}
                /\ Ids(T) = nextId .. nextId + Cardinality(T) - 1
                /\ rows' = [rows EXCEPT ![o] = T]
                /\ nextId' = nextId + Cardinality(T)
                /\ meta' = IF trx[o] = "auto" THEN T ELSE meta
        BY <1>3, <2>2 DEF CreateInserts
      <3>2. nextId' \in 1 .. MaxId + 1
        BY <3>1, InsertedIds DEF TypeOK
      <3> QED
        BY <1>3, <2>2, <3>1, <3>2 DEF TypeOK, CreateInserts, cacheVars
    <2> QED
      BY <2>1, <2>2
  <1>4. ASSUME NEW o \in Change, UpdateCommits(o) PROVE TypeOK'
    <2>1. PICK T \in Bodies :
             /\ meta' = T
             /\ nextId' = IF nextId \in Ids(T) THEN nextId + 1 ELSE nextId
             /\ sound' = [sound EXCEPT ![o] = IsPlain(T)]
      BY <1>4 DEF UpdateCommits
    <2>2. T \in Table
      BY DEF Bodies
    <2>3. nextId' \in 1 .. MaxId + 1
      <3>1. nextId \in Ids(T) => nextId \in 1 .. MaxId
        BY <2>2, TablesAre
      <3> QED
        BY <2>1, <3>1, TableAssumption DEF TypeOK
    <2>4. cache[At[o]] \in Table \cup {NoTable}
      BY <1>4, TableAssumption DEF TypeOK, UpdateCommits, Go, CallsKnow
    <2>5. IsPlain(T) \in BOOLEAN
      BY DEF IsPlain
    <2> QED
      BY <1>4, <2>1, <2>2, <2>3, <2>4, <2>5 DEF TypeOK, UpdateCommits, Go, cacheVars
  <1>5. ASSUME NEW o \in Change,
               UpdateRejected(o) \/ UpdatePlans(o) \/ DeleteRows(o) \/ DropTable(o)
        PROVE  TypeOK'
    <2>1. CASE UpdateRejected(o)
      BY <2>1 DEF TypeOK, UpdateRejected, Throws, cacheVars, dbVars
    <2>2. CASE UpdatePlans(o)
      <3>1. CASE meta = NoTable
        BY <2>2, <3>1 DEF TypeOK, UpdatePlans, Throws, cacheVars
      <3>2. CASE meta # NoTable /\ phys = NoTable
        BY <2>2, <3>2, TablesAre DEF TypeOK, UpdatePlans, cacheVars
      <3>3. CASE meta # NoTable /\ phys # NoTable
        <4>1. old[o] \in Table
          BY <2>2 DEF TypeOK, UpdatePlans, CallsKnow
        <4>2. todo' \in [Change -> Statements]
          <5>1. Diff(old[o], meta) \in Statements
            BY <3>3, <4>1, StatementsAre DEF TypeOK
          <5>2. todo' = [todo EXCEPT ![o] = Diff(old[o], meta)]
            BY <2>2, <3>3 DEF UpdatePlans
          <5> QED
            BY <5>1, <5>2 DEF TypeOK
        <4> QED
          BY <2>2, <3>3, <4>2 DEF TypeOK, UpdatePlans, cacheVars
      <3> QED
        BY <3>1, <3>2, <3>3
    <2>3. CASE DeleteRows(o)
      BY <2>3 DEF TypeOK, DeleteRows, Throws, cacheVars
    <2>4. CASE DropTable(o)
      BY <2>4 DEF TypeOK, DropTable, Throws, DdlFails, cacheVars
    <2> QED
      BY <1>5, <2>1, <2>2, <2>3, <2>4
  <1>6. ASSUME NEW o \in Change, Alter(o) PROVE TypeOK'
    <2>1. CASE todo[o] = NoStatement
      BY <1>6, <2>1 DEF TypeOK, Alter, cacheVars
    <2>2. CASE todo[o] # NoStatement
      <3>1. PICK b1 \in Batches(todo[o]) : Executes(o, b1) \/ Breaks(o, b1)
        BY <1>6, <2>2, AlterDoes
      <3>2. b1 \in Statements
        BY BatchesAre DEF TypeOK
      <3>3. CASE Breaks(o, b1)
        <4>1. sound' \in [Change -> BOOLEAN]
          BY <3>3 DEF TypeOK, Breaks, DdlFails
        <4> QED
          BY <1>6, <3>3, <4>1 DEF TypeOK, Alter, Breaks, Throws, cacheVars
      <3>4. CASE Executes(o, b1)
        <4>1. phys \in SUBSET Name
          BY <3>4 DEF TypeOK, Executes, Executable
        <4>2. phys' \in SUBSET Name
          BY <3>2, <3>4, <4>1, RenamedAre DEF Executes
        <4>3. todo' \in [Change -> Statements]
          BY <3>4, StatementsAre DEF TypeOK, Executes
        <4> QED
          BY <1>6, <3>4, <4>2, <4>3 DEF TypeOK, Alter, Executes, cacheVars
      <3> QED
        BY <3>1, <3>3, <3>4
    <2> QED
      BY <2>1, <2>2
  <1>7. ASSUME NEW o \in Change, SyncBegins(o) \/ SyncReads(o) \/ SyncDrops(o) \/ SyncUpdates(o)
        PROVE  TypeOK'
    <2>1. CASE SyncBegins(o)
      <3>1. InStep \in BOOLEAN
        BY DEF InStep
      <3>2. fresh' \in [Change -> BOOLEAN]
        BY <2>1, <3>1 DEF SyncBegins, Begins
      <3> QED
        BY <2>1, <3>2, TableAssumption DEF TypeOK, SyncBegins, Begins, dbVars, cacheVars
    <2>2. CASE SyncReads(o)
      <3>0. cache[At[o]] \in Table \cup {NoTable}
        BY <2>2, TableAssumption DEF TypeOK, SyncReads, CallsKnow
      <3>1. CASE meta = NoTable \/ cache[At[o]] = NoTable
        BY <2>2, <3>0, <3>1 DEF TypeOK, SyncReads, Throws, cacheVars
      <3>2. CASE meta # NoTable /\ cache[At[o]] # NoTable /\ phys = NoTable
        BY <2>2, <3>0, <3>2, TablesAre DEF TypeOK, SyncReads, cacheVars
      <3>3. CASE meta # NoTable /\ cache[At[o]] # NoTable /\ phys # NoTable
        <4>1. phys \ Names(cache[At[o]]) \in SUBSET Name
              /\ Names(cache[At[o]]) \ phys \in SUBSET Name
          BY <3>0, <3>3, TablesAre DEF TypeOK
        <4>2. todo' \in [Change -> Statements]
          <5> DEFINE s == [NoStatement EXCEPT !.drop = phys \ Names(cache[At[o]]),
                                              !.add = Names(cache[At[o]]) \ phys]
          <5>1. s \in Statements
            BY <4>1, StatementsAre
          <5>2. todo' = [todo EXCEPT ![o] = s]
            BY <2>2, <3>3 DEF SyncReads
          <5> HIDE DEF s
          <5> QED
            BY <5>1, <5>2 DEF TypeOK
        <4> QED
          BY <2>2, <3>0, <3>3, <4>2 DEF TypeOK, SyncReads, cacheVars
      <3> QED
        BY <3>1, <3>2, <3>3
    <2>3. CASE SyncDrops(o)
      <3>1. PICK n \in todo[o].drop :
                /\ \/ phys' = (IF phys = NoTable THEN phys ELSE phys \ {n}) /\ UNCHANGED sound
                   \/ DdlFails(o) /\ UNCHANGED phys
                /\ todo' = [todo EXCEPT ![o].drop = @ \ {n}]
        BY <2>3 DEF SyncDrops
      <3>2. todo[o] \in Statements /\ n \in Name
        BY DEF TypeOK, Statements
      <3>3. todo' \in [Change -> Statements]
        BY <3>1, <3>2, StatementsAre DEF TypeOK
      <3>4. phys' \in (SUBSET Name) \cup {NoTable}
        <4>1. phys' = phys \/ (phys # NoTable /\ phys' = phys \ {n})
          BY <3>1
        <4>2. phys # NoTable => phys \ {n} \in SUBSET Name
          BY DEF TypeOK
        <4> QED
          BY <4>1, <4>2 DEF TypeOK
      <3>5. sound' \in [Change -> BOOLEAN]
        BY <3>1 DEF TypeOK, DdlFails
      <3> QED
        BY <2>3, <3>3, <3>4, <3>5 DEF TypeOK, SyncDrops, cacheVars
    <2>4. CASE SyncUpdates(o)
      <3>1. old[o] \in Table
        BY <2>4 DEF TypeOK, SyncUpdates, CallsKnow
      <3>2. CASE phys = NoTable
        <4>1. phys' \in SUBSET Name /\ todo' \in [Change -> Statements]
          <5>1. Names(old[o]) \subseteq Name
            BY <3>1, TablesAre
          <5>2. phys' = Names(old[o]) /\ todo' = [todo EXCEPT ![o] = NoStatement]
            BY <2>4, <3>2 DEF SyncUpdates
          <5> QED
            BY <5>1, <5>2, StatementsAre DEF TypeOK
        <4> QED
          BY <2>4, <3>2, <4>1 DEF TypeOK, SyncUpdates, cacheVars
      <3>3. CASE phys # NoTable
        BY <2>4, <3>3 DEF TypeOK, SyncUpdates, cacheVars
      <3> QED
        BY <3>2, <3>3
    <2> QED
      BY <1>7, <2>1, <2>2, <2>3, <2>4
  <1>8. ASSUME NEW o \in Change, End(o) PROVE TypeOK'
    BY <1>8, TablesAre, StatementsAre DEF TypeOK, End, Go, Leave, Done, dbVars, cacheVars
  <1>9. ASSUME NEW o \in Change, Reload(o) \/ Publish(o) PROVE TypeOK'
    <2>1. CASE Reload(o)
      BY <2>1 DEF TypeOK, Reload, Visible, dbVars, jobVars
    <2>2. CASE Publish(o)
      BY <2>2 DEF TypeOK, Publish, Go, dbVars, jobVars
    <2> QED
      BY <1>9, <2>1, <2>2
  <1>10. ASSUME NEW i \in Inst, Boot(i) PROVE TypeOK'
    BY <1>10 DEF TypeOK, Boot, Visible, dbVars, jobVars
  <1>11. ASSUME NEW i \in Inst, Crash(i) PROVE TypeOK'
    BY <1>11, TablesAre, StatementsAre DEF TypeOK, Crash, Leave, dbVars
  <1> QED
    BY <1>0, <1>1, <1>2, <1>3, <1>4, <1>5, <1>6, <1>7, <1>8, <1>9, <1>10, <1>11 DEF Next

(***************************************************************************)
(* A call that compares the table with what it was like has read that from *)
(* a loaded cache that has the table: a cache that does not know the table *)
(* ends an update, and an instance that dies takes its calls with it.      *)
(***************************************************************************)
LEMMA CallsKnowKept == TypeOK /\ CallsKnow /\ [Next]_vars => CallsKnow'
  <1> SUFFICES ASSUME TypeOK, CallsKnow, [Next]_vars PROVE CallsKnow'
    OBVIOUS
  <1>0. CASE UNCHANGED vars
    BY <1>0 DEF CallsKnow, vars, dbVars, cacheVars, jobVars
  <1>1. ASSUME NEW o \in Change, NEW k \in {"create", "update", "delete"}, Begin(o, k)
        PROVE CallsKnow'
    BY <1>1, TableAssumption DEF TypeOK, CallsKnow, Begin, Begins, Enter, cacheVars, dbVars
  <1>2. ASSUME NEW o \in Change, CreateChecks(o) PROVE CallsKnow'
    BY <1>2, TableAssumption DEF TypeOK, CallsKnow, CreateChecks, Throws, cacheVars
  <1>3. ASSUME NEW o \in Change, CreateRejected(o) PROVE CallsKnow'
    BY <1>3, TableAssumption DEF TypeOK, CallsKnow, CreateRejected, Throws, cacheVars, dbVars
  <1>4. ASSUME NEW o \in Change, CreateInserts(o) PROVE CallsKnow'
    BY <1>4, TableAssumption DEF TypeOK, CallsKnow, CreateInserts, Throws, cacheVars
  <1>5. ASSUME NEW o \in Change, CreateBuilds(o) PROVE CallsKnow'
    BY <1>5, TableAssumption DEF TypeOK, CallsKnow, CreateBuilds, Throws, DdlFails, cacheVars
  <1>6. ASSUME NEW o \in Change, CreateCommits(o) PROVE CallsKnow'
    BY <1>6, TableAssumption DEF TypeOK, CallsKnow, CreateCommits, Go, cacheVars, jobVars
  <1>7. ASSUME NEW o \in Change, CreateCommitFails(o) PROVE CallsKnow'
    BY <1>7, TableAssumption
    DEF TypeOK, CallsKnow, CreateCommitFails, Throws, cacheVars, dbVars
  <1>8. ASSUME NEW o \in Change, CreateUndoes(o) PROVE CallsKnow'
    BY <1>8, TableAssumption DEF TypeOK, CallsKnow, CreateUndoes, Go, DdlFails, cacheVars
  <1>9. ASSUME NEW o \in Change, UpdateRejected(o) PROVE CallsKnow'
    BY <1>9, TableAssumption DEF TypeOK, CallsKnow, UpdateRejected, Throws, cacheVars, dbVars
  <1>10. ASSUME NEW o \in Change, UpdateCommits(o) PROVE CallsKnow'
    BY <1>10, TableAssumption DEF TypeOK, CallsKnow, UpdateCommits, Go, cacheVars
  <1>11. ASSUME NEW o \in Change, UpdatePlans(o) PROVE CallsKnow'
    BY <1>11, TableAssumption DEF TypeOK, CallsKnow, UpdatePlans, Throws, cacheVars
  <1>12. ASSUME NEW o \in Change, Alter(o) PROVE CallsKnow'
    BY <1>12, TableAssumption DEF TypeOK, CallsKnow, Alter, Throws, DdlFails, cacheVars
  <1>13. ASSUME NEW o \in Change, DeleteRows(o) PROVE CallsKnow'
    BY <1>13, TableAssumption DEF TypeOK, CallsKnow, DeleteRows, Throws, cacheVars
  <1>14. ASSUME NEW o \in Change, DropTable(o) PROVE CallsKnow'
    BY <1>14, TableAssumption DEF TypeOK, CallsKnow, DropTable, Throws, DdlFails, cacheVars
  <1>15. ASSUME NEW o \in Change, SyncBegins(o) PROVE CallsKnow'
    BY <1>15, TableAssumption DEF TypeOK, CallsKnow, SyncBegins, Begins, dbVars, cacheVars
  <1>16. ASSUME NEW o \in Change, SyncReads(o) PROVE CallsKnow'
    BY <1>16, TableAssumption DEF TypeOK, CallsKnow, SyncReads, Throws, cacheVars
  <1>17. ASSUME NEW o \in Change, SyncDrops(o) PROVE CallsKnow'
    BY <1>17, TableAssumption DEF TypeOK, CallsKnow, SyncDrops, DdlFails, cacheVars
  <1>18. ASSUME NEW o \in Change, SyncUpdates(o) PROVE CallsKnow'
    BY <1>18, TableAssumption DEF TypeOK, CallsKnow, SyncUpdates, cacheVars
  <1>19. ASSUME NEW o \in Change, End(o) PROVE CallsKnow'
    BY <1>19, TableAssumption DEF TypeOK, CallsKnow, End, Go, Leave, Done, dbVars, cacheVars
  <1>20. ASSUME NEW o \in Change, Reload(o) PROVE CallsKnow'
    BY <1>20, TableAssumption DEF TypeOK, CallsKnow, Reload, dbVars, jobVars
  <1>21. ASSUME NEW o \in Change, Publish(o) PROVE CallsKnow'
    BY <1>21, TableAssumption, TablesAre DEF TypeOK, CallsKnow, Publish, Go, dbVars, jobVars
  <1>22. ASSUME NEW i \in Inst, Boot(i) PROVE CallsKnow'
    BY <1>22, TableAssumption DEF TypeOK, CallsKnow, Boot, dbVars, jobVars
  <1>23. ASSUME NEW i \in Inst, Crash(i) PROVE CallsKnow'
    BY <1>23, TableAssumption DEF TypeOK, CallsKnow, Crash, Leave, dbVars
  <1> QED
    BY <1>0, <1>1, <1>2, <1>3, <1>4, <1>5, <1>6, <1>7, <1>8, <1>9, <1>10, <1>11, <1>12,
       <1>13, <1>14, <1>15, <1>16, <1>17, <1>18, <1>19, <1>20, <1>21, <1>22, <1>23
    DEF Next

-----------------------------------------------------------------------------
\* Places and locks.

\* Where a call no longer changes the schema, and the calls that are changes.
Ended == {"idle", "reload", "publish"}
Changing == {"create", "update", "delete"}

\* The gate holds the calls that are changes and have not ended; a call is at
\* a place of its kind; only a creation has done something to its transaction.
KindsFit ==
    /\ active = {o \in Change : kind[o] \in Changing}
    /\ \A o \in Change :
          /\ pc[o] \in Ended <=> kind[o] = "none"
          /\ pc[o] \in {"create", "insert", "build", "commit", "undo"} => kind[o] = "create"
          /\ pc[o] \in {"update", "plan"} => kind[o] = "update"
          /\ pc[o] \in {"delete", "dropTable"} => kind[o] = "delete"
          /\ pc[o] \in {"sync", "syncDrop"} => kind[o] = "sync"
          /\ pc[o] = "alter" => kind[o] \in {"update", "sync"}
          /\ pc[o] \in {"update", "sync"} => sound[o]
          /\ trx[o] # "open" => pc[o] \in {"insert", "build", "commit", "undo", "leave"}

(***************************************************************************)
(* runWithSchemaLock() is around the whole of a change: each step leaves a *)
(* call at a place of its kind, inside the gate until it leaves or dies.   *)
(***************************************************************************)
LEMMA KindsFitKept == TypeOK /\ KindsFit /\ [Next]_vars => KindsFit'
  <1> SUFFICES ASSUME TypeOK, KindsFit, [Next]_vars PROVE KindsFit'
    OBVIOUS
  <1>0. CASE UNCHANGED vars
    BY <1>0 DEF KindsFit, Ended, Changing, vars, dbVars, cacheVars, jobVars
  <1>1. ASSUME NEW o \in Change, NEW k \in {"create", "update", "delete"}, Begin(o, k)
        PROVE KindsFit'
    BY <1>1, TableAssumption
    DEF TypeOK, KindsFit, Ended, Changing, Begin, Begins, Enter, cacheVars, dbVars
  <1>2. ASSUME NEW o \in Change, CreateChecks(o) PROVE KindsFit'
    BY <1>2, TableAssumption
    DEF TypeOK, KindsFit, Ended, Changing, CreateChecks, Throws, cacheVars
  <1>3. ASSUME NEW o \in Change, CreateRejected(o) PROVE KindsFit'
    BY <1>3, TableAssumption
    DEF TypeOK, KindsFit, Ended, Changing, CreateRejected, Throws, cacheVars, dbVars
  <1>4. ASSUME NEW o \in Change, CreateInserts(o) PROVE KindsFit'
    BY <1>4, TableAssumption
    DEF TypeOK, KindsFit, Ended, Changing, CreateInserts, Throws, cacheVars
  <1>5. ASSUME NEW o \in Change, CreateBuilds(o) PROVE KindsFit'
    BY <1>5, TableAssumption
    DEF TypeOK, KindsFit, Ended, Changing, CreateBuilds, Throws, DdlFails, cacheVars
  <1>6. ASSUME NEW o \in Change, CreateCommits(o) PROVE KindsFit'
    BY <1>6, TableAssumption
    DEF TypeOK, KindsFit, Ended, Changing, CreateCommits, Go, cacheVars, jobVars
  <1>7. ASSUME NEW o \in Change, CreateCommitFails(o) PROVE KindsFit'
    BY <1>7, TableAssumption
    DEF TypeOK, KindsFit, Ended, Changing, CreateCommitFails, Throws, cacheVars, dbVars
  <1>8. ASSUME NEW o \in Change, CreateUndoes(o) PROVE KindsFit'
    BY <1>8, TableAssumption
    DEF TypeOK, KindsFit, Ended, Changing, CreateUndoes, Go, DdlFails, cacheVars
  <1>9. ASSUME NEW o \in Change, UpdateRejected(o) PROVE KindsFit'
    BY <1>9, TableAssumption
    DEF TypeOK, KindsFit, Ended, Changing, UpdateRejected, Throws, cacheVars, dbVars
  <1>10. ASSUME NEW o \in Change, UpdateCommits(o) PROVE KindsFit'
    BY <1>10, TableAssumption
    DEF TypeOK, KindsFit, Ended, Changing, UpdateCommits, Go, cacheVars
  <1>11. ASSUME NEW o \in Change, UpdatePlans(o) PROVE KindsFit'
    BY <1>11, TableAssumption
    DEF TypeOK, KindsFit, Ended, Changing, UpdatePlans, Throws, cacheVars
  <1>12. ASSUME NEW o \in Change, Alter(o) PROVE KindsFit'
    BY <1>12, TableAssumption
    DEF TypeOK, KindsFit, Ended, Changing, Alter, Throws, DdlFails, cacheVars
  <1>13. ASSUME NEW o \in Change, DeleteRows(o) PROVE KindsFit'
    BY <1>13, TableAssumption
    DEF TypeOK, KindsFit, Ended, Changing, DeleteRows, Throws, cacheVars
  <1>14. ASSUME NEW o \in Change, DropTable(o) PROVE KindsFit'
    BY <1>14, TableAssumption
    DEF TypeOK, KindsFit, Ended, Changing, DropTable, Throws, DdlFails, cacheVars
  <1>15. ASSUME NEW o \in Change, SyncBegins(o) PROVE KindsFit'
    BY <1>15, TableAssumption
    DEF TypeOK, KindsFit, Ended, Changing, SyncBegins, Begins, dbVars, cacheVars
  <1>16. ASSUME NEW o \in Change, SyncReads(o) PROVE KindsFit'
    BY <1>16, TableAssumption
    DEF TypeOK, KindsFit, Ended, Changing, SyncReads, Throws, cacheVars
  <1>17. ASSUME NEW o \in Change, SyncDrops(o) PROVE KindsFit'
    BY <1>17, TableAssumption
    DEF TypeOK, KindsFit, Ended, Changing, SyncDrops, DdlFails, cacheVars
  <1>18. ASSUME NEW o \in Change, SyncUpdates(o) PROVE KindsFit'
    BY <1>18, TableAssumption DEF TypeOK, KindsFit, Ended, Changing, SyncUpdates, cacheVars
  <1>19. ASSUME NEW o \in Change, End(o) PROVE KindsFit'
    BY <1>19, TableAssumption
    DEF TypeOK, KindsFit, Ended, Changing, End, Go, Leave, Done, dbVars, cacheVars
  <1>20. ASSUME NEW o \in Change, Reload(o) PROVE KindsFit'
    BY <1>20, TableAssumption DEF TypeOK, KindsFit, Ended, Changing, Reload, dbVars, jobVars
  <1>21. ASSUME NEW o \in Change, Publish(o) PROVE KindsFit'
    BY <1>21, TableAssumption
    DEF TypeOK, KindsFit, Ended, Changing, Publish, Go, dbVars, jobVars
  <1>22. ASSUME NEW i \in Inst, Boot(i) PROVE KindsFit'
    BY <1>22, TableAssumption DEF TypeOK, KindsFit, Ended, Changing, Boot, dbVars, jobVars
  <1>23. ASSUME NEW i \in Inst, Crash(i) PROVE KindsFit'
    BY <1>23, TableAssumption DEF TypeOK, KindsFit, Ended, Changing, Crash, Leave, dbVars
  <1> QED
    BY <1>0, <1>1, <1>2, <1>3, <1>4, <1>5, <1>6, <1>7, <1>8, <1>9, <1>10, <1>11, <1>12,
       <1>13, <1>14, <1>15, <1>16, <1>17, <1>18, <1>19, <1>20, <1>21, <1>22, <1>23
    DEF Next

-----------------------------------------------------------------------------
\* Metadata has its table.

\* As long as no changes have overlapped and no table was replaced, a creation
\* and a deletion are where nothing describes the table.
OneByOne ==
    odd = {} =>
       /\ \A o, x \in active : o = x
       /\ \A o \in Change :
          /\ trx[o] = "open"
          /\ pc[o] \in {"insert", "build", "commit", "undo", "dropTable"} => meta = NoTable
          /\ pc[o] = "commit" => phys # NoTable
       /\ meta # NoTable => phys # NoTable

(***************************************************************************)
(* No step of a change, of metadata-sync, of a failure or of a crash       *)
(* leaves the rows of a table without a physical table, from a state where *)
(* changes have come one by one.                                           *)
(***************************************************************************)
LEMMA OneByOneKept == TypeOK /\ KindsFit /\ OneByOne /\ [Next]_vars => OneByOne'
  <1> SUFFICES ASSUME TypeOK, KindsFit, OneByOne, [Next]_vars PROVE OneByOne'
    OBVIOUS
  <1>0. CASE UNCHANGED vars
    BY <1>0 DEF OneByOne, KindsFit, Changing, vars, dbVars, cacheVars, jobVars
  <1>1. ASSUME NEW o \in Change, NEW k \in {"create", "update", "delete"}, Begin(o, k)
        PROVE OneByOne'
    BY <1>1, TableAssumption
    DEF TypeOK, OneByOne, KindsFit, Changing, Begin, Begins, Enter, cacheVars, dbVars
  <1>2. ASSUME NEW o \in Change, CreateChecks(o) PROVE OneByOne'
    BY <1>2, TableAssumption
    DEF TypeOK, OneByOne, KindsFit, Changing, CreateChecks, Throws, cacheVars
  <1>3. ASSUME NEW o \in Change, CreateRejected(o) PROVE OneByOne'
    BY <1>3, TableAssumption
    DEF TypeOK, OneByOne, KindsFit, Changing, CreateRejected, Throws, cacheVars, dbVars
  <1>4. ASSUME NEW o \in Change, CreateInserts(o) PROVE OneByOne'
    BY <1>4, TableAssumption
    DEF TypeOK, OneByOne, KindsFit, Changing, CreateInserts, Throws, cacheVars
  <1>5. ASSUME NEW o \in Change, CreateBuilds(o) PROVE OneByOne'
    <2>1. Names(rows[o]) # NoTable
      BY TablesAre DEF TypeOK
    <2>2. phys # NoTable => phys' # NoTable
      BY <1>5 DEF CreateBuilds
    <2>3. pc'[o] = "commit" => phys' # NoTable
      BY <1>5, <2>1 DEF TypeOK, CreateBuilds, Throws
    <2>4. odd = {} => meta = NoTable
      BY <1>5 DEF OneByOne, CreateBuilds
    <2>5. /\ UNCHANGED <<meta, active, odd, trx>> /\ pc[o] = "build"
          /\ \A x \in Change : pc'[x] = pc[x] \/ (x = o /\ pc'[x] \in {"commit", "leave"})
      BY <1>5 DEF TypeOK, CreateBuilds, Throws, cacheVars
    <2> QED
      BY <2>2, <2>3, <2>4, <2>5 DEF OneByOne
  <1>6. ASSUME NEW o \in Change, CreateCommits(o) PROVE OneByOne'
    BY <1>6, TableAssumption
    DEF TypeOK, OneByOne, KindsFit, Changing, CreateCommits, Go, cacheVars, jobVars
  <1>7. ASSUME NEW o \in Change, CreateCommitFails(o) PROVE OneByOne'
    BY <1>7, TableAssumption
    DEF TypeOK, OneByOne, KindsFit, Changing, CreateCommitFails, Throws, cacheVars, dbVars
  <1>8. ASSUME NEW o \in Change, CreateUndoes(o) PROVE OneByOne'
    BY <1>8, TableAssumption
    DEF TypeOK, OneByOne, KindsFit, Changing, CreateUndoes, Go, DdlFails, cacheVars
  <1>9. ASSUME NEW o \in Change, UpdateRejected(o) PROVE OneByOne'
    BY <1>9, TableAssumption
    DEF TypeOK, OneByOne, KindsFit, Changing, UpdateRejected, Throws, cacheVars, dbVars
  <1>10. ASSUME NEW o \in Change, UpdateCommits(o) PROVE OneByOne'
    BY <1>10, TableAssumption
    DEF TypeOK, OneByOne, KindsFit, Changing, UpdateCommits, Go, cacheVars
  <1>11. ASSUME NEW o \in Change, UpdatePlans(o) PROVE OneByOne'
    BY <1>11, TableAssumption
    DEF TypeOK, OneByOne, KindsFit, Changing, UpdatePlans, Throws, cacheVars
  <1>12. ASSUME NEW o \in Change, Alter(o) PROVE OneByOne'
    <2>1. phys # NoTable => phys' # NoTable
      <3>1. \A b1 \in Batches(todo[o]) : Executable(b1) =>
               (RenameAll(phys, b1.rename) \ b1.drop) \cup b1.add # NoTable
        <4>1. \A b1 \in Batches(todo[o]) : b1 \in Statements
          BY BatchesAre DEF TypeOK
        <4>2. \A b1 : Executable(b1) => phys \in SUBSET Name
          BY DEF TypeOK, Executable
        <4> QED
          BY <4>1, <4>2, RenamedAre, TablesAre
      <3>2. phys' = phys \/ \E b1 \in Batches(todo[o]) :
               Executable(b1) /\ phys' = (RenameAll(phys, b1.rename) \ b1.drop) \cup b1.add
        BY <1>12 DEF Alter
      <3> QED
        BY <3>1, <3>2
    <2>2. /\ UNCHANGED <<meta, active, odd, trx>>
          /\ \A x \in Change : pc'[x] = pc[x] \/ pc'[x] = "leave"
      BY <1>12 DEF TypeOK, Alter, Throws
    <2> QED
      BY <2>1, <2>2 DEF OneByOne
  <1>13. ASSUME NEW o \in Change, DeleteRows(o) PROVE OneByOne'
    BY <1>13, TableAssumption
    DEF TypeOK, OneByOne, KindsFit, Changing, DeleteRows, Throws, cacheVars
  <1>14. ASSUME NEW o \in Change, DropTable(o) PROVE OneByOne'
    BY <1>14, TableAssumption
    DEF TypeOK, OneByOne, KindsFit, Changing, DropTable, Throws, DdlFails, cacheVars
  <1>15. ASSUME NEW o \in Change, SyncBegins(o) PROVE OneByOne'
    BY <1>15, TableAssumption
    DEF TypeOK, OneByOne, KindsFit, Changing, SyncBegins, Begins, dbVars, cacheVars
  <1>16. ASSUME NEW o \in Change, SyncReads(o) PROVE OneByOne'
    BY <1>16, TableAssumption
    DEF TypeOK, OneByOne, KindsFit, Changing, SyncReads, Throws, cacheVars
  <1>17. ASSUME NEW o \in Change, SyncDrops(o) PROVE OneByOne'
    <2>1. phys # NoTable => phys' # NoTable
      <3>1. \A n : phys # NoTable => phys \ {n} # NoTable
        BY TablesAre DEF TypeOK
      <3> QED
        BY <1>17, <3>1 DEF SyncDrops
    <2> QED
      BY <1>17, <2>1 DEF OneByOne, SyncDrops, cacheVars
  <1>18. ASSUME NEW o \in Change, SyncUpdates(o) PROVE OneByOne'
    BY <1>18, TableAssumption DEF TypeOK, OneByOne, KindsFit, Changing, SyncUpdates, cacheVars
  <1>19. ASSUME NEW o \in Change, End(o) PROVE OneByOne'
    BY <1>19, TableAssumption
    DEF TypeOK, OneByOne, KindsFit, Changing, End, Go, Leave, Done, dbVars, cacheVars
  <1>20. ASSUME NEW o \in Change, Reload(o) PROVE OneByOne'
    BY <1>20, TableAssumption DEF TypeOK, OneByOne, KindsFit, Changing, Reload, dbVars, jobVars
  <1>21. ASSUME NEW o \in Change, Publish(o) PROVE OneByOne'
    BY <1>21, TableAssumption
    DEF TypeOK, OneByOne, KindsFit, Changing, Publish, Go, dbVars, jobVars
  <1>22. ASSUME NEW i \in Inst, Boot(i) PROVE OneByOne'
    BY <1>22, TableAssumption DEF TypeOK, OneByOne, KindsFit, Changing, Boot, dbVars, jobVars
  <1>23. ASSUME NEW i \in Inst, Crash(i) PROVE OneByOne'
    BY <1>23, TableAssumption DEF TypeOK, OneByOne, KindsFit, Changing, Crash, Leave, dbVars
  <1> QED
    BY <1>0, <1>1, <1>2, <1>3, <1>4, <1>5, <1>6, <1>7, <1>8, <1>9, <1>10, <1>11, <1>12,
       <1>13, <1>14, <1>15, <1>16, <1>17, <1>18, <1>19, <1>20, <1>21, <1>22, <1>23
    DEF Next

-----------------------------------------------------------------------------
\* Sound changes.

\* The columns that statements rename, and what to.
Sources(s) == {r[1] : r \in s.rename}
Targets(s) == {r[2] : r \in s.rename}

\* The statements s can be executed, in any parts, and make N of the columns P.
Leads(P, s, N) ==
    /\ Sources(s) \subseteq P /\ s.drop \subseteq P \ Sources(s)
    /\ Targets(s) \cap P = {} /\ s.add \cap P = {} /\ s.add \cap Targets(s) = {}
    /\ \A r, x \in s.rename : r[1] = x[1] \/ r[2] = x[2] => r = x
    /\ N = ((P \ Sources(s)) \ s.drop) \cup Targets(s) \cup s.add

\* What a change that has been alone and sound so far finds at each place.
Reached(o) ==
    /\ pc[o] \in {"create", "update", "delete", "sync", "leave"} => InStep
    /\ pc[o] \in {"insert", "build"} => meta = NoTable /\ phys = NoTable /\ trx[o] = "open"
    /\ pc[o] = "commit" => meta = NoTable /\ phys = Names(rows[o]) /\ trx[o] = "open"
    /\ pc[o] \in {"undo", "dropTable"} => meta = NoTable
    /\ pc[o] = "plan" => /\ meta # NoTable /\ old[o] # NoTable /\ phys = Names(old[o])
                         /\ \A c \in meta, d \in old[o] : c.name = d.name => c.id = d.id
    /\ pc[o] = "alter" => meta # NoTable /\ phys # NoTable /\ Leads(phys, todo[o], Names(meta))
    /\ pc[o] = "syncDrop" => meta # NoTable /\ phys = Names(meta) /\ todo[o] = NoStatement

\* A change that is alone is the only one that may still change the table.
FreshOnes ==
    \A o \in Change : fresh[o] =>
       /\ pc[o] \notin Ended
       /\ \A x \in Change \ {o} : pc[x] \in Ended
       /\ sound[o] => Reached(o)

(***************************************************************************)
(* The statements that analyzeColumnChanges() finds for two lists of rows, *)
(* neither of which gives a column the name that another has in the other, *)
(* make the columns of the first into those of the second.                 *)
(***************************************************************************)
LEMMA DiffLeads ==
    ASSUME NEW T \in Table, NEW U \in Table,
           \A c \in U, d \in T : c.name = d.name => c.id = d.id
    PROVE  Leads(Names(T), Diff(T, U), Names(U))
  <1> DEFINE s == Diff(T, U)
  <1>1. /\ \A c, d \in T : c.id = d.id \/ c.name = d.name => c = d
        /\ \A c, d \in U : c.id = d.id \/ c.name = d.name => c = d
    BY DEF Table
  <1>2. \A r : r \in s.rename <=>
           \E c \in T, d \in U : c.id = d.id /\ c.name # d.name /\ r = <<c.name, d.name>>
    <2>1. \A r : r \in s.rename <=>
             \E m \in T \X U : m[1].id = m[2].id /\ m[1].name # m[2].name /\ r = <<m[1].name, m[2].name>>
      BY DEF Diff
    <2>2. \A m \in T \X U : m[1] \in T /\ m[2] \in U
      OBVIOUS
    <2>3. \A c \in T, d \in U : <<c, d>> \in T \X U /\ <<c, d>>[1] = c /\ <<c, d>>[2] = d
      OBVIOUS
    <2> HIDE DEF s
    <2>4. ASSUME NEW r \in s.rename
          PROVE  \E c \in T, d \in U : c.id = d.id /\ c.name # d.name /\ r = <<c.name, d.name>>
      BY <2>1, <2>2
    <2>5. ASSUME NEW c \in T, NEW d \in U, c.id = d.id, c.name # d.name
          PROVE  <<c.name, d.name>> \in s.rename
      <3> DEFINE m == <<c, d>>
      <3>1. m \in T \X U /\ m[1] = c /\ m[2] = d
        BY <2>3
      <3> HIDE DEF m
      <3> QED
        BY <3>1, <2>1, <2>5
    <2> QED
      BY <2>4, <2>5
  <1>3. \A n : n \in s.drop <=> \E c \in T : n = c.name /\ \A d \in U : c.id # d.id
    BY DEF Diff, Ids
  <1>4. \A n : n \in s.add <=>
           (\E d \in U : n = d.name /\ \A c \in T : c.id # d.id) /\ n \notin Names(T)
    BY DEF Diff, Ids
  <1>5. \A n : n \in Names(T) <=> \E c \in T : n = c.name
    BY DEF Names
  <1>6. \A n : n \in Names(U) <=> \E c \in U : n = c.name
    BY DEF Names
  <1>7. \A n : n \in Sources(s) <=> \E c \in T, d \in U : c.id = d.id /\ c.name # d.name /\ n = c.name
    <2>1. \A n : n \in Sources(s) <=> \E r \in s.rename : n = r[1]
      BY DEF Sources
    <2> HIDE DEF s
    <2>2. \A c, d : <<c.name, d.name>>[1] = c.name
      OBVIOUS
    <2>3. ASSUME NEW n \in Sources(s)
          PROVE  \E c \in T, d \in U : c.id = d.id /\ c.name # d.name /\ n = c.name
      BY <2>1, <2>2, <1>2
    <2>4. ASSUME NEW c \in T, NEW d \in U, c.id = d.id, c.name # d.name
          PROVE  c.name \in Sources(s)
      <3>1. <<c.name, d.name>> \in s.rename
        BY <2>4, <1>2
      <3> QED
        BY <3>1, <2>1, <2>2
    <2> QED
      BY <2>3, <2>4
  <1>8. \A n : n \in Targets(s) <=> \E c \in T, d \in U : c.id = d.id /\ c.name # d.name /\ n = d.name
    <2>1. \A n : n \in Targets(s) <=> \E r \in s.rename : n = r[2]
      BY DEF Targets
    <2> HIDE DEF s
    <2>2. \A c, d : <<c.name, d.name>>[2] = d.name
      OBVIOUS
    <2>3. ASSUME NEW n \in Targets(s)
          PROVE  \E c \in T, d \in U : c.id = d.id /\ c.name # d.name /\ n = d.name
      BY <2>1, <2>2, <1>2
    <2>4. ASSUME NEW c \in T, NEW d \in U, c.id = d.id, c.name # d.name
          PROVE  d.name \in Targets(s)
      <3>1. <<c.name, d.name>> \in s.rename
        BY <2>4, <1>2
      <3> QED
        BY <3>1, <2>1, <2>2
    <2> QED
      BY <2>3, <2>4
  <1> HIDE DEF s
  <1>9. Sources(s) \subseteq Names(T) /\ s.drop \subseteq Names(T) \ Sources(s)
    BY <1>1, <1>3, <1>5, <1>7
  <1>10. Targets(s) \cap Names(T) = {} /\ s.add \cap Names(T) = {} /\ s.add \cap Targets(s) = {}
    BY <1>1, <1>4, <1>5, <1>8
  <1>11. \A r, x \in s.rename : r[1] = x[1] \/ r[2] = x[2] => r = x
    BY <1>1, <1>2
  <1>12. Names(U) = ((Names(T) \ Sources(s)) \ s.drop) \cup Targets(s) \cup s.add
    <2>1. ASSUME NEW n \in Names(U)
          PROVE  n \in ((Names(T) \ Sources(s)) \ s.drop) \cup Targets(s) \cup s.add
      BY <1>1, <1>3, <1>4, <1>5, <1>6, <1>7, <1>8
    <2>2. ASSUME NEW n, n \in ((Names(T) \ Sources(s)) \ s.drop) \cup Targets(s) \cup s.add
          PROVE  n \in Names(U)
      BY <2>2, <1>1, <1>3, <1>4, <1>5, <1>6, <1>7, <1>8
    <2> QED
      BY <2>1, <2>2
  <1> QED
    BY <1>9, <1>10, <1>11, <1>12 DEF Leads, s

(***************************************************************************)
(* When no statement is left, the columns are those wanted.                *)
(***************************************************************************)
LEMMA NothingLeft ==
    ASSUME NEW P, NEW N, Leads(P, NoStatement, N)
    PROVE  P = N
  BY DEF Leads, NoStatement, Sources, Targets

(***************************************************************************)
(* What executeBatchSQL() sends first of statements that lead to a list of *)
(* columns can be executed, and what is left of them leads there.          *)
(***************************************************************************)
LEMMA BatchLeads ==
    ASSUME NEW s \in Statements, NEW N, phys # NoTable, Leads(phys, s, N), NEW b1 \in Batches(s)
    PROVE  /\ Executable(b1)
           /\ Leads((RenameAll(phys, b1.rename) \ b1.drop) \cup b1.add, Minus(s, b1), N)
  <1> DEFINE B == b1.rename
             P == (RenameAll(phys, b1.rename) \ b1.drop) \cup b1.add
  <1>1. \/ b1 = s
        \/ \E r \in s.rename : b1.rename = {r} /\ b1.drop = {} /\ b1.add = {}
        \/ s.rename = {} /\ \E n \in s.drop : b1.rename = {} /\ b1.drop = {n} /\ b1.add = {}
        \/ s.rename = {} /\ s.drop = {} /\ \E n \in s.add : b1.rename = {} /\ b1.drop = {} /\ b1.add = {n}
    BY DEF Batches, NoStatement
  <1>2. b1.rename \subseteq s.rename /\ b1.drop \subseteq s.drop /\ b1.add \subseteq s.add
    BY <1>1
  <1>3. \A n : n \in Sources(s) <=> \E r \in s.rename : n = r[1]
    BY DEF Sources
  <1>4. \A n : n \in Targets(s) <=> \E r \in s.rename : n = r[2]
    BY DEF Targets
  <1>5. \A n : n \in RenameAll(phys, B) <=>
                  (n \in phys /\ \A r \in B : n # r[1]) \/ \E r \in B : n = r[2]
    BY DEF RenameAll
  <1>6. Executable(b1)
    BY <1>1, <1>2, <1>3, <1>4, <1>5 DEF Executable, Leads
  <1>7. \A n : n \in P <=>
                  \/ (n \in phys /\ (\A r \in B : n # r[1]) /\ n \notin b1.drop)
                  \/ ((\E r \in B : n = r[2]) /\ n \notin b1.drop)
                  \/ n \in b1.add
    BY <1>5
  <1>8. Minus(s, b1).rename = s.rename \ B /\ Minus(s, b1).drop = s.drop \ b1.drop
        /\ Minus(s, b1).add = s.add \ b1.add
    BY DEF Minus
  <1>9. \A n : n \in Sources(Minus(s, b1)) <=> \E r \in s.rename \ B : n = r[1]
    BY <1>8 DEF Sources
  <1>10. \A n : n \in Targets(Minus(s, b1)) <=> \E r \in s.rename \ B : n = r[2]
    BY <1>8 DEF Targets
  <1> HIDE DEF B, P
  <1>11. /\ Sources(Minus(s, b1)) \subseteq P
         /\ Minus(s, b1).drop \subseteq P \ Sources(Minus(s, b1))
    BY <1>2, <1>3, <1>7, <1>8, <1>9 DEF Leads, B
  <1>12. /\ Targets(Minus(s, b1)) \cap P = {} /\ Minus(s, b1).add \cap P = {}
         /\ Minus(s, b1).add \cap Targets(Minus(s, b1)) = {}
    BY <1>2, <1>3, <1>4, <1>7, <1>8, <1>10 DEF Leads, B
  <1>13. \A r, x \in Minus(s, b1).rename : r[1] = x[1] \/ r[2] = x[2] => r = x
    BY <1>8 DEF Leads
  <1>14. N = ((P \ Sources(Minus(s, b1))) \ Minus(s, b1).drop) \cup Targets(Minus(s, b1))
             \cup Minus(s, b1).add
    <2>1. ASSUME NEW n \in N
          PROVE  n \in ((P \ Sources(Minus(s, b1))) \ Minus(s, b1).drop)
                      \cup Targets(Minus(s, b1)) \cup Minus(s, b1).add
      BY <1>1, <1>2, <1>3, <1>4, <1>7, <1>8, <1>9, <1>10 DEF Leads, B
    <2>2. ASSUME NEW n \in ((P \ Sources(Minus(s, b1))) \ Minus(s, b1).drop)
                           \cup Targets(Minus(s, b1)) \cup Minus(s, b1).add
          PROVE  n \in N
      BY <1>1, <1>2, <1>3, <1>4, <1>7, <1>8, <1>9, <1>10 DEF Leads, B
    <2> QED
      BY <2>1, <2>2
  <1> QED
    BY <1>6, <1>11, <1>12, <1>13, <1>14 DEF Leads, P

(***************************************************************************)
(* A step of one call, which another does not notice, has only to bring    *)
(* the call to a place where it finds what is said of that place.          *)
(***************************************************************************)
LEMMA MovesKept ==
    ASSUME FreshOnes, NEW o \in Change, pc[o] \notin Ended,
           \A x \in Change \ {o} : pc'[x] = pc[x] /\ (fresh'[x] => fresh[x]),
           fresh'[o] => fresh[o],
           fresh[o] => pc'[o] \notin Ended,
           fresh[o] /\ fresh'[o] /\ sound'[o] => Reached(o)'
    PROVE  FreshOnes'
  BY DEF FreshOnes

(***************************************************************************)
(* Whatever a change that is alone does next, it finds there the metadata  *)
(* and the physical table that its earlier steps have led to, if it has    *)
(* been sound.                                                             *)
(***************************************************************************)
LEMMA FreshOnesKept == TypeOK /\ CallsKnow /\ KindsFit /\ FreshOnes /\ [Next]_vars => FreshOnes'
  <1> SUFFICES ASSUME TypeOK, CallsKnow, KindsFit, FreshOnes, [Next]_vars PROVE FreshOnes'
    OBVIOUS
  <1>0. CASE UNCHANGED vars
    BY <1>0 DEF FreshOnes, Reached, Ended, InStep, vars, dbVars, cacheVars, jobVars
  <1>1. ASSUME NEW o \in Change, NEW k \in {"create", "update", "delete"}, Begin(o, k)
        PROVE FreshOnes'
    <2>1. fresh'[o] => InStep' /\ pc'[o] \notin Ended /\ \A x \in Change \ {o} : pc'[x] \in Ended
      BY <1>1 DEF TypeOK, Ended, Busy, InStep, Begin, Begins, Enter, cacheVars, dbVars
    <2>2. \A x \in Change \ {o} : ~fresh'[x]
      BY <1>1 DEF TypeOK, Begin, Begins, Enter, cacheVars, dbVars
    <2>3. pc'[o] \in {"create", "update", "delete", "sync"}
      BY <1>1 DEF TypeOK, Begin, Begins, Enter, cacheVars, dbVars
    <2> QED
      BY <2>1, <2>2, <2>3 DEF FreshOnes, Reached
  <1>2. ASSUME NEW o \in Change, CreateChecks(o) PROVE FreshOnes'
    <2>1. pc[o] \notin Ended /\ (fresh[o] => pc'[o] \notin Ended)
      BY <1>2 DEF TypeOK, Ended, CreateChecks, Throws, cacheVars
    <2>2. \A x \in Change \ {o} : pc'[x] = pc[x] /\ (fresh'[x] => fresh[x])
      BY <1>2 DEF TypeOK, CreateChecks, Throws, cacheVars
    <2>3. fresh'[o] => fresh[o]
      BY <1>2 DEF TypeOK, CreateChecks, Throws, cacheVars
    <2>4. ASSUME fresh[o], fresh'[o], sound'[o] PROVE Reached(o)'
      <3>1. InStep /\ pc[o] = "create" /\ trx[o] = "open"
        BY <1>2, <2>4 DEF FreshOnes, Reached, KindsFit, CreateChecks, TypeOK
      <3>2. CASE meta # NoTable
        BY <1>2, <3>1, <3>2 DEF TypeOK, CreateChecks, Throws, Reached, InStep
      <3>3. CASE meta = NoTable
        <4>1. phys = NoTable
          BY <3>1, <3>3 DEF InStep
        <4> QED
          BY <1>2, <3>1, <3>3, <4>1 DEF TypeOK, CreateChecks, Reached
      <3> QED
        BY <3>2, <3>3
    <2> QED
      BY <2>1, <2>2, <2>3, <2>4, MovesKept
  <1>3. ASSUME NEW o \in Change, CreateRejected(o) PROVE FreshOnes'
    <2>1. pc[o] \notin Ended /\ (fresh[o] => pc'[o] \notin Ended)
      BY <1>3 DEF TypeOK, Ended, CreateRejected, Throws, cacheVars, dbVars
    <2>2. \A x \in Change \ {o} : pc'[x] = pc[x] /\ (fresh'[x] => fresh[x])
      BY <1>3 DEF TypeOK, CreateRejected, Throws, cacheVars, dbVars
    <2>3. fresh'[o] => fresh[o]
      BY <1>3 DEF TypeOK, CreateRejected, Throws, cacheVars, dbVars
    <2>4. ASSUME fresh[o], fresh'[o], sound'[o] PROVE Reached(o)'
      BY <1>3, <2>4
      DEF TypeOK, FreshOnes, Reached, InStep, CreateRejected, Throws, cacheVars, dbVars
    <2> QED
      BY <2>1, <2>2, <2>3, <2>4, MovesKept
  <1>4. ASSUME NEW o \in Change, CreateInserts(o) PROVE FreshOnes'
    <2>1. pc[o] \notin Ended /\ (fresh[o] => pc'[o] \notin Ended)
      BY <1>4 DEF TypeOK, Ended, CreateInserts, Throws, cacheVars
    <2>2. \A x \in Change \ {o} : pc'[x] = pc[x] /\ (fresh'[x] => fresh[x])
      BY <1>4 DEF TypeOK, CreateInserts, Throws, cacheVars
    <2>3. fresh'[o] => fresh[o]
      BY <1>4 DEF TypeOK, CreateInserts, Throws, cacheVars
    <2>4. ASSUME fresh[o], fresh'[o], sound'[o] PROVE Reached(o)'
      BY <1>4, <2>4 DEF TypeOK, FreshOnes, Reached, InStep, CreateInserts, Throws, cacheVars
    <2> QED
      BY <2>1, <2>2, <2>3, <2>4, MovesKept
  <1>5. ASSUME NEW o \in Change, CreateBuilds(o) PROVE FreshOnes'
    <2>1. pc[o] \notin Ended /\ (fresh[o] => pc'[o] \notin Ended)
      BY <1>5 DEF TypeOK, Ended, CreateBuilds, Throws, DdlFails, cacheVars
    <2>2. \A x \in Change \ {o} : pc'[x] = pc[x] /\ (fresh'[x] => fresh[x])
      BY <1>5 DEF TypeOK, CreateBuilds, Throws, DdlFails, cacheVars
    <2>3. fresh'[o] => fresh[o]
      BY <1>5 DEF TypeOK, CreateBuilds, Throws, DdlFails, cacheVars
    <2>4. ASSUME fresh[o], fresh'[o], sound'[o] PROVE Reached(o)'
      BY <1>5, <2>4
      DEF TypeOK, FreshOnes, Reached, InStep, CreateBuilds, Throws, DdlFails, cacheVars
    <2> QED
      BY <2>1, <2>2, <2>3, <2>4, MovesKept
  <1>6. ASSUME NEW o \in Change, CreateCommits(o) PROVE FreshOnes'
    <2>1. pc[o] \notin Ended /\ (fresh[o] => pc'[o] \notin Ended)
      BY <1>6 DEF TypeOK, Ended, CreateCommits, Go, cacheVars, jobVars
    <2>2. \A x \in Change \ {o} : pc'[x] = pc[x] /\ (fresh'[x] => fresh[x])
      BY <1>6 DEF TypeOK, CreateCommits, Go, cacheVars, jobVars
    <2>3. fresh'[o] => fresh[o]
      BY <1>6 DEF TypeOK, CreateCommits, Go, cacheVars, jobVars
    <2>4. ASSUME fresh[o], fresh'[o], sound'[o] PROVE Reached(o)'
      <3>1. phys = Names(rows[o]) /\ trx[o] = "open"
        BY <1>6, <2>4 DEF FreshOnes, Reached, CreateCommits, Go, jobVars
      <3>2. meta' = rows[o] /\ phys' = phys /\ pc'[o] = "leave"
        BY <1>6, <3>1 DEF TypeOK, CreateCommits, Go
      <3>3. rows[o] # NoTable
        BY TablesAre DEF TypeOK
      <3>4. InStep'
        BY <3>1, <3>2, <3>3 DEF InStep, Names
      <3> QED
        BY <3>2, <3>4 DEF Reached
    <2> QED
      BY <2>1, <2>2, <2>3, <2>4, MovesKept
  <1>7. ASSUME NEW o \in Change, CreateCommitFails(o) PROVE FreshOnes'
    <2>1. pc[o] \notin Ended /\ (fresh[o] => pc'[o] \notin Ended)
      BY <1>7 DEF TypeOK, Ended, CreateCommitFails, Throws, cacheVars, dbVars
    <2>2. \A x \in Change \ {o} : pc'[x] = pc[x] /\ (fresh'[x] => fresh[x])
      BY <1>7 DEF TypeOK, CreateCommitFails, Throws, cacheVars, dbVars
    <2>3. fresh'[o] => fresh[o]
      BY <1>7 DEF TypeOK, CreateCommitFails, Throws, cacheVars, dbVars
    <2>4. ASSUME fresh[o], fresh'[o], sound'[o] PROVE Reached(o)'
      BY <1>7, <2>4
      DEF TypeOK, FreshOnes, Reached, InStep, CreateCommitFails, Throws, cacheVars, dbVars
    <2> QED
      BY <2>1, <2>2, <2>3, <2>4, MovesKept
  <1>8. ASSUME NEW o \in Change, CreateUndoes(o) PROVE FreshOnes'
    <2>1. pc[o] \notin Ended /\ (fresh[o] => pc'[o] \notin Ended)
      BY <1>8 DEF TypeOK, Ended, CreateUndoes, Go, DdlFails, cacheVars
    <2>2. \A x \in Change \ {o} : pc'[x] = pc[x] /\ (fresh'[x] => fresh[x])
      BY <1>8 DEF TypeOK, CreateUndoes, Go, DdlFails, cacheVars
    <2>3. fresh'[o] => fresh[o]
      BY <1>8 DEF TypeOK, CreateUndoes, Go, DdlFails, cacheVars
    <2>4. ASSUME fresh[o], fresh'[o], sound'[o] PROVE Reached(o)'
      BY <1>8, <2>4
      DEF TypeOK, FreshOnes, Reached, InStep, CreateUndoes, Go, DdlFails, cacheVars
    <2> QED
      BY <2>1, <2>2, <2>3, <2>4, MovesKept
  <1>9. ASSUME NEW o \in Change, UpdateRejected(o) PROVE FreshOnes'
    <2>1. pc[o] \notin Ended /\ (fresh[o] => pc'[o] \notin Ended)
      BY <1>9 DEF TypeOK, Ended, UpdateRejected, Throws, cacheVars, dbVars
    <2>2. \A x \in Change \ {o} : pc'[x] = pc[x] /\ (fresh'[x] => fresh[x])
      BY <1>9 DEF TypeOK, UpdateRejected, Throws, cacheVars, dbVars
    <2>3. fresh'[o] => fresh[o]
      BY <1>9 DEF TypeOK, UpdateRejected, Throws, cacheVars, dbVars
    <2>4. ASSUME fresh[o], fresh'[o], sound'[o] PROVE Reached(o)'
      BY <1>9, <2>4
      DEF TypeOK, FreshOnes, Reached, InStep, UpdateRejected, Throws, cacheVars, dbVars
    <2> QED
      BY <2>1, <2>2, <2>3, <2>4, MovesKept
  <1>10. ASSUME NEW o \in Change, UpdateCommits(o) PROVE FreshOnes'
    <2>1. pc[o] \notin Ended /\ (fresh[o] => pc'[o] \notin Ended)
      BY <1>10 DEF TypeOK, Ended, UpdateCommits, Go, cacheVars
    <2>2. \A x \in Change \ {o} : pc'[x] = pc[x] /\ (fresh'[x] => fresh[x])
      BY <1>10 DEF TypeOK, UpdateCommits, Go, cacheVars
    <2>3. fresh'[o] => fresh[o]
      BY <1>10 DEF TypeOK, UpdateCommits, Go, cacheVars
    <2>4. ASSUME fresh[o], fresh'[o], sound'[o] PROVE Reached(o)'
      <3>1. sound[o] /\ cache[At[o]] = meta
        BY <1>10, <2>4 DEF UpdateCommits, TypeOK, Go, KindsFit
      <3>2. PICK T \in Bodies : meta' = T /\ sound' = [sound EXCEPT ![o] = IsPlain(T)]
        BY <1>10 DEF UpdateCommits
      <3>3. meta # NoTable /\ phys = Names(meta)
        BY <1>10, <2>4, <3>1 DEF UpdateCommits, Go, FreshOnes, Reached, InStep
      <3>4. pc'[o] = "plan" /\ old'[o] = meta /\ phys' = phys
        BY <1>10, <3>1, <3>3 DEF TypeOK, UpdateCommits, Go
      <3>5. IsPlain(T)
        BY <2>4, <3>2 DEF TypeOK
      <3>6. T # NoTable
        BY TablesAre DEF Bodies
      <3> QED
        BY <3>2, <3>3, <3>4, <3>5, <3>6 DEF Reached, IsPlain, Names
    <2> QED
      BY <2>1, <2>2, <2>3, <2>4, MovesKept
  <1>11. ASSUME NEW o \in Change, UpdatePlans(o) PROVE FreshOnes'
    <2>1. pc[o] \notin Ended /\ (fresh[o] => pc'[o] \notin Ended)
      BY <1>11 DEF TypeOK, Ended, UpdatePlans, Throws, cacheVars
    <2>2. \A x \in Change \ {o} : pc'[x] = pc[x] /\ (fresh'[x] => fresh[x])
      BY <1>11 DEF TypeOK, UpdatePlans, Throws, cacheVars
    <2>3. fresh'[o] => fresh[o]
      BY <1>11 DEF TypeOK, UpdatePlans, Throws, cacheVars
    <2>4. ASSUME fresh[o], fresh'[o], sound'[o] PROVE Reached(o)'
      <3>1. /\ meta # NoTable /\ old[o] # NoTable /\ phys = Names(old[o])
            /\ \A c \in meta, d \in old[o] : c.name = d.name => c.id = d.id
        BY <1>11, <2>4 DEF FreshOnes, Reached, UpdatePlans
      <3>2. meta \in Table /\ old[o] \in Table
        BY <3>1 DEF TypeOK
      <3>3. phys # NoTable
        BY <3>1, <3>2, TablesAre
      <3>4. /\ pc'[o] = "alter" /\ todo'[o] = Diff(old[o], meta)
            /\ meta' = meta /\ phys' = phys
        BY <1>11, <3>1, <3>3 DEF TypeOK, UpdatePlans
      <3>5. Leads(phys, todo'[o], Names(meta))
        BY <3>1, <3>2, <3>4, DiffLeads
      <3>6. Leads(phys, todo[o], Names(meta))'
        BY <3>4, <3>5 DEF Leads, Sources, Targets, Names
      <3> QED
        BY <3>1, <3>3, <3>4, <3>6 DEF Reached
    <2> QED
      BY <2>1, <2>2, <2>3, <2>4, MovesKept
  <1>12. ASSUME NEW o \in Change, Alter(o) PROVE FreshOnes'
    <2>1. pc[o] \notin Ended /\ (fresh[o] => pc'[o] \notin Ended)
      BY <1>12 DEF TypeOK, Ended, Alter, Throws, DdlFails, cacheVars
    <2>2. \A x \in Change \ {o} : pc'[x] = pc[x] /\ (fresh'[x] => fresh[x])
      BY <1>12 DEF TypeOK, Alter, Throws, DdlFails, cacheVars
    <2>3. fresh'[o] => fresh[o]
      BY <1>12 DEF TypeOK, Alter, Throws, DdlFails, cacheVars
    <2>4. ASSUME fresh[o], fresh'[o], sound'[o] PROVE Reached(o)'
      <3>1. meta # NoTable /\ phys # NoTable /\ Leads(phys, todo[o], Names(meta)) /\ pc[o] = "alter"
        BY <1>12, <2>4 DEF FreshOnes, Reached, Alter, Throws, DdlFails, TypeOK
      <3>2. CASE todo[o] = NoStatement
        <4>1. phys = Names(meta)
          BY <3>1, <3>2, NothingLeft
        <4>2. pc'[o] = "leave" /\ phys' = phys /\ meta' = meta
          BY <1>12, <3>2 DEF TypeOK, Alter
        <4>3. InStep'
          BY <3>1, <4>1, <4>2 DEF InStep, Names
        <4> QED
          BY <4>2, <4>3 DEF Reached
      <3>3. CASE todo[o] # NoStatement
        <4>1. PICK b1 \in Batches(todo[o]) : Executes(o, b1) \/ Breaks(o, b1)
          BY <1>12, <3>3, AlterDoes
        <4>2. todo[o] \in Statements
          BY DEF TypeOK
        <4>3. /\ Executable(b1)
              /\ Leads((RenameAll(phys, b1.rename) \ b1.drop) \cup b1.add,
                       Minus(todo[o], b1), Names(meta))
          BY <3>1, <4>2, BatchLeads
        <4>4. ~DdlFails(o)
          BY <2>4 DEF DdlFails, TypeOK
        <4>5. /\ phys' = (RenameAll(phys, b1.rename) \ b1.drop) \cup b1.add
              /\ todo'[o] = Minus(todo[o], b1) /\ pc'[o] = "alter" /\ meta' = meta
          <5>1. Executes(o, b1)
            BY <4>1, <4>3, <4>4 DEF Breaks
          <5> QED
            BY <1>12, <3>1, <5>1 DEF TypeOK, Alter, Executes
        <4>6. Leads(phys', todo'[o], Names(meta))
          BY <4>3, <4>5
        <4>7. Leads(phys, todo[o], Names(meta))'
          BY <4>5, <4>6 DEF Leads, Sources, Targets, Names
        <4>8. phys' # NoTable
          <5>1. phys \in SUBSET Name
            BY <3>1 DEF TypeOK
          <5> QED
            BY <5>1, <4>2, <4>5, BatchesAre, RenamedAre, TablesAre
        <4> QED
          BY <3>1, <4>5, <4>7, <4>8 DEF Reached
      <3> QED
        BY <3>2, <3>3
    <2> QED
      BY <2>1, <2>2, <2>3, <2>4, MovesKept
  <1>13. ASSUME NEW o \in Change, DeleteRows(o) PROVE FreshOnes'
    <2>1. pc[o] \notin Ended /\ (fresh[o] => pc'[o] \notin Ended)
      BY <1>13 DEF TypeOK, Ended, DeleteRows, Throws, cacheVars
    <2>2. \A x \in Change \ {o} : pc'[x] = pc[x] /\ (fresh'[x] => fresh[x])
      BY <1>13 DEF TypeOK, DeleteRows, Throws, cacheVars
    <2>3. fresh'[o] => fresh[o]
      BY <1>13 DEF TypeOK, DeleteRows, Throws, cacheVars
    <2>4. ASSUME fresh[o], fresh'[o], sound'[o] PROVE Reached(o)'
      BY <1>13, <2>4 DEF TypeOK, FreshOnes, Reached, InStep, DeleteRows, Throws, cacheVars
    <2> QED
      BY <2>1, <2>2, <2>3, <2>4, MovesKept
  <1>14. ASSUME NEW o \in Change, DropTable(o) PROVE FreshOnes'
    <2>1. pc[o] \notin Ended /\ (fresh[o] => pc'[o] \notin Ended)
      BY <1>14 DEF TypeOK, Ended, DropTable, Throws, DdlFails, cacheVars
    <2>2. \A x \in Change \ {o} : pc'[x] = pc[x] /\ (fresh'[x] => fresh[x])
      BY <1>14 DEF TypeOK, DropTable, Throws, DdlFails, cacheVars
    <2>3. fresh'[o] => fresh[o]
      BY <1>14 DEF TypeOK, DropTable, Throws, DdlFails, cacheVars
    <2>4. ASSUME fresh[o], fresh'[o], sound'[o] PROVE Reached(o)'
      BY <1>14, <2>4
      DEF TypeOK, FreshOnes, Reached, InStep, DropTable, Throws, DdlFails, cacheVars
    <2> QED
      BY <2>1, <2>2, <2>3, <2>4, MovesKept
  <1>15. ASSUME NEW o \in Change, SyncBegins(o) PROVE FreshOnes'
    <2>1. fresh'[o] => InStep' /\ pc'[o] \notin Ended /\ \A x \in Change \ {o} : pc'[x] \in Ended
      BY <1>15 DEF TypeOK, Ended, Busy, InStep, SyncBegins, Begins, dbVars, cacheVars
    <2>2. \A x \in Change \ {o} : ~fresh'[x]
      BY <1>15 DEF TypeOK, SyncBegins, Begins, dbVars, cacheVars
    <2>3. pc'[o] \in {"create", "update", "delete", "sync"}
      BY <1>15 DEF TypeOK, SyncBegins, Begins, dbVars, cacheVars
    <2> QED
      BY <2>1, <2>2, <2>3 DEF FreshOnes, Reached
  <1>16. ASSUME NEW o \in Change, SyncReads(o) PROVE FreshOnes'
    <2>1. pc[o] \notin Ended /\ (fresh[o] => pc'[o] \notin Ended)
      BY <1>16 DEF TypeOK, Ended, SyncReads, Throws, cacheVars
    <2>2. \A x \in Change \ {o} : pc'[x] = pc[x] /\ (fresh'[x] => fresh[x])
      BY <1>16 DEF TypeOK, SyncReads, Throws, cacheVars
    <2>3. fresh'[o] => fresh[o]
      BY <1>16 DEF TypeOK, SyncReads, Throws, cacheVars
    <2>4. ASSUME fresh[o], fresh'[o], sound'[o] PROVE Reached(o)'
      <3>1. InStep /\ cache[At[o]] = meta
        <4>1. sound[o]
          BY <1>16 DEF SyncReads, KindsFit
        <4>2. sound' = [sound EXCEPT ![o] = cache[At[o]] = meta]
          BY <1>16 DEF SyncReads
        <4> QED
          BY <1>16, <2>4, <4>1, <4>2 DEF FreshOnes, Reached, SyncReads, TypeOK
      <3>2. CASE meta = NoTable
        BY <1>16, <3>1, <3>2 DEF TypeOK, SyncReads, Throws, Reached, InStep
      <3>3. CASE meta # NoTable
        <4>1. phys = Names(meta) /\ phys # NoTable
          BY <3>1, <3>3, TablesAre DEF InStep, TypeOK
        <4>2. /\ pc'[o] = "syncDrop" /\ phys' = phys /\ meta' = meta
              /\ todo'[o] = [NoStatement EXCEPT !.drop = phys \ Names(meta),
                                                !.add = Names(meta) \ phys]
          BY <1>16, <3>1, <3>3, <4>1 DEF TypeOK, SyncReads
        <4>3. todo'[o] = NoStatement
          BY <4>1, <4>2 DEF NoStatement
        <4> QED
          BY <3>3, <4>1, <4>2, <4>3 DEF Reached, Names
      <3> QED
        BY <3>2, <3>3
    <2> QED
      BY <2>1, <2>2, <2>3, <2>4, MovesKept
  <1>17. ASSUME NEW o \in Change, SyncDrops(o) PROVE FreshOnes'
    <2>1. pc[o] \notin Ended /\ (fresh[o] => pc'[o] \notin Ended)
      BY <1>17 DEF TypeOK, Ended, SyncDrops, DdlFails, cacheVars
    <2>2. \A x \in Change \ {o} : pc'[x] = pc[x] /\ (fresh'[x] => fresh[x])
      BY <1>17 DEF TypeOK, SyncDrops, DdlFails, cacheVars
    <2>3. fresh'[o] => fresh[o]
      BY <1>17 DEF TypeOK, SyncDrops, DdlFails, cacheVars
    <2>4. ASSUME fresh[o], fresh'[o], sound'[o] PROVE Reached(o)'
      <3>1. sound[o]
        BY <1>17, <2>4 DEF TypeOK, SyncDrops, DdlFails
      <3>2. todo[o] = NoStatement
        BY <1>17, <2>4, <3>1 DEF FreshOnes, Reached, SyncDrops
      <3> QED
        BY <1>17, <3>2 DEF SyncDrops, NoStatement
    <2> QED
      BY <2>1, <2>2, <2>3, <2>4, MovesKept
  <1>18. ASSUME NEW o \in Change, SyncUpdates(o) PROVE FreshOnes'
    <2>1. pc[o] \notin Ended /\ (fresh[o] => pc'[o] \notin Ended)
      BY <1>18 DEF TypeOK, Ended, SyncUpdates, cacheVars
    <2>2. \A x \in Change \ {o} : pc'[x] = pc[x] /\ (fresh'[x] => fresh[x])
      BY <1>18 DEF TypeOK, SyncUpdates, cacheVars
    <2>3. fresh'[o] => fresh[o]
      BY <1>18 DEF TypeOK, SyncUpdates, cacheVars
    <2>4. ASSUME fresh[o], fresh'[o], sound'[o] PROVE Reached(o)'
      <3>1. meta # NoTable /\ phys = Names(meta) /\ todo[o] = NoStatement
        BY <1>18, <2>4 DEF FreshOnes, Reached, SyncUpdates
      <3>2. phys # NoTable
        BY <3>1, TablesAre DEF TypeOK
      <3>3. UNCHANGED <<phys, todo, meta>> /\ pc'[o] = "alter"
        BY <1>18, <3>2 DEF TypeOK, SyncUpdates
      <3>4. Leads(phys, todo[o], Names(meta))
        BY <3>1 DEF Leads, NoStatement, Sources, Targets
      <3>5. Leads(phys, todo[o], Names(meta))'
        BY <3>3, <3>4 DEF Leads, Sources, Targets, Names
      <3> QED
        BY <3>1, <3>2, <3>3, <3>5 DEF Reached
    <2> QED
      BY <2>1, <2>2, <2>3, <2>4, MovesKept
  <1>19. ASSUME NEW o \in Change, End(o) PROVE FreshOnes'
    BY <1>19, TableAssumption
    DEF TypeOK, FreshOnes, Reached, Ended, InStep, End, Go, Leave, Done, dbVars, cacheVars
  <1>20. ASSUME NEW o \in Change, Reload(o) PROVE FreshOnes'
    BY <1>20, TableAssumption
    DEF TypeOK, FreshOnes, Reached, Ended, InStep, Reload, dbVars, jobVars
  <1>21. ASSUME NEW o \in Change, Publish(o) PROVE FreshOnes'
    BY <1>21, TableAssumption
    DEF TypeOK, FreshOnes, Reached, Ended, InStep, Publish, Go, dbVars, jobVars
  <1>22. ASSUME NEW i \in Inst, Boot(i) PROVE FreshOnes'
    BY <1>22, TableAssumption
    DEF TypeOK, FreshOnes, Reached, Ended, InStep, Boot, dbVars, jobVars
  <1>23. ASSUME NEW i \in Inst, Crash(i) PROVE FreshOnes'
    BY <1>23, TableAssumption
    DEF TypeOK, FreshOnes, Reached, Ended, InStep, Crash, Leave, dbVars
  <1> QED
    BY <1>0, <1>1, <1>2, <1>3, <1>4, <1>5, <1>6, <1>7, <1>8, <1>9, <1>10, <1>11, <1>12,
       <1>13, <1>14, <1>15, <1>16, <1>17, <1>18, <1>19, <1>20, <1>21, <1>22, <1>23
    DEF Next

-----------------------------------------------------------------------------
\* The theorems.

TableInv == TypeOK /\ CallsKnow /\ KindsFit /\ OneByOne /\ FreshOnes

(***************************************************************************)
(* At first there is no table, no call and no lock.                        *)
(***************************************************************************)
LEMMA TableInitially == Init => TableInv
  <1> SUFFICES ASSUME Init PROVE TableInv
    OBVIOUS
  <1>1. TypeOK
    <2>1. 1 \in 1 .. MaxId + 1 /\ 0 \in 0 .. MaxBegun
      BY TableAssumption
    <2> QED
      BY <2>1, TablesAre, StatementsAre DEF Init, TypeOK, GateInit
  <1>2. CallsKnow /\ KindsFit /\ OneByOne /\ FreshOnes
    BY DEF Init, GateInit, CallsKnow, KindsFit, Ended, Changing, OneByOne, FreshOnes
  <1> QED
    BY <1>1, <1>2 DEF TableInv

(***************************************************************************)
(* The inductive invariant: calls are of the kind of the place they are    *)
(* at, hold the lock that they must hold, and find there what a change     *)
(* that is alone and sound has led to.                                     *)
(***************************************************************************)
THEOREM TablesInvariant == Spec => []TableInv
  <1>1. Init => TableInv
    BY TableInitially
  <1>2. TableInv /\ [Next]_vars => TableInv'
    BY TableTypesKept, CallsKnowKept, KindsFitKept, OneByOneKept, FreshOnesKept DEF TableInv
  <1> QED
    BY <1>1, <1>2, PTL DEF Spec

(***************************************************************************)
(* The rows, the physical columns, the caches and the private states of    *)
(* the calls have their types; the ids of column_definition stay below the *)
(* bound.                                                                  *)
(***************************************************************************)
THEOREM TablesTyped == Spec => []TypeOK
  <1>1. TableInv => TypeOK
    BY DEF TableInv
  <1> QED
    BY <1>1, TablesInvariant, PTL

(***************************************************************************)
(* No crash, no failed statement or commit, no metadata-sync and no stale  *)
(* cache leaves the rows of a table without a physical table, as long as   *)
(* changes of one instance have not overlapped and no physical table       *)
(* without rows has been replaced.                                         *)
(***************************************************************************)
THEOREM DescribedTablesExist == Spec => []MetadataHasTable
  <1>1. TableInv => MetadataHasTable
    BY DEF TableInv, OneByOne, MetadataHasTable
  <1> QED
    BY <1>1, TablesInvariant, PTL

(***************************************************************************)
(* A change or metadata-sync that runs alone, from a physical table and a  *)
(* cache that say what the metadata says, leaves a physical table and a    *)
(* metadata that agree, whether it succeeds or throws, if it gives no      *)
(* column an old name and no DDL statement fails.                          *)
(***************************************************************************)
THEOREM SoundChangesLeadBack == Spec => []SoundChangesMigrate
  <1>1. TableInv => SoundChangesMigrate
    BY DEF TableInv, FreshOnes, Reached, SoundChangesMigrate
  <1> QED
    BY <1>1, TablesInvariant, PTL

-----------------------------------------------------------------------------
\* Sequences of statements.

(***************************************************************************)
(* A set of natural numbers that is not empty has a least one.             *)
(***************************************************************************)
LEMMA LeastNumber ==
    ASSUME NEW S \in SUBSET Nat, S # {}
    PROVE  \E x \in S : \A y \in S : x <= y
  <1>1. IsWellFoundedOn(OpToRel(<, Nat), Nat)
    BY NatLessThanWellFounded
  <1>2. PICK x \in S : \A y \in S : ~ (<<y, x>> \in OpToRel(<, Nat))
    BY <1>1, WFMin
  <1>3. \A y \in S : ~(y < x)
    BY <1>2 DEF OpToRel
  <1> HIDE <1>2
  <1> QED
    BY <1>3

(***************************************************************************)
(* Induction up to a bound, on a set.                                      *)
(***************************************************************************)
LEMMA Counting ==
    ASSUME NEW n \in Nat, NEW S, 0 \in S, \A i \in 0 .. n - 1 : i \in S => i + 1 \in S
    PROVE  \A i \in 0 .. n : i \in S
  <1> SUFFICES ASSUME NEW k \in 0 .. n, k \notin S PROVE FALSE
    OBVIOUS
  <1> DEFINE W == {i \in 0 .. n : i \notin S}
  <1>0. W \in SUBSET Nat /\ W # {}
    OBVIOUS
  <1>1. PICK x \in W : \A y \in W : x <= y
    <2> HIDE DEF W
    <2> QED
      BY <1>0, LeastNumber
  <1>2. x # 0 /\ x - 1 \in 0 .. n - 1 /\ x - 1 \notin W
    BY <1>1
  <1> QED
    BY <1>1, <1>2

(***************************************************************************)
(* The database after each statement is the effect of it on the one        *)
(* before.                                                                 *)
(***************************************************************************)
LEMMA AfterIs ==
    ASSUME NEW d, NEW ss, Len(ss) \in Nat
    PROVE  /\ After(d, ss)[0] = d
           /\ \A i \in 1 .. Len(ss) : After(d, ss)[i] = Effect(After(d, ss)[i - 1], ss[i])
  <1> DEFINE Is(f, n) == f = [i \in 0 .. n |-> IF i = 0 THEN d ELSE Effect(f[i - 1], ss[i])]
             S == {n \in 0 .. Len(ss) : \E f : Is(f, n)}
  <1>1. 0 \in S
    <2> DEFINE f == [i \in 0 .. 0 |-> d]
    <2>1. \A i \in 0 .. 0 : i = 0
      OBVIOUS
    <2>2. f = [i \in 0 .. 0 |-> IF i = 0 THEN d ELSE Effect(f[i - 1], ss[i])]
      BY <2>1
    <2>3. Is(f, 0)
      BY <2>2
    <2> HIDE DEF Is
    <2> QED
      BY <2>3
  <1>2. ASSUME NEW n \in 0 .. Len(ss) - 1, n \in S PROVE n + 1 \in S
    <2>1. PICK f : Is(f, n)
      BY <1>2
    <2> DEFINE g == [i \in 0 .. n + 1 |-> IF i = n + 1 THEN Effect(f[n], ss[n + 1]) ELSE f[i]]
    <2>2. f[0] = d /\ \A i \in 1 .. n : f[i] = Effect(f[i - 1], ss[i])
      BY <2>1
    <2>3. ASSUME NEW i \in 0 .. n + 1
          PROVE  g[i] = IF i = 0 THEN d ELSE Effect(g[i - 1], ss[i])
      <3>1. CASE i = 0
        BY <2>2, <3>1
      <3>2. CASE i \in 1 .. n
        <4>1. i - 1 \in 0 .. n + 1 /\ i - 1 # n + 1 /\ i # n + 1 /\ i # 0
          BY <3>2
        <4>2. g[i] = f[i] /\ g[i - 1] = f[i - 1]
          BY <4>1
        <4> QED
          BY <2>2, <3>2, <4>1, <4>2
      <3>3. CASE i = n + 1
        <4>1. n \in 0 .. n + 1 /\ n # n + 1 /\ i - 1 = n /\ i # 0
          BY <3>3
        <4>2. g[i] = Effect(f[n], ss[n + 1]) /\ g[n] = f[n]
          BY <3>3, <4>1
        <4> QED
          BY <3>3, <4>1, <4>2
      <3> QED
        BY <3>1, <3>2, <3>3
    <2>4. Is(g, n + 1)
      BY <2>3
    <2> HIDE DEF Is
    <2> QED
      BY <2>4
  <1>3. Len(ss) \in S
    <2>1. \A n \in 0 .. Len(ss) - 1 : n \in S => n + 1 \in S
      BY <1>2
    <2>2. \A n \in 0 .. Len(ss) : n \in S
      <3> HIDE DEF S
      <3> QED
        BY <1>1, <2>1, Counting
    <2>3. Len(ss) \in 0 .. Len(ss)
      OBVIOUS
    <2> HIDE DEF S
    <2> QED
      BY <2>2, <2>3
  <1>4. \E f : Is(f, Len(ss))
    BY <1>3
  <1>5. Is(After(d, ss), Len(ss))
    <2> DEFINE T(f) == f = [i \in 0 .. Len(ss) |-> IF i = 0 THEN d ELSE Effect(f[i - 1], ss[i])]
    <2>1. After(d, ss) = CHOOSE f : T(f)
      BY DEF After
    <2>2. \E f : T(f)
      BY <1>4
    <2>3. T(CHOOSE f : T(f))
      <3> HIDE DEF T
      <3> QED
        BY <2>2
    <2> QED
      BY <2>1, <2>3
  <1> QED
    BY <1>5

\* Sequences of sequences.

(***************************************************************************)
(* A sequence of sequences is flattened by appending them one by one.      *)
(***************************************************************************)
LEMMA FlattenIs ==
    ASSUME NEW qs, Len(qs) \in Nat \ {0}
    PROVE  \E fl : /\ fl[1] = qs[1]
                   /\ \A i \in 2 .. Len(qs) : fl[i] = fl[i - 1] \o qs[i]
                   /\ FlattenSeq(qs) = fl[Len(qs)]
  <1> DEFINE Is(f, n) == f = [i \in 1 .. n |-> IF i = 1 THEN qs[i] ELSE f[i - 1] \o qs[i]]
             S == {n \in 0 .. Len(qs) : \E f : Is(f, n)}
  <1>1. 0 \in S
    <2> DEFINE f == [i \in 1 .. 0 |-> 0]
    <2>1. \A i \in 1 .. 0 : FALSE
      OBVIOUS
    <2>2. f = [i \in 1 .. 0 |-> IF i = 1 THEN qs[i] ELSE f[i - 1] \o qs[i]]
      BY <2>1
    <2>3. Is(f, 0)
      BY <2>2
    <2> HIDE DEF Is
    <2> QED
      BY <2>3
  <1>2. ASSUME NEW n \in 0 .. Len(qs) - 1, n \in S PROVE n + 1 \in S
    <2>1. PICK f : Is(f, n)
      BY <1>2
    <2> DEFINE new == IF n = 0 THEN qs[1] ELSE f[n] \o qs[n + 1]
               g == [i \in 1 .. n + 1 |-> IF i = n + 1 THEN new ELSE f[i]]
    <2>2. \A i \in 1 .. n : f[i] = IF i = 1 THEN qs[i] ELSE f[i - 1] \o qs[i]
      BY <2>1
    <2>3. ASSUME NEW i \in 1 .. n + 1
          PROVE  g[i] = IF i = 1 THEN qs[i] ELSE g[i - 1] \o qs[i]
      <3>1. CASE i \in 1 .. n
        <4>1. i # n + 1 /\ (i # 1 => (i - 1 \in 1 .. n + 1 /\ i - 1 # n + 1))
          BY <3>1
        <4>2. g[i] = f[i] /\ (i # 1 => g[i - 1] = f[i - 1])
          BY <4>1
        <4> QED
          BY <2>2, <3>1, <4>2
      <3>2. CASE i = n + 1
        <4>1. (i = 1) <=> (n = 0)
          BY <3>2
        <4>2. g[i] = new
          BY <3>2
        <4>3. n # 0 => (n \in 1 .. n + 1 /\ n # n + 1 /\ i - 1 = n)
          BY <3>2
        <4>4. n # 0 => g[n] = f[n]
          BY <4>3
        <4> QED
          BY <3>2, <4>1, <4>2, <4>3, <4>4
      <3> QED
        BY <3>1, <3>2
    <2> HIDE DEF new
    <2>4. Is(g, n + 1)
      BY <2>3
    <2> HIDE DEF Is
    <2> QED
      BY <2>4
  <1>3. Len(qs) \in S
    <2>1. \A n \in 0 .. Len(qs) - 1 : n \in S => n + 1 \in S
      BY <1>2
    <2>2. \A n \in 0 .. Len(qs) : n \in S
      <3> HIDE DEF S
      <3> QED
        BY <1>1, <2>1, Counting
    <2>3. Len(qs) \in 0 .. Len(qs)
      OBVIOUS
    <2> HIDE DEF S
    <2> QED
      BY <2>2, <2>3
  <1> DEFINE T(f) == f = [i \in 1 .. Len(qs) |-> IF i = 1 THEN qs[i] ELSE f[i - 1] \o qs[i]]
             fl == CHOOSE f : T(f)
  <1>4. \E f : T(f)
    BY <1>3
  <1>5. T(fl)
    <2> HIDE DEF T
    <2> QED
      BY <1>4
  <1>6. FlattenSeq(qs) = fl[Len(qs)]
    BY DEF FlattenSeq
  <1> HIDE DEF fl
  <1>7. fl = [i \in 1 .. Len(qs) |-> IF i = 1 THEN qs[i] ELSE fl[i - 1] \o qs[i]]
    BY <1>5
  <1> HIDE DEF T
  <1>8. fl[1] = qs[1]
    BY <1>7
  <1>9. \A i \in 2 .. Len(qs) : i \in 1 .. Len(qs) /\ i # 1
    OBVIOUS
  <1>10. \A i \in 2 .. Len(qs) : fl[i] = fl[i - 1] \o qs[i]
    BY <1>7, <1>9
  <1> QED
    BY <1>6, <1>8, <1>10

-----------------------------------------------------------------------------
\* Lists of statements.

\* Statements that take a column away under its name, and what they take.
Takes(s) == s.op \in {"dropColumn", "renameColumn"}
Taken(ss) == {ss[i].col : i \in {j \in DOMAIN ss : Takes(ss[j])}}

\* No column is taken twice, and a constraint comes after its column.
Ordered(ss) ==
    /\ \A i, j \in DOMAIN ss : Takes(ss[i]) /\ Takes(ss[j]) /\ ss[i].col = ss[j].col => i = j
    /\ \A i \in DOMAIN ss : ss[i].op = "addKey" =>
          \E j \in 1 .. i - 1 : ss[j].op = "addColumn" /\ ss[j].col = ss[i].col

(***************************************************************************)
(* What two sequences list together.                                       *)
(***************************************************************************)
LEMMA ConcatIs ==
    ASSUME NEW X, NEW s1 \in Seq(X), NEW s2 \in Seq(X)
    PROVE  /\ s1 \o s2 \in Seq(X)
           /\ Range(s1 \o s2) = Range(s1) \cup Range(s2)
  <1>1. /\ s1 \o s2 \in Seq(X) /\ Len(s1 \o s2) = Len(s1) + Len(s2)
        /\ Len(s1) \in Nat /\ Len(s2) \in Nat
        /\ DOMAIN s1 = 1 .. Len(s1) /\ DOMAIN s2 = 1 .. Len(s2)
        /\ DOMAIN (s1 \o s2) = 1 .. Len(s1) + Len(s2)
    OBVIOUS
  <1>2. /\ \A i \in 1 .. Len(s1) : (s1 \o s2)[i] = s1[i]
        /\ \A i \in 1 .. Len(s2) : (s1 \o s2)[Len(s1) + i] = s2[i]
    OBVIOUS
  <1> DEFINE s3 == s1 \o s2
  <1> HIDE DEF s3
  <1>3. ASSUME NEW x \in Range(s3) PROVE x \in Range(s1) \cup Range(s2)
    <2>1. PICK i \in 1 .. Len(s1) + Len(s2) : x = s3[i]
      BY <1>1, <1>3 DEF Range, s3
    <2>2. CASE i \in 1 .. Len(s1)
      BY <1>1, <1>2, <2>1, <2>2 DEF Range, s3
    <2>3. CASE i \notin 1 .. Len(s1)
      <3>1. i - Len(s1) \in 1 .. Len(s2) /\ i = Len(s1) + (i - Len(s1))
        BY <1>1, <2>3
      <3>2. s3[i] = s2[i - Len(s1)]
        BY <1>2, <3>1 DEF s3
      <3> QED
        BY <1>1, <2>1, <3>1, <3>2 DEF Range
    <2> QED
      BY <2>2, <2>3
  <1>4. ASSUME NEW x \in Range(s1) \cup Range(s2) PROVE x \in Range(s3)
    <2>1. CASE x \in Range(s1)
      <3>1. PICK i \in 1 .. Len(s1) : x = s1[i]
        BY <1>1, <2>1 DEF Range
      <3>2. i \in 1 .. Len(s1) + Len(s2) /\ s3[i] = x
        BY <1>1, <1>2, <3>1 DEF s3
      <3> QED
        BY <1>1, <3>2 DEF Range, s3
    <2>2. CASE x \in Range(s2)
      <3>1. PICK i \in 1 .. Len(s2) : x = s2[i]
        BY <1>1, <2>2 DEF Range
      <3>2. Len(s1) + i \in 1 .. Len(s1) + Len(s2) /\ s3[Len(s1) + i] = x
        BY <1>1, <1>2, <3>1 DEF s3
      <3> QED
        BY <1>1, <3>2 DEF Range, s3
    <2> QED
      BY <1>4, <2>1, <2>2
  <1> QED
    BY <1>1, <1>3, <1>4 DEF s3

(***************************************************************************)
(* The columns taken are those of the listed statements that take one.     *)
(***************************************************************************)
LEMMA TakenIs ==
    ASSUME NEW ss
    PROVE  \A x : x \in Taken(ss) <=> \E s \in Range(ss) : Takes(s) /\ x = s.col
  BY DEF Taken, Range

(***************************************************************************)
(* Two lists of statements that take different columns make one that takes *)
(* none twice.                                                             *)
(***************************************************************************)
LEMMA ConcatOrdered ==
    ASSUME NEW X, NEW s1 \in Seq(X), NEW s2 \in Seq(X), Ordered(s1), Ordered(s2),
           Taken(s1) \cap Taken(s2) = {}
    PROVE  Ordered(s1 \o s2) /\ Taken(s1 \o s2) = Taken(s1) \cup Taken(s2)
  <1> DEFINE s3 == s1 \o s2
  <1>1. /\ Len(s1) \in Nat /\ Len(s2) \in Nat
        /\ DOMAIN s1 = 1 .. Len(s1) /\ DOMAIN s2 = 1 .. Len(s2)
        /\ DOMAIN s3 = 1 .. Len(s1) + Len(s2)
    OBVIOUS
  <1>2. /\ \A i \in 1 .. Len(s1) : s3[i] = s1[i]
        /\ \A i \in 1 .. Len(s2) : s3[Len(s1) + i] = s2[i]
    OBVIOUS
  <1>3. Taken(s3) = Taken(s1) \cup Taken(s2)
    <2>1. Range(s3) = Range(s1) \cup Range(s2)
      BY ConcatIs
    <2> HIDE DEF s3
    <2>2. \A x : x \in Taken(s3) <=> x \in Taken(s1) \/ x \in Taken(s2)
      BY <2>1, TakenIs
    <2> QED
      BY <2>2
  <1> HIDE DEF s3
  <1>4. \A i \in DOMAIN s3 : i \in 1 .. Len(s1) \/ \E j \in 1 .. Len(s2) : i = Len(s1) + j
    <2> SUFFICES ASSUME NEW i \in 1 .. Len(s1) + Len(s2), i \notin 1 .. Len(s1)
                 PROVE  \E j \in 1 .. Len(s2) : i = Len(s1) + j
      BY <1>1
    <2>1. i - Len(s1) \in 1 .. Len(s2) /\ i = Len(s1) + (i - Len(s1))
      BY <1>1
    <2> QED
      BY <2>1
  <1>5. ASSUME NEW i \in DOMAIN s3, NEW j \in DOMAIN s3,
               Takes(s3[i]), Takes(s3[j]), s3[i].col = s3[j].col
        PROVE  i = j
    <2>1. CASE i \in 1 .. Len(s1) /\ j \in 1 .. Len(s1)
      BY <1>1, <1>2, <1>5, <2>1 DEF Ordered
    <2>2. CASE i \in 1 .. Len(s1) /\ j \notin 1 .. Len(s1)
      <3>1. PICK k \in 1 .. Len(s2) : j = Len(s1) + k
        BY <1>4, <2>2
      <3>2. s1[i].col \in Taken(s1) /\ s2[k].col \in Taken(s2) /\ s1[i].col = s2[k].col
        BY <1>1, <1>2, <1>5, <2>2, <3>1 DEF Taken
      <3> QED
        BY <3>2
    <2>3. CASE i \notin 1 .. Len(s1) /\ j \in 1 .. Len(s1)
      <3>1. PICK k \in 1 .. Len(s2) : i = Len(s1) + k
        BY <1>4, <2>3
      <3>2. s1[j].col \in Taken(s1) /\ s2[k].col \in Taken(s2) /\ s1[j].col = s2[k].col
        BY <1>1, <1>2, <1>5, <2>3, <3>1 DEF Taken
      <3> QED
        BY <3>2
    <2>4. CASE i \notin 1 .. Len(s1) /\ j \notin 1 .. Len(s1)
      <3>1. PICK k \in 1 .. Len(s2), m \in 1 .. Len(s2) : i = Len(s1) + k /\ j = Len(s1) + m
        BY <1>4, <2>4
      <3>2. s3[i] = s2[k] /\ s3[j] = s2[m]
        BY <1>2, <3>1
      <3>3. k = m
        BY <1>1, <1>5, <3>2 DEF Ordered
      <3> QED
        BY <3>1, <3>3
    <2> QED
      BY <2>1, <2>2, <2>3, <2>4
  <1>6. ASSUME NEW i \in DOMAIN s3, s3[i].op = "addKey"
        PROVE  \E j \in 1 .. i - 1 : s3[j].op = "addColumn" /\ s3[j].col = s3[i].col
    <2>1. CASE i \in 1 .. Len(s1)
      <3>1. PICK j \in 1 .. i - 1 : s1[j].op = "addColumn" /\ s1[j].col = s1[i].col
        BY <1>1, <1>2, <1>6, <2>1 DEF Ordered
      <3>2. j \in 1 .. Len(s1)
        BY <1>1, <2>1
      <3> QED
        BY <1>2, <2>1, <3>1, <3>2
    <2>2. CASE i \notin 1 .. Len(s1)
      <3>1. PICK k \in 1 .. Len(s2) : i = Len(s1) + k
        BY <1>4, <2>2
      <3>2. s3[i] = s2[k]
        BY <1>2, <3>1
      <3>3. PICK j \in 1 .. k - 1 : s2[j].op = "addColumn" /\ s2[j].col = s2[k].col
        BY <1>1, <1>6, <3>2 DEF Ordered
      <3>4. j \in 1 .. Len(s2) /\ Len(s1) + j \in 1 .. i - 1
        BY <1>1, <3>1
      <3> QED
        BY <1>2, <3>2, <3>3, <3>4
    <2> QED
      BY <2>1, <2>2
  <1> QED
    BY <1>3, <1>5, <1>6 DEF Ordered, s3

(***************************************************************************)
(* What a flattened sequence lists.                                        *)
(***************************************************************************)
LEMMA FlattenRange ==
    ASSUME NEW X, NEW qs \in Seq(Seq(X))
    PROVE  /\ FlattenSeq(qs) \in Seq(X)
           /\ Range(FlattenSeq(qs)) = UNION {Range(qs[i]) : i \in DOMAIN qs}
  <1>0. Len(qs) \in Nat /\ DOMAIN qs = 1 .. Len(qs) /\ \A i \in 1 .. Len(qs) : qs[i] \in Seq(X)
    OBVIOUS
  <1>1. CASE Len(qs) = 0
    <2>1. qs = <<>>
      BY <1>1
    <2>2. FlattenSeq(qs) = <<>>
      BY <1>1, <2>1 DEF FlattenSeq
    <2>3. <<>> \in Seq(X) /\ DOMAIN <<>> = {}
      OBVIOUS
    <2> QED
      BY <2>1, <2>2, <2>3 DEF Range
  <1>2. CASE Len(qs) # 0
    <2>1. PICK fl : /\ fl[1] = qs[1]
                    /\ \A i \in 2 .. Len(qs) : fl[i] = fl[i - 1] \o qs[i]
                    /\ FlattenSeq(qs) = fl[Len(qs)]
      BY <1>0, <1>2, FlattenIs
    <2> DEFINE Good(n) == /\ fl[n] \in Seq(X)
                          /\ Range(fl[n]) = UNION {Range(qs[i]) : i \in 1 .. n}
               S == {n \in 0 .. Len(qs) : n = 0 \/ Good(n)}
    <2>2. 0 \in S
      OBVIOUS
    <2>3. ASSUME NEW n \in 0 .. Len(qs) - 1, n \in S PROVE n + 1 \in S
      <3>1. CASE n = 0
        <4>1. \A i : i \in 1 .. 1 <=> i = 1
          OBVIOUS
        <4>2. Good(1)
          BY <1>0, <1>2, <2>1, <4>1
        <4> QED
          BY <3>1, <4>2, <1>0, <1>2
      <3>2. CASE n # 0
        <4>1. n + 1 \in 2 .. Len(qs) /\ (n + 1) - 1 = n /\ n + 1 \in 1 .. Len(qs)
          BY <3>2, <1>0
        <4>2. fl[n + 1] = fl[n] \o qs[n + 1]
          BY <2>1, <4>1
        <4>3. Good(n)
          BY <2>3, <3>2
        <4>4. fl[n + 1] \in Seq(X) /\ Range(fl[n + 1]) = Range(fl[n]) \cup Range(qs[n + 1])
          BY <1>0, <4>1, <4>2, <4>3, ConcatIs
        <4>5. \A i : i \in 1 .. n + 1 <=> i \in 1 .. n \/ i = n + 1
          BY <4>1
        <4>6. Good(n + 1)
          BY <4>3, <4>4, <4>5
        <4> HIDE DEF Good
        <4> QED
          BY <4>6, <4>1
      <3> QED
        BY <3>1, <3>2
    <2>4. \A n \in 0 .. Len(qs) : n \in S
      <3>1. \A n \in 0 .. Len(qs) - 1 : n \in S => n + 1 \in S
        BY <2>3
      <3> HIDE DEF S
      <3> QED
        BY <1>0, <2>2, <3>1, Counting
    <2>5. Good(Len(qs))
      <3>1. Len(qs) \in 0 .. Len(qs)
        BY <1>0
      <3>2. Len(qs) \in S
        BY <2>4, <3>1
      <3> HIDE DEF Good
      <3> QED
        BY <1>2, <3>2
    <2> QED
      BY <1>0, <2>1, <2>5
  <1> QED
    BY <1>1, <1>2

(***************************************************************************)
(* Lists of statements that take different columns, flattened, take none   *)
(* twice.                                                                  *)
(***************************************************************************)
LEMMA FlattenOrdered ==
    ASSUME NEW X, NEW qs \in Seq(Seq(X)),
           \A i \in DOMAIN qs : Ordered(qs[i]),
           \A i, j \in DOMAIN qs : i # j => Taken(qs[i]) \cap Taken(qs[j]) = {}
    PROVE  Ordered(FlattenSeq(qs))
  <1>0. Len(qs) \in Nat /\ DOMAIN qs = 1 .. Len(qs) /\ \A i \in 1 .. Len(qs) : qs[i] \in Seq(X)
    OBVIOUS
  <1>1. CASE Len(qs) = 0
    <2>1. qs = <<>>
      BY <1>1
    <2>2. FlattenSeq(qs) = <<>>
      BY <1>1, <2>1 DEF FlattenSeq
    <2> QED
      BY <2>2 DEF Ordered
  <1>2. CASE Len(qs) # 0
    <2>1. PICK fl : /\ fl[1] = qs[1]
                    /\ \A i \in 2 .. Len(qs) : fl[i] = fl[i - 1] \o qs[i]
                    /\ FlattenSeq(qs) = fl[Len(qs)]
      BY <1>0, <1>2, FlattenIs
    <2> DEFINE Good(n) == /\ fl[n] \in Seq(X) /\ Ordered(fl[n])
                          /\ Taken(fl[n]) \subseteq UNION {Taken(qs[i]) : i \in 1 .. n}
               S == {n \in 0 .. Len(qs) : n = 0 \/ Good(n)}
    <2>2. 0 \in S
      OBVIOUS
    <2>3. ASSUME NEW n \in 0 .. Len(qs) - 1, n \in S PROVE n + 1 \in S
      <3>1. CASE n = 0
        <4>1. 1 \in 1 .. Len(qs) /\ 1 \in 1 .. 1
          BY <1>0, <1>2
        <4>2. Good(1)
          BY <1>0, <2>1, <4>1
        <4> HIDE DEF Good
        <4> QED
          BY <3>1, <4>2, <1>0, <1>2
      <3>2. CASE n # 0
        <4>1. n + 1 \in 2 .. Len(qs) /\ (n + 1) - 1 = n /\ n + 1 \in 1 .. Len(qs)
              /\ \A i \in 1 .. n : i \in 1 .. Len(qs) /\ i # n + 1
          BY <3>2, <1>0
        <4>2. fl[n + 1] = fl[n] \o qs[n + 1]
          BY <2>1, <4>1
        <4>3. Good(n)
          BY <2>3, <3>2
        <4>4. Taken(fl[n]) \cap Taken(qs[n + 1]) = {}
          BY <1>0, <4>1, <4>3
        <4>5. fl[n + 1] \in Seq(X)
          BY <1>0, <4>1, <4>2, <4>3, ConcatIs
        <4>6. Ordered(fl[n + 1]) /\ Taken(fl[n + 1]) = Taken(fl[n]) \cup Taken(qs[n + 1])
          BY <1>0, <4>1, <4>2, <4>3, <4>4, ConcatOrdered
        <4>7. 1 .. n \subseteq 1 .. n + 1 /\ n + 1 \in 1 .. n + 1
          BY <4>1
        <4>8. Good(n + 1)
          BY <4>3, <4>5, <4>6, <4>7
        <4> HIDE DEF Good
        <4> QED
          BY <4>8, <4>1
      <3> QED
        BY <3>1, <3>2
    <2>4. \A n \in 0 .. Len(qs) : n \in S
      <3>1. \A n \in 0 .. Len(qs) - 1 : n \in S => n + 1 \in S
        BY <2>3
      <3> HIDE DEF S
      <3> QED
        BY <1>0, <2>2, <3>1, Counting
    <2>5. Good(Len(qs))
      <3>1. Len(qs) \in 0 .. Len(qs)
        BY <1>0
      <3>2. Len(qs) \in S
        BY <2>4, <3>1
      <3> HIDE DEF Good
      <3> QED
        BY <1>2, <3>2
    <2> QED
      BY <1>0, <2>1, <2>5
  <1> QED
    BY <1>1, <1>2

-----------------------------------------------------------------------------
\* ById.

(***************************************************************************)
(* Rows with different ids are listed by id, each once (ById).             *)
(***************************************************************************)
LEMMA ByIdIs ==
    ASSUME NEW S, IsFiniteSet(S), \A r \in S : r.id \in Int,
           \A r, s \in S : r.id = s.id => r = s
    PROVE  /\ ById(S) \in Seq(S) /\ DOMAIN ById(S) = 1 .. Len(ById(S)) /\ Range(ById(S)) = S
           /\ \A i, j \in DOMAIN ById(S) : ById(S)[i] = ById(S)[j] => i = j
  <1> DEFINE n == Cardinality(S)
             Below(r) == {s \in S : s.id < r.id}
             rank == [r \in S |-> Cardinality(Below(r)) + 1]
  <1>1. n \in Nat
    BY FS_CardinalityType
  <1>2. ASSUME NEW r \in S
        PROVE  IsFiniteSet(Below(r)) /\ Cardinality(Below(r)) \in Nat /\ Cardinality(Below(r)) < n
    <2>1. Below(r) \in SUBSET S /\ r \notin Below(r)
      OBVIOUS
    <2> HIDE DEF Below
    <2>2. IsFiniteSet(Below(r)) /\ Cardinality(Below(r)) <= n /\ n # Cardinality(Below(r))
      BY <2>1, FS_Subset
    <2>3. Cardinality(Below(r)) \in Nat
      BY <2>2, FS_CardinalityType
    <2> QED
      BY <2>2, <2>3, <1>1
  <1>3. ASSUME NEW r \in S, NEW s \in S, r.id < s.id
        PROVE  Cardinality(Below(r)) # Cardinality(Below(s))
    <2>1. Below(r) \in SUBSET Below(s) /\ r \in Below(s) /\ r \notin Below(r)
      BY <1>3
    <2>2. IsFiniteSet(Below(s))
      BY <1>2
    <2> HIDE DEF Below
    <2> QED
      BY <2>1, <2>2, FS_Subset
  <1> HIDE DEF Below
  <1>4. rank \in [S -> 1 .. n]
    BY <1>1, <1>2
  <1>5. \A r, s \in S : rank[r] = rank[s] => r = s
    <2>1. ASSUME NEW r \in S, NEW s \in S, rank[r] = rank[s] PROVE r.id = s.id
      BY <2>1, <1>2, <1>3
    <2> QED
      BY <2>1
  <1>6. rank \in Injection(S, 1 .. n)
    BY <1>4, <1>5 DEF Injection, IsInjective
  <1>7. IsFiniteSet(1 .. n) /\ Cardinality(1 .. n) = n
    BY <1>1, FS_Interval
  <1>8. rank \in Surjection(S, 1 .. n)
    <2> HIDE DEF rank
    <2> QED
      BY <1>6, <1>7, FS_Injection
  <1>9. \A i \in 1 .. n : \E r \in S : rank[r] = i
    <2> HIDE DEF rank
    <2> QED
      BY <1>8 DEF Surjection
  <1>10. ASSUME NEW i \in 1 .. n
         PROVE  ById(S)[i] \in S /\ rank[ById(S)[i]] = i
    <2> DEFINE C(r) == Cardinality({s \in S : s.id < r.id}) = i - 1
    <2>1. ById(S)[i] = CHOOSE r \in S : C(r)
      BY DEF ById
    <2>2. ASSUME NEW r \in S PROVE C(r) <=> rank[r] = i
      <3>1. {s \in S : s.id < r.id} = Below(r)
        BY DEF Below
      <3>2. Cardinality(Below(r)) \in Nat
        BY <1>2
      <3>3. Cardinality(Below(r)) = i - 1 <=> Cardinality(Below(r)) + 1 = i
        BY <3>2
      <3> HIDE DEF Below
      <3> QED
        BY <3>1, <3>3
    <2>3. \E r \in S : C(r)
      BY <1>9, <2>2
    <2> HIDE DEF C
    <2>4. ById(S)[i] \in S /\ C(ById(S)[i])
      BY <2>1, <2>3
    <2> QED
      BY <2>2, <2>4
  <1>11. DOMAIN ById(S) = 1 .. n
    BY DEF ById
  <1>12. ById(S) = [i \in 1 .. n |-> ById(S)[i]]
    <2> DEFINE c(i) == CHOOSE r \in S : Cardinality({s \in S : s.id < r.id}) = i - 1
    <2>1. ById(S) = [i \in 1 .. n |-> c(i)]
      BY DEF ById
    <2> HIDE DEF c
    <2> QED
      BY <2>1
  <1>13. ById(S) \in Seq(S) /\ Len(ById(S)) = n
    <2> DEFINE f == ById(S)
    <2>1. f \in [1 .. n -> S]
      BY <1>10, <1>12
    <2> HIDE DEF f
    <2>2. f \in Seq(S) /\ Len(f) = n
      BY <1>1, <2>1
    <2> QED
      BY <2>2 DEF f
  <1>14. \A r \in S : r = ById(S)[rank[r]]
    BY <1>4, <1>5, <1>10
  <1> HIDE DEF rank
  <1>15. Range(ById(S)) = S
    <2>1. \A x \in Range(ById(S)) : x \in S
      BY <1>10, <1>11 DEF Range
    <2>2. ASSUME NEW x \in S PROVE x \in Range(ById(S))
      <3>1. rank[x] \in 1 .. n
        BY <1>4
      <3> QED
        BY <1>11, <1>14, <3>1 DEF Range
    <2> QED
      BY <2>1, <2>2
  <1> QED
    BY <1>10, <1>11, <1>13, <1>15

(***************************************************************************)
(* The statements executed are possible, one after the other.              *)
(***************************************************************************)
LEMMA AllPossibleIs ==
    ASSUME NEW d, NEW ss, Len(ss) \in Nat
    PROVE  /\ AllPossible(d, ss) \in 0 .. Len(ss)
           /\ \A i \in 1 .. AllPossible(d, ss) : Possible(After(d, ss)[i - 1], ss[i])
  <1> DEFINE Is(n) == /\ \A i \in 1 .. n : Possible(After(d, ss)[i - 1], ss[i])
                      /\ n < Len(ss) => ~Possible(After(d, ss)[n], ss[n + 1])
             W == {i \in 1 .. Len(ss) : ~Possible(After(d, ss)[i - 1], ss[i])}
  <1>1. \E n \in 0 .. Len(ss) : Is(n)
    <2>1. CASE W = {}
      <3>1. Is(Len(ss)) /\ Len(ss) \in 0 .. Len(ss)
        BY <2>1
      <3> QED
        BY <3>1
    <2>2. CASE W # {}
      <3>1. W \in SUBSET Nat
        OBVIOUS
      <3>2. PICK m \in W : \A i \in W : m <= i
        <4> HIDE DEF W
        <4> QED
          BY <2>2, <3>1, LeastNumber
      <3>3. m - 1 \in 0 .. Len(ss) /\ (m - 1) + 1 = m /\ m \in 1 .. Len(ss)
        BY <3>2
      <3>4. ASSUME NEW i \in 1 .. m - 1 PROVE Possible(After(d, ss)[i - 1], ss[i])
        <4>1. i \in 1 .. Len(ss) /\ ~(m <= i)
          BY <3>3
        <4> QED
          BY <3>2, <4>1
      <3>5. Is(m - 1)
        BY <3>2, <3>3, <3>4
      <3> QED
        BY <3>3, <3>5
    <2> QED
      BY <2>1, <2>2
  <1>2. AllPossible(d, ss) = CHOOSE n \in 0 .. Len(ss) : Is(n)
    BY DEF AllPossible
  <1>3. AllPossible(d, ss) \in 0 .. Len(ss) /\ Is(AllPossible(d, ss))
    <2> HIDE DEF Is
    <2> QED
      BY <1>1, <1>2
  <1> QED
    BY <1>3

-----------------------------------------------------------------------------
\* What statements do.

\* The statements whose tables, columns and junction tables there are.
Ops == {"addColumn", "addKey", "dropColumn", "renameColumn", "renameTable", "createTable",
        "dropTable"}

Fitting(T) ==
    {s \in [op : Ops, col : LinkColumn \cup Junction,
            new : LinkColumn \cup Junction \cup Tab \cup {NoTab}] :
       CASE s.op = "addColumn"    -> s.col \in LinkColumn /\ s.col[1] \in T
         [] s.op = "addKey"       -> s.col \in LinkColumn /\ s.col[1] \in T /\ s.new \in Tab
         [] s.op = "dropColumn"   -> s.col \in LinkColumn
         [] s.op = "renameColumn" -> /\ s.col \in LinkColumn /\ s.new \in LinkColumn
                                     /\ s.new[1] = s.col[1]
         [] s.op = "renameTable"  -> s.col \in Junction /\ s.new \in Junction
         [] s.op = "createTable"  -> s.col \in Junction
         [] s.op = "dropTable"    -> s.col \in Junction}

\* A database whose columns and constraints are of tables that it has; a
\* constraint's name tells its table, and no two have the same.
DbTypes == [tabs : SUBSET Tab, cols : SUBSET LinkColumn, keys : SUBSET Constraint,
            junctions : SUBSET Junction]

DbOK(d) ==
    /\ d \in DbTypes
    /\ \A c \in d.cols : c[1] \in d.tabs
    /\ \A k \in d.keys : k.col[1] \in d.tabs /\ k.name[2][1] = k.col[1]
    /\ \A k, l \in d.keys : k.name = l.name => k = l

(***************************************************************************)
(* A possible statement leaves the database well-formed, with the same     *)
(* tables.                                                                 *)
(***************************************************************************)
LEMMA EffectFits ==
    ASSUME NEW d, DbOK(d), NEW s \in Fitting(d.tabs), Possible(d, s)
    PROVE  DbOK(Effect(d, s)) /\ Effect(d, s).tabs = d.tabs
  <1>0. /\ d.tabs \subseteq Tab /\ d.cols \subseteq LinkColumn /\ d.keys \subseteq Constraint
        /\ d.junctions \subseteq Junction
        /\ d = [tabs |-> d.tabs, cols |-> d.cols, keys |-> d.keys, junctions |-> d.junctions]
    BY DEF DbOK, DbTypes
  <1>1. CASE s.op = "addColumn"
    <2>1. Effect(d, s) = [d EXCEPT !.cols = @ \cup {s.col}] /\ s.col \in LinkColumn /\ s.col[1] \in d.tabs
      BY <1>1 DEF Effect, Fitting
    <2> QED
      BY <1>0, <2>1 DEF DbOK, DbTypes
  <1>2. CASE s.op = "addKey"
    <2> DEFINE k == [col |-> s.col, to |-> s.new, name |-> <<"fk", s.col>>]
    <2>1. Effect(d, s) = [d EXCEPT !.keys = @ \cup {k}]
      BY <1>2 DEF Effect
    <2>2. s.col \in LinkColumn /\ s.col[1] \in d.tabs /\ s.new \in Tab
      BY <1>2 DEF Fitting
    <2>3. k \in Constraint /\ k.col[1] \in d.tabs /\ k.name[2][1] = k.col[1]
      BY <2>2 DEF Constraint
    <2>4. \A l \in d.keys : l.name # k.name
      BY <1>2 DEF Possible
    <2> HIDE DEF k
    <2> QED
      BY <1>0, <2>1, <2>3, <2>4 DEF DbOK, DbTypes
  <1>3. CASE s.op = "dropColumn"
    <2>1. Effect(d, s) = WithoutColumns(d, {s.col})
      BY <1>3 DEF Effect
    <2> QED
      BY <1>0, <2>1 DEF DbOK, DbTypes, WithoutColumns, WithoutKeys
  <1>4. CASE s.op = "renameColumn"
    <2> DEFINE m(k) == IF k.col = s.col THEN [k EXCEPT !.col = s.new] ELSE k
               K == {m(k) : k \in d.keys}
               C == (d.cols \ {s.col}) \cup {s.new}
    <2>1. Effect(d, s) = [d EXCEPT !.cols = C, !.keys = K]
      BY <1>4 DEF Effect
    <2>2. s.new \in LinkColumn /\ s.new[1] = s.col[1] /\ s.col \in d.cols
      BY <1>4 DEF Fitting, Possible
    <2>3. \A k \in d.keys : /\ m(k) \in Constraint /\ m(k).name = k.name
                            /\ m(k).col[1] = k.col[1]
      BY <1>0, <2>2 DEF Constraint
    <2>4. K \subseteq Constraint /\ \A k \in K : k.col[1] \in d.tabs /\ k.name[2][1] = k.col[1]
      <3> HIDE DEF m
      <3> QED
        BY <2>3 DEF DbOK
    <2>5. \A k, l \in K : k.name = l.name => k = l
      <3> HIDE DEF m
      <3> QED
        BY <2>3 DEF DbOK
    <2>6. C \subseteq LinkColumn /\ \A c \in C : c[1] \in d.tabs
      BY <1>0, <2>2 DEF DbOK
    <2> HIDE DEF K, C
    <2> QED
      BY <1>0, <2>1, <2>4, <2>5, <2>6 DEF DbOK, DbTypes
  <1>5. CASE s.op = "renameTable"
    <2>1. Effect(d, s) = [d EXCEPT !.junctions = (@ \ {s.col}) \cup {s.new}] /\ s.new \in Junction
      BY <1>5 DEF Effect, Fitting
    <2> QED
      BY <1>0, <2>1 DEF DbOK, DbTypes
  <1>6. CASE s.op = "createTable"
    <2>1. Effect(d, s) = [d EXCEPT !.junctions = @ \cup {s.col}] /\ s.col \in Junction
      BY <1>6 DEF Effect, Fitting
    <2> QED
      BY <1>0, <2>1 DEF DbOK, DbTypes
  <1>7. CASE s.op = "dropTable"
    <2>1. Effect(d, s) = [d EXCEPT !.junctions = @ \ {s.col}]
      BY <1>7 DEF Effect
    <2> QED
      BY <1>0, <2>1 DEF DbOK, DbTypes
  <1> QED
    BY <1>1, <1>2, <1>3, <1>4, <1>5, <1>6, <1>7 DEF Fitting, Ops

(***************************************************************************)
(* And so does any number of statements that are possible.                 *)
(***************************************************************************)
LEMMA ExecutedFits ==
    ASSUME NEW d, DbOK(d), NEW ss \in Seq(Fitting(d.tabs)), NEW n \in 0 .. Len(ss),
           \A i \in 1 .. n : Possible(After(d, ss)[i - 1], ss[i])
    PROVE  DbOK(After(d, ss)[n]) /\ After(d, ss)[n].tabs = d.tabs
  <1> DEFINE A == After(d, ss)
             S == {i \in 0 .. n : DbOK(A[i]) /\ A[i].tabs = d.tabs}
  <1>0. Len(ss) \in Nat /\ \A i \in 1 .. Len(ss) : ss[i] \in Fitting(d.tabs)
    OBVIOUS
  <1>1. A[0] = d /\ \A i \in 1 .. Len(ss) : A[i] = Effect(A[i - 1], ss[i])
    BY <1>0, AfterIs
  <1> HIDE DEF A
  <1>2. 0 \in S
    BY <1>1, <1>0
  <1>3. ASSUME NEW i \in 0 .. n - 1, i \in S PROVE i + 1 \in S
    <2>1. i + 1 \in 1 .. n /\ i + 1 \in 1 .. Len(ss) /\ (i + 1) - 1 = i /\ i + 1 \in 0 .. n
      BY <1>0
    <2>2. A[i + 1] = Effect(A[i], ss[i + 1]) /\ Possible(A[i], ss[i + 1]) /\ ss[i + 1] \in Fitting(A[i].tabs)
      BY <1>0, <1>1, <1>3, <2>1 DEF A
    <2>3. DbOK(A[i])
      BY <1>3
    <2>4. DbOK(A[i + 1]) /\ A[i + 1].tabs = d.tabs
      BY <1>3, <2>2, <2>3, EffectFits
    <2> QED
      BY <2>1, <2>4
  <1>4. \A i \in 0 .. n : i \in S
    <2>1. \A i \in 0 .. n - 1 : i \in S => i + 1 \in S
      BY <1>3
    <2>2. n \in Nat
      BY <1>0
    <2> HIDE DEF S
    <2> QED
      BY <1>2, <2>1, <2>2, Counting
  <1>5. n \in 0 .. n
    BY <1>0
  <1> QED
    BY <1>4, <1>5 DEF A

-----------------------------------------------------------------------------
\* What lists of statements do.

\* What a statement makes, takes, refers to and moves; what a column refers to.
Makes(s, x) == (s.op = "addColumn" /\ s.col = x) \/ (s.op = "renameColumn" /\ s.new = x)
TakenBy(s, x) == Takes(s) /\ s.col = x
Linked(d, x, y) == \E k \in d.keys : k.col = x /\ k.to = y
Keys(s, x, y) == s.op = "addKey" /\ s.col = x /\ s.new = y
Moves(s, x) == s.op = "renameColumn" /\ s.new = x

(***************************************************************************)
(* What a statement does to columns, to what they refer to, and to         *)
(* junction tables.                                                        *)
(***************************************************************************)
LEMMA EffectDoes ==
    ASSUME NEW d, DbOK(d), NEW s \in Fitting(d.tabs)
    PROVE  /\ \A x : x \in Effect(d, s).cols <=>
                       ((x \in d.cols /\ ~TakenBy(s, x)) \/ Makes(s, x))
           /\ \A x, y : Linked(Effect(d, s), x, y) <=>
                 (\/ (Linked(d, x, y) /\ ~TakenBy(s, x))
                  \/ (Moves(s, x) /\ Linked(d, s.col, y))
                  \/ Keys(s, x, y))
           /\ s.op # "renameTable" =>
                 \A x : x \in Effect(d, s).junctions <=>
                    (/\ x \in d.junctions \/ (s.op = "createTable" /\ s.col = x)
                     /\ ~(s.op = "dropTable" /\ s.col = x))
  <1>0. /\ d.keys \subseteq Constraint
        /\ d = [tabs |-> d.tabs, cols |-> d.cols, keys |-> d.keys, junctions |-> d.junctions]
    BY DEF DbOK, DbTypes
  <1>1. CASE s.op = "addColumn"
    <2>1. /\ Effect(d, s).cols = d.cols \cup {s.col} /\ Effect(d, s).keys = d.keys
          /\ Effect(d, s).junctions = d.junctions
      BY <1>0, <1>1 DEF Effect
    <2> QED
      BY <1>1, <2>1 DEF TakenBy, Takes, Makes, Moves, Keys, Linked
  <1>2. CASE s.op = "addKey"
    <2> DEFINE l == [col |-> s.col, to |-> s.new, name |-> <<"fk", s.col>>]
    <2>1. /\ Effect(d, s).cols = d.cols /\ Effect(d, s).keys = d.keys \cup {l}
          /\ Effect(d, s).junctions = d.junctions
      BY <1>0, <1>2 DEF Effect
    <2>2. l.col = s.col /\ l.to = s.new
      OBVIOUS
    <2> HIDE DEF l
    <2> QED
      BY <1>2, <2>1, <2>2 DEF TakenBy, Takes, Makes, Moves, Keys, Linked
  <1>3. CASE s.op = "dropColumn"
    <2>1. /\ Effect(d, s).cols = d.cols \ {s.col}
          /\ Effect(d, s).keys = {k \in d.keys : k.col \notin {s.col}}
          /\ Effect(d, s).junctions = d.junctions
      BY <1>0, <1>3 DEF Effect, WithoutColumns, WithoutKeys
    <2> QED
      BY <1>3, <2>1 DEF TakenBy, Takes, Makes, Moves, Keys, Linked
  <1>4. CASE s.op = "renameColumn"
    <2> DEFINE m(k) == IF k.col = s.col THEN [k EXCEPT !.col = s.new] ELSE k
    <2>1. /\ Effect(d, s).cols = (d.cols \ {s.col}) \cup {s.new}
          /\ Effect(d, s).keys = {m(k) : k \in d.keys}
          /\ Effect(d, s).junctions = d.junctions
      BY <1>0, <1>4 DEF Effect
    <2>2. \A k \in d.keys : m(k).to = k.to /\ m(k).col = IF k.col = s.col THEN s.new ELSE k.col
      BY <1>0 DEF Constraint
    <2> HIDE DEF m
    <2>3. ASSUME NEW x, NEW y
          PROVE  Linked(Effect(d, s), x, y) <=>
                 (\/ (Linked(d, x, y) /\ ~TakenBy(s, x))
                  \/ (Moves(s, x) /\ Linked(d, s.col, y)))
      <3>1. Linked(Effect(d, s), x, y) <=> \E k \in d.keys : m(k).col = x /\ m(k).to = y
        BY <2>1 DEF Linked
      <3> QED
        BY <1>4, <2>2, <3>1 DEF Linked, TakenBy, Takes, Moves
    <2> QED
      BY <1>4, <2>1, <2>3 DEF TakenBy, Takes, Makes, Keys
  <1>5. CASE s.op = "renameTable"
    <2>1. Effect(d, s).cols = d.cols /\ Effect(d, s).keys = d.keys
      BY <1>0, <1>5 DEF Effect
    <2> QED
      BY <1>5, <2>1 DEF TakenBy, Takes, Makes, Moves, Keys, Linked
  <1>6. CASE s.op = "createTable"
    <2>1. /\ Effect(d, s).cols = d.cols /\ Effect(d, s).keys = d.keys
          /\ Effect(d, s).junctions = d.junctions \cup {s.col}
      BY <1>0, <1>6 DEF Effect
    <2> QED
      BY <1>6, <2>1 DEF TakenBy, Takes, Makes, Moves, Keys, Linked
  <1>7. CASE s.op = "dropTable"
    <2>1. /\ Effect(d, s).cols = d.cols /\ Effect(d, s).keys = d.keys
          /\ Effect(d, s).junctions = d.junctions \ {s.col}
      BY <1>0, <1>7 DEF Effect
    <2> QED
      BY <1>7, <2>1 DEF TakenBy, Takes, Makes, Moves, Keys, Linked
  <1> QED
    BY <1>1, <1>2, <1>3, <1>4, <1>5, <1>6, <1>7 DEF Fitting, Ops

\* Statements that are possible one after the other.
Runs(d, ss) ==
    /\ DbOK(d) /\ ss \in Seq(Fitting(d.tabs))
    /\ \A i \in 1 .. Len(ss) : Possible(After(d, ss)[i - 1], ss[i])

(***************************************************************************)
(* Each of the statements that run is possible where the ones before it    *)
(* lead.                                                                   *)
(***************************************************************************)
LEMMA StepsDo ==
    ASSUME NEW d, NEW ss, Runs(d, ss)
    PROVE  /\ Len(ss) \in Nat /\ DOMAIN ss = 1 .. Len(ss) /\ After(d, ss)[0] = d
           /\ \A n \in 0 .. Len(ss) - 1 :
                 /\ n + 1 \in 1 .. Len(ss)
                 /\ After(d, ss)[n + 1] = Effect(After(d, ss)[n], ss[n + 1])
                 /\ Possible(After(d, ss)[n], ss[n + 1])
                 /\ DbOK(After(d, ss)[n])
                 /\ ss[n + 1] \in Fitting(After(d, ss)[n].tabs)
  <1>0. Len(ss) \in Nat /\ DOMAIN ss = 1 .. Len(ss) /\ \A i \in 1 .. Len(ss) : ss[i] \in Fitting(d.tabs)
    BY DEF Runs
  <1>1. /\ After(d, ss)[0] = d
        /\ \A i \in 1 .. Len(ss) : After(d, ss)[i] = Effect(After(d, ss)[i - 1], ss[i])
    BY <1>0, AfterIs
  <1>2. ASSUME NEW n \in 0 .. Len(ss) - 1
        PROVE  /\ n + 1 \in 1 .. Len(ss)
               /\ After(d, ss)[n + 1] = Effect(After(d, ss)[n], ss[n + 1])
               /\ Possible(After(d, ss)[n], ss[n + 1])
               /\ DbOK(After(d, ss)[n])
               /\ ss[n + 1] \in Fitting(After(d, ss)[n].tabs)
    <2>1. n + 1 \in 1 .. Len(ss) /\ (n + 1) - 1 = n /\ n \in 0 .. Len(ss)
          /\ \A i \in 1 .. n : i \in 1 .. Len(ss)
      BY <1>0
    <2>2. DbOK(After(d, ss)[n]) /\ After(d, ss)[n].tabs = d.tabs
      BY <2>1, ExecutedFits DEF Runs
    <2>3. Possible(After(d, ss)[(n + 1) - 1], ss[n + 1])
      BY <2>1 DEF Runs
    <2>4. After(d, ss)[n + 1] = Effect(After(d, ss)[(n + 1) - 1], ss[n + 1])
      BY <1>1, <2>1
    <2> QED
      BY <1>0, <2>1, <2>2, <2>3, <2>4
  <1> QED
    BY <1>0, <1>1, <1>2

\* The columns after n statements: those that none has taken, and those made.
ColumnsAt(d, ss, n) ==
    \A x : x \in After(d, ss)[n].cols <=>
             (\/ (x \in d.cols /\ \A i \in 1 .. n : ~TakenBy(ss[i], x))
              \/ \E i \in 1 .. n : Makes(ss[i], x))

(***************************************************************************)
(* A column that a statement has made is not taken by a later one: it      *)
(* would be a column of the database too, that an earlier one took.        *)
(***************************************************************************)
LEMMA NotRetaken ==
    ASSUME NEW d, NEW ss, Runs(d, ss), Ordered(ss), Taken(ss) \subseteq d.cols,
           NEW m \in 1 .. Len(ss), NEW i \in 1 .. m - 1,
           \A n \in 0 .. m - 1 : ColumnsAt(d, ss, n), NEW x, Makes(ss[i], x)
    PROVE  ~TakenBy(ss[m], x)
  <1> SUFFICES ASSUME TakenBy(ss[m], x) PROVE FALSE
    OBVIOUS
  <1>0. Len(ss) \in Nat /\ DOMAIN ss = 1 .. Len(ss)
    BY StepsDo
  <1>1. i - 1 \in 0 .. Len(ss) - 1 /\ (i - 1) + 1 = i /\ i - 1 \in 0 .. m - 1 /\ i \in 1 .. Len(ss)
    BY <1>0
  <1>2. Possible(After(d, ss)[i - 1], ss[i])
    BY <1>1, StepsDo
  <1>3. x \notin After(d, ss)[i - 1].cols
    BY <1>2 DEF Possible, Makes
  <1>4. x \in d.cols
    BY <1>0 DEF Taken, TakenBy
  <1>5. PICK j \in 1 .. i - 1 : TakenBy(ss[j], x)
    BY <1>1, <1>3, <1>4 DEF ColumnsAt
  <1>6. j = m
    BY <1>0, <1>1, <1>5 DEF Ordered, TakenBy
  <1> QED
    BY <1>0, <1>5, <1>6

(***************************************************************************)
(* The columns after any number of statements that take no column twice.   *)
(***************************************************************************)
LEMMA ColumnsDone ==
    ASSUME NEW d, NEW ss, Runs(d, ss), Ordered(ss), Taken(ss) \subseteq d.cols
    PROVE  \A n \in 0 .. Len(ss) : ColumnsAt(d, ss, n)
  <1>0. Len(ss) \in Nat /\ DOMAIN ss = 1 .. Len(ss) /\ After(d, ss)[0] = d
    BY StepsDo
  <1> DEFINE S == {n \in 0 .. Len(ss) : \A m \in 0 .. n : ColumnsAt(d, ss, m)}
  <1>1. 0 \in S
    <2>1. ColumnsAt(d, ss, 0)
      <3>1. \A i \in 1 .. 0 : FALSE
        OBVIOUS
      <3> QED
        BY <1>0, <3>1 DEF ColumnsAt
    <2>2. \A m \in 0 .. 0 : m = 0
      OBVIOUS
    <2> QED
      BY <1>0, <2>1, <2>2
  <1>2. ASSUME NEW n \in 0 .. Len(ss) - 1, n \in S PROVE n + 1 \in S
    <2> DEFINE A == After(d, ss)
               s == ss[n + 1]
    <2>1. /\ n + 1 \in 1 .. Len(ss) /\ A[n + 1] = Effect(A[n], s) /\ DbOK(A[n])
          /\ s \in Fitting(A[n].tabs)
      BY StepsDo
    <2>2. \A x : x \in A[n + 1].cols <=> ((x \in A[n].cols /\ ~TakenBy(s, x)) \/ Makes(s, x))
      BY <2>1, EffectDoes
    <2>3. ColumnsAt(d, ss, n) /\ \A m \in 0 .. (n + 1) - 1 : ColumnsAt(d, ss, m)
      BY <1>2
    <2>4. \A x : \A i \in 1 .. n : Makes(ss[i], x) => ~TakenBy(s, x)
      <3>1. ASSUME NEW x, NEW i \in 1 .. n, Makes(ss[i], x) PROVE ~TakenBy(s, x)
        <4>1. i \in 1 .. (n + 1) - 1
          OBVIOUS
        <4> QED
          BY <2>1, <2>3, <3>1, <4>1, NotRetaken
      <3> QED
        BY <3>1
    <2>5. \A i : i \in 1 .. n + 1 <=> i \in 1 .. n \/ i = n + 1
      OBVIOUS
    <2> HIDE DEF A, s
    <2>6. ASSUME NEW x
          PROVE  x \in A[n + 1].cols <=>
             (\/ (x \in d.cols /\ \A i \in 1 .. n + 1 : ~TakenBy(ss[i], x))
              \/ \E i \in 1 .. n + 1 : Makes(ss[i], x))
      <3>1. x \in A[n].cols <=> (\/ (x \in d.cols /\ \A i \in 1 .. n : ~TakenBy(ss[i], x))
                                \/ \E i \in 1 .. n : Makes(ss[i], x))
        BY <2>3 DEF ColumnsAt, A
      <3> QED
        BY <2>2, <2>4, <2>5, <3>1 DEF s
    <2>7. ColumnsAt(d, ss, n + 1)
      BY <2>6 DEF ColumnsAt, A
    <2>8. \A m \in 0 .. n + 1 : m \in 0 .. n \/ m = n + 1
      OBVIOUS
    <2> QED
      BY <1>0, <1>2, <2>1, <2>7, <2>8
  <1>3. \A n \in 0 .. Len(ss) : n \in S
    <2>1. \A n \in 0 .. Len(ss) - 1 : n \in S => n + 1 \in S
      BY <1>2
    <2> HIDE DEF S
    <2> QED
      BY <1>0, <1>1, <2>1, Counting
  <1>4. \A n \in 0 .. Len(ss) : n \in 0 .. n
    BY <1>0
  <1> QED
    BY <1>3, <1>4

(***************************************************************************)
(* A column is made by one statement, and stays; if it was there before, a *)
(* statement has taken it.                                                 *)
(***************************************************************************)
LEMMA MadeOnce ==
    ASSUME NEW d, NEW ss, Runs(d, ss), Ordered(ss), Taken(ss) \subseteq d.cols,
           NEW i \in DOMAIN ss, NEW x, Makes(ss[i], x)
    PROVE  /\ \A m \in DOMAIN ss : i < m => ~TakenBy(ss[m], x)
           /\ \A m \in DOMAIN ss : Makes(ss[m], x) => m = i
           /\ x \in d.cols => x \in Taken(ss)
  <1>0. Len(ss) \in Nat /\ DOMAIN ss = 1 .. Len(ss)
    BY StepsDo
  <1>1. ASSUME NEW m \in DOMAIN ss, i < m PROVE ~TakenBy(ss[m], x)
    <2>1. i \in 1 .. m - 1 /\ m \in 1 .. Len(ss) /\ \A n \in 0 .. m - 1 : n \in 0 .. Len(ss)
      BY <1>0, <1>1
    <2>2. \A n \in 0 .. m - 1 : ColumnsAt(d, ss, n)
      BY <2>1, ColumnsDone
    <2> QED
      BY <2>1, <2>2, NotRetaken
  <1>2. ASSUME NEW j \in DOMAIN ss, NEW m \in DOMAIN ss, Makes(ss[j], x), Makes(ss[m], x), j < m
        PROVE  FALSE
    <2>1. j \in 1 .. m - 1 /\ m - 1 \in 0 .. Len(ss) /\ m - 1 \in 0 .. Len(ss) - 1 /\ (m - 1) + 1 = m
      BY <1>0, <1>2
    <2>2. x \in After(d, ss)[m - 1].cols
      BY <1>2, <2>1, ColumnsDone DEF ColumnsAt
    <2>3. Possible(After(d, ss)[m - 1], ss[m])
      BY <2>1, StepsDo
    <2> QED
      BY <1>2, <2>2, <2>3 DEF Possible, Makes
  <1>3. ASSUME NEW m \in DOMAIN ss, Makes(ss[m], x) PROVE m = i
    BY <1>0, <1>2, <1>3
  <1>4. ASSUME x \in d.cols PROVE x \in Taken(ss)
    <2>1. i - 1 \in 0 .. Len(ss) /\ i - 1 \in 0 .. Len(ss) - 1 /\ (i - 1) + 1 = i
          /\ \A j \in 1 .. i - 1 : j \in DOMAIN ss
      BY <1>0
    <2>2. Possible(After(d, ss)[i - 1], ss[i])
      BY <2>1, StepsDo
    <2>3. x \notin After(d, ss)[i - 1].cols
      BY <2>2 DEF Possible, Makes
    <2>4. PICK j \in 1 .. i - 1 : TakenBy(ss[j], x)
      BY <1>4, <2>1, <2>3, ColumnsDone DEF ColumnsAt
    <2> QED
      BY <2>1, <2>4 DEF Taken, TakenBy
  <1> QED
    BY <1>1, <1>3, <1>4

\* What columns refer to after n statements: as before where none has taken the
\* column; as the column did that was moved there; or as a statement says.
LinksAt(d, ss, n) ==
    \A x, y : Linked(After(d, ss)[n], x, y) <=>
       (\/ (Linked(d, x, y) /\ \A i \in 1 .. n : ~TakenBy(ss[i], x))
        \/ \E i \in 1 .. n : (Moves(ss[i], x) /\ Linked(d, ss[i].col, y)) \/ Keys(ss[i], x, y))

(***************************************************************************)
(* What columns refer to after any number of such statements.              *)
(***************************************************************************)
LEMMA LinksDone ==
    ASSUME NEW d, NEW ss, Runs(d, ss), Ordered(ss), Taken(ss) \subseteq d.cols
    PROVE  \A n \in 0 .. Len(ss) : LinksAt(d, ss, n)
  <1>0. Len(ss) \in Nat /\ DOMAIN ss = 1 .. Len(ss) /\ After(d, ss)[0] = d
    BY StepsDo
  <1> DEFINE S == {n \in 0 .. Len(ss) : LinksAt(d, ss, n)}
  <1>1. 0 \in S
    <2>1. \A i \in 1 .. 0 : FALSE
      OBVIOUS
    <2>2. LinksAt(d, ss, 0)
      BY <1>0, <2>1 DEF LinksAt
    <2> QED
      BY <1>0, <2>2
  <1>2. ASSUME NEW n \in 0 .. Len(ss) - 1, n \in S PROVE n + 1 \in S
    <2> DEFINE A == After(d, ss)
               s == ss[n + 1]
    <2>1. /\ n + 1 \in 1 .. Len(ss) /\ A[n + 1] = Effect(A[n], s) /\ DbOK(A[n])
          /\ s \in Fitting(A[n].tabs) /\ \A i \in 1 .. n : i \in DOMAIN ss /\ i < n + 1
      BY <1>0, StepsDo
    <2>2. \A x, y : Linked(A[n + 1], x, y) <=>
             (\/ (Linked(A[n], x, y) /\ ~TakenBy(s, x))
              \/ (Moves(s, x) /\ Linked(A[n], s.col, y))
              \/ Keys(s, x, y))
      BY <2>1, EffectDoes
    <2>3. LinksAt(d, ss, n)
      BY <1>2
    <2>4. ASSUME NEW x, NEW i \in 1 .. n, Moves(ss[i], x) \/ (ss[i].op = "addKey" /\ ss[i].col = x)
          PROVE  ~TakenBy(s, x)
      <3>1. CASE Moves(ss[i], x)
        <4>1. Makes(ss[i], x)
          BY <3>1 DEF Moves, Makes
        <4> QED
          BY <1>0, <2>1, <4>1, MadeOnce
      <3>2. CASE ss[i].op = "addKey" /\ ss[i].col = x
        <4>1. PICK j \in 1 .. i - 1 : Makes(ss[j], x)
          BY <2>1, <3>2 DEF Ordered, Makes
        <4>2. j \in 1 .. n
          BY <1>0
        <4> QED
          BY <1>0, <2>1, <4>1, <4>2, MadeOnce
      <3> QED
        BY <2>4, <3>1, <3>2
    <2>5. \A x, y : \A i \in 1 .. n :
             ((Moves(ss[i], x) /\ Linked(d, ss[i].col, y)) \/ Keys(ss[i], x, y)) => ~TakenBy(s, x)
      <3> HIDE DEF s
      <3>1. ASSUME NEW x, NEW y, NEW i \in 1 .. n, Moves(ss[i], x) \/ Keys(ss[i], x, y)
            PROVE  ~TakenBy(s, x)
        BY <2>4, <3>1 DEF Keys
      <3> QED
        BY <3>1
    <2>6. \A i : i \in 1 .. n + 1 <=> i \in 1 .. n \/ i = n + 1
      OBVIOUS
    <2>7. ASSUME NEW x, NEW y, Moves(s, x) PROVE Linked(A[n], s.col, y) <=> Linked(d, s.col, y)
      <3>1. TakenBy(s, s.col)
        BY <2>7 DEF Moves, TakenBy, Takes
      <3>2. \A i \in 1 .. n : ~TakenBy(ss[i], s.col)
        BY <1>0, <2>1, <3>1 DEF Ordered, TakenBy
      <3>3. Linked(A[n], s.col, y) <=>
               (\/ (Linked(d, s.col, y) /\ \A i \in 1 .. n : ~TakenBy(ss[i], s.col))
                \/ \E i \in 1 .. n : \/ (Moves(ss[i], s.col) /\ Linked(d, ss[i].col, y))
                                     \/ Keys(ss[i], s.col, y))
        BY <2>3 DEF LinksAt
      <3> HIDE DEF s, A
      <3> QED
        BY <2>5, <3>1, <3>2, <3>3
    <2> HIDE DEF A, s
    <2>8. ASSUME NEW x, NEW y
          PROVE  Linked(A[n + 1], x, y) <=>
             (\/ (Linked(d, x, y) /\ \A i \in 1 .. n + 1 : ~TakenBy(ss[i], x))
              \/ \E i \in 1 .. n + 1 : (Moves(ss[i], x) /\ Linked(d, ss[i].col, y)) \/ Keys(ss[i], x, y))
      <3>1. Linked(A[n], x, y) <=>
             (\/ (Linked(d, x, y) /\ \A i \in 1 .. n : ~TakenBy(ss[i], x))
              \/ \E i \in 1 .. n : (Moves(ss[i], x) /\ Linked(d, ss[i].col, y)) \/ Keys(ss[i], x, y))
        BY <2>3 DEF LinksAt, A
      <3> QED
        BY <2>2, <2>5, <2>6, <2>7, <3>1 DEF s
    <2>9. LinksAt(d, ss, n + 1)
      BY <2>8 DEF LinksAt, A
    <2> QED
      BY <1>0, <2>1, <2>9
  <1>3. \A n \in 0 .. Len(ss) : n \in S
    <2>1. \A n \in 0 .. Len(ss) - 1 : n \in S => n + 1 \in S
      BY <1>2
    <2> HIDE DEF S
    <2> QED
      BY <1>0, <1>1, <2>1, Counting
  <1> QED
    BY <1>3

\* The junction tables after n statements.
JunctionsAt(d, ss, n) ==
    \A x : x \in After(d, ss)[n].junctions <=>
       (/\ x \in d.junctions \/ \E i \in 1 .. n : ss[i].op = "createTable" /\ ss[i].col = x
        /\ \A i \in 1 .. n : ~(ss[i].op = "dropTable" /\ ss[i].col = x))

(***************************************************************************)
(* The junction tables after any number of statements that rename none and *)
(* drop none that they make.                                               *)
(***************************************************************************)
LEMMA JunctionsDone ==
    ASSUME NEW d, NEW ss, Runs(d, ss), \A i \in DOMAIN ss : ss[i].op # "renameTable",
           \A i, j \in DOMAIN ss :
              ss[i].op = "createTable" /\ ss[j].op = "dropTable" => ss[i].col # ss[j].col
    PROVE  \A n \in 0 .. Len(ss) : JunctionsAt(d, ss, n)
  <1>0. Len(ss) \in Nat /\ DOMAIN ss = 1 .. Len(ss) /\ After(d, ss)[0] = d
    BY StepsDo
  <1> DEFINE S == {n \in 0 .. Len(ss) : JunctionsAt(d, ss, n)}
  <1>1. 0 \in S
    <2>1. \A i \in 1 .. 0 : FALSE
      OBVIOUS
    <2>2. JunctionsAt(d, ss, 0)
      BY <1>0, <2>1 DEF JunctionsAt
    <2> QED
      BY <1>0, <2>2
  <1>2. ASSUME NEW n \in 0 .. Len(ss) - 1, n \in S PROVE n + 1 \in S
    <2> DEFINE A == After(d, ss)
               s == ss[n + 1]
    <2>1. /\ n + 1 \in 1 .. Len(ss) /\ A[n + 1] = Effect(A[n], s) /\ DbOK(A[n])
          /\ s \in Fitting(A[n].tabs) /\ \A i \in 1 .. n : i \in DOMAIN ss
      BY <1>0, StepsDo
    <2>2. \A x : x \in A[n + 1].junctions <=>
                    (/\ x \in A[n].junctions \/ (s.op = "createTable" /\ s.col = x)
                     /\ ~(s.op = "dropTable" /\ s.col = x))
      BY <1>0, <2>1, EffectDoes
    <2>3. JunctionsAt(d, ss, n)
      BY <1>2
    <2>4. \A i : i \in 1 .. n + 1 <=> i \in 1 .. n \/ i = n + 1
      OBVIOUS
    <2>5. \A i \in 1 .. n : ~(s.op = "createTable" /\ ss[i].op = "dropTable" /\ s.col = ss[i].col)
      BY <1>0, <2>1
    <2> HIDE DEF A, s
    <2>6. ASSUME NEW x
          PROVE  x \in A[n + 1].junctions <=>
             (/\ x \in d.junctions \/ \E i \in 1 .. n + 1 : ss[i].op = "createTable" /\ ss[i].col = x
              /\ \A i \in 1 .. n + 1 : ~(ss[i].op = "dropTable" /\ ss[i].col = x))
      <3>1. x \in A[n].junctions <=>
             (/\ x \in d.junctions \/ \E i \in 1 .. n : ss[i].op = "createTable" /\ ss[i].col = x
              /\ \A i \in 1 .. n : ~(ss[i].op = "dropTable" /\ ss[i].col = x))
        BY <2>3 DEF JunctionsAt, A
      <3> QED
        BY <2>2, <2>4, <2>5, <3>1 DEF s
    <2>7. JunctionsAt(d, ss, n + 1)
      BY <2>6 DEF JunctionsAt, A
    <2> QED
      BY <1>0, <2>1, <2>7
  <1>3. \A n \in 0 .. Len(ss) : n \in S
    <2>1. \A n \in 0 .. Len(ss) - 1 : n \in S => n + 1 \in S
      BY <1>2
    <2> HIDE DEF S
    <2> QED
      BY <1>0, <1>1, <2>1, Counting
  <1> QED
    BY <1>3

-----------------------------------------------------------------------------
\* Rows.

\* A one-to-many relation has an inverse; many-to-many ones have junction tables.
RowOK(r) ==
    /\ r.inv \in Prop \cup {NoProp} /\ (r.type = O2M => r.inv # NoProp)
    /\ IF r.type = M2M THEN r.jt \in Junction /\ r.jt[1] = r.from ELSE r.jt = NoJunction

\* Rows with ids below n, of tables in T, no two with one id or one property.
RelsOK(rs, T, n) ==
    /\ rs \subseteq Relation
    /\ \A r, s \in rs : (r.id = s.id \/ <<r.from, r.prop>> = <<s.from, s.prop>>) => r = s
    /\ \A r \in rs : r.id < n /\ r.from \in T /\ r.to \in T /\ RowOK(r)

\* Relations as a cache has them, generated inverses included.
KnownRelation == [id : Int, type : {M2O, O2O, O2M, M2M}, prop : Prop, inv : Prop \cup {NoProp},
                  to : Tab, fk : Prop, jt : Junction \cup {NoJunction}]

KnownRows(rs) ==
    /\ rs \subseteq KnownRelation /\ IsFiniteSet(rs)
    /\ \A r \in rs : r.type = M2M => r.jt \in Junction
    /\ \A r, s \in rs : r.id > 0 /\ r.id = s.id => r = s

(***************************************************************************)
(* The image of a finite set is finite.                                    *)
(***************************************************************************)
LEMMA FiniteImage ==
    ASSUME NEW S, IsFiniteSet(S), NEW f, DOMAIN f = S, f = [x \in S |-> f[x]]
    PROVE  IsFiniteSet({f[x] : x \in S})
  <1>1. f \in Surjection(S, {f[x] : x \in S})
    BY DEF Surjection
  <1> QED
    BY <1>1, FS_Surjection

(***************************************************************************)
(* Rows with different ids are finitely many.                              *)
(***************************************************************************)
LEMMA FiniteRelations ==
    ASSUME NEW rs \in SUBSET Relation, \A r, s \in rs : r.id = s.id => r = s
    PROVE  IsFiniteSet(rs)
  <1> DEFINE f == [r \in rs |-> r.id]
  <1>1. f \in Injection(rs, 1 .. MaxRel)
    BY DEF Injection, IsInjective, Relation
  <1>2. IsFiniteSet(1 .. MaxRel)
    BY MigAssumption, FS_Interval
  <1> QED
    BY <1>1, <1>2, FS_Injection

(***************************************************************************)
(* The fields of a relation.                                               *)
(***************************************************************************)
LEMMA RelationIs ==
    \A r \in Relation :
       /\ r.id \in 1 .. MaxRel /\ r.id \in Int /\ r.id > 0 /\ r.from \in Tab /\ r.to \in Tab
       /\ r.type \in {M2O, O2O, O2M, M2M} /\ r.prop \in Prop /\ r.inv \in Prop \cup {NoProp}
       /\ r.jt \in Junction \cup {NoJunction}
  BY MigAssumption DEF Relation

(***************************************************************************)
(* The relations that the cache generates have negative ids.               *)
(***************************************************************************)
LEMMA GeneratedIs ==
    ASSUME NEW rs, NEW d, NEW T, NEW n, RelsOK(rs, T, n), NEW tb \in Tab
    PROVE  /\ Generated(tb, rs, d) \subseteq KnownRelation /\ IsFiniteSet(Generated(tb, rs, d))
           /\ \A r \in Generated(tb, rs, d) : r.id < 0 /\ (r.type = M2M => r.jt \in Junction)
  <1> DEFINE new(r) == [id |-> 0 - r.id, type |-> InverseType(r.type), prop |-> r.inv, inv |-> r.prop,
                        to |-> r.from, jt |-> r.jt,
                        fk |-> IF r.type = M2O THEN r.prop ELSE r.inv]
  <1>1. PICK S \in SUBSET rs : /\ \A r \in S : r.inv # NoProp
                             /\ Generated(tb, rs, d) = {new(r) : r \in S}
    <2> DEFINE PropsIn(Z) == {r.prop : r \in Z}
               Origins == {r \in rs : /\ r.to = tb /\ r.inv # NoProp /\ Readable(r.from, rs, d)
                                      /\ r.inv \notin PropsIn({s \in rs : s.from = tb})}
               S == {s \in Origins : \A x \in Origins : x.inv = s.inv => s.id <= x.id}
    <2>1. Generated(tb, rs, d) = {new(r) : r \in S}
      BY DEF Generated
    <2>2. S \in SUBSET rs /\ \A r \in S : r.inv # NoProp
      OBVIOUS
    <2> HIDE DEF S, new
    <2> QED
      BY <2>1, <2>2
  <1>2. ASSUME NEW r \in S
        PROVE  new(r) \in KnownRelation /\ new(r).id < 0 /\ (new(r).type = M2M => new(r).jt \in Junction)
    <2>1. r \in Relation /\ RowOK(r) /\ r.inv \in Prop
      BY <1>1, RelationIs DEF RelsOK
    <2>2. InverseType(r.type) \in {M2O, O2O, O2M, M2M} /\ (InverseType(r.type) = M2M => r.type = M2M)
      BY <2>1, RelationIs DEF InverseType, M2O, O2O, O2M, M2M
    <2> QED
      BY <2>1, <2>2, RelationIs DEF KnownRelation, RowOK
  <1>3. IsFiniteSet(S)
    <2>1. IsFiniteSet(rs)
      BY FiniteRelations DEF RelsOK
    <2> QED
      BY <2>1, FS_Subset
  <1>4. IsFiniteSet({new(r) : r \in S})
    <2> DEFINE f == [r \in S |-> new(r)]
    <2>1. f \in Surjection(S, {new(r) : r \in S})
      <3> HIDE DEF new
      <3> QED
        BY DEF Surjection
    <2> HIDE DEF f, new
    <2> QED
      BY <1>3, <2>1, FS_Surjection
  <1> HIDE DEF new
  <1> QED
    BY <1>1, <1>2, <1>4

(***************************************************************************)
(* What a reload makes of a table that it can read.                        *)
(***************************************************************************)
LEMMA LoadIs ==
    ASSUME NEW rs, NEW d, NEW T, NEW n, RelsOK(rs, T, n), NEW tb \in Tab, Load(rs, d)[tb] # {NoTab}
    PROVE  /\ Readable(tb, rs, d) /\ KnownRows(Load(rs, d)[tb])
           /\ Load(rs, d)[tb] = {KnownRow(r, d) : r \in {s \in rs : s.from = tb}}
                                \cup Generated(tb, rs, d)
  <1> DEFINE own == {s \in rs : s.from = tb}
             here == {KnownRow(r, d) : r \in own}
  <1>1. Readable(tb, rs, d) /\ Load(rs, d)[tb] = here \cup Generated(tb, rs, d)
    BY DEF Load
  <1>2. ASSUME NEW r \in own
        PROVE  /\ KnownRow(r, d) \in KnownRelation /\ KnownRow(r, d).id = r.id /\ r.id > 0
               /\ (KnownRow(r, d).type = M2M => KnownRow(r, d).jt \in Junction)
    <2>1. r \in Relation /\ RowOK(r)
      BY DEF RelsOK
    <2>2. r.type = O2O => ForeignKey(r, d) # NoProp
      BY <1>1 DEF Readable
    <2>3. ForeignKey(r, d) \in Prop
      BY <2>1, <2>2, RelationIs DEF ForeignKey, RowOK
    <2> QED
      BY <2>1, <2>3, RelationIs DEF KnownRow, KnownRelation, RowOK
  <1>3. IsFiniteSet(here)
    <2>1. IsFiniteSet(rs)
      BY FiniteRelations DEF RelsOK
    <2>2. IsFiniteSet(own)
      BY <2>1, FS_Subset
    <2> DEFINE f == [r \in own |-> KnownRow(r, d)]
    <2>3. f \in Surjection(own, here)
      BY DEF Surjection
    <2> HIDE DEF f, own, here
    <2> QED
      BY <2>2, <2>3, FS_Surjection
  <1>4. /\ Generated(tb, rs, d) \subseteq KnownRelation /\ IsFiniteSet(Generated(tb, rs, d))
        /\ \A r \in Generated(tb, rs, d) : r.id < 0 /\ (r.type = M2M => r.jt \in Junction)
    BY GeneratedIs
  <1>5. \A r, s \in own : r.id = s.id => r = s
    BY DEF RelsOK
  <1>6. here \subseteq KnownRelation /\ \A r \in here : r.type = M2M => r.jt \in Junction
    BY <1>2
  <1>7. \A r, s \in here : r.id = s.id => r = s
    BY <1>2, <1>5
  <1> HIDE DEF here
  <1>8. IsFiniteSet(here \cup Generated(tb, rs, d))
    BY <1>3, <1>4, FS_Union
  <1>9. ASSUME NEW r \in here \cup Generated(tb, rs, d), NEW s \in here \cup Generated(tb, rs, d),
               r.id > 0, r.id = s.id
        PROVE  r = s
    <2>1. r \in KnownRelation /\ s \in KnownRelation
      BY <1>4, <1>6
    <2>2. r.id \in Int /\ s.id \in Int
      BY <2>1 DEF KnownRelation
    <2>3. r \in here /\ s \in here
      BY <1>4, <1>9, <2>2
    <2> QED
      BY <1>7, <1>9, <2>3
  <1>10. KnownRows(here \cup Generated(tb, rs, d))
    BY <1>4, <1>6, <1>8, <1>9 DEF KnownRows
  <1> QED
    BY <1>1, <1>10 DEF here

-----------------------------------------------------------------------------
\* Bodies.

\* The relations in the body of an update: new ones and edited ones.
BodyOK(tb, R) ==
    /\ R \subseteq Relation
    /\ \A r \in R : r.from = tb /\ r.to \in db.tabs /\ RowOK(r)
    /\ \A r, s \in R : (r.id = s.id \/ r.prop = s.prop) => r = s
    /\ \A r \in R : \/ r \in NewRelations(tb)
                   \/ \E s \in Own(tb) : r.id = s.id /\ r.type = s.type /\ r.jt = s.jt

(***************************************************************************)
(* A relation added by a body has the next id, and the junction table that *)
(* its names make.                                                         *)
(***************************************************************************)
LEMMA NewRelationsAre ==
    ASSUME DbOK(db), NEW tb \in Tab, NEW r \in NewRelations(tb), nextRel \in 1 .. MaxRel + 1
    PROVE  /\ r \in Relation /\ r.id = nextRel /\ nextRel + 1 \in 1 .. MaxRel + 1
           /\ r.from = tb /\ r.to \in db.tabs /\ RowOK(r)
           /\ r.type = M2M => r.jt = <<tb, r.prop, r.to>>
  <1>1. PICK ty \in {M2O, O2O, O2M, M2M}, pr \in Prop, iv \in InvNames, x \in db.tabs :
           r = [id |-> nextRel, from |-> tb, type |-> ty, prop |-> pr, inv |-> iv, to |-> x,
                jt |-> JunctionOf(ty, <<tb, pr>>, x)]
    <2> DEFINE rel(ty, pr, iv, x) == [id |-> nextRel, from |-> tb, type |-> ty, prop |-> pr,
                                      inv |-> iv, to |-> x, jt |-> JunctionOf(ty, <<tb, pr>>, x)]
    <2>1. r \in AnyRelation(tb)
      BY DEF NewRelations
    <2>2. AnyRelation(tb) = {rel(ty, pr, iv, x) : ty \in {M2O, O2O, O2M, M2M}, pr \in Prop,
                                                 iv \in InvNames, x \in db.tabs}
      BY DEF AnyRelation
    <2> HIDE DEF rel
    <2>3. \E ty \in {M2O, O2O, O2M, M2M}, pr \in Prop, iv \in InvNames, x \in db.tabs :
             r = rel(ty, pr, iv, x)
      BY <2>1, <2>2
    <2> QED
      BY <2>3 DEF rel
  <1>2. nextRel <= MaxRel /\ (r.type = O2M => r.inv # NoProp)
    BY MigAssumption DEF NewRelations
  <1>3. x \in Tab /\ iv \in Prop \cup {NoProp}
    BY MigAssumption DEF DbOK, DbTypes
  <1>4. /\ JunctionOf(ty, <<tb, pr>>, x) \in Junction \cup {NoJunction}
        /\ ty = M2M => /\ JunctionOf(ty, <<tb, pr>>, x) = <<tb, pr, x>>
                       /\ <<tb, pr, x>> \in Junction /\ <<tb, pr, x>>[1] = tb
        /\ ty # M2M => JunctionOf(ty, <<tb, pr>>, x) = NoJunction
    BY <1>3 DEF JunctionOf, Junction
  <1>5. nextRel \in 1 .. MaxRel /\ nextRel + 1 \in 1 .. MaxRel + 1
    BY <1>2, MigAssumption
  <1>6. r \in Relation
    BY <1>1, <1>3, <1>4, <1>5 DEF Relation
  <1>7. RowOK(r)
    BY <1>1, <1>2, <1>3, <1>4 DEF RowOK
  <1> QED
    BY <1>1, <1>4, <1>5, <1>6, <1>7

(***************************************************************************)
(* An edited row keeps its id, its type and its junction table.            *)
(***************************************************************************)
LEMMA EditsAre ==
    ASSUME DbOK(db), NEW r \in Relation, RowOK(r), NEW s \in Edits(r)
    PROVE  /\ s \in Relation /\ s.id = r.id /\ s.type = r.type /\ s.jt = r.jt /\ s.from = r.from
           /\ s.to \in db.tabs /\ RowOK(s)
  <1>1. PICK pr \in Prop, iv \in InvNames, x \in db.tabs :
           s = [r EXCEPT !.prop = pr, !.inv = iv, !.to = x]
    <2> DEFINE rel(pr, iv, x) == [r EXCEPT !.prop = pr, !.inv = iv, !.to = x]
    <2>1. s \in AnyEdit(r)
      BY DEF Edits
    <2>2. AnyEdit(r) = {rel(pr, iv, x) : pr \in Prop, iv \in InvNames, x \in db.tabs}
      BY DEF AnyEdit
    <2> HIDE DEF rel
    <2>3. \E pr \in Prop, iv \in InvNames, x \in db.tabs : s = rel(pr, iv, x)
      BY <2>1, <2>2
    <2> QED
      BY <2>3 DEF rel
  <1>2. s.type = O2M => s.inv # NoProp
    BY DEF Edits
  <1>3. x \in Tab /\ iv \in Prop \cup {NoProp}
    BY MigAssumption DEF DbOK, DbTypes
  <1>4. /\ s \in Relation /\ s.id = r.id /\ s.type = r.type /\ s.jt = r.jt /\ s.from = r.from
        /\ s.to = x /\ s.inv = iv
    BY <1>1, <1>3 DEF Relation
  <1> QED
    BY <1>2, <1>3, <1>4 DEF RowOK

(***************************************************************************)
(* The rows that a body asks for are rows, new or edited, with ids and     *)
(* names of their own.                                                     *)
(***************************************************************************)
LEMMA BodiesAre ==
    ASSUME DbOK(db), RelsOK(rels, db.tabs, nextRel), nextRel \in 1 .. MaxRel + 1,
           NEW tb \in Tab, NEW R \in RelBodies(tb)
    PROVE  BodyOK(tb, R)
  <1> DEFINE Bases == UNION {{K} \cup UNION {{(K \ {r}) \cup {s} : s \in Edits(r)} : r \in K} :
                           K \in SUBSET Own(tb)}
             All == Bases \cup UNION {{B \cup {r} : B \in Bases} : r \in NewRelations(tb)}
             Base(r) == /\ r \in Relation /\ r.from = tb /\ r.to \in db.tabs /\ RowOK(r)
                        /\ r.id < nextRel
                        /\ \E s \in Own(tb) : r.id = s.id /\ r.type = s.type /\ r.jt = s.jt
  <1>1. R \in All /\ \A r, s \in R : r.prop = s.prop => r = s
    BY DEF RelBodies
  <1>2. ASSUME NEW r \in Own(tb) PROVE Base(r)
    BY DEF Own, RelsOK
  <1>3. \A r, s \in Own(tb) : r.id = s.id => r = s
    BY DEF Own, RelsOK
  <1>4. ASSUME NEW r \in Own(tb), NEW s \in Edits(r) PROVE Base(s) /\ s.id = r.id
    <2>1. r \in Relation /\ RowOK(r) /\ r.from = tb /\ r.id < nextRel
      BY <1>2
    <2> QED
      BY <2>1, EditsAre
  <1> HIDE DEF Base
  <1>5. ASSUME NEW B \in Bases
        PROVE  (\A r \in B : Base(r)) /\ \A r, s \in B : r.id = s.id => r = s
    <2>1. PICK K \in SUBSET Own(tb) :
             B = K \/ \E r \in K : \E s \in Edits(r) : B = (K \ {r}) \cup {s}
      BY <1>5
    <2>2. CASE B = K
      BY <1>2, <1>3, <2>1, <2>2
    <2>3. ASSUME NEW r \in K, NEW s \in Edits(r), B = (K \ {r}) \cup {s}
          PROVE  (\A x \in B : Base(x)) /\ \A x, y \in B : x.id = y.id => x = y
      <3>1. Base(s) /\ s.id = r.id /\ r \in Own(tb)
        BY <1>4, <2>1
      <3>2. \A x \in K : x \in Own(tb)
        BY <2>1
      <3> QED
        BY <1>2, <1>3, <2>3, <3>1, <3>2
    <2> QED
      BY <2>1, <2>2, <2>3
  <1>6. ASSUME NEW r \in NewRelations(tb)
        PROVE  r \in Relation /\ r.from = tb /\ r.to \in db.tabs /\ RowOK(r) /\ r.id = nextRel
    BY NewRelationsAre
  <1> HIDE DEF Bases
  <1>7. \/ R \in Bases
        \/ \E r \in NewRelations(tb), B \in Bases : R = B \cup {r}
    BY <1>1
  <1> HIDE DEF All
  <1>8. CASE R \in Bases
    BY <1>1, <1>5, <1>8 DEF BodyOK, Base
  <1>9. ASSUME NEW n \in NewRelations(tb), NEW B \in Bases, R = B \cup {n}
        PROVE  BodyOK(tb, R)
    <2>1. \A r \in B : r.id # n.id
      <3>1. ASSUME NEW r \in B PROVE r.id # n.id
        <4>1. r.id < nextRel /\ r.id \in Int /\ n.id = nextRel
          BY <1>5, <1>6, RelationIs DEF Base
        <4> QED
          BY <4>1
      <3> QED
        BY <3>1
    <2>2. \A r, s \in R : r.id = s.id => r = s
      BY <1>5, <1>9, <2>1
    <2>3. \A r \in R : r = n \/ (r \in B /\ Base(r))
      BY <1>5, <1>9
    <2> QED
      BY <1>1, <1>6, <2>2, <2>3 DEF BodyOK, Base
  <1> QED
    BY <1>7, <1>8, <1>9
-----------------------------------------------------------------------------
\* The statements of an update.

\* The statements for each row of a sequence.
Images(s, f) == [i \in DOMAIN s |-> f[s[i]]]

(***************************************************************************)
(* The statements made for each row of a sequence, row by row.             *)
(***************************************************************************)
LEMMA EachIs ==
    ASSUME NEW X, NEW S, NEW s \in Seq(S), Range(s) = S, NEW f, \A r \in S : f[r] \in Seq(X)
    PROVE  /\ FlattenSeq(Images(s, f)) \in Seq(X)
           /\ \A x : x \in Range(FlattenSeq(Images(s, f))) <=> \E r \in S : x \in Range(f[r])
           /\ (/\ \A r \in S : Ordered(f[r])
               /\ \A i, j \in DOMAIN s : i # j => Taken(f[s[i]]) \cap Taken(f[s[j]]) = {})
              => Ordered(FlattenSeq(Images(s, f)))
  <1> DEFINE g == Images(s, f)
             n == Len(s)
             Y == Seq(X)
  <1>1. DOMAIN s = 1 .. n /\ n \in Nat /\ \A i \in DOMAIN s : s[i] \in S
    OBVIOUS
  <1>2. g \in [1 .. n -> Y] /\ DOMAIN g = DOMAIN s /\ \A i \in DOMAIN s : g[i] = f[s[i]]
    <2> HIDE DEF n, Y
    <2>1. \A i \in DOMAIN s : f[s[i]] \in Y
      BY <1>1 DEF Y
    <2> QED
      BY <1>1, <2>1 DEF Images
  <1> HIDE DEF g
  <1>3. g \in Seq(Seq(X))
    <2> HIDE DEF Y, n
    <2>1. g \in Seq(Y)
      BY <1>1, <1>2
    <2> QED
      BY <2>1 DEF Y
  <1> HIDE DEF Y, n
  <1>4. FlattenSeq(g) \in Seq(X) /\ Range(FlattenSeq(g)) = UNION {Range(g[i]) : i \in DOMAIN g}
    BY <1>3, FlattenRange
  <1>5. \A x : x \in UNION {Range(g[i]) : i \in DOMAIN g} <=> \E r \in S : x \in Range(f[r])
    <2>1. \A r \in S : \E i \in DOMAIN s : s[i] = r
      BY DEF Range
    <2>2. \A x : x \in UNION {Range(g[i]) : i \in DOMAIN g} <=> \E i \in DOMAIN g : x \in Range(g[i])
      OBVIOUS
    <2> QED
      BY <1>1, <1>2, <2>1, <2>2
  <1>6. (/\ \A r \in S : Ordered(f[r])
         /\ \A i, j \in DOMAIN s : i # j => Taken(f[s[i]]) \cap Taken(f[s[j]]) = {})
        => Ordered(FlattenSeq(g))
    <2> SUFFICES ASSUME \A r \in S : Ordered(f[r]),
                        \A i, j \in DOMAIN s : i # j => Taken(f[s[i]]) \cap Taken(f[s[j]]) = {}
                 PROVE  Ordered(FlattenSeq(g))
      OBVIOUS
    <2>1. \A i \in DOMAIN g : Ordered(g[i])
      BY <1>1, <1>2
    <2>2. \A i, j \in DOMAIN g : i # j => Taken(g[i]) \cap Taken(g[j]) = {}
      BY <1>2
    <2> QED
      BY <1>3, <2>1, <2>2, FlattenOrdered
  <1> QED
    BY <1>4, <1>5, <1>6 DEF g

(***************************************************************************)
(* The fields of a statement.                                              *)
(***************************************************************************)
LEMMA StmtIs ==
    \A x, y, z : Stmt(x, y, z).op = x /\ Stmt(x, y, z).col = y /\ Stmt(x, y, z).new = z
  BY DEF Stmt

(***************************************************************************)
(* Lists of at most two statements.                                        *)
(***************************************************************************)
LEMMA ShortLists ==
    /\ \A X : <<>> \in Seq(X)
    /\ \A X : \A x \in X : <<x>> \in Seq(X)
    /\ \A X : \A x, y \in X : <<x, y>> \in Seq(X)
    /\ Range(<<>>) = {} /\ Taken(<<>>) = {} /\ Ordered(<<>>)
    /\ \A x : Range(<<x>>) = {x}
    /\ \A x, y : Range(<<x, y>>) = {x, y}
    /\ \A x : x.op # "addKey" => Ordered(<<x>>)
  <1>1. DOMAIN <<>> = {}
    OBVIOUS
  <1>2. Range(<<>>) = {} /\ Taken(<<>>) = {} /\ Ordered(<<>>)
    BY <1>1 DEF Range, Taken, Ordered
  <1>3. ASSUME NEW x PROVE DOMAIN <<x>> = {1} /\ <<x>>[1] = x
    OBVIOUS
  <1>4. ASSUME NEW x, NEW y
        PROVE DOMAIN <<x, y>> = {1, 2} /\ <<x, y>>[1] = x /\ <<x, y>>[2] = y
    OBVIOUS
  <1>5. ASSUME NEW x PROVE Range(<<x>>) = {x} /\ (x.op # "addKey" => Ordered(<<x>>))
    BY <1>3 DEF Range, Ordered
  <1>6. ASSUME NEW x, NEW y PROVE Range(<<x, y>>) = {x, y}
    BY <1>4 DEF Range
  <1> QED
    BY <1>2, <1>5, <1>6

(***************************************************************************)
(* A column is added with its constraint after it.                         *)
(***************************************************************************)
LEMMA AddColumnIs ==
    ASSUME NEW T, NEW c \in LinkColumn, c[1] \in T, NEW x \in Tab
    PROVE  /\ AddColumn(c, x) \in Seq(Fitting(T)) /\ Ordered(AddColumn(c, x))
           /\ Taken(AddColumn(c, x)) = {}
           /\ Range(AddColumn(c, x)) = {Stmt("addColumn", c, NoTab), Stmt("addKey", c, x)}
  <1> DEFINE s1 == Stmt("addColumn", c, NoTab)
             s2 == Stmt("addKey", c, x)
  <1>1. s1.op = "addColumn" /\ s1.col = c /\ s2.op = "addKey" /\ s2.col = c
    BY DEF Stmt
  <1>2. s1 \in Fitting(T) /\ s2 \in Fitting(T)
    BY DEF Stmt, Fitting, Ops
  <1> HIDE DEF s1, s2
  <1>3. AddColumn(c, x) = <<s1, s2>>
    BY DEF AddColumn, s1, s2
  <1>4. DOMAIN <<s1, s2>> = {1, 2} /\ <<s1, s2>>[1] = s1 /\ <<s1, s2>>[2] = s2 /\ 1 \in 1 .. 2 - 1
    OBVIOUS
  <1>5. Ordered(<<s1, s2>>) /\ Taken(<<s1, s2>>) = {}
    BY <1>1, <1>4 DEF Ordered, Taken, Takes
  <1>6. <<s1, s2>> \in Seq(Fitting(T)) /\ Range(<<s1, s2>>) = {s1, s2}
    BY <1>2, ShortLists
  <1> QED
    BY <1>3, <1>5, <1>6 DEF s1, s2

\* For the rows in W one statement, for the others none.
One(s, W, st) == [i \in DOMAIN s |-> IF s[i] \in W THEN <<st[s[i]]>> ELSE <<>>]

(***************************************************************************)
(* At most one statement for each row.                                     *)
(***************************************************************************)
LEMMA EachOne ==
    ASSUME NEW X, NEW S, NEW s \in Seq(S), Range(s) = S, NEW W \in SUBSET S,
           NEW st, \A r \in W : st[r] \in X /\ st[r].op # "addKey"
    PROVE  /\ FlattenSeq(One(s, W, st)) \in Seq(X)
           /\ \A x : x \in Range(FlattenSeq(One(s, W, st))) <=> \E r \in W : x = st[r]
           /\ (/\ \A i, j \in DOMAIN s : s[i] = s[j] => i = j
               /\ \A r, x \in W : Takes(st[r]) /\ Takes(st[x]) /\ st[r].col = st[x].col => r = x)
              => Ordered(FlattenSeq(One(s, W, st)))
  <1> DEFINE f == [r \in S |-> IF r \in W THEN <<st[r]>> ELSE <<>>]
  <1>1. \A i \in DOMAIN s : s[i] \in S
    OBVIOUS
  <1>2. One(s, W, st) = Images(s, f)
    BY <1>1 DEF One, Images
  <1>3. \A r \in S : /\ r \in W => f[r] = <<st[r]>>
                     /\ r \notin W => f[r] = <<>>
    OBVIOUS
  <1> HIDE DEF f
  <1>4. \A r \in S : f[r] \in Seq(X) /\ Ordered(f[r])
    <2>1. \A r \in W : <<st[r]>> \in Seq(X) /\ Ordered(<<st[r]>>)
      BY ShortLists
    <2>2. <<>> \in Seq(X) /\ Ordered(<<>>)
      BY ShortLists
    <2> QED
      BY <1>3, <2>1, <2>2
  <1>5. \A r \in S : \A x : x \in Range(f[r]) <=> r \in W /\ x = st[r]
    <2>1. ASSUME NEW r \in S, NEW x PROVE x \in Range(f[r]) <=> r \in W /\ x = st[r]
      <3>1. CASE r \in W
        <4>1. Range(f[r]) = {st[r]}
          BY <1>3, <3>1, ShortLists
        <4> QED
          BY <3>1, <4>1
      <3>2. CASE r \notin W
        <4>1. Range(f[r]) = {}
          BY <1>3, <3>2, ShortLists
        <4> QED
          BY <3>2, <4>1
      <3> QED
        BY <3>1, <3>2
    <2> QED
      BY <2>1
  <1>6. /\ FlattenSeq(Images(s, f)) \in Seq(X)
        /\ \A x : x \in Range(FlattenSeq(Images(s, f))) <=> \E r \in S : x \in Range(f[r])
    BY <1>4, EachIs
  <1>7. ASSUME \A i, j \in DOMAIN s : s[i] = s[j] => i = j,
               \A r, x \in W : Takes(st[r]) /\ Takes(st[x]) /\ st[r].col = st[x].col => r = x
        PROVE  Ordered(FlattenSeq(Images(s, f)))
    <2>1. ASSUME NEW i \in DOMAIN s, NEW j \in DOMAIN s, i # j
          PROVE  Taken(f[s[i]]) \cap Taken(f[s[j]]) = {}
      <3>1. s[i] # s[j] /\ s[i] \in S /\ s[j] \in S
        BY <1>1, <1>7, <2>1
      <3>2. ASSUME NEW x \in Taken(f[s[i]]), x \in Taken(f[s[j]]) PROVE FALSE
        <4>1. PICK y \in Range(f[s[i]]) : Takes(y) /\ x = y.col
          BY <3>2, TakenIs
        <4>2. PICK z \in Range(f[s[j]]) : Takes(z) /\ x = z.col
          BY <3>2, TakenIs
        <4>3. s[i] \in W /\ y = st[s[i]] /\ s[j] \in W /\ z = st[s[j]]
          BY <1>5, <3>1, <4>1, <4>2
        <4> QED
          BY <1>7, <3>1, <4>1, <4>2, <4>3
      <3> QED
        BY <3>2
    <2>2. \A i, j \in DOMAIN s : i # j => Taken(f[s[i]]) \cap Taken(f[s[j]]) = {}
      BY <2>1
    <2> QED
      BY <1>4, <2>2, EachIs
  <1> QED
    BY <1>2, <1>5, <1>6, <1>7

\* For the rows in W a column and its constraint, for the others nothing.
Columns(s, W, c, to) == [i \in DOMAIN s |-> IF s[i] \in W THEN AddColumn(c[s[i]], to[s[i]]) ELSE <<>>]

ColumnStmts(W, c, to) ==
    {Stmt("addColumn", c[r], NoTab) : r \in W} \cup {Stmt("addKey", c[r], to[r]) : r \in W}

\* The sequence lists the statements X, in an order that can be executed.
Lists(T, qs, X) == qs \in Seq(Fitting(T)) /\ Ordered(qs) /\ Range(qs) = X

(***************************************************************************)
(* At most one column added for each row.                                  *)
(***************************************************************************)
LEMMA EachColumn ==
    ASSUME NEW T, NEW S, NEW s \in Seq(S), Range(s) = S, NEW W \in SUBSET S, NEW c, NEW to,
           \A r \in W : c[r] \in LinkColumn /\ c[r][1] \in T /\ to[r] \in Tab
    PROVE  Lists(T, FlattenSeq(Columns(s, W, c, to)), ColumnStmts(W, c, to))
  <1> DEFINE f == [r \in S |-> IF r \in W THEN AddColumn(c[r], to[r]) ELSE <<>>]
             s1(r) == Stmt("addColumn", c[r], NoTab)
             s2(r) == Stmt("addKey", c[r], to[r])
  <1>1. \A i \in DOMAIN s : s[i] \in S
    OBVIOUS
  <1>2. Columns(s, W, c, to) = Images(s, f)
    BY <1>1 DEF Columns, Images
  <1>3. \A r \in S : /\ r \in W => f[r] = AddColumn(c[r], to[r])
                     /\ r \notin W => f[r] = <<>>
    OBVIOUS
  <1>4. ASSUME NEW r \in W
        PROVE  /\ AddColumn(c[r], to[r]) \in Seq(Fitting(T)) /\ Ordered(AddColumn(c[r], to[r]))
               /\ Taken(AddColumn(c[r], to[r])) = {}
               /\ Range(AddColumn(c[r], to[r])) = {s1(r), s2(r)}
    BY AddColumnIs
  <1> HIDE DEF f, s1, s2
  <1>5. \A r \in S : f[r] \in Seq(Fitting(T)) /\ Ordered(f[r]) /\ Taken(f[r]) = {}
    BY <1>3, <1>4, ShortLists
  <1>6. \A r \in S : \A x : x \in Range(f[r]) <=> r \in W /\ (x = s1(r) \/ x = s2(r))
    <2>1. ASSUME NEW r \in S, NEW x
          PROVE x \in Range(f[r]) <=> r \in W /\ (x = s1(r) \/ x = s2(r))
      <3>1. CASE r \in W
        <4>1. Range(f[r]) = {s1(r), s2(r)}
          BY <1>3, <1>4, <3>1
        <4> QED
          BY <3>1, <4>1
      <3>2. CASE r \notin W
        <4>1. Range(f[r]) = {}
          BY <1>3, <3>2, ShortLists
        <4> QED
          BY <3>2, <4>1
      <3> QED
        BY <3>1, <3>2
    <2> QED
      BY <2>1
  <1>8. \A i, j \in DOMAIN s : i # j => Taken(f[s[i]]) \cap Taken(f[s[j]]) = {}
    BY <1>1, <1>5
  <1> DEFINE X == Fitting(T)
  <1> HIDE DEF X
  <1>9. \A r \in S : f[r] \in Seq(X) /\ Ordered(f[r])
    BY <1>5 DEF X
  <1>10. /\ FlattenSeq(Images(s, f)) \in Seq(X)
         /\ \A x : x \in Range(FlattenSeq(Images(s, f))) <=> \E r \in S : x \in Range(f[r])
         /\ Ordered(FlattenSeq(Images(s, f)))
    <2>1. /\ FlattenSeq(Images(s, f)) \in Seq(X)
          /\ \A x : x \in Range(FlattenSeq(Images(s, f))) <=> \E r \in S : x \in Range(f[r])
      BY <1>9, EachIs
    <2>2. Ordered(FlattenSeq(Images(s, f)))
      BY <1>8, <1>9, EachIs
    <2> QED
      BY <2>1, <2>2
  <1>11. \A x : x \in Range(FlattenSeq(Columns(s, W, c, to))) <=> \E r \in W : x = s1(r) \/ x = s2(r)
    BY <1>2, <1>6, <1>10
  <1>12. \A x : x \in ColumnStmts(W, c, to) <=> \E r \in W : x = s1(r) \/ x = s2(r)
    BY DEF ColumnStmts, s1, s2
  <1>13. Range(FlattenSeq(Columns(s, W, c, to))) = ColumnStmts(W, c, to)
    BY <1>11, <1>12
  <1> QED
    BY <1>2, <1>10, <1>13 DEF X, Lists

(***************************************************************************)
(* Statements about columns and junction tables are well-formed.           *)
(***************************************************************************)
LEMMA StmtFits ==
    ASSUME NEW T
    PROVE  /\ \A x \in LinkColumn : Stmt("dropColumn", x, NoTab) \in Fitting(T)
           /\ \A x, y \in LinkColumn : x[1] = y[1] => Stmt("renameColumn", x, y) \in Fitting(T)
           /\ \A x, y \in Junction : Stmt("renameTable", x, y) \in Fitting(T)
           /\ \A x \in Junction : Stmt("createTable", x, NoTab) \in Fitting(T)
           /\ \A x \in Junction : Stmt("dropTable", x, NoTab) \in Fitting(T)
  BY DEF Stmt, Fitting, Ops

\* The statements of each group, and when its columns are different ones.

\* The statements by the row that they are made for, a group for each function
\* of relation-changes.ts.
RenamesOwn(S, x) == \E y \in S :
    /\ y.now.type \in HasColumn /\ y.was.prop # y.now.prop /\ y.was.fk # y.now.prop
    /\ x = Stmt("renameColumn", <<y.now.from, y.was.fk>>, <<y.now.from, y.now.prop>>)

DropsOwn(tb, S, x) == \E r \in S :
    /\ r.type \in HasColumn
    /\ x = Stmt("dropColumn", <<tb, IF r.id < 0 /\ r.type = O2O THEN r.prop ELSE r.fk>>, NoTab)

AddsOwn(S, x) == \E r \in S :
    /\ r.type \in HasColumn
    /\ \/ x = Stmt("addColumn", <<r.from, r.prop>>, NoTab)
       \/ x = Stmt("addKey", <<r.from, r.prop>>, r.to)

DropsOther(S, x) == \E r \in S : r.type = O2M /\ x = Stmt("dropColumn", <<r.to, r.fk>>, NoTab)

AddsOther(S, x) == \E r \in S :
    /\ r.type = O2M
    /\ \/ x = Stmt("addColumn", <<r.to, r.inv>>, NoTab)
       \/ x = Stmt("addKey", <<r.to, r.inv>>, r.from)

RenamesOther(S, x) == \E y \in S :
    /\ y.now.type = O2M /\ y.was.inv # y.now.inv
    /\ x = Stmt("renameColumn", <<y.was.to, y.was.fk>>, <<y.was.to, y.now.inv>>)

RenamesJunction(S, x) == \E y \in S :
    /\ y.now.type = M2M /\ y.was.prop # y.now.prop /\ y.was.jt # <<y.now.from, y.now.prop, y.now.to>>
    /\ x = Stmt("renameTable", y.was.jt, <<y.now.from, y.now.prop, y.now.to>>)

AddsJunction(S, x) == \E r \in S :
    /\ r.type = M2M /\ <<r.from, r.prop, r.to>> \notin db.junctions
    /\ x = Stmt("createTable", <<r.from, r.prop, r.to>>, NoTab)

DropsJunction(S, x) == \E r \in S : r.type = M2M /\ x = Stmt("dropTable", r.jt, NoTab)

EachDropOwn(tb, s) == Each(s, LAMBDA r : DropOwn(tb, r))
EachAddJunction(s) == Each(s, LAMBDA r : AddJunction(r, db))

\* No two rows of a group have the same column.
OwnApart(S) ==
    /\ \A r \in S : r.id > 0
    /\ \A r, s \in S : r.type \in HasColumn /\ s.type \in HasColumn /\ r.fk = s.fk => r = s

OtherApart(S) ==
    \A r, s \in S : r.type = O2M /\ s.type = O2M /\ <<r.to, r.fk>> = <<s.to, s.fk>> => r = s

OwnPairsApart(S) ==
    \A y, z \in S : y.now.type \in HasColumn /\ z.now.type \in HasColumn /\ y.was.fk = z.was.fk => y = z

OtherPairsApart(S) ==
    \A y, z \in S : y.now.type = O2M /\ z.now.type = O2M
                    /\ <<y.was.to, y.was.fk>> = <<z.was.to, z.was.fk>> => y = z

(***************************************************************************)
(* The statements for the deleted relations whose column is their own      *)
(* table's (DropOwn).                                                      *)
(***************************************************************************)
LEMMA DropOwnIs ==
    ASSUME NEW T, NEW tb \in Tab, NEW S \in SUBSET KnownRelation, NEW s \in Seq(S), Range(s) = S
    PROVE  /\ EachDropOwn(tb, s) \in Seq(Fitting(T))
           /\ \A x : x \in Range(EachDropOwn(tb, s)) <=> DropsOwn(tb, S, x)
           /\ (/\ \A i, j \in DOMAIN s : s[i] = s[j] => i = j
               /\ OwnApart(S))
              => Ordered(EachDropOwn(tb, s))
  <1> DEFINE c(r) == <<tb, IF r.id < 0 /\ r.type = O2O THEN r.prop ELSE r.fk>>
             cond(r) == r.type \in HasColumn
             to(r) == NoTab
             W == {x \in S : cond(x)}
             st == [r \in S |-> Stmt("dropColumn", c(r), to(r))]
  <1>1. ASSUME NEW r \in W PROVE st[r] \in Fitting(T) /\ st[r].op # "addKey"
    <2>1. c(r) \in LinkColumn /\ to(r) = NoTab
      BY DEF KnownRelation, LinkColumn
    <2>2. st[r] = Stmt("dropColumn", c(r), to(r))
      OBVIOUS
    <2> HIDE DEF c, to, cond, st, W
    <2> QED
      BY <2>1, <2>2, StmtFits, StmtIs
  <1>2. EachDropOwn(tb, s) = FlattenSeq(One(s, W, st))
    <2>1. \A i \in DOMAIN s : s[i] \in S
      OBVIOUS
    <2>2. \A i \in DOMAIN s : DropOwn(tb, s[i]) = IF s[i] \in W THEN <<st[s[i]]>> ELSE <<>>
      BY <2>1 DEF DropOwn
    <2> HIDE DEF W, st
    <2> QED
      BY <2>2 DEF Each, One, EachDropOwn, EachAddJunction
  <1>3. \A r \in W : st[r] \in Fitting(T) /\ st[r].op # "addKey"
    BY <1>1
  <1>4. W \in SUBSET S /\ \A r \in S : r \in W <=> cond(r)
    OBVIOUS
  <1>5. \A r \in S : st[r] = Stmt("dropColumn", c(r), to(r))
    OBVIOUS
  <1> HIDE DEF W, st
  <1>6. (\A r, x \in S : cond(r) /\ cond(x) /\ c(r) = c(x) => r = x)
        => \A r, x \in W : Takes(st[r]) /\ Takes(st[x]) /\ st[r].col = st[x].col => r = x
    <2> HIDE DEF c, cond, to
    <2>1. \A r \in W : r \in S /\ cond(r) /\ st[r].col = c(r)
      BY <1>4, <1>5, StmtIs
    <2> QED
      BY <1>4, <2>1
  <1> DEFINE X == Fitting(T)
  <1> HIDE DEF X
  <1>7. \A r \in W : st[r] \in X /\ st[r].op # "addKey"
    BY <1>3 DEF X
  <1>8. /\ FlattenSeq(One(s, W, st)) \in Seq(X)
        /\ \A x : x \in Range(FlattenSeq(One(s, W, st))) <=> \E r \in W : x = st[r]
        /\ (/\ \A i, j \in DOMAIN s : s[i] = s[j] => i = j
            /\ \A r, x \in W : Takes(st[r]) /\ Takes(st[x]) /\ st[r].col = st[x].col => r = x)
           => Ordered(FlattenSeq(One(s, W, st)))
    BY <1>4, <1>7, EachOne
  <1>9. \A x : x \in Range(FlattenSeq(One(s, W, st))) <=>
                  \E r \in S : cond(r) /\ x = Stmt("dropColumn", c(r), to(r))
    <2> HIDE DEF c, cond, to
    <2> QED
      BY <1>4, <1>5, <1>8
  <1>10. FlattenSeq(One(s, W, st)) \in Seq(Fitting(T))
    BY <1>8 DEF X
  <1>11. (/\ \A i, j \in DOMAIN s : s[i] = s[j] => i = j
          /\ \A r, x \in S : cond(r) /\ cond(x) /\ c(r) = c(x) => r = x)
         => Ordered(FlattenSeq(One(s, W, st)))
    <2> HIDE DEF c, cond, to
    <2> QED
      BY <1>6, <1>8
  <1>12. OwnApart(S) => \A r, x \in S : cond(r) /\ cond(x) /\ c(r) = c(x) => r = x
    <2> SUFFICES ASSUME OwnApart(S), NEW r \in S, NEW x \in S, cond(r), cond(x), c(r) = c(x)
                 PROVE  r = x
      OBVIOUS
    <2> QED
      BY DEF OwnApart, KnownRelation
  <1>13. \A x : x \in Range(EachDropOwn(tb, s)) <=> DropsOwn(tb, S, x)
    BY <1>2, <1>9 DEF DropsOwn
  <1> HIDE DEF c, cond, to
  <1> QED
    BY <1>2, <1>10, <1>11, <1>12, <1>13

\* A kept relation, as it was and as it is now: of one id and type.
PairsOK(tb, S) ==
    \A y \in S : /\ y.now \in Relation /\ RowOK(y.now) /\ y.now.from = tb /\ y.was \in KnownRelation
                 /\ y.now.id = y.id /\ y.was.id = y.id
                 /\ y.was.type = y.now.type /\ y.was.jt = y.now.jt

(***************************************************************************)
(* The statements for the deleted relations whose column is the other      *)
(* table's (DropOther).                                                    *)
(***************************************************************************)
LEMMA DropOtherIs ==
    ASSUME NEW T, NEW S \in SUBSET KnownRelation, NEW s \in Seq(S), Range(s) = S
    PROVE  /\ Each(s, DropOther) \in Seq(Fitting(T))
           /\ \A x : x \in Range(Each(s, DropOther)) <=> DropsOther(S, x)
           /\ (/\ \A i, j \in DOMAIN s : s[i] = s[j] => i = j
               /\ OtherApart(S))
              => Ordered(Each(s, DropOther))
  <1> DEFINE c(r) == <<r.to, r.fk>>
             cond(r) == r.type = O2M
             to(r) == NoTab
             W == {x \in S : cond(x)}
             st == [r \in S |-> Stmt("dropColumn", c(r), to(r))]
  <1>1. ASSUME NEW r \in W PROVE st[r] \in Fitting(T) /\ st[r].op # "addKey"
    <2>1. c(r) \in LinkColumn /\ to(r) = NoTab
      BY DEF KnownRelation, LinkColumn
    <2>2. st[r] = Stmt("dropColumn", c(r), to(r))
      OBVIOUS
    <2> HIDE DEF c, to, cond, st, W
    <2> QED
      BY <2>1, <2>2, StmtFits, StmtIs
  <1>2. Each(s, DropOther) = FlattenSeq(One(s, W, st))
    <2>1. \A i \in DOMAIN s : s[i] \in S
      OBVIOUS
    <2>2. \A i \in DOMAIN s : DropOther(s[i]) = IF s[i] \in W THEN <<st[s[i]]>> ELSE <<>>
      BY <2>1 DEF DropOther
    <2> HIDE DEF W, st
    <2> QED
      BY <2>2 DEF Each, One, EachDropOwn, EachAddJunction
  <1>3. \A r \in W : st[r] \in Fitting(T) /\ st[r].op # "addKey"
    BY <1>1
  <1>4. W \in SUBSET S /\ \A r \in S : r \in W <=> cond(r)
    OBVIOUS
  <1>5. \A r \in S : st[r] = Stmt("dropColumn", c(r), to(r))
    OBVIOUS
  <1> HIDE DEF W, st
  <1>6. (\A r, x \in S : cond(r) /\ cond(x) /\ c(r) = c(x) => r = x)
        => \A r, x \in W : Takes(st[r]) /\ Takes(st[x]) /\ st[r].col = st[x].col => r = x
    <2> HIDE DEF c, cond, to
    <2>1. \A r \in W : r \in S /\ cond(r) /\ st[r].col = c(r)
      BY <1>4, <1>5, StmtIs
    <2> QED
      BY <1>4, <2>1
  <1> DEFINE X == Fitting(T)
  <1> HIDE DEF X
  <1>7. \A r \in W : st[r] \in X /\ st[r].op # "addKey"
    BY <1>3 DEF X
  <1>8. /\ FlattenSeq(One(s, W, st)) \in Seq(X)
        /\ \A x : x \in Range(FlattenSeq(One(s, W, st))) <=> \E r \in W : x = st[r]
        /\ (/\ \A i, j \in DOMAIN s : s[i] = s[j] => i = j
            /\ \A r, x \in W : Takes(st[r]) /\ Takes(st[x]) /\ st[r].col = st[x].col => r = x)
           => Ordered(FlattenSeq(One(s, W, st)))
    BY <1>4, <1>7, EachOne
  <1>9. \A x : x \in Range(FlattenSeq(One(s, W, st))) <=>
                  \E r \in S : cond(r) /\ x = Stmt("dropColumn", c(r), to(r))
    <2> HIDE DEF c, cond, to
    <2> QED
      BY <1>4, <1>5, <1>8
  <1>10. FlattenSeq(One(s, W, st)) \in Seq(Fitting(T))
    BY <1>8 DEF X
  <1>11. (/\ \A i, j \in DOMAIN s : s[i] = s[j] => i = j
          /\ \A r, x \in S : cond(r) /\ cond(x) /\ c(r) = c(x) => r = x)
         => Ordered(FlattenSeq(One(s, W, st)))
    <2> HIDE DEF c, cond, to
    <2> QED
      BY <1>6, <1>8
  <1>12. OtherApart(S) => \A r, x \in S : cond(r) /\ cond(x) /\ c(r) = c(x) => r = x
    <2> SUFFICES ASSUME OtherApart(S), NEW r \in S, NEW x \in S, cond(r), cond(x), c(r) = c(x)
                 PROVE  r = x
      OBVIOUS
    <2> QED
      BY DEF OtherApart, KnownRelation
  <1>13. \A x : x \in Range(Each(s, DropOther)) <=> DropsOther(S, x)
    BY <1>2, <1>9 DEF DropsOther
  <1> HIDE DEF c, cond, to
  <1> QED
    BY <1>2, <1>10, <1>11, <1>12, <1>13

(***************************************************************************)
(* The statements for the deleted relations that have a junction table     *)
(* (DropJunction).                                                         *)
(***************************************************************************)
LEMMA DropJunctionIs ==
    ASSUME NEW T, NEW S \in SUBSET KnownRelation, NEW s \in Seq(S), Range(s) = S,
           \A r \in S : r.type = M2M => r.jt \in Junction
    PROVE  /\ Each(s, DropJunction) \in Seq(Fitting(T))
           /\ \A x : x \in Range(Each(s, DropJunction)) <=> DropsJunction(S, x)
           /\ Ordered(Each(s, DropJunction))
  <1> DEFINE c(r) == r.jt
             cond(r) == r.type = M2M
             to(r) == NoTab
             W == {x \in S : cond(x)}
             st == [r \in S |-> Stmt("dropTable", c(r), to(r))]
  <1>1. ASSUME NEW r \in W PROVE st[r] \in Fitting(T) /\ st[r].op # "addKey"
    <2>1. c(r) \in Junction /\ to(r) = NoTab
      BY DEF Junction
    <2>2. st[r] = Stmt("dropTable", c(r), to(r))
      OBVIOUS
    <2> HIDE DEF c, to, cond, st, W
    <2> QED
      BY <2>1, <2>2, StmtFits, StmtIs
  <1>2. Each(s, DropJunction) = FlattenSeq(One(s, W, st))
    <2>1. \A i \in DOMAIN s : s[i] \in S
      OBVIOUS
    <2>2. \A i \in DOMAIN s : DropJunction(s[i]) = IF s[i] \in W THEN <<st[s[i]]>> ELSE <<>>
      BY <2>1 DEF DropJunction
    <2> HIDE DEF W, st
    <2> QED
      BY <2>2 DEF Each, One, EachDropOwn, EachAddJunction
  <1>3. \A r \in W : st[r] \in Fitting(T) /\ st[r].op # "addKey"
    BY <1>1
  <1>4. W \in SUBSET S /\ \A r \in S : r \in W <=> cond(r)
    OBVIOUS
  <1>5. \A r \in S : st[r] = Stmt("dropTable", c(r), to(r))
    OBVIOUS
  <1> HIDE DEF W, st
  <1>6. \A r \in W : ~Takes(st[r])
    <2> HIDE DEF c, cond, to
    <2> QED
      BY <1>4, <1>5, StmtIs DEF Takes
  <1> DEFINE X == Fitting(T)
  <1> HIDE DEF X
  <1>7. \A r \in W : st[r] \in X /\ st[r].op # "addKey"
    BY <1>3 DEF X
  <1>8. /\ FlattenSeq(One(s, W, st)) \in Seq(X)
        /\ \A x : x \in Range(FlattenSeq(One(s, W, st))) <=> \E r \in W : x = st[r]
        /\ (/\ \A i, j \in DOMAIN s : s[i] = s[j] => i = j
            /\ \A r, x \in W : Takes(st[r]) /\ Takes(st[x]) /\ st[r].col = st[x].col => r = x)
           => Ordered(FlattenSeq(One(s, W, st)))
    BY <1>4, <1>7, EachOne
  <1>9. \A x : x \in Range(FlattenSeq(One(s, W, st))) <=>
                  \E r \in S : cond(r) /\ x = Stmt("dropTable", c(r), to(r))
    <2> HIDE DEF c, cond, to
    <2> QED
      BY <1>4, <1>5, <1>8
  <1>10. FlattenSeq(One(s, W, st)) \in Seq(Fitting(T))
    BY <1>8 DEF X
  <1>11. Ordered(FlattenSeq(One(s, W, st)))
    <2> DEFINE y == FlattenSeq(One(s, W, st))
    <2>1. \A x \in Range(y) : ~Takes(x) /\ x.op # "addKey"
      BY <1>4, <1>6, <1>7, <1>8
    <2>2. \A i \in DOMAIN y : y[i] \in Range(y)
      BY DEF Range
    <2> HIDE DEF y
    <2>3. Ordered(y)
      BY <2>1, <2>2 DEF Ordered
    <2> QED
      BY <2>3 DEF y
  <1>13. \A x : x \in Range(Each(s, DropJunction)) <=> DropsJunction(S, x)
    BY <1>2, <1>9 DEF DropsJunction
  <1> HIDE DEF c, cond, to
  <1> QED
    BY <1>2, <1>10, <1>11, <1>13

(***************************************************************************)
(* The statements for the kept relations whose column is their own table's *)
(* (RenameOwn).                                                            *)
(***************************************************************************)
LEMMA RenameOwnIs ==
    ASSUME NEW T, NEW tb \in Tab, NEW S, PairsOK(tb, S), NEW s \in Seq(S), Range(s) = S
    PROVE  /\ Each(s, RenameOwn) \in Seq(Fitting(T))
           /\ \A x : x \in Range(Each(s, RenameOwn)) <=> RenamesOwn(S, x)
           /\ (/\ \A i, j \in DOMAIN s : s[i] = s[j] => i = j
               /\ OwnPairsApart(S))
              => Ordered(Each(s, RenameOwn))
  <1> DEFINE c(r) == <<r.now.from, r.was.fk>>
             cond(r) == r.now.type \in HasColumn /\ r.was.prop # r.now.prop /\ r.was.fk # r.now.prop
             to(r) == <<r.now.from, r.now.prop>>
             W == {x \in S : cond(x)}
             st == [r \in S |-> Stmt("renameColumn", c(r), to(r))]
  <1>1. ASSUME NEW r \in W PROVE st[r] \in Fitting(T) /\ st[r].op # "addKey"
    <2>1. c(r) \in LinkColumn /\ to(r) \in LinkColumn /\ c(r)[1] = to(r)[1]
      BY RelationIs DEF KnownRelation, LinkColumn, PairsOK
    <2>2. st[r] = Stmt("renameColumn", c(r), to(r))
      OBVIOUS
    <2> HIDE DEF c, to, cond, st, W
    <2> QED
      BY <2>1, <2>2, StmtFits, StmtIs
  <1>2. Each(s, RenameOwn) = FlattenSeq(One(s, W, st))
    <2>1. \A i \in DOMAIN s : s[i] \in S
      OBVIOUS
    <2>2. \A i \in DOMAIN s : RenameOwn(s[i]) = IF s[i] \in W THEN <<st[s[i]]>> ELSE <<>>
      BY <2>1 DEF RenameOwn
    <2> HIDE DEF W, st
    <2> QED
      BY <2>2 DEF Each, One, EachDropOwn, EachAddJunction
  <1>3. \A r \in W : st[r] \in Fitting(T) /\ st[r].op # "addKey"
    BY <1>1
  <1>4. W \in SUBSET S /\ \A r \in S : r \in W <=> cond(r)
    OBVIOUS
  <1>5. \A r \in S : st[r] = Stmt("renameColumn", c(r), to(r))
    OBVIOUS
  <1> HIDE DEF W, st
  <1>6. (\A r, x \in S : cond(r) /\ cond(x) /\ c(r) = c(x) => r = x)
        => \A r, x \in W : Takes(st[r]) /\ Takes(st[x]) /\ st[r].col = st[x].col => r = x
    <2> HIDE DEF c, cond, to
    <2>1. \A r \in W : r \in S /\ cond(r) /\ st[r].col = c(r)
      BY <1>4, <1>5, StmtIs
    <2> QED
      BY <1>4, <2>1
  <1> DEFINE X == Fitting(T)
  <1> HIDE DEF X
  <1>7. \A r \in W : st[r] \in X /\ st[r].op # "addKey"
    BY <1>3 DEF X
  <1>8. /\ FlattenSeq(One(s, W, st)) \in Seq(X)
        /\ \A x : x \in Range(FlattenSeq(One(s, W, st))) <=> \E r \in W : x = st[r]
        /\ (/\ \A i, j \in DOMAIN s : s[i] = s[j] => i = j
            /\ \A r, x \in W : Takes(st[r]) /\ Takes(st[x]) /\ st[r].col = st[x].col => r = x)
           => Ordered(FlattenSeq(One(s, W, st)))
    BY <1>4, <1>7, EachOne
  <1>9. \A x : x \in Range(FlattenSeq(One(s, W, st))) <=>
                  \E r \in S : cond(r) /\ x = Stmt("renameColumn", c(r), to(r))
    <2> HIDE DEF c, cond, to
    <2> QED
      BY <1>4, <1>5, <1>8
  <1>10. FlattenSeq(One(s, W, st)) \in Seq(Fitting(T))
    BY <1>8 DEF X
  <1>11. (/\ \A i, j \in DOMAIN s : s[i] = s[j] => i = j
          /\ \A r, x \in S : cond(r) /\ cond(x) /\ c(r) = c(x) => r = x)
         => Ordered(FlattenSeq(One(s, W, st)))
    <2> HIDE DEF c, cond, to
    <2> QED
      BY <1>6, <1>8
  <1>12. OwnPairsApart(S) => \A r, x \in S : cond(r) /\ cond(x) /\ c(r) = c(x) => r = x
    <2> SUFFICES ASSUME OwnPairsApart(S), NEW r \in S, NEW x \in S, cond(r), cond(x), c(r) = c(x)
                 PROVE  r = x
      OBVIOUS
    <2> QED
      BY DEF OwnPairsApart, KnownRelation
  <1>13. \A x : x \in Range(Each(s, RenameOwn)) <=> RenamesOwn(S, x)
    BY <1>2, <1>9 DEF RenamesOwn
  <1> HIDE DEF c, cond, to
  <1> QED
    BY <1>2, <1>10, <1>11, <1>12, <1>13

(***************************************************************************)
(* The statements for the kept relations whose column is the other table's *)
(* (RenameOther).                                                          *)
(***************************************************************************)
LEMMA RenameOtherIs ==
    ASSUME NEW T, NEW tb \in Tab, NEW S, PairsOK(tb, S), NEW s \in Seq(S), Range(s) = S
    PROVE  /\ Each(s, RenameOther) \in Seq(Fitting(T))
           /\ \A x : x \in Range(Each(s, RenameOther)) <=> RenamesOther(S, x)
           /\ (/\ \A i, j \in DOMAIN s : s[i] = s[j] => i = j
               /\ OtherPairsApart(S))
              => Ordered(Each(s, RenameOther))
  <1> DEFINE c(r) == <<r.was.to, r.was.fk>>
             cond(r) == r.now.type = O2M /\ r.was.inv # r.now.inv
             to(r) == <<r.was.to, r.now.inv>>
             W == {x \in S : cond(x)}
             st == [r \in S |-> Stmt("renameColumn", c(r), to(r))]
  <1>1. ASSUME NEW r \in W PROVE st[r] \in Fitting(T) /\ st[r].op # "addKey"
    <2>1. c(r) \in LinkColumn /\ to(r) \in LinkColumn /\ c(r)[1] = to(r)[1]
      BY RelationIs DEF KnownRelation, LinkColumn, PairsOK, RowOK
    <2>2. st[r] = Stmt("renameColumn", c(r), to(r))
      OBVIOUS
    <2> HIDE DEF c, to, cond, st, W
    <2> QED
      BY <2>1, <2>2, StmtFits, StmtIs
  <1>2. Each(s, RenameOther) = FlattenSeq(One(s, W, st))
    <2>1. \A i \in DOMAIN s : s[i] \in S
      OBVIOUS
    <2>2. \A i \in DOMAIN s : RenameOther(s[i]) = IF s[i] \in W THEN <<st[s[i]]>> ELSE <<>>
      BY <2>1 DEF RenameOther
    <2> HIDE DEF W, st
    <2> QED
      BY <2>2 DEF Each, One, EachDropOwn, EachAddJunction
  <1>3. \A r \in W : st[r] \in Fitting(T) /\ st[r].op # "addKey"
    BY <1>1
  <1>4. W \in SUBSET S /\ \A r \in S : r \in W <=> cond(r)
    OBVIOUS
  <1>5. \A r \in S : st[r] = Stmt("renameColumn", c(r), to(r))
    OBVIOUS
  <1> HIDE DEF W, st
  <1>6. (\A r, x \in S : cond(r) /\ cond(x) /\ c(r) = c(x) => r = x)
        => \A r, x \in W : Takes(st[r]) /\ Takes(st[x]) /\ st[r].col = st[x].col => r = x
    <2> HIDE DEF c, cond, to
    <2>1. \A r \in W : r \in S /\ cond(r) /\ st[r].col = c(r)
      BY <1>4, <1>5, StmtIs
    <2> QED
      BY <1>4, <2>1
  <1> DEFINE X == Fitting(T)
  <1> HIDE DEF X
  <1>7. \A r \in W : st[r] \in X /\ st[r].op # "addKey"
    BY <1>3 DEF X
  <1>8. /\ FlattenSeq(One(s, W, st)) \in Seq(X)
        /\ \A x : x \in Range(FlattenSeq(One(s, W, st))) <=> \E r \in W : x = st[r]
        /\ (/\ \A i, j \in DOMAIN s : s[i] = s[j] => i = j
            /\ \A r, x \in W : Takes(st[r]) /\ Takes(st[x]) /\ st[r].col = st[x].col => r = x)
           => Ordered(FlattenSeq(One(s, W, st)))
    BY <1>4, <1>7, EachOne
  <1>9. \A x : x \in Range(FlattenSeq(One(s, W, st))) <=>
                  \E r \in S : cond(r) /\ x = Stmt("renameColumn", c(r), to(r))
    <2> HIDE DEF c, cond, to
    <2> QED
      BY <1>4, <1>5, <1>8
  <1>10. FlattenSeq(One(s, W, st)) \in Seq(Fitting(T))
    BY <1>8 DEF X
  <1>11. (/\ \A i, j \in DOMAIN s : s[i] = s[j] => i = j
          /\ \A r, x \in S : cond(r) /\ cond(x) /\ c(r) = c(x) => r = x)
         => Ordered(FlattenSeq(One(s, W, st)))
    <2> HIDE DEF c, cond, to
    <2> QED
      BY <1>6, <1>8
  <1>12. OtherPairsApart(S) => \A r, x \in S : cond(r) /\ cond(x) /\ c(r) = c(x) => r = x
    <2> SUFFICES ASSUME OtherPairsApart(S), NEW r \in S, NEW x \in S, cond(r), cond(x), c(r) = c(x)
                 PROVE  r = x
      OBVIOUS
    <2> QED
      BY DEF OtherPairsApart, KnownRelation
  <1>13. \A x : x \in Range(Each(s, RenameOther)) <=> RenamesOther(S, x)
    BY <1>2, <1>9 DEF RenamesOther
  <1> HIDE DEF c, cond, to
  <1> QED
    BY <1>2, <1>10, <1>11, <1>12, <1>13

(***************************************************************************)
(* The statements for the kept relations that have a junction table        *)
(* (RenameJunction).                                                       *)
(***************************************************************************)
LEMMA RenameJunctionIs ==
    ASSUME NEW T, NEW tb \in Tab, NEW S, PairsOK(tb, S), NEW s \in Seq(S), Range(s) = S
    PROVE  /\ Each(s, RenameJunction) \in Seq(Fitting(T))
           /\ \A x : x \in Range(Each(s, RenameJunction)) <=> RenamesJunction(S, x)
           /\ Ordered(Each(s, RenameJunction))
  <1> DEFINE c(r) == r.was.jt
             cond(r) == r.now.type = M2M /\ r.was.prop # r.now.prop /\ r.was.jt # <<r.now.from, r.now.prop, r.now.to>>
             to(r) == <<r.now.from, r.now.prop, r.now.to>>
             W == {x \in S : cond(x)}
             st == [r \in S |-> Stmt("renameTable", c(r), to(r))]
  <1>1. ASSUME NEW r \in W PROVE st[r] \in Fitting(T) /\ st[r].op # "addKey"
    <2>1. c(r) \in Junction /\ to(r) \in Junction
      BY RelationIs DEF KnownRelation, Junction, PairsOK, RowOK
    <2>2. st[r] = Stmt("renameTable", c(r), to(r))
      OBVIOUS
    <2> HIDE DEF c, to, cond, st, W
    <2> QED
      BY <2>1, <2>2, StmtFits, StmtIs
  <1>2. Each(s, RenameJunction) = FlattenSeq(One(s, W, st))
    <2>1. \A i \in DOMAIN s : s[i] \in S
      OBVIOUS
    <2>2. \A i \in DOMAIN s : RenameJunction(s[i]) = IF s[i] \in W THEN <<st[s[i]]>> ELSE <<>>
      BY <2>1 DEF RenameJunction
    <2> HIDE DEF W, st
    <2> QED
      BY <2>2 DEF Each, One, EachDropOwn, EachAddJunction
  <1>3. \A r \in W : st[r] \in Fitting(T) /\ st[r].op # "addKey"
    BY <1>1
  <1>4. W \in SUBSET S /\ \A r \in S : r \in W <=> cond(r)
    OBVIOUS
  <1>5. \A r \in S : st[r] = Stmt("renameTable", c(r), to(r))
    OBVIOUS
  <1> HIDE DEF W, st
  <1>6. \A r \in W : ~Takes(st[r])
    <2> HIDE DEF c, cond, to
    <2> QED
      BY <1>4, <1>5, StmtIs DEF Takes
  <1> DEFINE X == Fitting(T)
  <1> HIDE DEF X
  <1>7. \A r \in W : st[r] \in X /\ st[r].op # "addKey"
    BY <1>3 DEF X
  <1>8. /\ FlattenSeq(One(s, W, st)) \in Seq(X)
        /\ \A x : x \in Range(FlattenSeq(One(s, W, st))) <=> \E r \in W : x = st[r]
        /\ (/\ \A i, j \in DOMAIN s : s[i] = s[j] => i = j
            /\ \A r, x \in W : Takes(st[r]) /\ Takes(st[x]) /\ st[r].col = st[x].col => r = x)
           => Ordered(FlattenSeq(One(s, W, st)))
    BY <1>4, <1>7, EachOne
  <1>9. \A x : x \in Range(FlattenSeq(One(s, W, st))) <=>
                  \E r \in S : cond(r) /\ x = Stmt("renameTable", c(r), to(r))
    <2> HIDE DEF c, cond, to
    <2> QED
      BY <1>4, <1>5, <1>8
  <1>10. FlattenSeq(One(s, W, st)) \in Seq(Fitting(T))
    BY <1>8 DEF X
  <1>11. Ordered(FlattenSeq(One(s, W, st)))
    <2> DEFINE y == FlattenSeq(One(s, W, st))
    <2>1. \A x \in Range(y) : ~Takes(x) /\ x.op # "addKey"
      BY <1>4, <1>6, <1>7, <1>8
    <2>2. \A i \in DOMAIN y : y[i] \in Range(y)
      BY DEF Range
    <2> HIDE DEF y
    <2>3. Ordered(y)
      BY <2>1, <2>2 DEF Ordered
    <2> QED
      BY <2>3 DEF y
  <1>13. \A x : x \in Range(Each(s, RenameJunction)) <=> RenamesJunction(S, x)
    BY <1>2, <1>9 DEF RenamesJunction
  <1> HIDE DEF c, cond, to
  <1> QED
    BY <1>2, <1>10, <1>11, <1>13

(***************************************************************************)
(* The statements for the new relations that have a junction table         *)
(* (AddJunction).                                                          *)
(***************************************************************************)
LEMMA AddJunctionIs ==
    ASSUME NEW T, NEW S \in SUBSET Relation, NEW s \in Seq(S), Range(s) = S
    PROVE  /\ EachAddJunction(s) \in Seq(Fitting(T))
           /\ \A x : x \in Range(EachAddJunction(s)) <=> AddsJunction(S, x)
           /\ Ordered(EachAddJunction(s))
  <1> DEFINE c(r) == <<r.from, r.prop, r.to>>
             cond(r) == r.type = M2M /\ <<r.from, r.prop, r.to>> \notin db.junctions
             to(r) == NoTab
             W == {x \in S : cond(x)}
             st == [r \in S |-> Stmt("createTable", c(r), to(r))]
  <1>1. ASSUME NEW r \in W PROVE st[r] \in Fitting(T) /\ st[r].op # "addKey"
    <2>1. c(r) \in Junction /\ to(r) = NoTab
      BY RelationIs DEF Junction
    <2>2. st[r] = Stmt("createTable", c(r), to(r))
      OBVIOUS
    <2> HIDE DEF c, to, cond, st, W
    <2> QED
      BY <2>1, <2>2, StmtFits, StmtIs
  <1>2. EachAddJunction(s) = FlattenSeq(One(s, W, st))
    <2>1. \A i \in DOMAIN s : s[i] \in S
      OBVIOUS
    <2>2. \A i \in DOMAIN s : AddJunction(s[i], db) = IF s[i] \in W THEN <<st[s[i]]>> ELSE <<>>
      BY <2>1 DEF AddJunction
    <2> HIDE DEF W, st
    <2> QED
      BY <2>2 DEF Each, One, EachDropOwn, EachAddJunction
  <1>3. \A r \in W : st[r] \in Fitting(T) /\ st[r].op # "addKey"
    BY <1>1
  <1>4. W \in SUBSET S /\ \A r \in S : r \in W <=> cond(r)
    OBVIOUS
  <1>5. \A r \in S : st[r] = Stmt("createTable", c(r), to(r))
    OBVIOUS
  <1> HIDE DEF W, st
  <1>6. \A r \in W : ~Takes(st[r])
    <2> HIDE DEF c, cond, to
    <2> QED
      BY <1>4, <1>5, StmtIs DEF Takes
  <1> DEFINE X == Fitting(T)
  <1> HIDE DEF X
  <1>7. \A r \in W : st[r] \in X /\ st[r].op # "addKey"
    BY <1>3 DEF X
  <1>8. /\ FlattenSeq(One(s, W, st)) \in Seq(X)
        /\ \A x : x \in Range(FlattenSeq(One(s, W, st))) <=> \E r \in W : x = st[r]
        /\ (/\ \A i, j \in DOMAIN s : s[i] = s[j] => i = j
            /\ \A r, x \in W : Takes(st[r]) /\ Takes(st[x]) /\ st[r].col = st[x].col => r = x)
           => Ordered(FlattenSeq(One(s, W, st)))
    BY <1>4, <1>7, EachOne
  <1>9. \A x : x \in Range(FlattenSeq(One(s, W, st))) <=>
                  \E r \in S : cond(r) /\ x = Stmt("createTable", c(r), to(r))
    <2> HIDE DEF c, cond, to
    <2> QED
      BY <1>4, <1>5, <1>8
  <1>10. FlattenSeq(One(s, W, st)) \in Seq(Fitting(T))
    BY <1>8 DEF X
  <1>11. Ordered(FlattenSeq(One(s, W, st)))
    <2> DEFINE y == FlattenSeq(One(s, W, st))
    <2>1. \A x \in Range(y) : ~Takes(x) /\ x.op # "addKey"
      BY <1>4, <1>6, <1>7, <1>8
    <2>2. \A i \in DOMAIN y : y[i] \in Range(y)
      BY DEF Range
    <2> HIDE DEF y
    <2>3. Ordered(y)
      BY <2>1, <2>2 DEF Ordered
    <2> QED
      BY <2>3 DEF y
  <1>13. \A x : x \in Range(EachAddJunction(s)) <=> AddsJunction(S, x)
    BY <1>2, <1>9 DEF AddsJunction
  <1> HIDE DEF c, cond, to
  <1> QED
    BY <1>2, <1>10, <1>11, <1>13

(***************************************************************************)
(* The statements for the new relations whose column is their own table's  *)
(* (AddOwn).                                                               *)
(***************************************************************************)
LEMMA AddOwnIs ==
    ASSUME NEW T, NEW S \in SUBSET Relation, NEW s \in Seq(S), Range(s) = S, \A r \in S : r.from \in T
    PROVE  /\ Each(s, AddOwn) \in Seq(Fitting(T)) /\ Ordered(Each(s, AddOwn))
           /\ \A x : x \in Range(Each(s, AddOwn)) <=> AddsOwn(S, x)
  <1> DEFINE cond(r) == r.type \in HasColumn
             W == {x \in S : cond(x)}
             c == [r \in S |-> <<r.from, r.prop>>]
             to == [r \in S |-> r.to]
  <1>1. ASSUME NEW r \in W PROVE c[r] \in LinkColumn /\ c[r][1] \in T /\ to[r] \in Tab
    BY RelationIs DEF LinkColumn, RowOK, HasColumn, O2M, M2O, O2O
  <1>2. Each(s, AddOwn) = FlattenSeq(Columns(s, W, c, to))
    <2>1. \A i \in DOMAIN s : s[i] \in S
      OBVIOUS
    <2>2. \A i \in DOMAIN s : AddOwn(s[i]) =
             IF s[i] \in W THEN AddColumn(c[s[i]], to[s[i]]) ELSE <<>>
      BY <2>1 DEF AddOwn
    <2> HIDE DEF W, c, to
    <2> QED
      BY <2>2 DEF Each, Columns
  <1>3. W \in SUBSET S /\ \A r \in S : r \in W <=> cond(r)
    OBVIOUS
  <1>4. \A r \in S : c[r] = <<r.from, r.prop>> /\ to[r] = r.to
    OBVIOUS
  <1>5. \A r \in W : c[r] \in LinkColumn /\ c[r][1] \in T /\ to[r] \in Tab
    BY <1>1
  <1> HIDE DEF W, c, to
  <1>6. /\ FlattenSeq(Columns(s, W, c, to)) \in Seq(Fitting(T))
        /\ Ordered(FlattenSeq(Columns(s, W, c, to)))
        /\ \A x : x \in Range(FlattenSeq(Columns(s, W, c, to))) <=>
             \E r \in W : x = Stmt("addColumn", c[r], NoTab) \/ x = Stmt("addKey", c[r], to[r])
    <2> HIDE DEF cond
    <2>1. Lists(T, FlattenSeq(Columns(s, W, c, to)), ColumnStmts(W, c, to))
      BY <1>3, <1>5, EachColumn
    <2>4. \A x : x \in ColumnStmts(W, c, to) <=>
             \E r \in W : x = Stmt("addColumn", c[r], NoTab) \/ x = Stmt("addKey", c[r], to[r])
      BY DEF ColumnStmts
    <2> QED
      BY <2>1, <2>4 DEF Lists
  <1>7. \A x : (\E r \in W : x = Stmt("addColumn", c[r], NoTab) \/ x = Stmt("addKey", c[r], to[r])) <=>
                \E r \in S : /\ cond(r)
                             /\ \/ x = Stmt("addColumn", <<r.from, r.prop>>, NoTab)
                                \/ x = Stmt("addKey", <<r.from, r.prop>>, r.to)
    <2> HIDE DEF cond
    <2> QED
      BY <1>3, <1>4
  <1>8. \A x : x \in Range(Each(s, AddOwn)) <=> AddsOwn(S, x)
    BY <1>2, <1>6, <1>7 DEF AddsOwn
  <1> QED
    BY <1>2, <1>6, <1>8

(***************************************************************************)
(* The statements for the new relations whose column is the other table's  *)
(* (AddOther).                                                             *)
(***************************************************************************)
LEMMA AddOtherIs ==
    ASSUME NEW T, NEW S \in SUBSET Relation, NEW s \in Seq(S), Range(s) = S, \A r \in S : r.to \in T /\ RowOK(r)
    PROVE  /\ Each(s, AddOther) \in Seq(Fitting(T)) /\ Ordered(Each(s, AddOther))
           /\ \A x : x \in Range(Each(s, AddOther)) <=> AddsOther(S, x)
  <1> DEFINE cond(r) == r.type = O2M
             W == {x \in S : cond(x)}
             c == [r \in S |-> <<r.to, r.inv>>]
             to == [r \in S |-> r.from]
  <1>1. ASSUME NEW r \in W PROVE c[r] \in LinkColumn /\ c[r][1] \in T /\ to[r] \in Tab
    BY RelationIs DEF LinkColumn, RowOK, HasColumn, O2M, M2O, O2O
  <1>2. Each(s, AddOther) = FlattenSeq(Columns(s, W, c, to))
    <2>1. \A i \in DOMAIN s : s[i] \in S
      OBVIOUS
    <2>2. \A i \in DOMAIN s : AddOther(s[i]) =
             IF s[i] \in W THEN AddColumn(c[s[i]], to[s[i]]) ELSE <<>>
      BY <2>1 DEF AddOther
    <2> HIDE DEF W, c, to
    <2> QED
      BY <2>2 DEF Each, Columns
  <1>3. W \in SUBSET S /\ \A r \in S : r \in W <=> cond(r)
    OBVIOUS
  <1>4. \A r \in S : c[r] = <<r.to, r.inv>> /\ to[r] = r.from
    OBVIOUS
  <1>5. \A r \in W : c[r] \in LinkColumn /\ c[r][1] \in T /\ to[r] \in Tab
    BY <1>1
  <1> HIDE DEF W, c, to
  <1>6. /\ FlattenSeq(Columns(s, W, c, to)) \in Seq(Fitting(T))
        /\ Ordered(FlattenSeq(Columns(s, W, c, to)))
        /\ \A x : x \in Range(FlattenSeq(Columns(s, W, c, to))) <=>
             \E r \in W : x = Stmt("addColumn", c[r], NoTab) \/ x = Stmt("addKey", c[r], to[r])
    <2> HIDE DEF cond
    <2>1. Lists(T, FlattenSeq(Columns(s, W, c, to)), ColumnStmts(W, c, to))
      BY <1>3, <1>5, EachColumn
    <2>4. \A x : x \in ColumnStmts(W, c, to) <=>
             \E r \in W : x = Stmt("addColumn", c[r], NoTab) \/ x = Stmt("addKey", c[r], to[r])
      BY DEF ColumnStmts
    <2> QED
      BY <2>1, <2>4 DEF Lists
  <1>7. \A x : (\E r \in W : x = Stmt("addColumn", c[r], NoTab) \/ x = Stmt("addKey", c[r], to[r])) <=>
                \E r \in S : /\ cond(r)
                             /\ \/ x = Stmt("addColumn", <<r.to, r.inv>>, NoTab)
                                \/ x = Stmt("addKey", <<r.to, r.inv>>, r.from)
    <2> HIDE DEF cond
    <2> QED
      BY <1>3, <1>4
  <1>8. \A x : x \in Range(Each(s, AddOther)) <=> AddsOther(S, x)
    BY <1>2, <1>6, <1>7 DEF AddsOther
  <1> QED
    BY <1>2, <1>6, <1>8
-----------------------------------------------------------------------------
\* What has changed.

\* What the cache has of a row that stays has its type and its junction table; the
\* rows that stay, come and go.
Agree(prior, R) == \A x \in prior, r \in R : x.id = r.id => x.type = r.type /\ x.jt = r.jt

Pairs(prior, R) == {[id |-> r.id, now |-> r, was |-> CHOOSE x \in prior : x.id = r.id] :
                     r \in {s \in R : s.id \in {x.id : x \in prior}}}
Fresh(prior, R) == {r \in R : r.id \notin {x.id : x \in prior}}
Gone(prior, R) == {r \in prior : r.id > 0 /\ r.id \notin {s.id : s \in R}}

(***************************************************************************)
(* A body has finitely many rows.                                          *)
(***************************************************************************)
LEMMA FiniteBody ==
    ASSUME NEW tb, NEW R, BodyOK(tb, R)
    PROVE  IsFiniteSet(R)
  <1>1. R \in SUBSET Relation /\ \A r, s \in R : r.id = s.id => r = s
    BY DEF BodyOK
  <1> QED
    BY <1>1, FiniteRelations

(***************************************************************************)
(* The kept relations are pairs of a row of the body and the cache's with  *)
(* its id.                                                                 *)
(***************************************************************************)
LEMMA KeptIs ==
    ASSUME NEW tb, NEW R, BodyOK(tb, R), NEW prior, KnownRows(prior), Agree(prior, R)
    PROVE  /\ PairsOK(tb, Pairs(prior, R))
           /\ Kept(prior, R) \in Seq(Pairs(prior, R)) /\ Range(Kept(prior, R)) = Pairs(prior, R)
           /\ \A i, j \in DOMAIN Kept(prior, R) : Kept(prior, R)[i] = Kept(prior, R)[j] => i = j
           /\ \A y \in Pairs(prior, R) : y.now \in R /\ y.was \in prior
           /\ \A y, z \in Pairs(prior, R) : y.id = z.id => y = z
           /\ \A r \in R, x \in prior : x.id = r.id => \E y \in Pairs(prior, R) : y.now = r /\ y.was = x
  <1> DEFINE K == {s \in R : s.id \in {x.id : x \in prior}}
             was(r) == CHOOSE x \in prior : x.id = r.id
             pair(r) == [id |-> r.id, now |-> r, was |-> was(r)]
             P == {pair(r) : r \in K}
  <1>1. K \in SUBSET R /\ \A r \in R : r \in K <=> \E x \in prior : x.id = r.id
    OBVIOUS
  <1>2. \A r \in R : r \in Relation /\ RowOK(r) /\ r.from = tb /\ r.id \in Int /\ r.id > 0
    BY RelationIs DEF BodyOK
  <1>3. ASSUME NEW r \in K PROVE was(r) \in prior /\ was(r).id = r.id
    <2>1. \E x \in prior : x.id = r.id
      BY <1>1
    <2> QED
      BY <2>1
  <1>4. Pairs(prior, R) = P /\ Kept(prior, R) = ById(P)
    BY DEF Pairs, Kept
  <1> HIDE DEF K, was
  <1>5. \A r \in K : pair(r).id = r.id /\ pair(r).now = r /\ pair(r).was = was(r)
    OBVIOUS
  <1> HIDE DEF pair
  <1>6. ASSUME NEW y \in P
        PROVE  \E r \in K : y = pair(r) /\ y.id = r.id /\ y.now = r /\ y.was = was(r)
    BY <1>5
  <1>7. PairsOK(tb, P)
    <2>1. ASSUME NEW y \in P
          PROVE  /\ y.now \in Relation /\ RowOK(y.now) /\ y.now.from = tb /\ y.was \in KnownRelation
                 /\ y.now.id = y.id /\ y.was.id = y.id
                 /\ y.was.type = y.now.type /\ y.was.jt = y.now.jt
      <3>1. PICK r \in K : y.id = r.id /\ y.now = r /\ y.was = was(r)
        BY <1>6
      <3>2. was(r) \in prior /\ was(r).id = r.id /\ r \in R
        BY <1>1, <1>3
      <3>3. was(r) \in KnownRelation
        BY <3>2 DEF KnownRows
      <3>4. was(r).type = r.type /\ was(r).jt = r.jt
        BY <3>2 DEF Agree
      <3> QED
        BY <1>2, <3>1, <3>2, <3>3, <3>4
    <2> QED
      BY <2>1 DEF PairsOK
  <1>8. \A r, s \in K : r.id = s.id => r = s
    BY <1>1 DEF BodyOK
  <1>9. \A y, z \in P : y.id = z.id => y = z
    BY <1>6, <1>8
  <1>10. \A y \in P : y.id \in Int
    BY <1>1, <1>2, <1>6
  <1>11. IsFiniteSet(P)
    <2>1. IsFiniteSet(K)
      BY <1>1, FiniteBody, FS_Subset
    <2> DEFINE f == [r \in K |-> pair(r)]
    <2>2. f \in Surjection(K, P)
      BY DEF Surjection
    <2> HIDE DEF f, P
    <2> QED
      BY <2>1, <2>2, FS_Surjection
  <1>12. \A y \in P : y.now \in R /\ y.was \in prior
    BY <1>1, <1>3, <1>6
  <1>13. ASSUME NEW r \in R, NEW x \in prior, x.id = r.id
         PROVE  \E y \in P : y.now = r /\ y.was = x
    <2>1. r \in K /\ pair(r) \in P
      BY <1>1, <1>13
    <2>2. was(r) = x
      <3>1. x.id > 0 /\ was(r) \in prior /\ was(r).id = x.id
        BY <1>2, <1>3, <1>13, <2>1
      <3> QED
        BY <3>1 DEF KnownRows
    <2> QED
      BY <1>5, <2>1, <2>2
  <1> HIDE DEF P
  <1>14. /\ ById(P) \in Seq(P) /\ Range(ById(P)) = P
         /\ \A i, j \in DOMAIN ById(P) : ById(P)[i] = ById(P)[j] => i = j
    BY <1>9, <1>10, <1>11, ByIdIs
  <1> QED
    BY <1>4, <1>7, <1>9, <1>12, <1>13, <1>14

(***************************************************************************)
(* The created relations are the rows of the body that the cache has not.  *)
(***************************************************************************)
LEMMA CreatedIs ==
    ASSUME NEW tb, NEW R, BodyOK(tb, R), NEW prior
    PROVE  /\ Fresh(prior, R) \in SUBSET R
           /\ Created(prior, R) \in Seq(Fresh(prior, R)) /\ Range(Created(prior, R)) = Fresh(prior, R)
           /\ \A i, j \in DOMAIN Created(prior, R) : Created(prior, R)[i] = Created(prior, R)[j] => i = j
  <1> DEFINE P == Fresh(prior, R)
  <1>1. Created(prior, R) = ById(P)
    BY DEF Fresh, Created
  <1>2. P \in SUBSET R
    BY DEF Fresh
  <1>3. IsFiniteSet(P)
    BY <1>2, FiniteBody, FS_Subset
  <1>4. \A r \in R : r.id \in Int
    BY RelationIs DEF BodyOK
  <1>5. \A r, s \in P : r.id = s.id => r = s
    BY <1>2 DEF BodyOK
  <1> HIDE DEF P
  <1>6. /\ ById(P) \in Seq(P) /\ Range(ById(P)) = P
        /\ \A i, j \in DOMAIN ById(P) : ById(P)[i] = ById(P)[j] => i = j
    BY <1>2, <1>3, <1>4, <1>5, ByIdIs
  <1> QED
    BY <1>1, <1>2, <1>6 DEF P

(***************************************************************************)
(* The deleted relations are the cache's; when none is generated, they are *)
(* those that the body has not, each once.                                 *)
(***************************************************************************)
LEMMA DeletedIs ==
    ASSUME NEW R, NEW prior, KnownRows(prior)
    PROVE  /\ Deleted(prior, R) \in Seq(prior) /\ Range(Deleted(prior, R)) \in SUBSET prior
           /\ (\A r \in prior : r.id > 0) =>
                 /\ Range(Deleted(prior, R)) = Gone(prior, R)
                 /\ \A i, j \in DOMAIN Deleted(prior, R) : Deleted(prior, R)[i] = Deleted(prior, R)[j] => i = j
  <1> DEFINE P == Gone(prior, R)
             N == {r \in prior : r.id < 0}
             First == CHOOSE r \in N : \A s \in N : s.id <= r.id
             n == Cardinality(N)
             rest == [i \in 1 .. n |-> First]
  <1>1. Deleted(prior, R) = ById(P) \o rest
    BY DEF Deleted, Gone
  <1>2. P \in SUBSET prior /\ N \in SUBSET prior
    BY DEF Gone
  <1>3. IsFiniteSet(P) /\ IsFiniteSet(N)
    BY <1>2, FS_Subset DEF KnownRows
  <1>4. \A r \in prior : r.id \in Int
    BY DEF KnownRows, KnownRelation
  <1>5. \A r, s \in P : r.id = s.id => r = s
    BY <1>2 DEF KnownRows, Gone
  <1>6. n \in Nat
    BY <1>3, FS_CardinalityType
  <1>7. ASSUME N # {} PROVE First \in N
    <2> DEFINE W == {0 - r.id : r \in N}
    <2>1. W \in SUBSET Nat /\ W # {}
      BY <1>4, <1>7
    <2>2. PICK x \in W : \A y \in W : x <= y
      <3> HIDE DEF W
      <3> QED
        BY <2>1, LeastNumber
    <2>3. PICK r \in N : x = 0 - r.id
      BY <2>2
    <2>4. ASSUME NEW s \in N PROVE s.id <= r.id
      <3>1. 0 - s.id \in W
        OBVIOUS
      <3>2. 0 - r.id <= 0 - s.id
        BY <2>2, <2>3, <3>1
      <3>3. r.id \in Int /\ s.id \in Int
        BY <1>4
      <3> QED
        BY <3>2, <3>3
    <2> HIDE DEF N
    <2> QED
      BY <2>4
  <1>8. N = {} => n = 0
    BY FS_EmptySet
  <1> HIDE DEF P, N, First, n
  <1>9. ASSUME NEW i \in 1 .. n PROVE First \in prior
    <2>1. N # {}
      BY <1>6, <1>8
    <2> QED
      BY <1>2, <1>7, <2>1
  <1>10. /\ ById(P) \in Seq(P) /\ Range(ById(P)) = P
         /\ \A i, j \in DOMAIN ById(P) : ById(P)[i] = ById(P)[j] => i = j
    BY <1>2, <1>3, <1>4, <1>5, ByIdIs
  <1>11. ById(P) \in Seq(prior) /\ rest \in Seq(prior)
    <2>1. \A x \in Seq(P) : x \in Seq(prior)
      BY <1>2
    <2>2. rest \in [1 .. n -> prior]
      BY <1>9
    <2> HIDE DEF rest
    <2> QED
      BY <1>6, <1>10, <2>1, <2>2
  <1>12. Deleted(prior, R) \in Seq(prior)
    BY <1>1, <1>11
  <1>13. ASSUME NEW qs \in Seq(prior) PROVE Range(qs) \in SUBSET prior
    BY DEF Range
  <1>14. ASSUME \A r \in prior : r.id > 0
         PROVE  Deleted(prior, R) = ById(P)
    <2>1. N = {}
      BY <1>4, <1>14 DEF N
    <2>2. rest = <<>>
      BY <1>8, <2>1
    <2> HIDE DEF rest
    <2> QED
      BY <1>1, <1>11, <2>2
  <1> QED
    BY <1>10, <1>12, <1>13, <1>14 DEF P
-----------------------------------------------------------------------------
\* The groups of statements of an update.

\* An update of a table, whatever the cache has of it.
Updating(tb, R, prior) ==
    tb \in Tab /\ DbOK(db) /\ BodyOK(tb, R) /\ tb \in db.tabs /\ KnownRows(prior) /\ Agree(prior, R)

(***************************************************************************)
(* The three groups of statements about kept relations.                    *)
(***************************************************************************)
LEMMA PairGroups ==
    ASSUME NEW tb, NEW R, NEW prior, Updating(tb, R, prior)
    PROVE  LET K == Kept(prior, R)
               F == Fitting(db.tabs)
               P == Pairs(prior, R)
           IN /\ Each(K, RenameOwn) \in Seq(F) /\ Each(K, RenameOther) \in Seq(F)
              /\ Each(K, RenameJunction) \in Seq(F) /\ Ordered(Each(K, RenameJunction))
              /\ \A x : x \in Range(Each(K, RenameOwn)) <=> RenamesOwn(P, x)
              /\ \A x : x \in Range(Each(K, RenameOther)) <=> RenamesOther(P, x)
              /\ \A x : x \in Range(Each(K, RenameJunction)) <=> RenamesJunction(P, x)
              /\ OwnPairsApart(P) => Ordered(Each(K, RenameOwn))
              /\ OtherPairsApart(P) => Ordered(Each(K, RenameOther))
  <1> DEFINE K == Kept(prior, R)
             P == Pairs(prior, R)
             F == Fitting(db.tabs)
  <1>1. /\ PairsOK(tb, P) /\ K \in Seq(P) /\ Range(K) = P /\ \A i, j \in DOMAIN K : K[i] = K[j] => i = j
    BY KeptIs DEF Updating
  <1>2. tb \in Tab
    BY DEF Updating
  <1> HIDE DEF K, P
  <1>3. /\ Each(K, RenameOwn) \in Seq(F)
        /\ \A x : x \in Range(Each(K, RenameOwn)) <=> RenamesOwn(P, x)
        /\ OwnPairsApart(P) => Ordered(Each(K, RenameOwn))
    BY <1>1, <1>2, RenameOwnIs
  <1>4. /\ Each(K, RenameOther) \in Seq(F)
        /\ \A x : x \in Range(Each(K, RenameOther)) <=> RenamesOther(P, x)
        /\ OtherPairsApart(P) => Ordered(Each(K, RenameOther))
    BY <1>1, <1>2, RenameOtherIs
  <1>5. /\ Each(K, RenameJunction) \in Seq(F) /\ Ordered(Each(K, RenameJunction))
        /\ \A x : x \in Range(Each(K, RenameJunction)) <=> RenamesJunction(P, x)
    BY <1>1, <1>2, RenameJunctionIs
  <1> QED
    BY <1>3, <1>4, <1>5 DEF K, P

(***************************************************************************)
(* The three groups of statements about deleted relations.                 *)
(***************************************************************************)
LEMMA DeletedGroups ==
    ASSUME NEW tb, NEW R, NEW prior, Updating(tb, R, prior)
    PROVE  LET K == Deleted(prior, R)
               F == Fitting(db.tabs)
               X == Range(K)
               one == \A r \in prior : r.id > 0
           IN /\ EachDropOwn(tb, K) \in Seq(F) /\ Each(K, DropOther) \in Seq(F)
              /\ Each(K, DropJunction) \in Seq(F) /\ Ordered(Each(K, DropJunction))
              /\ \A x : x \in Range(EachDropOwn(tb, K)) <=> DropsOwn(tb, X, x)
              /\ \A x : x \in Range(Each(K, DropOther)) <=> DropsOther(X, x)
              /\ \A x : x \in Range(Each(K, DropJunction)) <=> DropsJunction(X, x)
              /\ one /\ OwnApart(X) => Ordered(EachDropOwn(tb, K))
              /\ one /\ OtherApart(X) => Ordered(Each(K, DropOther))
  <1> DEFINE K == Deleted(prior, R)
             X == Range(K)
             F == Fitting(db.tabs)
             one == \A r \in prior : r.id > 0
             distinct == \A i, j \in DOMAIN K : K[i] = K[j] => i = j
  <1>1. K \in Seq(prior) /\ X \in SUBSET prior /\ (one => distinct)
    BY DeletedIs DEF Updating
  <1>2. /\ tb \in Tab /\ prior \in SUBSET KnownRelation /\ \A r \in prior : r.type = M2M => r.jt \in Junction
    BY DEF Updating, KnownRows
  <1> HIDE DEF K
  <1>3. K \in Seq(X)
    <2> DEFINE n == Len(K)
    <2>1. n \in Nat /\ K \in [1 .. n -> prior] /\ DOMAIN K = 1 .. n
      BY <1>1
    <2>2. \A i \in 1 .. n : K[i] \in X
      BY <2>1 DEF Range
    <2> HIDE DEF n, X
    <2>3. K \in [1 .. n -> X]
      BY <2>1, <2>2
    <2> QED
      BY <2>1, <2>3
  <1>4. X = Range(K) /\ X \in SUBSET KnownRelation /\ \A r \in X : r.type = M2M => r.jt \in Junction
    BY <1>1, <1>2
  <1> HIDE DEF X, one
  <1>5. /\ EachDropOwn(tb, K) \in Seq(F)
        /\ \A x : x \in Range(EachDropOwn(tb, K)) <=> DropsOwn(tb, X, x)
        /\ distinct /\ OwnApart(X) => Ordered(EachDropOwn(tb, K))
    BY <1>2, <1>3, <1>4, DropOwnIs
  <1>6. /\ Each(K, DropOther) \in Seq(F)
        /\ \A x : x \in Range(Each(K, DropOther)) <=> DropsOther(X, x)
        /\ distinct /\ OtherApart(X) => Ordered(Each(K, DropOther))
    BY <1>3, <1>4, DropOtherIs
  <1>7. /\ Each(K, DropJunction) \in Seq(F) /\ Ordered(Each(K, DropJunction))
        /\ \A x : x \in Range(Each(K, DropJunction)) <=> DropsJunction(X, x)
    BY <1>3, <1>4, DropJunctionIs
  <1> HIDE DEF distinct
  <1> QED
    BY <1>1, <1>5, <1>6, <1>7 DEF K, X, one

(***************************************************************************)
(* The three groups of statements about created relations.                 *)
(***************************************************************************)
LEMMA CreatedGroups ==
    ASSUME NEW tb, NEW R, NEW prior, Updating(tb, R, prior)
    PROVE  LET K == Created(prior, R)
               F == Fitting(db.tabs)
               P == Fresh(prior, R)
           IN /\ Each(K, AddOwn) \in Seq(F) /\ Each(K, AddOther) \in Seq(F)
              /\ EachAddJunction(K) \in Seq(F)
              /\ Ordered(Each(K, AddOwn)) /\ Ordered(Each(K, AddOther))
              /\ Ordered(EachAddJunction(K))
              /\ \A x : x \in Range(Each(K, AddOwn)) <=> AddsOwn(P, x)
              /\ \A x : x \in Range(Each(K, AddOther)) <=> AddsOther(P, x)
              /\ \A x : x \in Range(EachAddJunction(K)) <=> AddsJunction(P, x)
  <1> DEFINE K == Created(prior, R)
             P == Fresh(prior, R)
             F == Fitting(db.tabs)
  <1>1. P \in SUBSET R /\ K \in Seq(P) /\ Range(K) = P
    BY CreatedIs DEF Updating
  <1>2. R \in SUBSET Relation /\ \A r \in R : r.from = tb /\ r.to \in db.tabs /\ RowOK(r)
    BY DEF Updating, BodyOK
  <1>3. /\ P \in SUBSET Relation /\ \A r \in P : r.from \in db.tabs
    BY <1>1, <1>2 DEF Updating
  <1>4. \A r \in P : r.to \in db.tabs /\ RowOK(r)
    BY <1>1, <1>2
  <1> HIDE DEF K, P
  <1>5. /\ Each(K, AddOwn) \in Seq(F) /\ Ordered(Each(K, AddOwn))
        /\ \A x : x \in Range(Each(K, AddOwn)) <=> AddsOwn(P, x)
    BY <1>1, <1>3, AddOwnIs
  <1>6. /\ Each(K, AddOther) \in Seq(F) /\ Ordered(Each(K, AddOther))
        /\ \A x : x \in Range(Each(K, AddOther)) <=> AddsOther(P, x)
    BY <1>1, <1>3, <1>4, AddOtherIs
  <1>7. /\ EachAddJunction(K) \in Seq(F)
        /\ Ordered(EachAddJunction(K))
        /\ \A x : x \in Range(EachAddJunction(K)) <=> AddsJunction(P, x)
    BY <1>1, <1>3, AddJunctionIs
  <1> QED
    BY <1>5, <1>6, <1>7 DEF K, P
-----------------------------------------------------------------------------
\* All the statements of an update.

\* The statements of an update.
Stated(tb, P, D, N, x) ==
    \/ RenamesOwn(P, x)
    \/ DropsOwn(tb, D, x)
    \/ AddsOwn(N, x)
    \/ DropsOther(D, x)
    \/ AddsOther(N, x)
    \/ RenamesOther(P, x)
    \/ RenamesJunction(P, x)
    \/ AddsJunction(N, x)
    \/ DropsJunction(D, x)

\* No column is renamed or dropped twice.
Apart(tb, P, D, N) ==
    /\ OwnPairsApart(P) /\ OtherPairsApart(P) /\ OwnApart(D) /\ OtherApart(D)
    /\ \A x, y : /\ RenamesOwn(P, x) /\ DropsOwn(tb, D, y) => x.col # y.col
                 /\ RenamesOwn(P, x) /\ DropsOther(D, y) => x.col # y.col
                 /\ RenamesOwn(P, x) /\ RenamesOther(P, y) => x.col # y.col
                 /\ DropsOwn(tb, D, x) /\ DropsOther(D, y) => x.col # y.col
                 /\ DropsOwn(tb, D, x) /\ RenamesOther(P, y) => x.col # y.col
                 /\ DropsOther(D, x) /\ RenamesOther(P, y) => x.col # y.col

(***************************************************************************)
(* Two lists take different columns if no two of their statements take the *)
(* same.                                                                   *)
(***************************************************************************)
LEMMA TakenBetween ==
    ASSUME NEW s1, NEW s2, \A x \in Range(s1), y \in Range(s2) : Takes(x) /\ Takes(y) => x.col # y.col
    PROVE  Taken(s1) \cap Taken(s2) = {}
  <1> SUFFICES ASSUME NEW z, z \in Taken(s1), z \in Taken(s2) PROVE FALSE
    OBVIOUS
  <1>1. PICK x \in Range(s1) : Takes(x) /\ z = x.col
    BY TakenIs
  <1>2. PICK y \in Range(s2) : Takes(y) /\ z = y.col
    BY TakenIs
  <1> QED
    BY <1>1, <1>2

(***************************************************************************)
(* Additions, and all that is done to junction tables, take no column.     *)
(***************************************************************************)
LEMMA NotTaking ==
    /\ \A S, x : AddsOwn(S, x) \/ AddsOther(S, x) => ~Takes(x)
    /\ \A S, x : RenamesJunction(S, x) \/ AddsJunction(S, x) \/ DropsJunction(S, x) => ~Takes(x)
  <1>1. \A x, y : /\ ~Takes(Stmt("addColumn", x, y)) /\ ~Takes(Stmt("addKey", x, y))
                  /\ ~Takes(Stmt("renameTable", x, y)) /\ ~Takes(Stmt("createTable", x, y))
                  /\ ~Takes(Stmt("dropTable", x, y))
    BY StmtIs DEF Takes
  <1>2. \A S, x : AddsOwn(S, x) \/ AddsOther(S, x) => ~Takes(x)
    BY <1>1 DEF AddsOwn, AddsOther
  <1>3. \A S, x : RenamesJunction(S, x) \/ AddsJunction(S, x) \/ DropsJunction(S, x) => ~Takes(x)
    BY <1>1 DEF RenamesJunction, AddsJunction, DropsJunction
  <1> QED
    BY <1>2, <1>3

(***************************************************************************)
(* The statements of an update are those of its nine groups                *)
(* (generateSQLFromDiff()); they take no column twice if no two groups do. *)
(***************************************************************************)
LEMMA RelStatementsAre ==
    ASSUME NEW tb, NEW R, NEW prior, Updating(tb, R, prior)
    PROVE  LET ss == RelStatements(tb, prior, R, db)
               P == Pairs(prior, R)
               D == Range(Deleted(prior, R))
               N == Fresh(prior, R)
           IN /\ ss \in Seq(Fitting(db.tabs))
              /\ \A x : x \in Range(ss) <=> Stated(tb, P, D, N, x)
              /\ (\A r \in prior : r.id > 0) /\ Apart(tb, P, D, N) => Ordered(ss)
  <1> DEFINE P == Pairs(prior, R)
             D == Range(Deleted(prior, R))
             N == Fresh(prior, R)
             one == \A r \in prior : r.id > 0
             X == Fitting(db.tabs)
             g1 == Each(Kept(prior, R), RenameOwn)
             g2 == EachDropOwn(tb, Deleted(prior, R))
             g3 == Each(Created(prior, R), AddOwn)
             g4 == Each(Deleted(prior, R), DropOther)
             g5 == Each(Created(prior, R), AddOther)
             g6 == Each(Kept(prior, R), RenameOther)
             g7 == Each(Kept(prior, R), RenameJunction)
             g8 == EachAddJunction(Created(prior, R))
             g9 == Each(Deleted(prior, R), DropJunction)
             h2 == g1 \o g2
             h3 == h2 \o g3
             h4 == h3 \o g4
             h5 == h4 \o g5
             h6 == h5 \o g6
             h7 == h6 \o g7
             h8 == h7 \o g8
             h9 == h8 \o g9
  <1>1. RelStatements(tb, prior, R, db) = h9
    BY DEF RelStatements, EachDropOwn, EachAddJunction
  <1>2. /\ g1 \in Seq(X) /\ \A x : x \in Range(g1) <=> RenamesOwn(P, x)
        /\ OwnPairsApart(P) => Ordered(g1)
        /\ g6 \in Seq(X) /\ \A x : x \in Range(g6) <=> RenamesOther(P, x)
        /\ OtherPairsApart(P) => Ordered(g6)
        /\ g7 \in Seq(X) /\ \A x : x \in Range(g7) <=> RenamesJunction(P, x)
        /\ Ordered(g7)
    BY PairGroups
  <1>3. /\ g2 \in Seq(X) /\ \A x : x \in Range(g2) <=> DropsOwn(tb, D, x)
        /\ one /\ OwnApart(D) => Ordered(g2)
        /\ g4 \in Seq(X) /\ \A x : x \in Range(g4) <=> DropsOther(D, x)
        /\ one /\ OtherApart(D) => Ordered(g4)
        /\ g9 \in Seq(X) /\ \A x : x \in Range(g9) <=> DropsJunction(D, x)
        /\ Ordered(g9)
    <2>1. /\ g2 \in Seq(X) /\ g4 \in Seq(X) /\ g9 \in Seq(X) /\ Ordered(g9)
      <3>1. g2 \in Seq(X)
        BY DeletedGroups
      <3>2. g4 \in Seq(X)
        BY DeletedGroups
      <3>3. g9 \in Seq(X)
        BY DeletedGroups
      <3>4. Ordered(g9)
        BY DeletedGroups
      <3> QED
        BY <3>1, <3>2, <3>3, <3>4
    <2>2. /\ \A x : x \in Range(g2) <=> DropsOwn(tb, D, x)
          /\ \A x : x \in Range(g4) <=> DropsOther(D, x)
          /\ \A x : x \in Range(g9) <=> DropsJunction(D, x)
      BY DeletedGroups
    <2>3. /\ one /\ OwnApart(D) => Ordered(g2)
          /\ one /\ OtherApart(D) => Ordered(g4)
      <3>1. one /\ OwnApart(D) => Ordered(g2)
        BY DeletedGroups
      <3>2. one /\ OtherApart(D) => Ordered(g4)
        BY DeletedGroups
      <3> QED
        BY <3>1, <3>2
    <2> HIDE DEF one, D, X, g2, g4, g9
    <2> QED
      BY <2>1, <2>2, <2>3
  <1>4. /\ g3 \in Seq(X) /\ \A x : x \in Range(g3) <=> AddsOwn(N, x)
        /\ Ordered(g3)
        /\ g5 \in Seq(X) /\ \A x : x \in Range(g5) <=> AddsOther(N, x)
        /\ Ordered(g5)
        /\ g8 \in Seq(X) /\ \A x : x \in Range(g8) <=> AddsJunction(N, x)
        /\ Ordered(g8)
    BY CreatedGroups
  <1> HIDE DEF P, D, N, X, one, g1, g2, g3, g4, g5, g6, g7, g8, g9
  <1>5. /\ h2 \in Seq(X)
        /\ \A x : x \in Range(h2) <=>
             (\/ RenamesOwn(P, x)
              \/ DropsOwn(tb, D, x))
    <2>1. h2 \in Seq(X) /\ Range(h2) = Range(g1) \cup Range(g2)
      BY <1>2, <1>3, ConcatIs
    <2> HIDE DEF h2
    <2> QED
      BY <1>2, <1>3, <2>1
  <1>6. /\ h3 \in Seq(X)
        /\ \A x : x \in Range(h3) <=>
             (\/ RenamesOwn(P, x)
              \/ DropsOwn(tb, D, x)
              \/ AddsOwn(N, x))
    <2> HIDE DEF h2
    <2>1. h3 \in Seq(X) /\ Range(h3) = Range(h2) \cup Range(g3)
      BY <1>5, <1>4, ConcatIs
    <2> HIDE DEF h3
    <2> QED
      BY <1>5, <1>4, <2>1
  <1>7. /\ h4 \in Seq(X)
        /\ \A x : x \in Range(h4) <=>
             (\/ RenamesOwn(P, x)
              \/ DropsOwn(tb, D, x)
              \/ AddsOwn(N, x)
              \/ DropsOther(D, x))
    <2> HIDE DEF h3
    <2>1. h4 \in Seq(X) /\ Range(h4) = Range(h3) \cup Range(g4)
      BY <1>6, <1>3, ConcatIs
    <2> HIDE DEF h4
    <2> QED
      BY <1>6, <1>3, <2>1
  <1>8. /\ h5 \in Seq(X)
        /\ \A x : x \in Range(h5) <=>
             (\/ RenamesOwn(P, x)
              \/ DropsOwn(tb, D, x)
              \/ AddsOwn(N, x)
              \/ DropsOther(D, x)
              \/ AddsOther(N, x))
    <2> HIDE DEF h4
    <2>1. h5 \in Seq(X) /\ Range(h5) = Range(h4) \cup Range(g5)
      BY <1>7, <1>4, ConcatIs
    <2> HIDE DEF h5
    <2> QED
      BY <1>7, <1>4, <2>1
  <1>9. /\ h6 \in Seq(X)
        /\ \A x : x \in Range(h6) <=>
             (\/ RenamesOwn(P, x)
              \/ DropsOwn(tb, D, x)
              \/ AddsOwn(N, x)
              \/ DropsOther(D, x)
              \/ AddsOther(N, x)
              \/ RenamesOther(P, x))
    <2> HIDE DEF h5
    <2>1. h6 \in Seq(X) /\ Range(h6) = Range(h5) \cup Range(g6)
      BY <1>8, <1>2, ConcatIs
    <2> HIDE DEF h6
    <2> QED
      BY <1>8, <1>2, <2>1
  <1>10. /\ h7 \in Seq(X)
        /\ \A x : x \in Range(h7) <=>
             (\/ RenamesOwn(P, x)
              \/ DropsOwn(tb, D, x)
              \/ AddsOwn(N, x)
              \/ DropsOther(D, x)
              \/ AddsOther(N, x)
              \/ RenamesOther(P, x)
              \/ RenamesJunction(P, x))
    <2> HIDE DEF h6
    <2>1. h7 \in Seq(X) /\ Range(h7) = Range(h6) \cup Range(g7)
      BY <1>9, <1>2, ConcatIs
    <2> HIDE DEF h7
    <2> QED
      BY <1>9, <1>2, <2>1
  <1>11. /\ h8 \in Seq(X)
        /\ \A x : x \in Range(h8) <=>
             (\/ RenamesOwn(P, x)
              \/ DropsOwn(tb, D, x)
              \/ AddsOwn(N, x)
              \/ DropsOther(D, x)
              \/ AddsOther(N, x)
              \/ RenamesOther(P, x)
              \/ RenamesJunction(P, x)
              \/ AddsJunction(N, x))
    <2> HIDE DEF h7
    <2>1. h8 \in Seq(X) /\ Range(h8) = Range(h7) \cup Range(g8)
      BY <1>10, <1>4, ConcatIs
    <2> HIDE DEF h8
    <2> QED
      BY <1>10, <1>4, <2>1
  <1>12. /\ h9 \in Seq(X)
        /\ \A x : x \in Range(h9) <=>
             (\/ RenamesOwn(P, x)
              \/ DropsOwn(tb, D, x)
              \/ AddsOwn(N, x)
              \/ DropsOther(D, x)
              \/ AddsOther(N, x)
              \/ RenamesOther(P, x)
              \/ RenamesJunction(P, x)
              \/ AddsJunction(N, x)
              \/ DropsJunction(D, x))
    <2> HIDE DEF h8
    <2>1. h9 \in Seq(X) /\ Range(h9) = Range(h8) \cup Range(g9)
      BY <1>11, <1>3, ConcatIs
    <2> HIDE DEF h9
    <2> QED
      BY <1>11, <1>3, <2>1
  <1>13. ASSUME one, Apart(tb, P, D, N) PROVE Ordered(h9)
    <2>1. Ordered(g1) /\ Ordered(g2) /\ Ordered(g4) /\ Ordered(g6)
      BY <1>2, <1>3, <1>13 DEF Apart
    <2>2. Taken(g1) \cap Taken(g2) = {}
      <3>1. \A x \in Range(g1), y \in Range(g2) : Takes(x) /\ Takes(y) => x.col # y.col
        BY <1>2, <1>3, <1>13, NotTaking DEF Apart
      <3> QED
        BY <3>1, TakenBetween
    <2>3. Ordered(h2)
      BY <1>2, <1>3, <2>1, <2>2, <2>1, ConcatOrdered
    <2>4. Taken(h2) \cap Taken(g3) = {}
      <3> HIDE DEF h2
      <3>1. \A x \in Range(h2), y \in Range(g3) : Takes(x) /\ Takes(y) => x.col # y.col
        BY <1>5, <1>4, <1>13, NotTaking DEF Apart
      <3> QED
        BY <3>1, TakenBetween
    <2>5. Ordered(h3)
      BY <1>5, <1>4, <2>1, <2>4, <2>3, ConcatOrdered
    <2>6. Taken(h3) \cap Taken(g4) = {}
      <3> HIDE DEF h3
      <3>1. \A x \in Range(h3), y \in Range(g4) : Takes(x) /\ Takes(y) => x.col # y.col
        BY <1>6, <1>3, <1>13, NotTaking DEF Apart
      <3> QED
        BY <3>1, TakenBetween
    <2>7. Ordered(h4)
      BY <1>6, <1>3, <2>1, <2>6, <2>5, ConcatOrdered
    <2>8. Taken(h4) \cap Taken(g5) = {}
      <3> HIDE DEF h4
      <3>1. \A x \in Range(h4), y \in Range(g5) : Takes(x) /\ Takes(y) => x.col # y.col
        BY <1>7, <1>4, <1>13, NotTaking DEF Apart
      <3> QED
        BY <3>1, TakenBetween
    <2>9. Ordered(h5)
      BY <1>7, <1>4, <2>1, <2>8, <2>7, ConcatOrdered
    <2>10. Taken(h5) \cap Taken(g6) = {}
      <3> HIDE DEF h5
      <3>1. \A x \in Range(h5), y \in Range(g6) : Takes(x) /\ Takes(y) => x.col # y.col
        BY <1>8, <1>2, <1>13, NotTaking DEF Apart
      <3> QED
        BY <3>1, TakenBetween
    <2>11. Ordered(h6)
      BY <1>8, <1>2, <2>1, <2>10, <2>9, ConcatOrdered
    <2>12. Taken(h6) \cap Taken(g7) = {}
      <3> HIDE DEF h6
      <3>1. \A x \in Range(h6), y \in Range(g7) : Takes(x) /\ Takes(y) => x.col # y.col
        BY <1>9, <1>2, <1>13, NotTaking DEF Apart
      <3> QED
        BY <3>1, TakenBetween
    <2>13. Ordered(h7)
      BY <1>9, <1>2, <2>1, <2>12, <2>11, ConcatOrdered
    <2>14. Taken(h7) \cap Taken(g8) = {}
      <3> HIDE DEF h7
      <3>1. \A x \in Range(h7), y \in Range(g8) : Takes(x) /\ Takes(y) => x.col # y.col
        BY <1>10, <1>4, <1>13, NotTaking DEF Apart
      <3> QED
        BY <3>1, TakenBetween
    <2>15. Ordered(h8)
      BY <1>10, <1>4, <2>1, <2>14, <2>13, ConcatOrdered
    <2>16. Taken(h8) \cap Taken(g9) = {}
      <3> HIDE DEF h8
      <3>1. \A x \in Range(h8), y \in Range(g9) : Takes(x) /\ Takes(y) => x.col # y.col
        BY <1>11, <1>3, <1>13, NotTaking DEF Apart
      <3> QED
        BY <3>1, TakenBetween
    <2>17. Ordered(h9)
      BY <1>11, <1>3, <2>1, <2>16, <2>15, ConcatOrdered
    <2> QED
      BY <2>17
  <1> HIDE DEF h9
  <1> QED
    BY <1>1, <1>12, <1>13 DEF P, D, N, X, one, Stated
-----------------------------------------------------------------------------
\* Types.

\* The cache has nothing of a table, or relations that agree with the rows.
KnownOK(x) ==
    \/ known[x] = {NoTab}
    \/ /\ KnownRows(known[x])
       /\ \A r \in known[x] : r.id < nextRel
       /\ Agree(known[x], rels)

\* The types, and what makes them inductive.
RelInv ==
    /\ engine \in MigDialects /\ nextRel \in 1 .. MaxRel + 1 /\ dirty \in Nat
    /\ RelsOK(rels, db.tabs, nextRel)
    /\ DbOK(db)
    /\ \A x \in Tab : KnownOK(x)

(***************************************************************************)
(* What a reload makes of a table agrees with the rows.                    *)
(***************************************************************************)
LEMMA LoadKnown ==
    ASSUME NEW rs, NEW d, NEW T, NEW n \in Nat \ {0}, RelsOK(rs, T, n), NEW x \in Tab,
           Load(rs, d)[x] # {NoTab}
    PROVE  /\ KnownRows(Load(rs, d)[x]) /\ Agree(Load(rs, d)[x], rs)
           /\ \A r \in Load(rs, d)[x] : r.id < n
  <1> DEFINE K == Load(rs, d)[x]
             G == Generated(x, rs, d)
  <1>1. KnownRows(K) /\ K = {KnownRow(r, d) : r \in {s \in rs : s.from = x}} \cup G
    BY LoadIs
  <1>2. \A r \in G : r.id < 0 /\ r.id \in Int
    BY GeneratedIs DEF KnownRelation
  <1>3. \A r \in rs : r \in Relation /\ r.id < n /\ r.id \in Int /\ r.id > 0
    BY RelationIs DEF RelsOK
  <1> HIDE DEF G, K
  <1>4. ASSUME NEW k \in K, k \notin G
        PROVE  \E r \in rs : k.id = r.id /\ k.type = r.type /\ k.jt = r.jt
    <2>1. PICK r \in rs : k = KnownRow(r, d)
      BY <1>1, <1>4
    <2> QED
      BY <2>1 DEF KnownRow
  <1>5. \A r, s \in rs : r.id = s.id => r = s
    BY DEF RelsOK
  <1>6. \A k \in K : k.id < n
    BY <1>2, <1>3, <1>4
  <1>7. ASSUME NEW k \in K, NEW r \in rs, k.id = r.id PROVE k.type = r.type /\ k.jt = r.jt
    <2>1. k \notin G
      BY <1>2, <1>3, <1>7
    <2> QED
      BY <1>4, <1>5, <1>7, <2>1
  <1> QED
    BY <1>1, <1>6, <1>7 DEF Agree, K

(***************************************************************************)
(* A well-formed database remains so without some columns and their        *)
(* constraints.                                                            *)
(***************************************************************************)
LEMMA WithoutIs ==
    ASSUME NEW d, DbOK(d), NEW cs
    PROVE  /\ DbOK(WithoutKeys(d, cs)) /\ DbOK(WithoutColumns(d, cs))
           /\ WithoutKeys(d, cs).tabs = d.tabs /\ WithoutColumns(d, cs).tabs = d.tabs
           /\ WithoutKeys(d, cs).cols = d.cols /\ WithoutColumns(d, cs).cols = d.cols \ cs
           /\ WithoutKeys(d, cs).junctions = d.junctions
           /\ WithoutColumns(d, cs).junctions = d.junctions
           /\ \A x : x \in WithoutKeys(d, cs).keys <=> x \in d.keys /\ x.col \notin cs
           /\ WithoutColumns(d, cs).keys = WithoutKeys(d, cs).keys
  <1>1. /\ d.tabs \subseteq Tab /\ d.cols \subseteq LinkColumn /\ d.keys \subseteq Constraint
        /\ d.junctions \subseteq Junction
        /\ d = [tabs |-> d.tabs, cols |-> d.cols, keys |-> d.keys, junctions |-> d.junctions]
    BY DEF DbOK, DbTypes
  <1> DEFINE K == {k \in d.keys : k.col \notin cs}
             e == [tabs |-> d.tabs, cols |-> d.cols, keys |-> K, junctions |-> d.junctions]
             f == [tabs |-> d.tabs, cols |-> d.cols \ cs, keys |-> K, junctions |-> d.junctions]
  <1>2. WithoutKeys(d, cs) = e
    <2>1. WithoutKeys(d, cs) = [d EXCEPT !.keys = K]
      BY DEF WithoutKeys
    <2> HIDE DEF K
    <2> QED
      BY <1>1, <2>1
  <1>3. WithoutColumns(d, cs) = f
    BY <1>1, <1>2 DEF WithoutColumns
  <1>4. K \subseteq d.keys /\ \A x : x \in K <=> x \in d.keys /\ x.col \notin cs
    OBVIOUS
  <1> HIDE DEF K
  <1>5. DbOK(e) /\ DbOK(f)
    BY <1>1, <1>4 DEF DbOK, DbTypes
  <1> QED
    BY <1>2, <1>3, <1>4, <1>5

(***************************************************************************)
(* The invariant of types holds at first.                                  *)
(***************************************************************************)
LEMMA MigInitTyped ==
    ASSUME MigInit
    PROVE  RelInv
  <1>1. db = [tabs |-> {}, cols |-> {}, keys |-> {}, junctions |-> {}] /\ rels = {} /\ nextRel = 1
        /\ engine \in MigDialects /\ dirty = 0 /\ known = Load(rels, db)
    BY DEF MigInit
  <1>2. DbOK(db) /\ RelsOK(rels, db.tabs, nextRel)
    BY <1>1 DEF DbOK, DbTypes, RelsOK
  <1>3. nextRel \in 1 .. MaxRel + 1 /\ nextRel \in Nat \ {0} /\ dirty \in Nat
    BY <1>1, MigAssumption
  <1>4. \A x \in Tab : KnownOK(x)
    BY <1>1, <1>2, <1>3, LoadKnown DEF KnownOK
  <1> QED
    BY <1>1, <1>2, <1>3, <1>4 DEF RelInv

(***************************************************************************)
(* It holds of the cache after a reload.                                   *)
(***************************************************************************)
LEMMA KnownAfter ==
    ASSUME RelsOK(rels', db'.tabs, nextRel'), nextRel' \in 1 .. MaxRel + 1,
           known' = Load(rels', db')
    PROVE  \A x \in Tab : KnownOK(x)'
  <1>1. nextRel' \in Nat \ {0}
    BY MigAssumption
  <1>2. ASSUME NEW x \in Tab, known'[x] # {NoTab}
        PROVE  /\ KnownRows(known'[x]) /\ Agree(known'[x], rels')
               /\ \A r \in known'[x] : r.id < nextRel'
    BY <1>1, <1>2, LoadKnown
  <1> QED
    BY <1>2 DEF KnownOK

(***************************************************************************)
(* The column or junction table of a created relation is well-formed       *)
(* (createTable()).                                                        *)
(***************************************************************************)
LEMMA BuiltIs ==
    ASSUME NEW d, DbOK(d), NEW r \in Relation, RowOK(r), r.from \in d.tabs, r.to \in d.tabs,
           \A k \in d.keys : /\ r.type \in HasColumn => k.name # <<"foreign", <<r.from, r.prop>>>>
                             /\ r.type = O2M => k.name # <<"foreign", <<r.to, r.inv>>>>
    PROVE  DbOK(BuiltFor(d, r)) /\ BuiltFor(d, r).tabs = d.tabs
  <1>1. /\ d.tabs \subseteq Tab /\ d.cols \subseteq LinkColumn /\ d.keys \subseteq Constraint
        /\ d.junctions \subseteq Junction
        /\ d = [tabs |-> d.tabs, cols |-> d.cols, keys |-> d.keys, junctions |-> d.junctions]
    BY DEF DbOK, DbTypes
  <1>2. CASE r.type = M2M
    <2>1. BuiltFor(d, r) = [tabs |-> d.tabs, cols |-> d.cols, keys |-> d.keys,
                            junctions |-> d.junctions \cup {r.jt}]
      BY <1>1, <1>2 DEF BuiltFor
    <2>2. r.jt \in Junction
      BY <1>2 DEF RowOK
    <2> QED
      BY <1>1, <2>1, <2>2 DEF DbOK, DbTypes
  <1>3. CASE r.type # M2M
    <2> DEFINE c == IF r.type = O2M THEN <<r.to, r.inv>> ELSE <<r.from, r.prop>>
               x == IF r.type = O2M THEN r.from ELSE r.to
               key == [col |-> c, name |-> <<"foreign", c>>, to |-> x]
    <2>1. BuiltFor(d, r) = [tabs |-> d.tabs, cols |-> d.cols \cup {c}, keys |-> d.keys \cup {key},
                            junctions |-> d.junctions]
      BY <1>1, <1>3 DEF BuiltFor
    <2>2. c \in LinkColumn /\ c[1] \in d.tabs /\ x \in Tab
      BY RelationIs DEF RowOK, LinkColumn
    <2>3. \A k \in d.keys : k.name # <<"foreign", c>>
      BY <1>3, RelationIs DEF HasColumn
    <2> HIDE DEF c, x
    <2>4. /\ key \in Constraint /\ key.col[1] \in d.tabs /\ key.name[2][1] = key.col[1]
          /\ key.name = <<"foreign", c>>
      BY <2>2 DEF Constraint
    <2> HIDE DEF key
    <2> QED
      BY <1>1, <2>1, <2>2, <2>3, <2>4 DEF DbOK, DbTypes
  <1> QED
    BY <1>2, <1>3

(***************************************************************************)
(* Creation of a table keeps the invariant of types.                       *)
(***************************************************************************)
LEMMA CreateTyped ==
    ASSUME RelInv, NEW tb \in Tab, CreateTable(tb)
    PROVE  RelInv'
  <1> DEFINE built == [db EXCEPT !.tabs = @ \cup {tb}]
  <1>1. /\ tb \notin db.tabs /\ known' = Load(rels', db') /\ UNCHANGED <<engine, dirty>>
        /\ \/ db' = built /\ UNCHANGED <<rels, nextRel>>
           \/ \E r \in NewRelations(tb) :
                /\ r.type = O2M => \A k \in db.keys : k.name # <<"foreign", <<r.to, r.inv>>>>
                /\ rels' = rels \cup {r} /\ nextRel' = nextRel + 1 /\ db' = BuiltFor(built, r)
    BY DEF CreateTable
  <1>2. DbOK(db) /\ RelsOK(rels, db.tabs, nextRel) /\ nextRel \in 1 .. MaxRel + 1
    BY DEF RelInv
  <1>3. /\ db.tabs \subseteq Tab
        /\ db = [tabs |-> db.tabs, cols |-> db.cols, keys |-> db.keys, junctions |-> db.junctions]
    BY <1>2 DEF DbOK, DbTypes
  <1>4. /\ built.tabs = db.tabs \cup {tb} /\ built.keys = db.keys /\ built.cols = db.cols
        /\ built.junctions = db.junctions
        /\ built = [tabs |-> db.tabs \cup {tb}, cols |-> db.cols, keys |-> db.keys,
                   junctions |-> db.junctions]
    BY <1>3
  <1> HIDE DEF built
  <1>5. DbOK(built)
    BY <1>2, <1>3, <1>4 DEF DbOK, DbTypes
  <1>6. DbOK(db') /\ RelsOK(rels', db'.tabs, nextRel') /\ nextRel' \in 1 .. MaxRel + 1
    <2>1. CASE db' = built /\ UNCHANGED <<rels, nextRel>>
      BY <1>2, <1>4, <1>5, <2>1 DEF RelsOK
    <2>2. ASSUME NEW r \in NewRelations(tb),
                 r.type = O2M => \A k \in db.keys : k.name # <<"foreign", <<r.to, r.inv>>>>,
                 rels' = rels \cup {r}, nextRel' = nextRel + 1, db' = BuiltFor(built, r)
          PROVE  DbOK(db') /\ RelsOK(rels', db'.tabs, nextRel') /\ nextRel' \in 1 .. MaxRel + 1
      <3>1. /\ r \in Relation /\ r.id = nextRel /\ nextRel + 1 \in 1 .. MaxRel + 1
            /\ r.from = tb /\ r.to \in db.tabs /\ RowOK(r)
        BY <1>2, NewRelationsAre
      <3>2. \A k \in db.keys : k.name # <<"foreign", <<r.from, r.prop>>>>
        <4>1. ASSUME NEW k \in db.keys PROVE k.name # <<"foreign", <<tb, r.prop>>>>
          <5>1. k.name[2][1] \in db.tabs
            BY <1>2 DEF DbOK
          <5> QED
            BY <1>1, <5>1
        <4> QED
          BY <3>1, <4>1
      <3>3. DbOK(db') /\ db'.tabs = db.tabs \cup {tb}
        BY <1>4, <1>5, <2>2, <3>1, <3>2, BuiltIs
      <3>4. \A s \in rels : s.id # r.id /\ s.from # r.from /\ s.id < nextRel + 1
        <4>1. ASSUME NEW s \in rels PROVE s.id # r.id /\ s.from # r.from /\ s.id < nextRel + 1
          <5>1. s.id \in Int /\ s.id < nextRel /\ s.from \in db.tabs
            BY <1>2, RelationIs DEF RelsOK
          <5> QED
            BY <1>1, <1>2, <3>1, <5>1
        <4> QED
          BY <4>1
      <3>5. nextRel < nextRel + 1
        BY <1>2
      <3>6. RelsOK(rels', db'.tabs, nextRel')
        BY <1>2, <2>2, <3>1, <3>3, <3>4, <3>5 DEF RelsOK
      <3> QED
        BY <2>2, <3>1, <3>3, <3>6
    <2> QED
      BY <1>1, <2>1, <2>2
  <1>7. \A x \in Tab : KnownOK(x)'
    BY <1>1, <1>6, KnownAfter
  <1> QED
    BY <1>1, <1>6, <1>7 DEF RelInv

(***************************************************************************)
(* A reload keeps the invariant of types.                                  *)
(***************************************************************************)
LEMMA RefreshTyped ==
    ASSUME RelInv, Refresh
    PROVE  RelInv'
  <1>1. known' = Load(rels', db') /\ UNCHANGED <<engine, rels, db, nextRel, dirty>>
    BY DEF Refresh
  <1>2. RelsOK(rels', db'.tabs, nextRel') /\ nextRel' \in 1 .. MaxRel + 1 /\ DbOK(db')
    BY <1>1 DEF RelInv, DbOK, RelsOK
  <1>3. \A x \in Tab : KnownOK(x)'
    BY <1>1, <1>2, KnownAfter
  <1> QED
    BY <1>1, <1>2, <1>3 DEF RelInv

(***************************************************************************)
(* Deletion of a table keeps the invariant of types: what is left is other *)
(* tables'.                                                                *)
(***************************************************************************)
LEMMA DeleteTyped ==
    ASSUME RelInv, NEW tb \in Tab, DeleteTable(tb)
    PROVE  RelInv'
  <1> DEFINE involved == {r \in rels : tb \in {r.from, r.to}}
             d == Unreferenced(db, tb)
             e == WithoutColumns(d, {tb} \X Prop)
             J == {r.jt : r \in involved}
  <1>1. /\ rels' = rels \ involved /\ known' = Load(rels', db') /\ UNCHANGED <<engine, nextRel>>
        /\ db' = [e EXCEPT !.tabs = @ \ {tb}, !.junctions = @ \ J]
        /\ dirty' = IF TakesAnother(tb) THEN dirty + 1 ELSE dirty
    BY DEF DeleteTable
  <1>2. DbOK(db) /\ RelsOK(rels, db.tabs, nextRel) /\ nextRel \in 1 .. MaxRel + 1 /\ dirty \in Nat
    BY DEF RelInv
  <1>3. dirty' \in Nat
    BY <1>1, <1>2
  <1>4. DbOK(e) /\ e.tabs = db.tabs /\ \A x \in e.cols : x \notin {tb} \X Prop
    <2>1. DbOK(d) /\ d.tabs = db.tabs
      BY <1>2, WithoutIs DEF Unreferenced
    <2> HIDE DEF d
    <2> QED
      BY <2>1, WithoutIs
  <1>5. \A k \in e.keys : k.col \notin {tb} \X Prop
    <2>1. DbOK(d)
      BY <1>2, WithoutIs DEF Unreferenced
    <2> HIDE DEF d
    <2> QED
      BY <2>1, WithoutIs
  <1> HIDE DEF e, J
  <1>6. /\ e.tabs \subseteq Tab /\ e.cols \subseteq LinkColumn /\ e.keys \subseteq Constraint
        /\ e.junctions \subseteq Junction
        /\ e = [tabs |-> e.tabs, cols |-> e.cols, keys |-> e.keys, junctions |-> e.junctions]
    BY <1>4 DEF DbOK, DbTypes
  <1>7. db' = [tabs |-> e.tabs \ {tb}, cols |-> e.cols, keys |-> e.keys, junctions |-> e.junctions \ J]
    BY <1>1, <1>6
  <1>8. \A x \in LinkColumn : x \notin {tb} \X Prop => x[1] # tb
    BY DEF LinkColumn
  <1>9. \A k \in Constraint : k.col \in LinkColumn
    BY DEF Constraint
  <1>10. DbOK(db')
    <2>1. /\ db'.tabs = e.tabs \ {tb} /\ db'.cols = e.cols /\ db'.keys = e.keys
          /\ db'.junctions = e.junctions \ J
      BY <1>7
    <2>2. db' \in DbTypes
      BY <1>6, <1>7 DEF DbTypes
    <2>3. \A x \in e.cols : x[1] # tb
      BY <1>4, <1>6, <1>8
    <2>4. \A k \in e.keys : k.col[1] # tb
      BY <1>5, <1>6, <1>8, <1>9
    <2> QED
      BY <1>4, <2>1, <2>2, <2>3, <2>4 DEF DbOK
  <1>11. RelsOK(rels', db'.tabs, nextRel')
    <2>1. db'.tabs = db.tabs \ {tb}
      BY <1>4, <1>7
    <2>2. \A r \in rels' : r \in rels /\ r.from # tb /\ r.to # tb
      BY <1>1
    <2> QED
      BY <1>1, <1>2, <2>1, <2>2 DEF RelsOK
  <1>12. \A x \in Tab : KnownOK(x)'
    BY <1>1, <1>2, <1>11, KnownAfter
  <1> QED
    BY <1>1, <1>2, <1>3, <1>10, <1>11, <1>12 DEF RelInv

(***************************************************************************)
(* An update analyses rows that agree with the cache's.                    *)
(***************************************************************************)
LEMMA UpdatingIs ==
    ASSUME RelInv, NEW tb \in Tab, tb \in db.tabs, NEW R \in RelBodies(tb), known[tb] # {NoTab}
    PROVE  Updating(tb, R, known[tb])
  <1>1. BodyOK(tb, R) /\ DbOK(db)
    BY BodiesAre DEF RelInv
  <1>2. /\ KnownRows(known[tb]) /\ Agree(known[tb], rels)
        /\ \A r \in known[tb] : r.id < nextRel
    BY DEF RelInv, KnownOK
  <1>3. Agree(known[tb], R)
    <2>1. ASSUME NEW x \in known[tb], NEW r \in R, x.id = r.id
          PROVE x.type = r.type /\ x.jt = r.jt
      <3>1. CASE r \in NewRelations(tb)
        <4>1. r.id = nextRel /\ nextRel \in Int
          BY <1>1, <3>1, NewRelationsAre DEF RelInv
        <4>2. x.id \in Int /\ x.id < nextRel
          BY <1>2 DEF KnownRows, KnownRelation
        <4> QED
          BY <2>1, <4>1, <4>2
      <3>2. CASE r \notin NewRelations(tb)
        <4>1. PICK s \in Own(tb) : r.id = s.id /\ r.type = s.type /\ r.jt = s.jt
          BY <1>1, <3>2 DEF BodyOK
        <4>2. s \in rels
          BY <4>1 DEF Own
        <4> QED
          BY <1>2, <2>1, <4>1, <4>2 DEF Agree
      <3> QED
        BY <3>1, <3>2
    <2> QED
      BY <2>1 DEF Agree
  <1> QED
    BY <1>1, <1>2, <1>3 DEF Updating

(***************************************************************************)
(* The rows after an update have ids and names of their own.               *)
(***************************************************************************)
LEMMA RowsAfter ==
    ASSUME RelInv, NEW tb \in Tab, tb \in db.tabs, NEW R \in RelBodies(tb)
    PROVE  LET n == IF nextRel \in {r.id : r \in R} THEN nextRel + 1 ELSE nextRel
           IN RelsOK(Others(tb) \cup R, db.tabs, n) /\ n \in 1 .. MaxRel + 1
  <1> DEFINE n == IF nextRel \in {r.id : r \in R} THEN nextRel + 1 ELSE nextRel
             rs == Others(tb) \cup R
  <1>1. DbOK(db) /\ RelsOK(rels, db.tabs, nextRel) /\ nextRel \in 1 .. MaxRel + 1 /\ nextRel \in Int
    BY DEF RelInv
  <1>2. BodyOK(tb, R)
    BY <1>1, BodiesAre
  <1>3. \A r \in R : /\ r \in NewRelations(tb) => r.id = nextRel /\ nextRel + 1 \in 1 .. MaxRel + 1
    BY <1>1, NewRelationsAre
  <1>4. \A s \in rels : s \in Relation /\ s.id \in Int /\ s.id < nextRel
    BY <1>1, RelationIs DEF RelsOK
  <1>5. \A s \in Own(tb) : s \in rels /\ s.from = tb
    BY DEF Own
  <1>6. \A s \in Others(tb) : s \in rels /\ s.from # tb
    BY DEF Own, Others
  <1>7. \A r \in R : r \in NewRelations(tb) \/ \E s \in Own(tb) : r.id = s.id
    BY <1>2 DEF BodyOK
  <1>8. n \in 1 .. MaxRel + 1 /\ n \in Int /\ nextRel <= n
    <2>1. CASE nextRel \in {r.id : r \in R}
      <3>1. PICK r \in R : r.id = nextRel
        BY <2>1
      <3>2. r \in NewRelations(tb)
        <4>1. \A s \in Own(tb) : s.id # nextRel
          BY <1>1, <1>4, <1>5
        <4> QED
          BY <1>7, <3>1, <4>1
      <3> QED
        BY <1>1, <1>3, <2>1, <3>2
    <2>2. CASE nextRel \notin {r.id : r \in R}
      BY <1>1, <2>2
    <2> QED
      BY <2>1, <2>2
  <1>9. ASSUME NEW r \in R PROVE r.id < n
    <2>1. CASE r \in NewRelations(tb)
      BY <1>1, <1>3, <2>1
    <2>2. CASE r \notin NewRelations(tb)
      BY <1>1, <1>4, <1>5, <1>7, <1>8, <2>2
    <2> QED
      BY <2>1, <2>2
  <1>10. ASSUME NEW s \in Others(tb), NEW r \in R PROVE s.id # r.id /\ s.from # r.from
    <2>1. s \in rels /\ s.from # tb /\ s.id < nextRel /\ s.id \in Int
      BY <1>4, <1>6
    <2>2. s.from # r.from
      BY <1>2, <2>1 DEF BodyOK
    <2>3. CASE r \in NewRelations(tb)
      BY <1>1, <1>3, <2>1, <2>2, <2>3
    <2>4. CASE r \notin NewRelations(tb)
      <3>1. PICK x \in Own(tb) : r.id = x.id
        BY <1>7, <2>4
      <3>2. x \in rels /\ x # s
        BY <1>5, <2>1, <3>1
      <3>3. x.id # s.id
        BY <1>1, <2>1, <3>2 DEF RelsOK
      <3> QED
        BY <2>2, <3>1, <3>3
    <2> QED
      BY <2>3, <2>4
  <1> HIDE DEF n
  <1>11. \A r \in rs : r \in Relation /\ r.id < n /\ r.from \in db.tabs /\ r.to \in db.tabs /\ RowOK(r)
    <2>1. ASSUME NEW r \in R
          PROVE  r \in Relation /\ r.id < n /\ r.from \in db.tabs /\ r.to \in db.tabs /\ RowOK(r)
      BY <1>2, <1>9 DEF BodyOK
    <2>2. ASSUME NEW r \in Others(tb)
          PROVE  r \in Relation /\ r.id < n /\ r.from \in db.tabs /\ r.to \in db.tabs /\ RowOK(r)
      <3>1. r.id < n
        BY <1>1, <1>4, <1>6, <1>8
      <3> QED
        BY <1>1, <1>6, <3>1 DEF RelsOK
    <2> QED
      BY <2>1, <2>2
  <1>12. \A r, s \in rs : (r.id = s.id \/ <<r.from, r.prop>> = <<s.from, s.prop>>) => r = s
    <2>1. \A r, s \in Others(tb) : (r.id = s.id \/ <<r.from, r.prop>> = <<s.from, s.prop>>) => r = s
      BY <1>1, <1>6 DEF RelsOK
    <2>2. \A r, s \in R : (r.id = s.id \/ r.prop = s.prop) => r = s
      BY <1>2 DEF BodyOK
    <2> QED
      BY <1>10, <2>1, <2>2
  <1>13. RelsOK(rs, db.tabs, n)
    BY <1>11, <1>12 DEF RelsOK
  <1> QED
    BY <1>8, <1>13 DEF n

(***************************************************************************)
(* Well-formed statements are executed as far as they are possible, and    *)
(* lead to a well-formed database.                                         *)
(***************************************************************************)
LEMMA RunsIs ==
    ASSUME NEW d, DbOK(d), NEW T, T = d.tabs, NEW ss \in Seq(Fitting(T))
    PROVE  LET n == AllPossible(d, ss)
           IN /\ n \in 0 .. Len(ss) /\ Len(ss) \in Nat
              /\ DbOK(After(d, ss)[n]) /\ After(d, ss)[n].tabs = d.tabs
              /\ n = Len(ss) => Runs(d, ss)
  <1>1. Len(ss) \in Nat
    OBVIOUS
  <1>2. /\ AllPossible(d, ss) \in 0 .. Len(ss)
        /\ \A i \in 1 .. AllPossible(d, ss) : Possible(After(d, ss)[i - 1], ss[i])
    BY <1>1, AllPossibleIs
  <1>3. DbOK(After(d, ss)[AllPossible(d, ss)]) /\ After(d, ss)[AllPossible(d, ss)].tabs = d.tabs
    BY <1>2, ExecutedFits
  <1> QED
    BY <1>1, <1>2, <1>3 DEF Runs

(***************************************************************************)
(* An update keeps the invariant of types, however far it gets.            *)
(***************************************************************************)
LEMMA UpdateTyped ==
    ASSUME RelInv, NEW tb \in Tab, UpdateTable(tb)
    PROVE  RelInv'
  <1>1. /\ DbOK(db) /\ RelsOK(rels, db.tabs, nextRel) /\ nextRel \in 1 .. MaxRel + 1 /\ dirty \in Nat
        /\ engine \in MigDialects
    BY DEF RelInv
  <1>2. tb \in db.tabs /\ engine' = engine
    BY DEF UpdateTable
  <1> DEFINE Ss(R) == RelStatements(tb, known[tb], R, db)
             D(R) == Prepared(db, Ss(R))
             N(R) == AllPossible(D(R), Ss(R))
  <1>3. PICK R \in RelBodies(tb) :
          /\ rels' = Others(tb) \cup R
          /\ nextRel' = IF nextRel \in {r.id : r \in R} THEN nextRel + 1 ELSE nextRel
          /\ dirty' = dirty \/ dirty' = dirty + 1
          /\ \/ db' = db /\ known' = Load(rels', db')
             \/ db' = db /\ known' = known
             \/ /\ known[tb] # {NoTab} /\ db' = After(D(R), Ss(R))[N(R)]
                /\ known' = Load(rels', db') \/ known' = known
             \/ known[tb] # {NoTab} /\ db' = D(R) /\ known' = known
    BY DEF UpdateTable
  <1>4. RelsOK(rels', db.tabs, nextRel') /\ nextRel' \in 1 .. MaxRel + 1
    BY <1>2, <1>3, RowsAfter
  <1>5. dirty' \in Nat /\ engine' \in MigDialects
    BY <1>1, <1>2, <1>3
  <1>6. ASSUME known[tb] # {NoTab}
        PROVE  /\ DbOK(D(R)) /\ D(R).tabs = db.tabs
               /\ DbOK(After(D(R), Ss(R))[N(R)]) /\ After(D(R), Ss(R))[N(R)].tabs = db.tabs
    <2>1. Updating(tb, R, known[tb])
      BY <1>2, <1>3, <1>6, UpdatingIs
    <2>2. Ss(R) \in Seq(Fitting(db.tabs))
      BY <2>1, RelStatementsAre
    <2>3. DbOK(D(R)) /\ D(R).tabs = db.tabs
      BY <1>1, WithoutIs DEF Prepared
    <2> HIDE DEF Ss, D
    <2> QED
      BY <2>2, <2>3, RunsIs
  <1>7. DbOK(db') /\ db'.tabs = db.tabs
    BY <1>1, <1>3, <1>6
  <1> HIDE DEF Ss, D, N
  <1>8. RelsOK(rels', db'.tabs, nextRel')
    BY <1>4, <1>7
  <1>9. CASE known' = Load(rels', db')
    <2>1. \A x \in Tab : KnownOK(x)'
      BY <1>4, <1>8, <1>9, KnownAfter
    <2> QED
      BY <1>4, <1>5, <1>7, <1>8, <2>1 DEF RelInv
  <1>10. CASE known' = known
    <2>1. ASSUME NEW x \in Tab PROVE KnownOK(x)'
      <3>1. CASE known[x] = {NoTab}
        BY <1>10, <3>1 DEF KnownOK
      <3>2. CASE known[x] # {NoTab}
        <4>1. /\ KnownRows(known[x]) /\ \A r \in known[x] : r.id < nextRel /\ r.id \in Int
              /\ Agree(known[x], rels)
          BY <3>2 DEF RelInv, KnownOK, KnownRows, KnownRelation
        <4>2. nextRel <= nextRel' /\ nextRel \in Int /\ nextRel' \in Int
          BY <1>1, <1>3
        <4>3. \A r \in known[x] : r.id < nextRel'
          BY <4>1, <4>2
        <4>4. ASSUME NEW k \in known[x], NEW r \in rels', k.id = r.id
              PROVE  k.type = r.type /\ k.jt = r.jt
          <5>1. CASE r \in Others(tb)
            BY <4>1, <4>4, <5>1 DEF Others, Agree
          <5>2. CASE r \in R /\ r \in NewRelations(tb)
            <6>1. r.id = nextRel
              BY <1>1, <5>2, NewRelationsAre
            <6> QED
              BY <4>1, <4>2, <4>4, <6>1
          <5>3. CASE r \in R /\ r \notin NewRelations(tb)
            <6>1. BodyOK(tb, R)
              BY <1>1, <1>3, BodiesAre
            <6>2. PICK s \in Own(tb) : r.id = s.id /\ r.type = s.type /\ r.jt = s.jt
              BY <5>3, <6>1 DEF BodyOK
            <6> QED
              BY <4>1, <4>4, <6>2 DEF Own, Agree
          <5> QED
            BY <1>3, <5>1, <5>2, <5>3
        <4>5. Agree(known[x], rels')
          BY <4>4 DEF Agree
        <4> QED
          BY <1>10, <4>1, <4>3, <4>5 DEF KnownOK
      <3> QED
        BY <3>1, <3>2
    <2> QED
      BY <1>4, <1>5, <1>7, <1>8, <2>1 DEF RelInv
  <1> QED
    BY <1>3, <1>9, <1>10

(***************************************************************************)
(* Every step keeps the invariant of types.                                *)
(***************************************************************************)
LEMMA MigStepTyped ==
    ASSUME RelInv, [MigNext]_migVars
    PROVE  RelInv'
  <1>1. CASE UNCHANGED migVars
    <2>1. /\ engine' = engine /\ rels' = rels /\ db' = db /\ known' = known
          /\ nextRel' = nextRel /\ dirty' = dirty
      BY <1>1 DEF migVars
    <2>2. \A x \in Tab : KnownOK(x)'
      BY <2>1 DEF RelInv, KnownOK
    <2> QED
      BY <2>1, <2>2 DEF RelInv, RelsOK, DbOK
  <1>2. CASE Refresh
    BY <1>2, RefreshTyped
  <1>3. ASSUME NEW tb \in Tab, CreateTable(tb) \/ UpdateTable(tb) \/ DeleteTable(tb)
        PROVE  RelInv'
    BY <1>3, CreateTyped, UpdateTyped, DeleteTyped
  <1> QED
    BY <1>1, <1>2, <1>3 DEF MigNext

(***************************************************************************)
(* The invariant of types implies that the values have their types.        *)
(***************************************************************************)
LEMMA TypedIs ==
    ASSUME RelInv
    PROVE  MigTypeOK
  BY DEF RelInv, MigTypeOK, RelsOK, DbOK, DbTypes

(***************************************************************************)
(* Rows, columns, constraints and junction tables have their types, ids    *)
(* and constraint names are unique, whatever creations, updates and        *)
(* deletions there were and wherever they stopped                          *)
(* (SqlTableHandlerService).                                               *)
(***************************************************************************)
THEOREM MigTyped == MigSpec => []MigTypeOK
  <1>1. MigInit => RelInv
    BY MigInitTyped
  <1>2. RelInv /\ [MigNext]_migVars => RelInv'
    BY MigStepTyped
  <1>3. RelInv => MigTypeOK
    BY TypedIs
  <1> QED
    BY <1>1, <1>2, <1>3, PTL DEF MigSpec
-----------------------------------------------------------------------------
\* Relations and what stores them.

\* A relation's column, and the table that it refers to.
Col(r) == IF r.type = O2M THEN <<r.to, r.inv>> ELSE <<r.from, r.prop>>
To(r) == IF r.type = O2M THEN r.from ELSE r.to

\* The columns, constraints and junction tables are those of the rows, and no two
\* relations have the same column.
DescribedBy(rs, d) ==
    /\ \A x : x \in d.cols <=> \E r \in rs : r.type # M2M /\ x = Col(r)
    /\ \A x, y : Linked(d, x, y) <=> \E r \in rs : r.type # M2M /\ x = Col(r) /\ y = To(r)
    /\ \A x : x \in d.junctions <=> \E r \in rs : r.type = M2M /\ x = r.jt
    /\ \A r, s \in rs : r.type # M2M /\ s.type # M2M /\ Col(r) = Col(s) => r = s
    /\ \A r \in rs : r.type = M2M => r.jt = <<r.from, r.prop, r.to>>

\* The inductive invariant: as described unless something failed or was not
\* followed.
StoredInv == RelInv /\ (dirty = 0 => DescribedBy(rels, db))

\* An update, by an up-to-date cache, that the code follows.
Following(tb, R) ==
    /\ RelInv /\ DescribedBy(rels, db)
    /\ tb \in Tab /\ tb \in db.tabs /\ R \in RelBodies(tb)
    /\ known = Load(rels, db) /\ known[tb] # {NoTab} /\ Follows(tb, R)

(***************************************************************************)
(* Before an update that the database can follow, the cache has the        *)
(* table's rows and nothing else, with the columns that they have; the     *)
(* body's rows with an id of theirs differ from them in names only.        *)
(***************************************************************************)
LEMMA FollowedRows ==
    ASSUME NEW tb, NEW R, Following(tb, R)
    PROVE  /\ known[tb] = {KnownRow(s, db) : s \in Own(tb)}
           /\ \A s \in Own(tb) :
                 /\ s \in rels /\ s.from = tb /\ s \in Relation /\ RowOK(s)
                 /\ s.type \in HasColumn => KnownRow(s, db).fk = s.prop
                 /\ s.type = O2M => KnownRow(s, db).fk = s.inv
           /\ \A r \in R : r.from = tb /\ r \in Relation /\ RowOK(r)
           /\ \A r \in R : r \in NewRelations(tb) \/ \E s \in Own(tb) : r.id = s.id
           /\ \A r \in R, s \in Own(tb) :
                 r.id = s.id => /\ r.type = s.type /\ r.jt = s.jt /\ r.to = s.to
                                /\ r.type = M2M => r.prop = s.prop
                                /\ r \notin NewRelations(tb)
           /\ \A r \in NewRelations(tb) : r.id = nextRel /\ (r.type = M2M => r.jt = <<tb, r.prop, r.to>>)
           /\ \A r, s \in R : r.id = s.id => r = s
           /\ \A r, s \in Own(tb) : r.id = s.id => r = s
           /\ Updating(tb, R, known[tb])
  <1>1. /\ DbOK(db) /\ RelsOK(rels, db.tabs, nextRel) /\ nextRel \in 1 .. MaxRel + 1 /\ tb \in Tab
        /\ tb \in db.tabs /\ R \in RelBodies(tb) /\ known[tb] # {NoTab} /\ known = Load(rels, db)
    BY DEF Following, RelInv
  <1>2. BodyOK(tb, R)
    BY <1>1, BodiesAre
  <1>3. Updating(tb, R, known[tb])
    BY <1>1, UpdatingIs DEF Following
  <1>4. \A s \in Own(tb) : s \in rels /\ s.from = tb
    BY DEF Own
  <1>5. \A s \in rels : s \in Relation /\ RowOK(s) /\ s.id < nextRel /\ s.id \in Int
    BY <1>1, RelationIs DEF RelsOK
  <1>6. known[tb] = {KnownRow(s, db) : s \in Own(tb)} \cup Generated(tb, rels, db)
    BY <1>1, LoadIs DEF Own
  <1>7. known[tb] = {KnownRow(s, db) : s \in Own(tb)}
    <2>1. \A r \in Generated(tb, rels, db) : r.id < 0 /\ r.id \in Int
      BY <1>1, GeneratedIs DEF KnownRelation
    <2>2. \A r \in known[tb] : r.id > 0
      BY DEF Following, Follows
    <2>3. \A r \in Generated(tb, rels, db) : FALSE
      BY <1>6, <2>1, <2>2
    <2> QED
      BY <1>6, <2>3
  <1>8. ASSUME NEW s \in Own(tb)
        PROVE  /\ s.type \in HasColumn => KnownRow(s, db).fk = s.prop
               /\ s.type = O2M => KnownRow(s, db).fk = s.inv
    <2>1. KnownRow(s, db).fk = ForeignKey(s, db)
      BY DEF KnownRow
    <2>2. s.type \in HasColumn => <<s.from, s.prop>> \in db.cols
      BY <1>4 DEF Following, DescribedBy, Col, HasColumn, M2O, O2O, O2M, M2M
    <2> QED
      BY <2>1, <2>2 DEF ForeignKey, HasColumn, M2O, O2O, O2M
  <1>9. \A r \in NewRelations(tb) : r.id = nextRel /\ (r.type = M2M => r.jt = <<tb, r.prop, r.to>>)
    BY <1>1, NewRelationsAre
  <1>10. ASSUME NEW r \in R, NEW s \in Own(tb), r.id = s.id
         PROVE  /\ r.type = s.type /\ r.jt = s.jt /\ r.to = s.to
                /\ r.type = M2M => r.prop = s.prop
                /\ r \notin NewRelations(tb)
    <2>1. r \notin NewRelations(tb)
      BY <1>1, <1>4, <1>5, <1>9, <1>10
    <2>2. PICK x \in Own(tb) : r.id = x.id /\ r.type = x.type /\ r.jt = x.jt
      BY <1>2, <2>1 DEF BodyOK
    <2>3. x = s
      BY <1>1, <1>4, <1>10, <2>2 DEF RelsOK
    <2>4. r.to = s.to /\ (r.type = M2M => r.prop = s.prop)
      BY <1>10 DEF Following, Follows
    <2> QED
      BY <2>1, <2>2, <2>3, <2>4
  <1>11. \A r, s \in Own(tb) : r.id = s.id => r = s
    BY <1>1, <1>4 DEF RelsOK
  <1>12. /\ \A r \in R : r.from = tb /\ r \in Relation /\ RowOK(r)
         /\ \A r \in R : r \in NewRelations(tb) \/ \E s \in Own(tb) : r.id = s.id
         /\ \A r, s \in R : r.id = s.id => r = s
    BY <1>2 DEF BodyOK
  <1> QED
    BY <1>3, <1>4, <1>5, <1>7, <1>8, <1>9, <1>10, <1>11, <1>12

\* The columns that the update takes or makes.
Lost(tb, R, s) == s \in Own(tb) /\ s.type # M2M /\ \A r \in R : r.id # s.id
Moved(tb, R, s, r) == /\ s \in Own(tb) /\ s.type # M2M /\ r \in R /\ r.id = s.id
                      /\ Col(r) # Col(s)
Added(tb, R, r) == r \in R /\ r.type # M2M /\ \A s \in Own(tb) : r.id # s.id

(***************************************************************************)
(* What the cache has of the table's rows.                                 *)
(***************************************************************************)
LEMMA OldRows ==
    ASSUME NEW tb, NEW R, Following(tb, R)
    PROVE  /\ \A s \in Own(tb) : /\ KnownRow(s, db) \in known[tb]
                                 /\ KnownRow(s, db).id = s.id /\ KnownRow(s, db).type = s.type
                                 /\ KnownRow(s, db).prop = s.prop /\ KnownRow(s, db).inv = s.inv
                                 /\ KnownRow(s, db).to = s.to /\ KnownRow(s, db).jt = s.jt
           /\ \A k \in known[tb] : \E s \in Own(tb) : k = KnownRow(s, db)
           /\ \A s \in Own(tb) : s.id > 0 /\ ~(s.id < 0)
  <1>1. \A s : /\ KnownRow(s, db).id = s.id /\ KnownRow(s, db).type = s.type
               /\ KnownRow(s, db).prop = s.prop /\ KnownRow(s, db).inv = s.inv
               /\ KnownRow(s, db).to = s.to /\ KnownRow(s, db).jt = s.jt
    BY DEF KnownRow
  <1>2. \A s \in Own(tb) : s.id > 0 /\ s.id \in Int
    BY FollowedRows, RelationIs
  <1>3. known[tb] = {KnownRow(s, db) : s \in Own(tb)}
    BY FollowedRows
  <1> QED
    BY <1>1, <1>2, <1>3

(***************************************************************************)
(* The column of a relation and what it refers to, by its type.            *)
(***************************************************************************)
LEMMA TypesAre ==
    /\ \A r \in Relation : /\ r.type # M2M <=> (r.type \in HasColumn \/ r.type = O2M)
                           /\ r.type \in HasColumn => (r.type # O2M /\ r.type # M2M)
                           /\ r.type = O2M => (r.type # M2M /\ r.type \notin HasColumn)
    /\ \A r \in Relation : r.type \in HasColumn => Col(r) = <<r.from, r.prop>> /\ To(r) = r.to
    /\ \A r \in Relation : r.type = O2M => Col(r) = <<r.to, r.inv>> /\ To(r) = r.from
  BY RelationIs DEF HasColumn, M2O, O2O, O2M, M2M, Col, To

(***************************************************************************)
(* The kept relations: the renamed columns are those of the rows whose     *)
(* column moves, and junction tables keep their names.                     *)
(***************************************************************************)
LEMMA PairsSay ==
    ASSUME NEW tb, NEW R, Following(tb, R)
    PROVE  LET P == Pairs(known[tb], R)
           IN /\ OwnPairsApart(P) /\ OtherPairsApart(P)
              /\ \A x : RenamesOwn(P, x) =>
                   \E s, r : /\ Moved(tb, R, s, r) /\ s.type \in HasColumn
                             /\ x = Stmt("renameColumn", Col(s), Col(r))
              /\ \A x : RenamesOther(P, x) =>
                   \E s, r : /\ Moved(tb, R, s, r) /\ s.type = O2M
                             /\ x = Stmt("renameColumn", Col(s), Col(r))
              /\ \A s, r : Moved(tb, R, s, r) =>
                   \/ RenamesOwn(P, Stmt("renameColumn", Col(s), Col(r)))
                   \/ RenamesOther(P, Stmt("renameColumn", Col(s), Col(r)))
              /\ \A x : ~RenamesJunction(P, x)
  <1> DEFINE P == Pairs(known[tb], R)
  <1>1. BodyOK(tb, R) /\ KnownRows(known[tb]) /\ Agree(known[tb], R)
    BY FollowedRows DEF Updating
  <1>2. /\ \A y \in P : y.now \in R /\ y.was \in known[tb] /\ y.was.id = y.now.id
        /\ \A r \in R, x \in known[tb] : x.id = r.id => \E y \in P : y.now = r /\ y.was = x
        /\ \A y, z \in P : y.now.id = z.now.id => y = z
    BY <1>1, KeptIs DEF PairsOK
  <1> HIDE DEF P
  <1>3. ASSUME NEW y \in P
        PROVE  \E s \in Own(tb) :
                  /\ y.now \in R /\ y.now.id = s.id /\ y.now.type = s.type /\ y.now.from = tb
                  /\ y.was = KnownRow(s, db) /\ y.was.prop = s.prop /\ y.was.inv = s.inv
                  /\ y.was.to = s.to /\ y.now.to = s.to /\ s.from = tb
                  /\ s \in Relation /\ y.now \in Relation /\ s \in rels
                  /\ y.now.type \in HasColumn => /\ <<tb, y.was.fk>> = Col(s) /\ y.was.fk = s.prop
                                                 /\ Col(y.now) = <<tb, y.now.prop>>
                  /\ y.now.type = O2M => /\ <<y.was.to, y.was.fk>> = Col(s) /\ y.was.fk = s.inv
                                         /\ Col(y.now) = <<s.to, y.now.inv>>
                  /\ y.now.type = M2M => y.now.prop = s.prop
    <2>1. PICK s \in Own(tb) : y.was = KnownRow(s, db)
      BY <1>2, OldRows
    <2>2. /\ y.was.id = s.id /\ y.was.prop = s.prop /\ y.was.inv = s.inv /\ y.was.to = s.to
          /\ y.was.type = s.type
      BY <2>1, OldRows
    <2>3. y.now \in R /\ y.now.id = s.id
      BY <1>2, <2>2
    <2>4. /\ y.now.type = s.type /\ y.now.to = s.to /\ (y.now.type = M2M => y.now.prop = s.prop)
          /\ y.now.from = tb /\ s.from = tb /\ s \in Relation /\ y.now \in Relation /\ s \in rels
          /\ s.type \in HasColumn => y.was.fk = s.prop
          /\ s.type = O2M => y.was.fk = s.inv
      BY <2>1, <2>3, FollowedRows
    <2> QED
      BY <2>1, <2>2, <2>3, <2>4, TypesAre
  <1>4. \A r, s \in rels : r.type # M2M /\ s.type # M2M /\ Col(r) = Col(s) => r = s
    BY DEF Following, DescribedBy
  <1>5. OwnPairsApart(P)
    <2>1. ASSUME NEW y \in P, NEW z \in P, y.now.type \in HasColumn, z.now.type \in HasColumn,
                 y.was.fk = z.was.fk
          PROVE  y = z
      <3>1. PICK s \in Own(tb) : /\ y.now.id = s.id /\ <<tb, y.was.fk>> = Col(s) /\ s \in rels
                                 /\ y.now.type = s.type /\ s \in Relation
        BY <1>3, <2>1
      <3>2. PICK r \in Own(tb) : /\ z.now.id = r.id /\ <<tb, z.was.fk>> = Col(r) /\ r \in rels
                                 /\ z.now.type = r.type /\ r \in Relation
        BY <1>3, <2>1
      <3>3. s = r
        BY <1>4, <2>1, <3>1, <3>2, TypesAre
      <3> QED
        BY <1>2, <3>1, <3>2, <3>3
    <2> QED
      BY <2>1 DEF OwnPairsApart
  <1>6. OtherPairsApart(P)
    <2>1. ASSUME NEW y \in P, NEW z \in P, y.now.type = O2M, z.now.type = O2M,
                 <<y.was.to, y.was.fk>> = <<z.was.to, z.was.fk>>
          PROVE  y = z
      <3>1. PICK s \in Own(tb) : /\ y.now.id = s.id /\ <<y.was.to, y.was.fk>> = Col(s) /\ s \in rels
                                 /\ y.now.type = s.type /\ s \in Relation
        BY <1>3, <2>1
      <3>2. PICK r \in Own(tb) : /\ z.now.id = r.id /\ <<z.was.to, z.was.fk>> = Col(r) /\ r \in rels
                                 /\ z.now.type = r.type /\ r \in Relation
        BY <1>3, <2>1
      <3>3. s = r
        BY <1>4, <2>1, <3>1, <3>2, TypesAre
      <3> QED
        BY <1>2, <3>1, <3>2, <3>3
    <2> QED
      BY <2>1 DEF OtherPairsApart
  <1>7. ASSUME NEW x, RenamesOwn(P, x)
        PROVE  \E s, r : /\ Moved(tb, R, s, r) /\ s.type \in HasColumn
                         /\ x = Stmt("renameColumn", Col(s), Col(r))
    <2>1. PICK y \in P :
            /\ y.now.type \in HasColumn /\ y.was.prop # y.now.prop /\ y.was.fk # y.now.prop
            /\ x = Stmt("renameColumn", <<y.now.from, y.was.fk>>, <<y.now.from, y.now.prop>>)
      BY <1>7 DEF RenamesOwn
    <2>2. PICK s \in Own(tb) :
            /\ y.now \in R /\ y.now.id = s.id /\ y.now.type = s.type /\ y.now.from = tb
            /\ s \in Relation /\ <<tb, y.was.fk>> = Col(s) /\ Col(y.now) = <<tb, y.now.prop>>
      BY <1>3, <2>1
    <2>3. Col(s) # Col(y.now)
      BY <2>1, <2>2
    <2>4. x = Stmt("renameColumn", Col(s), Col(y.now))
      BY <2>1, <2>2
    <2>5. s.type # M2M /\ s.type \in HasColumn
      BY <2>1, <2>2, TypesAre
    <2> QED
      BY <2>2, <2>3, <2>4, <2>5 DEF Moved
  <1>8. ASSUME NEW x, RenamesOther(P, x)
        PROVE  \E s, r : /\ Moved(tb, R, s, r) /\ s.type = O2M
                         /\ x = Stmt("renameColumn", Col(s), Col(r))
    <2>1. PICK y \in P :
            /\ y.now.type = O2M /\ y.was.inv # y.now.inv
            /\ x = Stmt("renameColumn", <<y.was.to, y.was.fk>>, <<y.was.to, y.now.inv>>)
      BY <1>8 DEF RenamesOther
    <2>2. PICK s \in Own(tb) :
            /\ y.now \in R /\ y.now.id = s.id /\ y.now.type = s.type
            /\ s \in Relation /\ <<y.was.to, y.was.fk>> = Col(s) /\ Col(y.now) = <<s.to, y.now.inv>>
            /\ y.was.to = s.to /\ y.was.inv = s.inv /\ y.was.fk = s.inv
      BY <1>3, <2>1
    <2>3. Col(s) # Col(y.now)
      BY <2>1, <2>2
    <2>4. x = Stmt("renameColumn", Col(s), Col(y.now))
      BY <2>1, <2>2
    <2>5. s.type # M2M /\ s.type = O2M
      BY <2>1, <2>2, TypesAre
    <2> QED
      BY <2>2, <2>3, <2>4, <2>5 DEF Moved
  <1>9. ASSUME NEW s, NEW r, Moved(tb, R, s, r)
        PROVE  \/ RenamesOwn(P, Stmt("renameColumn", Col(s), Col(r)))
               \/ RenamesOther(P, Stmt("renameColumn", Col(s), Col(r)))
    <2>1. s \in Own(tb) /\ s.type # M2M /\ r \in R /\ r.id = s.id /\ Col(r) # Col(s)
      BY <1>9 DEF Moved
    <2>2. KnownRow(s, db) \in known[tb] /\ KnownRow(s, db).id = r.id
      BY <2>1, OldRows
    <2>3. PICK y \in P : y.now = r /\ y.was = KnownRow(s, db)
      BY <1>2, <2>1, <2>2
    <2>4. PICK e \in Own(tb) :
             /\ y.now.id = e.id /\ y.now.type = e.type /\ y.now.from = tb
             /\ y.was.prop = e.prop /\ y.was.inv = e.inv
             /\ y.was.to = e.to /\ y.now.to = e.to /\ e.from = tb
             /\ e \in Relation /\ y.now \in Relation
             /\ y.now.type \in HasColumn => /\ <<tb, y.was.fk>> = Col(e) /\ y.was.fk = e.prop
                                            /\ Col(y.now) = <<tb, y.now.prop>>
             /\ y.now.type = O2M => /\ <<y.was.to, y.was.fk>> = Col(e) /\ y.was.fk = e.inv
                                    /\ Col(y.now) = <<e.to, y.now.inv>>
      BY <1>3
    <2>5. e = s
      <3>1. e \in Own(tb) /\ e.id = s.id
        BY <2>1, <2>3, <2>4
      <3>2. \A x, z \in Own(tb) : x.id = z.id => x = z
        BY FollowedRows
      <3> QED
        BY <2>1, <3>1, <3>2
    <2>6. CASE s.type \in HasColumn
      <3>1. /\ y.now.type \in HasColumn /\ <<tb, y.was.fk>> = Col(s) /\ Col(r) = <<tb, y.now.prop>>
            /\ y.was.fk = s.prop /\ y.was.prop = s.prop /\ y.now.from = tb
        BY <2>3, <2>4, <2>5, <2>6
      <3>2. y.was.prop # y.now.prop /\ y.was.fk # y.now.prop
        BY <2>1, <3>1
      <3> QED
        BY <3>1, <3>2 DEF RenamesOwn
    <2>7. CASE s.type = O2M
      <3>1. /\ y.now.type = O2M /\ <<y.was.to, y.was.fk>> = Col(s) /\ Col(r) = <<y.was.to, y.now.inv>>
            /\ y.was.fk = s.inv /\ y.was.inv = s.inv
        BY <2>3, <2>4, <2>5, <2>7
      <3>2. y.was.inv # y.now.inv
        BY <2>1, <3>1
      <3> QED
        BY <3>1, <3>2 DEF RenamesOther
    <2> QED
      BY <2>1, <2>4, <2>5, <2>6, <2>7, TypesAre
  <1>10. ASSUME NEW x, RenamesJunction(P, x) PROVE FALSE
    <2>1. PICK y \in P : y.now.type = M2M /\ y.was.prop # y.now.prop
      BY <1>10 DEF RenamesJunction
    <2> QED
      BY <1>3, <2>1
  <1> QED
    BY <1>5, <1>6, <1>7, <1>8, <1>9, <1>10 DEF P

(***************************************************************************)
(* The deleted relations: the dropped columns are those of the rows that   *)
(* the body leaves out.                                                    *)
(***************************************************************************)
LEMMA DeletedSay ==
    ASSUME NEW tb, NEW R, Following(tb, R)
    PROVE  LET D == Range(Deleted(known[tb], R))
           IN /\ \A r \in known[tb] : r.id > 0
              /\ OwnApart(D) /\ OtherApart(D)
              /\ \A x : DropsOwn(tb, D, x) =>
                   \E s : /\ Lost(tb, R, s) /\ s.type \in HasColumn
                          /\ x = Stmt("dropColumn", Col(s), NoTab)
              /\ \A x : DropsOther(D, x) =>
                   \E s : /\ Lost(tb, R, s) /\ s.type = O2M
                          /\ x = Stmt("dropColumn", Col(s), NoTab)
              /\ \A s : Lost(tb, R, s) =>
                   \/ DropsOwn(tb, D, Stmt("dropColumn", Col(s), NoTab))
                   \/ DropsOther(D, Stmt("dropColumn", Col(s), NoTab))
              /\ \A x : DropsJunction(D, x) <=>
                   \E s \in Own(tb) : /\ s.type = M2M /\ \A r \in R : r.id # s.id
                                      /\ x = Stmt("dropTable", s.jt, NoTab)
  <1> DEFINE D == Range(Deleted(known[tb], R))
  <1>1. \A r \in known[tb] : r.id > 0
    BY DEF Following, Follows
  <1>2. KnownRows(known[tb])
    BY FollowedRows DEF Updating
  <1>3. D = Gone(known[tb], R)
    BY <1>1, <1>2, DeletedIs
  <1> HIDE DEF D
  <1>4. \A k : k \in D <=> k \in known[tb] /\ \A r \in R : r.id # k.id
    BY <1>1, <1>3 DEF Gone
  <1>5. ASSUME NEW k \in D
        PROVE  \E s \in Own(tb) :
                  /\ k.id = s.id /\ k.type = s.type /\ k.to = s.to /\ k.jt = s.jt /\ k.id > 0
                  /\ ~(k.id < 0) /\ \A r \in R : r.id # s.id
                  /\ s.type \in HasColumn => <<tb, k.fk>> = Col(s)
                  /\ s.type = O2M => <<k.to, k.fk>> = Col(s)
                  /\ s \in rels /\ s \in Relation
    <2>1. PICK s \in Own(tb) : k = KnownRow(s, db)
      BY <1>4, OldRows
    <2>2. k.id = s.id /\ k.type = s.type /\ k.to = s.to /\ k.jt = s.jt /\ s.id > 0 /\ ~(s.id < 0)
      BY <2>1, OldRows
    <2>3. /\ s \in rels /\ s.from = tb /\ s \in Relation
          /\ s.type \in HasColumn => k.fk = s.prop
          /\ s.type = O2M => k.fk = s.inv
      BY <2>1, FollowedRows
    <2>4. /\ s.type \in HasColumn => <<tb, k.fk>> = Col(s)
          /\ s.type = O2M => <<k.to, k.fk>> = Col(s)
      BY <2>2, <2>3, TypesAre
    <2>5. \A r \in R : r.id # s.id
      BY <1>4, <2>2
    <2> QED
      BY <2>2, <2>3, <2>4, <2>5
  <1>6. ASSUME NEW s \in Own(tb), \A r \in R : r.id # s.id
        PROVE  \E k \in D : /\ k.type = s.type /\ k.to = s.to /\ k.jt = s.jt /\ k.id > 0 /\ ~(k.id < 0)
                            /\ s.type \in HasColumn => <<tb, k.fk>> = Col(s)
                            /\ s.type = O2M => <<k.to, k.fk>> = Col(s)
    <2> DEFINE k == KnownRow(s, db)
    <2>1. /\ k.id = s.id /\ k.type = s.type /\ k.to = s.to /\ k.jt = s.jt /\ s.id > 0 /\ ~(s.id < 0)
          /\ k \in known[tb]
      BY OldRows
    <2>2. /\ s \in rels /\ s.from = tb /\ s \in Relation
          /\ s.type \in HasColumn => k.fk = s.prop
          /\ s.type = O2M => k.fk = s.inv
      BY FollowedRows
    <2> HIDE DEF k
    <2>3. k \in D
      BY <1>4, <1>6, <2>1
    <2>4. /\ s.type \in HasColumn => <<tb, k.fk>> = Col(s)
          /\ s.type = O2M => <<k.to, k.fk>> = Col(s)
      BY <2>1, <2>2, TypesAre
    <2> QED
      BY <2>1, <2>3, <2>4
  <1>7. \A r, s \in rels : r.type # M2M /\ s.type # M2M /\ Col(r) = Col(s) => r = s
    BY DEF Following, DescribedBy
  <1>8. \A j, k \in D : j.id = k.id => j = k
    BY <1>1, <1>2, <1>4 DEF KnownRows
  <1>9. OwnApart(D)
    <2>1. ASSUME NEW j \in D, NEW k \in D, j.type \in HasColumn, k.type \in HasColumn, j.fk = k.fk
          PROVE  j = k
      <3>1. PICK r \in Own(tb) : /\ j.id = r.id /\ <<tb, j.fk>> = Col(r) /\ r.type \in HasColumn
                                 /\ r \in rels /\ r \in Relation
        BY <1>5, <2>1
      <3>2. PICK s \in Own(tb) : /\ k.id = s.id /\ <<tb, k.fk>> = Col(s) /\ s.type \in HasColumn
                                 /\ s \in rels /\ s \in Relation
        BY <1>5, <2>1
      <3>3. r = s
        BY <1>7, <2>1, <3>1, <3>2, TypesAre
      <3> QED
        BY <1>8, <3>1, <3>2, <3>3
    <2>2. \A k \in D : k.id > 0
      BY <1>5
    <2> QED
      BY <2>1, <2>2 DEF OwnApart
  <1>10. OtherApart(D)
    <2>1. ASSUME NEW j \in D, NEW k \in D, j.type = O2M, k.type = O2M,
                 <<j.to, j.fk>> = <<k.to, k.fk>>
          PROVE  j = k
      <3>1. PICK r \in Own(tb) : /\ j.id = r.id /\ <<j.to, j.fk>> = Col(r) /\ r.type = O2M
                                 /\ r \in rels /\ r \in Relation
        BY <1>5, <2>1
      <3>2. PICK s \in Own(tb) : /\ k.id = s.id /\ <<k.to, k.fk>> = Col(s) /\ s.type = O2M
                                 /\ s \in rels /\ s \in Relation
        BY <1>5, <2>1
      <3>3. r = s
        BY <1>7, <2>1, <3>1, <3>2, TypesAre
      <3> QED
        BY <1>8, <3>1, <3>2, <3>3
    <2> QED
      BY <2>1 DEF OtherApart
  <1>11. ASSUME NEW x, DropsOwn(tb, D, x)
         PROVE  \E s : /\ Lost(tb, R, s) /\ s.type \in HasColumn
                       /\ x = Stmt("dropColumn", Col(s), NoTab)
    <2>1. PICK k \in D :
             /\ k.type \in HasColumn
             /\ x = Stmt("dropColumn", <<tb, IF k.id < 0 /\ k.type = O2O THEN k.prop ELSE k.fk>>, NoTab)
      BY <1>11 DEF DropsOwn
    <2>2. PICK s \in Own(tb) : /\ k.type = s.type /\ ~(k.id < 0) /\ \A r \in R : r.id # s.id
                               /\ s.type \in HasColumn => <<tb, k.fk>> = Col(s)
                               /\ s \in Relation
      BY <1>5
    <2>3. s.type # M2M
      BY <2>1, <2>2, TypesAre
    <2>4. x = Stmt("dropColumn", Col(s), NoTab)
      BY <2>1, <2>2
    <2> QED
      BY <2>1, <2>2, <2>3, <2>4 DEF Lost
  <1>12. ASSUME NEW x, DropsOther(D, x)
         PROVE  \E s : /\ Lost(tb, R, s) /\ s.type = O2M
                       /\ x = Stmt("dropColumn", Col(s), NoTab)
    <2>1. PICK k \in D : k.type = O2M /\ x = Stmt("dropColumn", <<k.to, k.fk>>, NoTab)
      BY <1>12 DEF DropsOther
    <2>2. PICK s \in Own(tb) : /\ k.type = s.type /\ \A r \in R : r.id # s.id
                               /\ s.type = O2M => <<k.to, k.fk>> = Col(s)
                               /\ s \in Relation
      BY <1>5
    <2>3. s.type # M2M
      BY <2>1, <2>2, TypesAre
    <2> QED
      BY <2>1, <2>2, <2>3 DEF Lost
  <1>13. ASSUME NEW s, Lost(tb, R, s)
         PROVE  \/ DropsOwn(tb, D, Stmt("dropColumn", Col(s), NoTab))
                \/ DropsOther(D, Stmt("dropColumn", Col(s), NoTab))
    <2>1. s \in Own(tb) /\ s.type # M2M /\ \A r \in R : r.id # s.id
      BY <1>13 DEF Lost
    <2>2. PICK k \in D : /\ k.type = s.type /\ ~(k.id < 0)
                         /\ s.type \in HasColumn => <<tb, k.fk>> = Col(s)
                         /\ s.type = O2M => <<k.to, k.fk>> = Col(s)
      BY <1>6, <2>1
    <2>3. s.type \in HasColumn \/ s.type = O2M
      BY <2>1, FollowedRows, TypesAre
    <2>4. CASE s.type \in HasColumn
      <3>1. /\ k.type \in HasColumn
            /\ Col(s) = <<tb, IF k.id < 0 /\ k.type = O2O THEN k.prop ELSE k.fk>>
        BY <2>2, <2>4
      <3> QED
        BY <3>1 DEF DropsOwn
    <2>5. CASE s.type = O2M
      <3>1. k.type = O2M /\ Col(s) = <<k.to, k.fk>>
        BY <2>2, <2>5
      <3> QED
        BY <3>1 DEF DropsOther
    <2> QED
      BY <2>3, <2>4, <2>5
  <1>14. ASSUME NEW x
         PROVE  DropsJunction(D, x) <=>
                   \E s \in Own(tb) : /\ s.type = M2M /\ \A r \in R : r.id # s.id
                                      /\ x = Stmt("dropTable", s.jt, NoTab)
    <2>1. ASSUME DropsJunction(D, x)
          PROVE  \E s \in Own(tb) : /\ s.type = M2M /\ \A r \in R : r.id # s.id
                                    /\ x = Stmt("dropTable", s.jt, NoTab)
      <3>1. PICK k \in D : k.type = M2M /\ x = Stmt("dropTable", k.jt, NoTab)
        BY <2>1 DEF DropsJunction
      <3>2. PICK s \in Own(tb) : k.type = s.type /\ k.jt = s.jt /\ \A r \in R : r.id # s.id
        BY <1>5
      <3> QED
        BY <3>1, <3>2
    <2>2. ASSUME NEW s \in Own(tb), s.type = M2M, \A r \in R : r.id # s.id,
                 x = Stmt("dropTable", s.jt, NoTab)
          PROVE  DropsJunction(D, x)
      <3>1. PICK k \in D : k.type = s.type /\ k.jt = s.jt
        BY <1>6, <2>2
      <3> QED
        BY <2>2, <3>1 DEF DropsJunction
    <2> QED
      BY <2>1, <2>2
  <1> QED
    BY <1>1, <1>9, <1>10, <1>11, <1>12, <1>13, <1>14 DEF D

\* The relations of the body that no row is of.
IsNew(tb, R, r) == r \in R /\ \A s \in Own(tb) : r.id # s.id

(***************************************************************************)
(* The created relations: the added columns are those of the one row that  *)
(* is new.                                                                 *)
(***************************************************************************)
LEMMA FreshSay ==
    ASSUME NEW tb, NEW R, Following(tb, R)
    PROVE  LET N == Fresh(known[tb], R)
           IN /\ \A x : (AddsOwn(N, x) \/ AddsOther(N, x)) <=>
                   \E r : /\ Added(tb, R, r)
                          /\ \/ x = Stmt("addColumn", Col(r), NoTab)
                             \/ x = Stmt("addKey", Col(r), To(r))
              /\ \A x : AddsJunction(N, x) <=>
                   \E r : /\ IsNew(tb, R, r) /\ r.type = M2M /\ r.jt \notin db.junctions
                          /\ x = Stmt("createTable", r.jt, NoTab)
              /\ \A r : IsNew(tb, R, r) => r \in NewRelations(tb) /\ r.id = nextRel
              /\ \A r, s : IsNew(tb, R, r) /\ IsNew(tb, R, s) => r = s
  <1> DEFINE N == Fresh(known[tb], R)
  <1>1. ASSUME NEW r PROVE r \in N <=> IsNew(tb, R, r)
    <2>1. r \in N <=> r \in R /\ \A k \in known[tb] : r.id # k.id
      BY DEF Fresh
    <2>2. (\A k \in known[tb] : r.id # k.id) <=> \A s \in Own(tb) : r.id # s.id
      <3>1. ASSUME \A k \in known[tb] : r.id # k.id, NEW s \in Own(tb) PROVE r.id # s.id
        <4>1. KnownRow(s, db) \in known[tb] /\ KnownRow(s, db).id = s.id
          BY OldRows
        <4> QED
          BY <3>1, <4>1
      <3>2. ASSUME \A s \in Own(tb) : r.id # s.id, NEW k \in known[tb] PROVE r.id # k.id
        <4>1. PICK s \in Own(tb) : k = KnownRow(s, db)
          BY OldRows
        <4>2. k.id = s.id
          BY <4>1, OldRows
        <4> QED
          BY <3>2, <4>2
      <3> QED
        BY <3>1, <3>2
    <2> QED
      BY <2>1, <2>2 DEF IsNew
  <1> HIDE DEF N
  <1>2. \A r : IsNew(tb, R, r) => r \in NewRelations(tb) /\ r.id = nextRel /\ r \in Relation /\ r.from = tb
                                  /\ (r.type = M2M => r.jt = <<tb, r.prop, r.to>>)
    BY FollowedRows DEF IsNew
  <1>3. \A r : Added(tb, R, r) <=> IsNew(tb, R, r) /\ r.type # M2M
    BY DEF Added, IsNew
  <1>4. \A r, s : IsNew(tb, R, r) /\ IsNew(tb, R, s) => r = s
    BY <1>2, FollowedRows DEF IsNew
  <1>5. ASSUME NEW x, AddsOwn(N, x) \/ AddsOther(N, x)
        PROVE  \E r : /\ Added(tb, R, r)
                      /\ \/ x = Stmt("addColumn", Col(r), NoTab)
                         \/ x = Stmt("addKey", Col(r), To(r))
    <2>1. CASE AddsOwn(N, x)
      <3>1. PICK r \in N : /\ r.type \in HasColumn
                           /\ \/ x = Stmt("addColumn", <<r.from, r.prop>>, NoTab)
                              \/ x = Stmt("addKey", <<r.from, r.prop>>, r.to)
        BY <2>1 DEF AddsOwn
      <3>2. IsNew(tb, R, r) /\ r \in Relation
        BY <1>1, <1>2
      <3>3. Added(tb, R, r) /\ Col(r) = <<r.from, r.prop>> /\ To(r) = r.to
        BY <1>3, <3>1, <3>2, TypesAre
      <3> QED
        BY <3>1, <3>3
    <2>2. CASE AddsOther(N, x)
      <3>1. PICK r \in N : /\ r.type = O2M
                           /\ \/ x = Stmt("addColumn", <<r.to, r.inv>>, NoTab)
                              \/ x = Stmt("addKey", <<r.to, r.inv>>, r.from)
        BY <2>2 DEF AddsOther
      <3>2. IsNew(tb, R, r) /\ r \in Relation
        BY <1>1, <1>2
      <3>3. Added(tb, R, r) /\ Col(r) = <<r.to, r.inv>> /\ To(r) = r.from
        BY <1>3, <3>1, <3>2, TypesAre
      <3> QED
        BY <3>1, <3>3
    <2> QED
      BY <1>5, <2>1, <2>2
  <1>6. ASSUME NEW x, NEW r, Added(tb, R, r),
               x = Stmt("addColumn", Col(r), NoTab) \/ x = Stmt("addKey", Col(r), To(r))
        PROVE  AddsOwn(N, x) \/ AddsOther(N, x)
    <2>1. IsNew(tb, R, r) /\ r.type # M2M /\ r \in N /\ r \in Relation
      BY <1>1, <1>2, <1>3, <1>6
    <2>2. CASE r.type \in HasColumn
      <3>1. Col(r) = <<r.from, r.prop>> /\ To(r) = r.to
        BY <2>1, <2>2, TypesAre
      <3> QED
        BY <1>6, <2>1, <2>2, <3>1 DEF AddsOwn
    <2>3. CASE r.type = O2M
      <3>1. Col(r) = <<r.to, r.inv>> /\ To(r) = r.from
        BY <2>1, <2>3, TypesAre
      <3> QED
        BY <1>6, <2>1, <2>3, <3>1 DEF AddsOther
    <2> QED
      BY <2>1, <2>2, <2>3, TypesAre
  <1>7. ASSUME NEW x
        PROVE  AddsJunction(N, x) <=>
                 \E r : /\ IsNew(tb, R, r) /\ r.type = M2M /\ r.jt \notin db.junctions
                        /\ x = Stmt("createTable", r.jt, NoTab)
    <2>1. \A r \in N : r.type = M2M => r.jt = <<r.from, r.prop, r.to>>
      BY <1>1, <1>2
    <2> QED
      BY <1>1, <2>1 DEF AddsJunction
  <1> QED
    BY <1>2, <1>4, <1>5, <1>6, <1>7 DEF N

\* The statements of an update whose rows the database can follow.
Says(tb, R, x) ==
    \/ \E s, r : Moved(tb, R, s, r) /\ x = Stmt("renameColumn", Col(s), Col(r))
    \/ \E s : Lost(tb, R, s) /\ x = Stmt("dropColumn", Col(s), NoTab)
    \/ \E r : /\ Added(tb, R, r)
              /\ x = Stmt("addColumn", Col(r), NoTab) \/ x = Stmt("addKey", Col(r), To(r))
    \/ \E r : /\ IsNew(tb, R, r) /\ r.type = M2M /\ r.jt \notin db.junctions
              /\ x = Stmt("createTable", r.jt, NoTab)
    \/ \E s \in Own(tb) : /\ s.type = M2M /\ \A r \in R : r.id # s.id
                          /\ x = Stmt("dropTable", s.jt, NoTab)

(***************************************************************************)
(* No two groups of the update's statements take the same column, since no *)
(* two relations have the same.                                            *)
(***************************************************************************)
LEMMA GroupsApart ==
    ASSUME NEW tb, NEW R, Following(tb, R)
    PROVE  Apart(tb, Pairs(known[tb], R), Range(Deleted(known[tb], R)), Fresh(known[tb], R))
  <1> DEFINE P == Pairs(known[tb], R)
             D == Range(Deleted(known[tb], R))
             N == Fresh(known[tb], R)
  <1>1. /\ OwnPairsApart(P) /\ OtherPairsApart(P)
        /\ \A x : RenamesOwn(P, x) =>
             \E s, r : /\ Moved(tb, R, s, r) /\ s.type \in HasColumn
                       /\ x = Stmt("renameColumn", Col(s), Col(r))
        /\ \A x : RenamesOther(P, x) =>
             \E s, r : /\ Moved(tb, R, s, r) /\ s.type = O2M
                       /\ x = Stmt("renameColumn", Col(s), Col(r))
    BY PairsSay
  <1>2. /\ OwnApart(D) /\ OtherApart(D)
        /\ \A x : DropsOwn(tb, D, x) =>
             \E s : /\ Lost(tb, R, s) /\ s.type \in HasColumn
                    /\ x = Stmt("dropColumn", Col(s), NoTab)
        /\ \A x : DropsOther(D, x) =>
             \E s : /\ Lost(tb, R, s) /\ s.type = O2M
                    /\ x = Stmt("dropColumn", Col(s), NoTab)
    BY DeletedSay
  <1> HIDE DEF P, D, N
  <1>3. \A s \in Own(tb) : s \in rels /\ s \in Relation
    BY FollowedRows
  <1>4. \A r, s \in rels : r.type # M2M /\ s.type # M2M /\ Col(r) = Col(s) => r = s
    BY DEF Following, DescribedBy
  <1>5. ASSUME NEW x, RenamesOwn(P, x)
        PROVE  \E s : /\ s \in rels /\ s.type \in HasColumn /\ s.type # M2M /\ s.type # O2M
                      /\ x.col = Col(s) /\ \E r \in R : r.id = s.id
    <2>1. PICK s, r : /\ Moved(tb, R, s, r) /\ s.type \in HasColumn
                      /\ x = Stmt("renameColumn", Col(s), Col(r))
      BY <1>1, <1>5
    <2>2. x.col = Col(s)
      BY <2>1, StmtIs
    <2> QED
      BY <1>3, <2>1, <2>2, TypesAre DEF Moved
  <1>6. ASSUME NEW x, RenamesOther(P, x)
        PROVE  \E s : /\ s \in rels /\ s.type = O2M /\ s.type # M2M /\ s.type \notin HasColumn
                      /\ x.col = Col(s) /\ \E r \in R : r.id = s.id
    <2>1. PICK s, r : /\ Moved(tb, R, s, r) /\ s.type = O2M
                      /\ x = Stmt("renameColumn", Col(s), Col(r))
      BY <1>1, <1>6
    <2>2. x.col = Col(s)
      BY <2>1, StmtIs
    <2> QED
      BY <1>3, <2>1, <2>2, TypesAre DEF Moved
  <1>7. ASSUME NEW x, DropsOwn(tb, D, x)
        PROVE  \E s : /\ s \in rels /\ s.type \in HasColumn /\ s.type # M2M /\ s.type # O2M
                      /\ x.col = Col(s) /\ \A r \in R : r.id # s.id
    <2>1. PICK s : /\ Lost(tb, R, s) /\ s.type \in HasColumn
                   /\ x = Stmt("dropColumn", Col(s), NoTab)
      BY <1>2, <1>7
    <2>2. x.col = Col(s)
      BY <2>1, StmtIs
    <2> QED
      BY <1>3, <2>1, <2>2, TypesAre DEF Lost
  <1>8. ASSUME NEW x, DropsOther(D, x)
        PROVE  \E s : /\ s \in rels /\ s.type = O2M /\ s.type # M2M /\ s.type \notin HasColumn
                      /\ x.col = Col(s) /\ \A r \in R : r.id # s.id
    <2>1. PICK s : /\ Lost(tb, R, s) /\ s.type = O2M
                   /\ x = Stmt("dropColumn", Col(s), NoTab)
      BY <1>2, <1>8
    <2>2. x.col = Col(s)
      BY <2>1, StmtIs
    <2> QED
      BY <1>3, <2>1, <2>2, TypesAre DEF Lost
  <1>9. ASSUME NEW x, NEW y
        PROVE  /\ RenamesOwn(P, x) /\ DropsOwn(tb, D, y) => x.col # y.col
               /\ RenamesOwn(P, x) /\ DropsOther(D, y) => x.col # y.col
               /\ RenamesOwn(P, x) /\ RenamesOther(P, y) => x.col # y.col
               /\ DropsOwn(tb, D, x) /\ DropsOther(D, y) => x.col # y.col
               /\ DropsOwn(tb, D, x) /\ RenamesOther(P, y) => x.col # y.col
               /\ DropsOther(D, x) /\ RenamesOther(P, y) => x.col # y.col
    <2>1. RenamesOwn(P, x) /\ DropsOwn(tb, D, y) => x.col # y.col
      BY <1>4, <1>5, <1>7
    <2>2. RenamesOwn(P, x) /\ DropsOther(D, y) => x.col # y.col
      BY <1>4, <1>5, <1>8
    <2>3. RenamesOwn(P, x) /\ RenamesOther(P, y) => x.col # y.col
      BY <1>4, <1>5, <1>6
    <2>4. DropsOwn(tb, D, x) /\ DropsOther(D, y) => x.col # y.col
      BY <1>4, <1>7, <1>8
    <2>5. DropsOwn(tb, D, x) /\ RenamesOther(P, y) => x.col # y.col
      BY <1>4, <1>7, <1>6
    <2>6. DropsOther(D, x) /\ RenamesOther(P, y) => x.col # y.col
      BY <1>4, <1>8, <1>6
    <2> QED
      BY <2>1, <2>2, <2>3, <2>4, <2>5, <2>6
  <1> QED
    BY <1>1, <1>2, <1>9 DEF Apart, P, D, N

(***************************************************************************)
(* The update's statements, by the rows.                                   *)
(***************************************************************************)
LEMMA StatementsSay ==
    ASSUME NEW tb, NEW R, Following(tb, R)
    PROVE  LET ss == RelStatements(tb, known[tb], R, db)
           IN /\ ss \in Seq(Fitting(db.tabs)) /\ Ordered(ss)
              /\ \A x : x \in Range(ss) <=> Says(tb, R, x)
  <1> DEFINE P == Pairs(known[tb], R)
             D == Range(Deleted(known[tb], R))
             N == Fresh(known[tb], R)
             ss == RelStatements(tb, known[tb], R, db)
  <1>1. /\ ss \in Seq(Fitting(db.tabs))
        /\ \A x : x \in Range(ss) <=> Stated(tb, P, D, N, x)
        /\ (\A r \in known[tb] : r.id > 0) /\ Apart(tb, P, D, N) => Ordered(ss)
    BY FollowedRows, RelStatementsAre
  <1>2. Apart(tb, P, D, N)
    BY GroupsApart
  <1>3. /\ \A x : RenamesOwn(P, x) =>
             \E s, r : /\ Moved(tb, R, s, r) /\ s.type \in HasColumn
                       /\ x = Stmt("renameColumn", Col(s), Col(r))
        /\ \A x : RenamesOther(P, x) =>
             \E s, r : /\ Moved(tb, R, s, r) /\ s.type = O2M
                       /\ x = Stmt("renameColumn", Col(s), Col(r))
        /\ \A s, r : Moved(tb, R, s, r) =>
             \/ RenamesOwn(P, Stmt("renameColumn", Col(s), Col(r)))
             \/ RenamesOther(P, Stmt("renameColumn", Col(s), Col(r)))
        /\ \A x : ~RenamesJunction(P, x)
    BY PairsSay
  <1>4. /\ \A r \in known[tb] : r.id > 0
        /\ \A x : DropsOwn(tb, D, x) =>
             \E s : /\ Lost(tb, R, s) /\ s.type \in HasColumn
                    /\ x = Stmt("dropColumn", Col(s), NoTab)
        /\ \A x : DropsOther(D, x) =>
             \E s : /\ Lost(tb, R, s) /\ s.type = O2M
                    /\ x = Stmt("dropColumn", Col(s), NoTab)
        /\ \A s : Lost(tb, R, s) =>
             \/ DropsOwn(tb, D, Stmt("dropColumn", Col(s), NoTab))
             \/ DropsOther(D, Stmt("dropColumn", Col(s), NoTab))
        /\ \A x : DropsJunction(D, x) <=>
             \E s \in Own(tb) : /\ s.type = M2M /\ \A r \in R : r.id # s.id
                                /\ x = Stmt("dropTable", s.jt, NoTab)
    BY DeletedSay
  <1>5. /\ \A x : (AddsOwn(N, x) \/ AddsOther(N, x)) <=>
             \E r : /\ Added(tb, R, r)
                    /\ \/ x = Stmt("addColumn", Col(r), NoTab)
                       \/ x = Stmt("addKey", Col(r), To(r))
        /\ \A x : AddsJunction(N, x) <=>
             \E r : /\ IsNew(tb, R, r) /\ r.type = M2M /\ r.jt \notin db.junctions
                    /\ x = Stmt("createTable", r.jt, NoTab)
    BY FreshSay
  <1> HIDE DEF P, D, N, ss
  <1>6. ASSUME NEW x PROVE Stated(tb, P, D, N, x) <=> Says(tb, R, x)
    <2>1. (RenamesOwn(P, x) \/ RenamesOther(P, x)) <=>
             \E s, r : Moved(tb, R, s, r) /\ x = Stmt("renameColumn", Col(s), Col(r))
      BY <1>3
    <2>2. (DropsOwn(tb, D, x) \/ DropsOther(D, x)) <=>
             \E s : Lost(tb, R, s) /\ x = Stmt("dropColumn", Col(s), NoTab)
      BY <1>4
    <2>3. (AddsOwn(N, x) \/ AddsOther(N, x)) <=>
             \E r : /\ Added(tb, R, r)
                    /\ x = Stmt("addColumn", Col(r), NoTab) \/ x = Stmt("addKey", Col(r), To(r))
      BY <1>5
    <2>4. AddsJunction(N, x) <=>
             \E r : /\ IsNew(tb, R, r) /\ r.type = M2M /\ r.jt \notin db.junctions
                    /\ x = Stmt("createTable", r.jt, NoTab)
      BY <1>5
    <2>5. DropsJunction(D, x) <=>
             \E s \in Own(tb) : /\ s.type = M2M /\ \A r \in R : r.id # s.id
                                /\ x = Stmt("dropTable", s.jt, NoTab)
      BY <1>4
    <2>6. ~RenamesJunction(P, x)
      BY <1>3
    <2> QED
      BY <2>1, <2>2, <2>3, <2>4, <2>5, <2>6 DEF Stated, Says
  <1> QED
    BY <1>1, <1>2, <1>4, <1>6 DEF ss

\* What holds of the database an update starts from.

(***************************************************************************)
(* The database from which the statements start has all its columns,       *)
(* without the constraints of those that go.                               *)
(***************************************************************************)
LEMMA PreparedIs ==
    ASSUME NEW tb, NEW R, Following(tb, R)
    PROVE  LET ss == RelStatements(tb, known[tb], R, db)
               d == Prepared(db, ss)
           IN /\ DbOK(d) /\ d.tabs = db.tabs /\ d.cols = db.cols /\ d.junctions = db.junctions
              /\ Taken(ss) \subseteq db.cols
              /\ \A x : x \in Taken(ss) =>
                   \E s : x = Col(s) /\ (Lost(tb, R, s) \/ \E r : Moved(tb, R, s, r))
              /\ \A x, y : Linked(d, x, y) <=>
                    Linked(db, x, y) /\ ~(\E s : Lost(tb, R, s) /\ x = Col(s))
  <1> DEFINE ss == RelStatements(tb, known[tb], R, db)
             d == Prepared(db, ss)
             cs == {ss[i].col : i \in {j \in DOMAIN ss : ss[j].op = "dropColumn"}}
  <1>1. /\ ss \in Seq(Fitting(db.tabs)) /\ \A x : x \in Range(ss) <=> Says(tb, R, x)
    BY StatementsSay
  <1>2. DbOK(db)
    BY DEF Following, RelInv
  <1> HIDE DEF ss
  <1>3. /\ DbOK(d) /\ d.tabs = db.tabs /\ d.cols = db.cols /\ d.junctions = db.junctions
        /\ \A k : k \in d.keys <=> k \in db.keys /\ k.col \notin cs
    <2>1. d = WithoutKeys(db, cs)
      BY DEF Prepared
    <2> HIDE DEF d, cs
    <2> QED
      BY <1>2, <2>1, WithoutIs
  <1>4. \A x : x \in Range(ss) <=> \E i \in DOMAIN ss : x = ss[i]
    BY DEF Range
  <1>5. ASSUME NEW x
        PROVE  x \in cs <=> \E s : Lost(tb, R, s) /\ x = Col(s)
    <2>1. x \in cs <=> \E st \in Range(ss) : st.op = "dropColumn" /\ x = st.col
      BY <1>4
    <2>2. ASSUME NEW st \in Range(ss), st.op = "dropColumn", x = st.col
          PROVE  \E s : Lost(tb, R, s) /\ x = Col(s)
      BY <1>1, <2>2, StmtIs DEF Says
    <2>3. ASSUME NEW s, Lost(tb, R, s), x = Col(s)
          PROVE  \E st \in Range(ss) : st.op = "dropColumn" /\ x = st.col
      <3>1. Stmt("dropColumn", Col(s), NoTab) \in Range(ss)
        BY <1>1, <2>3 DEF Says
      <3> QED
        BY <2>3, <3>1, StmtIs
    <2> QED
      BY <2>1, <2>2, <2>3
  <1>6. \A s : Lost(tb, R, s) \/ (\E r : Moved(tb, R, s, r)) => s \in rels /\ s.type # M2M
    BY FollowedRows DEF Lost, Moved
  <1>7. ASSUME NEW x, x \in Taken(ss)
        PROVE  \E s : x = Col(s) /\ (Lost(tb, R, s) \/ \E r : Moved(tb, R, s, r))
    <2>1. PICK st \in Range(ss) : Takes(st) /\ x = st.col
      BY <1>7, TakenIs
    <2> QED
      BY <1>1, <2>1, StmtIs DEF Says, Takes
  <1>8. Taken(ss) \subseteq db.cols
    <2>1. \A s \in rels : s.type # M2M => Col(s) \in db.cols
      BY DEF Following, DescribedBy
    <2> QED
      BY <1>6, <1>7, <2>1
  <1> HIDE DEF d, cs
  <1>9. \A x, y : Linked(d, x, y) <=> Linked(db, x, y) /\ ~(\E s : Lost(tb, R, s) /\ x = Col(s))
    BY <1>3, <1>5 DEF Linked
  <1> QED
    BY <1>3, <1>7, <1>8, <1>9 DEF ss, d

\* The rows whose column an update takes, and those whose column it makes.
Away(tb, R, s) == Lost(tb, R, s) \/ \E r : Moved(tb, R, s, r)
Made(tb, R, r) == Added(tb, R, r) \/ \E s : Moved(tb, R, s, r)

\* What the statements do, by the rows.
Followed(tb, R, e) ==
    /\ \A x : x \in e.cols <=>
         (\/ (x \in db.cols /\ ~ \E s : Away(tb, R, s) /\ x = Col(s))
          \/ \E r : Made(tb, R, r) /\ x = Col(r))
    /\ \A x, y : Linked(e, x, y) <=>
         (\/ (Linked(db, x, y) /\ ~ \E s : Away(tb, R, s) /\ x = Col(s))
          \/ \E s, r : /\ Moved(tb, R, s, r) /\ x = Col(r) /\ Linked(db, Col(s), y)
                       /\ ~ \E z : Lost(tb, R, z) /\ Col(s) = Col(z)
          \/ \E r : Added(tb, R, r) /\ x = Col(r) /\ y = To(r))
    /\ \A x : x \in e.junctions <=>
         (/\ x \in db.junctions \/ \E r : IsNew(tb, R, r) /\ r.type = M2M /\ x = r.jt
          /\ ~ \E s \in Own(tb) : s.type = M2M /\ (\A r \in R : r.id # s.id) /\ x = s.jt)
    /\ \A r, s : Made(tb, R, r) /\ Made(tb, R, s) /\ Col(r) = Col(s) => r = s
    /\ \A r : Made(tb, R, r) /\ Col(r) \in db.cols => \E s : Away(tb, R, s) /\ Col(s) = Col(r)

\* The statements ss are those of the rows: what they take, make, refer to and
\* move.
MovesListed(tb, R, ss, x, z) ==
    (\E j \in DOMAIN ss : Moves(ss[j], x) /\ ss[j].col = z) <=>
    (\E s, r : Moved(tb, R, s, r) /\ x = Col(r) /\ z = Col(s))

Listed(tb, R, ss) ==
    /\ \A x : (\E j \in DOMAIN ss : TakenBy(ss[j], x)) <=> \E s : Away(tb, R, s) /\ x = Col(s)
    /\ \A x : (\E j \in DOMAIN ss : Makes(ss[j], x)) <=> \E r : Made(tb, R, r) /\ x = Col(r)
    /\ \A x, y : (\E j \in DOMAIN ss : Keys(ss[j], x, y)) <=>
                    \E r : Added(tb, R, r) /\ x = Col(r) /\ y = To(r)
    /\ \A x, z : MovesListed(tb, R, ss, x, z)
    /\ \A x : (\E j \in DOMAIN ss : ss[j].op = "createTable" /\ ss[j].col = x) <=>
                 \E r : /\ IsNew(tb, R, r) /\ r.type = M2M /\ r.jt \notin db.junctions
                        /\ x = r.jt
    /\ \A x : (\E j \in DOMAIN ss : ss[j].op = "dropTable" /\ ss[j].col = x) <=>
                 \E s \in Own(tb) : /\ s.type = M2M /\ \A r \in R : r.id # s.id
                                    /\ x = s.jt
    /\ \A j \in DOMAIN ss : ss[j].op # "renameTable"

(***************************************************************************)
(* What the statements take, make and refer to, by the rows.               *)
(***************************************************************************)
LEMMA ListedIs ==
    ASSUME NEW tb, NEW R, Following(tb, R), NEW ss, \A x : x \in Range(ss) <=> Says(tb, R, x)
    PROVE  Listed(tb, R, ss)
  <1>1. \A x : x \in Range(ss) <=> \E i \in DOMAIN ss : x = ss[i]
    BY DEF Range
  <1>2. ASSUME NEW x
        PROVE  (\E j \in DOMAIN ss : TakenBy(ss[j], x)) <=> \E s : Away(tb, R, s) /\ x = Col(s)
    <2>1. (\E j \in DOMAIN ss : TakenBy(ss[j], x)) <=> \E st \in Range(ss) : TakenBy(st, x)
      BY <1>1
    <2>2. ASSUME NEW st \in Range(ss), TakenBy(st, x) PROVE \E s : Away(tb, R, s) /\ x = Col(s)
      BY <2>2, StmtIs DEF Says, Takes, TakenBy, Away
    <2>3. ASSUME NEW s, Away(tb, R, s), x = Col(s) PROVE \E st \in Range(ss) : TakenBy(st, x)
      <3>1. ASSUME Lost(tb, R, s) PROVE \E st \in Range(ss) : TakenBy(st, x)
        <4>1. Stmt("dropColumn", Col(s), NoTab) \in Range(ss)
          BY <3>1 DEF Says
        <4> QED
          BY <2>3, <4>1, StmtIs DEF TakenBy, Takes
      <3>2. ASSUME NEW r, Moved(tb, R, s, r) PROVE \E st \in Range(ss) : TakenBy(st, x)
        <4>1. Stmt("renameColumn", Col(s), Col(r)) \in Range(ss)
          BY <3>2 DEF Says
        <4> QED
          BY <2>3, <4>1, StmtIs DEF TakenBy, Takes
      <3> QED
        BY <2>3, <3>1, <3>2 DEF Away
    <2> QED
      BY <2>1, <2>2, <2>3
  <1>3. ASSUME NEW x
        PROVE  (\E j \in DOMAIN ss : Makes(ss[j], x)) <=> \E r : Made(tb, R, r) /\ x = Col(r)
    <2>1. (\E j \in DOMAIN ss : Makes(ss[j], x)) <=> \E st \in Range(ss) : Makes(st, x)
      BY <1>1
    <2>2. ASSUME NEW st \in Range(ss), Makes(st, x) PROVE \E r : Made(tb, R, r) /\ x = Col(r)
      BY <2>2, StmtIs DEF Says, Makes, Made
    <2>3. ASSUME NEW r, Made(tb, R, r), x = Col(r) PROVE \E st \in Range(ss) : Makes(st, x)
      <3>1. ASSUME Added(tb, R, r) PROVE \E st \in Range(ss) : Makes(st, x)
        <4>1. Stmt("addColumn", Col(r), NoTab) \in Range(ss)
          BY <3>1 DEF Says
        <4> QED
          BY <2>3, <4>1, StmtIs DEF Makes
      <3>2. ASSUME NEW s, Moved(tb, R, s, r) PROVE \E st \in Range(ss) : Makes(st, x)
        <4>1. Stmt("renameColumn", Col(s), Col(r)) \in Range(ss)
          BY <3>2 DEF Says
        <4> QED
          BY <2>3, <4>1, StmtIs DEF Makes
      <3> QED
        BY <2>3, <3>1, <3>2 DEF Made
    <2> QED
      BY <2>1, <2>2, <2>3
  <1>4. ASSUME NEW x, NEW y
        PROVE  (\E j \in DOMAIN ss : Keys(ss[j], x, y)) <=>
                  \E r : Added(tb, R, r) /\ x = Col(r) /\ y = To(r)
    <2>1. (\E j \in DOMAIN ss : Keys(ss[j], x, y)) <=> \E st \in Range(ss) : Keys(st, x, y)
      BY <1>1
    <2>2. ASSUME NEW st \in Range(ss), Keys(st, x, y)
          PROVE  \E r : Added(tb, R, r) /\ x = Col(r) /\ y = To(r)
      BY <2>2, StmtIs DEF Says, Keys
    <2>3. ASSUME NEW r, Added(tb, R, r), x = Col(r), y = To(r)
          PROVE  \E st \in Range(ss) : Keys(st, x, y)
      <3>1. Stmt("addKey", Col(r), To(r)) \in Range(ss)
        BY <2>3 DEF Says
      <3> QED
        BY <2>3, <3>1, StmtIs DEF Keys
    <2> QED
      BY <2>1, <2>2, <2>3
  <1>5. ASSUME NEW x, NEW z
        PROVE  MovesListed(tb, R, ss, x, z)
    <2>1. (\E j \in DOMAIN ss : Moves(ss[j], x) /\ ss[j].col = z) <=>
             \E st \in Range(ss) : Moves(st, x) /\ st.col = z
      BY <1>1
    <2>2. ASSUME NEW st \in Range(ss), Moves(st, x), st.col = z
          PROVE  \E s, r : Moved(tb, R, s, r) /\ x = Col(r) /\ z = Col(s)
      BY <2>2, StmtIs DEF Says, Moves
    <2>3. ASSUME NEW s, NEW r, Moved(tb, R, s, r), x = Col(r), z = Col(s)
          PROVE  \E st \in Range(ss) : Moves(st, x) /\ st.col = z
      <3>1. Stmt("renameColumn", Col(s), Col(r)) \in Range(ss)
        BY <2>3 DEF Says
      <3> QED
        BY <2>3, <3>1, StmtIs DEF Moves
    <2> QED
      BY <2>1, <2>2, <2>3 DEF MovesListed
  <1>6. ASSUME NEW x
        PROVE  (\E j \in DOMAIN ss : ss[j].op = "createTable" /\ ss[j].col = x) <=>
                  \E r : IsNew(tb, R, r) /\ r.type = M2M /\ r.jt \notin db.junctions /\ x = r.jt
    <2>1. (\E j \in DOMAIN ss : ss[j].op = "createTable" /\ ss[j].col = x) <=>
             \E st \in Range(ss) : st.op = "createTable" /\ st.col = x
      BY <1>1
    <2>2. ASSUME NEW st \in Range(ss), st.op = "createTable", st.col = x
          PROVE  \E r : IsNew(tb, R, r) /\ r.type = M2M /\ r.jt \notin db.junctions /\ x = r.jt
      BY <2>2, StmtIs DEF Says
    <2>3. ASSUME NEW r, IsNew(tb, R, r), r.type = M2M, r.jt \notin db.junctions, x = r.jt
          PROVE  \E st \in Range(ss) : st.op = "createTable" /\ st.col = x
      <3>1. Stmt("createTable", r.jt, NoTab) \in Range(ss)
        BY <2>3 DEF Says
      <3> QED
        BY <2>3, <3>1, StmtIs
    <2> QED
      BY <2>1, <2>2, <2>3
  <1>7. ASSUME NEW x
        PROVE  (\E j \in DOMAIN ss : ss[j].op = "dropTable" /\ ss[j].col = x) <=>
                  \E s \in Own(tb) : s.type = M2M /\ (\A r \in R : r.id # s.id) /\ x = s.jt
    <2>1. (\E j \in DOMAIN ss : ss[j].op = "dropTable" /\ ss[j].col = x) <=>
             \E st \in Range(ss) : st.op = "dropTable" /\ st.col = x
      BY <1>1
    <2>2. ASSUME NEW st \in Range(ss), st.op = "dropTable", st.col = x
          PROVE  \E s \in Own(tb) : s.type = M2M /\ (\A r \in R : r.id # s.id) /\ x = s.jt
      BY <2>2, StmtIs DEF Says
    <2>3. ASSUME NEW s \in Own(tb), s.type = M2M, \A r \in R : r.id # s.id, x = s.jt
          PROVE  \E st \in Range(ss) : st.op = "dropTable" /\ st.col = x
      <3>1. Stmt("dropTable", s.jt, NoTab) \in Range(ss)
        BY <2>3 DEF Says
      <3> QED
        BY <2>3, <3>1, StmtIs
    <2> QED
      BY <2>1, <2>2, <2>3
  <1>8. ASSUME NEW st \in Range(ss) PROVE st.op # "renameTable"
    BY <1>8, StmtIs DEF Says
  <1> QED
    BY <1>1, <1>2, <1>3, <1>4, <1>5, <1>6, <1>7, <1>8 DEF Listed

(***************************************************************************)
(* When all the statements have been executed, the database has changed as *)
(* the rows have.                                                          *)
(***************************************************************************)
LEMMA UpdateFollows ==
    ASSUME NEW tb, NEW R, Following(tb, R), NEW ss, NEW d,
           ss = RelStatements(tb, known[tb], R, db), d = Prepared(db, ss),
           AllPossible(d, ss) = Len(ss)
    PROVE  Followed(tb, R, After(d, ss)[Len(ss)])
  <1> DEFINE e == After(d, ss)[Len(ss)]
  <1>1. ss \in Seq(Fitting(db.tabs)) /\ Ordered(ss) /\ \A x : x \in Range(ss) <=> Says(tb, R, x)
    BY StatementsSay
  <1>2. /\ DbOK(d) /\ d.tabs = db.tabs /\ d.cols = db.cols /\ d.junctions = db.junctions
        /\ Taken(ss) \subseteq d.cols
        /\ \A x : x \in Taken(ss) => \E s : x = Col(s) /\ Away(tb, R, s)
        /\ \A x, y : Linked(d, x, y) <=> Linked(db, x, y) /\ ~(\E s : Lost(tb, R, s) /\ x = Col(s))
    BY PreparedIs DEF Away
  <1>3. Runs(d, ss) /\ Len(ss) \in Nat /\ Len(ss) \in 0 .. Len(ss) /\ DOMAIN ss = 1 .. Len(ss)
    BY <1>1, <1>2, RunsIs
  <1>4. Listed(tb, R, ss)
    BY <1>1, ListedIs
  <1>5. ColumnsAt(d, ss, Len(ss))
    BY <1>1, <1>2, <1>3, ColumnsDone
  <1>6. LinksAt(d, ss, Len(ss))
    BY <1>1, <1>2, <1>3, LinksDone
  <1>7. \A i, j \in DOMAIN ss :
           ss[i].op = "createTable" /\ ss[j].op = "dropTable" => ss[i].col # ss[j].col
    <2>1. SUFFICES ASSUME NEW i \in DOMAIN ss, NEW j \in DOMAIN ss,
                          ss[i].op = "createTable", ss[j].op = "dropTable", ss[i].col = ss[j].col
                   PROVE  FALSE
      OBVIOUS
    <2>2. PICK r : IsNew(tb, R, r) /\ r.type = M2M /\ ss[i].col = r.jt
      BY <1>4, <2>1 DEF Listed
    <2>3. PICK s \in Own(tb) : s.type = M2M /\ (\A x \in R : x.id # s.id) /\ ss[j].col = s.jt
      BY <1>4, <2>1 DEF Listed
    <2>4. r \in R /\ r.id # s.id
      BY <2>2, <2>3 DEF IsNew
    <2>5. r.jt = NoJunction \/ r.jt # s.jt
      BY <2>4 DEF Following, Follows
    <2>6. r.jt \in Junction
      BY <2>2, <2>4, FollowedRows DEF RowOK
    <2>7. NoJunction \notin Junction
      BY DEF NoJunction, Junction
    <2> QED
      BY <2>1, <2>2, <2>3, <2>5, <2>6, <2>7
  <1>18. \A j \in DOMAIN ss : ss[j].op # "renameTable"
    BY <1>4 DEF Listed
  <1>8. JunctionsAt(d, ss, Len(ss))
    BY <1>3, <1>7, <1>18, JunctionsDone
  <1>9. \A x : x \in e.cols <=>
         (\/ (x \in db.cols /\ ~ \E s : Away(tb, R, s) /\ x = Col(s))
          \/ \E r : Made(tb, R, r) /\ x = Col(r))
    <2>1. \A x : x \in e.cols <=>
            (\/ (x \in db.cols /\ ~ \E j \in DOMAIN ss : TakenBy(ss[j], x))
             \/ \E j \in DOMAIN ss : Makes(ss[j], x))
      BY <1>2, <1>3, <1>5 DEF ColumnsAt
    <2>2. \A x : (\E j \in DOMAIN ss : TakenBy(ss[j], x)) <=> \E s : Away(tb, R, s) /\ x = Col(s)
      BY <1>4 DEF Listed
    <2>3. \A x : (\E j \in DOMAIN ss : Makes(ss[j], x)) <=> \E r : Made(tb, R, r) /\ x = Col(r)
      BY <1>4 DEF Listed
    <2> HIDE DEF e
    <2> QED
      BY <2>1, <2>2, <2>3
  <1>10. \A x, y : Linked(e, x, y) <=>
         (\/ (Linked(db, x, y) /\ ~ \E s : Away(tb, R, s) /\ x = Col(s))
          \/ \E s, r : /\ Moved(tb, R, s, r) /\ x = Col(r) /\ Linked(db, Col(s), y)
                       /\ ~ \E z : Lost(tb, R, z) /\ Col(s) = Col(z)
          \/ \E r : Added(tb, R, r) /\ x = Col(r) /\ y = To(r))
    <2>1. SUFFICES ASSUME NEW x, NEW y
                   PROVE  Linked(e, x, y) <=>
             (\/ (Linked(db, x, y) /\ ~ \E s : Away(tb, R, s) /\ x = Col(s))
              \/ \E s, r : /\ Moved(tb, R, s, r) /\ x = Col(r) /\ Linked(db, Col(s), y)
                           /\ ~ \E z : Lost(tb, R, z) /\ Col(s) = Col(z)
              \/ \E r : Added(tb, R, r) /\ x = Col(r) /\ y = To(r))
      OBVIOUS
    <2>2. Linked(e, x, y) <=>
            (\/ (Linked(d, x, y) /\ ~ \E j \in DOMAIN ss : TakenBy(ss[j], x))
             \/ (\E j \in DOMAIN ss : Moves(ss[j], x) /\ Linked(d, ss[j].col, y))
             \/ (\E j \in DOMAIN ss : Keys(ss[j], x, y)))
      BY <1>3, <1>6 DEF LinksAt
    <2>3. (Linked(d, x, y) /\ ~ \E j \in DOMAIN ss : TakenBy(ss[j], x)) <=>
             (Linked(db, x, y) /\ ~ \E s : Away(tb, R, s) /\ x = Col(s))
      <3>1. (\E j \in DOMAIN ss : TakenBy(ss[j], x)) <=> \E s : Away(tb, R, s) /\ x = Col(s)
        BY <1>4 DEF Listed
      <3> QED
        BY <1>2, <3>1 DEF Away
    <2>4. (\E j \in DOMAIN ss : Moves(ss[j], x) /\ Linked(d, ss[j].col, y)) <=>
             \E s, r : /\ Moved(tb, R, s, r) /\ x = Col(r) /\ Linked(db, Col(s), y)
                       /\ ~ \E z : Lost(tb, R, z) /\ Col(s) = Col(z)
      <3>1. (\E j \in DOMAIN ss : Moves(ss[j], x) /\ Linked(d, ss[j].col, y)) <=>
               \E s, r : Moved(tb, R, s, r) /\ x = Col(r) /\ Linked(d, Col(s), y)
        <4>1. \A z : MovesListed(tb, R, ss, x, z)
          BY <1>4 DEF Listed
        <4>2. ASSUME NEW j \in DOMAIN ss, Moves(ss[j], x), Linked(d, ss[j].col, y)
              PROVE  \E s, r : Moved(tb, R, s, r) /\ x = Col(r) /\ Linked(d, Col(s), y)
          <5>1. PICK s, r : Moved(tb, R, s, r) /\ x = Col(r) /\ ss[j].col = Col(s)
            BY <4>1, <4>2 DEF MovesListed
          <5> QED
            BY <4>2, <5>1
        <4>3. ASSUME NEW s, NEW r, Moved(tb, R, s, r), x = Col(r), Linked(d, Col(s), y)
              PROVE  \E j \in DOMAIN ss : Moves(ss[j], x) /\ Linked(d, ss[j].col, y)
          <5>1. PICK j \in DOMAIN ss : Moves(ss[j], x) /\ ss[j].col = Col(s)
            BY <4>1, <4>3 DEF MovesListed
          <5> QED
            BY <4>3, <5>1
        <4> QED
          BY <4>2, <4>3
      <3> QED
        BY <1>2, <3>1
    <2>5. (\E j \in DOMAIN ss : Keys(ss[j], x, y)) <=>
             \E r : Added(tb, R, r) /\ x = Col(r) /\ y = To(r)
      BY <1>4 DEF Listed
    <2> QED
      BY <2>2, <2>3, <2>4, <2>5
  <1>11. \A x : x \in e.junctions <=>
         (/\ x \in db.junctions \/ \E r : IsNew(tb, R, r) /\ r.type = M2M /\ x = r.jt
          /\ ~ \E s \in Own(tb) : s.type = M2M /\ (\A r \in R : r.id # s.id) /\ x = s.jt)
    <2>1. SUFFICES ASSUME NEW x
                   PROVE  x \in e.junctions <=>
             (/\ x \in db.junctions \/ \E r : IsNew(tb, R, r) /\ r.type = M2M /\ x = r.jt
              /\ ~ \E s \in Own(tb) : s.type = M2M /\ (\A r \in R : r.id # s.id) /\ x = s.jt)
      OBVIOUS
    <2>2. x \in e.junctions <=>
            (/\ x \in d.junctions \/ \E j \in DOMAIN ss : ss[j].op = "createTable" /\ ss[j].col = x
             /\ ~ \E j \in DOMAIN ss : ss[j].op = "dropTable" /\ ss[j].col = x)
      BY <1>3, <1>8 DEF JunctionsAt
    <2>3. (\E j \in DOMAIN ss : ss[j].op = "createTable" /\ ss[j].col = x) <=>
             \E r : IsNew(tb, R, r) /\ r.type = M2M /\ r.jt \notin db.junctions /\ x = r.jt
      BY <1>4 DEF Listed
    <2>4. (\E j \in DOMAIN ss : ss[j].op = "dropTable" /\ ss[j].col = x) <=>
             \E s \in Own(tb) : s.type = M2M /\ (\A r \in R : r.id # s.id) /\ x = s.jt
      BY <1>4 DEF Listed
    <2>5. (x \in d.junctions \/ \E j \in DOMAIN ss : ss[j].op = "createTable" /\ ss[j].col = x)
          <=> (x \in db.junctions \/ \E r : IsNew(tb, R, r) /\ r.type = M2M /\ x = r.jt)
      BY <1>2, <2>3
    <2> QED
      BY <2>2, <2>4, <2>5
  <1>12. \A r, s : IsNew(tb, R, r) /\ IsNew(tb, R, s) => r = s
    BY FreshSay
  <1>13. \A x, y \in R : x.id = y.id => x = y
    BY FollowedRows
  <1>14. \A s, r : Moved(tb, R, s, r) \/ Lost(tb, R, s) => s \in rels /\ s.type # M2M
    BY FollowedRows DEF Moved, Lost
  <1>15. \A r, s \in rels : r.type # M2M /\ s.type # M2M /\ Col(r) = Col(s) => r = s
    BY DEF Following, DescribedBy
  <1>16. ASSUME NEW r, Made(tb, R, r), NEW s, Made(tb, R, s), Col(r) = Col(s) PROVE r = s
    <2>1. ASSUME NEW x, Added(tb, R, x)
          PROVE  /\ \E j \in DOMAIN ss : ss[j] = Stmt("addColumn", Col(x), NoTab)
                 /\ IsNew(tb, R, x)
      <3>1. Stmt("addColumn", Col(x), NoTab) \in Range(ss)
        BY <1>1, <2>1 DEF Says
      <3> QED
        BY <2>1, <3>1 DEF Range, Added, IsNew
    <2>2. ASSUME NEW z, NEW x, Moved(tb, R, z, x)
          PROVE  \E j \in DOMAIN ss : ss[j] = Stmt("renameColumn", Col(z), Col(x))
      <3>1. Stmt("renameColumn", Col(z), Col(x)) \in Range(ss)
        BY <1>1, <2>2 DEF Says
      <3> QED
        BY <3>1 DEF Range
    <2>3. \A i, j \in DOMAIN ss : \A x : Makes(ss[i], x) /\ Makes(ss[j], x) => i = j
      <3>1. ASSUME NEW i \in DOMAIN ss, NEW j \in DOMAIN ss, NEW x, Makes(ss[i], x), Makes(ss[j], x)
            PROVE  i = j
        BY <1>1, <1>2, <1>3, <3>1, MadeOnce
      <3> QED
        BY <3>1
    <2>4. CASE Added(tb, R, r) /\ Added(tb, R, s)
      BY <1>12, <2>1, <2>4
    <2>5. ASSUME NEW x, Added(tb, R, x), NEW z, NEW y, Moved(tb, R, z, y), Col(x) = Col(y)
          PROVE  FALSE
      <3>1. PICK i \in DOMAIN ss : ss[i] = Stmt("addColumn", Col(x), NoTab)
        BY <2>1, <2>5
      <3>2. PICK j \in DOMAIN ss : ss[j] = Stmt("renameColumn", Col(z), Col(y))
        BY <2>2, <2>5
      <3>3. Makes(ss[i], Col(x)) /\ Makes(ss[j], Col(x)) /\ ss[i].op # ss[j].op
        BY <2>5, <3>1, <3>2, StmtIs DEF Makes
      <3> QED
        BY <2>3, <3>3
    <2>6. ASSUME NEW x, Moved(tb, R, x, r), NEW z, Moved(tb, R, z, s)
          PROVE  r = s
      <3>1. PICK i \in DOMAIN ss : ss[i] = Stmt("renameColumn", Col(x), Col(r))
        BY <2>2, <2>6
      <3>2. PICK j \in DOMAIN ss : ss[j] = Stmt("renameColumn", Col(z), Col(s))
        BY <2>2, <2>6
      <3>3. Makes(ss[i], Col(r)) /\ Makes(ss[j], Col(r)) /\ ss[i].col = Col(x) /\ ss[j].col = Col(z)
        BY <1>16, <3>1, <3>2, StmtIs DEF Makes
      <3>4. Col(x) = Col(z)
        BY <2>3, <3>3
      <3>5. x = z
        BY <1>14, <1>15, <2>6, <3>4
      <3> QED
        BY <1>13, <2>6, <3>5 DEF Moved
    <2> QED
      BY <1>16, <2>4, <2>5, <2>6 DEF Made
  <1>17. ASSUME NEW r, Made(tb, R, r), Col(r) \in db.cols
         PROVE  \E s : Away(tb, R, s) /\ Col(s) = Col(r)
    <2>1. PICK i \in DOMAIN ss : Makes(ss[i], Col(r))
      BY <1>4, <1>17 DEF Listed
    <2>2. Col(r) \in Taken(ss)
      BY <1>1, <1>2, <1>3, <1>17, <2>1, MadeOnce
    <2> QED
      BY <1>2, <2>2
  <1> QED
    BY <1>9, <1>10, <1>11, <1>16, <1>17 DEF Followed

\* The rows whose columns stay.
Resting(tb, R, r, s) == /\ r \in R /\ s \in Own(tb) /\ r.id = s.id /\ r.type # M2M /\ s.type # M2M
                        /\ Col(r) = Col(s)

(***************************************************************************)
(* A row's column stays, moves, is added or is lost.                       *)
(***************************************************************************)
LEMMA RowsRest ==
    ASSUME NEW tb, NEW R, Following(tb, R)
    PROVE  /\ \A r \in R : r.type # M2M => Made(tb, R, r) \/ \E s : Resting(tb, R, r, s)
           /\ \A s \in rels : s.type # M2M =>
                 s \in Others(tb) \/ Away(tb, R, s) \/ \E r : Resting(tb, R, r, s)
           /\ \A s : Away(tb, R, s) => s \in Own(tb) /\ s \in rels /\ s.type # M2M
           /\ \A r : Made(tb, R, r) => r \in R /\ r.type # M2M
           /\ \A r, s : Resting(tb, R, r, s) => s \in rels /\ To(r) = To(s) /\ ~Away(tb, R, s)
           /\ \A r, s : Moved(tb, R, s, r) => To(r) = To(s) /\ ~Lost(tb, R, s)
           /\ \A s \in Others(tb) : s \in rels /\ s \notin Own(tb) /\ s.from # tb
  <1>1. /\ \A s \in Own(tb) : s \in rels /\ s.from = tb /\ s \in Relation
        /\ \A r \in R : r.from = tb /\ r \in Relation
        /\ \A r \in R, s \in Own(tb) : r.id = s.id => r.type = s.type /\ r.to = s.to
        /\ \A r, s \in R : r.id = s.id => r = s
    BY FollowedRows
  <1>2. \A s \in Others(tb) : s \in rels /\ s \notin Own(tb) /\ s.from # tb
    BY DEF Others, Own
  <1>3. \A s \in rels : s \in Others(tb) \/ s \in Own(tb)
    BY DEF Others, Own
  <1>4. \A r \in R, s \in Own(tb) : r.id = s.id => To(r) = To(s)
    BY <1>1 DEF To
  <1>5. \A r \in R : r.type # M2M => Made(tb, R, r) \/ \E s : Resting(tb, R, r, s)
    <2>1. ASSUME NEW r \in R, r.type # M2M, ~Made(tb, R, r) PROVE \E s : Resting(tb, R, r, s)
      <3>1. PICK s \in Own(tb) : r.id = s.id
        BY <2>1 DEF Made, Added
      <3>2. s.type # M2M
        BY <1>1, <2>1, <3>1
      <3>3. Col(r) = Col(s)
        BY <2>1, <3>1, <3>2 DEF Made, Moved
      <3> QED
        BY <2>1, <3>1, <3>2, <3>3 DEF Resting
    <2> QED
      BY <2>1
  <1>6. \A s \in rels : s.type # M2M =>
           s \in Others(tb) \/ Away(tb, R, s) \/ \E r : Resting(tb, R, r, s)
    <2>1. ASSUME NEW s \in rels, s.type # M2M, s \notin Others(tb), ~Away(tb, R, s)
          PROVE  \E r : Resting(tb, R, r, s)
      <3>1. s \in Own(tb)
        BY <1>3, <2>1
      <3>2. PICK r \in R : r.id = s.id
        BY <2>1, <3>1 DEF Away, Lost
      <3>3. r.type # M2M
        BY <1>1, <2>1, <3>1, <3>2
      <3>4. Col(r) = Col(s)
        BY <2>1, <3>1, <3>2 DEF Away, Moved
      <3> QED
        BY <2>1, <3>1, <3>2, <3>3, <3>4 DEF Resting
    <2> QED
      BY <2>1
  <1>7. \A s : Away(tb, R, s) => s \in Own(tb) /\ s \in rels /\ s.type # M2M
    BY <1>1 DEF Away, Lost, Moved
  <1>8. \A r : Made(tb, R, r) => r \in R /\ r.type # M2M
    BY <1>1 DEF Made, Added, Moved
  <1>9. \A r, s : Moved(tb, R, s, r) => To(r) = To(s) /\ ~Lost(tb, R, s)
    BY <1>4 DEF Moved, Lost
  <1>10. ASSUME NEW r, NEW s, Resting(tb, R, r, s)
         PROVE  s \in rels /\ To(r) = To(s) /\ ~Away(tb, R, s)
    <2>1. r \in R /\ s \in Own(tb) /\ r.id = s.id /\ Col(r) = Col(s)
      BY <1>10 DEF Resting
    <2>2. ~Lost(tb, R, s)
      BY <2>1 DEF Lost
    <2>3. ASSUME NEW x, Moved(tb, R, s, x) PROVE FALSE
      <3>1. x \in R /\ x.id = s.id /\ Col(x) # Col(s)
        BY <2>3 DEF Moved
      <3>2. x = r
        BY <1>1, <2>1, <3>1
      <3> QED
        BY <2>1, <3>1, <3>2
    <2> QED
      BY <1>1, <1>4, <2>1, <2>2, <2>3 DEF Away
  <1> QED
    BY <1>2, <1>5, <1>6, <1>7, <1>8, <1>9, <1>10

(***************************************************************************)
(* And then it is as the rows say.                                         *)
(***************************************************************************)
LEMMA UpdateDescribes ==
    ASSUME NEW tb, NEW R, Following(tb, R), NEW e, Followed(tb, R, e)
    PROVE  DescribedBy(Others(tb) \cup R, e)
  <1> DEFINE rs == Others(tb) \cup R
  <1>1. /\ \A r \in R : r.type # M2M => Made(tb, R, r) \/ \E s : Resting(tb, R, r, s)
        /\ \A s \in rels : s.type # M2M =>
              s \in Others(tb) \/ Away(tb, R, s) \/ \E r : Resting(tb, R, r, s)
        /\ \A s : Away(tb, R, s) => s \in Own(tb) /\ s \in rels /\ s.type # M2M
        /\ \A r : Made(tb, R, r) => r \in R /\ r.type # M2M
        /\ \A r, s : Resting(tb, R, r, s) => s \in rels /\ To(r) = To(s) /\ ~Away(tb, R, s)
        /\ \A r, s : Moved(tb, R, s, r) => To(r) = To(s) /\ ~Lost(tb, R, s)
        /\ \A s \in Others(tb) : s \in rels /\ s \notin Own(tb) /\ s.from # tb
    BY RowsRest
  <1>2. /\ \A x : x \in db.cols <=> \E r \in rels : r.type # M2M /\ x = Col(r)
        /\ \A x, y : Linked(db, x, y) <=> \E r \in rels : r.type # M2M /\ x = Col(r) /\ y = To(r)
        /\ \A x : x \in db.junctions <=> \E r \in rels : r.type = M2M /\ x = r.jt
        /\ \A r, s \in rels : r.type # M2M /\ s.type # M2M /\ Col(r) = Col(s) => r = s
        /\ \A r \in rels : r.type = M2M => r.jt = <<r.from, r.prop, r.to>>
    BY DEF Following, DescribedBy
  <1>3. /\ \A x : x \in e.cols <=>
             (\/ (x \in db.cols /\ ~ \E s : Away(tb, R, s) /\ x = Col(s))
              \/ \E r : Made(tb, R, r) /\ x = Col(r))
        /\ \A r, s : Made(tb, R, r) /\ Made(tb, R, s) /\ Col(r) = Col(s) => r = s
        /\ \A r : Made(tb, R, r) /\ Col(r) \in db.cols => \E s : Away(tb, R, s) /\ Col(s) = Col(r)
    BY DEF Followed
  <1>4. ASSUME NEW s \in Others(tb), s.type # M2M, NEW z, Away(tb, R, z), Col(z) = Col(s)
        PROVE  FALSE
    BY <1>1, <1>2, <1>4
  <1>5. ASSUME NEW r, NEW s, Resting(tb, R, r, s), NEW z, Away(tb, R, z), Col(z) = Col(s)
        PROVE  FALSE
    <2>1. s.type # M2M
      BY <1>5 DEF Resting
    <2> QED
      BY <1>1, <1>2, <1>5, <2>1
  <1>6. \A r, s : Resting(tb, R, r, s) => r \in R /\ r.type # M2M /\ s.type # M2M /\ Col(r) = Col(s)
    BY DEF Resting
  <1>7. ASSUME NEW x PROVE x \in e.cols <=> \E r \in rs : r.type # M2M /\ x = Col(r)
    <2>1. ASSUME x \in db.cols, ~ \E s : Away(tb, R, s) /\ x = Col(s)
          PROVE  \E r \in rs : r.type # M2M /\ x = Col(r)
      <3>1. PICK s \in rels : s.type # M2M /\ x = Col(s)
        BY <1>2, <2>1
      <3>2. s \in Others(tb) \/ \E r : Resting(tb, R, r, s)
        BY <1>1, <2>1, <3>1
      <3> QED
        BY <1>6, <3>1, <3>2
    <2>2. ASSUME NEW r, Made(tb, R, r), x = Col(r)
          PROVE  \E y \in rs : y.type # M2M /\ x = Col(y)
      BY <1>1, <2>2
    <2>3. ASSUME NEW r \in Others(tb), r.type # M2M, x = Col(r) PROVE x \in e.cols
      <3>1. x \in db.cols
        BY <1>1, <1>2, <2>3
      <3> QED
        BY <1>3, <1>4, <2>3, <3>1
    <2>4. ASSUME NEW r \in R, r.type # M2M, x = Col(r) PROVE x \in e.cols
      <3>1. CASE Made(tb, R, r)
        BY <1>3, <2>4, <3>1
      <3>2. ASSUME NEW s, Resting(tb, R, r, s) PROVE x \in e.cols
        <4>1. x \in db.cols /\ x = Col(s)
          BY <1>1, <1>2, <1>6, <2>4, <3>2
        <4> QED
          BY <1>3, <1>5, <3>2, <4>1
      <3> QED
        BY <1>1, <2>4, <3>1, <3>2
    <2> QED
      BY <1>3, <2>1, <2>2, <2>3, <2>4
  <1>8. \A x, y : Linked(e, x, y) <=>
         (\/ (Linked(db, x, y) /\ ~ \E s : Away(tb, R, s) /\ x = Col(s))
          \/ \E s, r : /\ Moved(tb, R, s, r) /\ x = Col(r) /\ Linked(db, Col(s), y)
                       /\ ~ \E z : Lost(tb, R, z) /\ Col(s) = Col(z)
          \/ \E r : Added(tb, R, r) /\ x = Col(r) /\ y = To(r))
    BY DEF Followed
  <1>9. ASSUME NEW x, NEW y
        PROVE  Linked(e, x, y) <=> \E r \in rs : r.type # M2M /\ x = Col(r) /\ y = To(r)
    <2>1. ASSUME Linked(db, x, y), ~ \E s : Away(tb, R, s) /\ x = Col(s)
          PROVE  \E r \in rs : r.type # M2M /\ x = Col(r) /\ y = To(r)
      <3>1. PICK s \in rels : s.type # M2M /\ x = Col(s) /\ y = To(s)
        BY <1>2, <2>1
      <3>2. s \in Others(tb) \/ \E r : Resting(tb, R, r, s)
        BY <1>1, <2>1, <3>1
      <3> QED
        BY <1>1, <1>6, <3>1, <3>2
    <2>2. ASSUME NEW s, NEW r, Moved(tb, R, s, r), x = Col(r), Linked(db, Col(s), y)
          PROVE  \E z \in rs : z.type # M2M /\ x = Col(z) /\ y = To(z)
      <3>1. PICK z \in rels : z.type # M2M /\ Col(s) = Col(z) /\ y = To(z)
        BY <1>2, <2>2
      <3>2. Away(tb, R, s) /\ Made(tb, R, r)
        BY <2>2 DEF Away, Made
      <3>3. z = s
        BY <1>1, <1>2, <3>1, <3>2
      <3> QED
        BY <1>1, <2>2, <3>1, <3>2, <3>3
    <2>3. ASSUME NEW r, Added(tb, R, r), x = Col(r), y = To(r)
          PROVE  \E z \in rs : z.type # M2M /\ x = Col(z) /\ y = To(z)
      BY <2>3 DEF Added
    <2>4. ASSUME NEW r \in Others(tb), r.type # M2M, x = Col(r), y = To(r)
          PROVE Linked(e, x, y)
      <3>1. Linked(db, x, y)
        BY <1>1, <1>2, <2>4
      <3> QED
        BY <1>4, <1>8, <2>4, <3>1
    <2>5. ASSUME NEW r \in R, r.type # M2M, x = Col(r), y = To(r) PROVE Linked(e, x, y)
      <3>1. CASE Added(tb, R, r)
        BY <1>8, <2>5, <3>1
      <3>2. ASSUME NEW s, Moved(tb, R, s, r) PROVE Linked(e, x, y)
        <4>1. Away(tb, R, s) /\ ~Lost(tb, R, s) /\ y = To(s)
          BY <1>1, <2>5, <3>2 DEF Away
        <4>2. Linked(db, Col(s), y)
          BY <1>1, <1>2, <4>1
        <4>3. ~ \E z : Lost(tb, R, z) /\ Col(s) = Col(z)
          <5>1. ASSUME NEW z, Lost(tb, R, z), Col(s) = Col(z) PROVE FALSE
            <6>1. Away(tb, R, z)
              BY <5>1 DEF Away
            <6>2. z = s
              BY <1>1, <1>2, <4>1, <5>1, <6>1
            <6> QED
              BY <4>1, <5>1, <6>2
          <5> QED
            BY <5>1
        <4> QED
          BY <1>8, <2>5, <3>2, <4>2, <4>3
      <3>3. ASSUME NEW s, Resting(tb, R, r, s) PROVE Linked(e, x, y)
        <4>1. Linked(db, x, y) /\ x = Col(s)
          BY <1>1, <1>2, <1>6, <2>5, <3>3
        <4> QED
          BY <1>5, <1>8, <3>3, <4>1
      <3> QED
        BY <1>1, <2>5, <3>1, <3>2, <3>3 DEF Made
    <2> QED
      BY <1>8, <2>1, <2>2, <2>3, <2>4, <2>5
  <1>10. ASSUME NEW r \in rs, NEW s \in rs, r.type # M2M, s.type # M2M, Col(r) = Col(s)
         PROVE  r = s
    <2>1. CASE r \in Others(tb) /\ s \in Others(tb)
      BY <1>1, <1>2, <1>10, <2>1
    <2>2. ASSUME NEW x \in Others(tb), x.type # M2M, NEW y \in R, y.type # M2M, Col(x) = Col(y)
          PROVE  FALSE
      <3>1. CASE Made(tb, R, y)
        <4>1. Col(y) \in db.cols
          BY <1>1, <1>2, <2>2
        <4> QED
          BY <1>3, <1>4, <2>2, <3>1, <4>1
      <3>2. ASSUME NEW z, Resting(tb, R, y, z) PROVE FALSE
        <4>1. z \in Own(tb)
          BY <3>2 DEF Resting
        <4> QED
          BY <1>1, <1>2, <1>6, <2>2, <3>2, <4>1
      <3> QED
        BY <1>1, <2>2, <3>1, <3>2
    <2>3. ASSUME NEW x \in R, NEW y \in R, Made(tb, R, x), NEW z, Resting(tb, R, y, z),
                 Col(x) = Col(y)
          PROVE  FALSE
      <3>1. Col(x) \in db.cols /\ Col(x) = Col(z)
        BY <1>1, <1>2, <1>6, <2>3
      <3> QED
        BY <1>3, <1>5, <2>3, <3>1
    <2>4. ASSUME NEW x, NEW z, Resting(tb, R, r, x), Resting(tb, R, s, z) PROVE r = s
      <3>1. x = z
        BY <1>1, <1>2, <1>6, <1>10, <2>4
      <3>2. r.id = s.id /\ r \in R /\ s \in R
        BY <2>4, <3>1 DEF Resting
      <3> QED
        BY <3>2, FollowedRows
    <2>5. CASE r \in R /\ s \in R
      <3>1. CASE Made(tb, R, r) /\ Made(tb, R, s)
        BY <1>3, <1>10, <3>1
      <3>2. CASE ~Made(tb, R, r)
        BY <1>1, <1>10, <2>3, <2>4, <2>5, <3>2
      <3>3. CASE ~Made(tb, R, s)
        BY <1>1, <1>10, <2>3, <2>4, <2>5, <3>3
      <3> QED
        BY <3>1, <3>2, <3>3
    <2> QED
      BY <1>10, <2>1, <2>2, <2>5
  <1>11. \A x : x \in e.junctions <=>
         (/\ x \in db.junctions \/ \E r : IsNew(tb, R, r) /\ r.type = M2M /\ x = r.jt
          /\ ~ \E s \in Own(tb) : s.type = M2M /\ (\A r \in R : r.id # s.id) /\ x = s.jt)
    BY DEF Followed
  <1>12. /\ \A s \in Own(tb) : s \in rels /\ s.from = tb
         /\ \A r \in R : r.from = tb /\ RowOK(r)
         /\ \A r \in R : r \in NewRelations(tb) \/ \E s \in Own(tb) : r.id = s.id
         /\ \A r \in R, s \in Own(tb) : r.id = s.id => /\ r.type = s.type /\ r.jt = s.jt /\ r.to = s.to
                                                       /\ r.type = M2M => r.prop = s.prop
         /\ \A r \in NewRelations(tb) : r.type = M2M => r.jt = <<tb, r.prop, r.to>>
    BY FollowedRows
  <1>13. \A r \in rs : r.type = M2M => r.jt = <<r.from, r.prop, r.to>>
    <2>1. \A r \in Others(tb) : r.type = M2M => r.jt = <<r.from, r.prop, r.to>>
      BY <1>1, <1>2
    <2>2. ASSUME NEW r \in R, r.type = M2M PROVE r.jt = <<r.from, r.prop, r.to>>
      <3>1. CASE r \in NewRelations(tb)
        BY <1>12, <2>2, <3>1
      <3>2. ASSUME NEW s \in Own(tb), r.id = s.id PROVE r.jt = <<r.from, r.prop, r.to>>
        BY <1>2, <1>12, <2>2, <3>2
      <3> QED
        BY <1>12, <3>1, <3>2
    <2> QED
      BY <2>1, <2>2
  <1>14. ASSUME NEW r \in R, r.type = M2M, NEW s \in Own(tb), \A x \in R : x.id # s.id
         PROVE  r.jt # s.jt
    <2>1. r.jt = NoJunction \/ r.jt # s.jt
      BY <1>14 DEF Following, Follows
    <2>2. r.jt \in Junction
      BY <1>12, <1>14 DEF RowOK
    <2>3. NoJunction \notin Junction
      BY DEF NoJunction, Junction
    <2> QED
      BY <2>1, <2>2, <2>3
  <1>15. ASSUME NEW x PROVE x \in e.junctions <=> \E r \in rs : r.type = M2M /\ x = r.jt
    <2>1. ASSUME x \in db.junctions,
                 ~ \E s \in Own(tb) : s.type = M2M /\ (\A r \in R : r.id # s.id) /\ x = s.jt
          PROVE  \E r \in rs : r.type = M2M /\ x = r.jt
      <3>1. PICK s \in rels : s.type = M2M /\ x = s.jt
        BY <1>2, <2>1
      <3>2. CASE s \in Own(tb)
        <4>1. PICK r \in R : r.id = s.id
          BY <2>1, <3>1, <3>2
        <4> QED
          BY <1>12, <3>1, <3>2, <4>1
      <3>3. CASE s \notin Own(tb)
        BY <3>1, <3>3 DEF Others
      <3> QED
        BY <3>2, <3>3
    <2>2. ASSUME NEW r, IsNew(tb, R, r), r.type = M2M, x = r.jt
          PROVE  \E y \in rs : y.type = M2M /\ x = y.jt
      BY <2>2 DEF IsNew
    <2>3. ASSUME NEW r \in Others(tb), r.type = M2M, x = r.jt PROVE x \in e.junctions
      <3>1. x \in db.junctions /\ x = <<r.from, r.prop, r.to>> /\ r.from # tb
        BY <1>1, <1>2, <2>3
      <3>2. \A s \in Own(tb) : s.type = M2M => s.jt = <<tb, s.prop, s.to>>
        BY <1>2, <1>12
      <3>3. \A s \in Own(tb) : s.type = M2M => x # s.jt
        BY <3>1, <3>2
      <3> QED
        BY <1>11, <3>1, <3>3
    <2>4. ASSUME NEW r \in R, r.type = M2M, x = r.jt PROVE x \in e.junctions
      <3>1. x \in db.junctions \/ \E y : IsNew(tb, R, y) /\ y.type = M2M /\ x = y.jt
        <4>1. CASE IsNew(tb, R, r)
          BY <2>4, <4>1
        <4>2. CASE ~IsNew(tb, R, r)
          <5>1. PICK s \in Own(tb) : r.id = s.id
            BY <4>2 DEF IsNew
          <5> QED
            BY <1>2, <1>12, <2>4, <5>1
        <4> QED
          BY <4>1, <4>2
      <3> QED
        BY <1>11, <1>14, <2>4, <3>1
    <2> QED
      BY <1>11, <2>1, <2>2, <2>3, <2>4
  <1> QED
    BY <1>7, <1>9, <1>10, <1>13, <1>15 DEF DescribedBy

(***************************************************************************)
(* A created table's relation gets a column that was none before, or its   *)
(* junction table.                                                         *)
(***************************************************************************)
LEMMA CreateStored ==
    ASSUME StoredInv, NEW tb \in Tab, CreateTable(tb), dirty' = 0
    PROVE  DescribedBy(rels', db')
  <1> DEFINE built == [db EXCEPT !.tabs = @ \cup {tb}]
  <1>1. /\ tb \notin db.tabs /\ dirty' = dirty
        /\ \/ db' = built /\ UNCHANGED <<rels, nextRel>>
           \/ \E r \in NewRelations(tb) :
                /\ r.type = O2M => <<r.to, r.inv>> \notin db.cols
                /\ rels' = rels \cup {r} /\ db' = BuiltFor(built, r)
    BY DEF CreateTable
  <1>2. DbOK(db) /\ RelsOK(rels, db.tabs, nextRel) /\ nextRel \in 1 .. MaxRel + 1
    BY DEF StoredInv, RelInv
  <1>3. db = [tabs |-> db.tabs, cols |-> db.cols, keys |-> db.keys, junctions |-> db.junctions]
    BY <1>2 DEF DbOK, DbTypes
  <1>4. built = [tabs |-> db.tabs \cup {tb}, cols |-> db.cols, keys |-> db.keys,
                junctions |-> db.junctions]
    BY <1>3
  <1>5. /\ \A x : x \in db.cols <=> \E r \in rels : r.type # M2M /\ x = Col(r)
        /\ \A x, y : Linked(db, x, y) <=> \E r \in rels : r.type # M2M /\ x = Col(r) /\ y = To(r)
        /\ \A x : x \in db.junctions <=> \E r \in rels : r.type = M2M /\ x = r.jt
        /\ \A r, s \in rels : r.type # M2M /\ s.type # M2M /\ Col(r) = Col(s) => r = s
        /\ \A r \in rels : r.type = M2M => r.jt = <<r.from, r.prop, r.to>>
    BY <1>1 DEF StoredInv, DescribedBy
  <1> HIDE DEF built
  <1>6. CASE db' = built /\ UNCHANGED <<rels, nextRel>>
    <2>1. db'.cols = db.cols /\ db'.keys = db.keys /\ db'.junctions = db.junctions /\ rels' = rels
      BY <1>4, <1>6
    <2>2. \A x, y : Linked(db', x, y) <=> Linked(db, x, y)
      BY <2>1 DEF Linked
    <2> QED
      BY <1>5, <2>1, <2>2 DEF DescribedBy
  <1>7. ASSUME NEW r \in NewRelations(tb), r.type = O2M => <<r.to, r.inv>> \notin db.cols,
               rels' = rels \cup {r}, db' = BuiltFor(built, r)
        PROVE  DescribedBy(rels', db')
    <2>1. /\ r \in Relation /\ r.from = tb /\ r.to \in db.tabs
          /\ r.type = M2M => r.jt = <<tb, r.prop, r.to>>
      BY <1>2, NewRelationsAre
    <2>2. CASE r.type = M2M
      <3>1. db' = [tabs |-> db.tabs \cup {tb}, cols |-> db.cols, keys |-> db.keys,
                   junctions |-> db.junctions \cup {r.jt}]
        BY <1>4, <1>7, <2>2 DEF BuiltFor
      <3>2. /\ db'.cols = db.cols /\ db'.keys = db.keys
            /\ db'.junctions = db.junctions \cup {r.jt}
        BY <3>1
      <3>3. \A x, y : Linked(db', x, y) <=> Linked(db, x, y)
        BY <3>2 DEF Linked
      <3>4. \A x : x \in db'.cols <=> \E s \in rels' : s.type # M2M /\ x = Col(s)
        BY <1>5, <1>7, <2>2, <3>2
      <3>5. \A x, y : Linked(db', x, y) <=> \E s \in rels' : s.type # M2M /\ x = Col(s) /\ y = To(s)
        BY <1>5, <1>7, <2>2, <3>3
      <3>6. \A x : x \in db'.junctions <=> \E s \in rels' : s.type = M2M /\ x = s.jt
        BY <1>5, <1>7, <2>2, <3>2
      <3>7. \A x, s \in rels' : x.type # M2M /\ s.type # M2M /\ Col(x) = Col(s) => x = s
        BY <1>5, <1>7, <2>2
      <3>8. \A s \in rels' : s.type = M2M => s.jt = <<s.from, s.prop, s.to>>
        BY <1>5, <1>7, <2>1
      <3> QED
        BY <3>4, <3>5, <3>6, <3>7, <3>8 DEF DescribedBy
    <2>3. CASE r.type # M2M
      <3> DEFINE key == [col |-> Col(r), name |-> <<"foreign", Col(r)>>, to |-> To(r)]
      <3>1. db' = [tabs |-> db.tabs \cup {tb}, cols |-> db.cols \cup {Col(r)},
                   keys |-> db.keys \cup {key}, junctions |-> db.junctions]
        BY <1>4, <1>7, <2>3 DEF BuiltFor, Col, To
      <3>2. /\ db'.cols = db.cols \cup {Col(r)} /\ db'.keys = db.keys \cup {key}
            /\ db'.junctions = db.junctions
        BY <3>1
      <3>3. key.col = Col(r) /\ key.to = To(r)
        OBVIOUS
      <3> HIDE DEF key
      <3>4. \A x, y : Linked(db', x, y) <=> (Linked(db, x, y) \/ (x = Col(r) /\ y = To(r)))
        BY <3>2, <3>3 DEF Linked
      <3>5. Col(r) \notin db.cols
        <4>1. CASE r.type = O2M
          BY <1>7, <4>1 DEF Col
        <4>2. CASE r.type # O2M
          <5>1. Col(r)[1] = tb
            BY <2>1, <4>2 DEF Col
          <5>2. \A x \in db.cols : x[1] \in db.tabs
            BY <1>2 DEF DbOK
          <5> QED
            BY <1>1, <5>1, <5>2
        <4> QED
          BY <4>1, <4>2
      <3>6. \A s \in rels : s.type # M2M => Col(s) # Col(r)
        BY <1>5, <3>5
      <3>7. \A x : x \in db'.cols <=> \E s \in rels' : s.type # M2M /\ x = Col(s)
        BY <1>5, <1>7, <2>3, <3>2
      <3>8. \A x, y : Linked(db', x, y) <=> \E s \in rels' : s.type # M2M /\ x = Col(s) /\ y = To(s)
        BY <1>5, <1>7, <2>3, <3>4
      <3>9. \A x : x \in db'.junctions <=> \E s \in rels' : s.type = M2M /\ x = s.jt
        BY <1>5, <1>7, <2>3, <3>2
      <3>10. \A x, s \in rels' : x.type # M2M /\ s.type # M2M /\ Col(x) = Col(s) => x = s
        BY <1>5, <1>7, <3>6
      <3>11. \A s \in rels' : s.type = M2M => s.jt = <<s.from, s.prop, s.to>>
        BY <1>5, <1>7, <2>3
      <3> QED
        BY <3>7, <3>8, <3>9, <3>10, <3>11 DEF DescribedBy
    <2> QED
      BY <2>2, <2>3
  <1> QED
    BY <1>1, <1>6, <1>7

\* The columns that the deletion of a table takes.
Named(tb) == {<<r.from, NamedAs[tb]>> : r \in {s \in rels : s.to = tb /\ s.type # M2M}} \cap db.cols
Referring(tb) ==
    {k.col : k \in {x \in WithoutColumns(db, Named(tb)).keys : x.to = tb}}
Deletes(tb, x) == x \in Named(tb) \/ x \in Referring(tb) \/ x \in {tb} \X Prop

(***************************************************************************)
(* A deletion takes the columns of the relations from and to the table and *)
(* no other's, unless it takes one that is only called after the table.    *)
(***************************************************************************)
LEMMA DeletesIs ==
    ASSUME RelInv, DescribedBy(rels, db), NEW tb \in Tab, ~TakesAnother(tb),
           NEW s \in rels, s.type # M2M
    PROVE  Deletes(tb, Col(s)) <=> tb \in {s.from, s.to}
  <1>1. DbOK(db) /\ s \in Relation /\ RowOK(s)
    BY DEF RelInv, RelsOK
  <1>2. /\ Col(s) \in LinkColumn
        /\ tb \in {s.from, s.to} <=> (Col(s)[1] = tb \/ To(s) = tb)
    BY <1>1, RelationIs DEF Col, To, RowOK, LinkColumn
  <1>3. \A k : k \in WithoutColumns(db, Named(tb)).keys <=> k \in db.keys /\ k.col \notin Named(tb)
    BY <1>1, WithoutIs
  <1>4. \A x : x \in Referring(tb) <=> \E k \in db.keys : k.col \notin Named(tb) /\ k.to = tb /\ x = k.col
    BY <1>3 DEF Referring
  <1>5. \A x, y : Linked(db, x, y) <=> \E r \in rels : r.type # M2M /\ x = Col(r) /\ y = To(r)
    BY DEF DescribedBy
  <1>6. \A r \in rels : r.type # M2M /\ Col(r) = Col(s) => r = s
    BY DEF DescribedBy
  <1>7. Col(s) \in {tb} \X Prop <=> Col(s)[1] = tb
    BY <1>2 DEF LinkColumn
  <1>8. ASSUME To(s) = tb PROVE Deletes(tb, Col(s))
    <2>1. Linked(db, Col(s), tb)
      BY <1>5, <1>8
    <2>2. PICK k \in db.keys : k.col = Col(s) /\ k.to = tb
      BY <2>1 DEF Linked
    <2> QED
      BY <1>4, <2>2 DEF Deletes
  <1>9. ASSUME Col(s) \in Referring(tb) PROVE To(s) = tb
    <2>1. PICK k \in db.keys : k.to = tb /\ Col(s) = k.col
      BY <1>4, <1>9
    <2>2. Linked(db, Col(s), tb)
      BY <2>1 DEF Linked
    <2> QED
      BY <1>5, <1>6, <2>2
  <1>10. ASSUME Col(s) \in Named(tb) PROVE To(s) = tb
    <2>1. PICK r \in rels : r.to = tb /\ r.type # M2M /\ Col(s) = <<r.from, NamedAs[tb]>>
      BY <1>10 DEF Named
    <2>2. CASE s.type = O2M
      <3>1. Col(s) = <<s.to, s.inv>> /\ To(s) = s.from
        BY <2>2 DEF Col, To
      <3> QED
        BY <2>1, <2>2, <3>1 DEF TakesAnother
    <2>3. CASE s.type \in HasColumn
      <3>1. Col(s) = <<s.from, s.prop>> /\ To(s) = s.to
        BY <1>1, <2>3, TypesAre
      <3> QED
        BY <2>1, <2>3, <3>1 DEF TakesAnother
    <2> QED
      BY <1>1, <2>2, <2>3, TypesAre
  <1> QED
    BY <1>2, <1>7, <1>8, <1>9, <1>10 DEF Deletes

(***************************************************************************)
(* After the deletion of a table the database is as the remaining rows     *)
(* say.                                                                    *)
(***************************************************************************)
LEMMA DeleteStored ==
    ASSUME StoredInv, NEW tb \in Tab, DeleteTable(tb), dirty' = 0
    PROVE  DescribedBy(rels', db')
  <1> DEFINE involved == {r \in rels : tb \in {r.from, r.to}}
             c == WithoutColumns(db, Named(tb))
             d == Unreferenced(db, tb)
             e == WithoutColumns(d, {tb} \X Prop)
             J == {r.jt : r \in involved}
  <1>1. /\ rels' = rels \ involved
        /\ db' = [e EXCEPT !.tabs = @ \ {tb}, !.junctions = @ \ J]
        /\ dirty' = IF TakesAnother(tb) THEN dirty + 1 ELSE dirty
    BY DEF DeleteTable
  <1>2. RelInv /\ DbOK(db) /\ RelsOK(rels, db.tabs, nextRel) /\ dirty \in Nat
    BY DEF StoredInv, RelInv
  <1>3. ~TakesAnother(tb) /\ dirty = 0
    BY <1>1, <1>2
  <1>4. DescribedBy(rels, db)
    BY <1>3 DEF StoredInv
  <1>5. d = WithoutColumns(c, Referring(tb))
    BY DEF Unreferenced, Named, Referring
  <1>6. /\ DbOK(c) /\ c.cols = db.cols \ Named(tb) /\ c.junctions = db.junctions
        /\ \A k : k \in c.keys <=> k \in db.keys /\ k.col \notin Named(tb)
    BY <1>2, WithoutIs
  <1> HIDE DEF c, d
  <1>7. /\ DbOK(d) /\ d.cols = c.cols \ Referring(tb) /\ d.junctions = c.junctions
        /\ \A k : k \in d.keys <=> k \in c.keys /\ k.col \notin Referring(tb)
    BY <1>5, <1>6, WithoutIs
  <1>8. /\ DbOK(e) /\ e.cols = d.cols \ ({tb} \X Prop) /\ e.junctions = d.junctions
        /\ \A k : k \in e.keys <=> k \in d.keys /\ k.col \notin {tb} \X Prop
    BY <1>7, WithoutIs
  <1> HIDE DEF e, J
  <1>9. e = [tabs |-> e.tabs, cols |-> e.cols, keys |-> e.keys, junctions |-> e.junctions]
    BY <1>8 DEF DbOK, DbTypes
  <1>10. db' = [tabs |-> e.tabs \ {tb}, cols |-> e.cols, keys |-> e.keys, junctions |-> e.junctions \ J]
    BY <1>1, <1>9
  <1>11. db'.cols = e.cols /\ db'.keys = e.keys /\ db'.junctions = db.junctions \ J
    BY <1>6, <1>7, <1>8, <1>10
  <1>12. \A x : x \in db'.cols <=> x \in db.cols /\ ~Deletes(tb, x)
    BY <1>6, <1>7, <1>8, <1>11 DEF Deletes
  <1>13. \A k : k \in db'.keys <=> k \in db.keys /\ ~Deletes(tb, k.col)
    BY <1>6, <1>7, <1>8, <1>11 DEF Deletes
  <1>14. \A x, y : Linked(db', x, y) <=> Linked(db, x, y) /\ ~Deletes(tb, x)
    BY <1>13 DEF Linked
  <1>15. \A s \in rels : s.type # M2M => (Deletes(tb, Col(s)) <=> s \notin rels')
    <2>1. ASSUME NEW s \in rels, s.type # M2M PROVE Deletes(tb, Col(s)) <=> s \notin rels'
      <3>1. Deletes(tb, Col(s)) <=> tb \in {s.from, s.to}
        BY <1>2, <1>3, <1>4, <2>1, DeletesIs
      <3> QED
        BY <1>1, <3>1
    <2> QED
      BY <2>1
  <1>16. \A r \in rels' : r \in rels
    BY <1>1
  <1>17. /\ \A x : x \in db.cols <=> \E r \in rels : r.type # M2M /\ x = Col(r)
         /\ \A x, y : Linked(db, x, y) <=> \E r \in rels : r.type # M2M /\ x = Col(r) /\ y = To(r)
         /\ \A x : x \in db.junctions <=> \E r \in rels : r.type = M2M /\ x = r.jt
         /\ \A r, s \in rels : r.type # M2M /\ s.type # M2M /\ Col(r) = Col(s) => r = s
         /\ \A r \in rels : r.type = M2M => r.jt = <<r.from, r.prop, r.to>>
    BY <1>4 DEF DescribedBy
  <1>18. ASSUME NEW s \in rels', s.type = M2M PROVE s.jt \notin J
    <2>1. SUFFICES ASSUME NEW r \in rels, r \notin rels', s.jt = r.jt PROVE FALSE
      BY <1>1 DEF J
    <2>2. RowOK(r) /\ RowOK(s) /\ s \in rels
      BY <1>2, <1>16 DEF RelsOK
    <2>3. r.type = M2M
      <3>1. s.jt \in Junction /\ NoJunction \notin Junction
        BY <1>18, <2>2 DEF RowOK, NoJunction, Junction
      <3> QED
        BY <2>1, <2>2, <3>1 DEF RowOK
    <2>4. r.from = s.from /\ r.prop = s.prop
      BY <1>17, <1>18, <2>1, <2>2, <2>3
    <2>5. r = s
      BY <1>2, <2>2, <2>4 DEF RelsOK
    <2> QED
      BY <2>1, <2>5
  <1>19. ASSUME NEW x PROVE x \in db'.junctions <=> \E s \in rels' : s.type = M2M /\ x = s.jt
    <2>1. ASSUME x \in db.junctions, x \notin J PROVE \E s \in rels' : s.type = M2M /\ x = s.jt
      <3>1. PICK s \in rels : s.type = M2M /\ x = s.jt
        BY <1>17, <2>1
      <3>2. s \in rels'
        BY <1>1, <2>1, <3>1 DEF J
      <3> QED
        BY <3>1, <3>2
    <2>2. ASSUME NEW s \in rels', s.type = M2M, x = s.jt PROVE x \in db'.junctions
      BY <1>11, <1>16, <1>17, <1>18, <2>2
    <2> QED
      BY <1>11, <2>1, <2>2
  <1>20. \A x : x \in db'.cols <=> \E r \in rels' : r.type # M2M /\ x = Col(r)
    BY <1>12, <1>15, <1>16, <1>17
  <1>21. \A x, y : Linked(db', x, y) <=> \E r \in rels' : r.type # M2M /\ x = Col(r) /\ y = To(r)
    BY <1>14, <1>15, <1>16, <1>17
  <1> QED
    BY <1>16, <1>17, <1>19, <1>20, <1>21 DEF DescribedBy

(***************************************************************************)
(* After an update that the database can follow it is as the rows say:     *)
(* from FollowedRows through the statements to UpdateDescribes.            *)
(***************************************************************************)
LEMMA UpdateStored ==
    ASSUME StoredInv, NEW tb \in Tab, UpdateTable(tb), dirty' = 0
    PROVE  DescribedBy(rels', db')
  <1> DEFINE Ss(R) == RelStatements(tb, known[tb], R, db)
             D(R) == Prepared(db, Ss(R))
  <1>1. dirty \in Nat /\ dirty + 1 # 0
    BY DEF StoredInv, RelInv
  <1>2. /\ tb \in db.tabs
        /\ \E R \in RelBodies(tb) :
             /\ rels' = Others(tb) \cup R
             /\ \/ dirty' = dirty + 1
                \/ /\ known[tb] # {NoTab} /\ AllPossible(D(R), Ss(R)) = Len(Ss(R))
                   /\ db' = After(D(R), Ss(R))[Len(Ss(R))]
                   /\ dirty' = IF known = Load(rels, db) /\ Follows(tb, R) THEN dirty ELSE dirty + 1
    BY DEF UpdateTable
  <1>3. PICK R \in RelBodies(tb) :
             /\ rels' = Others(tb) \cup R
             /\ known[tb] # {NoTab} /\ AllPossible(D(R), Ss(R)) = Len(Ss(R))
             /\ db' = After(D(R), Ss(R))[Len(Ss(R))]
             /\ known = Load(rels, db) /\ Follows(tb, R) /\ dirty' = dirty
    BY <1>1, <1>2
  <1> DEFINE ss == Ss(R)
             d == D(R)
  <1>4. Following(tb, R)
    BY <1>2, <1>3 DEF Following, StoredInv
  <1>5. /\ ss = RelStatements(tb, known[tb], R, db) /\ d = Prepared(db, ss)
        /\ AllPossible(d, ss) = Len(ss) /\ db' = After(d, ss)[Len(ss)]
    BY <1>3
  <1> HIDE DEF ss, d, Ss, D
  <1>6. Followed(tb, R, db')
    BY <1>4, <1>5, UpdateFollows
  <1> QED
    BY <1>3, <1>4, <1>6, UpdateDescribes

(***************************************************************************)
(* Every step keeps the database as the rows say.                          *)
(***************************************************************************)
LEMMA StoredStep ==
    ASSUME StoredInv, [MigNext]_migVars
    PROVE  StoredInv'
  <1>1. RelInv'
    BY MigStepTyped DEF StoredInv
  <1>2. ASSUME dirty' = 0 PROVE DescribedBy(rels', db')
    <2>1. ASSUME rels' = rels, db' = db, dirty' = dirty PROVE DescribedBy(rels', db')
      BY <1>2, <2>1 DEF StoredInv
    <2>2. CASE UNCHANGED migVars
      BY <2>1, <2>2 DEF migVars
    <2>3. CASE Refresh
      BY <2>1, <2>3 DEF Refresh
    <2>4. ASSUME NEW tb \in Tab, CreateTable(tb) \/ UpdateTable(tb) \/ DeleteTable(tb)
          PROVE  DescribedBy(rels', db')
      BY <1>2, <2>4, CreateStored, UpdateStored, DeleteStored
    <2> QED
      BY <2>2, <2>3, <2>4 DEF MigNext
  <1> QED
    BY <1>1, <1>2 DEF StoredInv

(***************************************************************************)
(* What the invariant says of each column, put as the property has it.     *)
(***************************************************************************)
LEMMA StoredIs ==
    ASSUME StoredInv
    PROVE  StoredAsDescribed
  <1> SUFFICES ASSUME dirty = 0 PROVE StoredAsDescribed
    BY DEF StoredAsDescribed
  <1> DEFINE own == {r \in rels : r.type \in HasColumn}
             other == {r \in rels : r.type = O2M}
             columns == {<<<<r.from, r.prop>>, r.to>> : r \in own}
                        \cup {<<<<r.to, r.inv>>, r.from>> : r \in other}
  <1>1. /\ \A x : x \in db.cols <=> \E r \in rels : r.type # M2M /\ x = Col(r)
        /\ \A x, y : Linked(db, x, y) <=> \E r \in rels : r.type # M2M /\ x = Col(r) /\ y = To(r)
        /\ \A x : x \in db.junctions <=> \E r \in rels : r.type = M2M /\ x = r.jt
    BY DEF StoredInv, DescribedBy
  <1>2. \A r \in rels : r \in Relation
    BY DEF StoredInv, RelInv, RelsOK
  <1>3. \A x : x \in columns <=> \E r \in rels : r.type # M2M /\ x = <<Col(r), To(r)>>
    <2>1. \A r \in own : r \in rels /\ r.type # M2M /\ Col(r) = <<r.from, r.prop>> /\ To(r) = r.to
      BY <1>2, TypesAre
    <2>2. \A r \in other : r \in rels /\ r.type # M2M /\ Col(r) = <<r.to, r.inv>> /\ To(r) = r.from
      BY <1>2, TypesAre
    <2>3. \A r \in rels : r.type # M2M => r \in own \/ r \in other
      BY <1>2, TypesAre
    <2> HIDE DEF own, other
    <2> QED
      BY <2>1, <2>2, <2>3
  <1> HIDE DEF columns
  <1>4. db.cols = {x[1] : x \in columns}
    <2>1. ASSUME NEW x \in db.cols PROVE \E y \in columns : x = y[1]
      <3>1. PICK r \in rels : r.type # M2M /\ x = Col(r)
        BY <1>1
      <3>2. <<Col(r), To(r)>> \in columns /\ <<Col(r), To(r)>>[1] = x
        BY <1>3, <3>1
      <3> QED
        BY <3>2
    <2>2. ASSUME NEW y \in columns PROVE y[1] \in db.cols
      <3>1. PICK r \in rels : r.type # M2M /\ y = <<Col(r), To(r)>>
        BY <1>3
      <3> QED
        BY <1>1, <3>1
    <2> QED
      BY <2>1, <2>2
  <1>5. {<<k.col, k.to>> : k \in db.keys} = columns
    <2>1. \A x, y : <<x, y>> \in columns <=> Linked(db, x, y)
      BY <1>1, <1>3
    <2>2. \A z \in columns : \E x, y : z = <<x, y>>
      BY <1>3
    <2>3. \A k \in db.keys : Linked(db, k.col, k.to)
      BY DEF Linked
    <2>4. ASSUME NEW z \in columns PROVE z \in {<<k.col, k.to>> : k \in db.keys}
      <3>1. PICK x, y : z = <<x, y>>
        BY <2>2
      <3>2. Linked(db, x, y)
        BY <2>1, <3>1
      <3> QED
        BY <3>1, <3>2 DEF Linked
    <2> QED
      BY <2>1, <2>3, <2>4
  <1>6. db.junctions = {r.jt : r \in {s \in rels : s.type = M2M}}
    BY <1>1
  <1> QED
    BY <1>4, <1>5, <1>6 DEF StoredAsDescribed, columns

(***************************************************************************)
(* Relations are stored as their rows say, by a column with a constraint   *)
(* to the right table or by a junction table, and nothing else is left in  *)
(* the database, unless a change failed, named a table by no row of its    *)
(* own or was an update that the code does not follow: for any number of   *)
(* tables, properties and relations, on both databases                     *)
(* (SqlTableHandlerService).                                               *)
(***************************************************************************)
THEOREM RelationsStored == MigSpec => []StoredAsDescribed
  <1>1. MigInit => StoredInv
    <2>1. ASSUME MigInit PROVE StoredInv
      <3>1. RelInv
        BY <2>1, MigInitTyped
      <3>2. rels = {} /\ db.cols = {} /\ db.keys = {} /\ db.junctions = {}
        BY <2>1 DEF MigInit
      <3> QED
        BY <3>1, <3>2 DEF StoredInv, DescribedBy, Linked
    <2> QED
      BY <2>1
  <1>2. StoredInv /\ [MigNext]_migVars => StoredInv'
    BY StoredStep
  <1>3. StoredInv => StoredAsDescribed
    BY StoredIs
  <1> QED
    BY <1>1, <1>2, <1>3, PTL DEF MigSpec

-----------------------------------------------------------------------------
\* The two together, as the run has them.

(***************************************************************************)
(* A step of the two is a step or a stutter of each.                       *)
(***************************************************************************)
LEMMA EitherSteps == [MCNext]_allVars => [Next]_vars /\ [MigNext]_migVars
  <1>1. CASE MCNext
    <2>1. CASE Next /\ UNCHANGED migVars
      BY <2>1
    <2>2. CASE MigNext /\ UNCHANGED vars
      BY <2>2
    <2> QED
      BY <1>1, <2>1, <2>2 DEF MCNext
  <1>2. CASE UNCHANGED allVars
    BY <1>2 DEF allVars
  <1> QED
    BY <1>1, <1>2

(***************************************************************************)
(* Columns and relations, calls and caches have their types, whichever of  *)
(* the two behaves.                                                        *)
(***************************************************************************)
THEOREM BothTyped == MCSpec => []TypesOK
  <1>1. MCInit => Init /\ MigInit
    BY DEF MCInit
  <1>2. [MCNext]_allVars => [Next]_vars /\ [MigNext]_migVars
    BY EitherSteps
  <1>3. TypeOK /\ MigTypeOK => TypesOK
    BY DEF TypesOK
  <1> QED
    BY <1>1, <1>2, <1>3, TablesTyped, MigTyped, PTL DEF MCSpec, Spec, MigSpec
=============================================================================
