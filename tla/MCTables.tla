------------------------------ MODULE MCTables ------------------------------
(***************************************************************************)
(* The SQL table handler: one table and its columns, by two instances, two *)
(* calls on the first and one on the second (TableHandler), and the        *)
(* relations of two tables, by one call after another (RelationMigration). *)
(* A behaviour is one of the two.                                          *)
(***************************************************************************)
EXTENDS TableHandler, MCRelations

CONSTANTS i1, i2, o1, o2, o3, a, b

VARIABLE subject
allVars == <<vars, migVars, subject>>

MCAt == o1 :> i1 @@ o2 :> i1 @@ o3 :> i2

\* Calls of one instance are alike.  So are the column names, and the tables of
\* the relations: a behaviour has one of the two, and both are exchanged at once.
MCSymmetry == Permutations({o1, o2}) \cup
              {(a :> b) @@ (b :> a) @@ exchange : exchange \in RelationSymmetry}

MCInit == subject \in {"columns", "relations"} /\ Init /\ MigInit

MCNext == /\ UNCHANGED subject
          /\ \/ subject = "columns" /\ Next /\ UNCHANGED migVars
             \/ subject = "relations" /\ MigNext /\ UNCHANGED vars

MCSpec == MCInit /\ [][MCNext]_allVars

TypesOK == TypeOK /\ MigTypeOK
=============================================================================
