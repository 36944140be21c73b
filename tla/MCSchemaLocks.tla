--------------------------- MODULE MCSchemaLocks ----------------------------
(***************************************************************************)
(* The two locks of schema changes, each with what relies on it: the        *)
(* advisory lock of Postgres and MySQL (SchemaLock), and the document of    *)
(* MongoDB with the handler of its tables (MongoTableHandler).  A server    *)
(* has one of them, and so has a behaviour.                                 *)
(***************************************************************************)
EXTENDS SchemaLock, MongoTableHandler, TLC

CONSTANTS i1, i2, s1, s2, s3, s4, o1, o2, o3, o4

VARIABLE database
allVars == <<vars, mongoVars, database>>

MCPoolOf == s1 :> i1 @@ s2 :> i1 @@ s3 :> i2 @@ s4 :> i2
MCAt == o1 :> i1 @@ o2 :> i1 @@ o3 :> i2 @@ o4 :> i2

\* Calls are alike, and so are the names of columns, and of relations.
MCSymmetry == Permutations(Edit) \cup Permutations(Field) \cup Permutations(Link)

MCInit == database \in {"sql", "mongodb"} /\ Init /\ MongoInit

MCNext == /\ UNCHANGED database
          /\ \/ database = "sql" /\ Next /\ UNCHANGED mongoVars
             \/ database = "mongodb" /\ MongoNext /\ UNCHANGED vars

MCSpec == MCInit /\ [][MCNext]_allVars

TypesOK == TypeOK /\ MongoTypeOK

(* Each lock is its holder's: on SQL changes of two instances never run     *)
(* together and the row never names a change that is over, both up to a     *)
(* loss; on MongoDB a change that is in time has the document until it is    *)
(* done.                                                                    *)
LocksAreKept == OneInstanceAtATime /\ RowNamesARunningChange /\ LockIsKept
=============================================================================
