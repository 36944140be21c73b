----------------------------- MODULE SchemaLock -----------------------------
(***************************************************************************)
(* SchemaMigrationLockService on Postgres and MySQL: an advisory lock of   *)
(* the database, taken and given back by queries of a connection pool.     *)
(* Such a lock belongs to the session that ran the query; the session may  *)
(* take it again, and must give it back as often.  The pool hands out any  *)
(* session of the instance, and not the same one for both queries.         *)
(***************************************************************************)
EXTENDS Naturals, FiniteSets

CONSTANTS Inst,
          Session,   \* connections to the database
          PoolOf,    \* the instance that each one belongs to
          Change,    \* concurrent calls of runWithSchemaLock()
          At,        \* the instance each call runs on
          None,
          MaxDepth,  \* bound on how often the lock is held
          Faults     \* a subset of AllFaults

(***************************************************************************)
(* "query": a query fails.                                                 *)
(* "crash": an instance dies and starts again.                             *)
(* "reap":  a session ends under a running instance: the pool drops it     *)
(*          after 30 s without use, or the connection breaks.              *)
(***************************************************************************)
AllFaults == {"query", "crash", "reap"}

ASSUME LockAssumption ==
    /\ PoolOf \in [Session -> Inst]
    /\ At \in [Change -> Inst]
    /\ IsFiniteSet(Change)
    /\ None \notin Session \cup Change
    /\ MaxDepth \in Nat
    /\ Faults \subseteq AllFaults

VARIABLES holder,   \* the session that holds the advisory lock
          depth,    \* how often it holds it
          row,      \* lockToken of the schema_migration_lock row
          step,     \* where each call is
          upset     \* history: the faults that have happened

vars == <<holder, depth, row, step, upset>>

TypeOK ==
    /\ holder \in Session \cup {None}
    /\ depth \in 0 .. MaxDepth
    /\ holder = None <=> depth = 0
    /\ row \in Change \cup {None}
    /\ step \in [Change -> {"idle", "row", "work", "unlock", "clear"}]
    /\ upset \subseteq Faults

Init ==
    /\ holder = None
    /\ depth = 0
    /\ row = None
    /\ step = [o \in Change |-> "idle"]
    /\ upset = {}

-----------------------------------------------------------------------------
Go(o, from, to) == /\ step[o] = from
                   /\ step' = [step EXCEPT ![o] = to]

Fault(f) == /\ f \in Faults
            /\ upset' = upset \cup {f}

\* A connection of the pool of change o.
PoolSession(o) == {s \in Session : PoolOf[s] = At[o]}

\* Mutation of Acquire: the answer of the database is not looked at.
AcquireAnyway(o) ==
    /\ Go(o, "idle", "row")
    /\ \E s \in PoolSession(o) :
          \/ /\ holder \in {None, s}
             /\ holder' = s
             /\ depth < MaxDepth
             /\ depth' = depth + 1
          \/ holder \notin {None, s} /\ UNCHANGED <<holder, depth>>
    /\ UNCHANGED <<row, upset>>

\* pg_try_advisory_lock() or GET_LOCK(name, 0) succeeds.
Acquire(o) ==
    /\ Go(o, "idle", "row")
    /\ \E s \in PoolSession(o) :
          /\ holder \in {None, s}
          /\ holder' = s
    /\ depth < MaxDepth
    /\ depth' = depth + 1
    /\ UNCHANGED <<row, upset>>

\* setLockRow() says who holds the lock.
SetLockRow(o) ==
    /\ Go(o, "row", "work")
    /\ row' = o
    /\ UNCHANGED <<holder, depth, upset>>

\* It throws out of acquire(): no handle, so nobody gives the lock back.
SetLockRowFails(o) ==
    /\ Fault("query")
    /\ Go(o, "row", "idle")
    /\ UNCHANGED <<holder, depth, row>>

\* The handler returns or throws; release() follows in both cases.
HandlerEnds(o) ==
    /\ Go(o, "work", "unlock")
    /\ UNCHANGED <<holder, depth, row, upset>>

\* pg_advisory_unlock() or RELEASE_LOCK() on whatever session the pool gives:
\* on one that does not hold the lock it answers false, and nobody looks.
Unlock(o) ==
    /\ Go(o, "unlock", "clear")
    /\ \E s \in PoolSession(o) :
          IF holder = s
          THEN /\ holder' = IF depth = 1 THEN None ELSE holder
               /\ depth' = depth - 1
          ELSE UNCHANGED <<holder, depth>>
    /\ UNCHANGED <<row, upset>>

\* The query fails: logged and swallowed.
UnlockFails(o) ==
    /\ Fault("query")
    /\ Go(o, "unlock", "clear")
    /\ UNCHANGED <<holder, depth, row>>

\* The row is cleared if it still carries the token of this call.
ClearLockRow(o) ==
    /\ Go(o, "clear", "idle")
    /\ row' = IF row = o THEN None ELSE row
    /\ UNCHANGED <<holder, depth, upset>>

ClearLockRowFails(o) ==
    /\ Fault("query")
    /\ Go(o, "clear", "idle")
    /\ UNCHANGED <<holder, depth, row>>

\* The database ends session s and with it the lock.
SessionEnds(s) ==
    /\ Fault("reap")
    /\ holder = s
    /\ holder' = None
    /\ depth' = 0
    /\ UNCHANGED <<row, step>>

\* An instance dies: its sessions end, its calls are gone.
Crash(i) ==
    /\ Fault("crash")
    /\ step' = [o \in Change |-> IF At[o] = i THEN "idle" ELSE step[o]]
    /\ IF holder # None /\ PoolOf[holder] = i
       THEN holder' = None /\ depth' = 0
       ELSE UNCHANGED <<holder, depth>>
    /\ UNCHANGED row

Next ==
    \/ \E o \in Change :
          \/ Acquire(o) \/ SetLockRow(o) \/ SetLockRowFails(o) \/ HandlerEnds(o)
          \/ Unlock(o) \/ UnlockFails(o) \/ ClearLockRow(o) \/ ClearLockRowFails(o)
    \/ \E s \in Session : SessionEnds(s)
    \/ \E i \in Inst : Crash(i)

Spec == Init /\ [][Next]_vars

-----------------------------------------------------------------------------
\* The calls between their acquire and their unlock.
Active == {o \in Change : step[o] \in {"row", "work", "unlock"}}

(***************************************************************************)
(* Until a session ends under a running instance, changes of two instances *)
(* never run together, however often a session takes the lock again, an    *)
(* unlock misses it or a query fails.  Changes of one instance may.        *)
(***************************************************************************)
OneInstanceAtATime ==
    "reap" \notin upset => \A o, p \in Active : At[o] = At[p]

(***************************************************************************)
(* The same as a refinement: until such a loss, the lock is the gate that  *)
(* the table handler relies on.                                            *)
(***************************************************************************)
Gate == INSTANCE SchemaGate WITH active <- IF "reap" \in upset THEN {} ELSE Active

KeepsInstancesApart == Gate!GateSpec

(***************************************************************************)
(* Until a query fails or an instance dies, the row names a call that has  *)
(* not returned: what a refused caller is told about the holder is never   *)
(* about a change that is over, even if two changes of one instance share  *)
(* the lock and the second one has overwritten the row of the first.       *)
(***************************************************************************)
RowNamesARunningChange ==
    upset \subseteq {"reap"} /\ row # None =>
       step[row] \in {"work", "unlock", "clear"}

(***************************************************************************)
(* A change is refused with "the schema is being updated, please try again *)
(* later": then some change is under way.                                  *)
(***************************************************************************)
LockedMeansUpdating == holder # None => \E o \in Change : step[o] # "idle"
=============================================================================
