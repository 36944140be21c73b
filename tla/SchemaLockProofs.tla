-------------------------- MODULE SchemaLockProofs --------------------------
(***************************************************************************)
(* Theorems about SchemaLock, for all instances, sessions, calls, bounds   *)
(* and faults, about MongoTableHandler, for all calls, names and bounds,   *)
(* and about both locks as a server has one of them (MCSchemaLocks).       *)
(*                                                                         *)
(* That changes of two instances never run together is not inductive: a    *)
(* change must be under the lock of its own instance (HeldByItsInstance),  *)
(* and an unlock must not take the lock from a second change of the same   *)
(* instance.  It does not, because the session holds the lock at least as  *)
(* often as there are changes under it (HeldOftenEnough).                  *)
(***************************************************************************)
EXTENDS MCSchemaLocks, FiniteSetTheorems, FunctionTheorems, SequenceTheorems, TLAPS

HeldByItsInstance ==
    "reap" \notin upset =>
       \A o \in Active : holder # None /\ PoolOf[holder] = At[o]

HeldOftenEnough == "reap" \notin upset => Cardinality(Active) <= depth

Inv == TypeOK /\ HeldByItsInstance /\ HeldOftenEnough

-----------------------------------------------------------------------------
LEMMA ActiveIsFinite ==
    /\ IsFiniteSet(Active)
    /\ Cardinality(Active) \in Nat
    /\ Cardinality(Active) = 0 <=> Active = {}
<1>1. Active \subseteq Change
  BY DEF Active
<1>2. IsFiniteSet(Active)
  BY <1>1, FS_Subset, LockAssumption
<1> QED BY <1>2, FS_CardinalityType, FS_EmptySet

LEMMA ActiveIsFiniteNext ==
    /\ IsFiniteSet(Active')
    /\ Cardinality(Active') \in Nat
    /\ Cardinality(Active') = 0 <=> Active' = {}
<1>1. Active' \subseteq Change
  BY DEF Active
<1>2. IsFiniteSet(Active')
  BY <1>1, FS_Subset, LockAssumption
<1> QED BY <1>2, FS_CardinalityType, FS_EmptySet

\* What a step of one call does to the set of those under the lock.
LEMMA Entering ==
    ASSUME TypeOK, NEW o \in Change, Go(o, "idle", "row")
    PROVE  /\ Active' = Active \cup {o}
           /\ Cardinality(Active') = Cardinality(Active) + 1
<1>1. Active' = Active \cup {o} /\ o \notin Active
  BY DEF TypeOK, Go, Active
<1> QED BY <1>1, ActiveIsFinite, FS_AddElement

LEMMA Leaving ==
    ASSUME TypeOK, NEW o \in Change, NEW to \in {"idle", "clear"},
           Go(o, "row", to) \/ Go(o, "unlock", to)
    PROVE  /\ Active' = Active \ {o}
           /\ o \in Active
           /\ Cardinality(Active') = Cardinality(Active) - 1
<1>1. Active' = Active \ {o} /\ o \in Active
  BY DEF TypeOK, Go, Active
<1> QED BY <1>1, ActiveIsFinite, FS_RemoveElement

LEMMA Staying ==
    ASSUME TypeOK, NEW o \in Change,
           \/ Go(o, "row", "work") \/ Go(o, "work", "unlock") \/ Go(o, "clear", "idle")
    PROVE  Active' = Active
  BY DEF TypeOK, Go, Active

-----------------------------------------------------------------------------
LEMMA InitInv == Init => Inv
<1> SUFFICES ASSUME Init PROVE Inv
  OBVIOUS
<1>1. TypeOK
  BY LockAssumption DEF Init, TypeOK
<1>2. Active = {}
  BY DEF Init, Active
<1> QED BY <1>1, <1>2, ActiveIsFinite
        DEF Init, Inv, HeldByItsInstance, HeldOftenEnough

LEMMA NextTypeOK == TypeOK /\ [Next]_vars => TypeOK'
<1> SUFFICES ASSUME TypeOK, [Next]_vars PROVE TypeOK'
  OBVIOUS
<1> USE LockAssumption DEF TypeOK
<1>1. ASSUME NEW o \in Change, Acquire(o) PROVE TypeOK'
  BY <1>1 DEF Acquire, Go, PoolSession
<1>2. ASSUME NEW o \in Change, SetLockRow(o) PROVE TypeOK'
  BY <1>2 DEF SetLockRow, Go
<1>3. ASSUME NEW o \in Change, SetLockRowFails(o) PROVE TypeOK'
  BY <1>3 DEF SetLockRowFails, Go, Fault
<1>4. ASSUME NEW o \in Change, HandlerEnds(o) PROVE TypeOK'
  BY <1>4 DEF HandlerEnds, Go
<1>5. ASSUME NEW o \in Change, Unlock(o) PROVE TypeOK'
  BY <1>5 DEF Unlock, Go, PoolSession
<1>6. ASSUME NEW o \in Change, UnlockFails(o) PROVE TypeOK'
  BY <1>6 DEF UnlockFails, Go, Fault
<1>7. ASSUME NEW o \in Change, ClearLockRow(o) PROVE TypeOK'
  BY <1>7 DEF ClearLockRow, Go
<1>8. ASSUME NEW o \in Change, ClearLockRowFails(o) PROVE TypeOK'
  BY <1>8 DEF ClearLockRowFails, Go, Fault
<1>9. ASSUME NEW s \in Session, SessionEnds(s) PROVE TypeOK'
  BY <1>9 DEF SessionEnds, Fault
<1>10. ASSUME NEW i \in Inst, Crash(i) PROVE TypeOK'
  BY <1>10 DEF Crash, Fault
<1>11. CASE UNCHANGED vars
  BY <1>11 DEF vars
<1> QED BY <1>1, <1>2, <1>3, <1>4, <1>5, <1>6, <1>7, <1>8, <1>9, <1>10, <1>11 DEF Next

\* Steps that leave the lock and the calls under it alone.
LEMMA KeepsHolding ==
    ASSUME Inv, UNCHANGED <<holder, depth>>, upset \subseteq upset',
           Active' \subseteq Active, Cardinality(Active') <= Cardinality(Active)
    PROVE  HeldByItsInstance' /\ HeldOftenEnough'
<1>1. HeldByItsInstance'
  BY DEF Inv, HeldByItsInstance
<1>2. HeldOftenEnough'
  <2> SUFFICES ASSUME "reap" \notin upset' PROVE Cardinality(Active') <= depth'
    BY DEF HeldOftenEnough
  <2>1. Cardinality(Active) <= depth
    BY DEF Inv, HeldOftenEnough
  <2>2. depth \in Nat
    BY LockAssumption DEF Inv, TypeOK
  <2> QED BY <2>1, <2>2, ActiveIsFinite, ActiveIsFiniteNext
<1> QED BY <1>1, <1>2

LEMMA NextInv == Inv /\ [Next]_vars => Inv'
<1> SUFFICES ASSUME Inv, [Next]_vars PROVE HeldByItsInstance' /\ HeldOftenEnough'
  BY NextTypeOK DEF Inv
<1>0. TypeOK
  BY DEF Inv
<1>1. ASSUME NEW o \in Change, Acquire(o) PROVE HeldByItsInstance' /\ HeldOftenEnough'
  <2>1. PICK s \in PoolSession(o) : holder \in {None, s} /\ holder' = s
    BY <1>1 DEF Acquire
  <2>2. /\ Active' = Active \cup {o}
        /\ Cardinality(Active') = Cardinality(Active) + 1
    BY <1>0, <1>1, Entering DEF Acquire
  <2>3. holder' # None /\ PoolOf[holder'] = At[o]
    BY <2>1, LockAssumption DEF PoolSession
  <2>4. HeldByItsInstance'
    BY <1>1, <2>1, <2>2, <2>3 DEF Inv, HeldByItsInstance, Acquire, PoolSession
  <2>5. HeldOftenEnough'
    BY <1>0, <1>1, <2>2, ActiveIsFinite, LockAssumption
    DEF Inv, HeldOftenEnough, TypeOK, Acquire
  <2> QED BY <2>4, <2>5
<1>2. ASSUME NEW o \in Change, SetLockRow(o) PROVE HeldByItsInstance' /\ HeldOftenEnough'
  <2>1. Active' = Active
    BY <1>0, <1>2, Staying DEF SetLockRow
  <2> QED BY <1>2, <2>1, ActiveIsFinite, KeepsHolding DEF SetLockRow
<1>3. ASSUME NEW o \in Change, SetLockRowFails(o) PROVE HeldByItsInstance' /\ HeldOftenEnough'
  <2>1. /\ Active' = Active \ {o}
        /\ Cardinality(Active') = Cardinality(Active) - 1
    BY <1>0, <1>3, Leaving DEF SetLockRowFails
  <2> QED BY <1>3, <2>1, ActiveIsFinite, KeepsHolding DEF SetLockRowFails, Fault
<1>4. ASSUME NEW o \in Change, HandlerEnds(o) PROVE HeldByItsInstance' /\ HeldOftenEnough'
  <2>1. Active' = Active
    BY <1>0, <1>4, Staying DEF HandlerEnds
  <2> QED BY <1>4, <2>1, ActiveIsFinite, KeepsHolding DEF HandlerEnds
<1>5. ASSUME NEW o \in Change, Unlock(o) PROVE HeldByItsInstance' /\ HeldOftenEnough'
  <2>1. /\ Active' = Active \ {o}
        /\ Cardinality(Active') = Cardinality(Active) - 1
    BY <1>0, <1>5, Leaving DEF Unlock
  <2>2. CASE UNCHANGED <<holder, depth>>
    BY <1>5, <2>1, <2>2, ActiveIsFinite, KeepsHolding DEF Unlock
  <2>3. CASE /\ holder # None
             /\ holder' = IF depth = 1 THEN None ELSE holder
             /\ depth' = depth - 1
    <3>1. HeldOftenEnough'
      BY <1>0, <1>5, <2>1, <2>3, ActiveIsFinite, LockAssumption
      DEF Inv, HeldOftenEnough, TypeOK, Unlock
    <3>2. CASE depth = 1
      <4>1. "reap" \notin upset' => Active' = {}
        BY <2>3, <3>1, <3>2, ActiveIsFiniteNext DEF HeldOftenEnough
      <4> QED BY <3>1, <4>1 DEF HeldByItsInstance
    <3>3. CASE depth # 1
      BY <1>5, <2>1, <2>3, <3>1, <3>3 DEF Inv, HeldByItsInstance, Unlock
    <3> QED BY <3>2, <3>3
  <2> QED BY <1>5, <2>2, <2>3, LockAssumption DEF Unlock, PoolSession
<1>6. ASSUME NEW o \in Change, UnlockFails(o) PROVE HeldByItsInstance' /\ HeldOftenEnough'
  <2>1. /\ Active' = Active \ {o}
        /\ Cardinality(Active') = Cardinality(Active) - 1
    BY <1>0, <1>6, Leaving DEF UnlockFails
  <2> QED BY <1>6, <2>1, ActiveIsFinite, KeepsHolding DEF UnlockFails, Fault
<1>7. ASSUME NEW o \in Change, ClearLockRow(o) PROVE HeldByItsInstance' /\ HeldOftenEnough'
  <2>1. Active' = Active
    BY <1>0, <1>7, Staying DEF ClearLockRow
  <2> QED BY <1>7, <2>1, ActiveIsFinite, KeepsHolding DEF ClearLockRow
<1>8. ASSUME NEW o \in Change, ClearLockRowFails(o) PROVE HeldByItsInstance' /\ HeldOftenEnough'
  <2>1. Active' = Active
    BY <1>0, <1>8, Staying DEF ClearLockRowFails
  <2> QED BY <1>8, <2>1, ActiveIsFinite, KeepsHolding DEF ClearLockRowFails, Fault
<1>9. ASSUME NEW s \in Session, SessionEnds(s) PROVE HeldByItsInstance' /\ HeldOftenEnough'
  BY <1>9 DEF SessionEnds, Fault, HeldByItsInstance, HeldOftenEnough
<1>10. ASSUME NEW i \in Inst, Crash(i) PROVE HeldByItsInstance' /\ HeldOftenEnough'
  <2>1. Active' = {o \in Active : At[o] # i}
    BY <1>0, <1>10 DEF Crash, Active, TypeOK
  <2>2. CASE holder # None /\ PoolOf[holder] = i
    <3>1. "reap" \notin upset' => Active' = {}
      BY <1>10, <2>1, <2>2 DEF Crash, Fault, Inv, HeldByItsInstance
    <3> QED BY <1>10, <2>2, <3>1, ActiveIsFiniteNext
            DEF Crash, HeldByItsInstance, HeldOftenEnough
  <2>3. CASE ~(holder # None /\ PoolOf[holder] = i)
    <3>1. Active' \subseteq Active
      BY <2>1
    <3>2. Cardinality(Active') <= Cardinality(Active)
      BY <3>1, ActiveIsFinite, FS_Subset
    <3> QED BY <1>10, <2>3, <3>1, <3>2, KeepsHolding DEF Crash, Fault
  <2> QED BY <2>2, <2>3
<1>11. CASE UNCHANGED vars
  <2>1. Active' = Active
    BY <1>11 DEF vars, Active
  <2> QED BY <1>11, <2>1, ActiveIsFinite, KeepsHolding DEF vars
<1> QED BY <1>1, <1>2, <1>3, <1>4, <1>5, <1>6, <1>7, <1>8, <1>9, <1>10, <1>11 DEF Next

LEMMA AlwaysInv == Spec => []Inv
  BY InitInv, NextInv, PTL DEF Spec

-----------------------------------------------------------------------------
(***************************************************************************)
(* Every variable keeps its type; the lock is held by a session exactly    *)
(* if it is held at least once.                                            *)
(***************************************************************************)
THEOREM LockTypeCorrect == Spec => []TypeOK
<1>1. Inv => TypeOK
  BY DEF Inv
<1> QED BY <1>1, AlwaysInv, PTL

(***************************************************************************)
(* Until a session ends under a running instance, the calls that           *)
(* runWithSchemaLock() has let in are all of one instance.                 *)
(***************************************************************************)
THEOREM ChangesOfOneInstance == Spec => []OneInstanceAtATime
<1>1. Inv => OneInstanceAtATime
  BY DEF Inv, HeldByItsInstance, OneInstanceAtATime
<1> QED BY <1>1, AlwaysInv, PTL

-----------------------------------------------------------------------------
LEMMA InitIsGate == Init => Gate!GateInit
  BY DEF Init, Gate!GateInit, Active

\* A step after which some call that was under the lock is not.
LEMMA LeavingIsGate ==
    ASSUME upset \subseteq upset', Active' \subseteq Active
    PROVE  [Gate!GateNext]_(IF "reap" \in upset THEN {} ELSE Active)
<1> DEFINE A == IF "reap" \in upset THEN {} ELSE Active
<1>1. A \subseteq Change /\ A' \subseteq A
  BY DEF Active
<1>2. Gate!Leave(A \ A')
  BY <1>1 DEF Gate!Leave
<1>3. A \ A' \in SUBSET Change
  BY <1>1
<1> QED BY <1>2, <1>3 DEF Gate!GateNext

LEMMA NextIsGate ==
    Inv /\ [Next]_vars => [Gate!GateNext]_(IF "reap" \in upset THEN {} ELSE Active)
<1> SUFFICES ASSUME Inv, [Next]_vars
             PROVE  [Gate!GateNext]_(IF "reap" \in upset THEN {} ELSE Active)
  OBVIOUS
<1>0. TypeOK
  BY DEF Inv
<1>1. ASSUME NEW o \in Change, Acquire(o)
      PROVE  [Gate!GateNext]_(IF "reap" \in upset THEN {} ELSE Active)
  <2>1. PICK s \in PoolSession(o) : holder \in {None, s}
    BY <1>1 DEF Acquire
  <2>2. Active' = Active \cup {o} /\ o \notin Active /\ upset' = upset
    BY <1>0, <1>1 DEF TypeOK, Acquire, Go, Active
  <2>3. CASE "reap" \in upset
    BY <2>2, <2>3
  <2>4. CASE "reap" \notin upset
    <3>1. \A p \in Active : At[p] = At[o]
      BY <2>1, <2>4 DEF Inv, HeldByItsInstance, PoolSession
    <3>2. Gate!Enter(o)
      BY <2>2, <2>4, <3>1 DEF Gate!Enter
    <3> QED BY <3>2 DEF Gate!GateNext
  <2> QED BY <2>3, <2>4
<1>2. ASSUME NEW o \in Change, ~Acquire(o),
             \/ SetLockRow(o) \/ SetLockRowFails(o) \/ HandlerEnds(o) \/ Unlock(o)
             \/ UnlockFails(o) \/ ClearLockRow(o) \/ ClearLockRowFails(o)
      PROVE  Active' \subseteq Active /\ upset \subseteq upset'
  <2>1. Active' \subseteq Active
    BY <1>0, <1>2 DEF TypeOK, Go, Active, SetLockRow, SetLockRowFails, HandlerEnds,
       Unlock, UnlockFails, ClearLockRow, ClearLockRowFails
  <2>2. upset \subseteq upset'
    BY <1>2 DEF Fault, SetLockRow, SetLockRowFails, HandlerEnds,
       Unlock, UnlockFails, ClearLockRow, ClearLockRowFails
  <2> QED BY <2>1, <2>2
<1>3. ASSUME NEW s \in Session, SessionEnds(s)
      PROVE  Active' \subseteq Active /\ upset \subseteq upset'
  BY <1>3 DEF SessionEnds, Fault, Active
<1>4. ASSUME NEW i \in Inst, Crash(i)
      PROVE  Active' \subseteq Active /\ upset \subseteq upset'
  BY <1>0, <1>4 DEF Crash, Fault, Active, TypeOK
<1>5. CASE UNCHANGED vars
  BY <1>5 DEF vars, Active
<1> QED BY <1>1, <1>2, <1>3, <1>4, <1>5, LeavingIsGate DEF Next

(***************************************************************************)
(* Until a session ends under a running instance, the advisory lock is the *)
(* gate of SchemaGate, which TableHandler takes the lock to be.            *)
(***************************************************************************)
THEOREM LockImplementsGate == Spec => KeepsInstancesApart
  BY InitIsGate, NextIsGate, AlwaysInv, PTL DEF Spec, KeepsInstancesApart, Gate!GateSpec

-----------------------------------------------------------------------------
\* The row of the lock.

LEMMA InitRow == Init => RowNamesARunningChange
  BY DEF Init, RowNamesARunningChange

LEMMA NextRow ==
    TypeOK /\ RowNamesARunningChange /\ [Next]_vars => RowNamesARunningChange'
<1> SUFFICES ASSUME TypeOK, RowNamesARunningChange, [Next]_vars,
                    upset' \subseteq {"reap"}, row' # None
             PROVE  step'[row'] \in {"work", "unlock", "clear"}
  BY DEF RowNamesARunningChange
<1> USE LockAssumption DEF TypeOK, RowNamesARunningChange
<1>1. ASSUME NEW o \in Change, Acquire(o) PROVE step'[row'] \in {"work", "unlock", "clear"}
  BY <1>1 DEF Acquire, Go
<1>2. ASSUME NEW o \in Change, SetLockRow(o) PROVE step'[row'] \in {"work", "unlock", "clear"}
  BY <1>2 DEF SetLockRow, Go
<1>3. ASSUME NEW o \in Change, HandlerEnds(o) PROVE step'[row'] \in {"work", "unlock", "clear"}
  BY <1>3 DEF HandlerEnds, Go
<1>4. ASSUME NEW o \in Change, Unlock(o) PROVE step'[row'] \in {"work", "unlock", "clear"}
  BY <1>4 DEF Unlock, Go
<1>5. ASSUME NEW o \in Change, ClearLockRow(o) PROVE step'[row'] \in {"work", "unlock", "clear"}
  BY <1>5 DEF ClearLockRow, Go
<1>6. ASSUME NEW s \in Session, SessionEnds(s) PROVE step'[row'] \in {"work", "unlock", "clear"}
  BY <1>6 DEF SessionEnds, Fault
<1>7. ASSUME NEW o \in Change, SetLockRowFails(o) \/ UnlockFails(o) \/ ClearLockRowFails(o)
      PROVE  FALSE
  BY <1>7 DEF SetLockRowFails, UnlockFails, ClearLockRowFails, Fault
<1>8. ASSUME NEW i \in Inst, Crash(i) PROVE FALSE
  BY <1>8 DEF Crash, Fault
<1>9. CASE UNCHANGED vars
  BY <1>9 DEF vars
<1> QED BY <1>1, <1>2, <1>3, <1>4, <1>5, <1>6, <1>7, <1>8, <1>9 DEF Next

-----------------------------------------------------------------------------
(***************************************************************************)
(* MongoDB.  That a change in time has the lock is not inductive: its lock *)
(* must not have expired (InTimeHolds).  That the collection is as         *)
(* described is about moments when nothing is under way; in between, the   *)
(* invariant says of each step of a change what has been done and what has *)
(* not (PhaseOf), and of the renames that are still to be done that they   *)
(* go to fields of their own (RenamesApart).  Both hold as long as nothing *)
(* has gone wrong (Consistent): then the lock is held exactly by the one   *)
(* change under way (OneAtATime).                                          *)
(***************************************************************************)
\* The lock of a change that is in its time has not expired.
InTimeHolds ==
    \A o \in Edit : (edit[o].at \in Holding /\ ~edit[o].over) =>
                       lockDoc.holder = o /\ ~lockDoc.expired

\* Ids are given out once.
IdsAreOld ==
    /\ rows.table <= keys
    /\ \A x \in rows.columns \cup rows.links : x.id <= keys /\ x.of <= keys

\* Steps of a change that knows the id of its table.
Tabled == {"drop", "columns", "coll"}

\* A body names nothing twice; its rows were there once.
Sensible(o) ==
    /\ \A c, d \in edit[o].body.columns : c.name = d.name \/ (c.id = d.id /\ c.id # 0) => c = d
    /\ \A c, d \in edit[o].body.links : c.name = d.name \/ (c.id = d.id /\ c.id # 0) => c = d
    /\ \A c \in edit[o].body.columns \cup edit[o].body.links : c.id <= keys
    /\ IsFiniteSet(edit[o].body.columns) /\ IsFiniteSet(edit[o].body.links)
    /\ edit[o].todo \subseteq edit[o].body.columns
    /\ edit[o].table <= keys /\ (edit[o].kind # "create" => edit[o].table # 0)
    /\ edit[o].at \in Tabled => edit[o].table # 0
    /\ IsFiniteSet(edit[o].old)

BodiesAreSensible ==
    /\ IsFiniteSet(rows.columns) /\ IsFiniteSet(rows.links)
    /\ \A o \in Edit : Sensible(o)

\* Without a mishap the lock is exactly that of the one change under way.
OneAtATime ==
    /\ ~lockDoc.expired
    /\ \A o \in Edit : edit[o].at \in Holding <=> lockDoc.holder = o

Pending(n) == \E i \in DOMAIN renames : renames[i].old = n

\* The field n holds what is to move to another one.
OnTheMove(n, name) ==
    \E i \in DOMAIN renames :
       renames[i].old = n /\ renames[i].id = coll.data[n] /\ renames[i].new = name

\* The field n is, or is to be, the one of that name.
Placed(n, name) == (name = n /\ ~Pending(n)) \/ OnTheMove(n, name)

RenamesApart ==
    \A i, j \in DOMAIN renames : /\ renames[i].new # renames[j].old
                                 /\ renames[i].old = renames[j].old => i = j

OwnColumns == \A x \in rows.columns : x.of = rows.table
NamesDiffer == \A x, y \in rows.columns : x.name = y.name => x = y
MadeWithTable == coll.made <=> rows.table # 0

LinksDescribed ==
    \A n \in Link : coll.data[n] # 0 =>
       \E x \in LinksOf(rows.table) : x.name = n /\ x.id = coll.data[n]

FieldsDescribed ==
    \A n \in Field : coll.data[n] # 0 =>
       \E x \in rows.columns : x.id = coll.data[n] /\ Placed(n, x.name)

AsDescribed == OwnColumns /\ NamesDiffer /\ FieldsDescribed /\ LinksDescribed /\ RenamesApart

\* Between changes.
Settled == AsDescribed /\ MadeWithTable /\ coll.validator = Names(rows.columns)

\* While columns are written.
RowsFollow(o) ==
    \A x \in rows.columns : \E c \in edit[o].body.columns :
       \/ c.id = x.id /\ (c \in edit[o].todo \/ c.name = x.name)
       \/ c.id = 0 /\ c \notin edit[o].todo /\ c.name = x.name /\ x.id \notin Ids(edit[o].body.columns)

NewDiffer(o) ==
    \A x, y \in rows.columns :
       x.name = y.name /\ {x.id, y.id} \cap Ids(edit[o].body.columns) = {} => x = y

FieldsFollow(o) ==
    \A n \in Field : coll.data[n] # 0 =>
       \E c \in edit[o].body.columns, x \in rows.columns :
          c.id = coll.data[n] /\ x.id = c.id /\ Placed(n, c.name)

Fresh == ~coll.made /\ coll.validator = {} /\ \A n \in Field \cup Link : coll.data[n] = 0

\* Where the change o is, which has the lock.
PhaseOf(o) ==
    /\ edit[o].at = "release" => Settled
    /\ edit[o].at # "release" /\ edit[o].kind # "update" => renames = <<>>
    /\ edit[o].at = "begin" => Settled /\ renames = <<>>
    /\ edit[o].at \in {"drop", "columns", "coll", "unlist"} => rows.table = edit[o].table
    /\ edit[o].at \in {"drop", "columns", "coll"} => rows.table # 0 /\ OwnColumns /\ edit[o].kind # "delete"
    /\ edit[o].at = "drop" => /\ edit[o].kind = "update" /\ coll.made /\ renames = <<>>
                              /\ AsDescribed /\ edit[o].old = rows.columns
    /\ edit[o].at = "columns" => RowsFollow(o) /\ NewDiffer(o)
    /\ edit[o].at = "coll" => NamesDiffer
    /\ edit[o].at \in {"columns", "coll"} /\ edit[o].kind = "create" => Fresh
    /\ edit[o].at \in {"columns", "coll"} /\ edit[o].kind = "update" =>
         coll.made /\ RenamesApart /\ LinksDescribed
    /\ edit[o].at = "columns" /\ edit[o].kind = "update" => FieldsFollow(o)
    /\ edit[o].at = "coll" /\ edit[o].kind = "update" => FieldsDescribed
    /\ edit[o].at = "unlist" => Settled /\ edit[o].kind = "delete"
    /\ edit[o].at = "remove" => /\ rows.columns = {} /\ rows.table \in {0, edit[o].table}
                                /\ edit[o].kind = "delete"

Consistent ==
    ~untidy => /\ OneAtATime
               /\ lockDoc.holder = NoEdit => Settled
               /\ \A o \in Edit : lockDoc.holder = o => PhaseOf(o)

MongoInv == MongoTypeOK /\ InTimeHolds /\ IdsAreOld /\ BodiesAreSensible /\ Consistent
LEMMA Bounds == {0, MaxKey, MaxEdits, MaxMishaps} \subseteq Nat
  BY MongoAssumption

\* A call's new state.
LEMMA Stepping ==
    ASSUME MongoTypeOK, NEW o \in Edit, NEW e \in EditState, Step(o, e)
    PROVE  /\ edit' \in [Edit -> EditState]
           /\ edit'[o] = e
           /\ \A p \in Edit : p # o => edit'[p] = edit[p]
  BY DEF MongoTypeOK, Step

LEMMA Going ==
    ASSUME MongoTypeOK, NEW o \in Edit, NEW s \in Steps, To(o, s)
    PROVE  /\ edit' \in [Edit -> EditState]
           /\ edit'[o] = [edit[o] EXCEPT !.at = s]
           /\ \A p \in Edit : p # o => edit'[p] = edit[p]
<1>0. edit[o] \in EditState
  BY DEF MongoTypeOK
<1>1. [edit[o] EXCEPT !.at = s] \in EditState
  BY <1>0 DEF EditState
<1> QED BY <1>1, Stepping DEF To

LEMMA RestingType == Resting \in EditState
  BY MongoAssumption DEF Resting, EditState, NoBody, Steps

\* Bodies that Sent() allows.
LEMMA SentIsSensible ==
    ASSUME NEW S, NEW N, NEW K \in Sent(S, N), NEW m \in Nat,
           IsFiniteSet(S), S \subseteq [id : 1 .. m, name : N, of : 1 .. m],
           \A x, y \in S : x.id = y.id => x = y
    PROVE  /\ K \subseteq [id : 0 .. m, name : N] /\ IsFiniteSet(K)
           /\ \A c, d \in K : c.name = d.name \/ (c.id = d.id /\ c.id # 0) => c = d
<1>1. PICK J, I :
         /\ J \in SUBSET Kept(S)
         /\ I = J \/ \E x \in J, n \in N : I = (J \ {x}) \cup {[x EXCEPT !.name = n]}
         /\ K = I \/ \E n \in N : K = I \cup {[id |-> 0, name |-> n]}
  <2>1. PICK I : /\ I \in UNION {{L} \cup OneRenamed(L, N) : L \in SUBSET Kept(S)}
                 /\ K \in {I} \cup OneMore(I, N)
    BY DEF Sent
  <2>2. PICK J \in SUBSET Kept(S) : I \in {J} \cup OneRenamed(J, N)
    BY <2>1
  <2>3. I = J \/ \E x \in J, n \in N : I = (J \ {x}) \cup {[x EXCEPT !.name = n]}
    BY <2>2 DEF OneRenamed
  <2>4. K = I \/ \E n \in N : K = I \cup {[id |-> 0, name |-> n]}
    BY <2>1 DEF OneMore
  <2> QED BY <2>3, <2>4
<1>2. \A x, y \in K : x.name = y.name => x = y
  BY DEF Sent
<1>3. IsFiniteSet(Kept(S))
  <2> DEFINE f == [x \in S |-> [id |-> x.id, name |-> x.name]]
  <2>1. f \in Surjection(S, Kept(S))
    BY DEF Surjection, Kept
  <2> QED BY <2>1, FS_Surjection
<1>4. J \subseteq Kept(S) /\ IsFiniteSet(J)
  BY <1>1, <1>3, FS_Subset
<1>5. IsFiniteSet(I)
  <2>1. ASSUME NEW x \in J, NEW n \in N, I = (J \ {x}) \cup {[x EXCEPT !.name = n]}
        PROVE  IsFiniteSet(I)
    BY <1>4, <2>1, FS_RemoveElement, FS_AddElement
  <2> QED BY <1>1, <1>4, <2>1
<1>6. IsFiniteSet(K)
  <2>1. ASSUME NEW n \in N, K = I \cup {[id |-> 0, name |-> n]}
        PROVE  IsFiniteSet(K)
    BY <1>5, <2>1, FS_AddElement
  <2> QED BY <1>1, <1>5, <2>1
<1>7. Kept(S) \subseteq [id : 1 .. m, name : N]
  BY DEF Kept
<1>8. \A x, y \in Kept(S) : x.id = y.id => x = y
  BY DEF Kept
<1>9. I \subseteq [id : 1 .. m, name : N] /\ \A x, y \in I : x.id = y.id => x = y
  <2>1. ASSUME NEW x \in J, NEW n \in N, I = (J \ {x}) \cup {[x EXCEPT !.name = n]}
        PROVE  <1>9!1
    <3>1. x \in [id : 1 .. m, name : N]
      BY <1>4, <1>7
    <3>2. [x EXCEPT !.name = n] \in [id : 1 .. m, name : N] /\ [x EXCEPT !.name = n].id = x.id
      BY <3>1
    <3>3. J \subseteq [id : 1 .. m, name : N] /\ \A z, y \in J : z.id = y.id => z = y
      BY <1>4, <1>7, <1>8
    <3> HIDE <1>7, <1>8
    <3> QED BY <2>1, <3>2, <3>3
  <2> QED BY <1>1, <1>4, <1>7, <1>8, <2>1
<1>10. K \subseteq [id : 0 .. m, name : N] /\ \A x, y \in K : x.id = y.id /\ x.id # 0 => x = y
  <2>1. ASSUME NEW n \in N, K = I \cup {[id |-> 0, name |-> n]}
        PROVE  <1>10!1
    BY <1>9, <2>1
  <2> QED BY <1>1, <1>9, <2>1
<1> QED BY <1>2, <1>6, <1>10

-----------------------------------------------------------------------------
\* What the others' states say stays so.
LEMMA InTimeKept ==
    ASSUME InTimeHolds, NEW o \in Edit, UNCHANGED lockDoc,
           \A p \in Edit : p # o => edit'[p] = edit[p],
           edit'[o].at \in Holding => edit[o].at \in Holding,
           edit[o].over => edit'[o].over
    PROVE  InTimeHolds'
  BY DEF InTimeHolds

LEMMA SensibleKept ==
    ASSUME NEW o \in Edit, Sensible(o), edit'[o] = edit[o],
           MongoTypeOK, keys' \in Nat, keys <= keys'
    PROVE  Sensible(o)'
<1>1. /\ \A c \in edit[o].body.columns \cup edit[o].body.links : c.id \in Nat
      /\ edit[o].table \in Nat /\ keys \in Nat
  <2>1. edit[o] \in EditState /\ keys \in 0 .. MaxKey
    BY DEF MongoTypeOK
  <2> QED BY <2>1, MongoAssumption DEF EditState, SentColumn, SentLink
<1>2. \A c \in edit[o].body.columns \cup edit[o].body.links : c.id <= keys'
  BY <1>1 DEF Sensible
<1>3. edit[o].table <= keys'
  BY <1>1 DEF Sensible
<1> QED BY <1>2, <1>3 DEF Sensible

LEMMA BodiesKept ==
    ASSUME BodiesAreSensible, MongoTypeOK, NEW o \in Edit, edit' \in [Edit -> EditState],
           \A p \in Edit : p # o => edit'[p] = edit[p],
           keys' \in Nat, keys <= keys',
           edit'[o].body = edit[o].body, edit'[o].kind = edit[o].kind,
           edit'[o].todo \subseteq edit[o].body.columns,
           edit'[o].table = edit[o].table \/ (edit'[o].table <= keys' /\ edit'[o].table # 0),
           edit'[o].at \in Tabled => edit'[o].table # 0,
           IsFiniteSet(edit'[o].old), IsFiniteSet(rows'.columns), IsFiniteSet(rows'.links)
    PROVE  BodiesAreSensible'
<1>1. \A p \in Edit : p # o => Sensible(p)'
  BY SensibleKept DEF BodiesAreSensible
<1>2. Sensible(o)
  BY DEF BodiesAreSensible
<1>3. /\ \A c \in edit[o].body.columns \cup edit[o].body.links : c.id \in Nat
      /\ edit[o].table \in Nat /\ keys \in Nat
  <2>1. edit[o] \in EditState /\ keys \in 0 .. MaxKey
    BY DEF MongoTypeOK
  <2> QED BY <2>1, MongoAssumption DEF EditState, SentColumn, SentLink
<1>4. \A c \in edit[o].body.columns \cup edit[o].body.links : c.id <= keys'
  BY <1>2, <1>3 DEF Sensible
<1>5. edit'[o].table <= keys' /\ (edit[o].kind # "create" => edit'[o].table # 0)
  BY <1>2, <1>3 DEF Sensible
<1>6. Sensible(o)'
  BY <1>2, <1>4, <1>5 DEF Sensible
<1> QED BY <1>1, <1>6 DEF BodiesAreSensible

LEMMA RestIsSensible ==
    ASSUME BodiesAreSensible, MongoTypeOK, NEW o \in Edit, UNCHANGED <<rows, keys>>,
           edit'[o] = Resting, \A p \in Edit : p # o => edit'[p] = edit[p]
    PROVE  BodiesAreSensible'
<1>1. /\ Resting.body.columns = {} /\ Resting.body.links = {}
      /\ Resting.todo = {} /\ Resting.table = 0 /\ Resting.kind = "create" /\ Resting.old = {}
      /\ Resting.at \notin Tabled
  BY DEF Resting, NoBody, Tabled
<1>2. keys \in Nat
  BY DEF MongoTypeOK
<1>3. Sensible(o)'
  BY <1>1, <1>2, FS_EmptySet DEF Sensible
<1>4. ASSUME NEW p \in Edit, p # o PROVE Sensible(p)'
  BY <1>4 DEF BodiesAreSensible, Sensible
<1> QED BY <1>3, <1>4 DEF BodiesAreSensible

LEMMA PhaseKept ==
    ASSUME NEW o \in Edit, PhaseOf(o), edit'[o] = edit[o], UNCHANGED <<rows, coll, renames>>
    PROVE  PhaseOf(o)'
  BY DEF PhaseOf, Settled, AsDescribed, OwnColumns, NamesDiffer, FieldsDescribed, LinksDescribed,
         RenamesApart, MadeWithTable, RowsFollow, NewDiffer, FieldsFollow, Fresh, Placed, Pending, OnTheMove,
         LinksOf

LEMMA SettledKept ==
    ASSUME Settled, UNCHANGED <<rows, coll, renames>>
    PROVE  Settled'
  BY DEF Settled, AsDescribed, OwnColumns, NamesDiffer, FieldsDescribed, LinksDescribed,
         RenamesApart, MadeWithTable, Placed, Pending, OnTheMove, LinksOf

\* A step of the change that has the lock.
LEMMA HolderMoves ==
    ASSUME MongoInv, NEW o \in Edit, edit[o].at \in Holding, edit'[o].at \in Holding,
           \A p \in Edit : p # o => edit'[p] = edit[p],
           UNCHANGED lockDoc,
           ~untidy' => ~untidy /\ (PhaseOf(o) => PhaseOf(o)')
    PROVE  Consistent'
<1> SUFFICES ASSUME ~untidy'
             PROVE  OneAtATime' /\ lockDoc.holder = o /\ PhaseOf(o)'
  BY MongoAssumption DEF Consistent
<1>1. OneAtATime /\ lockDoc.holder = o /\ PhaseOf(o)
  BY DEF MongoInv, Consistent, OneAtATime
<1>2. OneAtATime'
  BY <1>1 DEF OneAtATime
<1> QED BY <1>1, <1>2

-----------------------------------------------------------------------------
LEMMA InitMongoInv == MongoInit => MongoInv
<1> SUFFICES ASSUME MongoInit PROVE MongoInv
  OBVIOUS
<1>1. MongoTypeOK
  <2>1. MaxKey \in Nat /\ MaxEdits \in Nat /\ MaxMishaps \in Nat
    BY Bounds
  <2>2. edit \in [Edit -> EditState]
    BY RestingType DEF MongoInit
  <2>3. coll \in [made : BOOLEAN, validator : SUBSET Field, data : [Field \cup Link -> 0 .. MaxKey]]
    BY <2>1 DEF MongoInit, Empty
  <2>4. /\ rows \in [table : 0 .. MaxKey, columns : SUBSET ColumnRow, links : SUBSET LinkRow]
        /\ cached \in [table : 0 .. MaxKey, has : SUBSET (ColumnRow \cup LinkRow)]
        /\ renames \in Seq([id : 1 .. MaxKey, old : Field, new : Field])
        /\ \A x, y \in rows.columns \cup rows.links : x.id = y.id => x = y
    BY <2>1 DEF MongoInit
  <2>5. lockDoc \in [holder : Edit \cup {NoEdit}, expired : BOOLEAN] /\ untidy \in BOOLEAN
    BY DEF MongoInit
  <2>6. keys \in 0 .. MaxKey /\ edits \in 0 .. MaxEdits /\ mishaps \in 0 .. MaxMishaps
    BY <2>1 DEF MongoInit
  <2> QED BY <2>2, <2>3, <2>4, <2>5, <2>6 DEF MongoTypeOK
<1>2. InTimeHolds /\ OneAtATime
  BY MongoAssumption DEF MongoInit, InTimeHolds, OneAtATime, Resting, Holding
<1>3. IdsAreOld
  BY DEF MongoInit, IdsAreOld
<1>4. BodiesAreSensible
  <2>1. \A o \in Edit : edit[o] = Resting
    BY DEF MongoInit
  <2>2. /\ Resting.body.columns = {} /\ Resting.body.links = {} /\ Resting.todo = {}
        /\ Resting.table = 0 /\ Resting.kind = "create" /\ Resting.old = {}
        /\ Resting.at \notin Tabled
    BY DEF Resting, NoBody, Tabled
  <2>3. ASSUME NEW o \in Edit PROVE Sensible(o)
    <3>1. edit[o] = Resting /\ keys = 0
      BY <2>1 DEF MongoInit
    <3> QED BY <2>2, <3>1, FS_EmptySet DEF Sensible
  <2> QED BY <2>3, FS_EmptySet DEF MongoInit, BodiesAreSensible
<1>5. Settled
  BY DEF MongoInit, Settled, AsDescribed, OwnColumns, NamesDiffer, FieldsDescribed, LinksDescribed,
     RenamesApart, MadeWithTable, Names, Empty
<1>6. Consistent
  BY <1>2, <1>5, MongoAssumption DEF Consistent, MongoInit
<1> QED BY <1>1, <1>2, <1>3, <1>4, <1>6 DEF MongoInv

\* A call begins with a body that is sensible.
LEMMA CallIsSensible ==
    ASSUME MongoInv, NEW o \in Edit, CallMongo(o)
    PROVE  \E e \in EditState :
              /\ Step(o, e) /\ e.at = "ready" /\ e.todo = {} /\ e.old = {}
              /\ \A c, d \in e.body.columns : c.name = d.name \/ (c.id = d.id /\ c.id # 0) => c = d
              /\ \A c, d \in e.body.links : c.name = d.name \/ (c.id = d.id /\ c.id # 0) => c = d
              /\ \A c \in e.body.columns \cup e.body.links : c.id <= keys
              /\ IsFiniteSet(e.body.columns) /\ IsFiniteSet(e.body.links)
              /\ e.table <= keys /\ (e.kind # "create" => e.table # 0)
<1> DEFINE Good(S) == /\ \A c, d \in S : c.name = d.name \/ (c.id = d.id /\ c.id # 0) => c = d
                      /\ \A c \in S : c.id <= keys
                      /\ IsFiniteSet(S)
<1>0. /\ MaxKey \in Nat /\ keys \in 0 .. MaxKey /\ rows.table \in 0 .. MaxKey /\ rows.table <= keys
      /\ rows.columns \subseteq ColumnRow /\ rows.links \subseteq LinkRow
      /\ \A x, y \in rows.columns \cup rows.links : x.id = y.id => x = y
      /\ \A x \in rows.columns \cup rows.links : x.id <= keys /\ x.of <= keys
      /\ IsFiniteSet(rows.columns) /\ IsFiniteSet(rows.links)
  BY Bounds DEF MongoInv, MongoTypeOK, IdsAreOld, BodiesAreSensible
<1>1. ASSUME NEW ls \in Sent({}, Link) PROVE ls \subseteq SentLink /\ Good(ls)
  <2>1. ls \subseteq [id : 0 .. 0, name : Link] /\ Good(ls)
    BY <1>0, SentIsSensible, FS_EmptySet
  <2> QED BY <2>1, MongoAssumption DEF SentLink
<1>2. ASSUME NEW cs \in Sent(ColumnsOf(rows.table), Field) PROVE cs \subseteq SentColumn /\ Good(cs)
  <2>1. /\ ColumnsOf(rows.table) \subseteq [id : 1 .. keys, name : Field, of : 1 .. keys]
        /\ \A x, y \in ColumnsOf(rows.table) : x.id = y.id => x = y
    BY <1>0 DEF ColumnsOf, ColumnRow
  <2>2. IsFiniteSet(ColumnsOf(rows.table))
    BY <1>0, FS_Subset DEF ColumnsOf
  <2>3. cs \subseteq [id : 0 .. keys, name : Field] /\ IsFiniteSet(cs)
        /\ \A c, d \in cs : c.name = d.name \/ (c.id = d.id /\ c.id # 0) => c = d
    BY <1>0, <2>1, <2>2, SentIsSensible
  <2> QED BY <1>0, <2>3 DEF SentColumn
<1>3. ASSUME NEW ls \in Sent(LinksOf(rows.table), Link) PROVE ls \subseteq SentLink /\ Good(ls)
  <2>1. /\ LinksOf(rows.table) \subseteq [id : 1 .. keys, name : Link, of : 1 .. keys]
        /\ \A x, y \in LinksOf(rows.table) : x.id = y.id => x = y
    BY <1>0 DEF LinksOf, LinkRow
  <2>2. IsFiniteSet(LinksOf(rows.table))
    BY <1>0, FS_Subset DEF LinksOf
  <2>3. ls \subseteq [id : 0 .. keys, name : Link] /\ IsFiniteSet(ls)
        /\ \A c, d \in ls : c.name = d.name \/ (c.id = d.id /\ c.id # 0) => c = d
    BY <1>0, <2>1, <2>2, SentIsSensible
  <2> QED BY <1>0, <2>3 DEF SentLink
<1>4. ASSUME NEW n \in Field
      PROVE  {[id |-> 0, name |-> n]} \subseteq SentColumn /\ Good({[id |-> 0, name |-> n]})
  <2>1. IsFiniteSet({[id |-> 0, name |-> n]})
    BY FS_Singleton
  <2> QED BY <1>0, <2>1 DEF SentColumn
<1>5. Good({}) /\ {} \subseteq SentColumn /\ {} \subseteq SentLink
  BY FS_EmptySet
<1> HIDE DEF Good
<1>6. /\ Resting \in EditState /\ Resting.kind = "create" /\ Resting.table = 0
      /\ Resting.old = {} /\ Resting.todo = {}
      /\ Resting.body.columns = {} /\ Resting.body.links = {}
  BY RestingType DEF Resting, NoBody
<1> HIDE DEF Resting
<1> DEFINE Called ==
      \E e : /\ Step(o, e) /\ e \in EditState /\ e.at = "ready" /\ e.todo = {} /\ e.old = {}
             /\ Good(e.body.columns) /\ Good(e.body.links)
             /\ e.table <= keys /\ (e.kind # "create" => e.table # 0)
<1>7. Called
  <2>1. ASSUME NEW n \in Field, NEW ls \in Sent({}, Link),
               Step(o, [Resting EXCEPT !.at = "ready",
                                       !.body = [columns |-> {[id |-> 0, name |-> n]}, links |-> ls]])
        PROVE  Called
    <3> DEFINE b == [columns |-> {[id |-> 0, name |-> n]}, links |-> ls]
               e == [Resting EXCEPT !.at = "ready", !.body = b]
    <3>1. /\ b \in [columns : SUBSET SentColumn, links : SUBSET SentLink]
          /\ Good(b.columns) /\ Good(b.links)
      BY <1>1, <1>4
    <3>2. Step(o, e)
      BY <2>1
    <3> HIDE DEF b
    <3>3. /\ e \in EditState /\ e.at = "ready" /\ e.body = b
          /\ e.old = {} /\ e.todo = {} /\ e.table = 0 /\ e.kind = "create"
      BY <1>6, <3>1 DEF EditState, Steps
    <3> HIDE DEF e
    <3> QED BY <1>0, <3>1, <3>2, <3>3
  <2>2. ASSUME rows.table # 0, NEW cs \in Sent(ColumnsOf(rows.table), Field),
               NEW ls \in Sent(LinksOf(rows.table), Link),
               Step(o, [Resting EXCEPT !.at = "ready", !.kind = "update", !.table = rows.table,
                                       !.body = [columns |-> cs, links |-> ls]])
        PROVE  Called
    <3> DEFINE b == [columns |-> cs, links |-> ls]
               e == [Resting EXCEPT !.at = "ready", !.kind = "update", !.table = rows.table,
                                    !.body = b]
    <3>1. /\ b \in [columns : SUBSET SentColumn, links : SUBSET SentLink]
          /\ Good(b.columns) /\ Good(b.links)
      BY <1>2, <1>3
    <3>2. Step(o, e)
      BY <2>2
    <3> HIDE DEF b
    <3>3. /\ e \in EditState /\ e.at = "ready" /\ e.body = b
          /\ e.old = {} /\ e.todo = {} /\ e.table = rows.table
      BY <1>0, <1>6, <3>1 DEF EditState, Steps
    <3> HIDE DEF e
    <3> QED BY <1>0, <2>2, <3>1, <3>2, <3>3
  <2>3. ASSUME rows.table # 0,
               Step(o, [Resting EXCEPT !.at = "ready", !.kind = "delete", !.table = rows.table])
        PROVE  Called
    <3> DEFINE e == [Resting EXCEPT !.at = "ready", !.kind = "delete", !.table = rows.table]
    <3>2. Step(o, e)
      BY <2>3
    <3>3. /\ e \in EditState /\ e.at = "ready" /\ e.body = Resting.body
          /\ e.old = {} /\ e.todo = {} /\ e.table = rows.table
      BY <1>0, <1>6 DEF EditState, Steps
    <3> HIDE DEF e
    <3> QED BY <1>0, <1>5, <1>6, <2>3, <3>2, <3>3
  <2> QED BY <2>1, <2>2, <2>3 DEF CallMongo
<1> QED BY <1>7 DEF Good

LEMMA CallInv == ASSUME MongoInv, NEW o \in Edit, CallMongo(o) PROVE MongoInv'
<1>1. PICK e \in EditState :
              /\ Step(o, e) /\ e.at = "ready" /\ e.todo = {} /\ e.old = {}
              /\ \A c, d \in e.body.columns : c.name = d.name \/ (c.id = d.id /\ c.id # 0) => c = d
              /\ \A c, d \in e.body.links : c.name = d.name \/ (c.id = d.id /\ c.id # 0) => c = d
              /\ \A c \in e.body.columns \cup e.body.links : c.id <= keys
              /\ IsFiniteSet(e.body.columns) /\ IsFiniteSet(e.body.links)
              /\ e.table <= keys /\ (e.kind # "create" => e.table # 0)
  BY CallIsSensible
<1>2. /\ edit' \in [Edit -> EditState] /\ edit'[o] = e
      /\ \A p \in Edit : p # o => edit'[p] = edit[p]
  BY <1>1, Stepping DEF MongoInv
<1>3. /\ UNCHANGED <<lockDoc, rows, coll, cached, renames, keys, mishaps, untidy>>
      /\ edit[o].at = "idle" /\ edits' \in 0 .. MaxEdits
  <2>1. /\ UNCHANGED <<lockDoc, rows, coll, cached, renames, keys, mishaps, untidy>>
        /\ edit[o].at = "idle" /\ edits < MaxEdits /\ edits' = edits + 1
    BY DEF CallMongo, InStep
  <2>2. edits \in 0 .. MaxEdits
    BY DEF MongoInv, MongoTypeOK
  <2> QED BY <2>1, <2>2, Bounds
<1>4. MongoTypeOK'
  BY <1>2, <1>3 DEF MongoInv, MongoTypeOK
<1>5. InTimeHolds'
  BY <1>1, <1>2, <1>3 DEF MongoInv, InTimeHolds, Holding
<1>6. IdsAreOld'
  BY <1>3 DEF MongoInv, IdsAreOld
<1>7. BodiesAreSensible'
  <2>1. Sensible(o)'
    BY <1>1, <1>2, <1>3, FS_EmptySet DEF Sensible, Tabled
  <2>2. ASSUME NEW p \in Edit, p # o PROVE Sensible(p)'
    BY <1>2, <1>3, <2>2 DEF MongoInv, BodiesAreSensible, Sensible
  <2> QED BY <1>3, <2>1, <2>2 DEF MongoInv, BodiesAreSensible
<1>8. Consistent'
  <2> SUFFICES ASSUME ~untidy
               PROVE  /\ OneAtATime' /\ (lockDoc.holder = NoEdit => Settled')
                      /\ \A p \in Edit : lockDoc.holder = p => PhaseOf(p)'
    BY <1>3 DEF Consistent
  <2>1. OneAtATime /\ lockDoc.holder # o
    BY <1>3 DEF MongoInv, Consistent, OneAtATime, Holding
  <2>2. OneAtATime'
    BY <1>1, <1>2, <1>3, <2>1 DEF OneAtATime, Holding
  <2>3. lockDoc.holder = NoEdit => Settled'
    BY <1>3, SettledKept DEF MongoInv, Consistent
  <2>4. ASSUME NEW p \in Edit, lockDoc.holder = p PROVE PhaseOf(p)'
    BY <1>2, <1>3, <2>1, <2>4, PhaseKept DEF MongoInv, Consistent
  <2> QED BY <2>2, <2>3, <2>4
<1> QED BY <1>4, <1>5, <1>6, <1>7, <1>8 DEF MongoInv

-----------------------------------------------------------------------------
\* The lock.

LEMMA AcquireInv == ASSUME MongoInv, NEW o \in Edit, AcquireMongo(o) PROVE MongoInv'
<1>1. /\ UNCHANGED <<rows, coll, cached, renames, keys, edits, mishaps>>
      /\ edit[o].at = "ready" /\ untidy' = (untidy \/ renames # <<>>)
  BY DEF AcquireMongo, InStep
<1>2. /\ edit[o] \in EditState
      /\ lockDoc \in [holder : Edit \cup {NoEdit}, expired : BOOLEAN] /\ untidy' \in BOOLEAN
  <2>1. untidy' \in BOOLEAN
    BY <1>1 DEF MongoInv, MongoTypeOK
  <2> QED BY <2>1 DEF MongoInv, MongoTypeOK
<1>3. CASE lockDoc.holder = NoEdit \/ lockDoc.expired
  <2>1. /\ lockDoc' = [holder |-> o, expired |-> FALSE]
        /\ Step(o, [edit[o] EXCEPT !.at = "begin", !.over = FALSE])
    BY <1>3 DEF AcquireMongo
  <2> DEFINE e == [edit[o] EXCEPT !.at = "begin", !.over = FALSE]
  <2>2. /\ e \in EditState /\ e.at = "begin" /\ e.body = edit[o].body /\ e.kind = edit[o].kind
        /\ e.todo = edit[o].todo /\ e.old = edit[o].old /\ e.table = edit[o].table
    BY <1>2 DEF EditState, Steps
  <2>3. Step(o, e)
    BY <2>1
  <2> HIDE DEF e
  <2>4. /\ edit' \in [Edit -> EditState] /\ edit'[o] = e
        /\ \A p \in Edit : p # o => edit'[p] = edit[p]
    BY <2>2, <2>3, Stepping DEF MongoInv
  <2>5. MongoTypeOK'
    BY <1>1, <1>2, <2>1, <2>4 DEF MongoInv, MongoTypeOK
  <2>6. InTimeHolds'
    <3>1. lockDoc'.holder = o /\ ~lockDoc'.expired
      BY <2>1
    <3>2. \A p \in Edit : ~(edit[p].at \in Holding /\ ~edit[p].over)
      BY <1>3, MongoAssumption DEF MongoInv, InTimeHolds
    <3> QED BY <2>4, <3>1, <3>2 DEF InTimeHolds
  <2>7. IdsAreOld'
    BY <1>1 DEF MongoInv, IdsAreOld
  <2>8. BodiesAreSensible'
    <3>1. Sensible(o)
      BY DEF MongoInv, BodiesAreSensible
    <3>2. Sensible(o)'
      BY <1>1, <2>2, <2>4, <3>1 DEF Sensible, Tabled
    <3>3. ASSUME NEW p \in Edit, p # o PROVE Sensible(p)'
      BY <1>1, <2>4, <3>3 DEF MongoInv, BodiesAreSensible, Sensible
    <3> QED BY <1>1, <3>2, <3>3 DEF MongoInv, BodiesAreSensible
  <2>9. Consistent'
    <3> SUFFICES ASSUME ~untidy'
                 PROVE  /\ OneAtATime' /\ lockDoc'.holder = o /\ PhaseOf(o)'
      BY MongoAssumption DEF Consistent
    <3>1. OneAtATime /\ Settled /\ renames = <<>> /\ lockDoc.holder = NoEdit
      BY <1>1, <1>3, MongoAssumption DEF MongoInv, Consistent, OneAtATime
    <3>2. lockDoc'.holder = o /\ ~lockDoc'.expired
      BY <2>1
    <3>3. OneAtATime'
      BY <2>2, <2>4, <3>1, <3>2, MongoAssumption DEF OneAtATime, Holding, Steps
    <3>4. Settled' /\ renames' = <<>>
      BY <1>1, <3>1, SettledKept
    <3>5. PhaseOf(o)'
      BY <2>2, <2>4, <3>4 DEF PhaseOf
    <3> QED BY <3>2, <3>3, <3>5
  <2> QED BY <2>5, <2>6, <2>7, <2>8, <2>9 DEF MongoInv
<1>4. CASE ~(lockDoc.holder = NoEdit \/ lockDoc.expired)
  <2>1. Step(o, Resting) /\ UNCHANGED lockDoc
    BY <1>4 DEF AcquireMongo
  <2>2. /\ edit' \in [Edit -> EditState] /\ edit'[o] = Resting
        /\ \A p \in Edit : p # o => edit'[p] = edit[p]
    BY <2>1, RestingType, Stepping DEF MongoInv
  <2>3. /\ Resting.at = "idle" /\ Resting.body.columns = {} /\ Resting.body.links = {}
        /\ Resting.todo = {} /\ Resting.table = 0 /\ Resting.kind = "create" /\ Resting.old = {}
    BY DEF Resting, NoBody
  <2>4. MongoTypeOK'
    BY <1>1, <1>2, <2>1, <2>2 DEF MongoInv, MongoTypeOK
  <2>5. InTimeHolds'
    BY <2>1, <2>2, <2>3 DEF MongoInv, InTimeHolds, Holding
  <2>6. IdsAreOld'
    BY <1>1 DEF MongoInv, IdsAreOld
  <2>7. BodiesAreSensible'
    BY <1>1, <2>2, <2>3, RestIsSensible DEF MongoInv
  <2>8. Consistent'
    <3> SUFFICES ASSUME ~untidy'
                 PROVE  /\ OneAtATime' /\ (lockDoc.holder = NoEdit => Settled')
                        /\ \A p \in Edit : lockDoc.holder = p => PhaseOf(p)'
      BY <2>1 DEF Consistent
    <3>1. OneAtATime /\ lockDoc.holder # o
      BY <1>1 DEF MongoInv, Consistent, OneAtATime, Holding
    <3>2. OneAtATime'
      BY <2>1, <2>2, <2>3, <3>1 DEF OneAtATime, Holding
    <3>3. lockDoc.holder = NoEdit => Settled'
      BY <1>4
    <3>4. ASSUME NEW p \in Edit, lockDoc.holder = p PROVE PhaseOf(p)'
      BY <1>1, <2>2, <3>1, <3>4, PhaseKept DEF MongoInv, Consistent
    <3> QED BY <3>2, <3>3, <3>4
  <2> QED BY <2>4, <2>5, <2>6, <2>7, <2>8 DEF MongoInv
<1> QED BY <1>3, <1>4

LEMMA ReleaseInv == ASSUME MongoInv, NEW o \in Edit, ReleaseMongo(o) PROVE MongoInv'
<1>1. /\ UNCHANGED <<rows, coll, cached, renames, keys, edits, mishaps, untidy>>
      /\ edit[o].at = "release" /\ Step(o, Resting) /\ lockDoc' = Freed(o)
  BY DEF ReleaseMongo, InStep
<1>2. /\ edit' \in [Edit -> EditState] /\ edit'[o] = Resting
      /\ \A p \in Edit : p # o => edit'[p] = edit[p]
  BY <1>1, RestingType, Stepping DEF MongoInv
<1>3. Resting.at = "idle"
  BY DEF Resting
<1>4. lockDoc \in [holder : Edit \cup {NoEdit}, expired : BOOLEAN]
  BY DEF MongoInv, MongoTypeOK
<1>5. lockDoc' \in [holder : Edit \cup {NoEdit}, expired : BOOLEAN]
  BY <1>1, <1>4 DEF Freed
<1>6. MongoTypeOK'
  BY <1>1, <1>2, <1>5 DEF MongoInv, MongoTypeOK
<1>7. InTimeHolds'
  <2> SUFFICES ASSUME NEW p \in Edit, p # o, edit[p].at \in Holding, ~edit[p].over
               PROVE  lockDoc' = lockDoc /\ lockDoc.holder = p /\ ~lockDoc.expired
    BY <1>2, <1>3 DEF InTimeHolds, Holding
  <2>1. lockDoc.holder = p /\ ~lockDoc.expired
    BY DEF MongoInv, InTimeHolds
  <2> QED BY <1>1, <2>1 DEF Freed
<1>8. IdsAreOld'
  BY <1>1 DEF MongoInv, IdsAreOld
<1>9. BodiesAreSensible'
  BY <1>1, <1>2, RestIsSensible DEF MongoInv
<1>10. Consistent'
  <2> SUFFICES ASSUME ~untidy
               PROVE  OneAtATime' /\ lockDoc'.holder = NoEdit /\ Settled'
    BY <1>1, MongoAssumption DEF Consistent
  <2>1. OneAtATime /\ lockDoc.holder = o /\ PhaseOf(o)
    BY <1>1 DEF MongoInv, Consistent, OneAtATime, Holding, Steps
  <2>2. lockDoc'.holder = NoEdit /\ ~lockDoc'.expired
    BY <1>1, <2>1 DEF Freed
  <2>3. OneAtATime'
    BY <1>2, <1>3, <2>1, <2>2, MongoAssumption DEF OneAtATime, Holding
  <2>4. Settled'
    BY <1>1, <2>1, SettledKept DEF PhaseOf
  <2> QED BY <2>2, <2>3, <2>4
<1> QED BY <1>6, <1>7, <1>8, <1>9, <1>10 DEF MongoInv

LEMMA ExpireInv == MongoInv /\ Expire => MongoInv'
<1> SUFFICES ASSUME MongoInv, Expire PROVE MongoInv'
  OBVIOUS
<1>0. PICK o \in Edit : o = lockDoc.holder
  BY DEF Expire, MongoInv, MongoTypeOK
<1> DEFINE e == [edit[o] EXCEPT !.over = TRUE]
<1>1. /\ UNCHANGED <<rows, coll, cached, renames, keys, edits>>
      /\ mishaps < MaxMishaps /\ mishaps' = mishaps + 1 /\ untidy' = TRUE
      /\ lockDoc' = [lockDoc EXCEPT !.expired = TRUE] /\ Step(o, e)
  BY <1>0 DEF Expire
<1>2. lockDoc \in [holder : Edit \cup {NoEdit}, expired : BOOLEAN] /\ mishaps \in 0 .. MaxMishaps
  BY DEF MongoInv, MongoTypeOK
<1>3. lockDoc' \in [holder : Edit \cup {NoEdit}, expired : BOOLEAN] /\ lockDoc'.holder = o
  BY <1>0, <1>1, <1>2
<1>4. mishaps' \in 0 .. MaxMishaps /\ untidy' \in BOOLEAN
  BY <1>1, <1>2, Bounds
<1>5. edit[o] \in EditState
  BY DEF MongoInv, MongoTypeOK
<1>6. /\ e \in EditState /\ e.at = edit[o].at /\ e.body = edit[o].body /\ e.kind = edit[o].kind
      /\ e.todo = edit[o].todo /\ e.old = edit[o].old /\ e.table = edit[o].table /\ e.over
  BY <1>5 DEF EditState
<1> HIDE DEF e
<1>7. /\ edit' \in [Edit -> EditState] /\ edit'[o] = e
      /\ \A p \in Edit : p # o => edit'[p] = edit[p]
  BY <1>1, <1>3, <1>6, Stepping DEF MongoInv
<1>8. MongoTypeOK'
  BY <1>1, <1>3, <1>4, <1>7 DEF MongoInv, MongoTypeOK
<1>9. InTimeHolds'
  BY <1>0, <1>6, <1>7 DEF MongoInv, InTimeHolds
<1>10. IdsAreOld'
  BY <1>1 DEF MongoInv, IdsAreOld
<1>11. BodiesAreSensible'
  <2>1. Sensible(o)'
    BY <1>1, <1>3, <1>6, <1>7 DEF MongoInv, BodiesAreSensible, Sensible
  <2>2. ASSUME NEW p \in Edit, p # o PROVE Sensible(p)'
    BY <1>1, <1>7, <2>2 DEF MongoInv, BodiesAreSensible, Sensible
  <2> QED BY <1>1, <2>1, <2>2 DEF MongoInv, BodiesAreSensible
<1>12. Consistent'
  BY <1>1 DEF Consistent
<1> QED BY <1>8, <1>9, <1>10, <1>11, <1>12 DEF MongoInv

LEMMA ReloadInv == MongoInv /\ ReloadMongo => MongoInv'
<1> SUFFICES ASSUME MongoInv, ReloadMongo PROVE MongoInv'
  OBVIOUS
<1>1. /\ UNCHANGED <<lockDoc, rows, coll, edit, renames, keys, edits, mishaps, untidy>>
      /\ cached' = [table |-> rows.table, has |-> Described]
  BY DEF ReloadMongo
<1>2. cached' \in [table : 0 .. MaxKey, has : SUBSET (ColumnRow \cup LinkRow)]
  BY <1>1 DEF MongoInv, MongoTypeOK, Described, ColumnsOf, LinksOf
<1>3. MongoTypeOK'
  BY <1>1, <1>2 DEF MongoInv, MongoTypeOK
<1>4. IdsAreOld' /\ InTimeHolds'
  BY <1>1 DEF MongoInv, IdsAreOld, InTimeHolds
<1>5. BodiesAreSensible'
  BY <1>1 DEF MongoInv, BodiesAreSensible, Sensible
<1>6. Consistent'
  BY <1>1, PhaseKept, SettledKept DEF MongoInv, Consistent, OneAtATime
<1> QED BY <1>3, <1>4, <1>5, <1>6 DEF MongoInv

-----------------------------------------------------------------------------
\* Documents.

\* The first rename, and the others.
LEMMA FirstRename ==
    ASSUME MongoTypeOK, renames # <<>>, renames' = Tail(renames)
    PROVE  /\ renames' \in Seq([id : 1 .. MaxKey, old : Field, new : Field])
           /\ Head(renames) \in [id : 1 .. MaxKey, old : Field, new : Field]
           /\ 1 \in DOMAIN renames /\ Head(renames) = renames[1]
           /\ \A i \in DOMAIN renames' : renames'[i] = renames[i + 1] /\ i + 1 \in DOMAIN renames
           /\ \A i \in DOMAIN renames :
                 i # 1 => i - 1 \in DOMAIN renames' /\ renames'[i - 1] = renames[i]
           /\ DOMAIN renames \subseteq Nat /\ DOMAIN renames' \subseteq Nat
<1> DEFINE R == [id : 1 .. MaxKey, old : Field, new : Field]
<1>1. renames \in Seq(R)
  BY DEF MongoTypeOK
<1> HIDE DEF R
<1>2. /\ Head(renames) \in R /\ renames' \in Seq(R) /\ Len(renames') = Len(renames) - 1
      /\ \A i \in 1 .. Len(renames') : renames'[i] = renames[i + 1]
  BY <1>1, HeadTailProperties
<1>3. Len(renames) \in Nat \ {0} /\ Len(renames') \in Nat
  BY <1>1, <1>2, EmptySeq
<1>4. DOMAIN renames = 1 .. Len(renames) /\ DOMAIN renames' = 1 .. Len(renames')
  BY <1>1, <1>2
<1>5. Head(renames) = renames[1]
  BY <1>1
<1> QED BY <1>2, <1>3, <1>4, <1>5 DEF R

\* A field that is moved, or not, is still to go where it was to go.
LEMMA RenamePlaces ==
    ASSUME MongoTypeOK, RenamesApart, RenameField, coll.made \/ coll.data[Head(renames).old] = 0
    PROVE  /\ RenamesApart'
           /\ LinksDescribed => LinksDescribed'
           /\ \A n \in Field : coll'.data[n] # 0 =>
                 \E m \in Field : /\ coll.data[m] = coll'.data[n]
                                  /\ \A name \in Field : Placed(m, name) => Placed(n, name)'
<1> DEFINE x == Head(renames)
<1>1. /\ renames # <<>> /\ renames' = Tail(renames)
      /\ coll' = IF ~coll.made \/ coll.data[x.old] = 0 THEN coll
                 ELSE [coll EXCEPT !.data = Moved(@, x)]
      /\ rows' = rows
  BY DEF RenameField
<1>2. /\ renames \in Seq([id : 1 .. MaxKey, old : Field, new : Field])
      /\ coll \in [made : BOOLEAN, validator : SUBSET Field, data : [Field \cup Link -> 0 .. MaxKey]]
  BY DEF MongoTypeOK
<1>3. /\ x = renames[1] /\ 1 \in DOMAIN renames /\ x \in [id : 1 .. MaxKey, old : Field, new : Field]
      /\ \A i \in DOMAIN renames' : renames'[i] = renames[i + 1] /\ i + 1 \in DOMAIN renames
      /\ \A i \in DOMAIN renames : i # 1 => i - 1 \in DOMAIN renames' /\ renames'[i - 1] = renames[i]
      /\ DOMAIN renames \subseteq Nat /\ DOMAIN renames' \subseteq Nat
  BY <1>1, FirstRename
<1>4. \A i \in DOMAIN renames : i # 1 => renames[i].old # x.old
  BY <1>3 DEF RenamesApart
<1>5. \A i \in DOMAIN renames : renames[i].old # x.new
  BY <1>3 DEF RenamesApart
<1> HIDE DEF x
<1>6. RenamesApart'
  <2> SUFFICES ASSUME NEW i \in DOMAIN renames', NEW j \in DOMAIN renames'
               PROVE  /\ renames'[i].new # renames'[j].old
                      /\ renames'[i].old = renames'[j].old => i = j
    BY DEF RenamesApart
  <2>1. i \in Nat /\ j \in Nat /\ i + 1 \in DOMAIN renames /\ j + 1 \in DOMAIN renames
        /\ renames'[i] = renames[i + 1] /\ renames'[j] = renames[j + 1]
    BY <1>3
  <2> QED BY <2>1 DEF RenamesApart
<1>7. ASSUME NEW n \in Field, n # x.old, n # x.new, coll'.data[n] = coll.data[n], NEW name \in Field,
             Placed(n, name)
      PROVE  Placed(n, name)'
  <2>1. Pending(n)' => Pending(n)
    BY <1>3 DEF Pending
  <2>2. ASSUME OnTheMove(n, name) PROVE OnTheMove(n, name)'
    <3>1. PICK i \in DOMAIN renames :
             renames[i].old = n /\ renames[i].id = coll.data[n] /\ renames[i].new = name
      BY <2>2 DEF OnTheMove
    <3>2. i # 1
      BY <1>3, <1>7, <3>1
    <3> QED BY <1>3, <1>7, <3>1, <3>2 DEF OnTheMove
  <2> QED BY <1>7, <2>1, <2>2 DEF Placed
<1>8. CASE coll.data[x.old] = 0
  <2>1. coll' = coll
    BY <1>1, <1>8
  <2>2. ASSUME NEW n \in Field, coll'.data[n] # 0, NEW name \in Field, Placed(n, name)
        PROVE  Placed(n, name)'
    <3>1. CASE n # x.new
      BY <1>7, <1>8, <2>1, <2>2, <3>1
    <3>2. CASE n = x.new
      <4>1. ~Pending(n) /\ ~Pending(n)' /\ ~OnTheMove(n, name)
        BY <1>3, <1>5, <3>2 DEF Pending, OnTheMove
      <4> QED BY <2>2, <4>1 DEF Placed
    <3> QED BY <3>1, <3>2
  <2> QED BY <1>1, <1>6, <2>1, <2>2 DEF LinksDescribed, LinksOf
<1>9. CASE coll.made /\ coll.data[x.old] # 0
  <2>1. coll' = [coll EXCEPT !.data = Moved(@, x)]
    BY <1>1, <1>9
  <2>2. x.old \in Field /\ x.new \in Field /\ x.old # x.new
    BY <1>3, <1>5
  <2>3. \A n \in Field \cup Link :
           coll'.data[n] = IF n = x.new THEN coll.data[x.old] ELSE IF n = x.old THEN 0 ELSE coll.data[n]
    BY <1>2, <2>1, <2>2 DEF Moved, Unset
  <2>4. LinksDescribed => LinksDescribed'
    BY <1>1, <2>2, <2>3, MongoAssumption DEF LinksDescribed, LinksOf
  <2>5. ASSUME NEW n \in Field, coll'.data[n] # 0
        PROVE  \E m \in Field : /\ coll.data[m] = coll'.data[n]
                                /\ \A name \in Field : Placed(m, name) => Placed(n, name)'
    <3>1. CASE n = x.new
      <4>1. ASSUME NEW name \in Field, Placed(x.old, name) PROVE Placed(n, name)'
        <5>1. OnTheMove(x.old, name)
          BY <1>3, <4>1 DEF Placed, Pending
        <5>2. name = x.new
          BY <1>3, <1>4, <5>1 DEF OnTheMove
        <5>3. ~Pending(n)'
          BY <1>3, <1>5, <3>1 DEF Pending
        <5> QED BY <3>1, <5>2, <5>3 DEF Placed
      <4> QED BY <2>2, <2>3, <3>1, <4>1
    <3>2. CASE n # x.new
      <4>1. n # x.old /\ coll'.data[n] = coll.data[n]
        BY <2>3, <2>5, <3>2
      <4> QED BY <1>7, <3>2, <4>1
    <3> QED BY <3>1, <3>2
  <2> QED BY <1>6, <2>4, <2>5
<1> QED BY <1>8, <1>9 DEF x

LEMMA HeadIsField == MongoTypeOK /\ RenameField => Head(renames).old \in Field
  BY FirstRename DEF RenameField

LEMMA RenameSettled ==
    ASSUME MongoTypeOK, RenamesApart, LinksDescribed, RenameField, coll.made \/ (\A n \in Field : coll.data[n] = 0)
    PROVE  /\ FieldsDescribed => FieldsDescribed'
           /\ \A o \in Edit : FieldsFollow(o) => FieldsFollow(o)'
<1>1. UNCHANGED <<rows, edit>>
  BY DEF RenameField
<1>2. Head(renames).old \in Field
  BY FirstRename DEF RenameField
<1>3. \A n \in Field : coll'.data[n] # 0 =>
                 \E m \in Field : /\ coll.data[m] = coll'.data[n]
                                  /\ \A name \in Field : Placed(m, name) => Placed(n, name)'
  BY <1>2, RenamePlaces
<1>4. FieldsDescribed => FieldsDescribed'
  <2>1. \A y \in rows.columns : y.name \in Field
    BY DEF MongoTypeOK, ColumnRow
  <2> QED BY <1>1, <1>3, <2>1 DEF FieldsDescribed
<1>5. ASSUME NEW o \in Edit, FieldsFollow(o) PROVE FieldsFollow(o)'
  <2>1. \A c \in edit[o].body.columns : c.name \in Field
    BY DEF MongoTypeOK, EditState, SentColumn
  <2> QED BY <1>1, <1>3, <1>5, <2>1 DEF FieldsFollow
<1> QED BY <1>4, <1>5

LEMMA NothingUnmade ==
    ASSUME MongoTypeOK, OwnColumns, MadeWithTable, FieldsDescribed
    PROVE  coll.made \/ (\A n \in Field : coll.data[n] = 0)
<1> SUFFICES ASSUME ~coll.made, NEW n \in Field, coll.data[n] # 0 PROVE FALSE
  OBVIOUS
<1>1. rows.table = 0
  BY DEF MadeWithTable
<1>2. PICK y \in rows.columns : TRUE
  BY DEF FieldsDescribed
<1>3. y.of = 0
  BY <1>1, <1>2 DEF OwnColumns
<1> QED BY <1>2, <1>3 DEF MongoTypeOK, ColumnRow

LEMMA RenameInv == MongoInv /\ RenameField => MongoInv'
<1> SUFFICES ASSUME MongoInv, RenameField PROVE MongoInv'
  OBVIOUS
<1>1. /\ UNCHANGED <<lockDoc, rows, cached, edit, keys, edits, mishaps, untidy>>
      /\ renames # <<>> /\ renames' = Tail(renames) /\ coll'.made = coll.made
      /\ coll'.validator = coll.validator
  BY DEF RenameField, MongoInv, MongoTypeOK
<1>2. /\ renames \in Seq([id : 1 .. MaxKey, old : Field, new : Field])
      /\ coll \in [made : BOOLEAN, validator : SUBSET Field, data : [Field \cup Link -> 0 .. MaxKey]]
  BY DEF MongoInv, MongoTypeOK
<1>3. coll' \in [made : BOOLEAN, validator : SUBSET Field, data : [Field \cup Link -> 0 .. MaxKey]]
  <2> DEFINE x == Head(renames)
  <2>1. x \in [id : 1 .. MaxKey, old : Field, new : Field]
    BY <1>1, FirstRename DEF MongoInv
  <2>2. coll' = IF ~coll.made \/ coll.data[x.old] = 0 THEN coll
                ELSE [coll EXCEPT !.data = Moved(@, x)]
    BY DEF RenameField
  <2> HIDE DEF x
  <2>3. Moved(coll.data, x) \in [Field \cup Link -> 0 .. MaxKey]
    <3>1. /\ coll.data \in [Field \cup Link -> 0 .. MaxKey] /\ 0 \in 0 .. MaxKey
          /\ x.old \in Field \cup Link /\ x.new \in Field \cup Link
      BY <1>2, <2>1, Bounds
    <3>2. Unset(coll.data, {x.old}) \in [Field \cup Link -> 0 .. MaxKey]
      BY <3>1 DEF Unset
    <3> QED BY <3>1, <3>2 DEF Moved
  <2> QED BY <1>2, <2>2, <2>3
<1>4. renames' \in Seq([id : 1 .. MaxKey, old : Field, new : Field])
  BY <1>1, FirstRename DEF MongoInv
<1>5. MongoTypeOK'
  BY <1>1, <1>3, <1>4 DEF MongoInv, MongoTypeOK
<1>6. IdsAreOld' /\ InTimeHolds'
  BY <1>1 DEF MongoInv, IdsAreOld, InTimeHolds
<1>7. BodiesAreSensible'
  BY <1>1 DEF MongoInv, BodiesAreSensible, Sensible
<1>8. Settled => Settled'
  <2> SUFFICES ASSUME Settled PROVE Settled'
    OBVIOUS
  <2>1. coll.made \/ (\A n \in Field : coll.data[n] = 0)
    BY NothingUnmade DEF MongoInv, Settled, AsDescribed
  <2>2. RenamesApart' /\ LinksDescribed'
    BY <2>1, RenamePlaces, HeadIsField DEF MongoInv, Settled, AsDescribed
  <2>3. FieldsDescribed'
    BY <2>1, RenameSettled DEF MongoInv, Settled, AsDescribed
  <2>4. OwnColumns' /\ NamesDiffer' /\ MadeWithTable' /\ coll'.validator = Names(rows'.columns)
    BY <1>1 DEF Settled, AsDescribed, OwnColumns, NamesDiffer, MadeWithTable, Names
  <2> QED BY <2>2, <2>3, <2>4 DEF Settled, AsDescribed
<1>9. ASSUME NEW o \in Edit, PhaseOf(o), edit[o].at \in Holding PROVE PhaseOf(o)'
  <2>1. CASE edit[o].at = "release"
    BY <1>1, <1>8, <1>9, <2>1 DEF PhaseOf
  <2>2. CASE edit[o].kind = "update" /\ edit[o].at \in {"columns", "coll"}
    <3>1. coll.made /\ RenamesApart /\ LinksDescribed
      BY <1>9, <2>2 DEF PhaseOf
    <3>2. RenamesApart' /\ LinksDescribed'
      BY <3>1, RenamePlaces, HeadIsField DEF MongoInv
    <3>3. /\ edit[o].at = "columns" => FieldsFollow(o)'
          /\ edit[o].at = "coll" => FieldsDescribed'
      BY <1>9, <2>2, <3>1, RenameSettled DEF MongoInv, PhaseOf
    <3>4. /\ rows'.table = edit[o].table /\ rows'.table # 0 /\ OwnColumns'
          /\ edit[o].at = "columns" => RowsFollow(o)' /\ NewDiffer(o)'
          /\ edit[o].at = "coll" => NamesDiffer'
      BY <1>1, <1>9, <2>2 DEF PhaseOf, OwnColumns, RowsFollow, NewDiffer, NamesDiffer
    <3> QED BY <1>1, <2>2, <3>1, <3>2, <3>3, <3>4 DEF PhaseOf
  <2>3. CASE edit[o].at \in {"begin", "drop"} \/ (edit[o].at # "release" /\ edit[o].kind # "update")
    BY <1>1, <1>9, <2>3 DEF PhaseOf
  <2>4. CASE edit[o].at \in {"unlist", "remove"}
    BY <1>1, <1>9, <2>4 DEF PhaseOf
  <2> QED BY <1>9, <2>1, <2>2, <2>3, <2>4 DEF Holding, Steps
<1>10. Consistent'
  BY <1>1, <1>8, <1>9 DEF MongoInv, Consistent, OneAtATime
<1> QED BY <1>5, <1>6, <1>7, <1>10 DEF MongoInv

LEMMA SaveInv == MongoInv /\ SaveDocument => MongoInv'
<1> SUFFICES ASSUME MongoInv, SaveDocument PROVE MongoInv'
  OBVIOUS
<1> DEFINE Owners(n) == {x \in cached.has : x.name = n}
           Kept_(n) == IF coll.data[n] = 0 /\ Owners(n) # {}
                       THEN (CHOOSE x \in Owners(n) : TRUE).id ELSE coll.data[n]
<1>1. /\ UNCHANGED <<lockDoc, rows, cached, edit, renames, keys, edits, mishaps>>
      /\ coll.made /\ ~untidy
      /\ untidy' = \/ untidy \/ cached.has # Described \/ renames # <<>>
                   \/ \E o \in Edit : edit[o].at \in Holding /\ edit[o].kind = "update"
      /\ coll' = [coll EXCEPT !.data = [n \in DOMAIN coll.data |-> Kept_(n)]]
  BY DEF SaveDocument
<1>2. /\ coll \in [made : BOOLEAN, validator : SUBSET Field, data : [Field \cup Link -> 0 .. MaxKey]]
      /\ cached.has \subseteq ColumnRow \cup LinkRow /\ untidy \in BOOLEAN
  BY DEF MongoInv, MongoTypeOK
<1>3. \A n \in Field \cup Link : Owners(n) # {} =>
         (CHOOSE x \in Owners(n) : TRUE) \in Owners(n)
  OBVIOUS
<1>4. \A n \in Field \cup Link : Kept_(n) \in 0 .. MaxKey
  BY <1>2, <1>3, Bounds DEF ColumnRow, LinkRow
<1>5. /\ coll' \in [made : BOOLEAN, validator : SUBSET Field, data : [Field \cup Link -> 0 .. MaxKey]]
      /\ coll'.made = coll.made /\ coll'.validator = coll.validator
      /\ \A n \in Field \cup Link : coll'.data[n] = Kept_(n)
  <2> HIDE DEF Kept_
  <2> QED BY <1>1, <1>2, <1>4
<1>6. untidy' \in BOOLEAN
  BY <1>1, <1>2
<1>7. MongoTypeOK'
  BY <1>1, <1>5, <1>6 DEF MongoInv, MongoTypeOK
<1>8. IdsAreOld' /\ InTimeHolds'
  BY <1>1 DEF MongoInv, IdsAreOld, InTimeHolds
<1>9. BodiesAreSensible'
  BY <1>1 DEF MongoInv, BodiesAreSensible, Sensible
<1>10. ASSUME ~untidy', Settled PROVE Settled'
  <2>1. cached.has = Described /\ renames = <<>>
    BY <1>1, <1>10
  <2>2. ASSUME NEW n \in Field \cup Link, coll'.data[n] # 0, coll'.data[n] # coll.data[n]
        PROVE  \E x \in Described : x.name = n /\ x.id = coll'.data[n]
    BY <1>3, <1>5, <2>1, <2>2
  <2> HIDE DEF Kept_, Owners
  <2>3. \A n : ~Pending(n) /\ ~Pending(n)'
    BY <1>1, <2>1 DEF Pending
  <2>4. /\ \A x \in rows.columns : x.name \in Field
        /\ \A x \in rows.links : x.name \in Link
    BY DEF MongoInv, MongoTypeOK, ColumnRow, LinkRow
  <2>5. FieldsDescribed'
    <3> SUFFICES ASSUME NEW n \in Field, coll'.data[n] # 0
                 PROVE  \E x \in rows.columns : x.id = coll'.data[n] /\ x.name = n
      BY <1>1, <2>3 DEF FieldsDescribed, Placed
    <3>1. CASE coll'.data[n] = coll.data[n]
      BY <1>10, <2>1, <2>3, <3>1 DEF Settled, AsDescribed, FieldsDescribed, Placed, OnTheMove
    <3>2. CASE coll'.data[n] # coll.data[n]
      BY <2>2, <2>4, <3>2, MongoAssumption DEF Described, ColumnsOf, LinksOf
    <3> QED BY <3>1, <3>2
  <2>6. LinksDescribed'
    <3> SUFFICES ASSUME NEW n \in Link, coll'.data[n] # 0
                 PROVE  \E x \in LinksOf(rows.table) : x.name = n /\ x.id = coll'.data[n]
      BY <1>1 DEF LinksDescribed, LinksOf
    <3>1. CASE coll'.data[n] = coll.data[n]
      BY <1>10, <3>1 DEF Settled, AsDescribed, LinksDescribed
    <3>2. CASE coll'.data[n] # coll.data[n]
      BY <2>2, <2>4, <3>2, MongoAssumption DEF Described, ColumnsOf, LinksOf
    <3> QED BY <3>1, <3>2
  <2> QED BY <1>1, <1>5, <1>10, <2>5, <2>6
          DEF Settled, AsDescribed, OwnColumns, NamesDiffer, RenamesApart, MadeWithTable, Names
<1>11. ASSUME ~untidy', NEW o \in Edit, edit[o].at \in Holding, PhaseOf(o) PROVE PhaseOf(o)'
  <2>1. edit[o].kind # "update"
    BY <1>1, <1>11
  <2>2. CASE edit[o].at \in {"begin", "release", "unlist"}
    <3>1. Settled'
      BY <1>10, <1>11, <2>2 DEF PhaseOf
    <3> QED BY <1>1, <1>11, <2>2, <3>1 DEF PhaseOf
  <2>3. CASE edit[o].at \in {"drop", "columns", "coll"}
    <3>1. Fresh
      BY <1>11, <2>1, <2>3 DEF PhaseOf, MongoInv, MongoTypeOK, EditState
    <3> QED BY <1>1, <3>1 DEF Fresh
  <2>4. CASE edit[o].at = "remove"
    BY <1>1, <1>11, <2>4 DEF PhaseOf
  <2> QED BY <1>11, <2>2, <2>3, <2>4 DEF Holding, Steps
<1>12. Consistent'
  <2> SUFFICES ASSUME ~untidy'
               PROVE  /\ OneAtATime' /\ (lockDoc.holder = NoEdit => Settled')
                      /\ \A p \in Edit : lockDoc.holder = p => PhaseOf(p)'
    BY <1>1 DEF Consistent
  <2>1. OneAtATime'
    BY <1>1 DEF MongoInv, Consistent, OneAtATime
  <2>2. lockDoc.holder = NoEdit => Settled'
    BY <1>1, <1>10 DEF MongoInv, Consistent
  <2>3. ASSUME NEW p \in Edit, lockDoc.holder = p PROVE PhaseOf(p)'
    BY <1>1, <1>11, <2>3 DEF MongoInv, Consistent, OneAtATime
  <2> QED BY <2>1, <2>2, <2>3
<1> QED BY <1>7, <1>8, <1>9, <1>12 DEF MongoInv

-----------------------------------------------------------------------------
\* Mishaps.

LEMMA FailsInv == ASSUME MongoInv, NEW o \in Edit, StatementFails(o) PROVE MongoInv'
<1>1. /\ UNCHANGED <<lockDoc, coll, cached, renames, keys, edits>>
      /\ edit[o].at \in Holding /\ mishaps < MaxMishaps /\ mishaps' = mishaps + 1
      /\ untidy' = TRUE /\ To(o, "release")
      /\ rows' = rows \/ rows' = [rows EXCEPT !.table = 0]
         \/ rows' = [rows EXCEPT !.table = 0, !.columns = rows.columns \ ColumnsOf(edit[o].table)]
  BY DEF StatementFails
<1>2. /\ rows \in [table : 0 .. MaxKey, columns : SUBSET ColumnRow, links : SUBSET LinkRow]
      /\ mishaps \in 0 .. MaxMishaps /\ keys \in 0 .. MaxKey /\ edit[o] \in EditState
  BY DEF MongoInv, MongoTypeOK
<1>3. /\ rows' \in [table : 0 .. MaxKey, columns : SUBSET ColumnRow, links : SUBSET LinkRow]
      /\ rows'.table \in {0, rows.table} /\ rows'.columns \subseteq rows.columns
      /\ rows'.links = rows.links
  <2>1. CASE rows' = rows
    BY <1>2, <2>1
  <2>2. CASE rows' = [rows EXCEPT !.table = 0]
    BY <1>2, <2>2, Bounds
  <2>3. CASE rows' = [rows EXCEPT !.table = 0, !.columns = rows.columns \ ColumnsOf(edit[o].table)]
    <3> DEFINE C == rows.columns \ ColumnsOf(edit[o].table)
    <3>1. rows' = [rows EXCEPT !.table = 0, !.columns = C] /\ C \subseteq rows.columns
      BY <2>3
    <3> HIDE DEF C
    <3>2. C \in SUBSET ColumnRow /\ 0 \in 0 .. MaxKey
      BY <1>2, <3>1, Bounds
    <3>3. rows' \in [table : 0 .. MaxKey, columns : SUBSET ColumnRow, links : SUBSET LinkRow]
      BY <1>2, <3>1, <3>2
    <3>4. rows'.table = 0 /\ rows'.columns = C /\ rows'.links = rows.links
      BY <1>2, <3>1
    <3> QED BY <3>1, <3>3, <3>4
  <2> QED BY <1>1, <2>1, <2>2, <2>3
<1>4. mishaps' \in 0 .. MaxMishaps /\ untidy' \in BOOLEAN
  BY <1>1, <1>2, Bounds
<1>5. /\ edit' \in [Edit -> EditState] /\ edit'[o] = [edit[o] EXCEPT !.at = "release"]
      /\ \A p \in Edit : p # o => edit'[p] = edit[p]
  BY <1>1, Going DEF MongoInv, Steps
<1>6. MongoTypeOK'
  BY <1>1, <1>3, <1>4, <1>5 DEF MongoInv, MongoTypeOK
<1>7. /\ edit'[o].body = edit[o].body /\ edit'[o].kind = edit[o].kind /\ edit'[o].todo = edit[o].todo
      /\ edit'[o].table = edit[o].table /\ edit'[o].old = edit[o].old /\ edit'[o].over = edit[o].over
  BY <1>2, <1>5 DEF EditState
<1>8. InTimeHolds'
  BY <1>1, <1>5, <1>7, InTimeKept DEF MongoInv
<1>9. IdsAreOld'
  BY <1>1, <1>2, <1>3 DEF MongoInv, IdsAreOld
<1>10. BodiesAreSensible'
  <2>1. IsFiniteSet(rows'.columns) /\ IsFiniteSet(rows'.links)
    BY <1>3, FS_Subset DEF MongoInv, BodiesAreSensible
  <2>2. Sensible(o) /\ keys \in Nat
    BY <1>2 DEF MongoInv, BodiesAreSensible
  <2>3. edit'[o].todo \subseteq edit[o].body.columns /\ IsFiniteSet(edit'[o].old)
    BY <1>7, <2>2 DEF Sensible
  <2>4. keys' \in Nat /\ keys <= keys'
    BY <1>1, <2>2
  <2>5. edit'[o].at \notin Tabled
    BY <1>2, <1>5 DEF EditState, Tabled
  <2> HIDE <1>1
  <2> QED BY <1>5, <1>7, <2>1, <2>3, <2>4, <2>5, BodiesKept DEF MongoInv
<1>11. Consistent'
  BY <1>1 DEF Consistent
<1> QED BY <1>6, <1>8, <1>9, <1>10, <1>11 DEF MongoInv

LEMMA CrashInv == ASSUME MongoInv, NEW o \in Edit, MongoCrash(o) PROVE MongoInv'
<1>1. /\ UNCHANGED <<lockDoc, rows, coll, cached, keys, edits>>
      /\ mishaps < MaxMishaps /\ mishaps' = mishaps + 1 /\ untidy' = TRUE
      /\ renames' = <<>> /\ Step(o, Resting)
  BY DEF MongoCrash
<1>2. /\ edit' \in [Edit -> EditState] /\ edit'[o] = Resting
      /\ \A p \in Edit : p # o => edit'[p] = edit[p]
  BY <1>1, RestingType, Stepping DEF MongoInv
<1>3. mishaps' \in 0 .. MaxMishaps /\ untidy' \in BOOLEAN
  BY <1>1, Bounds DEF MongoInv, MongoTypeOK
<1>4. renames' \in Seq([id : 1 .. MaxKey, old : Field, new : Field])
  BY <1>1
<1>5. MongoTypeOK'
  BY <1>1, <1>2, <1>3, <1>4 DEF MongoInv, MongoTypeOK
<1>6. InTimeHolds'
  BY <1>1, <1>2 DEF MongoInv, InTimeHolds, Holding, Resting
<1>7. IdsAreOld'
  BY <1>1 DEF MongoInv, IdsAreOld
<1>8. BodiesAreSensible'
  BY <1>1, <1>2, RestIsSensible DEF MongoInv
<1>9. Consistent'
  BY <1>1 DEF Consistent
<1> QED BY <1>5, <1>6, <1>7, <1>8, <1>9 DEF MongoInv

-----------------------------------------------------------------------------
\* The steps of the change that has the lock.

RowsWellFormed ==
    /\ rows \in [table : 0 .. MaxKey, columns : SUBSET ColumnRow, links : SUBSET LinkRow]
    /\ \A x, y \in rows.columns \cup rows.links : x.id = y.id => x = y
    /\ IsFiniteSet(rows.columns) /\ IsFiniteSet(rows.links)
    /\ IdsAreOld

CollType == [made : BOOLEAN, validator : SUBSET Field, data : [Field \cup Link -> 0 .. MaxKey]]
RenameType == [id : 1 .. MaxKey, old : Field, new : Field]

LEMMA RowsAreWellFormed ==
    ASSUME MongoInv
    PROVE  /\ RowsWellFormed /\ keys \in 0 .. MaxKey /\ keys \in Nat /\ untidy \in BOOLEAN
           /\ coll \in CollType /\ renames \in Seq(RenameType)
           /\ \A o \in Edit : edit[o] \in EditState /\ Sensible(o)
  BY Bounds DEF MongoInv, MongoTypeOK, BodiesAreSensible, RowsWellFormed, CollType, RenameType

LEMMA HolderInv ==
    ASSUME MongoInv, NEW o \in Edit, edit[o].at \in Holding, NEW e \in EditState, Step(o, e),
           e.at \in Holding, e.body = edit[o].body, e.kind = edit[o].kind, e.over = edit[o].over,
           e.todo \subseteq edit[o].body.columns, IsFiniteSet(e.old),
           e.table = edit[o].table \/ (e.table <= keys' /\ e.table # 0),
           e.at \in Tabled => e.table # 0,
           UNCHANGED <<lockDoc, cached, edits, mishaps>>,
           RowsWellFormed', coll' \in CollType, renames' \in Seq(RenameType),
           keys' \in 0 .. MaxKey, keys <= keys', untidy' \in BOOLEAN,
           edit'[o] = e => (~untidy' => ~untidy /\ (PhaseOf(o) => PhaseOf(o)'))
    PROVE  MongoInv'
<1>1. /\ edit' \in [Edit -> EditState] /\ edit'[o] = e
      /\ \A p \in Edit : p # o => edit'[p] = edit[p]
  BY Stepping DEF MongoInv
<1>2. MongoTypeOK'
  BY <1>1 DEF MongoInv, MongoTypeOK, RowsWellFormed, CollType, RenameType
<1>3. InTimeHolds'
  BY <1>1, InTimeKept DEF MongoInv
<1>4. IdsAreOld'
  BY DEF RowsWellFormed
<1>5. BodiesAreSensible'
  <2>1. keys' \in Nat
    OBVIOUS
  <2>2. IsFiniteSet(rows'.columns) /\ IsFiniteSet(rows'.links)
    BY DEF RowsWellFormed
  <2> QED BY <1>1, <2>1, <2>2, BodiesKept DEF MongoInv
<1>6. Consistent'
  BY <1>1, HolderMoves
<1> QED BY <1>2, <1>3, <1>4, <1>5, <1>6 DEF MongoInv

\* The rows do not change, and the call only goes on.
LEMMA HolderGoes ==
    ASSUME MongoInv, NEW o \in Edit, edit[o].at \in Holding, NEW s \in Holding, To(o, s),
           s \in Tabled => edit[o].table # 0,
           UNCHANGED <<lockDoc, cached, edits, mishaps, keys>>,
           RowsWellFormed', coll' \in CollType, renames' \in Seq(RenameType), untidy' \in BOOLEAN,
           edit'[o] = [edit[o] EXCEPT !.at = s] =>
              (~untidy' => ~untidy /\ (PhaseOf(o) => PhaseOf(o)'))
    PROVE  MongoInv'
<1> DEFINE e == [edit[o] EXCEPT !.at = s]
<1>1. edit[o] \in EditState /\ Sensible(o) /\ keys \in 0 .. MaxKey /\ keys \in Nat
  BY RowsAreWellFormed
<1>2. /\ e \in EditState /\ e.at = s /\ e.body = edit[o].body /\ e.kind = edit[o].kind
      /\ e.over = edit[o].over /\ e.todo = edit[o].todo /\ e.old = edit[o].old
      /\ e.table = edit[o].table
  BY <1>1 DEF EditState, Holding
<1>3. Step(o, e)
  BY DEF To
<1>4. keys' \in 0 .. MaxKey /\ keys <= keys' /\ e.todo \subseteq edit[o].body.columns /\ IsFiniteSet(e.old)
  BY <1>1, <1>2 DEF Sensible
<1>5. edit'[o] = e => (~untidy' => ~untidy /\ (PhaseOf(o) => PhaseOf(o)'))
  OBVIOUS
<1> HIDE DEF e
<1> QED BY <1>2, <1>3, <1>4, <1>5, HolderInv

\* What a state in EditState says when only its place is another.
LEMMA OnlyItsPlace ==
    ASSUME NEW o \in Edit, edit[o] \in EditState, NEW s, edit'[o] = [edit[o] EXCEPT !.at = s]
    PROVE  /\ edit'[o].at = s /\ edit'[o].body = edit[o].body /\ edit'[o].kind = edit[o].kind
           /\ edit'[o].todo = edit[o].todo /\ edit'[o].old = edit[o].old
           /\ edit'[o].table = edit[o].table
  BY DEF EditState

LEMMA MakeInv == ASSUME MongoInv, NEW o \in Edit, MakeCollection(o) PROVE MongoInv'
<1>1. /\ edit[o].at = "coll" /\ edit[o].kind = "create" /\ To(o, "release")
      /\ coll' = IF coll.made THEN coll
                 ELSE [coll EXCEPT !.made = TRUE, !.validator = Names(ColumnsOf(edit[o].table))]
      /\ UNCHANGED <<lockDoc, rows, cached, renames, keys, edits, mishaps, untidy>>
  BY DEF MakeCollection, InStep, Tidy
<1>2. RowsWellFormed /\ coll \in CollType /\ renames \in Seq(RenameType) /\ edit[o] \in EditState
      /\ untidy \in BOOLEAN
  BY RowsAreWellFormed
<1>3. RowsWellFormed'
  BY <1>1, <1>2 DEF RowsWellFormed, IdsAreOld
<1>4. Names(ColumnsOf(edit[o].table)) \in SUBSET Field
  BY <1>2 DEF RowsWellFormed, ColumnRow, Names, ColumnsOf
<1>5. /\ coll' \in CollType /\ coll'.made /\ coll'.data = coll.data
      /\ ~coll.made => coll'.validator = Names(ColumnsOf(edit[o].table))
  BY <1>1, <1>2, <1>4 DEF CollType
<1>6. ASSUME PhaseOf(o), edit'[o] = [edit[o] EXCEPT !.at = "release"] PROVE PhaseOf(o)'
  <2>1. /\ rows.table = edit[o].table /\ rows.table # 0 /\ OwnColumns /\ NamesDiffer /\ Fresh
        /\ renames = <<>>
    BY <1>1, <1>6 DEF PhaseOf
  <2>2. ColumnsOf(edit[o].table) = rows.columns
    BY <2>1 DEF OwnColumns, ColumnsOf
  <2>3. /\ coll'.validator = Names(rows.columns)
        /\ \A n \in Field \cup Link : coll'.data[n] = 0
    BY <1>5, <2>1, <2>2 DEF Fresh
  <2>4. Settled'
    BY <1>1, <1>5, <2>1, <2>3 DEF Settled, AsDescribed, OwnColumns, NamesDiffer, FieldsDescribed,
       LinksDescribed, RenamesApart, MadeWithTable, Names
  <2> QED BY <1>2, <1>6, <2>4, OnlyItsPlace DEF PhaseOf
<1> QED BY <1>1, <1>2, <1>3, <1>5, <1>6, HolderGoes DEF Holding, Steps, Tabled

LEMMA ModifyInv == ASSUME MongoInv, NEW o \in Edit, ModifyCollection(o) PROVE MongoInv'
<1>1. /\ edit[o].at = "coll" /\ edit[o].kind = "update" /\ To(o, "release")
      /\ coll' = IF cached.table # 0 /\ coll.made THEN [coll EXCEPT !.validator = Validated(o)] ELSE coll
      /\ untidy' = (untidy \/ cached.table = 0)
      /\ UNCHANGED <<lockDoc, rows, cached, renames, keys, edits, mishaps>>
  BY DEF ModifyCollection, InStep
<1>2. RowsWellFormed /\ coll \in CollType /\ renames \in Seq(RenameType) /\ edit[o] \in EditState
      /\ untidy \in BOOLEAN
  BY RowsAreWellFormed
<1>3. RowsWellFormed'
  BY <1>1, <1>2 DEF RowsWellFormed, IdsAreOld
<1>4. Validated(o) \in SUBSET Field
  BY <1>2 DEF RowsWellFormed, ColumnRow, Names, ColumnsOf, Validated
<1>5. /\ coll' \in CollType /\ coll'.data = coll.data /\ coll'.made = coll.made
      /\ cached.table # 0 /\ coll.made => coll'.validator = Validated(o)
  BY <1>1, <1>2, <1>4 DEF CollType
<1>6. ASSUME ~untidy', PhaseOf(o), edit'[o] = [edit[o] EXCEPT !.at = "release"] PROVE PhaseOf(o)'
  <2>1. /\ rows.table = edit[o].table /\ rows.table # 0 /\ OwnColumns /\ NamesDiffer
        /\ coll.made /\ RenamesApart /\ LinksDescribed /\ FieldsDescribed
    BY <1>1, <1>6 DEF PhaseOf
  <2>2. ColumnsOf(edit[o].table) = rows.columns
    BY <2>1 DEF OwnColumns, ColumnsOf
  <2>3. coll'.validator = Names(rows.columns)
    BY <1>1, <1>5, <1>6, <2>1, <2>2 DEF Validated
  <2>4. Settled'
    BY <1>1, <1>5, <2>1, <2>3 DEF Settled, AsDescribed, OwnColumns, NamesDiffer, FieldsDescribed,
       LinksDescribed, LinksOf, RenamesApart, MadeWithTable, Names, Placed, Pending, OnTheMove
  <2> QED BY <1>2, <1>6, <2>4, OnlyItsPlace, <1>1 DEF PhaseOf
<1>7. untidy' \in BOOLEAN /\ (~untidy' => ~untidy)
  BY <1>1, <1>2
<1> QED BY <1>1, <1>2, <1>3, <1>5, <1>6, <1>7, HolderGoes DEF Holding, Steps, Tabled

LEMMA InsertTableInv == ASSUME MongoInv, NEW o \in Edit, InsertTable(o) PROVE MongoInv'
<1>1. /\ edit[o].at = "begin" /\ edit[o].kind = "create"
      /\ UNCHANGED <<lockDoc, cached, renames, edits, mishaps, untidy>>
  BY DEF InsertTable, InStep, Tidy
<1>2. RowsWellFormed /\ coll \in CollType /\ renames \in Seq(RenameType) /\ edit[o] \in EditState
      /\ untidy \in BOOLEAN /\ keys \in 0 .. MaxKey /\ keys \in Nat /\ Sensible(o)
  BY RowsAreWellFormed
<1>3. CASE rows.table # 0
  <2>1. To(o, "release") /\ UNCHANGED <<rows, coll, keys>>
    BY <1>3 DEF InsertTable
  <2>2. RowsWellFormed'
    BY <1>2, <2>1 DEF RowsWellFormed, IdsAreOld
  <2>3. ASSUME PhaseOf(o), edit'[o] = [edit[o] EXCEPT !.at = "release"] PROVE PhaseOf(o)'
    <3>1. Settled'
      BY <1>1, <2>1, <2>3, SettledKept DEF PhaseOf
    <3> QED BY <1>2, <2>3, <3>1, OnlyItsPlace DEF PhaseOf
  <2> QED BY <1>1, <1>2, <2>1, <2>2, <2>3, HolderGoes DEF Holding, Steps, Tabled
<1>4. CASE rows.table = 0
  <2> DEFINE e == [edit[o] EXCEPT !.at = "columns", !.table = keys', !.todo = edit[o].body.columns]
             k == keys + 1
  <2>1. /\ keys < MaxKey /\ keys' = keys + 1 /\ rows' = [rows EXCEPT !.table = keys']
        /\ coll' = [made |-> FALSE, validator |-> {}, data |-> Empty]
        /\ Step(o, e)
    BY <1>4 DEF InsertTable
  <2>2. keys' \in 1 .. MaxKey /\ keys' \in 0 .. MaxKey /\ keys <= keys'
    BY <1>2, <2>1, Bounds
  <2>3. /\ e \in EditState /\ e.at = "columns" /\ e.body = edit[o].body /\ e.kind = edit[o].kind
        /\ e.over = edit[o].over /\ e.todo = edit[o].body.columns /\ e.old = edit[o].old
        /\ e.table = keys'
    BY <1>2, <2>2 DEF EditState, Steps
  <2> HIDE DEF e
  <2>4. /\ rows' \in [table : 0 .. MaxKey, columns : SUBSET ColumnRow, links : SUBSET LinkRow]
        /\ rows'.table = keys' /\ rows'.columns = rows.columns /\ rows'.links = rows.links
    BY <1>2, <2>1, <2>2 DEF RowsWellFormed
  <2>5. RowsWellFormed'
    <3>1. \A x \in rows.columns \cup rows.links : x.id \in Nat /\ x.of \in Nat
      BY <1>2 DEF RowsWellFormed, ColumnRow, LinkRow
    <3>2. \A x \in rows.columns \cup rows.links : x.id <= keys' /\ x.of <= keys'
      BY <1>2, <2>1, <3>1 DEF RowsWellFormed, IdsAreOld
    <3> QED BY <1>2, <2>2, <2>4, <3>2 DEF RowsWellFormed, IdsAreOld
  <2>6. /\ coll' \in CollType /\ ~coll'.made /\ coll'.validator = {}
        /\ \A n \in Field \cup Link : coll'.data[n] = 0
    BY <2>1, Bounds DEF CollType, Empty
  <2>7. ASSUME PhaseOf(o), edit'[o] = e PROVE PhaseOf(o)'
    <3>1. Settled /\ renames = <<>>
      BY <1>1, <2>7 DEF PhaseOf
    <3>2. rows.columns = {}
      BY <1>2, <1>4, <3>1 DEF Settled, AsDescribed, OwnColumns, RowsWellFormed, ColumnRow
    <3>3. RowsFollow(o)' /\ NewDiffer(o)' /\ OwnColumns' /\ Fresh'
      BY <2>4, <2>6, <3>2 DEF RowsFollow, NewDiffer, OwnColumns, Fresh
    <3> QED BY <1>1, <2>2, <2>3, <2>4, <2>7, <3>1, <3>3 DEF PhaseOf
  <2>8. e.at \in Holding /\ e.todo \subseteq edit[o].body.columns /\ IsFiniteSet(e.old)
        /\ e.table <= keys' /\ e.table # 0 /\ edit[o].at \in Holding
    BY <1>1, <1>2, <2>2, <2>3 DEF Holding, Steps, Sensible
  <2>9. UNCHANGED <<lockDoc, cached, edits, mishaps>> /\ renames' \in Seq(RenameType)
        /\ untidy' \in BOOLEAN /\ (edit'[o] = e => (~untidy' => ~untidy /\ (PhaseOf(o) => PhaseOf(o)')))
    BY <1>1, <1>2, <2>7
  <2> QED BY <2>1, <2>2, <2>3, <2>5, <2>6, <2>8, <2>9, HolderInv
<1> QED BY <1>3, <1>4

LEMMA FindTableInv == ASSUME MongoInv, NEW o \in Edit, FindTable(o) PROVE MongoInv'
<1>1. /\ edit[o].at = "begin" /\ edit[o].kind # "create"
      /\ UNCHANGED <<lockDoc, rows, coll, cached, renames, keys, edits, mishaps, untidy>>
  BY DEF FindTable, InStep
<1>2. RowsWellFormed /\ coll \in CollType /\ renames \in Seq(RenameType) /\ edit[o] \in EditState
      /\ untidy \in BOOLEAN /\ keys \in 0 .. MaxKey /\ keys \in Nat /\ Sensible(o)
  BY RowsAreWellFormed
<1>3. RowsWellFormed'
  BY <1>1, <1>2 DEF RowsWellFormed, IdsAreOld
<1>4. CASE rows.table # edit[o].table
  <2>1. To(o, "release")
    BY <1>4 DEF FindTable
  <2>3. ASSUME PhaseOf(o), edit'[o] = [edit[o] EXCEPT !.at = "release"] PROVE PhaseOf(o)'
    <3>1. Settled'
      BY <1>1, <2>1, <2>3, SettledKept DEF PhaseOf
    <3> QED BY <1>2, <2>3, <3>1, OnlyItsPlace DEF PhaseOf
  <2> QED BY <1>1, <1>2, <1>3, <2>1, <2>3, HolderGoes DEF Holding, Steps, Tabled
<1>5. CASE rows.table = edit[o].table
  <2> DEFINE s == IF edit[o].kind = "update" THEN "drop" ELSE "unlist"
             e == [edit[o] EXCEPT !.at = s, !.old = ColumnsOf(rows.table)]
  <2>1. Step(o, e)
    BY <1>5 DEF FindTable
  <2>2. ColumnsOf(rows.table) \in SUBSET ColumnRow /\ IsFiniteSet(ColumnsOf(rows.table))
    BY <1>2, FS_Subset DEF RowsWellFormed, ColumnsOf
  <2>3. s \in Steps /\ s \in {"drop", "unlist"} /\ (s = "drop" <=> edit[o].kind = "update")
    BY DEF Steps
  <2> HIDE DEF s
  <2>4. /\ e \in EditState /\ e.at = s /\ e.body = edit[o].body /\ e.kind = edit[o].kind
        /\ e.over = edit[o].over /\ e.todo = edit[o].todo /\ e.old = ColumnsOf(rows.table)
        /\ e.table = edit[o].table
    BY <1>2, <2>2, <2>3 DEF EditState
  <2> HIDE DEF e
  <2>5. ASSUME PhaseOf(o), edit'[o] = e PROVE PhaseOf(o)'
    <3>1. Settled /\ renames = <<>>
      BY <1>1, <2>5 DEF PhaseOf
    <3>2. edit[o].table # 0
      BY <1>1, <1>2 DEF Sensible
    <3>3. /\ coll.made /\ AsDescribed /\ ColumnsOf(rows.table) = rows.columns
      BY <1>5, <3>1, <3>2 DEF Settled, MadeWithTable, AsDescribed, OwnColumns, ColumnsOf
    <3>4. Settled' /\ renames' = <<>> /\ rows' = rows /\ coll'.made /\ AsDescribed'
      BY <1>1, <3>1, <3>3, SettledKept DEF Settled
    <3>5. edit[o].kind \in {"update", "delete"}
      BY <1>1, <1>2 DEF EditState
    <3> QED BY <1>5, <2>3, <2>4, <2>5, <3>2, <3>3, <3>4, <3>5 DEF PhaseOf, AsDescribed
  <2>6. e.at \in Holding /\ e.todo \subseteq edit[o].body.columns /\ IsFiniteSet(e.old)
        /\ edit[o].at \in Holding /\ e.table # 0
    BY <1>1, <1>2, <2>2, <2>3, <2>4 DEF Holding, Steps, Sensible
  <2>7. /\ coll' \in CollType /\ renames' \in Seq(RenameType) /\ untidy' \in BOOLEAN
        /\ keys' \in 0 .. MaxKey /\ keys <= keys' /\ UNCHANGED <<lockDoc, cached, edits, mishaps>>
        /\ edit'[o] = e => (~untidy' => ~untidy /\ (PhaseOf(o) => PhaseOf(o)'))
    BY <1>1, <1>2, <2>5
  <2> QED BY <1>3, <2>1, <2>4, <2>6, <2>7, HolderInv
<1> QED BY <1>4, <1>5

LEMMA DropColumnInv == ASSUME MongoInv, NEW o \in Edit, DropColumn(o) PROVE MongoInv'
<1>1. PICK c \in GoneColumns(o) :
          /\ coll' = [coll EXCEPT !.data = Unset(coll.data, {c.name})]
          /\ rows' = [rows EXCEPT !.columns = {x \in rows.columns : x.id # c.id}]
          /\ Step(o, [edit[o] EXCEPT !.old = edit[o].old \ {c}])
  BY DEF DropColumn
<1>2. edit[o].at = "drop" /\ UNCHANGED <<lockDoc, cached, renames, keys, edits, mishaps, untidy>>
  BY DEF DropColumn, InStep, Tidy
<1>3. RowsWellFormed /\ coll \in CollType /\ renames \in Seq(RenameType) /\ edit[o] \in EditState
      /\ untidy \in BOOLEAN /\ keys \in 0 .. MaxKey /\ keys \in Nat /\ Sensible(o)
  BY RowsAreWellFormed
<1>4. /\ rows' \in [table : 0 .. MaxKey, columns : SUBSET ColumnRow, links : SUBSET LinkRow]
      /\ rows'.table = rows.table /\ rows'.columns = {x \in rows.columns : x.id # c.id}
      /\ rows'.links = rows.links
  <2> DEFINE C == {x \in rows.columns : x.id # c.id}
  <2>1. C \in SUBSET ColumnRow
    BY <1>3 DEF RowsWellFormed
  <2> HIDE DEF C
  <2>2. rows' = [rows EXCEPT !.columns = C]
    BY <1>1 DEF C
  <2>3. /\ rows' \in [table : 0 .. MaxKey, columns : SUBSET ColumnRow, links : SUBSET LinkRow]
        /\ rows'.table = rows.table /\ rows'.columns = C /\ rows'.links = rows.links
    BY <1>3, <2>1, <2>2 DEF RowsWellFormed
  <2> QED BY <2>3 DEF C
<1>5. RowsWellFormed'
  <2>1. IsFiniteSet(rows'.columns)
    BY <1>3, <1>4, FS_Subset DEF RowsWellFormed
  <2> QED BY <1>2, <1>3, <1>4, <2>1 DEF RowsWellFormed, IdsAreOld
<1>6. /\ coll' \in CollType /\ coll'.made = coll.made /\ coll'.validator = coll.validator
      /\ \A n \in Field \cup Link : coll'.data[n] = IF n = c.name THEN 0 ELSE coll.data[n]
  <2>1. coll.data \in [Field \cup Link -> 0 .. MaxKey] /\ 0 \in 0 .. MaxKey
    BY <1>3, Bounds DEF CollType
  <2>2. Unset(coll.data, {c.name}) \in [Field \cup Link -> 0 .. MaxKey]
    BY <2>1 DEF Unset
  <2>3. \A n \in Field \cup Link :
           Unset(coll.data, {c.name})[n] = IF n = c.name THEN 0 ELSE coll.data[n]
    BY <2>1 DEF Unset
  <2> QED BY <1>1, <1>3, <2>2, <2>3 DEF CollType
<1> DEFINE e == [edit[o] EXCEPT !.old = edit[o].old \ {c}]
<1>7. /\ e \in EditState /\ e.at = "drop" /\ e.body = edit[o].body /\ e.kind = edit[o].kind
      /\ e.over = edit[o].over /\ e.todo = edit[o].todo /\ e.old = edit[o].old \ {c}
      /\ e.table = edit[o].table
  <2> DEFINE D == edit[o].old \ {c}
  <2>1. D \in SUBSET ColumnRow
    BY <1>3 DEF EditState
  <2> HIDE DEF D
  <2>2. e = [edit[o] EXCEPT !.old = D]
    BY DEF D
  <2>3. /\ e \in EditState /\ e.at = "drop" /\ e.body = edit[o].body /\ e.kind = edit[o].kind
        /\ e.over = edit[o].over /\ e.todo = edit[o].todo /\ e.old = D
        /\ e.table = edit[o].table
    BY <1>2, <1>3, <2>1, <2>2 DEF EditState
  <2> QED BY <2>3 DEF D
<1>8. Step(o, e)
  BY <1>1
<1> HIDE DEF e
<1>9. ASSUME PhaseOf(o), edit'[o] = e PROVE PhaseOf(o)'
  <2>1. /\ rows.table = edit[o].table /\ rows.table # 0 /\ OwnColumns /\ edit[o].kind = "update"
        /\ coll.made /\ renames = <<>> /\ AsDescribed /\ edit[o].old = rows.columns
    BY <1>2, <1>9 DEF PhaseOf
  <2>2. c \in rows.columns /\ c.name \in Field
    BY <1>3, <2>1 DEF GoneColumns, RowsWellFormed, ColumnRow
  <2>3. rows'.columns = rows.columns \ {c}
    BY <1>3, <1>4, <2>2 DEF RowsWellFormed
  <2>4. OwnColumns' /\ NamesDiffer' /\ RenamesApart'
    BY <1>2, <1>4, <2>1 DEF AsDescribed, OwnColumns, NamesDiffer, RenamesApart
  <2>5. LinksDescribed'
    BY <1>4, <1>6, <2>1, <2>2, MongoAssumption DEF AsDescribed, LinksDescribed, LinksOf
  <2>6. FieldsDescribed'
    <3> SUFFICES ASSUME NEW n \in Field, coll'.data[n] # 0
                 PROVE  \E x \in rows'.columns : x.id = coll'.data[n] /\ Placed(n, x.name)'
      BY DEF FieldsDescribed
    <3>1. n # c.name /\ coll'.data[n] = coll.data[n]
      BY <1>6
    <3>2. PICK x \in rows.columns : x.id = coll.data[n] /\ Placed(n, x.name)
      BY <2>1, <3>1 DEF AsDescribed, FieldsDescribed
    <3>3. x.name = n /\ ~Pending(n)
      BY <2>1, <3>2 DEF Placed, OnTheMove
    <3>4. x \in rows'.columns
      BY <2>3, <3>1, <3>2, <3>3
    <3>5. Placed(n, x.name)'
      BY <1>2, <3>3 DEF Placed, Pending
    <3> QED BY <3>1, <3>2, <3>4, <3>5
  <2> QED BY <1>2, <1>4, <1>6, <1>7, <1>9, <2>1, <2>3, <2>4, <2>5, <2>6 DEF PhaseOf, AsDescribed
<1>10. e.at \in Holding /\ e.todo \subseteq edit[o].body.columns /\ IsFiniteSet(e.old)
       /\ edit[o].at \in Holding /\ e.table # 0
  BY <1>2, <1>3, <1>7, FS_Subset DEF Holding, Steps, Sensible, Tabled
<1>11. /\ renames' \in Seq(RenameType) /\ untidy' \in BOOLEAN
       /\ keys' \in 0 .. MaxKey /\ keys <= keys' /\ UNCHANGED <<lockDoc, cached, edits, mishaps>>
       /\ edit'[o] = e => (~untidy' => ~untidy /\ (PhaseOf(o) => PhaseOf(o)'))
  BY <1>2, <1>3, <1>9
<1> QED BY <1>5, <1>6, <1>7, <1>8, <1>10, <1>11, HolderInv

LEMMA DeleteColumnRowsInv == ASSUME MongoInv, NEW o \in Edit, DeleteColumnRows(o) PROVE MongoInv'
<1> DEFINE C == rows.columns \ ColumnsOf(edit[o].table)
<1>1. /\ edit[o].at = "unlist" /\ To(o, "remove") /\ rows' = [rows EXCEPT !.columns = C]
      /\ UNCHANGED <<lockDoc, coll, cached, renames, keys, edits, mishaps, untidy>>
  BY DEF DeleteColumnRows, InStep, Tidy
<1>2. RowsWellFormed /\ coll \in CollType /\ renames \in Seq(RenameType) /\ edit[o] \in EditState
      /\ untidy \in BOOLEAN
  BY RowsAreWellFormed
<1>3. C \subseteq rows.columns /\ C \in SUBSET ColumnRow /\ IsFiniteSet(C)
  BY <1>2, FS_Subset DEF RowsWellFormed
<1>4. /\ rows' \in [table : 0 .. MaxKey, columns : SUBSET ColumnRow, links : SUBSET LinkRow]
      /\ rows'.table = rows.table /\ rows'.columns = C /\ rows'.links = rows.links
  <2> HIDE DEF C
  <2> QED BY <1>1, <1>2, <1>3 DEF RowsWellFormed
<1>5. RowsWellFormed'
  <2> HIDE DEF C
  <2> QED BY <1>1, <1>2, <1>3, <1>4 DEF RowsWellFormed, IdsAreOld
<1>6. ASSUME PhaseOf(o), edit'[o] = [edit[o] EXCEPT !.at = "remove"] PROVE PhaseOf(o)'
  <2>1. rows.table = edit[o].table /\ Settled /\ edit[o].kind = "delete" /\ renames = <<>>
    BY <1>1, <1>6 DEF PhaseOf
  <2>2. rows'.columns = {}
    BY <1>4, <2>1 DEF Settled, AsDescribed, OwnColumns, ColumnsOf
  <2> QED BY <1>1, <1>2, <1>4, <1>6, <2>1, <2>2, OnlyItsPlace DEF PhaseOf
<1> QED BY <1>1, <1>2, <1>5, <1>6, HolderGoes DEF Holding, Steps, Tabled

LEMMA DeleteTableRowInv == ASSUME MongoInv, NEW o \in Edit, DeleteTableRow(o) PROVE MongoInv'
<1>1. /\ edit[o].at = "remove" /\ rows' = [rows EXCEPT !.table = 0]
      /\ UNCHANGED <<lockDoc, coll, cached, edit, renames, keys, edits, mishaps, untidy>>
  BY DEF DeleteTableRow, InStep, Tidy
<1>2. RowsWellFormed /\ coll \in CollType /\ renames \in Seq(RenameType) /\ edit[o] \in EditState
      /\ untidy \in BOOLEAN /\ keys \in 0 .. MaxKey /\ keys \in Nat /\ Sensible(o)
  BY RowsAreWellFormed
<1>3. /\ rows' \in [table : 0 .. MaxKey, columns : SUBSET ColumnRow, links : SUBSET LinkRow]
      /\ rows'.table = 0 /\ rows'.columns = rows.columns /\ rows'.links = rows.links
  BY <1>1, <1>2, Bounds DEF RowsWellFormed
<1>4. RowsWellFormed'
  BY <1>1, <1>2, <1>3 DEF RowsWellFormed, IdsAreOld
<1>5. PhaseOf(o) => PhaseOf(o)'
  BY <1>1, <1>3 DEF PhaseOf
<1>6. Step(o, edit[o])
  BY <1>1 DEF Step, MongoInv, MongoTypeOK
<1>7. /\ edit[o].at \in Holding /\ edit[o].at \notin Tabled
      /\ edit[o].todo \subseteq edit[o].body.columns /\ IsFiniteSet(edit[o].old)
  BY <1>1, <1>2 DEF Holding, Steps, Tabled, Sensible
<1> QED BY <1>1, <1>2, <1>4, <1>5, <1>6, <1>7, HolderInv

LEMMA DropCollectionInv == ASSUME MongoInv, NEW o \in Edit, DropCollection(o) PROVE MongoInv'
<1>1. /\ edit[o].at = "remove" /\ rows.table # edit[o].table /\ To(o, "release")
      /\ coll' = [made |-> FALSE, validator |-> {}, data |-> Empty]
      /\ UNCHANGED <<lockDoc, rows, cached, renames, keys, edits, mishaps, untidy>>
  BY DEF DropCollection, InStep, Tidy
<1>2. RowsWellFormed /\ coll \in CollType /\ renames \in Seq(RenameType) /\ edit[o] \in EditState
      /\ untidy \in BOOLEAN
  BY RowsAreWellFormed
<1>3. RowsWellFormed'
  BY <1>1, <1>2 DEF RowsWellFormed, IdsAreOld
<1>4. /\ coll' \in CollType /\ ~coll'.made /\ coll'.validator = {}
      /\ \A n \in Field \cup Link : coll'.data[n] = 0
  BY <1>1, Bounds DEF CollType, Empty
<1>5. ASSUME PhaseOf(o), edit'[o] = [edit[o] EXCEPT !.at = "release"] PROVE PhaseOf(o)'
  <2>1. rows.columns = {} /\ rows.table = 0 /\ edit[o].kind = "delete" /\ renames = <<>>
    BY <1>1, <1>5 DEF PhaseOf
  <2>2. Settled'
    BY <1>1, <1>4, <2>1 DEF Settled, AsDescribed, OwnColumns, NamesDiffer, FieldsDescribed,
       LinksDescribed, RenamesApart, MadeWithTable, Names
  <2> QED BY <1>2, <1>5, <2>2, OnlyItsPlace DEF PhaseOf
<1> QED BY <1>1, <1>2, <1>3, <1>4, <1>5, HolderGoes DEF Holding, Steps, Tabled

\* A sequence of the elements of a set.
LEMMA SequenceOfSet ==
    ASSUME NEW S, IsFiniteSet(S), NEW f \in SetToSeqs(S)
    PROVE  /\ f \in Seq(S) /\ DOMAIN f = 1 .. Len(f) /\ Len(f) \in Nat
           /\ \A i, j \in DOMAIN f : f[i] = f[j] => i = j
           /\ \A x \in S : \E i \in DOMAIN f : f[i] = x
<1> DEFINE D == 1 .. Cardinality(S)
<1>1. Cardinality(S) \in Nat
  BY FS_CardinalityType
<1>2. f \in [D -> S] /\ \A i, j \in D : i # j => f[i] # f[j]
  BY DEF SetToSeqs
<1>3. f \in Seq(S) /\ Len(f) = Cardinality(S)
  BY <1>1, <1>2
<1>4. f \in Injection(D, S)
  BY <1>2 DEF Injection, IsInjective
<1>5. IsFiniteSet(D) /\ Cardinality(D) = Cardinality(S)
  BY <1>1, FS_Interval
<1>6. f \in Surjection(D, S)
  <2> HIDE DEF D
  <2> QED BY <1>4, <1>5, FS_Injection
<1> QED BY <1>1, <1>2, <1>3, <1>6 DEF Surjection

LEMMA StartRenamesInv == ASSUME MongoInv, NEW o \in Edit, StartRenames(o) PROVE MongoInv'
<1>1. PICK new \in SetToSeqs(Renamed(o)) : renames' = renames \o new
  BY DEF StartRenames
<1> DEFINE e == [edit[o] EXCEPT !.at = "columns", !.todo = edit[o].body.columns]
<1>2. /\ edit[o].at = "drop" /\ GoneColumns(o) = {} /\ Step(o, e)
      /\ untidy' = (untidy \/ \E x \in Renamed(o) : x.new \in Names(edit[o].old))
      /\ UNCHANGED <<lockDoc, rows, coll, cached, keys, edits, mishaps>>
  BY DEF StartRenames, InStep
<1>3. RowsWellFormed /\ coll \in CollType /\ renames \in Seq(RenameType) /\ edit[o] \in EditState
      /\ untidy \in BOOLEAN /\ keys \in 0 .. MaxKey /\ keys \in Nat /\ Sensible(o)
  BY RowsAreWellFormed
<1>4. RowsWellFormed'
  BY <1>2, <1>3 DEF RowsWellFormed, IdsAreOld
<1>5. /\ e \in EditState /\ e.at = "columns" /\ e.body = edit[o].body /\ e.kind = edit[o].kind
      /\ e.over = edit[o].over /\ e.todo = edit[o].body.columns /\ e.old = edit[o].old
      /\ e.table = edit[o].table
  BY <1>3 DEF EditState, Steps
<1> HIDE DEF e
<1>6. \A r : r \in Renamed(o) <=>
         \E c \in edit[o].body.columns, x \in edit[o].old :
            x.id = c.id /\ x.name # c.name /\ r = [id |-> c.id, old |-> x.name, new |-> c.name]
  BY DEF Renamed
<1>7. Renamed(o) \subseteq RenameType
  <2> SUFFICES ASSUME NEW c \in edit[o].body.columns, NEW x \in edit[o].old, x.id = c.id
               PROVE  [id |-> c.id, old |-> x.name, new |-> c.name] \in RenameType
    BY <1>6
  <2>1. x \in ColumnRow /\ c \in SentColumn
    BY <1>3 DEF EditState
  <2> QED BY <2>1 DEF ColumnRow, SentColumn, RenameType
<1>8. IsFiniteSet(Renamed(o))
  <2> DEFINE P == edit[o].body.columns \X edit[o].old
             f == [p \in P |-> [id |-> p[1].id, old |-> p[2].name, new |-> p[1].name]]
             T == {f[p] : p \in P}
  <2>1. IsFiniteSet(P)
    BY <1>3, FS_Product DEF Sensible
  <2>2. f \in Surjection(P, T)
    BY DEF Surjection
  <2>3. IsFiniteSet(T)
    <3> HIDE DEF P, f, T
    <3> QED BY <2>1, <2>2, FS_Surjection
  <2>4. \A c \in edit[o].body.columns, x \in edit[o].old :
           [id |-> c.id, old |-> x.name, new |-> c.name] \in T
    <3> SUFFICES ASSUME NEW c \in edit[o].body.columns, NEW x \in edit[o].old
                 PROVE  [id |-> c.id, old |-> x.name, new |-> c.name] \in T
      OBVIOUS
    <3>1. <<c, x>> \in P /\ f[<<c, x>>] = [id |-> c.id, old |-> x.name, new |-> c.name]
      OBVIOUS
    <3> HIDE DEF P, f
    <3> QED BY <3>1
  <2> HIDE DEF T
  <2>5. Renamed(o) \subseteq T
    BY <1>6, <2>4
  <2> QED BY <2>3, <2>5, FS_Subset
<1>9. /\ new \in Seq(Renamed(o)) /\ DOMAIN new = 1 .. Len(new) /\ Len(new) \in Nat
      /\ \A i, j \in DOMAIN new : new[i] = new[j] => i = j
      /\ \A x \in Renamed(o) : \E i \in DOMAIN new : new[i] = x
  BY <1>1, <1>8, SequenceOfSet
<1>10. new \in Seq(RenameType)
  BY <1>7, <1>9, SeqMonotonic
<1>11. renames' \in Seq(RenameType)
  BY <1>1, <1>3, <1>10
<1>12. untidy' \in BOOLEAN /\ (~untidy' => ~untidy)
  BY <1>2, <1>3
<1>13. ASSUME ~untidy', PhaseOf(o), edit'[o] = e PROVE PhaseOf(o)'
  <2>1. /\ rows.table = edit[o].table /\ rows.table # 0 /\ OwnColumns /\ edit[o].kind = "update"
        /\ coll.made /\ renames = <<>> /\ AsDescribed /\ edit[o].old = rows.columns
    BY <1>2, <1>13 DEF PhaseOf
  <2>2. renames' = new
    BY <1>1, <1>10, <2>1, ConcatEmptySeq
  <2>3. \A i \in DOMAIN new : \E c \in edit[o].body.columns, x \in rows.columns :
           x.id = c.id /\ x.name # c.name /\ new[i] = [id |-> c.id, old |-> x.name, new |-> c.name]
    <3> SUFFICES ASSUME NEW i \in DOMAIN new PROVE new[i] \in Renamed(o)
      BY <1>6, <2>1
    <3> QED BY <1>9
  <2>4. \A c \in edit[o].body.columns, x \in rows.columns :
           x.id = c.id /\ x.name # c.name =>
              \E i \in DOMAIN new : new[i] = [id |-> c.id, old |-> x.name, new |-> c.name]
    BY <1>6, <1>9, <2>1
  <2>5. /\ \A c, d \in edit[o].body.columns : c.id = d.id /\ c.id # 0 => c = d
        /\ \A x \in rows.columns : x.id # 0
    BY <1>3 DEF Sensible, RowsWellFormed, ColumnRow
  <2>6. \A i \in DOMAIN new : new[i].new \notin Names(rows.columns)
    <3> SUFFICES ASSUME NEW i \in DOMAIN new PROVE new[i] \in Renamed(o)
      BY <1>2, <1>13, <2>1
    <3> QED BY <1>9
  <2>7. RenamesApart'
    <3> SUFFICES ASSUME NEW i \in DOMAIN new, NEW j \in DOMAIN new
                 PROVE  new[i].new # new[j].old /\ (new[i].old = new[j].old => i = j)
      BY <2>2 DEF RenamesApart
    <3>1. PICK c \in edit[o].body.columns, x \in rows.columns :
             x.id = c.id /\ new[i] = [id |-> c.id, old |-> x.name, new |-> c.name]
      BY <2>3
    <3>2. PICK d \in edit[o].body.columns, y \in rows.columns :
             y.id = d.id /\ new[j] = [id |-> d.id, old |-> y.name, new |-> d.name]
      BY <2>3
    <3>3. new[j].old = y.name /\ y.name \in Names(rows.columns)
      BY <3>2 DEF Names
    <3>4. ASSUME new[i].old = new[j].old PROVE i = j
      <4>1. x = y
        BY <2>1, <3>1, <3>2, <3>4 DEF AsDescribed, NamesDiffer
      <4>2. c = d
        BY <2>5, <3>1, <3>2, <4>1
      <4> QED BY <1>9, <3>1, <3>2, <4>1, <4>2
    <3> QED BY <2>6, <3>3, <3>4
  <2>8. \A x \in rows.columns : \E c \in edit[o].body.columns : c.id = x.id
    BY <1>2, <2>1 DEF GoneColumns, Ids
  <2>9. RowsFollow(o)' /\ NewDiffer(o)'
    BY <1>2, <1>5, <1>13, <2>8 DEF RowsFollow, NewDiffer, Ids
  <2>10. FieldsFollow(o)'
    <3> SUFFICES ASSUME NEW n \in Field, coll.data[n] # 0
                 PROVE  \E c \in edit[o].body.columns, x \in rows.columns :
                           c.id = coll.data[n] /\ x.id = c.id /\ Placed(n, c.name)'
      BY <1>2, <1>5, <1>13 DEF FieldsFollow
    <3>1. PICK x \in rows.columns : x.id = coll.data[n] /\ Placed(n, x.name)
      BY <2>1 DEF AsDescribed, FieldsDescribed
    <3>2. x.name = n
      BY <2>1, <3>1 DEF Placed, OnTheMove
    <3>3. PICK c \in edit[o].body.columns : c.id = x.id
      BY <2>8
    <3>4. CASE c.name = n
      <4> SUFFICES ASSUME NEW i \in DOMAIN new, new[i].old = n PROVE FALSE
        BY <2>2, <3>1, <3>3, <3>4 DEF Placed, Pending
      <4>1. PICK d \in edit[o].body.columns, y \in rows.columns :
             /\ y.id = d.id /\ y.name # d.name
             /\ new[i] = [id |-> d.id, old |-> y.name, new |-> d.name]
        BY <2>3
      <4>2. y = x
        BY <2>1, <3>2, <4>1 DEF AsDescribed, NamesDiffer
      <4>3. d = c
        BY <2>5, <3>3, <4>1, <4>2
      <4> QED BY <3>2, <3>4, <4>1, <4>2, <4>3
    <3>5. CASE c.name # n
      <4>1. PICK i \in DOMAIN new : new[i] = [id |-> c.id, old |-> x.name, new |-> c.name]
        BY <2>4, <3>2, <3>3, <3>5
      <4>2. OnTheMove(n, c.name)'
        BY <1>2, <2>2, <3>1, <3>2, <3>3, <4>1 DEF OnTheMove
      <4> QED BY <3>1, <3>3, <4>2 DEF Placed
    <3> QED BY <3>4, <3>5
  <2>11. LinksDescribed' /\ OwnColumns'
    BY <1>2, <2>1 DEF AsDescribed, LinksDescribed, LinksOf, OwnColumns
  <2> QED BY <1>2, <1>5, <1>13, <2>1, <2>7, <2>9, <2>10, <2>11 DEF PhaseOf
<1>14. /\ e.at \in Holding /\ e.todo \subseteq edit[o].body.columns /\ IsFiniteSet(e.old)
       /\ edit[o].at \in Holding /\ e.table # 0
  BY <1>2, <1>3, <1>5 DEF Holding, Steps, Sensible, Tabled
<1>15. /\ coll' \in CollType /\ keys' \in 0 .. MaxKey /\ keys <= keys'
       /\ UNCHANGED <<lockDoc, cached, edits, mishaps>>
       /\ edit'[o] = e => (~untidy' => ~untidy /\ (PhaseOf(o) => PhaseOf(o)'))
  BY <1>2, <1>3, <1>12, <1>13
<1>16. Step(o, e)
  BY <1>2
<1> QED BY <1>4, <1>5, <1>11, <1>12, <1>14, <1>15, <1>16, HolderInv

LEMMA ColumnRenamed ==
    ASSUME NEW x \in ColumnRow, NEW n \in Field
    PROVE  /\ [x EXCEPT !.name = n] \in ColumnRow /\ [x EXCEPT !.name = n].id = x.id
           /\ [x EXCEPT !.name = n].of = x.of /\ [x EXCEPT !.name = n].name = n
  BY DEF ColumnRow

\* The rows of the columns once that of c is written.
LEMMA ColumnWritten ==
    ASSUME RowsWellFormed, NEW c \in SentColumn, NEW C,
           C = {IF x.id = c.id THEN [x EXCEPT !.name = c.name] ELSE x : x \in rows.columns}
    PROVE  /\ C \in SUBSET ColumnRow /\ IsFiniteSet(C)
           /\ \A r \in C : \E x \in rows.columns :
                 /\ r.id = x.id /\ r.of = x.of
                 /\ \/ x.id = c.id /\ r.name = c.name
                    \/ x.id # c.id /\ r = x
           /\ \A x \in rows.columns : \E r \in C : r.id = x.id
           /\ \A r, s \in C : r.id = s.id => r = s
<1> DEFINE f == [x \in rows.columns |-> IF x.id = c.id THEN [x EXCEPT !.name = c.name] ELSE x]
<1>1. /\ rows.columns \in SUBSET ColumnRow /\ IsFiniteSet(rows.columns) /\ c.name \in Field
      /\ \A x, y \in rows.columns : x.id = y.id => x = y
  BY DEF RowsWellFormed, SentColumn
<1>2. \A x \in rows.columns :
         /\ f[x] \in ColumnRow /\ f[x].id = x.id /\ f[x].of = x.of
         /\ \/ x.id = c.id /\ f[x].name = c.name
            \/ x.id # c.id /\ f[x] = x
  <2> SUFFICES ASSUME NEW x \in rows.columns
               PROVE  /\ f[x] \in ColumnRow /\ f[x].id = x.id /\ f[x].of = x.of
                      /\ \/ x.id = c.id /\ f[x].name = c.name
                         \/ x.id # c.id /\ f[x] = x
    OBVIOUS
  <2>1. f[x] = IF x.id = c.id THEN [x EXCEPT !.name = c.name] ELSE x
    OBVIOUS
  <2> HIDE DEF f
  <2> QED BY <1>1, <2>1, ColumnRenamed
<1>3. C = {f[x] : x \in rows.columns}
  OBVIOUS
<1>4. f \in Surjection(rows.columns, C)
  BY <1>3 DEF Surjection
<1> HIDE DEF f
<1>5. IsFiniteSet(C)
  BY <1>1, <1>4, FS_Surjection
<1>6. \A r, s \in C : r.id = s.id => r = s
  BY <1>1, <1>2, <1>3
<1> QED BY <1>2, <1>3, <1>5, <1>6

LEMMA WriteColumnInv == ASSUME MongoInv, NEW o \in Edit, WriteColumn(o) PROVE MongoInv'
<1>1. PICK c \in edit[o].todo :
          /\ IF c.id = 0
             THEN /\ keys < MaxKey
                  /\ keys' = keys + 1
                  /\ rows' = [rows EXCEPT !.columns = rows.columns \cup {Inserted(o, c)}]
             ELSE /\ rows' = [rows EXCEPT !.columns =
                        {IF x.id = c.id THEN [x EXCEPT !.name = c.name] ELSE x : x \in rows.columns}]
                  /\ UNCHANGED keys
          /\ Step(o, [edit[o] EXCEPT !.todo = edit[o].todo \ {c}])
  BY DEF WriteColumn
<1>2. edit[o].at = "columns" /\ UNCHANGED <<lockDoc, coll, cached, renames, edits, mishaps, untidy>>
  BY DEF WriteColumn, InStep, Tidy
<1>3. RowsWellFormed /\ coll \in CollType /\ renames \in Seq(RenameType) /\ edit[o] \in EditState
      /\ untidy \in BOOLEAN /\ keys \in 0 .. MaxKey /\ keys \in Nat /\ Sensible(o)
  BY RowsAreWellFormed
<1> DEFINE e == [edit[o] EXCEPT !.todo = edit[o].todo \ {c}]
<1>4. /\ e \in EditState /\ e.at = "columns" /\ e.body = edit[o].body /\ e.kind = edit[o].kind
      /\ e.over = edit[o].over /\ e.todo = edit[o].todo \ {c} /\ e.old = edit[o].old
      /\ e.table = edit[o].table
  <2> DEFINE D == edit[o].todo \ {c}
  <2>1. D \in SUBSET SentColumn
    BY <1>3 DEF EditState
  <2> HIDE DEF D
  <2>2. e = [edit[o] EXCEPT !.todo = D]
    BY DEF D
  <2>3. /\ e \in EditState /\ e.at = "columns" /\ e.body = edit[o].body /\ e.kind = edit[o].kind
        /\ e.over = edit[o].over /\ e.todo = D /\ e.old = edit[o].old
        /\ e.table = edit[o].table
    BY <1>2, <1>3, <2>1, <2>2 DEF EditState
  <2> QED BY <2>3 DEF D
<1>5. Step(o, e)
  BY <1>1
<1> HIDE DEF e
<1>6. /\ c \in SentColumn /\ c \in edit[o].body.columns /\ c \in edit[o].todo
      /\ edit[o].todo \subseteq edit[o].body.columns
      /\ \A d, b \in edit[o].body.columns : d.name = b.name => d = b
      /\ \A d \in edit[o].body.columns : d.id <= keys /\ d.id \in Nat
  BY <1>3 DEF EditState, Sensible, SentColumn
<1>7. e.at \in Holding /\ e.todo \subseteq edit[o].body.columns /\ IsFiniteSet(e.old)
      /\ edit[o].at \in Holding /\ e.table # 0 /\ edit[o].table # 0
  BY <1>2, <1>3, <1>4 DEF Holding, Steps, Sensible, Tabled
\* What a phase asks for, from what becomes of the rows.
<1>8. ASSUME PhaseOf(o), edit'[o] = e, rows'.table = rows.table, rows'.links = rows.links,
             RowsFollow(o) /\ OwnColumns => RowsFollow(o)' /\ OwnColumns',
             RowsFollow(o) /\ NewDiffer(o) => NewDiffer(o)',
             \A x \in rows.columns : \E r \in rows'.columns : r.id = x.id
      PROVE  PhaseOf(o)'
  <2>1. /\ rows.table = edit[o].table /\ rows.table # 0 /\ OwnColumns /\ edit[o].kind # "delete"
        /\ RowsFollow(o) /\ NewDiffer(o)
        /\ edit[o].kind = "create" => Fresh /\ renames = <<>>
        /\ edit[o].kind = "update" => coll.made /\ RenamesApart /\ LinksDescribed /\ FieldsFollow(o)
    BY <1>2, <1>8 DEF PhaseOf
  <2>2. Fresh => Fresh'
    BY <1>2 DEF Fresh
  <2>3. RenamesApart /\ LinksDescribed => RenamesApart' /\ LinksDescribed'
    BY <1>2, <1>8 DEF RenamesApart, LinksDescribed, LinksOf
  <2>4. FieldsFollow(o) => FieldsFollow(o)'
    <3>1. \A n, name : Placed(n, name) => Placed(n, name)'
      BY <1>2 DEF Placed, Pending, OnTheMove
    <3> SUFFICES ASSUME FieldsFollow(o), NEW n \in Field, coll.data[n] # 0
                 PROVE  \E b \in edit[o].body.columns, r \in rows'.columns :
                           b.id = coll.data[n] /\ r.id = b.id /\ Placed(n, b.name)'
      BY <1>2, <1>4, <1>8 DEF FieldsFollow
    <3>2. PICK b \in edit[o].body.columns, x \in rows.columns :
             b.id = coll.data[n] /\ x.id = b.id /\ Placed(n, b.name)
      BY DEF FieldsFollow
    <3>3. PICK r \in rows'.columns : r.id = x.id
      BY <1>8
    <3>4. Placed(n, b.name)'
      BY <3>1, <3>2
    <3> QED BY <3>2, <3>3, <3>4
  <2> QED BY <1>2, <1>4, <1>8, <2>1, <2>2, <2>3, <2>4 DEF PhaseOf
<1>9. CASE c.id = 0
  <2>1. /\ keys < MaxKey /\ keys' = keys + 1
        /\ rows' = [rows EXCEPT !.columns = rows.columns \cup {Inserted(o, c)}]
    BY <1>1, <1>9
  <2> DEFINE r == Inserted(o, c)
  <2>2. keys' \in 1 .. MaxKey /\ keys' \in 0 .. MaxKey /\ keys <= keys'
    BY <1>3, <2>1, Bounds
  <2>3. r \in ColumnRow /\ r.id = keys + 1 /\ r.name = c.name /\ r.of = edit[o].table
    <3>1. edit[o].table \in 1 .. MaxKey /\ c.name \in Field
      BY <1>3, <1>6, <1>7, Bounds DEF EditState, SentColumn
    <3> QED BY <2>1, <2>2, <3>1 DEF Inserted, ColumnRow
  <2>4. /\ rows' \in [table : 0 .. MaxKey, columns : SUBSET ColumnRow, links : SUBSET LinkRow]
        /\ rows'.table = rows.table /\ rows'.columns = rows.columns \cup {r}
        /\ rows'.links = rows.links
    <3> DEFINE C == rows.columns \cup {r}
    <3>1. C \in SUBSET ColumnRow
      BY <1>3, <2>3 DEF RowsWellFormed
    <3> HIDE DEF C, r
    <3>2. rows' = [rows EXCEPT !.columns = C]
      BY <2>1 DEF C, r
    <3>3. /\ rows' \in [table : 0 .. MaxKey, columns : SUBSET ColumnRow, links : SUBSET LinkRow]
          /\ rows'.table = rows.table /\ rows'.columns = C /\ rows'.links = rows.links
      BY <1>3, <3>1, <3>2 DEF RowsWellFormed
    <3> QED BY <3>3 DEF C
  <2> HIDE DEF r
  <2>5. RowsWellFormed'
    <3>0. IsFiniteSet(rows.columns)
      BY <1>3 DEF RowsWellFormed
    <3>1. IsFiniteSet(rows'.columns)
      BY <2>4, <3>0, FS_AddElement
    <3>2. /\ \A x \in rows.columns \cup rows.links : x.id \in Nat /\ x.of \in Nat
          /\ \A x \in rows.columns \cup rows.links : x.id <= keys /\ x.of <= keys
          /\ rows.table \in Nat /\ rows.table <= keys /\ edit[o].table \in Nat
          /\ edit[o].table <= keys
      BY <1>3, Bounds DEF RowsWellFormed, ColumnRow, LinkRow, IdsAreOld, Sensible, EditState
    <3>3. IdsAreOld'
      BY <1>3, <2>1, <2>3, <2>4, <3>2 DEF IdsAreOld
    <3>4. \A x, y \in rows'.columns \cup rows'.links : x.id = y.id => x = y
      BY <1>3, <2>3, <2>4, <3>2 DEF RowsWellFormed
    <3> QED BY <1>3, <2>4, <3>1, <3>3, <3>4 DEF RowsWellFormed
  <2>6. ASSUME edit'[o] = e, RowsFollow(o)
        PROVE  RowsFollow(o)'
    <3> SUFFICES ASSUME NEW x \in rows'.columns
                 PROVE  \E d \in edit[o].body.columns :
             \/ d.id = x.id /\ (d \in e.todo \/ d.name = x.name)
             \/ d.id = 0 /\ d \notin e.todo /\ d.name = x.name /\ x.id \notin Ids(edit[o].body.columns)
      BY <1>4, <2>6 DEF RowsFollow
    <3>1. CASE x = r
      <4>1. x.id \notin Ids(edit[o].body.columns)
        BY <1>3, <1>6, <2>3, <3>1 DEF Ids
      <4> QED BY <1>4, <1>6, <1>9, <2>3, <3>1, <4>1
    <3>2. CASE x \in rows.columns
      <4>1. x.id # 0
        BY <1>3, <3>2 DEF RowsWellFormed, ColumnRow
      <4> QED BY <1>4, <1>9, <2>6, <3>2, <4>1 DEF RowsFollow
    <3> QED BY <2>4, <3>1, <3>2
  <2>7. ASSUME edit'[o] = e, RowsFollow(o), NewDiffer(o)
        PROVE  NewDiffer(o)'
    <3>1. ASSUME NEW y \in rows.columns, y.id \notin Ids(edit[o].body.columns)
          PROVE  y.name # c.name
      BY <1>6, <2>7, <3>1 DEF RowsFollow, Ids
    <3> SUFFICES ASSUME NEW x \in rows'.columns, NEW y \in rows'.columns, x.name = y.name,
                        x.id \notin Ids(edit[o].body.columns), y.id \notin Ids(edit[o].body.columns)
                 PROVE  x = y
      BY <1>4, <2>7 DEF NewDiffer
    <3>2. CASE x \in rows.columns /\ y \in rows.columns
      BY <2>7, <3>2 DEF NewDiffer
    <3> QED BY <2>3, <2>4, <3>1, <3>2
  <2>8. OwnColumns /\ rows.table = edit[o].table => OwnColumns'
    BY <2>3, <2>4 DEF OwnColumns
  <2>9. ASSUME PhaseOf(o), edit'[o] = e PROVE PhaseOf(o)'
    <3>1. rows.table = edit[o].table
      BY <1>2, <2>9 DEF PhaseOf
    <3>2. \A x \in rows.columns : \E s \in rows'.columns : s.id = x.id
      BY <2>4
    <3> QED BY <1>8, <2>4, <2>6, <2>7, <2>8, <2>9, <3>1, <3>2
  <2>10. /\ coll' \in CollType /\ renames' \in Seq(RenameType) /\ untidy' \in BOOLEAN
         /\ UNCHANGED <<lockDoc, cached, edits, mishaps>>
         /\ edit'[o] = e => (~untidy' => ~untidy /\ (PhaseOf(o) => PhaseOf(o)'))
    BY <1>2, <1>3, <2>9
  <2> QED BY <1>4, <1>5, <1>7, <2>2, <2>5, <2>10, HolderInv
<1>10. CASE c.id # 0
  <2> DEFINE C == {IF x.id = c.id THEN [x EXCEPT !.name = c.name] ELSE x : x \in rows.columns}
  <2>1. rows' = [rows EXCEPT !.columns = C] /\ keys' = keys
    BY <1>1, <1>10
  <2>2. /\ C \in SUBSET ColumnRow /\ IsFiniteSet(C)
        /\ \A r \in C : \E x \in rows.columns :
              /\ r.id = x.id /\ r.of = x.of
              /\ \/ x.id = c.id /\ r.name = c.name
                 \/ x.id # c.id /\ r = x
        /\ \A x \in rows.columns : \E r \in C : r.id = x.id
        /\ \A r, s \in C : r.id = s.id => r = s
    BY <1>3, <1>6, ColumnWritten
  <2> HIDE DEF C
  <2>3. /\ rows' \in [table : 0 .. MaxKey, columns : SUBSET ColumnRow, links : SUBSET LinkRow]
        /\ rows'.table = rows.table /\ rows'.columns = C /\ rows'.links = rows.links
    BY <1>3, <2>1, <2>2 DEF RowsWellFormed
  <2>4. RowsWellFormed'
    <3>1. IdsAreOld'
      BY <1>3, <2>1, <2>2, <2>3 DEF RowsWellFormed, IdsAreOld
    <3>2. \A x \in rows.columns, y \in rows.links : x.id # y.id
      BY <1>3, MongoAssumption DEF RowsWellFormed, ColumnRow, LinkRow
    <3>3. \A x, y \in rows'.columns \cup rows'.links : x.id = y.id => x = y
      BY <1>3, <2>2, <2>3, <3>2 DEF RowsWellFormed
    <3> QED BY <1>3, <2>2, <2>3, <3>1, <3>3 DEF RowsWellFormed
  <2>5. ASSUME edit'[o] = e, RowsFollow(o)
        PROVE  RowsFollow(o)'
    <3> SUFFICES ASSUME NEW r \in C
                 PROVE  \E d \in edit[o].body.columns :
             \/ d.id = r.id /\ (d \in e.todo \/ d.name = r.name)
             \/ d.id = 0 /\ d \notin e.todo /\ d.name = r.name /\ r.id \notin Ids(edit[o].body.columns)
      BY <1>4, <2>3, <2>5 DEF RowsFollow
    <3>1. PICK x \in rows.columns : /\ r.id = x.id /\ r.of = x.of
                                    /\ \/ x.id = c.id /\ r.name = c.name
                                       \/ x.id # c.id /\ r = x
      BY <2>2
    <3>2. CASE x.id = c.id
      BY <1>6, <3>1, <3>2
    <3>3. CASE x.id # c.id /\ r = x
      BY <1>4, <1>10, <2>5, <3>3 DEF RowsFollow
    <3> QED BY <3>1, <3>2, <3>3
  <2>6. ASSUME edit'[o] = e, NewDiffer(o)
        PROVE  NewDiffer(o)'
    <3> SUFFICES ASSUME NEW x \in C, NEW y \in C, x.name = y.name,
                        x.id \notin Ids(edit[o].body.columns), y.id \notin Ids(edit[o].body.columns)
                 PROVE  x = y
      BY <1>4, <2>3, <2>6 DEF NewDiffer
    <3>1. c.id \in Ids(edit[o].body.columns)
      BY <1>6 DEF Ids
    <3>2. x \in rows.columns /\ y \in rows.columns
      BY <2>2, <3>1
    <3> QED BY <2>6, <3>2 DEF NewDiffer
  <2>7. OwnColumns => OwnColumns'
    BY <2>2, <2>3 DEF OwnColumns
  <2>8. ASSUME PhaseOf(o), edit'[o] = e PROVE PhaseOf(o)'
    BY <1>8, <2>2, <2>3, <2>5, <2>6, <2>7, <2>8
  <2>9. /\ coll' \in CollType /\ renames' \in Seq(RenameType) /\ untidy' \in BOOLEAN
        /\ keys' \in 0 .. MaxKey /\ keys <= keys' /\ UNCHANGED <<lockDoc, cached, edits, mishaps>>
        /\ edit'[o] = e => (~untidy' => ~untidy /\ (PhaseOf(o) => PhaseOf(o)'))
    BY <1>2, <1>3, <2>1, <2>8
  <2> QED BY <1>4, <1>5, <1>7, <2>4, <2>9, HolderInv
<1> QED BY <1>9, <1>10

LEMMA LinkRenamed ==
    ASSUME NEW x \in LinkRow, NEW n \in Link
    PROVE  /\ [x EXCEPT !.name = n] \in LinkRow /\ [x EXCEPT !.name = n].id = x.id
           /\ [x EXCEPT !.name = n].of = x.of /\ [x EXCEPT !.name = n].name = n
  BY DEF LinkRow

LEMMA RelinkedRow ==
    ASSUME NEW o \in Edit, edit[o] \in EditState, NEW x \in LinkRow
    PROVE  /\ Relinked(o, x) \in LinkRow /\ Relinked(o, x).id = x.id /\ Relinked(o, x).of = x.of
           /\ \/ Relinked(o, x) = x
              \/ \E y \in edit[o].body.links : y.id = x.id /\ Relinked(o, x).name = y.name
<1>1. CASE x.of = edit[o].table /\ x.id \in Ids(edit[o].body.links)
  <2> DEFINE y == CHOOSE z \in edit[o].body.links : z.id = x.id
  <2>1. y \in edit[o].body.links /\ y.id = x.id
    BY <1>1 DEF Ids
  <2>2. Relinked(o, x) = [x EXCEPT !.name = y.name]
    BY <1>1 DEF Relinked
  <2> HIDE DEF y
  <2>3. y.name \in Link
    BY <2>1 DEF EditState, SentLink
  <2> QED BY <2>1, <2>2, <2>3, LinkRenamed
<1>2. CASE ~(x.of = edit[o].table /\ x.id \in Ids(edit[o].body.links))
  BY <1>2 DEF Relinked
<1> QED BY <1>1, <1>2

\* The rows of the relations once they are written.
LinkRows(o, gone, new) ==
    {Relinked(o, x) : x \in rows.links \ gone}
    \cup {[id |-> keys + n, name |-> new[n].name, of |-> edit[o].table] : n \in DOMAIN new}

LEMMA LinksWritten ==
    ASSUME RowsWellFormed, NEW o \in Edit, edit[o] \in EditState, edit[o].table \in 1 .. MaxKey,
           NEW gone \in SUBSET rows.links, keys \in Nat,
           NEW new \in Seq(SentLink), keys + Len(new) <= MaxKey
    PROVE  /\ LinkRows(o, gone, new) \in SUBSET LinkRow /\ IsFiniteSet(LinkRows(o, gone, new))
           /\ \A r \in LinkRows(o, gone, new) : \/ \E x \in rows.links \ gone : r = Relinked(o, x)
                           \/ \E n \in DOMAIN new : /\ r.id = keys + n /\ r.name = new[n].name
                                                    /\ r.of = edit[o].table
           /\ \A x \in rows.links \ gone : Relinked(o, x) \in LinkRows(o, gone, new)
           /\ \A r \in LinkRows(o, gone, new) : r.id \in Nat /\ r.id <= keys + Len(new)
           /\ \A r, s \in LinkRows(o, gone, new) : r.id = s.id => r = s
<1> DEFINE L == LinkRows(o, gone, new)
           k == Len(new)
           A == {Relinked(o, x) : x \in rows.links \ gone}
           f == [x \in rows.links \ gone |-> Relinked(o, x)]
           g == [n \in 1 .. k |-> [id |-> keys + n, name |-> new[n].name, of |-> edit[o].table]]
           B == {g[n] : n \in 1 .. k}
<1>1. rows.links \in SUBSET LinkRow /\ IsFiniteSet(rows.links) /\ MaxKey \in Nat
      /\ (\A x, y \in rows.links : x.id = y.id => x = y)
      /\ (\A x \in rows.links : x.id <= keys)
  BY Bounds DEF RowsWellFormed, IdsAreOld
<1>2. DOMAIN new = 1 .. k /\ \A n \in 1 .. k : new[n] \in SentLink
  OBVIOUS
<1>0. k \in Nat /\ keys + k <= MaxKey
  OBVIOUS
<1> HIDE DEF k
<1>3. \A n \in 1 .. k : /\ g[n] \in LinkRow /\ g[n].id = keys + n /\ g[n].name = new[n].name
                        /\ g[n].of = edit[o].table
  <2> SUFFICES ASSUME NEW n \in 1 .. k
               PROVE  /\ g[n] \in LinkRow /\ g[n].id = keys + n /\ g[n].name = new[n].name
                      /\ g[n].of = edit[o].table
    OBVIOUS
  <2>1. g[n] = [id |-> keys + n, name |-> new[n].name, of |-> edit[o].table]
    OBVIOUS
  <2>2. keys + n \in 1 .. MaxKey
    BY <1>0, <1>1
  <2>3. new[n].name \in Link
    BY <1>2 DEF SentLink
  <2> HIDE DEF g
  <2> QED BY <2>1, <2>2, <2>3 DEF LinkRow
<1>4. L = A \cup B
  <2>1. \A n \in 1 .. k : g[n] = [id |-> keys + n, name |-> new[n].name, of |-> edit[o].table]
    OBVIOUS
  <2> HIDE DEF A, g
  <2>2. B = {[id |-> keys + n, name |-> new[n].name, of |-> edit[o].table] : n \in DOMAIN new}
    BY <1>2, <2>1
  <2> QED BY <2>2 DEF A, LinkRows
<1>5. A = {f[x] : x \in rows.links \ gone}
  OBVIOUS
<1>6. IsFiniteSet(A)
  <2>1. f \in Surjection(rows.links \ gone, A)
    BY <1>5 DEF Surjection
  <2>2. IsFiniteSet(rows.links \ gone)
    BY <1>1, FS_Difference
  <2> HIDE DEF A, f
  <2> QED BY <2>1, <2>2, FS_Surjection
<1>7. IsFiniteSet(B)
  <2>1. g \in Surjection(1 .. k, B)
    BY DEF Surjection
  <2>2. IsFiniteSet(1 .. k)
    BY <1>0, FS_Interval
  <2> HIDE DEF B, g
  <2> QED BY <2>1, <2>2, FS_Surjection
<1>8. \A x \in rows.links \ gone :
         /\ Relinked(o, x) \in LinkRow /\ Relinked(o, x).id = x.id /\ x.id \in Nat /\ x.id <= keys
         /\ Relinked(o, x).of = x.of
  BY <1>1, RelinkedRow DEF LinkRow
<1>9. \A r \in A : \E x \in rows.links \ gone : r = Relinked(o, x)
  OBVIOUS
<1>10. \A x \in rows.links \ gone : Relinked(o, x) \in A
  OBVIOUS
<1>11. \A r \in B : \E n \in 1 .. k : r = g[n]
  OBVIOUS
<1> HIDE DEF A, B, f, g, L
<1>12. IsFiniteSet(L)
  <2>1. IsFiniteSet(A \cup B)
    BY <1>6, <1>7, FS_Union
  <2> QED BY <1>4, <2>1
<1>13. L \in SUBSET LinkRow
  BY <1>3, <1>4, <1>8, <1>9, <1>11
<1>14. \A r \in L : r.id \in Nat /\ r.id <= keys + k
  BY <1>0, <1>3, <1>4, <1>8, <1>9, <1>11
<1>15. ASSUME NEW r \in L, NEW s \in L, r.id = s.id PROVE r = s
  <2>1. CASE r \in A /\ s \in A
    BY <1>1, <1>8, <1>9, <1>15, <2>1
  <2>2. CASE r \in B /\ s \in B
    BY <1>3, <1>11, <1>15, <2>2
  <2>3. ASSUME NEW a \in A, NEW b \in B PROVE a.id # b.id
    <3>1. a.id \in Nat /\ a.id <= keys
      BY <1>8, <1>9
    <3>2. PICK n \in 1 .. k : b.id = keys + n
      BY <1>3, <1>11
    <3> QED BY <3>1, <3>2
  <2> QED BY <1>4, <1>15, <2>1, <2>2, <2>3
<1>16. ASSUME NEW r \in L
       PROVE  \/ \E x \in rows.links \ gone : r = Relinked(o, x)
              \/ \E n \in DOMAIN new : /\ r.id = keys + n /\ r.name = new[n].name
                                       /\ r.of = edit[o].table
  BY <1>2, <1>3, <1>4, <1>9, <1>11
<1> QED BY <1>4, <1>10, <1>12, <1>13, <1>14, <1>15, <1>16 DEF k, L

LEMMA WriteLinksInv == ASSUME MongoInv, NEW o \in Edit, WriteLinks(o) PROVE MongoInv'
<1> DEFINE t == edit[o].table
           body == edit[o].body.links
           gone == {x \in LinksOf(t) : x.id \notin Ids(body)}
<1>1. PICK new \in SetToSeqs({x \in body : x.id = 0}) :
         /\ keys + Len(new) <= MaxKey
         /\ keys' = keys + Len(new)
         /\ coll' = IF edit[o].kind = "create" THEN coll
                    ELSE [coll EXCEPT !.data = Unset(coll.data, Names(body) \cup Names(gone))]
         /\ rows' = [rows EXCEPT !.links =
              {Relinked(o, x) : x \in rows.links \ gone}
              \cup {[id |-> keys + n, name |-> new[n].name, of |-> t] : n \in DOMAIN new}]
         /\ untidy' = (untidy \/ \E x \in LinksOf(t), y \in body : y.id = x.id /\ y.name # x.name)
  BY DEF WriteLinks
<1>2. /\ edit[o].at = "columns" /\ edit[o].todo = {} /\ To(o, "coll")
      /\ UNCHANGED <<lockDoc, cached, renames, edits, mishaps>>
  BY DEF WriteLinks, InStep
<1>3. RowsWellFormed /\ coll \in CollType /\ renames \in Seq(RenameType) /\ edit[o] \in EditState
      /\ untidy \in BOOLEAN /\ keys \in 0 .. MaxKey /\ keys \in Nat /\ Sensible(o)
  BY RowsAreWellFormed
<1> DEFINE e == [edit[o] EXCEPT !.at = "coll"]
<1>4. /\ e \in EditState /\ e.at = "coll" /\ e.body = edit[o].body /\ e.kind = edit[o].kind
      /\ e.over = edit[o].over /\ e.todo = {} /\ e.old = edit[o].old /\ e.table = t
  BY <1>2, <1>3 DEF EditState, Steps
<1>5. Step(o, e)
  BY <1>2 DEF To
<1> HIDE DEF e
<1>6. /\ body \in SUBSET SentLink /\ IsFiniteSet(body) /\ t \in 1 .. MaxKey /\ t <= keys
      /\ gone \in SUBSET rows.links
  BY <1>2, <1>3, Bounds DEF EditState, Sensible, Tabled, LinksOf
<1>7. new \in Seq(SentLink) /\ Len(new) \in Nat
  <2> DEFINE S == {x \in body : x.id = 0}
  <2>1. IsFiniteSet(S) /\ S \subseteq SentLink
    BY <1>6, FS_Subset
  <2> HIDE DEF S
  <2>2. new \in SetToSeqs(S)
    BY <1>1 DEF S
  <2>3. new \in Seq(S) /\ Len(new) \in Nat
    BY <2>1, <2>2, SequenceOfSet
  <2> QED BY <2>1, <2>3, SeqMonotonic
<1> DEFINE L == {Relinked(o, x) : x \in rows.links \ gone}
                \cup {[id |-> keys + n, name |-> new[n].name, of |-> t] : n \in DOMAIN new}
           k == Len(new)
<1>8. /\ L \in SUBSET LinkRow /\ IsFiniteSet(L)
      /\ \A r \in L : \/ \E x \in rows.links \ gone : r = Relinked(o, x)
                      \/ \E n \in DOMAIN new : /\ r.id = keys + n /\ r.name = new[n].name
                                               /\ r.of = t
      /\ \A r \in L : r.id \in Nat /\ r.id <= keys + k
      /\ \A r, s \in L : r.id = s.id => r = s
  <2>1. /\ RowsWellFormed /\ edit[o] \in EditState /\ t \in 1 .. MaxKey
        /\ gone \in SUBSET rows.links /\ keys \in Nat /\ k \in Nat
        /\ new \in Seq(SentLink) /\ keys + k <= MaxKey
    BY <1>1, <1>3, <1>6, <1>7
  <2>2. L = LinkRows(o, gone, new)
    BY DEF LinkRows
  <2> HIDE DEF gone, L
  <2>3. /\ LinkRows(o, gone, new) \in SUBSET LinkRow /\ IsFiniteSet(LinkRows(o, gone, new))
        /\ \A r \in LinkRows(o, gone, new) :
              \/ \E x \in rows.links \ gone : r = Relinked(o, x)
              \/ \E n \in DOMAIN new : r.id = keys + n /\ r.name = new[n].name /\ r.of = t
        /\ \A r \in LinkRows(o, gone, new) : r.id \in Nat /\ r.id <= keys + k
        /\ \A r, s \in LinkRows(o, gone, new) : r.id = s.id => r = s
    BY <2>1, LinksWritten
  <2> QED BY <2>2, <2>3
<1>9. rows' = [rows EXCEPT !.links = L]
  BY <1>1
<1> HIDE DEF L
<1>10. /\ rows' \in [table : 0 .. MaxKey, columns : SUBSET ColumnRow, links : SUBSET LinkRow]
       /\ rows'.table = rows.table /\ rows'.columns = rows.columns /\ rows'.links = L
  BY <1>3, <1>8, <1>9 DEF RowsWellFormed
<1>11. keys' \in 0 .. MaxKey /\ keys <= keys' /\ keys' = keys + k
  BY <1>1, <1>3, <1>7, Bounds
<1>12. RowsWellFormed'
  <2>1. /\ \A x \in rows.columns \cup rows.links : x.id \in Nat /\ x.of \in Nat
        /\ \A x \in rows.columns \cup rows.links : x.id <= keys /\ x.of <= keys
        /\ rows.table \in Nat /\ rows.table <= keys
    BY <1>3, Bounds DEF RowsWellFormed, ColumnRow, LinkRow, IdsAreOld
  <2>2. ASSUME NEW r \in L PROVE r.of <= keys
    <3>1. ASSUME NEW x \in rows.links, r = Relinked(o, x) PROVE r.of <= keys
      <4>1. x \in LinkRow
        BY <1>3 DEF RowsWellFormed
      <4> QED BY <1>3, <2>1, <3>1, <4>1, RelinkedRow
    <3> QED BY <1>6, <1>8, <3>1
  <2>3. ASSUME NEW r \in L, NEW c \in rows.columns PROVE r.id # c.id
    <3>1. ASSUME NEW x \in rows.links, r = Relinked(o, x) PROVE r.id # c.id
      <4>1. x \in LinkRow /\ c \in ColumnRow
        BY <1>3 DEF RowsWellFormed
      <4>2. x # c
        BY <4>1, MongoAssumption DEF LinkRow, ColumnRow
      <4>3. x.id # c.id
        BY <1>3, <4>2 DEF RowsWellFormed
      <4> QED BY <1>3, <3>1, <4>1, <4>3, RelinkedRow
    <3>2. ASSUME NEW n \in DOMAIN new, r.id = keys + n PROVE r.id # c.id
      <4>1. n \in 1 .. k
        BY <1>7
      <4> QED BY <1>3, <1>7, <2>1, <3>2, <4>1
    <3> QED BY <1>8, <3>1, <3>2
  <2>4. IdsAreOld'
    <3>1. \A r \in L : r.id <= keys' /\ r.of <= keys'
      <4>1. \A r \in L : r.of \in Nat
        BY <1>8 DEF LinkRow
      <4> QED BY <1>3, <1>7, <1>8, <1>11, <2>2, <4>1
    <3>2. \A x \in rows.columns : x.id <= keys' /\ x.of <= keys'
      BY <1>3, <1>7, <1>11, <2>1
    <3>3. rows.table <= keys'
      BY <1>3, <1>7, <1>11, <2>1
    <3> QED BY <1>10, <3>1, <3>2, <3>3 DEF IdsAreOld
  <2>5. \A x, y \in rows'.columns \cup rows'.links : x.id = y.id => x = y
    BY <1>3, <1>8, <1>10, <2>3 DEF RowsWellFormed
  <2>6. IsFiniteSet(rows'.columns) /\ IsFiniteSet(rows'.links)
    BY <1>3, <1>8, <1>10 DEF RowsWellFormed
  <2> QED BY <1>10, <2>4, <2>5, <2>6 DEF RowsWellFormed
<1> DEFINE off == Names(body) \cup Names(gone)
<1>13. off \subseteq Link
  BY <1>3, <1>6 DEF Names, SentLink, RowsWellFormed, LinkRow
<1>14. /\ coll' \in CollType /\ coll'.made = coll.made /\ coll'.validator = coll.validator
       /\ edit[o].kind = "create" => coll' = coll
       /\ edit[o].kind # "create" =>
             \A n \in Field \cup Link : coll'.data[n] = IF n \in off THEN 0 ELSE coll.data[n]
  <2> HIDE DEF off
  <2>1. CASE edit[o].kind = "create"
    BY <1>1, <1>3, <2>1
  <2>2. CASE edit[o].kind # "create"
    <3>1. coll' = [coll EXCEPT !.data = Unset(coll.data, off)]
      BY <1>1, <2>2 DEF off
    <3>2. coll.data \in [Field \cup Link -> 0 .. MaxKey] /\ 0 \in 0 .. MaxKey
      BY <1>3, Bounds DEF CollType
    <3>3. Unset(coll.data, off) \in [Field \cup Link -> 0 .. MaxKey]
      BY <3>2 DEF Unset
    <3>4. \A n \in Field \cup Link : Unset(coll.data, off)[n] = IF n \in off THEN 0 ELSE coll.data[n]
      BY <3>2 DEF Unset
    <3> QED BY <1>3, <2>2, <3>1, <3>3, <3>4 DEF CollType
  <2> QED BY <2>1, <2>2
<1>15. untidy' \in BOOLEAN /\ (~untidy' => ~untidy)
  BY <1>1, <1>3
<1>16. ASSUME ~untidy', PhaseOf(o), edit'[o] = e PROVE PhaseOf(o)'
  <2>1. /\ rows.table = t /\ rows.table # 0 /\ OwnColumns /\ edit[o].kind # "delete"
        /\ RowsFollow(o) /\ NewDiffer(o)
        /\ edit[o].kind = "create" => Fresh /\ renames = <<>>
        /\ edit[o].kind = "update" => coll.made /\ RenamesApart /\ LinksDescribed /\ FieldsFollow(o)
    BY <1>2, <1>16 DEF PhaseOf
  <2>2. \A x \in rows.columns : \E c \in edit[o].body.columns :
           \/ c.id = x.id /\ c.name = x.name
           \/ c.id = 0 /\ c.name = x.name /\ x.id \notin Ids(edit[o].body.columns)
    BY <1>2, <2>1 DEF RowsFollow
  <2>3. /\ \A c, d \in edit[o].body.columns : c.name = d.name \/ (c.id = d.id /\ c.id # 0) => c = d
        /\ \A x \in rows.columns : x.id # 0
        /\ \A x, y \in rows.columns : x.id = y.id => x = y
    BY <1>3 DEF Sensible, RowsWellFormed, ColumnRow
  <2>4. NamesDiffer
    <3> SUFFICES ASSUME NEW x \in rows.columns, NEW y \in rows.columns, x.name = y.name
                 PROVE  x = y
      BY DEF NamesDiffer
    <3>1. PICK c \in edit[o].body.columns :
             \/ c.id = x.id /\ c.name = x.name
             \/ c.id = 0 /\ c.name = x.name /\ x.id \notin Ids(edit[o].body.columns)
      BY <2>2
    <3>2. PICK d \in edit[o].body.columns :
             \/ d.id = y.id /\ d.name = y.name
             \/ d.id = 0 /\ d.name = y.name /\ y.id \notin Ids(edit[o].body.columns)
      BY <2>2
    <3>3. c = d
      BY <2>3, <3>1, <3>2
    <3>4. CASE c.id = 0
      BY <2>1, <2>3, <3>1, <3>2, <3>3, <3>4 DEF NewDiffer
    <3>5. CASE c.id # 0
      BY <2>3, <3>1, <3>2, <3>3, <3>5
    <3> QED BY <3>4, <3>5
  <2>5. NamesDiffer' /\ OwnColumns'
    BY <1>10, <2>1, <2>4 DEF NamesDiffer, OwnColumns
  <2>6. CASE edit[o].kind = "create"
    <3>1. Fresh'
      BY <1>14, <2>1, <2>6 DEF Fresh
    <3> QED BY <1>2, <1>4, <1>10, <1>16, <2>1, <2>5, <2>6, <3>1 DEF PhaseOf
  <2>7. CASE edit[o].kind = "update"
    <3>1. \A n \in Field : coll'.data[n] = coll.data[n]
      BY <1>13, <1>14, <2>7, MongoAssumption
    <3>2. FieldsDescribed'
      <4> SUFFICES ASSUME NEW n \in Field, coll.data[n] # 0
                   PROVE  \E x \in rows.columns : x.id = coll.data[n] /\ Placed(n, x.name)'
        BY <1>10, <3>1 DEF FieldsDescribed
      <4>1. PICK c \in edit[o].body.columns, x \in rows.columns :
               c.id = coll.data[n] /\ x.id = c.id /\ Placed(n, c.name)
        BY <2>1, <2>7 DEF FieldsFollow
      <4>2. x.name = c.name
        BY <2>2, <2>3, <4>1 DEF Ids
      <4>3. Placed(n, c.name)'
        BY <1>2, <3>1, <4>1 DEF Placed, Pending, OnTheMove
      <4> QED BY <4>1, <4>2, <4>3
    <3>3. LinksDescribed'
      <4> SUFFICES ASSUME NEW n \in Link, coll'.data[n] # 0 PROVE FALSE
        BY DEF LinksDescribed
      <4>1. n \notin off /\ coll'.data[n] = coll.data[n]
        BY <1>14, <2>7
      <4>2. PICK x \in LinksOf(t) : x.name = n
        BY <2>1, <2>7, <4>1 DEF LinksDescribed
      <4>3. x.id \in Ids(body)
        BY <4>1, <4>2 DEF Names
      <4>4. PICK y \in body : y.id = x.id
        BY <4>3 DEF Ids
      <4>5. y.name # n
        BY <4>1 DEF Names
      <4> QED BY <1>1, <1>16, <4>2, <4>4, <4>5
    <3>4. RenamesApart' /\ coll'.made
      BY <1>2, <1>14, <2>1, <2>7 DEF RenamesApart
    <3> QED BY <1>2, <1>4, <1>10, <1>16, <2>1, <2>5, <2>7, <3>2, <3>3, <3>4 DEF PhaseOf
  <2> QED BY <1>3, <2>1, <2>6, <2>7 DEF EditState
<1>17. /\ e.at \in Holding /\ e.todo \subseteq edit[o].body.columns /\ IsFiniteSet(e.old)
       /\ edit[o].at \in Holding /\ e.table # 0
  BY <1>2, <1>3, <1>4, <1>6 DEF Holding, Steps, Sensible
<1>18. /\ UNCHANGED <<lockDoc, cached, edits, mishaps>> /\ renames' \in Seq(RenameType)
       /\ edit'[o] = e => (~untidy' => ~untidy /\ (PhaseOf(o) => PhaseOf(o)'))
  BY <1>2, <1>3, <1>15, <1>16
<1> QED BY <1>4, <1>5, <1>11, <1>12, <1>14, <1>15, <1>17, <1>18, HolderInv

LEMMA NextMongoInv == MongoInv /\ [MongoNext]_mongoVars => MongoInv'
<1> SUFFICES ASSUME MongoInv, [MongoNext]_mongoVars PROVE MongoInv'
  OBVIOUS
<1>1. ASSUME NEW o \in Edit, MongoStep(o) PROVE MongoInv'
  BY <1>1, AcquireInv, ReleaseInv, InsertTableInv, FindTableInv, DropColumnInv, StartRenamesInv,
     WriteColumnInv, WriteLinksInv, MakeInv, ModifyInv, DeleteColumnRowsInv, DeleteTableRowInv,
     DropCollectionInv DEF MongoStep
<1>2. CASE UNCHANGED mongoVars
  <2>1. UNCHANGED <<lockDoc, rows, coll, cached, edit, renames, keys, edits, mishaps, untidy>>
    BY <1>2 DEF mongoVars
  <2>2. MongoTypeOK' /\ InTimeHolds' /\ IdsAreOld'
    BY <2>1 DEF MongoInv, MongoTypeOK, InTimeHolds, IdsAreOld
  <2>3. BodiesAreSensible'
    BY <2>1 DEF MongoInv, BodiesAreSensible, Sensible
  <2>4. Consistent'
    BY <2>1, PhaseKept, SettledKept DEF MongoInv, Consistent, OneAtATime
  <2> QED BY <2>2, <2>3, <2>4 DEF MongoInv
<1> QED BY <1>1, <1>2, CallInv, FailsInv, CrashInv, ExpireInv, ReloadInv, RenameInv, SaveInv
        DEF MongoNext

LEMMA AlwaysMongoInv == MongoSpec => []MongoInv
  BY InitMongoInv, NextMongoInv, PTL DEF MongoSpec

LEMMA TimelyLockIsKept == MongoInv => LockIsKept
  BY DEF MongoInv, InTimeHolds, LockIsKept

\* Nothing is under way: the lock is free, and the renames are done.
LEMMA ConsistentIsDescribed == MongoInv => CollectionAsDescribed
<1> SUFFICES ASSUME MongoInv, ~untidy, renames = <<>>, \A o \in Edit : edit[o].at \in {"idle", "ready"}
             PROVE  /\ coll.made <=> rows.table # 0
                    /\ coll.validator = Names(ColumnsOf(rows.table))
                    /\ \A c \in rows.columns : c.of = rows.table
                    /\ \A n \in Field \cup Link : coll.data[n] # 0 =>
                          \E x \in ColumnsOf(rows.table) \cup LinksOf(rows.table) :
                             x.name = n /\ x.id = coll.data[n]
  BY DEF CollectionAsDescribed
<1>1. lockDoc.holder \in Edit \cup {NoEdit}
  BY DEF MongoInv, MongoTypeOK
<1>2. lockDoc.holder = NoEdit /\ Settled
  BY <1>1 DEF MongoInv, Consistent, OneAtATime, Holding
<1>3. ColumnsOf(rows.table) = rows.columns
  BY <1>2 DEF Settled, AsDescribed, OwnColumns, ColumnsOf
<1>4. ASSUME NEW n \in Field, coll.data[n] # 0
      PROVE  \E x \in rows.columns : x.name = n /\ x.id = coll.data[n]
  BY <1>2, <1>4 DEF Settled, AsDescribed, FieldsDescribed, Placed, OnTheMove
<1>5. ASSUME NEW n \in Link, coll.data[n] # 0
      PROVE  \E x \in LinksOf(rows.table) : x.name = n /\ x.id = coll.data[n]
  BY <1>2, <1>5 DEF Settled, AsDescribed, LinksDescribed
<1> QED BY <1>2, <1>3, <1>4, <1>5 DEF Settled, AsDescribed, OwnColumns, MadeWithTable

-----------------------------------------------------------------------------
(***************************************************************************)
(* Every variable keeps its type; ids are those of one row.                *)
(***************************************************************************)
THEOREM MongoTypeCorrect == MongoSpec => []MongoTypeOK
<1>1. MongoInv => MongoTypeOK
  BY DEF MongoInv
<1> QED BY <1>1, AlwaysMongoInv, PTL

(***************************************************************************)
(* A change within its five minutes has the lock document until it is done *)
(* (MongoSchemaMigrationLockService), whatever fails or ends meanwhile and *)
(* however many changes have overstayed.                                   *)
(***************************************************************************)
THEOREM TimelyChangeHasLock == MongoSpec => []LockIsKept
  BY TimelyLockIsKept, AlwaysMongoInv, PTL

(***************************************************************************)
(* When no change is at work and no rename pending, the collection, its    *)
(* validator and its documents are as the metadata says, as long as        *)
(* nothing untidy has happened: no failure, crash or expired lock, no call  *)
(* or document while renames were pending, no renamed relation, no name    *)
(* taken from a column that had it, no update before the cache had the     *)
(* table, no document written during an update or by a stale cache         *)
(* (MongoTableHandlerService.updateTable()).                               *)
(***************************************************************************)
THEOREM CollectionMatchesMetadata == MongoSpec => []CollectionAsDescribed
  BY ConsistentIsDescribed, AlwaysMongoInv, PTL

-----------------------------------------------------------------------------
\* Both locks.

LocksInv == Inv /\ RowNamesARunningChange /\ MongoInv

LEMMA InitLocksInv == MCInit => LocksInv
  BY InitInv, InitRow, InitMongoInv DEF MCInit, LocksInv

\* A step of one is none of the other.
LEMMA EitherLockSteps ==
    [MCNext]_allVars => [Next]_vars /\ [MongoNext]_mongoVars
  BY DEF MCNext, allVars

LEMMA NextLocksInv == LocksInv /\ [MCNext]_allVars => LocksInv'
<1>1. Inv => TypeOK
  BY DEF Inv
<1> QED BY <1>1, EitherLockSteps, NextInv, NextRow, NextMongoInv DEF LocksInv

LEMMA AlwaysLocksInv == MCSpec => []LocksInv
  BY InitLocksInv, NextLocksInv, PTL DEF MCSpec

(***************************************************************************)
(* Every variable of both keeps its type.                                  *)
(***************************************************************************)
THEOREM LocksTypeCorrect == MCSpec => []TypesOK
<1>1. LocksInv => TypesOK
  BY DEF LocksInv, Inv, MongoInv, TypesOK
<1> QED BY <1>1, AlwaysLocksInv, PTL

(***************************************************************************)
(* Until a loss, changes of two instances never run together on SQL and    *)
(* the row names a change that is under way; on MongoDB a change in time   *)
(* has the document until it is done.                                      *)
(***************************************************************************)
THEOREM LocksStayTheirHolders == MCSpec => []LocksAreKept
<1>1. LocksInv => LocksAreKept
  BY TimelyLockIsKept
  DEF LocksInv, Inv, HeldByItsInstance, OneInstanceAtATime, LocksAreKept
<1> QED BY <1>1, AlwaysLocksInv, PTL
=============================================================================
