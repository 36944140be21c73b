----------------------------- MODULE SchemaGate -----------------------------
(***************************************************************************)
(* What the schema migration lock gives to schema changes: changes of two  *)
(* instances never run together.  It gives no more than that: two changes  *)
(* of one instance may.                                                    *)
(***************************************************************************)
CONSTANTS Change,   \* concurrent calls of createTable(), updateTable(), delete()
          At        \* the instance each one runs on

VARIABLE active     \* changes that hold the lock

GateInit == active = {}

Enter(o) == /\ o \notin active
            /\ \A p \in active : At[p] = At[o]
            /\ active' = active \cup {o}

Leave(O) == /\ O \subseteq active
            /\ active' = active \ O

GateNext == \/ \E o \in Change : Enter(o)
            \/ \E O \in SUBSET Change : Leave(O)

GateSpec == GateInit /\ [][GateNext]_active
=============================================================================
