--------------------------- MODULE ReloadProtocol ---------------------------
(***************************************************************************)
(* The reload protocol that every in-memory cache of an Enfyra instance    *)
(* follows: take a Redis lock keyed by the cache, load the rows from the   *)
(* database, broadcast them on a Redis channel, keep them, give the lock   *)
(* back.  This module holds the state the caches share - the database, the *)
(* lock, the subscriber connections, the calls of reload() - and the steps *)
(* that are the same in all of them; MetadataCache and RouteCache add what *)
(* each one does with a loaded or received snapshot.                       *)
(*                                                                         *)
(* A process gets a fresh random instance id when it starts, so a restart  *)
(* is another member of Inst that boots, and a crashed one never returns.  *)
(* Database content is a version number: the number of committed writes.   *)
(***************************************************************************)
EXTENDS Naturals, Sequences

CONSTANTS Inst,        \* instance ids, one per process lifetime
          Call,        \* concurrent calls of reload()
          At,          \* the instance each call runs on
          None,        \* "no value": a free lock, an empty cache
          MaxVersion,  \* bound on database writes
          MaxBegun,    \* bound on the calls of reload() that are begun
          Faults       \* which faults may happen, a subset of AllFaults

(***************************************************************************)
(* "crash": a process dies between two steps.                              *)
(* "slow":  a reload outlives its 30 s lock, or FLUSHALL removes the lock. *)
(* "redis": a Redis command of acquire or release fails.                   *)
(* "db":    a query fails.                                                 *)
(* "loss":  PUBLISH fails, or a subscriber is disconnected when it happens.*)
(* "late":  a broadcast is still unread when its receiver's own next load  *)
(*          finishes.                                                      *)
(***************************************************************************)
AllFaults == {"crash", "slow", "redis", "db", "loss", "late"}

ASSUME ReloadAssumption ==
    /\ At \in [Call -> Inst]
    /\ None \notin Inst \cup Call \cup Nat
    /\ MaxVersion \in Nat
    /\ MaxBegun \in Nat
    /\ Faults \subseteq AllFaults

VARIABLES db,       \* version of the database
          lock,     \* value of the cache's lock key in Redis
          owner,    \* history: the call whose acquire set the lock key
          status,   \* life of each process
          pc,       \* where each call of reload() is
          snap,     \* what each call has loaded
          inbox,    \* broadcasts sent to a subscriber and not yet handled
          begun,    \* number of calls begun
          lastPub   \* history: the last broadcast

protocolVars == <<db, lock, owner, status, pc, snap, inbox, begun, lastPub>>

Version == 0 .. MaxVersion
InSection == {"load", "publish", "set", "release"}   \* between acquire and release
Fills == {"fillLoad", "fillSet"}                      \* a lock-less fill

ProtocolTypeOK ==
    /\ db \in Version
    /\ lock \in Inst \cup {None}
    /\ owner \in Call \cup {None}
    /\ status \in [Inst -> {"off", "running", "down"}]
    /\ pc \in [Call -> {"idle", "acquire"} \cup InSection \cup Fills]
    /\ snap \in [Call -> Version]
    /\ begun \in 0 .. MaxBegun

ProtocolInit ==
    /\ db = 0
    /\ lock = None
    /\ owner = None
    /\ status = [i \in Inst |-> "off"]
    /\ pc = [p \in Call |-> "idle"]
    /\ snap = [p \in Call |-> 0]
    /\ inbox = [i \in Inst |-> <<>>]
    /\ begun = 0
    /\ lastPub = None

-----------------------------------------------------------------------------
Running(i) == status[i] = "running"

\* Call p goes from one place of reload() to the next.
Go(p, from, to) == /\ pc[p] = from
                   /\ pc' = [pc EXCEPT ![p] = to]

\* The last use of what call p has loaded.
Drop(p) == snap' = [snap EXCEPT ![p] = 0]

BeginAt(p, to) ==
    /\ Go(p, "idle", to)
    /\ begun < MaxBegun
    /\ begun' = begun + 1

\* A process starts: it subscribes to the channel, then reloads.
Boot(p) ==
    /\ status[At[p]] = "off"
    /\ status' = [status EXCEPT ![At[p]] = "running"]
    /\ BeginAt(p, "acquire")
    /\ UNCHANGED <<db, lock, owner, snap, inbox, lastPub>>

\* An administrator, or a write that this model does not track, reloads.
RequestReload(p) ==
    /\ Running(At[p])
    /\ BeginAt(p, "acquire")
    /\ UNCHANGED <<db, lock, owner, status, snap, inbox, lastPub>>

\* A request writes rows; the repository then calls reload().
WriteAndReload(p) ==
    /\ Running(At[p])
    /\ db < MaxVersion
    /\ db' = db + 1
    /\ BeginAt(p, "acquire")
    /\ UNCHANGED <<lock, owner, status, snap, inbox, lastPub>>

\* A request writes rows, and reading them back throws: no reload follows.
WriteOnly(p) ==
    /\ "db" \in Faults
    /\ Running(At[p])
    /\ pc[p] = "idle"
    /\ db < MaxVersion
    /\ db' = db + 1
    /\ UNCHANGED <<lock, owner, status, pc, snap, inbox, begun, lastPub>>

\* Mutation of Acquire: SET without NX takes the key whoever holds it.
AcquireWithoutNX(p) ==
    /\ Go(p, "acquire", "load")
    /\ lock' = At[p]
    /\ owner' = p
    /\ UNCHANGED <<db, status, snap, inbox, begun, lastPub>>

\* SET key instanceId PX ttl NX answers OK.
Acquire(p) ==
    /\ Go(p, "acquire", "load")
    /\ lock = None
    /\ lock' = At[p]
    /\ owner' = p
    /\ UNCHANGED <<db, status, snap, inbox, begun, lastPub>>

\* The key exists: reload() returns, "waiting for broadcast".
Skip(p) ==
    /\ Go(p, "acquire", "idle")
    /\ lock # None
    /\ UNCHANGED <<db, lock, owner, status, snap, inbox, begun, lastPub>>

\* SET or the PTTL after it fails: reload() throws, outside its try ... finally,
\* so nobody will release a key that SET has already written.
AcquireFails(p) ==
    /\ "redis" \in Faults
    /\ Go(p, "acquire", "idle")
    /\ \/ UNCHANGED lock
       \/ lock = None /\ lock' = At[p]
    /\ UNCHANGED <<db, owner, status, snap, inbox, begun, lastPub>>

\* Without "late", the receiver's event loop has handled what reached its
\* subscriber connection by the time its own queries are answered.
Load(p, to) ==
    /\ Go(p, "load", to)
    /\ "late" \in Faults \/ inbox[At[p]] = <<>>
    /\ snap' = [snap EXCEPT ![p] = db]
    /\ UNCHANGED <<db, lock, owner, status, inbox, begun, lastPub>>

\* Mutation of LoadFails: the failure is logged and nothing is broadcast as
\* if it were a snapshot.
LoadFailsAndGoesOn(p) ==
    /\ "db" \in Faults
    /\ Go(p, "load", "publish")
    /\ snap' = [snap EXCEPT ![p] = None]
    /\ UNCHANGED <<db, lock, owner, status, inbox, begun, lastPub>>

\* A query throws: the finally clause gives the lock back.
LoadFails(p) ==
    /\ "db" \in Faults
    /\ Go(p, "load", "release")
    /\ UNCHANGED <<db, lock, owner, status, snap, inbox, begun, lastPub>>

\* Redis hands message m to every subscriber, the publisher's own included.
\* A failure of PUBLISH is logged and swallowed.
Publish(p, to, m) ==
    /\ Go(p, "publish", to)
    /\ \E R \in SUBSET {i \in Inst : Running(i)} :
          /\ "loss" \in Faults \/ R = {i \in Inst : Running(i)}
          /\ inbox' = [i \in Inst |-> IF i \in R THEN Append(inbox[i], m)
                                                 ELSE inbox[i]]
    /\ lastPub' = m
    /\ UNCHANGED <<db, lock, owner, status, snap, begun>>

\* Mutation of Release: DEL whatever the key holds.
ReleaseAnyKey(p) ==
    /\ Go(p, "release", "idle")
    /\ lock' = None
    /\ owner' = None
    /\ UNCHANGED <<db, status, snap, inbox, begun, lastPub>>

\* The Lua script deletes the key when it holds this instance's id.
Release(p) ==
    /\ Go(p, "release", "idle")
    /\ lock' = IF lock = At[p] THEN None ELSE lock
    /\ owner' = IF lock = At[p] THEN None ELSE owner
    /\ UNCHANGED <<db, status, snap, inbox, begun, lastPub>>

\* EVAL fails: release() swallows the error and the key stays.
ReleaseFails(p) ==
    /\ "redis" \in Faults
    /\ Go(p, "release", "idle")
    /\ UNCHANGED <<db, lock, owner, status, snap, inbox, begun, lastPub>>

\* Mutation of Lapse: the key is set without PX.
LapseNever == FALSE /\ UNCHANGED protocolVars

\* Redis removes the key: its TTL is over, or someone ran FLUSHALL.
Lapse ==
    /\ lock # None
    /\ "slow" \in Faults \/ owner \notin {p \in Call : pc[p] \in InSection}
    /\ lock' = None
    /\ owner' = None
    /\ UNCHANGED <<db, status, pc, snap, inbox, begun, lastPub>>

\* A process dies with its calls, its memory and its subscription.
Crash(i) ==
    /\ "crash" \in Faults
    /\ Running(i)
    /\ status' = [status EXCEPT ![i] = "down"]
    /\ pc' = [p \in Call |-> IF At[p] = i THEN "idle" ELSE pc[p]]
    /\ snap' = [p \in Call |-> IF At[p] = i THEN 0 ELSE snap[p]]
    /\ inbox' = [inbox EXCEPT ![i] = <<>>]
    /\ UNCHANGED <<db, lock, owner, begun, lastPub>>

\* The subscriber connection delivers its oldest message.
Take(i) ==
    /\ inbox[i] # <<>>
    /\ inbox' = [inbox EXCEPT ![i] = Tail(@)]
    /\ UNCHANGED <<db, lock, owner, status, pc, snap, begun, lastPub>>

-----------------------------------------------------------------------------
(***************************************************************************)
(* What the lock is for: while no reload outlives its lock, one call in    *)
(* the whole cluster is between its acquire and its release, the key       *)
(* carries its instance, and it is the call that set the key.              *)
(***************************************************************************)
LockHeldByOwner ==
    "slow" \notin Faults =>
       \A p \in Call : pc[p] \in InSection => /\ lock = At[p]
                                              /\ owner = p

OneReloadAtATime ==
    "slow" \notin Faults =>
       \A p, q \in Call : pc[p] \in InSection /\ pc[q] \in InSection => p = q

\* Nothing is running and nothing is in flight.
Quiet == /\ \A p \in Call : pc[p] = "idle"
         /\ \A i \in Inst : inbox[i] = <<>>
=============================================================================
