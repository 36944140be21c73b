--------------------------- MODULE MetadataCache ---------------------------
(***************************************************************************)
(* The metadata cache of every instance: the reload protocol, with the     *)
(* snapshot kept after it was broadcast, plus the lock-less fill that a    *)
(* reader runs when nothing is cached yet.                                 *)
(***************************************************************************)
EXTENDS ReloadProtocol

CONSTANT LazyReads   \* whether requests read metadata before it is cached

ASSUME LazyReadsAssumption == LazyReads \in BOOLEAN

VARIABLES cache,   \* inMemoryCache of each instance
          via      \* history: how it was written last

vars == <<protocolVars, cache, via>>

Message == [from : Inst, version : Version]

ASSUME MessageAssumption == None \notin Message

TypeOK ==
    /\ ProtocolTypeOK
    /\ inbox \in [Inst -> Seq(Message)]
    /\ lastPub \in Message \cup {None}
    /\ cache \in [Inst -> Version \cup {None}]
    /\ via \in [Inst -> {"empty", "reload", "message", "fill"}]

Init ==
    /\ ProtocolInit
    /\ cache = [i \in Inst |-> None]
    /\ via = [i \in Inst |-> "empty"]

Keep(i, v, how) == /\ cache' = [cache EXCEPT ![i] = v]
                   /\ via' = [via EXCEPT ![i] = how]

\* Mutation of ReloadLoad: the lock is given back as soon as the rows are read.
LoadThenUnlock(p) ==
    /\ Go(p, "load", "publish")
    /\ snap' = [snap EXCEPT ![p] = db]
    /\ lock' = None
    /\ owner' = None
    /\ UNCHANGED <<db, status, inbox, begun, lastPub, cache, via>>

\* Mutation of ReloadLoad: the snapshot is kept before it is broadcast.
LoadAndKeep(p) == Load(p, "publish") /\ Keep(At[p], db, "reload")

\* loadMetadataFromDb in reload().
ReloadLoad(p) == Load(p, "publish") /\ UNCHANGED <<cache, via>>

\* The snapshot goes to every instance while this one still serves the old one.
ReloadPublish(p) ==
    /\ Publish(p, "set", [from |-> At[p], version |-> snap[p]])
    /\ UNCHANGED <<cache, via>>

\* The broadcast is out: keep the snapshot.
ReloadSet(p) ==
    /\ Go(p, "set", "release")
    /\ Keep(At[p], snap[p], "reload")
    /\ Drop(p)
    /\ UNCHANGED <<db, lock, owner, status, inbox, begun, lastPub>>

\* getMetadata() with nothing cached loads from the database, without the
\* lock and without telling anyone.
FillBegin(p) ==
    /\ LazyReads
    /\ Running(At[p])
    /\ cache[At[p]] = None
    /\ BeginAt(p, "fillLoad")
    /\ UNCHANGED <<db, lock, owner, status, snap, inbox, lastPub, cache, via>>

FillLoad(p) ==
    /\ Go(p, "fillLoad", "fillSet")
    /\ snap' = [snap EXCEPT ![p] = db]
    /\ UNCHANGED <<db, lock, owner, status, inbox, begun, lastPub, cache, via>>

FillSet(p) ==
    /\ Go(p, "fillSet", "idle")
    /\ Keep(At[p], snap[p], "fill")
    /\ Drop(p)
    /\ UNCHANGED <<db, lock, owner, status, inbox, begun, lastPub>>

\* Mutation of Receive: a broadcast only fills an empty cache.
ReceiveWhenEmpty(i) ==
    /\ Take(i)
    /\ LET m == Head(inbox[i])
       IN IF m.from = i \/ cache[i] # None
          THEN UNCHANGED <<cache, via>>
          ELSE Keep(i, m.version, "message")

\* A broadcast arrives: whatever its version, it replaces what is cached,
\* unless this instance sent it.
Receive(i) ==
    /\ Take(i)
    /\ LET m == Head(inbox[i])
       IN IF m.from = i THEN UNCHANGED <<cache, via>>
                        ELSE Keep(i, m.version, "message")

Die(i) == Crash(i) /\ Keep(i, None, "empty")

\* The step that call p can take by itself.
Proceed(p) ==
    \/ (Acquire(p) \/ Skip(p) \/ AcquireFails(p) \/ LoadFails(p)
          \/ Release(p) \/ ReleaseFails(p)) /\ UNCHANGED <<cache, via>>
    \/ ReloadLoad(p) \/ ReloadPublish(p) \/ ReloadSet(p)
    \/ FillLoad(p) \/ FillSet(p)

Arrive(p) ==
    \/ (Boot(p) \/ RequestReload(p) \/ WriteAndReload(p) \/ WriteOnly(p))
          /\ UNCHANGED <<cache, via>>
    \/ FillBegin(p)

LockLapses == Lapse /\ UNCHANGED <<cache, via>>

Next ==
    \/ \E p \in Call : Arrive(p) \/ Proceed(p)
    \/ \E i \in Inst : Receive(i) \/ Die(i)
    \/ LockLapses

Spec == Init /\ [][Next]_vars

\* A live process runs its continuations, a connection delivers, and Redis
\* expires keys.  Nothing obliges requests, writes, faults or restarts.
Fairness ==
    /\ \A p \in Call : WF_vars(Proceed(p))
    /\ \A i \in Inst : WF_vars(Receive(i))
    /\ WF_vars(LockLapses)

FairSpec == Spec /\ Fairness

-----------------------------------------------------------------------------
\* The messages of q are in the order of their versions, none above top.
InOrder(q, top) ==
    \A j \in 1 .. Len(q) : /\ q[j].version <= top
                           /\ \A k \in j .. Len(q) : q[j].version <= q[k].version

(***************************************************************************)
(* When reloads fit in their lock, the versions on their way to a          *)
(* subscriber are in order, none is newer than the last broadcast, and the *)
(* reload that is under way carries one at least as new: two reloads of    *)
(* different instances cannot overtake each other between Redis and the    *)
(* database.                                                               *)
(***************************************************************************)
BroadcastsInOrder ==
    "slow" \notin Faults =>
      /\ \A i \in Inst : inbox[i] # <<>> => InOrder(inbox[i], lastPub.version)
      /\ \A p \in Call : pc[p] \in {"publish", "set"} /\ lastPub # None
            => lastPub.version <= snap[p]

(***************************************************************************)
(* Once nothing runs and nothing is in flight, an instance whose cache     *)
(* came from a broadcast or from a reload holds the last snapshot that was *)
(* broadcast.  The exception is the instance that broadcast it, which an   *)
(* older broadcast, read late, may have put back.                          *)
(***************************************************************************)
SettledCachesAgree ==
    {"slow", "loss"} \cap Faults = {} /\ Quiet =>
      \A i \in Inst :
        Running(i) /\ via[i] \in {"reload", "message"} =>
           \/ cache[i] = lastPub.version
           \/ "late" \in Faults /\ i = lastPub.from

\* The key of instance i goes: Redis drops it, or a reload of i releases it.
Freed(i) ==
    /\ lock' = None
    /\ \/ \E p \in Call : At[p] = i /\ pc[p] = "release" /\ pc'[p] = "idle"
       \/ pc' = pc

FreedByItsInstance == \A i \in Inst : lock = i /\ lock' # i => Freed(i)

(***************************************************************************)
(* Whatever goes wrong, the key of an instance disappears only when Redis  *)
(* drops it or when a reload of that same instance gives it back: a reload *)
(* that outlived its lock never frees the lock of the next holder.         *)
(***************************************************************************)
OnlyItsInstanceReleases == [][FreedByItsInstance]_vars

(***************************************************************************)
(* Under every fault the lock comes back: a crashed, failed or too slow    *)
(* reload cannot keep all instances from reloading.                        *)
(***************************************************************************)
LockComesBack == \A i \in Inst : lock = i ~> lock # i

(***************************************************************************)
(* Every call of reload() and every lazy fill returns, whatever the others *)
(* do and whatever fails, and the lock comes back.                         *)
(***************************************************************************)
CallsReturn ==
    /\ LockComesBack
    /\ \A p \in Call : pc[p] # "idle" ~> pc[p] = "idle"

(***************************************************************************)
(* The caches implement the feed: broadcast first, keep afterwards, one    *)
(* reload at a time.                                                       *)
(***************************************************************************)
Feed == INSTANCE SnapshotFeed
          WITH feed <- IF lastPub = None THEN 0 ELSE lastPub.version,
               view <- cache

CachesFollowTheFeed == Feed!FeedSpec
=============================================================================
