------------------------- MODULE MetadataCacheProofs -------------------------
(***************************************************************************)
(* Theorems about MetadataCache, for every set of instances and calls,     *)
(* every bound and every set of faults: the types; mutual exclusion; who   *)
(* releases; the order of what is broadcast; what an instance serves,      *)
(* compared with what is broadcast and with what is still on its way to    *)
(* it; the refinement of SnapshotFeed; and what is cached in the end.      *)
(***************************************************************************)
EXTENDS MetadataCache, TLAPS

-----------------------------------------------------------------------------
\* Types.

(***************************************************************************)
(* What a subscriber connection holds stays a sequence of messages when    *)
(* its oldest one is taken and when one is added.                          *)
(***************************************************************************)
LEMMA InboxTypes ==
    ASSUME NEW q \in Seq(Message)
    PROVE  /\ \A m \in Message : Append(q, m) \in Seq(Message)
           /\ q # <<>> => Tail(q) \in Seq(Message) /\ Head(q) \in Message
  OBVIOUS

LEMMA InitTypeOK == Init => TypeOK
  BY ReloadAssumption
  DEF Init, TypeOK, ProtocolInit, ProtocolTypeOK, Version

LEMMA NextTypeOK == TypeOK /\ [Next]_vars => TypeOK'
<1> SUFFICES ASSUME TypeOK, [Next]_vars PROVE TypeOK'
  OBVIOUS
<1> USE ReloadAssumption DEF TypeOK, ProtocolTypeOK, Version, InSection, Fills
<1>1. ASSUME NEW p \in Call, Arrive(p) PROVE TypeOK'
  <2>1. CASE Boot(p) /\ UNCHANGED <<cache, via>>
    BY <2>1 DEF Boot, BeginAt, Go
  <2>2. CASE RequestReload(p) /\ UNCHANGED <<cache, via>>
    BY <2>2 DEF RequestReload, BeginAt, Go
  <2>3. CASE WriteAndReload(p) /\ UNCHANGED <<cache, via>>
    BY <2>3 DEF WriteAndReload, BeginAt, Go
  <2>4. CASE WriteOnly(p) /\ UNCHANGED <<cache, via>>
    BY <2>4 DEF WriteOnly
  <2>5. CASE FillBegin(p)
    BY <2>5 DEF FillBegin, BeginAt, Go
  <2> QED BY <1>1, <2>1, <2>2, <2>3, <2>4, <2>5 DEF Arrive
<1>2. ASSUME NEW p \in Call, Proceed(p) PROVE TypeOK'
  <2>1. CASE Acquire(p) /\ UNCHANGED <<cache, via>>
    BY <2>1 DEF Acquire, Go
  <2>2. CASE Skip(p) /\ UNCHANGED <<cache, via>>
    BY <2>2 DEF Skip, Go
  <2>3. CASE AcquireFails(p) /\ UNCHANGED <<cache, via>>
    BY <2>3 DEF AcquireFails, Go
  <2>4. CASE LoadFails(p) /\ UNCHANGED <<cache, via>>
    BY <2>4 DEF LoadFails, Go
  <2>5. CASE Release(p) /\ UNCHANGED <<cache, via>>
    BY <2>5 DEF Release, Go
  <2>6. CASE ReleaseFails(p) /\ UNCHANGED <<cache, via>>
    BY <2>6 DEF ReleaseFails, Go
  <2>7. CASE ReloadLoad(p)
    BY <2>7 DEF ReloadLoad, Load, Go
  <2>8. CASE ReloadPublish(p)
    <3> DEFINE m == [from |-> At[p], version |-> snap[p]]
    <3>1. m \in Message
      BY DEF Message
    <3>2. inbox' \in [Inst -> Seq(Message)]
      BY <2>8, <3>1, InboxTypes DEF ReloadPublish, Publish
    <3> QED BY <2>8, <3>1, <3>2 DEF ReloadPublish, Publish, Go
  <2>9. CASE ReloadSet(p)
    BY <2>9 DEF ReloadSet, Keep, Drop, Go
  <2>10. CASE FillLoad(p)
    BY <2>10 DEF FillLoad, Go
  <2>11. CASE FillSet(p)
    BY <2>11 DEF FillSet, Keep, Drop, Go
  <2> QED BY <1>2, <2>1, <2>2, <2>3, <2>4, <2>5, <2>6, <2>7, <2>8, <2>9,
             <2>10, <2>11 DEF Proceed
<1>3. ASSUME NEW i \in Inst, Receive(i) PROVE TypeOK'
  <2>1. /\ inbox[i] # <<>>
        /\ Tail(inbox[i]) \in Seq(Message)
        /\ Head(inbox[i]) \in Message
    BY <1>3, InboxTypes DEF Receive, Take
  <2>2. inbox' \in [Inst -> Seq(Message)]
    BY <1>3, <2>1 DEF Receive, Take
  <2> QED BY <1>3, <2>1, <2>2 DEF Receive, Take, Keep, Message
<1>4. ASSUME NEW i \in Inst, Die(i) PROVE TypeOK'
  <2>1. inbox' \in [Inst -> Seq(Message)]
    BY <1>4 DEF Die, Crash
  <2> QED BY <1>4, <2>1 DEF Die, Crash, Keep
<1>5. CASE LockLapses
  BY <1>5 DEF LockLapses, Lapse
<1>6. CASE UNCHANGED vars
  BY <1>6 DEF vars, protocolVars
<1> QED BY <1>1, <1>2, <1>3, <1>4, <1>5, <1>6 DEF Next

(***************************************************************************)
(* Every variable keeps its type.                                          *)
(***************************************************************************)
THEOREM TypeCorrect == Spec => []TypeOK
  BY InitTypeOK, NextTypeOK, PTL DEF Spec

-----------------------------------------------------------------------------
\* Mutual exclusion.

(***************************************************************************)
(* The lock is what makes one reload at a time true, so the invariant that *)
(* survives a step says who holds the lock: every call in the section set  *)
(* the key itself and the key still carries its instance.                  *)
(***************************************************************************)
LEMMA InitLock == Init => LockHeldByOwner
  BY DEF Init, ProtocolInit, LockHeldByOwner, InSection

LEMMA NextLock == TypeOK /\ LockHeldByOwner /\ [Next]_vars => LockHeldByOwner'
<1> SUFFICES ASSUME TypeOK, LockHeldByOwner, [Next]_vars, "slow" \notin Faults
             PROVE  \A q \in Call : pc'[q] \in InSection => lock' = At[q] /\ owner' = q
  BY DEF LockHeldByOwner
<1>1. \A q \in Call : pc[q] \in InSection => lock = At[q] /\ owner = q
  BY DEF LockHeldByOwner
<1>2. \A q \in Call : At[q] \in Inst /\ At[q] # None
  BY ReloadAssumption
<1>3. pc \in [Call -> {"idle", "acquire"} \cup InSection \cup Fills]
  BY DEF TypeOK, ProtocolTypeOK
<1> USE <1>1, <1>2, <1>3 DEF InSection, Fills
<1>4. ASSUME NEW p \in Call, Arrive(p)
      PROVE  \A q \in Call : pc'[q] \in InSection => lock' = At[q] /\ owner' = q
  BY <1>4 DEF Arrive, Boot, RequestReload, WriteAndReload, WriteOnly, FillBegin, BeginAt, Go
<1>5. ASSUME NEW p \in Call, Proceed(p)
      PROVE  \A q \in Call : pc'[q] \in InSection => lock' = At[q] /\ owner' = q
  <2>1. CASE Acquire(p)
    BY <2>1 DEF Acquire, Go
  <2>2. CASE Skip(p) \/ LoadFails(p) \/ ReleaseFails(p)
    BY <2>2 DEF Skip, LoadFails, ReleaseFails, Go
  <2>3. CASE AcquireFails(p)
    BY <2>3 DEF AcquireFails, Go
  <2>4. CASE Release(p)
    BY <2>4 DEF Release, Go
  <2>5. CASE ReloadLoad(p) \/ ReloadPublish(p) \/ ReloadSet(p)
    BY <2>5 DEF ReloadLoad, ReloadPublish, ReloadSet, Load, Publish, Go
  <2>6. CASE FillLoad(p) \/ FillSet(p)
    BY <2>6 DEF FillLoad, FillSet, Go
  <2> QED BY <1>5, <2>1, <2>2, <2>3, <2>4, <2>5, <2>6 DEF Proceed
<1>6. ASSUME NEW i \in Inst, Receive(i)
      PROVE  \A q \in Call : pc'[q] \in InSection => lock' = At[q] /\ owner' = q
  BY <1>6 DEF Receive, Take
<1>7. ASSUME NEW i \in Inst, Die(i)
      PROVE  \A q \in Call : pc'[q] \in InSection => lock' = At[q] /\ owner' = q
  BY <1>7 DEF Die, Crash
<1>8. CASE LockLapses
  BY <1>8 DEF LockLapses, Lapse
<1>9. CASE UNCHANGED vars
  BY <1>9 DEF vars, protocolVars
<1> QED BY <1>4, <1>5, <1>6, <1>7, <1>8, <1>9 DEF Next

(***************************************************************************)
(* While no reload outlives its lock, the key belongs to the call that is  *)
(* in the section, whichever processes crash and commands fail.            *)
(***************************************************************************)
THEOREM LockHeldByItsOwner == Spec => []LockHeldByOwner
<1>1. Init => TypeOK /\ LockHeldByOwner
  BY InitTypeOK, InitLock
<1>2. TypeOK /\ LockHeldByOwner /\ [Next]_vars => (TypeOK /\ LockHeldByOwner)'
  BY NextTypeOK, NextLock
<1> QED BY <1>1, <1>2, PTL DEF Spec

(***************************************************************************)
(* While no reload outlives its lock, no two calls of reload() in the      *)
(* cluster are between their acquire and their release.                    *)
(***************************************************************************)
THEOREM MutualExclusion == Spec => []OneReloadAtATime
<1>1. LockHeldByOwner => OneReloadAtATime
  BY DEF LockHeldByOwner, OneReloadAtATime
<1> QED BY <1>1, LockHeldByItsOwner, PTL

-----------------------------------------------------------------------------
\* Release.

(***************************************************************************)
(* Under every fault, a reload frees the key of its own instance only.     *)
(***************************************************************************)
THEOREM NobodyElseReleases == Spec => OnlyItsInstanceReleases
<1>1. ASSUME TypeOK, [Next]_vars
      PROVE  [FreedByItsInstance]_vars
  <2> SUFFICES ASSUME Next, NEW i \in Inst, lock = i, lock' # i
               PROVE  Freed(i)
    BY <1>1 DEF FreedByItsInstance
  <2> USE DEF Freed
  <2>1. i # None
    BY ReloadAssumption
  <2>2. pc \in [Call -> {"idle", "acquire"} \cup InSection \cup Fills]
    BY <1>1 DEF TypeOK, ProtocolTypeOK
  <2>3. ASSUME NEW p \in Call, Arrive(p) PROVE FALSE
    BY <2>3 DEF Arrive, Boot, RequestReload, WriteAndReload, WriteOnly, FillBegin, BeginAt
  <2>4. ASSUME NEW p \in Call, Proceed(p) PROVE Freed(i)
    <3>1. CASE Release(p)
      BY <2>2, <3>1 DEF Release, Go
    <3>2. CASE Acquire(p) \/ AcquireFails(p)
      BY <2>1, <3>2 DEF Acquire, AcquireFails
    <3>3. CASE Skip(p) \/ LoadFails(p) \/ ReleaseFails(p)
      BY <3>3 DEF Skip, LoadFails, ReleaseFails
    <3>4. CASE ReloadLoad(p) \/ ReloadPublish(p) \/ ReloadSet(p)
      BY <3>4 DEF ReloadLoad, ReloadPublish, ReloadSet, Load, Publish
    <3>5. CASE FillLoad(p) \/ FillSet(p)
      BY <3>5 DEF FillLoad, FillSet
    <3> QED BY <2>4, <3>1, <3>2, <3>3, <3>4, <3>5 DEF Proceed
  <2>5. ASSUME NEW j \in Inst, Receive(j) \/ Die(j) PROVE FALSE
    BY <2>5 DEF Receive, Take, Die, Crash
  <2>6. CASE LockLapses
    BY <2>6 DEF LockLapses, Lapse
  <2> QED BY <2>3, <2>4, <2>5, <2>6 DEF Next
<1> QED BY <1>1, TypeCorrect, PTL DEF Spec, OnlyItsInstanceReleases

-----------------------------------------------------------------------------
\* What is broadcast and what is served.

Broadcasting == {"publish", "set"}

\* What is broadcast: BroadcastsInOrder made inductive.  Nothing waits before
\* the first broadcast, a version comes from the database, what waits is in
\* order, and a reload that has broadcast has broadcast its snapshot.
Started == lastPub = None => \A i \in Inst : inbox[i] = <<>>
Behind == lastPub # None => lastPub.version <= db
Ordered == \A i \in Inst : inbox[i] # <<>> => InOrder(inbox[i], lastPub.version)
Carried ==
    \A p \in Call : pc[p] \in Broadcasting =>
       /\ snap[p] <= db
       /\ lastPub # None => lastPub.version <= snap[p]
       /\ pc[p] = "set" => lastPub # None /\ lastPub.version = snap[p]

FeedInv == Started /\ Behind /\ Ordered /\ Carried

\* What is served: never ahead of the last broadcast, never ahead of what
\* others have sent and this instance has not read.  The reload that is under
\* way has read everything: what waits for its instance is its own broadcast.
ServeInv ==
    /\ \A p \in Call : pc[p] \notin Fills
    /\ \A i \in Inst : cache[i] # None =>
          /\ lastPub # None /\ cache[i] <= lastPub.version
          /\ \A j \in 1 .. Len(inbox[i]) :
                inbox[i][j].from # i => cache[i] <= inbox[i][j].version
    /\ \A p \in Call : pc[p] \in Broadcasting =>
          \A j \in 1 .. Len(inbox[At[p]]) : inbox[At[p]][j].from = At[p]

-----------------------------------------------------------------------------
\* Sequences of messages.

(***************************************************************************)
(* The elements of a sequence to which a message is added, or from which   *)
(* the oldest is taken.                                                    *)
(***************************************************************************)
LEMMA AppendElements ==
    ASSUME NEW q \in Seq(Message), NEW m \in Message
    PROVE  /\ Append(q, m) # <<>>
           /\ Len(Append(q, m)) = Len(q) + 1
           /\ \A j \in 1 .. Len(q) : Append(q, m)[j] = q[j]
           /\ Append(q, m)[Len(q) + 1] = m
  OBVIOUS

LEMMA TailElements ==
    ASSUME NEW q \in Seq(Message), q # <<>>
    PROVE  /\ Len(q) \in Nat \ {0}
           /\ Len(Tail(q)) = Len(q) - 1
           /\ \A j \in 1 .. Len(q) - 1 : Tail(q)[j] = q[j + 1]
           /\ Head(q) = q[1]
           /\ 1 \in 1 .. Len(q)
  OBVIOUS

LEMMA MessageTypes == \A m \in Message : m.from \in Inst /\ m.version \in Nat
  BY DEF Message, Version

LEMMA ElementTypes ==
    ASSUME NEW q \in Seq(Message), NEW j \in 1 .. Len(q)
    PROVE  q[j] \in Message
  OBVIOUS

(***************************************************************************)
(* A sequence in order stays in order when a message at least as new as    *)
(* all of it is added, and when its oldest message is taken.               *)
(***************************************************************************)
LEMMA AppendInOrder ==
    ASSUME NEW q \in Seq(Message), NEW m \in Message, NEW top \in Nat,
           InOrder(q, top), top <= m.version
    PROVE  InOrder(Append(q, m), m.version)
<1> DEFINE a == Append(q, m)
<1>1. /\ Len(a) = Len(q) + 1
      /\ \A j \in 1 .. Len(q) : a[j] = q[j]
      /\ a[Len(q) + 1] = m
  BY AppendElements
<1>2. Len(q) \in Nat
  OBVIOUS
<1>3. m.version \in Nat /\ \A j \in 1 .. Len(q) : q[j].version \in Nat
  BY MessageTypes, ElementTypes
<1>4. \A j \in 1 .. Len(q) + 1 : j \in 1 .. Len(q) \/ j = Len(q) + 1
  BY <1>2
<1> HIDE DEF a
<1> SUFFICES ASSUME NEW j \in 1 .. Len(q) + 1
             PROVE  /\ a[j].version <= m.version
                    /\ \A k \in j .. Len(q) + 1 : a[j].version <= a[k].version
  BY <1>1 DEF InOrder, a
<1>5. a[j].version <= m.version
  <2>1. CASE j \in 1 .. Len(q)
    BY <1>1, <1>3, <2>1 DEF InOrder
  <2>2. CASE j = Len(q) + 1
    BY <1>1, <1>3, <2>2
  <2> QED BY <1>4, <2>1, <2>2
<1>6. ASSUME NEW k \in j .. Len(q) + 1 PROVE a[j].version <= a[k].version
  <2>1. CASE k = Len(q) + 1
    BY <1>1, <1>5, <2>1
  <2>2. CASE k # Len(q) + 1
    <3>1. j \in 1 .. Len(q) /\ k \in 1 .. Len(q) /\ k \in j .. Len(q)
      BY <1>2, <2>2
    <3> QED BY <1>1, <3>1 DEF InOrder
  <2> QED BY <2>1, <2>2
<1> QED BY <1>5, <1>6

LEMMA TailInOrder ==
    ASSUME NEW q \in Seq(Message), NEW top \in Nat, q # <<>>, InOrder(q, top)
    PROVE  InOrder(Tail(q), top)
<1>1. /\ Len(q) \in Nat \ {0}
      /\ Len(Tail(q)) = Len(q) - 1
      /\ \A j \in 1 .. Len(q) - 1 : Tail(q)[j] = q[j + 1]
  BY TailElements
<1> SUFFICES ASSUME NEW j \in 1 .. Len(q) - 1, NEW k \in j .. Len(q) - 1
             PROVE  /\ Tail(q)[j].version <= top
                    /\ Tail(q)[j].version <= Tail(q)[k].version
  BY <1>1 DEF InOrder
<1>2. j + 1 \in 1 .. Len(q) /\ k + 1 \in j + 1 .. Len(q) /\ k \in 1 .. Len(q) - 1
  BY <1>1
<1>3. Tail(q)[j] = q[j + 1] /\ Tail(q)[k] = q[k + 1]
  BY <1>1, <1>2
<1> QED BY <1>2, <1>3 DEF InOrder

-----------------------------------------------------------------------------
\* What is broadcast.

LEMMA InitFeed == Init => FeedInv
  BY DEF Init, ProtocolInit, FeedInv, Started, Behind, Ordered, Carried, Broadcasting

\* What the proofs use of the types.
LEMMA Types ==
    ASSUME TypeOK
    PROVE  /\ db \in Nat
           /\ lock \in Inst \cup {None}
           /\ pc \in [Call -> {"idle", "acquire"} \cup InSection \cup Fills]
           /\ snap \in [Call -> Version] /\ Version \subseteq Nat
           /\ inbox \in [Inst -> Seq(Message)]
           /\ lastPub # None => lastPub \in Message /\ lastPub.version \in Nat
           /\ cache \in [Inst -> Version \cup {None}]
           /\ \A p \in Call : At[p] \in Inst
           /\ None \notin Nat /\ None \notin Inst
  BY MessageTypes, ReloadAssumption DEF TypeOK, ProtocolTypeOK, Version

(***************************************************************************)
(* A step in which no call begins to broadcast or changes its snapshot, no *)
(* message is sent or taken, and the database does not go back.            *)
(***************************************************************************)
LEMMA FeedKept ==
    ASSUME TypeOK, TypeOK', FeedInv,
           db <= db',
           UNCHANGED <<inbox, lastPub>>,
           \A q \in Call : pc'[q] \in Broadcasting => pc'[q] = pc[q] /\ snap'[q] = snap[q]
    PROVE  FeedInv'
<1>1. /\ db \in Nat /\ db' \in Nat
      /\ lastPub # None => lastPub.version \in Nat
      /\ \A q \in Call : snap[q] \in Nat
  BY DEF TypeOK, ProtocolTypeOK, Version, Message
<1>2. Started' /\ Ordered'
  BY DEF FeedInv, Started, Ordered, InOrder
<1>3. Behind'
  BY <1>1 DEF FeedInv, Behind
<1>4. Carried'
  BY <1>1 DEF FeedInv, Carried
<1> QED BY <1>2, <1>3, <1>4 DEF FeedInv

LEMMA NextFeed ==
    ASSUME "slow" \notin Faults
    PROVE  TypeOK /\ LockHeldByOwner /\ FeedInv /\ [Next]_vars => FeedInv'
<1> SUFFICES ASSUME TypeOK, LockHeldByOwner, FeedInv, [Next]_vars PROVE FeedInv'
  OBVIOUS
<1>1. TypeOK'
  BY NextTypeOK
<1>2. \A p, q \in Call : pc[p] \in InSection /\ pc[q] \in InSection => p = q
  BY DEF LockHeldByOwner
<1>3. pc \in [Call -> {"idle", "acquire"} \cup InSection \cup Fills] /\ db \in Nat
  BY Types
<1>4. ASSUME NEW p \in Call, Arrive(p) PROVE FeedInv'
  <2>1. /\ db' \in {db, db + 1}
        /\ UNCHANGED <<inbox, lastPub, snap>>
        /\ \/ UNCHANGED pc
           \/ pc' = [pc EXCEPT ![p] = "acquire"]
           \/ pc' = [pc EXCEPT ![p] = "fillLoad"]
    BY <1>4 DEF Arrive, Boot, RequestReload, WriteAndReload, WriteOnly, FillBegin,
                BeginAt, Go
  <2>2. \A q \in Call : pc'[q] \in Broadcasting => pc'[q] = pc[q]
    BY <1>3, <2>1 DEF Broadcasting
  <2> QED BY <1>1, <1>3, <2>1, <2>2, FeedKept
<1>5. ASSUME NEW p \in Call, Proceed(p) PROVE FeedInv'
  <2>1. CASE Acquire(p) \/ Skip(p) \/ AcquireFails(p)
    BY <1>1, <1>3, <2>1, FeedKept DEF Acquire, Skip, AcquireFails, Go, Broadcasting
  <2>2. CASE LoadFails(p) \/ Release(p) \/ ReleaseFails(p)
    BY <1>1, <1>3, <2>2, FeedKept DEF LoadFails, Release, ReleaseFails, Go, Broadcasting
  <2>3. CASE ReloadSet(p)
    <3>1. pc' = [pc EXCEPT ![p] = "release"] /\ snap' = [snap EXCEPT ![p] = 0]
      BY <2>3 DEF ReloadSet, Go, Drop
    <3>2. \A q \in Call : pc'[q] \in Broadcasting => pc'[q] = pc[q] /\ snap'[q] = snap[q]
      BY <1>3, <3>1, Types DEF Broadcasting
    <3> QED BY <1>1, <1>3, <2>3, <3>2, FeedKept DEF ReloadSet
  <2>4. CASE FillLoad(p) \/ FillSet(p)
    <3>1. \A q \in Call : pc'[q] \in Broadcasting => pc'[q] = pc[q] /\ snap'[q] = snap[q]
      BY <1>3, <2>4, Types DEF FillLoad, FillSet, Go, Drop, Broadcasting
    <3> QED BY <1>1, <1>3, <2>4, <3>1, FeedKept DEF FillLoad, FillSet
  <2>5. CASE ReloadLoad(p)
    <3>1. /\ pc[p] = "load" /\ pc' = [pc EXCEPT ![p] = "publish"]
          /\ snap' = [snap EXCEPT ![p] = db]
          /\ UNCHANGED <<db, inbox, lastPub>>
      BY <2>5 DEF ReloadLoad, Load, Go
    <3>2. Started' /\ Behind' /\ Ordered'
      BY <3>1 DEF FeedInv, Started, Behind, Ordered
    <3>3. \A q \in Call : pc'[q] \in Broadcasting => q = p
      BY <1>2, <1>3, <3>1 DEF Broadcasting, InSection
    <3>4. pc'[p] = "publish" /\ snap'[p] = db
      BY <1>3, <3>1, Types
    <3>5. Carried'
      BY <1>3, <3>1, <3>3, <3>4 DEF Carried, FeedInv, Behind
    <3> QED BY <3>2, <3>5 DEF FeedInv
  <2>6. CASE ReloadPublish(p)
    <3> DEFINE m == [from |-> At[p], version |-> snap[p]]
    <3>1. /\ pc[p] = "publish" /\ pc' = [pc EXCEPT ![p] = "set"]
          /\ lastPub' = m /\ UNCHANGED <<db, snap>>
          /\ \A i \in Inst : inbox'[i] \in {inbox[i], Append(inbox[i], m)}
      BY <2>6, Types DEF ReloadPublish, Publish, Go
    <3>2. m \in Message /\ m # None /\ m.version = snap[p] /\ snap[p] \in Nat
      BY Types, MessageAssumption DEF Message
    <3>3. snap[p] <= db /\ (lastPub # None => lastPub.version <= snap[p])
      BY <3>1 DEF FeedInv, Carried, Broadcasting
    <3>4. Started' /\ Behind'
      BY <3>1, <3>2, <3>3 DEF Started, Behind
    <3>5. ASSUME NEW i \in Inst, inbox'[i] # <<>> PROVE InOrder(inbox'[i], m.version)
      <4>1. inbox[i] \in Seq(Message)
        BY Types
      <4>2. CASE lastPub = None
        <5>1. inbox[i] = <<>> /\ InOrder(inbox[i], 0)
          BY <4>2 DEF FeedInv, Started, InOrder
        <5>2. inbox'[i] = Append(inbox[i], m)
          BY <3>1, <3>5, <5>1
        <5>3. 0 \in Nat /\ 0 <= m.version
          BY <3>2
        <5> HIDE DEF m
        <5> QED BY <3>2, <4>1, <5>1, <5>2, <5>3, AppendInOrder
      <4>3. CASE lastPub # None
        <5>1. lastPub.version \in Nat /\ lastPub.version <= m.version
          BY <3>2, <3>3, <4>3, Types
        <5>2. InOrder(inbox[i], lastPub.version)
          BY DEF FeedInv, Ordered, InOrder
        <5>3. CASE inbox'[i] = Append(inbox[i], m)
          BY <3>2, <4>1, <5>1, <5>2, <5>3, AppendInOrder
        <5>4. CASE inbox'[i] = inbox[i]
          <6>1. \A j \in 1 .. Len(inbox[i]) : inbox[i][j].version \in Nat
            BY <4>1, ElementTypes, MessageTypes
          <6> QED BY <3>2, <5>1, <5>2, <5>4, <6>1 DEF InOrder
        <5> QED BY <3>1, <5>3, <5>4
      <4> QED BY <4>2, <4>3
    <3>6. Carried'
      <4>1. \A q \in Call : pc'[q] \in Broadcasting => q = p
        BY <1>2, <1>3, <3>1 DEF Broadcasting, InSection
      <4> QED BY <3>1, <3>2, <3>3, <4>1 DEF Carried
    <3> QED BY <3>1, <3>4, <3>5, <3>6 DEF FeedInv, Ordered
  <2> QED BY <1>5, <2>1, <2>2, <2>3, <2>4, <2>5, <2>6 DEF Proceed
<1>6. ASSUME NEW i \in Inst, Receive(i) PROVE FeedInv'
  <2>1. /\ inbox[i] # <<>>
        /\ inbox' = [inbox EXCEPT ![i] = Tail(inbox[i])]
        /\ UNCHANGED <<db, pc, snap, lastPub>>
    BY <1>6 DEF Receive, Take
  <2>2. Behind' /\ Carried'
    BY <2>1 DEF FeedInv, Behind, Carried
  <2>3. lastPub # None /\ lastPub.version \in Nat
    BY <2>1, Types DEF FeedInv, Started
  <2>4. InOrder(Tail(inbox[i]), lastPub.version)
    BY <2>1, <2>3, Types, TailInOrder DEF FeedInv, Ordered
  <2>5. Started' /\ Ordered'
    BY <2>1, <2>3, <2>4, Types DEF FeedInv, Started, Ordered
  <2> QED BY <2>2, <2>5 DEF FeedInv
<1>7. ASSUME NEW i \in Inst, Die(i) PROVE FeedInv'
  <2>1. /\ inbox' = [inbox EXCEPT ![i] = <<>>]
        /\ UNCHANGED <<db, lastPub>>
        /\ \A q \in Call : pc'[q] # "idle" => pc'[q] = pc[q] /\ snap'[q] = snap[q]
    BY <1>7 DEF Die, Crash
  <2>2. Started' /\ Behind' /\ Ordered'
    BY <2>1, Types DEF FeedInv, Started, Behind, Ordered
  <2>3. Carried'
    BY <2>1 DEF FeedInv, Carried, Broadcasting
  <2> QED BY <2>2, <2>3 DEF FeedInv
<1>8. CASE LockLapses
  BY <1>1, <1>3, <1>8, FeedKept DEF LockLapses, Lapse
<1>9. CASE UNCHANGED vars
  BY <1>1, <1>3, <1>9, FeedKept DEF vars, protocolVars
<1> QED BY <1>4, <1>5, <1>6, <1>7, <1>8, <1>9 DEF Next

(***************************************************************************)
(* While no reload outlives its lock, broadcasts leave, and wait at every  *)
(* subscriber, in the order of the database versions they carry.           *)
(***************************************************************************)
THEOREM FeedInOrder == Spec => []BroadcastsInOrder
<1>1. CASE "slow" \in Faults
  <2>1. BroadcastsInOrder
    BY <1>1 DEF BroadcastsInOrder
  <2> QED BY <2>1, PTL
<1>2. CASE "slow" \notin Faults
  <2>1. Init => TypeOK /\ LockHeldByOwner /\ FeedInv
    BY InitTypeOK, InitLock, InitFeed
  <2>2. TypeOK /\ LockHeldByOwner /\ FeedInv /\ [Next]_vars
           => (TypeOK /\ LockHeldByOwner /\ FeedInv)'
    BY <1>2, NextTypeOK, NextLock, NextFeed
  <2>3. FeedInv => BroadcastsInOrder
    BY DEF FeedInv, Ordered, Carried, Broadcasting, BroadcastsInOrder
  <2> QED BY <2>1, <2>2, <2>3, PTL DEF Spec
<1> QED BY <1>1, <1>2

-----------------------------------------------------------------------------
\* What is served.

Calm == {"slow", "late"} \cap Faults = {} /\ LazyReads = FALSE

LEMMA InitServe == Init => ServeInv
  BY DEF Init, ProtocolInit, ServeInv, Fills, Broadcasting

(***************************************************************************)
(* A step that leaves what is cached and what is in flight alone, and in   *)
(* which no call begins to broadcast or to fill.                           *)
(***************************************************************************)
LEMMA ServeKept ==
    ASSUME ServeInv,
           UNCHANGED <<cache, inbox, lastPub>>,
           \A q \in Call : \/ pc'[q] \notin Fills \cup Broadcasting
                           \/ pc'[q] = pc[q]
                           \/ pc'[q] \notin Fills /\ inbox[At[q]] = <<>>
                           \/ pc'[q] \notin Fills /\ pc[q] \in Broadcasting
    PROVE  ServeInv'
<1>1. \A q \in Call : pc'[q] \notin Fills
  BY DEF ServeInv, Fills
<1>2. \A i \in Inst : cache'[i] # None =>
         /\ lastPub' # None /\ cache'[i] <= lastPub'.version
         /\ \A j \in 1 .. Len(inbox'[i]) :
               inbox'[i][j].from # i => cache'[i] <= inbox'[i][j].version
  BY DEF ServeInv
<1>3. ASSUME NEW q \in Call, pc'[q] \in Broadcasting, NEW j \in 1 .. Len(inbox[At[q]])
      PROVE  inbox[At[q]][j].from = At[q]
  BY <1>3 DEF ServeInv, Fills
<1> QED BY <1>1, <1>2, <1>3 DEF ServeInv

LEMMA NextServe ==
    ASSUME Calm
    PROVE  /\ TypeOK /\ LockHeldByOwner /\ FeedInv /\ ServeInv /\ [Next]_vars
           => ServeInv'
<1> SUFFICES ASSUME TypeOK, LockHeldByOwner, FeedInv, ServeInv, [Next]_vars
             PROVE  ServeInv'
  OBVIOUS
<1>1. \A p, q \in Call : pc[p] \in InSection /\ pc[q] \in InSection => p = q
  BY DEF LockHeldByOwner, Calm
<1>2. pc \in [Call -> {"idle", "acquire"} \cup InSection \cup Fills]
  BY Types
<1>3. \A q \in Call : pc[q] \notin Fills
  BY DEF ServeInv
<1> USE <1>2 DEF Fills, Broadcasting
<1>4. ASSUME NEW p \in Call, Arrive(p) PROVE ServeInv'
  <2>1. /\ UNCHANGED <<cache, inbox, lastPub>>
        /\ UNCHANGED pc \/ pc' = [pc EXCEPT ![p] = "acquire"]
    BY <1>4 DEF Calm, Arrive, Boot, RequestReload, WriteAndReload, WriteOnly, FillBegin,
                BeginAt, Go
  <2>2. \A q \in Call : pc'[q] \notin Fills \cup Broadcasting \/ pc'[q] = pc[q]
    BY <2>1
  <2> QED BY <2>1, <2>2, ServeKept
<1>5. ASSUME NEW p \in Call, Proceed(p) PROVE ServeInv'
  <2>1. CASE (Acquire(p) \/ Skip(p) \/ AcquireFails(p)) /\ UNCHANGED <<cache, via>>
    <3>1. /\ UNCHANGED <<cache, inbox, lastPub>>
          /\ \A q \in Call : pc'[q] \notin Fills \cup Broadcasting \/ pc'[q] = pc[q]
      BY <2>1 DEF Acquire, Skip, AcquireFails, Go
    <3> QED BY <3>1, ServeKept
  <2>2. CASE (LoadFails(p) \/ Release(p) \/ ReleaseFails(p)) /\ UNCHANGED <<cache, via>>
    <3>1. /\ UNCHANGED <<cache, inbox, lastPub>>
          /\ \A q \in Call : pc'[q] \notin Fills \cup Broadcasting \/ pc'[q] = pc[q]
      BY <2>2 DEF LoadFails, Release, ReleaseFails, Go
    <3> QED BY <3>1, ServeKept
  <2>3. CASE FillLoad(p) \/ FillSet(p)
    BY <1>3, <2>3 DEF FillLoad, FillSet, Go
  <2>4. CASE ReloadLoad(p)
    <3>1. /\ UNCHANGED <<cache, inbox, lastPub>>
          /\ inbox[At[p]] = <<>>
          /\ pc' = [pc EXCEPT ![p] = "publish"]
      BY <2>4 DEF ReloadLoad, Load, Go, Calm
    <3>2. \A q \in Call : \/ pc'[q] = pc[q]
                          \/ pc'[q] \notin Fills /\ inbox[At[q]] = <<>>
      BY <3>1
    <3> QED BY <3>1, <3>2, ServeKept
  <2>5. CASE ReloadPublish(p)
    <3> DEFINE m == [from |-> At[p], version |-> snap[p]]
    <3>1. /\ pc[p] = "publish" /\ pc' = [pc EXCEPT ![p] = "set"]
          /\ lastPub' = m /\ UNCHANGED <<snap, cache>>
          /\ \A i \in Inst : inbox'[i] \in {inbox[i], Append(inbox[i], m)}
      BY <2>5, Types DEF ReloadPublish, Publish, Go
    <3>2. /\ m \in Message /\ m # None /\ m.version = snap[p] /\ snap[p] \in Nat
          /\ m.from = At[p]
      BY Types, MessageAssumption DEF Message
    <3>3. lastPub # None => lastPub.version <= snap[p]
      BY <3>1 DEF FeedInv, Carried
    <3>4. \A q \in Call : pc'[q] \notin Fills
      BY <1>3, <3>1
    <3> HIDE DEF m
    <3>5. ASSUME NEW i \in Inst, cache[i] # None
          PROVE  /\ cache[i] <= m.version
                 /\ \A j \in 1 .. Len(inbox'[i]) :
                       inbox'[i][j].from # i => cache[i] <= inbox'[i][j].version
      <4>1. cache[i] \in Nat /\ inbox[i] \in Seq(Message)
        BY <3>5, Types
      <4>2. cache[i] <= m.version
        BY <3>2, <3>3, <3>5, <4>1, Types DEF ServeInv
      <4>3. \A j \in 1 .. Len(inbox[i]) :
               inbox[i][j].from # i => cache[i] <= inbox[i][j].version
        BY <3>5 DEF ServeInv
      <4>4. CASE inbox'[i] = inbox[i]
        BY <4>2, <4>3, <4>4
      <4>5. CASE inbox'[i] = Append(inbox[i], m)
        <5> SUFFICES ASSUME NEW j \in 1 .. Len(inbox'[i]), inbox'[i][j].from # i
                     PROVE  cache[i] <= inbox'[i][j].version
          BY <4>2
        <5>1. j \in 1 .. Len(inbox[i]) \/ j = Len(inbox[i]) + 1
          BY <3>2, <4>1, <4>5, AppendElements
        <5>2. CASE j \in 1 .. Len(inbox[i])
          BY <3>2, <4>1, <4>3, <4>5, <5>2, AppendElements
        <5>3. CASE j = Len(inbox[i]) + 1
          BY <3>2, <4>1, <4>2, <4>5, <5>3, AppendElements
        <5> QED BY <5>1, <5>2, <5>3
      <4> QED BY <3>1, <4>4, <4>5
    <3>6. ASSUME NEW q \in Call, pc'[q] \in Broadcasting,
                 NEW j \in 1 .. Len(inbox'[At[q]])
          PROVE  inbox'[At[q]][j].from = At[q]
      <4>1. q = p
        BY <1>1, <3>1, <3>6 DEF InSection
      <4>2. At[p] \in Inst /\ inbox[At[p]] \in Seq(Message)
        BY Types
      <4>3. \A k \in 1 .. Len(inbox[At[p]]) : inbox[At[p]][k].from = At[p]
        BY <3>1 DEF ServeInv
      <4>4. CASE inbox'[At[p]] = inbox[At[p]]
        BY <3>6, <4>1, <4>3, <4>4
      <4>5. CASE inbox'[At[p]] = Append(inbox[At[p]], m)
        <5>1. j \in 1 .. Len(inbox[At[p]]) \/ j = Len(inbox[At[p]]) + 1
          BY <3>2, <3>6, <4>1, <4>2, <4>5, AppendElements
        <5> QED BY <3>2, <4>1, <4>2, <4>3, <4>5, <5>1, AppendElements
      <4> QED BY <3>1, <4>2, <4>4, <4>5
    <3> QED BY <3>1, <3>2, <3>4, <3>5, <3>6 DEF ServeInv
  <2>6. CASE ReloadSet(p)
    <3>1. /\ pc[p] = "set" /\ pc' = [pc EXCEPT ![p] = "release"]
          /\ cache' = [cache EXCEPT ![At[p]] = snap[p]]
          /\ UNCHANGED <<inbox, lastPub>>
      BY <2>6 DEF ReloadSet, Go, Keep
    <3>2. lastPub # None /\ lastPub.version = snap[p] /\ snap[p] \in Nat
      BY <3>1, Types DEF FeedInv, Carried
    <3>3. \A j \in 1 .. Len(inbox[At[p]]) : inbox[At[p]][j].from = At[p]
      BY <3>1 DEF ServeInv
    <3>4. \A q \in Call : pc'[q] \notin Fills /\ (pc'[q] \in Broadcasting => pc[q] = pc'[q])
      BY <1>3, <3>1
    <3>5. \A i \in Inst : i # At[p] => cache'[i] = cache[i]
      BY <3>1, Types
    <3>6. cache'[At[p]] = snap[p]
      BY <3>1, Types
    <3> QED BY <3>1, <3>2, <3>3, <3>4, <3>5, <3>6 DEF ServeInv
  <2> QED BY <1>5, <2>1, <2>2, <2>3, <2>4, <2>5, <2>6 DEF Proceed
<1>6. ASSUME NEW i \in Inst, Receive(i) PROVE ServeInv'
  <2> DEFINE q == inbox[i]
             m == Head(q)
  <2>1. /\ q # <<>> /\ q \in Seq(Message)
        /\ inbox' = [inbox EXCEPT ![i] = Tail(q)]
        /\ UNCHANGED <<pc, lastPub>>
        /\ m.from = i => UNCHANGED cache
        /\ m.from # i => cache' = [cache EXCEPT ![i] = m.version]
    BY <1>6, Types DEF Receive, Take, Keep
  <2>2. lastPub # None /\ InOrder(q, lastPub.version)
    BY <2>1 DEF FeedInv, Started, Ordered
  <2>3. /\ Len(q) \in Nat \ {0}
        /\ Len(Tail(q)) = Len(q) - 1
        /\ \A j \in 1 .. Len(q) - 1 : Tail(q)[j] = q[j + 1]
        /\ m = q[1] /\ 1 \in 1 .. Len(q)
    BY <2>1, TailElements
  <2>4. \A j \in 1 .. Len(q) : q[j].version \in Nat
    BY <2>1, ElementTypes, MessageTypes
  <2>5. inbox'[i] = Tail(q) /\ \A k \in Inst : k # i => inbox'[k] = inbox[k]
    BY <2>1, Types
  <2> HIDE DEF m
  <2>6. ASSUME NEW p \in Call, pc'[p] \in Broadcasting,
               NEW j \in 1 .. Len(inbox'[At[p]])
        PROVE  inbox'[At[p]][j].from = At[p]
    <3>1. \A k \in 1 .. Len(inbox[At[p]]) : inbox[At[p]][k].from = At[p]
      BY <2>1, <2>6 DEF ServeInv
    <3>2. CASE At[p] = i
      <4>1. j \in 1 .. Len(q) - 1
        BY <2>3, <2>5, <2>6, <3>2
      <4>2. j + 1 \in 1 .. Len(q) /\ Tail(q)[j] = q[j + 1]
        BY <2>3, <4>1
      <4>3. inbox'[At[p]][j] = Tail(q)[j]
        BY <2>5, <3>2
      <4> QED BY <3>1, <3>2, <4>2, <4>3
    <3>3. CASE At[p] # i
      BY <2>5, <2>6, <3>1, <3>3, Types
    <3> QED BY <3>2, <3>3
  <2>7. ASSUME NEW k \in Inst, cache'[k] # None
        PROVE  /\ cache'[k] <= lastPub.version
               /\ \A j \in 1 .. Len(inbox'[k]) :
                     inbox'[k][j].from # k => cache'[k] <= inbox'[k][j].version
    <3>1. CASE k # i
      <4>1. inbox'[k] = inbox[k] /\ cache'[k] = cache[k]
        BY <2>1, <2>5, <3>1, Types
      <4> QED BY <2>7, <4>1 DEF ServeInv
    <3>2. CASE k = i
      <4>1. ASSUME NEW j \in 1 .. Len(q) - 1
            PROVE  j + 1 \in 1 .. Len(q) /\ Tail(q)[j] = q[j + 1]
        BY <2>3
      <4>2. CASE m.from = i
        <5>1. cache'[i] = cache[i] /\ cache[i] # None
          BY <2>1, <2>7, <3>2, <4>2
        <5>2. /\ cache[i] <= lastPub.version
              /\ \A j \in 1 .. Len(q) : q[j].from # i => cache[i] <= q[j].version
          BY <5>1 DEF ServeInv
        <5>3. Len(inbox'[i]) = Len(q) - 1
          BY <2>3, <2>5
        <5>4. ASSUME NEW j \in 1 .. Len(q) - 1, inbox'[i][j].from # i
              PROVE  cache'[i] <= inbox'[i][j].version
          <6>1. inbox'[i][j] = q[j + 1] /\ j + 1 \in 1 .. Len(q)
            BY <2>5, <4>1
          <6> QED BY <5>1, <5>2, <5>4, <6>1
        <5> QED BY <3>2, <5>1, <5>2, <5>3, <5>4
      <4>3. CASE m.from # i
        <5>1. cache'[i] = m.version
          BY <2>1, <4>3, Types
        <5>2. m.version <= lastPub.version /\ \A j \in 1 .. Len(q) : m.version <= q[j].version
          BY <2>2, <2>3 DEF InOrder
        <5> QED BY <2>3, <2>5, <3>2, <4>1, <5>1, <5>2
      <4> QED BY <4>2, <4>3
    <3> QED BY <3>1, <3>2
  <2> QED BY <1>3, <2>1, <2>2, <2>6, <2>7 DEF ServeInv
<1>7. ASSUME NEW i \in Inst, Die(i) PROVE ServeInv'
  <2>1. /\ inbox' = [inbox EXCEPT ![i] = <<>>]
        /\ cache' = [cache EXCEPT ![i] = None]
        /\ UNCHANGED lastPub
        /\ \A q \in Call : pc'[q] = (IF At[q] = i THEN "idle" ELSE pc[q])
    BY <1>7 DEF Die, Crash, Keep
  <2>2. /\ inbox'[i] = <<>> /\ cache'[i] = None
        /\ \A k \in Inst : k # i => inbox'[k] = inbox[k] /\ cache'[k] = cache[k]
    BY <2>1, Types
  <2> QED BY <1>3, <2>1, <2>2, Types DEF ServeInv
<1>8. CASE LockLapses
  BY <1>8, ServeKept DEF LockLapses, Lapse
<1>9. CASE UNCHANGED vars
  BY <1>9, ServeKept DEF vars, protocolVars
<1> QED BY <1>4, <1>5, <1>6, <1>7, <1>8, <1>9 DEF Next

-----------------------------------------------------------------------------
\* Refinement.

LEMMA NextFollowsFeed ==
    ASSUME Calm
    PROVE  /\ TypeOK /\ LockHeldByOwner /\ FeedInv /\ ServeInv /\ [Next]_vars
           => [Feed!FeedNext]_(Feed!feedVars)
<1> SUFFICES ASSUME TypeOK, LockHeldByOwner, FeedInv, ServeInv, [Next]_vars
             PROVE  [Feed!FeedNext]_(Feed!feedVars)
  OBVIOUS
<1> DEFINE feed == IF lastPub = None THEN 0 ELSE lastPub.version
<1>1. Feed!feedVars = <<feed, cache>>
  BY DEF Feed!feedVars
<1>2. ASSUME UNCHANGED <<lastPub, cache>> PROVE UNCHANGED Feed!feedVars
  BY <1>2 DEF Feed!feedVars
<1>3. ASSUME NEW i \in Inst, NEW v \in Nat, UNCHANGED lastPub,
             lastPub # None, v <= lastPub.version, cache[i] # None => v >= cache[i],
             cache' = [cache EXCEPT ![i] = v]
      PROVE  Feed!FeedNext
  <2>1. feed = lastPub.version /\ v \in 0 .. feed /\ feed' = feed
    BY <1>3, Types
  <2> QED BY <1>3, <2>1 DEF Feed!FeedNext, Feed!CatchUp
<1>4. ASSUME NEW p \in Call, Arrive(p) PROVE UNCHANGED Feed!feedVars
  BY <1>2, <1>4
  DEF Arrive, Boot, RequestReload, WriteAndReload, WriteOnly, FillBegin
<1>5. ASSUME NEW p \in Call, Proceed(p) PROVE [Feed!FeedNext]_(Feed!feedVars)
  <2>1. CASE (Acquire(p) \/ Skip(p) \/ AcquireFails(p) \/ LoadFails(p)
                \/ Release(p) \/ ReleaseFails(p)) /\ UNCHANGED <<cache, via>>
    BY <1>2, <2>1 DEF Acquire, Skip, AcquireFails, LoadFails, Release, ReleaseFails
  <2>2. CASE ReloadLoad(p)
    BY <1>2, <2>2 DEF ReloadLoad, Load
  <2>3. CASE FillLoad(p) \/ FillSet(p)
    BY <2>3 DEF FillLoad, FillSet, Go, ServeInv, Fills
  <2>4. CASE ReloadPublish(p)
    <3>1. /\ pc[p] = "publish"
          /\ lastPub' = [from |-> At[p], version |-> snap[p]]
          /\ UNCHANGED cache
      BY <2>4 DEF ReloadPublish, Publish, Go
    <3>2. lastPub' \in Message /\ lastPub' # None /\ lastPub'.version = snap[p]
      BY <3>1, Types, MessageAssumption DEF Message
    <3>3. snap[p] \in 0 .. MaxVersion
      BY Types DEF Version
    <3>4. lastPub # None => lastPub.version \in Nat /\ lastPub.version <= snap[p]
      BY <3>1, Types DEF FeedInv, Carried, Broadcasting
    <3>5. feed \in Nat /\ feed' = snap[p] /\ feed <= snap[p]
      BY <3>2, <3>3, <3>4
    <3>6. feed' \in feed .. MaxVersion
      BY <3>3, <3>5, ReloadAssumption
    <3> QED BY <3>1, <3>6 DEF Feed!FeedNext, Feed!Announce
  <2>5. CASE ReloadSet(p)
    <3>1. /\ pc[p] = "set" /\ UNCHANGED lastPub
          /\ cache' = [cache EXCEPT ![At[p]] = snap[p]]
      BY <2>5 DEF ReloadSet, Go, Keep
    <3>2. lastPub # None /\ lastPub.version = snap[p]
      BY <3>1 DEF FeedInv, Carried, Broadcasting
    <3>3. At[p] \in Inst /\ snap[p] \in Nat
      BY Types
    <3>4. ASSUME cache[At[p]] # None PROVE snap[p] >= cache[At[p]]
      <4>1. cache[At[p]] \in Nat
        BY <3>3, <3>4, Types
      <4>2. cache[At[p]] <= lastPub.version
        BY <3>3, <3>4 DEF ServeInv
      <4> QED BY <3>2, <3>3, <4>1, <4>2
    <3>5. snap[p] <= lastPub.version
      BY <3>2, <3>3
    <3>6. UNCHANGED lastPub
      BY <3>1
    <3> HIDE DEF feed
    <3>7. Feed!FeedNext
      BY ONLY <1>3, <3>1, <3>2, <3>3, <3>4, <3>5, <3>6
    <3> QED BY <3>7
  <2> QED BY <1>5, <2>1, <2>2, <2>3, <2>4, <2>5 DEF Proceed
<1>6. ASSUME NEW i \in Inst, Receive(i) PROVE [Feed!FeedNext]_(Feed!feedVars)
  <2> DEFINE m == Head(inbox[i])
  <2>1. /\ inbox[i] # <<>> /\ UNCHANGED lastPub
        /\ m.from = i => UNCHANGED cache
        /\ m.from # i => cache' = [cache EXCEPT ![i] = m.version]
    BY <1>6 DEF Receive, Take, Keep
  <2>2. /\ inbox[i] \in Seq(Message) /\ 1 \in 1 .. Len(inbox[i]) /\ m = inbox[i][1]
    BY <2>1, TailElements, Types
  <2>3. m.version \in Nat
    BY <2>2, ElementTypes, MessageTypes
  <2>4. lastPub # None /\ m.version <= lastPub.version
    BY <2>1, <2>2 DEF FeedInv, Started, Ordered, InOrder
  <2>5. CASE m.from = i
    BY <1>2, <2>1, <2>5
  <2>6. CASE m.from # i
    <3>1. cache[i] # None => m.version >= cache[i]
      BY <2>2, <2>3, <2>6, Types DEF ServeInv
    <3> QED BY <1>3, <2>1, <2>3, <2>4, <2>6, <3>1
  <2> QED BY <2>5, <2>6
<1>7. ASSUME NEW i \in Inst, Die(i) PROVE Feed!FeedNext
  BY <1>7 DEF Die, Crash, Keep, Feed!FeedNext, Feed!Forget
<1>8. CASE LockLapses
  BY <1>2, <1>8 DEF LockLapses, Lapse
<1>9. CASE UNCHANGED vars
  BY <1>2, <1>9 DEF vars, protocolVars
<1> QED BY <1>4, <1>5, <1>6, <1>7, <1>8, <1>9 DEF Next

(***************************************************************************)
(* Without lock-less fills, while no reload outlives its lock and          *)
(* broadcasts are read in time, the metadata caches of any cluster follow  *)
(* one feed: an instance never serves metadata older than what it served   *)
(* before, and never any that has not been broadcast - under crashes, lost *)
(* broadcasts, failing queries and failing Redis commands.                 *)
(***************************************************************************)
THEOREM ImplementsFeed == Calm => (Spec => CachesFollowTheFeed)
<1> SUFFICES ASSUME Calm PROVE Spec => CachesFollowTheFeed
  OBVIOUS
<1> DEFINE Inv == TypeOK /\ LockHeldByOwner /\ FeedInv /\ ServeInv
<1>1. Init => Inv
  BY InitTypeOK, InitLock, InitFeed, InitServe
<1>2. Inv /\ [Next]_vars => Inv'
  <2>1. "slow" \notin Faults
    BY DEF Calm
  <2> QED BY <2>1, NextTypeOK, NextLock, NextFeed, NextServe
<1>3. Init => Feed!FeedInit
  BY DEF Init, ProtocolInit, Feed!FeedInit
<1>4. Inv /\ [Next]_vars => [Feed!FeedNext]_(Feed!feedVars)
  BY NextFollowsFeed
<1> QED BY <1>1, <1>2, <1>3, <1>4, PTL DEF Spec, CachesFollowTheFeed, Feed!FeedSpec

-----------------------------------------------------------------------------
\* What is cached in the end.  That settled caches agree is about moments when
\* nothing is in flight; in between, what waits for an instance ends with the
\* last broadcast, and an instance for which nothing waits has it already, or
\* is about to keep it.

Keeping(i) == \E p \in Call : At[p] = i /\ pc[p] = "set"

\* The cache of i came from a broadcast or a reload, and none is being kept.
Fed(i) == Running(i) /\ via[i] \in {"reload", "message"} /\ ~Keeping(i)

LiveOnes ==
    /\ \A p \in Call : pc[p] # "idle" => Running(At[p])
    /\ \A i \in Inst : ~Running(i) => inbox[i] = <<>> /\ via[i] = "empty"

LastIsLast == \A i \in Inst : inbox[i] # <<>> => inbox[i][Len(inbox[i])] = lastPub

KeepsLast == \A p \in Call : pc[p] = "set" => lastPub # None /\ lastPub.from = At[p]

HasLast ==
    \A i \in Inst : Fed(i) /\ inbox[i] = <<>> =>
       /\ lastPub # None
       /\ cache[i] = lastPub.version \/ ("late" \in Faults /\ i = lastPub.from)

\* When broadcasts are read in time, the sender has only its own to read.
AllFrom(q, i) == \A j \in 1 .. Len(q) : q[j].from = i
OwnOnly ==
    "late" \notin Faults =>
       /\ \A p \in Call : pc[p] \in Broadcasting => AllFrom(inbox[At[p]], At[p])
       /\ lastPub # None => /\ AllFrom(inbox[lastPub.from], lastPub.from)
                            /\ Fed(lastPub.from) => cache[lastPub.from] = lastPub.version

EndInv == LiveOnes /\ LastIsLast /\ KeepsLast /\ HasLast /\ OwnOnly

LEMMA InitEnd == Init => EndInv
  BY DEF Init, ProtocolInit, EndInv, LiveOnes, LastIsLast, KeepsLast, HasLast, OwnOnly,
     Fed, Running, Broadcasting

(***************************************************************************)
(* A step that leaves alone what is cached and what is in flight, in which *)
(* no call begins or ends to keep a snapshot.                              *)
(***************************************************************************)
LEMMA EndKept ==
    ASSUME TypeOK, EndInv, UNCHANGED <<cache, via, inbox, lastPub>>,
           \A i \in Inst : status'[i] = status[i] \/ (status'[i] = "running" /\ via[i] = "empty"),
           \A q \in Call : pc'[q] = "set" <=> pc[q] = "set",
           \A q \in Call : pc'[q] = "publish" =>
              pc[q] = "publish" \/ "late" \in Faults \/ inbox[At[q]] = <<>>,
           \A q \in Call : pc'[q] # "idle" => status'[At[q]] = "running"
    PROVE  EndInv'
<1>1. LiveOnes'
  BY DEF EndInv, LiveOnes, Running
<1>2. LastIsLast' /\ KeepsLast'
  BY DEF EndInv, LastIsLast, KeepsLast
<1>3. \A i \in Inst : Fed(i)' => Fed(i)
  BY DEF Fed, Running, Keeping
<1>4. HasLast'
  BY <1>3 DEF EndInv, HasLast
<1>5. OwnOnly'
  <2> SUFFICES ASSUME "late" \notin Faults
               PROVE  /\ \A p \in Call : pc'[p] \in Broadcasting => AllFrom(inbox[At[p]], At[p])
                      /\ lastPub # None =>
                            /\ AllFrom(inbox[lastPub.from], lastPub.from)
                            /\ Fed(lastPub.from)' => cache[lastPub.from] = lastPub.version
    BY DEF OwnOnly, AllFrom
  <2>1. ASSUME NEW p \in Call, pc'[p] \in Broadcasting PROVE AllFrom(inbox[At[p]], At[p])
    <3>1. CASE pc[p] \in Broadcasting
      BY <3>1 DEF EndInv, OwnOnly
    <3>2. CASE inbox[At[p]] = <<>>
      BY <3>2 DEF AllFrom
    <3> QED BY <2>1, <3>1, <3>2 DEF Broadcasting
  <2>2. lastPub # None => lastPub.from \in Inst
    BY Types, MessageTypes
  <2> QED BY <1>3, <2>1, <2>2 DEF EndInv, OwnOnly
<1> QED BY <1>1, <1>2, <1>4, <1>5 DEF EndInv

LEMMA PublishEnd ==
    ASSUME TypeOK, FeedInv, EndInv, {"slow", "loss"} \cap Faults = {}, LockHeldByOwner,
           NEW p \in Call, ReloadPublish(p)
    PROVE  EndInv'
<1> DEFINE m == [from |-> At[p], version |-> snap[p]]
<1>1. /\ pc[p] = "publish" /\ pc' = [pc EXCEPT ![p] = "set"] /\ lastPub' = m
      /\ inbox' = [i \in Inst |-> IF Running(i) THEN Append(inbox[i], m) ELSE inbox[i]]
      /\ UNCHANGED <<status, cache, via>>
  BY DEF ReloadPublish, Publish, Go
<1>2. m \in Message /\ m # None /\ m.from = At[p]
  BY Types, MessageAssumption DEF Message
<1>3. \A i \in Inst : inbox[i] \in Seq(Message)
  BY Types
<1>4. pc \in [Call -> {"idle", "acquire"} \cup InSection \cup Fills] /\ At[p] \in Inst
  BY Types
<1>5. \A i \in Inst : IF Running(i) THEN inbox'[i] = Append(inbox[i], m) ELSE inbox'[i] = inbox[i]
  BY <1>1
<1>6. \A q \in Call : pc'[q] \in Broadcasting => q = p
  BY <1>1, <1>4 DEF LockHeldByOwner, Broadcasting, InSection
<1> HIDE DEF m
<1>7. LiveOnes'
  BY <1>1, <1>4, <1>5 DEF EndInv, LiveOnes, Running
<1>8. LastIsLast'
  <2> SUFFICES ASSUME NEW i \in Inst, inbox'[i] # <<>>
               PROVE  inbox'[i][Len(inbox'[i])] = m
    BY <1>1 DEF LastIsLast
  <2>1. inbox'[i] = Append(inbox[i], m)
    BY <1>5 DEF EndInv, LiveOnes
  <2> QED BY <1>2, <1>3, <2>1, AppendElements
<1>9. KeepsLast'
  BY <1>1, <1>2, <1>6 DEF KeepsLast, Broadcasting
<1>10. HasLast'
  <2> SUFFICES ASSUME NEW i \in Inst, Running(i)' PROVE inbox'[i] # <<>>
    BY DEF HasLast, Fed
  <2> QED BY <1>1, <1>2, <1>3, <1>5, AppendElements DEF Running
<1>11. OwnOnly'
  <2> SUFFICES ASSUME "late" \notin Faults
               PROVE  /\ \A q \in Call : pc'[q] \in Broadcasting => AllFrom(inbox'[At[q]], At[q])
                      /\ AllFrom(inbox'[At[p]], At[p])
                      /\ ~Fed(At[p])'
    BY <1>1, <1>2 DEF OwnOnly, AllFrom
  <2>1. AllFrom(inbox[At[p]], At[p])
    BY <1>1 DEF EndInv, OwnOnly, Broadcasting
  <2>2. AllFrom(inbox'[At[p]], At[p])
    <3>1. CASE inbox'[At[p]] = inbox[At[p]]
      BY <2>1, <3>1
    <3>2. CASE inbox'[At[p]] = Append(inbox[At[p]], m)
      <4> SUFFICES ASSUME NEW j \in 1 .. Len(inbox'[At[p]])
                   PROVE  inbox'[At[p]][j].from = At[p]
        BY DEF AllFrom
      <4>1. j \in 1 .. Len(inbox[At[p]]) \/ j = Len(inbox[At[p]]) + 1
        BY <1>2, <1>3, <1>4, <3>2, AppendElements
      <4> QED BY <1>2, <1>3, <1>4, <2>1, <3>2, <4>1, AppendElements DEF AllFrom
    <3> QED BY <1>4, <1>5, <3>1, <3>2
  <2>3. ~Fed(At[p])'
    BY <1>1, <1>4 DEF Fed, Keeping
  <2> QED BY <1>6, <2>2, <2>3
<1> QED BY <1>7, <1>8, <1>9, <1>10, <1>11 DEF EndInv

LEMMA ReceiveEnd ==
    ASSUME TypeOK, EndInv, FeedInv, NEW i \in Inst, Receive(i)
    PROVE  EndInv'
<1> DEFINE q == inbox[i]
           m == Head(q)
<1>1. /\ q # <<>> /\ q \in Seq(Message)
      /\ inbox' = [inbox EXCEPT ![i] = Tail(q)]
      /\ UNCHANGED <<pc, lastPub, status>>
      /\ m.from = i => UNCHANGED <<cache, via>>
      /\ m.from # i => /\ cache' = [cache EXCEPT ![i] = m.version]
                       /\ via' = [via EXCEPT ![i] = "message"]
  BY Types DEF Receive, Take, Keep
<1>2. /\ Len(q) \in Nat \ {0}
      /\ Len(Tail(q)) = Len(q) - 1
      /\ \A j \in 1 .. Len(q) - 1 : Tail(q)[j] = q[j + 1]
      /\ m = q[1] /\ Tail(q) \in Seq(Message)
  BY <1>1, TailElements, InboxTypes
<1>3. inbox'[i] = Tail(q) /\ \A k \in Inst : k # i => inbox'[k] = inbox[k]
  BY <1>1, Types
<1>4. /\ q[Len(q)] = lastPub /\ lastPub # None /\ lastPub \in Message
      /\ lastPub.from \in Inst /\ lastPub.version \in Nat
  BY <1>1, Types, MessageTypes DEF EndInv, LastIsLast, FeedInv, Started
<1>5. Running(i)
  BY <1>1 DEF EndInv, LiveOnes
<1>6. /\ \A k \in Inst : k # i => cache'[k] = cache[k] /\ via'[k] = via[k]
      /\ m.from # i => cache'[i] = m.version /\ via'[i] = "message"
  <2>1. cache \in [Inst -> Version \cup {None}] /\ via \in [Inst -> {"empty", "reload", "message", "fill"}]
    BY DEF TypeOK
  <2> QED BY <1>1, <2>1
<1> HIDE DEF m, q
<1>7. LiveOnes' /\ KeepsLast'
  BY <1>1, <1>3, <1>5, <1>6 DEF EndInv, LiveOnes, KeepsLast, Running
<1>8. Tail(q) = <<>> => Len(q) = 1 /\ m = lastPub
  <2> SUFFICES ASSUME Tail(q) = <<>> PROVE Len(q) = 1 /\ m = lastPub
    OBVIOUS
  <2>1. Len(Tail(q)) = 0
    <3>1. Len(<<>>) = 0
      OBVIOUS
    <3> QED BY <3>1
  <2>2. Len(q) = 1
    BY <1>2, <2>1
  <2> QED BY <1>2, <1>4, <2>2
<1>9. LastIsLast'
  <2> SUFFICES ASSUME Tail(q) # <<>> PROVE Tail(q)[Len(Tail(q))] = lastPub
    BY <1>1, <1>3 DEF LastIsLast, EndInv
  <2>1. Len(Tail(q)) \in Nat \ {0}
    BY <1>2
  <2>2. Len(q) - 1 \in 1 .. Len(q) - 1
    BY <1>2, <2>1
  <2> QED BY <1>2, <1>4, <2>2
<1>10. \A j \in 1 .. Len(Tail(q)) : \E k \in 1 .. Len(q) : Tail(q)[j] = q[k]
  BY <1>2
<1>11. "late" \notin Faults /\ i = lastPub.from => m.from = i
  BY <1>2, <1>4 DEF EndInv, OwnOnly, AllFrom, q
<1>12. OwnOnly'
  <2> SUFFICES ASSUME "late" \notin Faults
               PROVE  /\ \A p \in Call : pc[p] \in Broadcasting => AllFrom(inbox'[At[p]], At[p])
                      /\ AllFrom(inbox'[lastPub.from], lastPub.from)
                      /\ Fed(lastPub.from)' => cache'[lastPub.from] = lastPub.version
    BY <1>1, <1>4 DEF OwnOnly, AllFrom
  <2>1. ASSUME NEW k \in Inst, AllFrom(inbox[k], k) PROVE AllFrom(inbox'[k], k)
    <3>1. CASE k # i
      BY <1>3, <2>1, <3>1
    <3>2. CASE k = i
      <4>1. \A j \in 1 .. Len(q) : q[j].from = i
        <5>1. inbox[k] = q
          BY <3>2 DEF q
        <5>2. AllFrom(q, k)
          BY <2>1, <5>1
        <5> QED BY <3>2, <5>2 DEF AllFrom
      <4>2. \A j \in 1 .. Len(Tail(q)) : Tail(q)[j].from = k
        BY <1>10, <3>2, <4>1
      <4>3. AllFrom(Tail(q), k)
        BY <4>2 DEF AllFrom
      <4> QED BY <1>3, <3>2, <4>3
    <3> QED BY <3>1, <3>2
  <2>2. \A p \in Call : At[p] \in Inst
    BY Types
  <2>3. Fed(lastPub.from)' => cache'[lastPub.from] = lastPub.version
    <3>1. Fed(lastPub.from) => cache[lastPub.from] = lastPub.version
      BY <1>4 DEF EndInv, OwnOnly
    <3>2. cache'[lastPub.from] = cache[lastPub.from] /\ via'[lastPub.from] = via[lastPub.from]
      BY <1>1, <1>4, <1>6, <1>11
    <3> QED BY <1>1, <3>1, <3>2 DEF Fed, Running, Keeping
  <2> QED BY <1>4, <2>1, <2>2, <2>3 DEF EndInv, OwnOnly
<1>13. HasLast'
  <2> SUFFICES ASSUME NEW k \in Inst, Fed(k)', inbox'[k] = <<>>
               PROVE  cache'[k] = lastPub.version \/ ("late" \in Faults /\ k = lastPub.from)
    BY <1>1, <1>4 DEF HasLast
  <2>1. CASE k # i
    BY <1>1, <1>3, <1>6, <2>1 DEF EndInv, HasLast, Fed, Running, Keeping
  <2>2. CASE k = i
    <3>1. m = lastPub
      BY <1>3, <1>8, <2>2
    <3>2. CASE m.from # i
      BY <1>6, <2>2, <3>1, <3>2
    <3>3. CASE m.from = i
      <4>1. "late" \notin Faults => cache'[i] = lastPub.version
        BY <1>1, <1>4, <1>12, <2>2, <3>1, <3>3 DEF OwnOnly
      <4> QED BY <2>2, <3>1, <3>3, <4>1
    <3> QED BY <3>2, <3>3
  <2> QED BY <2>1, <2>2
<1> QED BY <1>7, <1>9, <1>12, <1>13 DEF EndInv

LEMMA NextEnd ==
    ASSUME {"slow", "loss"} \cap Faults = {}
    PROVE  TypeOK /\ LockHeldByOwner /\ FeedInv /\ EndInv /\ [Next]_vars => EndInv'
<1> SUFFICES ASSUME TypeOK, LockHeldByOwner, FeedInv, EndInv, [Next]_vars PROVE EndInv'
  OBVIOUS
<1>1. /\ pc \in [Call -> {"idle", "acquire"} \cup InSection \cup Fills]
      /\ \A p \in Call : At[p] \in Inst
      /\ status \in [Inst -> {"off", "running", "down"}]
      /\ cache \in [Inst -> Version \cup {None}]
      /\ via \in [Inst -> {"empty", "reload", "message", "fill"}]
      /\ snap \in [Call -> Version]
  BY Types DEF TypeOK, ProtocolTypeOK
<1>2. /\ \A p \in Call : pc[p] # "idle" => status[At[p]] = "running"
      /\ \A i \in Inst : status[i] # "running" => inbox[i] = <<>> /\ via[i] = "empty"
  BY DEF EndInv, LiveOnes, Running
<1>3. ASSUME NEW p \in Call, Arrive(p) PROVE EndInv'
  <2>1. /\ UNCHANGED <<cache, via, inbox, lastPub>>
        /\ \/ status' = status /\ status[At[p]] = "running"
           \/ status[At[p]] = "off" /\ status' = [status EXCEPT ![At[p]] = "running"]
        /\ \/ pc' = pc
           \/ pc[p] = "idle" /\ pc' = [pc EXCEPT ![p] = "acquire"]
           \/ pc[p] = "idle" /\ pc' = [pc EXCEPT ![p] = "fillLoad"]
    BY <1>3 DEF Arrive, Boot, RequestReload, WriteAndReload, WriteOnly, FillBegin, BeginAt, Go,
       Running
  <2>2. /\ \A i \in Inst : status'[i] = status[i] \/ (status'[i] = "running" /\ via[i] = "empty")
        /\ \A q \in Call : pc'[q] # "idle" => status'[At[q]] = "running"
    BY <1>1, <1>2, <2>1
  <2>3. \A q \in Call : (pc'[q] = "set" <=> pc[q] = "set") /\ (pc'[q] = "publish" => pc[q] = "publish")
    BY <1>1, <2>1
  <2> QED BY <2>1, <2>2, <2>3, EndKept
<1>4. ASSUME NEW p \in Call, Proceed(p) PROVE EndInv'
  <2>1. CASE (Acquire(p) \/ Skip(p) \/ AcquireFails(p) \/ LoadFails(p)
                \/ Release(p) \/ ReleaseFails(p)) /\ UNCHANGED <<cache, via>>
    <3>1. /\ UNCHANGED <<cache, via, inbox, lastPub, status>>
          /\ pc[p] \in {"acquire", "load", "release"}
          /\ \E s \in {"load", "idle", "release"} : pc' = [pc EXCEPT ![p] = s]
      BY <2>1 DEF Acquire, Skip, AcquireFails, LoadFails, Release, ReleaseFails, Go
    <3>2. /\ \A q \in Call : (pc'[q] = "set" <=> pc[q] = "set") /\ (pc'[q] = "publish" => pc[q] = "publish")
          /\ \A q \in Call : pc'[q] # "idle" => pc[q] # "idle"
      BY <1>1, <3>1
    <3> QED BY <1>2, <3>1, <3>2, EndKept
  <2>2. CASE ReloadLoad(p)
    <3>1. /\ UNCHANGED <<cache, via, inbox, lastPub, status>>
          /\ pc[p] = "load" /\ pc' = [pc EXCEPT ![p] = "publish"]
          /\ "late" \in Faults \/ inbox[At[p]] = <<>>
      BY <2>2 DEF ReloadLoad, Load, Go
    <3>2. /\ \A q \in Call : (pc'[q] = "set" <=> pc[q] = "set") /\ (pc'[q] # "idle" => pc[q] # "idle")
          /\ \A q \in Call : pc'[q] = "publish" =>
                pc[q] = "publish" \/ "late" \in Faults \/ inbox[At[q]] = <<>>
      BY <1>1, <3>1
    <3> QED BY <1>2, <3>1, <3>2, EndKept
  <2>3. CASE FillLoad(p)
    <3>1. /\ UNCHANGED <<cache, via, inbox, lastPub, status>>
          /\ pc[p] = "fillLoad" /\ pc' = [pc EXCEPT ![p] = "fillSet"]
      BY <2>3 DEF FillLoad, Go
    <3>2. \A q \in Call : /\ pc'[q] = "set" <=> pc[q] = "set"
                          /\ pc'[q] = "publish" => pc[q] = "publish"
                          /\ pc'[q] # "idle" => pc[q] # "idle"
      BY <1>1, <3>1
    <3> QED BY <1>2, <3>1, <3>2, EndKept
  <2>4. CASE ReloadPublish(p)
    BY <2>4, PublishEnd
  <2>5. CASE ReloadSet(p) \/ FillSet(p)
    <3> DEFINE i == At[p]
    <3>1. /\ UNCHANGED <<inbox, lastPub, status>>
          /\ cache' = [cache EXCEPT ![i] = snap[p]]
          /\ \/ /\ pc[p] = "set" /\ pc' = [pc EXCEPT ![p] = "release"]
                /\ via' = [via EXCEPT ![i] = "reload"]
             \/ /\ pc[p] = "fillSet" /\ pc' = [pc EXCEPT ![p] = "idle"]
                /\ via' = [via EXCEPT ![i] = "fill"]
      BY <2>5 DEF ReloadSet, FillSet, Go, Keep
    <3>2. /\ \A k \in Inst : k # i => cache'[k] = cache[k] /\ via'[k] = via[k]
          /\ cache'[i] = snap[p] /\ i \in Inst
          /\ pc[p] = "set" => via'[i] = "reload"
          /\ pc[p] # "set" => via'[i] = "fill"
          /\ \A q \in Call : /\ q # p => pc'[q] = pc[q]
                             /\ pc'[q] # "idle" => pc[q] # "idle"
                             /\ pc'[q] \in Broadcasting => pc[q] = pc'[q]
      BY <1>1, <3>1 DEF Broadcasting
    <3>3. pc[p] = "set" => lastPub # None /\ lastPub.version = snap[p]
      BY DEF FeedInv, Carried, Broadcasting
    <3>4. Running(i)
      BY <1>1, <1>2, <3>1 DEF Running
    <3> HIDE DEF i
    <3>5. LiveOnes' /\ LastIsLast' /\ KeepsLast'
      BY <1>2, <3>1, <3>2, <3>4 DEF EndInv, LiveOnes, LastIsLast, KeepsLast, Running, Broadcasting
    <3>6. ASSUME NEW k \in Inst, k # i, Fed(k)' PROVE Fed(k)
      BY <1>1, <3>1, <3>2, <3>6 DEF Fed, Running, Keeping, i
    <3>7. HasLast'
      <4> SUFFICES ASSUME NEW k \in Inst, Fed(k)', inbox[k] = <<>>
                   PROVE  /\ lastPub # None
                          /\ cache'[k] = lastPub.version \/ ("late" \in Faults /\ k = lastPub.from)
        BY <3>1 DEF HasLast
      <4>1. CASE k # i
        BY <3>2, <3>6, <4>1 DEF EndInv, HasLast
      <4>2. CASE k = i
        BY <3>2, <3>3, <4>2 DEF Fed
      <4> QED BY <4>1, <4>2
    <3>8. OwnOnly'
      <4> SUFFICES ASSUME "late" \notin Faults
                   PROVE  /\ \A q \in Call : pc'[q] \in Broadcasting => AllFrom(inbox[At[q]], At[q])
                          /\ lastPub # None =>
                                /\ AllFrom(inbox[lastPub.from], lastPub.from)
                                /\ Fed(lastPub.from)' => cache'[lastPub.from] = lastPub.version
        BY <3>1 DEF OwnOnly, AllFrom
      <4>1. \A q \in Call : pc'[q] \in Broadcasting => AllFrom(inbox[At[q]], At[q])
        BY <3>2 DEF EndInv, OwnOnly
      <4>2. ASSUME lastPub # None, Fed(lastPub.from)'
            PROVE  cache'[lastPub.from] = lastPub.version
        <5>1. lastPub.from \in Inst
          BY <4>2, Types, MessageTypes
        <5>2. CASE lastPub.from # i
          <6>1. Fed(lastPub.from)
            <7>1. PICK k \in Inst : k = lastPub.from
              BY <5>1
            <7>2. Fed(k)' /\ k # i
              BY <3>1, <4>2, <5>2, <7>1 DEF Fed, Running, Keeping
            <7> QED BY <3>6, <7>1, <7>2
          <6> QED BY <3>2, <4>2, <5>1, <5>2, <6>1 DEF EndInv, OwnOnly
        <5>3. CASE lastPub.from = i
          <6>1. via'[i] \in {"reload", "message"}
            BY <3>1, <4>2, <5>3 DEF Fed
          <6> QED BY <3>2, <3>3, <5>3, <6>1
        <5> QED BY <5>2, <5>3
      <4> QED BY <4>1, <4>2 DEF EndInv, OwnOnly
    <3> QED BY <3>5, <3>7, <3>8 DEF EndInv
  <2> QED BY <1>4, <2>1, <2>2, <2>3, <2>4, <2>5 DEF Proceed
<1>5. ASSUME NEW i \in Inst, Receive(i) PROVE EndInv'
  BY <1>5, ReceiveEnd
<1>6. ASSUME NEW i \in Inst, Die(i) PROVE EndInv'
  <2>1. /\ inbox' = [inbox EXCEPT ![i] = <<>>] /\ status' = [status EXCEPT ![i] = "down"]
        /\ cache' = [cache EXCEPT ![i] = None] /\ via' = [via EXCEPT ![i] = "empty"]
        /\ UNCHANGED lastPub
        /\ \A q \in Call : pc'[q] = (IF At[q] = i THEN "idle" ELSE pc[q])
    BY <1>6 DEF Die, Crash, Keep
  <2>2. /\ inbox'[i] = <<>> /\ status'[i] = "down" /\ via'[i] = "empty"
        /\ \A k \in Inst : k # i => /\ inbox'[k] = inbox[k] /\ cache'[k] = cache[k]
                                    /\ via'[k] = via[k] /\ status'[k] = status[k]
    BY <1>1, <2>1, Types
  <2>3. LiveOnes' /\ LastIsLast' /\ KeepsLast'
    BY <1>1, <1>2, <2>1, <2>2 DEF EndInv, LiveOnes, LastIsLast, KeepsLast, Running
  <2>4. ASSUME NEW k \in Inst, Fed(k)' PROVE k # i /\ Fed(k)
    BY <1>1, <2>1, <2>2, <2>4 DEF Fed, Running, Keeping
  <2>5. HasLast'
    BY <2>1, <2>2, <2>4 DEF EndInv, HasLast
  <2>6. OwnOnly'
    <3>1. \A k \in Inst : AllFrom(inbox[k], k) => AllFrom(inbox'[k], k)
      BY <2>2 DEF AllFrom
    <3>2. lastPub # None => lastPub.from \in Inst
      BY Types, MessageTypes
    <3>3. \A q \in Call : pc'[q] \in Broadcasting => pc[q] \in Broadcasting
      BY <2>1 DEF Broadcasting
    <3> QED BY <1>1, <2>1, <2>2, <2>4, <3>1, <3>2, <3>3 DEF EndInv, OwnOnly
  <2> QED BY <2>3, <2>5, <2>6 DEF EndInv
<1>7. CASE LockLapses
  BY <1>2, <1>7, EndKept DEF LockLapses, Lapse
<1>8. CASE UNCHANGED vars
  BY <1>2, <1>8, EndKept DEF vars, protocolVars
<1> QED BY <1>3, <1>4, <1>5, <1>6, <1>7, <1>8 DEF Next

(***************************************************************************)
(* When reloads fit in their lock and no broadcast is lost, then, once     *)
(* nothing runs and nothing is in flight, the instances whose caches came  *)
(* from a reload or a broadcast agree on the last snapshot that was        *)
(* broadcast, but for its sender where broadcasts may be read late - under *)
(* crashes, failing queries and failing Redis commands.  The database may  *)
(* be ahead, by a write that no reload followed.                           *)
(***************************************************************************)
THEOREM CachesAgreeInTheEnd == Spec => []SettledCachesAgree
<1>1. CASE {"slow", "loss"} \cap Faults # {}
  <2>1. SettledCachesAgree
    BY <1>1 DEF SettledCachesAgree
  <2> QED BY <2>1, PTL
<1>2. CASE {"slow", "loss"} \cap Faults = {}
  <2>1. Init => TypeOK /\ LockHeldByOwner /\ FeedInv /\ EndInv
    BY InitTypeOK, InitLock, InitFeed, InitEnd
  <2>2. TypeOK /\ LockHeldByOwner /\ FeedInv /\ EndInv /\ [Next]_vars
           => (TypeOK /\ LockHeldByOwner /\ FeedInv /\ EndInv)'
    BY <1>2, NextTypeOK, NextLock, NextFeed, NextEnd
  <2>3. EndInv => SettledCachesAgree
    BY DEF EndInv, HasLast, Fed, Keeping, Quiet, SettledCachesAgree
  <2> QED BY <2>1, <2>2, <2>3, PTL DEF Spec
<1> QED BY <1>1, <1>2
=============================================================================
