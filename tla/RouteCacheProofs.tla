-------------------------- MODULE RouteCacheProofs --------------------------
(***************************************************************************)
(* Theorems about RouteCache, for every set of instances and calls, every  *)
(* bound and every set of faults.                                          *)
(***************************************************************************)
EXTENDS RouteCache, TLAPS

-----------------------------------------------------------------------------
\* Types.

(***************************************************************************)
(* Between its load and its build a reload knows the methods: the engine   *)
(* is never built from none.                                               *)
(***************************************************************************)
MethodsAreKnown ==
    \A p \in Call : pc[p] \in {"publish", "set"} => methods[At[p]] \in Version

RouteTypes == TypeOK /\ MethodsAreKnown

LEMMA InboxTypes ==
    ASSUME NEW q \in Seq(Message)
    PROVE  /\ \A m \in Message : Append(q, m) \in Seq(Message)
           /\ q # <<>> => Tail(q) \in Seq(Message) /\ Head(q) \in Message
  OBVIOUS

LEMMA InitTypes == Init => RouteTypes
  BY ReloadAssumption DEF Init, RouteTypes, TypeOK, MethodsAreKnown, ProtocolInit,
                          ProtocolTypeOK, Version

\* The steps that leave routes, methods and engine alone.
Unrelated(p) ==
    \/ Boot(p) \/ RequestReload(p) \/ WriteAndReload(p) \/ WriteOnly(p)
    \/ Acquire(p) \/ AcquireFails(p) \/ LoadFails(p) \/ Release(p) \/ ReleaseFails(p)

LEMMA UnrelatedTypes ==
    ASSUME RouteTypes, NEW p \in Call, Unrelated(p), UNCHANGED routeVars
    PROVE  RouteTypes'
<1> USE ReloadAssumption DEF RouteTypes, TypeOK, MethodsAreKnown, ProtocolTypeOK, Version,
                             InSection, Fills, routeVars
<1>1. CASE Boot(p)
  BY <1>1 DEF Boot, BeginAt, Go
<1>2. CASE RequestReload(p)
  BY <1>2 DEF RequestReload, BeginAt, Go
<1>3. CASE WriteAndReload(p)
  BY <1>3 DEF WriteAndReload, BeginAt, Go
<1>4. CASE WriteOnly(p)
  BY <1>4 DEF WriteOnly
<1>5. CASE Acquire(p)
  BY <1>5 DEF Acquire, Go
<1>6. CASE AcquireFails(p)
  BY <1>6 DEF AcquireFails, Go
<1>7. CASE LoadFails(p)
  BY <1>7 DEF LoadFails, Go
<1>8. CASE Release(p)
  BY <1>8 DEF Release, Go
<1>9. CASE ReleaseFails(p)
  BY <1>9 DEF ReleaseFails, Go
<1> QED BY <1>1, <1>2, <1>3, <1>4, <1>5, <1>6, <1>7, <1>8, <1>9 DEF Unrelated

LEMMA NextTypes == RouteTypes /\ [Next]_vars => RouteTypes'
<1> SUFFICES ASSUME RouteTypes, [Next]_vars PROVE RouteTypes'
  OBVIOUS
<1> USE ReloadAssumption DEF RouteTypes, TypeOK, MethodsAreKnown, ProtocolTypeOK, Version,
                             InSection, Fills
<1>1. ASSUME NEW p \in Call, Unrelated(p), UNCHANGED routeVars PROVE RouteTypes'
  BY <1>1, UnrelatedTypes
<1>2. ASSUME NEW p \in Call, SkipReload(p) PROVE RouteTypes'
  BY <1>2 DEF SkipReload, Skip, Go
<1>3. ASSUME NEW p \in Call, LoadRoutes(p) PROVE RouteTypes'
  BY <1>3 DEF LoadRoutes, Load, Go
<1>10. ASSUME NEW p \in Call, LoadMethods(p) PROVE RouteTypes'
  BY <1>10 DEF LoadMethods, protocolVars
<1>4. ASSUME NEW p \in Call, PublishRoutes(p) PROVE RouteTypes'
  <2> DEFINE m == [from |-> At[p], version |-> snap[p], methods |-> methods[At[p]]]
  <2>1. m \in Message
    BY <1>4 DEF PublishRoutes, Publish, Go, Message
  <2>2. inbox' \in [Inst -> Seq(Message)]
    BY <1>4, <2>1, InboxTypes DEF PublishRoutes, Publish
  <2> HIDE DEF m
  <2>3. /\ lastPub' = m /\ pc' = [pc EXCEPT ![p] = "set"] /\ pc[p] = "publish"
        /\ UNCHANGED <<db, lock, owner, status, snap, begun, routes, methods, engine, waiting>>
    BY <1>4 DEF m, PublishRoutes, Publish, Go, routeVars
  <2> QED BY <2>1, <2>2, <2>3
<1>5. ASSUME NEW p \in Call, BuildEngine(p) PROVE RouteTypes'
  BY <1>5 DEF BuildEngine, Go, Drop, Engine
<1>6. ASSUME NEW i \in Inst, Receive(i) PROVE RouteTypes'
  <2>1. /\ Tail(inbox[i]) \in Seq(Message)
        /\ Head(inbox[i]) \in Message
    BY <1>6, InboxTypes DEF Receive, Take
  <2>2. inbox' \in [Inst -> Seq(Message)]
    BY <1>6, <2>1 DEF Receive, Take
  <2>3. CASE Head(inbox[i]).from = i
    BY <1>6, <2>2, <2>3 DEF Receive, Take, routeVars
  <2>4. CASE Head(inbox[i]).from # i
    <3> DEFINE v == Head(inbox[i]).version
               h == Head(inbox[i]).methods
    <3>1. v \in Version /\ h \in Version
      BY <2>1 DEF Message
    <3>2. /\ routes' = [routes EXCEPT ![i] = v] /\ methods' = [methods EXCEPT ![i] = h]
          /\ engine' = [engine EXCEPT ![i] = [routes |-> v, methods |-> h]]
          /\ waiting' = [waiting EXCEPT ![i] = FALSE]
          /\ UNCHANGED <<db, lock, owner, status, pc, snap, begun, lastPub>>
      BY <1>6, <2>4 DEF Receive, Take
    <3> HIDE DEF v, h
    <3> QED BY <2>2, <3>1, <3>2 DEF Engine
  <2> QED BY <2>3, <2>4
<1>7. ASSUME NEW i \in Inst, Die(i) PROVE RouteTypes'
  <2>1. inbox' \in [Inst -> Seq(Message)]
    BY <1>7 DEF Die, Crash
  <2> QED BY <1>7, <2>1 DEF Die, Crash
<1>8. CASE Lapse /\ UNCHANGED routeVars
  BY <1>8 DEF Lapse, routeVars
<1>9. CASE UNCHANGED vars
  BY <1>9 DEF vars, protocolVars, routeVars
<1> QED BY <1>1, <1>2, <1>3, <1>4, <1>5, <1>6, <1>7, <1>8, <1>9, <1>10 DEF Next, Unrelated

(***************************************************************************)
(* Every variable keeps its type; in particular no engine is built from    *)
(* methods that are not known.                                             *)
(***************************************************************************)
THEOREM TypeCorrect == Spec => []TypeOK
<1>1. RouteTypes => TypeOK
  BY DEF RouteTypes
<1> QED BY <1>1, InitTypes, NextTypes, PTL DEF Spec

-----------------------------------------------------------------------------
\* Mutual exclusion.

LEMMA NextLock == TypeOK /\ LockHeldByOwner /\ [Next]_vars => LockHeldByOwner'
<1> SUFFICES ASSUME TypeOK, LockHeldByOwner, [Next]_vars, "slow" \notin Faults
             PROVE  \A q \in Call : pc'[q] \in InSection => lock' = At[q] /\ owner' = q
  BY DEF LockHeldByOwner
<1>1. \A q \in Call : pc[q] \in InSection => lock = At[q] /\ owner = q
  BY DEF LockHeldByOwner
<1>2. \A q \in Call : At[q] \in Inst /\ At[q] # None
  BY ReloadAssumption
<1>3. pc \in [Call -> {"idle", "acquire"} \cup InSection \cup Fills]
  BY DEF TypeOK, ProtocolTypeOK
<1> USE <1>1, <1>2, <1>3 DEF InSection, Fills
<1>4. ASSUME NEW p \in Call, Boot(p) \/ RequestReload(p) \/ WriteAndReload(p) \/ WriteOnly(p)
      PROVE  \A q \in Call : pc'[q] \in InSection => lock' = At[q] /\ owner' = q
  BY <1>4 DEF Boot, RequestReload, WriteAndReload, WriteOnly, BeginAt, Go
<1>5. ASSUME NEW p \in Call, Acquire(p) \/ AcquireFails(p)
      PROVE  \A q \in Call : pc'[q] \in InSection => lock' = At[q] /\ owner' = q
  BY <1>5 DEF Acquire, AcquireFails, Go
<1>6. ASSUME NEW p \in Call, LoadFails(p) \/ ReleaseFails(p) \/ SkipReload(p)
      PROVE  \A q \in Call : pc'[q] \in InSection => lock' = At[q] /\ owner' = q
  BY <1>6 DEF LoadFails, ReleaseFails, SkipReload, Skip, Go
<1>7. ASSUME NEW p \in Call, Release(p)
      PROVE  \A q \in Call : pc'[q] \in InSection => lock' = At[q] /\ owner' = q
  BY <1>7 DEF Release, Go
<1>8. ASSUME NEW p \in Call,
             LoadMethods(p) \/ LoadRoutes(p) \/ PublishRoutes(p) \/ BuildEngine(p)
      PROVE  \A q \in Call : pc'[q] \in InSection => lock' = At[q] /\ owner' = q
  BY <1>8 DEF LoadMethods, protocolVars, LoadRoutes, PublishRoutes, BuildEngine, Load, Publish, Go
<1>9. ASSUME NEW i \in Inst, Receive(i) \/ Die(i)
      PROVE  \A q \in Call : pc'[q] \in InSection => lock' = At[q] /\ owner' = q
  BY <1>9 DEF Receive, Take, Die, Crash
<1>10. CASE Lapse
  BY <1>10 DEF Lapse
<1>11. CASE UNCHANGED vars
  BY <1>11 DEF vars, protocolVars
<1> QED BY <1>4, <1>5, <1>6, <1>7, <1>8, <1>9, <1>10, <1>11 DEF Next

-----------------------------------------------------------------------------
\* List and engine.

(***************************************************************************)
(* Why nothing comes between the list and the engine: a reload has kept    *)
(* what it loaded, and of what its instance has still to read, everything  *)
(* has been sent by that instance, which ignores it.                       *)
(***************************************************************************)
NothingComesBetween ==
    {"slow", "late"} \cap Faults = {} =>
       \A p \in Call : pc[p] \in {"publish", "set"} =>
          /\ routes[At[p]] = snap[p]
          /\ pc[p] = "publish" => inbox[At[p]] = <<>>
          /\ \A k \in 1 .. Len(inbox[At[p]]) : inbox[At[p]][k].from = At[p]

AgreeInv == RouteTypes /\ LockHeldByOwner /\ NothingComesBetween /\ ListAndEngineAgree

LEMMA InitAgree == Init => AgreeInv
<1> SUFFICES ASSUME Init PROVE AgreeInv
  OBVIOUS
<1>1. LockHeldByOwner /\ NothingComesBetween /\ ListAndEngineAgree
  BY DEF Init, ProtocolInit, LockHeldByOwner, NothingComesBetween, ListAndEngineAgree, InSection
<1> QED BY <1>1, InitTypes DEF AgreeInv

LEMMA TailAt ==
    ASSUME NEW q \in Seq(Message), q # <<>>
    PROVE  /\ Head(q) = q[1] /\ 1 \in 1 .. Len(q)
           /\ Len(Tail(q)) = Len(q) - 1 /\ Len(q) \in Nat
           /\ \A k \in 1 .. Len(Tail(q)) : Tail(q)[k] = q[k + 1]
  OBVIOUS
LEMMA NextAgree ==
    RouteTypes /\ LockHeldByOwner /\ NothingComesBetween /\ ListAndEngineAgree /\ [Next]_vars
       => NothingComesBetween' /\ ListAndEngineAgree'
<1> DEFINE Window(p) == pc[p] \in {"publish", "set"}
           Alike(i) == \/ \E p \in Call : At[p] = i /\ pc[p] \in {"publish", "set"}
                       \/ routes[i] = None /\ engine[i] = None
                       \/ engine[i] = [routes |-> routes[i], methods |-> methods[i]]
           Goal == /\ \A p \in Call : pc'[p] \in {"publish", "set"} =>
                         /\ routes'[At[p]] = snap'[p]
                         /\ pc'[p] = "publish" => inbox'[At[p]] = <<>>
                         /\ \A k \in 1 .. Len(inbox'[At[p]]) : inbox'[At[p]][k].from = At[p]
                   /\ \A i \in Inst :
                         \/ \E p \in Call : At[p] = i /\ pc'[p] \in {"publish", "set"}
                         \/ routes'[i] = None /\ engine'[i] = None
                         \/ engine'[i] = [routes |-> routes'[i], methods |-> methods'[i]]
<1>1. SUFFICES ASSUME RouteTypes, LockHeldByOwner, NothingComesBetween, ListAndEngineAgree,
                      [Next]_vars, {"slow", "late"} \cap Faults = {}
               PROVE  Goal
  BY DEF NothingComesBetween, ListAndEngineAgree
<1>2. /\ "slow" \notin Faults /\ "late" \notin Faults
      /\ \A p \in Call : At[p] \in Inst
  BY <1>1, ReloadAssumption
<1>3. \A p, q \in Call : pc[p] \in InSection /\ pc[q] \in InSection => p = q
  BY <1>1, <1>2 DEF LockHeldByOwner
<1>4. /\ pc \in [Call -> {"idle", "acquire"} \cup InSection \cup Fills]
      /\ routes \in [Inst -> Version \cup {None}] /\ methods \in [Inst -> Version \cup {None}]
      /\ engine \in [Inst -> Engine \cup {None}] /\ snap \in [Call -> Version]
      /\ inbox \in [Inst -> Seq(Message)]
  BY <1>1 DEF RouteTypes, TypeOK, ProtocolTypeOK
<1>5. \A p \in Call : Window(p) =>
         /\ routes[At[p]] = snap[p]
         /\ pc[p] = "publish" => inbox[At[p]] = <<>>
         /\ \A k \in 1 .. Len(inbox[At[p]]) : inbox[At[p]][k].from = At[p]
  BY <1>1 DEF NothingComesBetween
<1>6. \A i \in Inst : Alike(i)
  BY <1>1 DEF ListAndEngineAgree
<1> USE <1>2, <1>3, <1>4, <1>5, <1>6 DEF InSection, Fills
<1>7. ASSUME NEW p \in Call, Unrelated(p), UNCHANGED routeVars PROVE Goal
  <2>1. UNCHANGED <<snap, inbox, routes, methods, engine>>
    BY <1>7 DEF Unrelated, Boot, RequestReload, WriteAndReload, WriteOnly, Acquire, AcquireFails,
                LoadFails, Release, ReleaseFails, BeginAt, routeVars
  <2>2. /\ ~Window(p)
        /\ pc' \in {[pc EXCEPT ![p] = x] : x \in {"idle", "acquire", "load", "release"}} \cup {pc}
    BY <1>7 DEF Unrelated, Boot, RequestReload, WriteAndReload, WriteOnly, Acquire, AcquireFails,
                LoadFails, Release, ReleaseFails, BeginAt, Go
  <2>3. \A q \in Call : pc'[q] \in {"publish", "set"} <=> Window(q)
    BY <2>2
  <2>4. \A q \in Call : pc'[q] = "publish" => pc[q] = "publish"
    BY <2>2
  <2> QED BY <2>1, <2>3, <2>4
<1>8. ASSUME NEW p \in Call, SkipReload(p) PROVE Goal
  BY <1>8 DEF SkipReload, Skip, Go
<1>9. ASSUME NEW p \in Call, LoadRoutes(p) PROVE Goal
  BY <1>9 DEF LoadRoutes, Load, Go
<1>16. ASSUME NEW p \in Call, LoadMethods(p) PROVE Goal
  <2>1. /\ pc[p] = "load" /\ methods[At[p]] = None
        /\ methods' = [methods EXCEPT ![At[p]] = db]
        /\ UNCHANGED <<pc, snap, inbox, routes, engine>>
    BY <1>16 DEF LoadMethods, protocolVars
  <2>2. \A q \in Call : ~Window(q)
    BY <2>1
  <2>3. \A i \in Inst : i # At[p] => methods'[i] = methods[i]
    BY <2>1
  <2>4. routes[At[p]] = None /\ engine[At[p]] = None
    <3>1. PICK i \in Inst : i = At[p]
      OBVIOUS
    <3>2. \/ routes[i] = None /\ engine[i] = None
          \/ engine[i] = [routes |-> routes[i], methods |-> methods[i]]
      BY <1>6, <2>2, <3>1
    <3>3. /\ routes[i] \in Nat \cup {None} /\ engine[i] \in Engine \cup {None}
          /\ methods[i] = None /\ None \notin Version
      BY <2>1, <3>1, ReloadAssumption DEF Version
    <3>4. [routes |-> routes[i], methods |-> methods[i]] # None
      BY <3>3, EngineAssumption
    <3>5. [routes |-> routes[i], methods |-> methods[i]] \notin Engine
      BY <3>3 DEF Engine
    <3> QED BY <3>1, <3>2, <3>3, <3>4, <3>5
  <2>5. ASSUME NEW i \in Inst
        PROVE  \/ routes[i] = None /\ engine[i] = None
               \/ engine[i] = [routes |-> routes[i], methods |-> methods'[i]]
    <3>1. CASE i = At[p]
      BY <2>4, <3>1
    <3>2. CASE i # At[p]
      <4>1. Alike(i) /\ methods'[i] = methods[i]
        BY <2>3, <3>2
      <4> QED BY <2>2, <4>1
    <3> QED BY <3>1, <3>2
  <2>6. \A q \in Call : ~(pc'[q] \in {"publish", "set"})
    BY <2>1, <2>2
  <2> QED BY <2>1, <2>5, <2>6
<1>10. ASSUME NEW p \in Call, PublishRoutes(p) PROVE Goal
  <2>1. /\ pc[p] = "publish" /\ pc' = [pc EXCEPT ![p] = "set"]
        /\ UNCHANGED <<snap, routes, methods, engine>>
    BY <1>10 DEF PublishRoutes, Publish, Go, routeVars
  <2> DEFINE m == [from |-> At[p], version |-> snap[p], methods |-> methods[At[p]]]
  <2>2. \A k \in 1 .. Len(inbox'[At[p]]) : inbox'[At[p]][k].from = At[p]
    <3>1. inbox[At[p]] = <<>>
      BY <2>1
    <3>2. inbox'[At[p]] = <<>> \/ inbox'[At[p]] = Append(<<>>, m)
      <4>1. PICK R \in SUBSET {i \in Inst : Running(i)} :
               inbox' = [i \in Inst |-> IF i \in R THEN Append(inbox[i], m) ELSE inbox[i]]
        BY <1>10 DEF PublishRoutes, Publish
      <4> HIDE DEF m
      <4> QED BY <3>1, <4>1
    <3>3. m.from = At[p] /\ m \in Message
      BY <1>10, <2>1, <1>1 DEF Message, RouteTypes, MethodsAreKnown
    <3> HIDE DEF m
    <3> QED BY <3>2, <3>3
  <2> HIDE DEF m
  <2>3. \A q \in Call : q # p => ~Window(q)
    BY <2>1
  <2> QED BY <2>1, <2>2, <2>3
<1>11. ASSUME NEW p \in Call, BuildEngine(p) PROVE Goal
  <2>1. /\ pc[p] = "set" /\ pc' = [pc EXCEPT ![p] = "release"]
        /\ engine' = [engine EXCEPT ![At[p]] = [routes |-> snap[p], methods |-> methods[At[p]]]]
        /\ UNCHANGED <<inbox, routes, methods>>
    BY <1>11 DEF BuildEngine, Go
  <2>2. \A q \in Call : q # p => ~Window(q)
    BY <2>1
  <2>3. \A q \in Call : ~(pc'[q] \in {"publish", "set"})
    BY <2>1, <2>2
  <2>4. ASSUME NEW i \in Inst
        PROVE  \/ routes'[i] = None /\ engine'[i] = None
               \/ engine'[i] = [routes |-> routes'[i], methods |-> methods'[i]]
    <3>1. CASE i = At[p]
      BY <2>1, <3>1
    <3>2. CASE i # At[p]
      BY <2>1, <2>2, <3>2
    <3> QED BY <3>1, <3>2
  <2> QED BY <2>3, <2>4
<1>12. ASSUME NEW i \in Inst, Receive(i) PROVE Goal
  <2>1. /\ inbox[i] # <<>> /\ inbox' = [inbox EXCEPT ![i] = Tail(@)]
        /\ UNCHANGED <<pc, snap>>
    BY <1>12 DEF Receive, Take
  <2> DEFINE q == inbox[i]
  <2>2. /\ Head(q) = q[1] /\ 1 \in 1 .. Len(q) /\ Len(Tail(q)) = Len(q) - 1 /\ Len(q) \in Nat
        /\ \A k \in 1 .. Len(Tail(q)) : Tail(q)[k] = q[k + 1]
    BY <2>1, TailAt
  <2>3. ASSUME NEW p \in Call, Window(p)
        PROVE  /\ pc[p] = "publish" => inbox'[At[p]] = <<>>
               /\ \A k \in 1 .. Len(inbox'[At[p]]) : inbox'[At[p]][k].from = At[p]
               /\ At[p] = i => Head(q).from = i
    <3>1. CASE At[p] = i
      <4>1. inbox'[At[p]] = Tail(q) /\ pc[p] # "publish"
        BY <2>1, <2>3, <3>1
      <4>2. \A k \in 1 .. Len(q) : q[k].from = At[p]
        BY <2>3, <3>1
      <4>3. \A k \in 1 .. Len(Tail(q)) : k + 1 \in 1 .. Len(q)
        BY <2>2
      <4>4. \A k \in 1 .. Len(Tail(q)) : Tail(q)[k].from = At[p]
        BY <2>2, <4>2, <4>3
      <4>5. Head(q).from = i
        BY <2>2, <3>1, <4>2
      <4> HIDE DEF q
      <4> QED BY <4>1, <4>4, <4>5
    <3>2. CASE At[p] # i
      BY <2>1, <2>3, <3>2
    <3> QED BY <3>1, <3>2
  <2>4. CASE Head(q).from = i
    BY <1>12, <2>1, <2>3, <2>4 DEF Receive, routeVars
  <2>5. CASE Head(q).from # i
    <3>1. \A p \in Call : Window(p) => At[p] # i
      BY <2>3, <2>5
    <3>2. /\ routes' = [routes EXCEPT ![i] = Head(q).version]
          /\ methods' = [methods EXCEPT ![i] = Head(q).methods]
          /\ engine' = [engine EXCEPT ![i] = [routes |-> Head(q).version,
                                             methods |-> Head(q).methods]]
      BY <1>12, <2>5 DEF Receive
    <3> HIDE DEF q
    <3> QED BY <2>1, <2>3, <3>1, <3>2
  <2> QED BY <2>4, <2>5
<1>13. ASSUME NEW i \in Inst, Die(i) PROVE Goal
  <2>1. /\ pc' = [p \in Call |-> IF At[p] = i THEN "idle" ELSE pc[p]]
        /\ snap' = [p \in Call |-> IF At[p] = i THEN 0 ELSE snap[p]]
        /\ inbox' = [inbox EXCEPT ![i] = <<>>]
        /\ routes' = [routes EXCEPT ![i] = None] /\ engine' = [engine EXCEPT ![i] = None]
        /\ methods' = [methods EXCEPT ![i] = None]
    BY <1>13 DEF Die, Crash
  <2>2. \A p \in Call : pc'[p] \in {"publish", "set"} => At[p] # i /\ pc'[p] = pc[p]
    BY <2>1
  <2>3. \A p \in Call : At[p] # i => /\ routes'[At[p]] = routes[At[p]] /\ snap'[p] = snap[p]
                                    /\ inbox'[At[p]] = inbox[At[p]] /\ pc'[p] = pc[p]
    BY <2>1
  <2>4. \A j \in Inst : j # i => /\ routes'[j] = routes[j] /\ engine'[j] = engine[j]
                                /\ methods'[j] = methods[j]
    BY <2>1
  <2>5. routes'[i] = None /\ engine'[i] = None
    BY <2>1
  <2>6. ASSUME NEW j \in Inst
        PROVE  \/ \E p \in Call : At[p] = j /\ pc'[p] \in {"publish", "set"}
               \/ routes'[j] = None /\ engine'[j] = None
               \/ engine'[j] = [routes |-> routes'[j], methods |-> methods'[j]]
    <3>1. CASE j = i
      BY <2>5, <3>1
    <3>2. CASE j # i
      <4>1. ASSUME NEW p \in Call, At[p] = j, Window(p) PROVE pc'[p] \in {"publish", "set"}
        BY <2>3, <3>2, <4>1
      <4>2. Alike(j) /\ routes'[j] = routes[j] /\ engine'[j] = engine[j] /\ methods'[j] = methods[j]
        BY <2>4, <3>2
      <4> QED BY <4>1, <4>2
    <3> QED BY <3>1, <3>2
  <2>7. ASSUME NEW p \in Call, pc'[p] \in {"publish", "set"}
        PROVE  /\ routes'[At[p]] = snap'[p]
               /\ pc'[p] = "publish" => inbox'[At[p]] = <<>>
               /\ \A k \in 1 .. Len(inbox'[At[p]]) : inbox'[At[p]][k].from = At[p]
    BY <2>2, <2>3, <2>7
  <2> QED BY <2>6, <2>7
<1>14. CASE Lapse /\ UNCHANGED routeVars
  BY <1>14 DEF Lapse, routeVars
<1>15. CASE UNCHANGED vars
  BY <1>15 DEF vars, protocolVars, routeVars
<1> HIDE DEF Goal
<1> QED BY <1>1, <1>7, <1>8, <1>9, <1>10, <1>11, <1>12, <1>13, <1>14, <1>15, <1>16 DEF Next, Unrelated

(***************************************************************************)
(* While reloads fit in their lock and broadcasts are read in time, what   *)
(* an instance lists as its routes and what it dispatches by differ only   *)
(* inside a reload of its own.                                             *)
(***************************************************************************)
THEOREM EngineFollowsList == Spec => []ListAndEngineAgree
<1>1. AgreeInv /\ [Next]_vars => AgreeInv'
  BY NextTypes, NextLock, NextAgree DEF AgreeInv, RouteTypes
<1>2. AgreeInv => ListAndEngineAgree
  BY DEF AgreeInv
<1> QED BY <1>1, <1>2, InitAgree, PTL DEF Spec
-----------------------------------------------------------------------------
\* What requests are dispatched by in the end.  As in MetadataCacheProofs, what
\* waits for an instance ends with the last broadcast, and an instance for which
\* nothing waits dispatches by it already, or is about to build its engine.

Building(i) == \E p \in Call : At[p] = i /\ pc[p] = "set"
BuiltFrom(m) == [routes |-> m.version, methods |-> m.methods]

LiveOnes ==
    /\ \A p \in Call : pc[p] # "idle" => Running(At[p])
    /\ \A i \in Inst : ~Running(i) => inbox[i] = <<>> /\ engine[i] = None

LastIsLast == \A i \in Inst : inbox[i] # <<>> => inbox[i][Len(inbox[i])] = lastPub

\* What a reload is about to build its engine from is what it has broadcast.
BuildsLast ==
    \A p \in Call : pc[p] = "set" =>
       /\ lastPub \in Message /\ lastPub.from = At[p]
       /\ snap[p] = lastPub.version /\ methods[At[p]] = lastPub.methods

HasLast ==
    \A i \in Inst : engine[i] # None /\ ~Building(i) /\ inbox[i] = <<>> =>
       lastPub \in Message /\ engine[i] = BuiltFrom(lastPub)

\* The sender of the last broadcast has only its own to read.
AllFrom(q, i) == \A k \in 1 .. Len(q) : q[k].from = i
SenderHasLast ==
    lastPub \in Message =>
       /\ AllFrom(inbox[lastPub.from], lastPub.from)
       /\ engine[lastPub.from] # None /\ ~Building(lastPub.from)
             => engine[lastPub.from] = BuiltFrom(lastPub)

EndInv == LiveOnes /\ LastIsLast /\ BuildsLast /\ HasLast /\ SenderHasLast

LEMMA InitEnd == Init => EndInv
  BY DEF Init, ProtocolInit, EndInv, LiveOnes, LastIsLast, BuildsLast, HasLast, SenderHasLast,
     Running, AllFrom, Message

(***************************************************************************)
(* A step that leaves alone the engines and what is in flight, and in      *)
(* which no call begins or ends to build.                                  *)
(***************************************************************************)
LEMMA EndKept ==
    ASSUME RouteTypes, EndInv, UNCHANGED <<engine, inbox, lastPub>>,
           \A i \in Inst : status'[i] = status[i] \/ (status'[i] = "running" /\ status[i] = "off"),
           \A q \in Call : pc'[q] = "set" <=> pc[q] = "set",
           \A q \in Call : pc'[q] = "set" => snap'[q] = snap[q] /\ methods'[At[q]] = methods[At[q]],
           \A q \in Call : pc'[q] # "idle" => status'[At[q]] = "running"
    PROVE  EndInv'
<1>1. LiveOnes'
  BY DEF EndInv, LiveOnes, Running
<1>2. LastIsLast' /\ BuildsLast'
  BY DEF EndInv, LastIsLast, BuildsLast
<1>3. \A i \in Inst : Building(i)' <=> Building(i)
  BY DEF Building
<1>4. HasLast'
  BY <1>3 DEF EndInv, HasLast, BuiltFrom
<1>5. lastPub \in Message => lastPub.from \in Inst
  BY DEF RouteTypes, TypeOK, Message
<1>6. SenderHasLast'
  <2>1. ASSUME lastPub \in Message
        PROVE  /\ AllFrom(inbox[lastPub.from], lastPub.from)
               /\ engine[lastPub.from] # None /\ ~Building(lastPub.from)'
                     => engine[lastPub.from] = BuiltFrom(lastPub)
    <3>1. PICK k \in Inst : k = lastPub.from
      BY <1>5, <2>1
    <3>2. Building(k)' <=> Building(k)
      BY <1>3
    <3>3. Building(lastPub.from)' <=> Building(k)'
      BY <3>1 DEF Building
    <3> QED BY <2>1, <3>1, <3>2, <3>3 DEF EndInv, SenderHasLast
  <2> QED BY <2>1 DEF SenderHasLast, AllFrom, BuiltFrom
<1> QED BY <1>1, <1>2, <1>4, <1>6 DEF EndInv

LEMMA PublishEnd ==
    ASSUME RouteTypes, EndInv, {"slow", "loss", "late"} \cap Faults = {}, LockHeldByOwner,
           NothingComesBetween, NEW p \in Call, PublishRoutes(p)
    PROVE  EndInv'
<1> DEFINE m == [from |-> At[p], version |-> snap[p], methods |-> methods[At[p]]]
<1>1. /\ pc[p] = "publish" /\ pc' = [pc EXCEPT ![p] = "set"] /\ lastPub' = m
      /\ inbox' = [i \in Inst |-> IF Running(i) THEN Append(inbox[i], m) ELSE inbox[i]]
      /\ UNCHANGED <<status, routes, methods, engine, snap>>
  BY DEF PublishRoutes, Publish, Go, routeVars
<1>2. m \in Message /\ m.from = At[p] /\ m.version = snap[p] /\ m.methods = methods[At[p]]
  BY <1>1, ReloadAssumption DEF RouteTypes, TypeOK, ProtocolTypeOK, Message, MethodsAreKnown
<1>3. \A i \in Inst : inbox[i] \in Seq(Message)
  BY DEF RouteTypes, TypeOK
<1>4. pc \in [Call -> {"idle", "acquire"} \cup InSection \cup Fills] /\ \A q \in Call : At[q] \in Inst
  BY ReloadAssumption DEF RouteTypes, TypeOK, ProtocolTypeOK
<1>5. \A i \in Inst : IF Running(i) THEN inbox'[i] = Append(inbox[i], m) ELSE inbox'[i] = inbox[i]
  BY <1>1
<1>6. \A q \in Call : pc'[q] = "set" <=> q = p
  BY <1>1, <1>4 DEF LockHeldByOwner, InSection
<1>7. Running(At[p]) /\ inbox[At[p]] = <<>>
  BY <1>1 DEF EndInv, LiveOnes, NothingComesBetween
<1> HIDE DEF m
<1>8. LiveOnes'
  BY <1>1, <1>4, <1>5 DEF EndInv, LiveOnes, Running
<1>9. LastIsLast'
  <2> SUFFICES ASSUME NEW i \in Inst, inbox'[i] # <<>>
               PROVE  inbox'[i][Len(inbox'[i])] = m
    BY <1>1 DEF LastIsLast
  <2>1. inbox'[i] = Append(inbox[i], m)
    BY <1>5 DEF EndInv, LiveOnes
  <2> QED BY <1>2, <1>3, <2>1
<1>10. BuildsLast'
  BY <1>1, <1>2, <1>6 DEF BuildsLast
<1>11. HasLast'
  <2> SUFFICES ASSUME NEW i \in Inst, engine[i] # None PROVE inbox'[i] # <<>>
    BY <1>1 DEF HasLast
  <2>1. inbox'[i] = Append(inbox[i], m)
    BY <1>5 DEF EndInv, LiveOnes
  <2> QED BY <1>2, <1>3, <2>1
<1>12. SenderHasLast'
  <2>1. inbox'[At[p]] = Append(<<>>, m)
    BY <1>4, <1>5, <1>7
  <2>2. AllFrom(inbox'[At[p]], At[p])
    BY <1>2, <2>1 DEF AllFrom
  <2>3. Building(At[p])'
    BY <1>6 DEF Building
  <2>4. Building(lastPub.from)'
    BY <1>1, <1>2, <2>3 DEF Building
  <2> QED BY <1>1, <1>2, <2>2, <2>4 DEF SenderHasLast, AllFrom
<1> QED BY <1>8, <1>9, <1>10, <1>11, <1>12 DEF EndInv

LEMMA BuildEnd ==
    ASSUME RouteTypes, EndInv, NEW p \in Call, BuildEngine(p)
    PROVE  EndInv'
<1> DEFINE i == At[p]
<1>1. /\ pc[p] = "set" /\ pc' = [pc EXCEPT ![p] = "release"]
      /\ engine' = [engine EXCEPT ![i] = [routes |-> snap[p], methods |-> methods[i]]]
      /\ snap' = [snap EXCEPT ![p] = 0]
      /\ UNCHANGED <<inbox, lastPub, status, methods>>
  BY DEF BuildEngine, Go, Drop
<1>2. /\ pc \in [Call -> {"idle", "acquire"} \cup InSection \cup Fills]
      /\ \A q \in Call : At[q] \in Inst
      /\ engine \in [Inst -> Engine \cup {None}] /\ snap \in [Call -> Version]
  BY ReloadAssumption DEF RouteTypes, TypeOK, ProtocolTypeOK
<1>3. /\ i \in Inst /\ Running(i)
      /\ lastPub \in Message /\ engine'[i] = BuiltFrom(lastPub) /\ lastPub.from = i
      /\ \A k \in Inst : k # i => engine'[k] = engine[k]
      /\ \A q \in Call : pc'[q] # "idle" => pc[q] # "idle"
      /\ \A q \in Call : pc'[q] = "set" => pc[q] = "set" /\ q # p
  BY <1>1, <1>2 DEF EndInv, BuildsLast, LiveOnes, BuiltFrom
<1> HIDE DEF i
<1>4. LiveOnes' /\ LastIsLast'
  BY <1>1, <1>2, <1>3 DEF EndInv, LiveOnes, LastIsLast, Running
<1>5. BuildsLast'
  BY <1>1, <1>2, <1>3 DEF EndInv, BuildsLast
<1>6. ASSUME NEW k \in Inst, k # i, ~Building(k)' PROVE ~Building(k)
  BY <1>1, <1>2, <1>6 DEF Building, i
<1>7. HasLast'
  <2> SUFFICES ASSUME NEW k \in Inst, engine'[k] # None, ~Building(k)', inbox[k] = <<>>
               PROVE  engine'[k] = BuiltFrom(lastPub)
    BY <1>1, <1>3 DEF HasLast, BuiltFrom
  <2>1. CASE k = i
    BY <1>3, <2>1
  <2>2. CASE k # i
    BY <1>3, <1>6, <2>2 DEF EndInv, HasLast
  <2> QED BY <2>1, <2>2
<1>8. SenderHasLast'
  BY <1>1, <1>3 DEF EndInv, SenderHasLast, AllFrom, BuiltFrom
<1> QED BY <1>4, <1>5, <1>7, <1>8 DEF EndInv

LEMMA ReceiveEnd ==
    ASSUME RouteTypes, EndInv, {"slow", "late"} \cap Faults = {}, NothingComesBetween,
           NEW i \in Inst, Receive(i)
    PROVE  EndInv'
<1> DEFINE q == inbox[i]
           m == Head(q)
<1>1. /\ q # <<>> /\ q \in Seq(Message) /\ inbox \in [Inst -> Seq(Message)]
      /\ inbox' = [inbox EXCEPT ![i] = Tail(q)]
      /\ UNCHANGED <<pc, lastPub, status, snap>>
      /\ m.from = i => UNCHANGED <<methods, engine>>
      /\ m.from # i => /\ methods' = [methods EXCEPT ![i] = m.methods]
                       /\ engine' = [engine EXCEPT ![i] = BuiltFrom(m)]
  BY DEF Receive, Take, routeVars, RouteTypes, TypeOK, BuiltFrom
<1>2. /\ Len(q) \in Nat \ {0} /\ Len(Tail(q)) = Len(q) - 1
      /\ \A k \in 1 .. Len(Tail(q)) : Tail(q)[k] = q[k + 1]
      /\ m = q[1] /\ Tail(q) \in Seq(Message)
  BY <1>1, TailAt, InboxTypes
<1>3. inbox'[i] = Tail(q) /\ \A k \in Inst : k # i => inbox'[k] = inbox[k]
  BY <1>1
<1>4. /\ q[Len(q)] = lastPub /\ lastPub \in Message /\ Message # {}
      /\ Running(i)
  BY <1>1, <1>2 DEF EndInv, LastIsLast, LiveOnes
<1>5. lastPub.from \in Inst
  BY <1>4 DEF Message
<1>6. /\ \A k \in Inst : k # i => methods'[k] = methods[k] /\ engine'[k] = engine[k]
      /\ m.from # i => engine'[i] = BuiltFrom(m)
  <2>1. methods \in [Inst -> Version \cup {None}] /\ engine \in [Inst -> Engine \cup {None}]
    BY DEF RouteTypes, TypeOK
  <2> QED BY <1>1, <2>1
<1>7. Tail(q) = <<>> => m = lastPub
  <2> SUFFICES ASSUME Tail(q) = <<>> PROVE m = lastPub
    OBVIOUS
  <2>1. Len(Tail(q)) = 0
    <3>1. Len(<<>>) = 0
      OBVIOUS
    <3> QED BY <3>1
  <2>2. Len(q) = 1
    BY <1>2, <2>1
  <2> QED BY <1>2, <1>4, <2>2
<1>8. ASSUME lastPub \in Message, AllFrom(q, i) PROVE m.from = i /\ AllFrom(Tail(q), i)
  <2>1. \A k \in 1 .. Len(Tail(q)) : k + 1 \in 1 .. Len(q)
    BY <1>2
  <2> HIDE DEF q, m
  <2> QED BY <1>2, <1>8, <2>1 DEF AllFrom
<1>9. \A p \in Call : pc[p] = "set" /\ At[p] = i => AllFrom(q, i)
  BY DEF NothingComesBetween, AllFrom
<1> HIDE DEF m, q
<1>10. lastPub \in Message
  BY <1>1, <1>4 DEF EndInv, LastIsLast, RouteTypes, TypeOK, Message
<1>11. LiveOnes'
  BY <1>1, <1>3, <1>4, <1>6 DEF EndInv, LiveOnes, Running
<1>12. LastIsLast'
  <2> SUFFICES ASSUME Tail(q) # <<>> PROVE Tail(q)[Len(Tail(q))] = lastPub
    BY <1>1, <1>3 DEF LastIsLast, EndInv
  <2>1. Len(Tail(q)) \in 1 .. Len(Tail(q)) /\ Len(Tail(q)) + 1 = Len(q)
    <3>1. Len(Tail(q)) \in Nat \ {0}
      BY <1>2
    <3> QED BY <1>2, <3>1
  <2> QED BY <1>2, <1>4, <2>1
<1>13. BuildsLast'
  <2> SUFFICES ASSUME NEW p \in Call, pc[p] = "set" PROVE methods'[At[p]] = methods[At[p]]
    BY <1>1 DEF EndInv, BuildsLast
  <2>1. At[p] \in Inst
    BY ReloadAssumption
  <2> QED BY <1>1, <1>6, <1>8, <1>9, <1>10, <2>1
<1>14. SenderHasLast'
  <2>1. CASE lastPub.from = i
    <3>1. AllFrom(q, i)
      BY <1>10, <2>1 DEF EndInv, SenderHasLast, q
    <3>2. AllFrom(inbox'[i], i) /\ engine' = engine
      BY <1>1, <1>3, <1>8, <1>10, <3>1
    <3> QED BY <1>1, <2>1, <3>2 DEF EndInv, SenderHasLast, AllFrom, BuiltFrom, Building
  <2>2. CASE lastPub.from # i
    <3>1. inbox'[lastPub.from] = inbox[lastPub.from] /\ engine'[lastPub.from] = engine[lastPub.from]
      BY <1>3, <1>5, <1>6, <2>2
    <3> QED BY <1>1, <3>1 DEF EndInv, SenderHasLast, AllFrom, BuiltFrom, Building
  <2> QED BY <2>1, <2>2
<1>15. HasLast'
  <2> SUFFICES ASSUME NEW k \in Inst, engine'[k] # None, ~Building(k), inbox'[k] = <<>>
               PROVE  engine'[k] = BuiltFrom(lastPub)
    BY <1>1, <1>10 DEF HasLast, BuiltFrom, Building
  <2>1. CASE k # i
    BY <1>3, <1>6, <2>1 DEF EndInv, HasLast
  <2>2. CASE k = i /\ m.from # i
    BY <1>3, <1>6, <1>7, <2>2
  <2>3. CASE k = i /\ m.from = i
    <3>1. lastPub.from = i
      BY <1>3, <1>7, <2>3
    <3> QED BY <1>1, <1>10, <2>3, <3>1 DEF EndInv, SenderHasLast
  <2> QED BY <2>1, <2>2, <2>3
<1> QED BY <1>11, <1>12, <1>13, <1>14, <1>15 DEF EndInv

LEMMA NextEnd ==
    ASSUME {"slow", "loss", "late"} \cap Faults = {}
    PROVE  AgreeInv /\ EndInv /\ [Next]_vars => EndInv'
<1> SUFFICES ASSUME AgreeInv, EndInv, [Next]_vars PROVE EndInv'
  OBVIOUS
<1>1. RouteTypes /\ LockHeldByOwner /\ NothingComesBetween
  BY DEF AgreeInv
<1>2. /\ pc \in [Call -> {"idle", "acquire"} \cup InSection \cup Fills]
      /\ \A p \in Call : At[p] \in Inst
      /\ status \in [Inst -> {"off", "running", "down"}]
      /\ methods \in [Inst -> Version \cup {None}] /\ engine \in [Inst -> Engine \cup {None}]
      /\ snap \in [Call -> Version] /\ inbox \in [Inst -> Seq(Message)]
  BY <1>1, ReloadAssumption DEF RouteTypes, TypeOK, ProtocolTypeOK
<1>3. \A p \in Call : pc[p] # "idle" => status[At[p]] = "running"
  BY DEF EndInv, LiveOnes, Running
<1>4. ASSUME NEW p \in Call, Unrelated(p), UNCHANGED routeVars PROVE EndInv'
  <2>1. /\ UNCHANGED <<methods, engine, inbox, lastPub, snap>>
        /\ \/ status' = status /\ (status[At[p]] = "running" \/ pc[p] # "idle")
           \/ status[At[p]] = "off" /\ status' = [status EXCEPT ![At[p]] = "running"]
        /\ pc' = pc \/ (/\ pc[p] \in {"idle", "acquire", "load", "release"}
                        /\ \E s \in {"idle", "acquire", "load", "release"} :
                              pc' = [pc EXCEPT ![p] = s])
    BY <1>4 DEF Unrelated, Boot, RequestReload, WriteAndReload, WriteOnly, Acquire, AcquireFails,
                LoadFails, Release, ReleaseFails, BeginAt, Go, Running, routeVars
  <2>2. /\ \A i \in Inst : status'[i] = status[i] \/ (status'[i] = "running" /\ status[i] = "off")
        /\ \A q \in Call : pc'[q] = "set" <=> pc[q] = "set"
        /\ \A q \in Call : pc'[q] # "idle" => status'[At[q]] = "running"
    BY <1>2, <1>3, <2>1
  <2> QED BY <1>1, <2>1, <2>2, EndKept
<1>5. ASSUME NEW p \in Call, SkipReload(p) \/ LoadMethods(p) \/ LoadRoutes(p) PROVE EndInv'
  <2>1. /\ UNCHANGED <<engine, inbox, lastPub, status>>
        /\ pc[p] \in {"acquire", "load"}
        /\ \E s \in {"idle", "load", "publish"} : pc' = [pc EXCEPT ![p] = s]
        /\ pc[p] = "acquire" => UNCHANGED <<snap, methods>>
    BY <1>2, <1>5 DEF SkipReload, LoadMethods, LoadRoutes, protocolVars, Skip, Load, Go
  <2>2. pc[p] = "load" => \A q \in Call : pc[q] # "set"
    BY <1>1 DEF LockHeldByOwner, InSection
  <2>3. \A q \in Call : /\ pc'[q] = "set" <=> pc[q] = "set"
                        /\ pc'[q] # "idle" => pc[q] # "idle"
    BY <1>2, <2>1
  <2> QED BY <1>1, <1>3, <2>1, <2>2, <2>3, EndKept
<1>6. ASSUME NEW p \in Call, PublishRoutes(p) \/ BuildEngine(p) PROVE EndInv'
  BY <1>1, <1>6, PublishEnd, BuildEnd
<1>7. ASSUME NEW i \in Inst, Receive(i) PROVE EndInv'
  BY <1>1, <1>7, ReceiveEnd
<1>8. ASSUME NEW i \in Inst, Die(i) PROVE EndInv'
  <2>1. /\ inbox' = [inbox EXCEPT ![i] = <<>>] /\ status' = [status EXCEPT ![i] = "down"]
        /\ engine' = [engine EXCEPT ![i] = None] /\ methods' = [methods EXCEPT ![i] = None]
        /\ UNCHANGED lastPub
        /\ \A q \in Call : /\ pc'[q] = (IF At[q] = i THEN "idle" ELSE pc[q])
                           /\ At[q] # i => snap'[q] = snap[q]
    BY <1>8 DEF Die, Crash
  <2>2. /\ inbox'[i] = <<>> /\ status'[i] = "down" /\ engine'[i] = None
        /\ \A k \in Inst : k # i => /\ inbox'[k] = inbox[k] /\ engine'[k] = engine[k]
                                    /\ methods'[k] = methods[k] /\ status'[k] = status[k]
    BY <1>2, <2>1
  <2>3. LiveOnes' /\ LastIsLast' /\ BuildsLast'
    BY <1>2, <1>3, <2>1, <2>2 DEF EndInv, LiveOnes, LastIsLast, BuildsLast, Running
  <2>4. \A k \in Inst : k # i => (Building(k)' <=> Building(k))
    BY <1>2, <2>1, <2>2 DEF Building
  <2>5. HasLast'
    BY <2>1, <2>2, <2>4 DEF EndInv, HasLast, BuiltFrom
  <2>6. SenderHasLast'
    <3> SUFFICES ASSUME NEW k \in Inst, lastPub \in Message, k = lastPub.from
                 PROVE  /\ AllFrom(inbox'[k], k)
                        /\ engine'[k] # None /\ ~Building(k)' => engine'[k] = BuiltFrom(lastPub)
      <4>1. lastPub \in Message => lastPub.from \in Inst
        BY <1>1 DEF RouteTypes, TypeOK, Message
      <4> QED BY <2>1, <4>1 DEF SenderHasLast, AllFrom, BuiltFrom, Building
    <3>1. CASE k = i
      BY <2>2, <3>1 DEF AllFrom
    <3>2. CASE k # i
      BY <2>2, <2>4, <3>2 DEF EndInv, SenderHasLast
    <3> QED BY <3>1, <3>2
  <2> QED BY <2>3, <2>5, <2>6 DEF EndInv
<1>9. CASE Lapse /\ UNCHANGED routeVars
  BY <1>1, <1>3, <1>9, EndKept DEF Lapse, routeVars
<1>10. CASE UNCHANGED vars
  BY <1>1, <1>3, <1>10, EndKept DEF vars, protocolVars, routeVars
<1> QED BY <1>4, <1>5, <1>6, <1>7, <1>8, <1>9, <1>10 DEF Next, Unrelated

(***************************************************************************)
(* When reloads fit in their lock, no broadcast is lost and none is read   *)
(* late, then, once nothing runs and nothing is in flight, every instance  *)
(* that has routes dispatches by the routes and the methods of the last    *)
(* broadcast - under crashes, failing queries and failing Redis commands.  *)
(***************************************************************************)
THEOREM EnginesAgreeInTheEnd == Spec => []SettledEnginesAgree
<1>1. CASE {"slow", "loss", "late"} \cap Faults # {}
  <2>1. SettledEnginesAgree
    BY <1>1 DEF SettledEnginesAgree
  <2> QED BY <2>1, PTL
<1>2. CASE {"slow", "loss", "late"} \cap Faults = {}
  <2>1. Init => AgreeInv /\ EndInv
    BY InitAgree, InitEnd
  <2>2. AgreeInv /\ EndInv /\ [Next]_vars => (AgreeInv /\ EndInv)'
    BY <1>2, NextTypes, NextLock, NextAgree, NextEnd DEF AgreeInv, RouteTypes
  <2>3. EndInv => SettledEnginesAgree
    BY DEF EndInv, HasLast, Building, BuiltFrom, Quiet, SettledEnginesAgree
  <2> QED BY <2>1, <2>2, <2>3, PTL DEF Spec
<1> QED BY <1>1, <1>2
=============================================================================
