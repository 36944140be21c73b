----------------------------- MODULE RouteCache -----------------------------
(***************************************************************************)
(* The route cache: the reload protocol over the routes and the HTTP       *)
(* methods, and the route engine that dispatches requests.  A reload       *)
(* replaces the route list before it broadcasts and the engine after; the  *)
(* methods are read from the database only while none are known.           *)
(***************************************************************************)
EXTENDS ReloadProtocol

\* None is not an engine, nor what an engine without routes or methods would be.
ASSUME EngineAssumption == None \notin [routes : Nat \cup {None}, methods : Nat \cup {None}]

VARIABLES routes,    \* routesCache: version of the route list, or None
          methods,   \* allMethods: version of the method list, or None
          engine,    \* routeEngine: what it was built from, or None
          waiting    \* history: a reload here ended "waiting for broadcast"

routeVars == <<routes, methods, engine, waiting>>
vars == <<protocolVars, routeVars>>

Message == [from : Inst, version : Version, methods : Version]
Engine == [routes : Version, methods : Version]

TypeOK ==
    /\ ProtocolTypeOK
    /\ inbox \in [Inst -> Seq(Message)]
    /\ lastPub \in Message \cup {None}
    /\ routes \in [Inst -> Version \cup {None}]
    /\ methods \in [Inst -> Version \cup {None}]
    /\ engine \in [Inst -> Engine \cup {None}]
    /\ waiting \in [Inst -> BOOLEAN]

Init ==
    /\ ProtocolInit
    /\ routes = [i \in Inst |-> None]
    /\ methods = [i \in Inst |-> None]
    /\ engine = [i \in Inst |-> None]
    /\ waiting = [i \in Inst |-> FALSE]

\* The first query of loadRoutes(), made while no methods are known.  What it
\* set is kept when the query of the routes fails (LoadFails) and the reload
\* with it.  The check for known methods and the answer are one step here.
LoadMethods(p) ==
    /\ pc[p] = "load"
    /\ "late" \in Faults \/ inbox[At[p]] = <<>>
    /\ methods[At[p]] = None
    /\ methods' = [methods EXCEPT ![At[p]] = db]
    /\ UNCHANGED <<protocolVars, routes, engine, waiting>>

\* Mutation of LoadRoutes: the lock is given back as soon as the rows are read.
LoadThenUnlock(p) ==
    /\ methods[At[p]] # None
    /\ Go(p, "load", "publish")
    /\ snap' = [snap EXCEPT ![p] = db]
    /\ routes' = [routes EXCEPT ![At[p]] = db]
    /\ lock' = None
    /\ owner' = None
    /\ UNCHANGED <<db, status, inbox, begun, lastPub, methods, engine, waiting>>

\* The second query of loadRoutes() and the assignment to routesCache that
\* follows it.
LoadRoutes(p) ==
    /\ methods[At[p]] # None
    /\ Load(p, "publish")
    /\ routes' = [routes EXCEPT ![At[p]] = db]
    /\ UNCHANGED <<methods, engine, waiting>>

PublishRoutes(p) ==
    /\ Publish(p, "set", [from |-> At[p], version |-> snap[p],
                          methods |-> methods[At[p]]])
    /\ UNCHANGED routeVars

\* The engine is built anew; methods are those known at this moment.
BuildEngine(p) ==
    /\ Go(p, "set", "release")
    /\ engine' = [engine EXCEPT ![At[p]] =
                    [routes |-> snap[p], methods |-> methods[At[p]]]]
    /\ waiting' = [waiting EXCEPT ![At[p]] = FALSE]
    /\ Drop(p)
    /\ UNCHANGED <<db, lock, owner, status, inbox, begun, lastPub, routes, methods>>

SkipReload(p) ==
    /\ Skip(p)
    /\ waiting' = [waiting EXCEPT ![At[p]] = TRUE]
    /\ UNCHANGED <<routes, methods, engine>>

\* Mutation of Receive: the list is replaced and the engine is not rebuilt.
ReceiveWithoutBuild(i) ==
    /\ Take(i)
    /\ LET m == Head(inbox[i])
       IN IF m.from = i
          THEN UNCHANGED routeVars
          ELSE /\ routes' = [routes EXCEPT ![i] = m.version]
               /\ methods' = [methods EXCEPT ![i] = m.methods]
               /\ waiting' = [waiting EXCEPT ![i] = FALSE]
               /\ UNCHANGED engine

\* A broadcast replaces list, methods and engine in one go, unless this
\* instance sent it.
Receive(i) ==
    /\ Take(i)
    /\ LET m == Head(inbox[i])
       IN IF m.from = i
          THEN UNCHANGED routeVars
          ELSE /\ routes' = [routes EXCEPT ![i] = m.version]
               /\ methods' = [methods EXCEPT ![i] = m.methods]
               /\ engine' = [engine EXCEPT ![i] = [routes |-> m.version,
                                                  methods |-> m.methods]]
               /\ waiting' = [waiting EXCEPT ![i] = FALSE]

Die(i) ==
    /\ Crash(i)
    /\ routes' = [routes EXCEPT ![i] = None]
    /\ methods' = [methods EXCEPT ![i] = None]
    /\ engine' = [engine EXCEPT ![i] = None]
    /\ waiting' = [waiting EXCEPT ![i] = FALSE]

Next ==
    \/ \E p \in Call :
          \/ /\ \/ Boot(p) \/ RequestReload(p) \/ WriteAndReload(p) \/ WriteOnly(p)
                \/ Acquire(p) \/ AcquireFails(p) \/ LoadFails(p)
                \/ Release(p) \/ ReleaseFails(p)
             /\ UNCHANGED routeVars
          \/ SkipReload(p) \/ LoadMethods(p) \/ LoadRoutes(p) \/ PublishRoutes(p) \/ BuildEngine(p)
    \/ \E i \in Inst : Receive(i) \/ Die(i)
    \/ Lapse /\ UNCHANGED routeVars

Spec == Init /\ [][Next]_vars

-----------------------------------------------------------------------------
(***************************************************************************)
(* The route list (what Swagger and the permission tool show) and the      *)
(* engine (what requests are dispatched by) differ only while a reload of  *)
(* this very instance is between its load and its build.  A broadcast that *)
(* lands in that window would be kept in the list and lost in the engine,  *)
(* so this needs reloads that fit in their lock and broadcasts read in     *)
(* time.                                                                   *)
(***************************************************************************)
ListAndEngineAgree ==
    {"slow", "late"} \cap Faults = {} =>
      \A i \in Inst :
        \/ \E p \in Call : At[p] = i /\ pc[p] \in {"publish", "set"}
        \/ routes[i] = None /\ engine[i] = None
        \/ engine[i] = [routes |-> routes[i], methods |-> methods[i]]

(***************************************************************************)
(* Once nothing runs and nothing is in flight, all instances that have     *)
(* routes dispatch by the same engine: the one of the last broadcast.      *)
(***************************************************************************)
SettledEnginesAgree ==
    {"slow", "loss", "late"} \cap Faults = {} /\ Quiet =>
      \A i \in Inst :
        engine[i] # None =>
           engine[i] = [routes |-> lastPub.version, methods |-> lastPub.methods]

(***************************************************************************)
(* A reload that found the lock taken logs that it is "waiting for         *)
(* broadcast": some reload is still to broadcast, or a broadcast is on its *)
(* way to this instance.                                                   *)
(***************************************************************************)
BroadcastReachesWaiter ==
    \A i \in Inst :
      waiting[i] => \/ inbox[i] # <<>>
                    \/ \E p \in Call : pc[p] \in {"load", "publish"}
=============================================================================
