--------------------------- MODULE ServicesProofs ---------------------------
(***************************************************************************)
(* Theorems about the four parts of MCServices, for all values of their    *)
(* constants: what the tools for tables report, who runs the bootstrap     *)
(* scripts, the dependencies and the lists of packages, the files and the  *)
(* rows that describe them; and the types of the four together.            *)
(***************************************************************************)
EXTENDS MCServices, FiniteSetTheorems, TLAPS

-----------------------------------------------------------------------------
\* The tools for tables: types.

FlowCall == [at : Places, kind : Kinds, items : Seq(Item), allowed : SUBSET Kinds,
             aborted : BOOLEAN, loaded : Catalogued, merged : [ColumnName -> -1 .. MaxIds],
             blank : BOOLEAN, stop : BOOLEAN, tries : 0 .. MaxRetries, ok : BOOLEAN,
             commits : 0 .. MaxRetries, late : BOOLEAN]

FlowTypes == /\ catalog \in [TableName -> Catalogued]
             /\ writer \in Requests \cup {NoRequest}
             /\ granted \subseteq Kinds
             /\ flow \in [Requests -> FlowCall]
             /\ reports \in [Requests -> SUBSET Report]
             /\ {orders, upsets} \subseteq Nat /\ ids \in 0 .. MaxIds

(***************************************************************************)
(* The locals of a workflow: where it is tells whether it has tried and    *)
(* committed, an update that is made keeps the ids of the columns that it  *)
(* loaded, and a failure after a commit is a late one.                     *)
(***************************************************************************)
GoodCall(f) ==
    /\ f.items = <<>> <=> f.at = "idle"
    /\ f.at \in {"idle", "first", "targets", "conflicts"} => f.tries = 0 /\ f.commits = 0 /\ ~f.ok /\ ~f.blank
    /\ f.at \in {"write", "commit"} => f.commits <= f.tries /\ f.tries < MaxRetries /\ ~f.ok
    /\ f.ok => f.commits > 0 \/ f.blank
    /\ f.blank => f.kind = "update" /\ f.commits = 0
    /\ f.commits > 0 => f.ok \/ f.late
    /\ f.kind = "update" /\ f.at = "targets" => Head(f.items).with # "none"
    /\ (f.kind = "update" /\ f.at \in {"write", "commit"} /\ ~f.blank) =>
          \A c \in ColumnName : f.loaded.cols[c] # 0 => f.merged[c] = f.loaded.cols[c]

CallsAreGood == \A r \in Requests : GoodCall(flow[r])

WriterCommits == \A r \in Requests : writer = r <=> flow[r].at = "commit"

\* Unless something is deleted, what a creation has committed stays, and it
\* has been committed once.
CreatedIsThere ==
    ~SomeDeleted => \A r \in Requests :
       flow[r].kind = "create" /\ flow[r].commits > 0 =>
          flow[r].commits = 1 /\ catalog[Current(r).table].id # 0

FlowInv == FlowTypes /\ CallsAreGood /\ WriterCommits /\ CreatedIsThere /\ ReportsAreSo

LEMMA FlowBounds == MaxRetries \in Nat \ {0} /\ MaxOrders \in Nat /\ MaxIds \in Nat /\ MaxUpsets \in Nat
  BY WorkflowAssumption

LEMMA IdleFlow == Idle \in FlowCall /\ GoodCall(Idle) /\ Gone \in Catalogued
<1>1. NoColumns \in [ColumnName -> 0 .. MaxIds] /\ NoColumns \in [ColumnName -> -1 .. MaxIds]
  BY FlowBounds DEF NoColumns
<1>2. Gone \in Catalogued
  BY <1>1, FlowBounds DEF Gone, Catalogued
<1>3. Idle \in FlowCall
  <2> HIDE DEF NoColumns, Gone
  <2> QED BY <1>1, <1>2, FlowBounds DEF Idle, FlowCall, Places, Kinds
<1>4. GoodCall(Idle)
  BY DEF Idle, GoodCall
<1> QED BY <1>2, <1>3, <1>4

LEMMA InitFlow == FlowInit => FlowInv
<1> SUFFICES ASSUME FlowInit PROVE FlowInv
  OBVIOUS
<1>1. FlowTypes
  BY IdleFlow, FlowBounds DEF FlowInit, FlowTypes
<1>2. \A r \in Requests : flow[r] = Idle /\ reports[r] = {}
  BY DEF FlowInit
<1>3. CallsAreGood
  BY <1>2, IdleFlow DEF CallsAreGood
<1>4. Idle.at = "idle" /\ Idle.commits = 0
  BY DEF Idle
<1>5. WriterCommits
  BY <1>2, <1>4, WorkflowAssumption DEF WriterCommits, FlowInit
<1>6. CreatedIsThere /\ ReportsAreSo
  BY <1>2, <1>4 DEF CreatedIsThere, ReportsAreSo
<1> QED BY <1>1, <1>3, <1>5, <1>6 DEF FlowInv

(***************************************************************************)
(* Ids are given to a finite number of columns, so that there are enough.  *)
(***************************************************************************)
LEMMA NewIdsAreNew ==
    ASSUME NEW S \in SUBSET ColumnName, ids \in Nat
    PROVE  /\ Cardinality(S) \in Nat
           /\ NewIds(S) \in [S -> ids + 1 .. ids + Cardinality(S)]
<1>1. IsFiniteSet(S)
  BY FS_Subset, WorkflowAssumption
<1> DEFINE n == Cardinality(S)
           I == 1 .. n
<1>2. n \in Nat /\ ExistsBijection(I, S)
  BY <1>1, FS_CardinalityType
<1>3. PICK f \in Bijection(I, S) : TRUE
  BY <1>2 DEF ExistsBijection
<1>4. f \in [I -> S] /\ \A s \in S : \E i \in I : f[i] = s
  BY <1>3 DEF Bijection, Surjection
<1> DEFINE pos(s) == CHOOSE i \in I : f[i] = s
           g == [s \in S |-> ids + pos(s)]
<1>5. \A s \in S : pos(s) \in I /\ f[pos(s)] = s
  BY <1>4
<1> HIDE DEF pos
<1>6. g \in [S -> ids + 1 .. ids + n]
  <2> SUFFICES ASSUME NEW s \in S PROVE ids + pos(s) \in ids + 1 .. ids + n
    OBVIOUS
  <2>1. pos(s) \in 1 .. n
    BY <1>5
  <2> QED BY <1>2, <2>1
<1>7. \A x, y \in S : g[x] = g[y] => x = y
  <2> SUFFICES ASSUME NEW x \in S, NEW y \in S, g[x] = g[y] PROVE x = y
    OBVIOUS
  <2>1. pos(x) \in Nat /\ pos(y) \in Nat
    BY <1>2, <1>5
  <2>2. pos(x) = pos(y)
    BY <2>1
  <2> QED BY <1>5, <2>2
<1> HIDE DEF g, n
<1>8. \E h \in [S -> ids + 1 .. ids + n] : \A x, y \in S : h[x] = h[y] => x = y
  BY <1>6, <1>7
<1> QED BY <1>2, <1>8 DEF NewIds, n

-----------------------------------------------------------------------------
\* The steps of one request that only change its locals.

\* What a step that moves request r to f keeps.
Like(f, r) == /\ f.kind = flow[r].kind /\ f.commits = flow[r].commits
              /\ f.commits > 0 => Head(f.items) = Head(flow[r].items)

LEMMA MoveFlow ==
    ASSUME FlowInv, NEW r \in Requests, NEW f \in FlowCall, GoodCall(f), Like(f, r), Moves(r, f),
           f.at = "commit" <=> flow[r].at = "commit",
           UNCHANGED <<catalog, writer, reports>>,
           granted' \subseteq Kinds, {orders', upsets'} \subseteq Nat, ids' = ids
    PROVE  FlowInv'
<1>1. FlowTypes /\ \A k \in Requests : flow'[k] = IF k = r THEN f ELSE flow[k]
  BY DEF FlowInv, FlowTypes, Moves
<1>2. FlowTypes'
  BY <1>1 DEF FlowTypes, Moves
<1>3. CallsAreGood' /\ WriterCommits'
  BY <1>1 DEF FlowInv, CallsAreGood, WriterCommits, GoodCall
<1>4. SomeDeleted' <=> SomeDeleted
  BY <1>1 DEF SomeDeleted, Like
<1>5. CreatedIsThere'
  BY <1>1, <1>4 DEF FlowInv, CreatedIsThere, Like, Current
<1>6. ReportsAreSo'
  BY <1>4 DEF FlowInv, ReportsAreSo
<1> QED BY <1>2, <1>3, <1>5, <1>6 DEF FlowInv

LEMMA StopFlow ==
    ASSUME FlowInv, NEW r \in Requests, flow[r].at \in {"first", "targets", "conflicts"},
           StopsAt(r), ReadOnly, upsets' \in Nat
    PROVE  FlowInv'
<1> DEFINE f == [flow[r] EXCEPT !.at = "answer"]
<1>1. flow[r] \in FlowCall /\ GoodCall(flow[r])
  BY DEF FlowInv, FlowTypes, CallsAreGood
<1>2. f \in FlowCall /\ f.at = "answer" /\ f.items = flow[r].items /\ f.ok = flow[r].ok
      /\ f.late = flow[r].late /\ f.commits = flow[r].commits /\ f.kind = flow[r].kind
      /\ f.blank = flow[r].blank
  BY <1>1 DEF FlowCall, Places
<1> HIDE DEF f
<1>3. GoodCall(f) /\ Like(f, r)
  BY <1>1, <1>2 DEF GoodCall, Like
<1>4. Moves(r, f)
  BY DEF StopsAt, f
<1> QED BY <1>2, <1>3, <1>4, MoveFlow DEF ReadOnly, FlowInv, FlowTypes

(***************************************************************************)
(* On to the next node, with another place and another mark.               *)
(***************************************************************************)
LEMMA AheadFlow ==
    ASSUME FlowInv, NEW r \in Requests, flow[r].at \in {"first", "targets", "conflicts"},
           NEW place \in {"targets", "conflicts", "write"}, NEW mark \in BOOLEAN,
           flow[r].kind = "update" => place = "conflicts",
           Moves(r, [flow[r] EXCEPT !.at = place, !.stop = mark]), ReadOnly, upsets' \in Nat
    PROVE  FlowInv'
<1> DEFINE f == [flow[r] EXCEPT !.at = place, !.stop = mark]
<1>1. flow[r] \in FlowCall /\ GoodCall(flow[r])
  BY DEF FlowInv, FlowTypes, CallsAreGood
<1>2. f \in FlowCall /\ f.at = place /\ f.items = flow[r].items /\ f.ok = flow[r].ok
      /\ f.late = flow[r].late /\ f.commits = flow[r].commits /\ f.kind = flow[r].kind
      /\ f.tries = flow[r].tries /\ f.blank = flow[r].blank
  BY <1>1 DEF FlowCall, Places
<1> HIDE DEF f
<1>3. GoodCall(f) /\ Like(f, r)
  BY <1>1, <1>2, FlowBounds DEF GoodCall, Like
<1>4. Moves(r, f)
  BY DEF f
<1> QED BY <1>2, <1>3, <1>4, MoveFlow DEF ReadOnly, FlowInv, FlowTypes

LEMMA LoadFlow ==
    ASSUME FlowInv, NEW r \in Requests, flow[r].at = "first",
           NEW place \in {"targets", "conflicts", "write"}, NEW found \in Catalogued,
           flow[r].kind = "update" => /\ place # "write"
                                      /\ place = "targets" => Current(r).with # "none",
           Moves(r, [flow[r] EXCEPT !.at = place, !.loaded = found]), ReadOnly, upsets' \in Nat
    PROVE  FlowInv'
<1> DEFINE f == [flow[r] EXCEPT !.at = place, !.loaded = found]
<1>1. flow[r] \in FlowCall /\ GoodCall(flow[r])
  BY DEF FlowInv, FlowTypes, CallsAreGood
<1>2. f \in FlowCall /\ f.at = place /\ f.items = flow[r].items /\ f.ok = flow[r].ok
      /\ f.late = flow[r].late /\ f.commits = flow[r].commits /\ f.kind = flow[r].kind
      /\ f.tries = flow[r].tries /\ f.blank = flow[r].blank
  BY <1>1 DEF FlowCall, Places
<1> HIDE DEF f
<1>3. GoodCall(f) /\ Like(f, r)
  BY <1>1, <1>2, FlowBounds DEF GoodCall, Like, Current
<1>4. Moves(r, f)
  BY DEF f
<1> QED BY <1>2, <1>3, <1>4, MoveFlow DEF ReadOnly, FlowInv, FlowTypes

(***************************************************************************)
(* What is merged keeps the ids of the columns that were loaded.           *)
(***************************************************************************)
LEMMA MergeKeeps ==
    ASSUME NEW loaded \in Catalogued, NEW columns
    PROVE  /\ Merge(loaded, columns) \in [ColumnName -> -1 .. MaxIds]
           /\ \A c \in ColumnName :
                 loaded.cols[c] # 0 => Merge(loaded, columns)[c] = loaded.cols[c]
<1>1. \A c \in ColumnName : loaded.cols[c] \in -1 .. MaxIds /\ -1 \in -1 .. MaxIds
  BY FlowBounds DEF Catalogued
<1> QED BY <1>1 DEF Merge

LEMMA MergeFlow ==
    ASSUME FlowInv, NEW r \in Requests, MergeData(r)
    PROVE  FlowInv'
<1> DEFINE it == Current(r)
           fails == it.flaw = "nameless"
           merged == IF fails THEN NoColumns ELSE Merge(flow[r].loaded, it.columns)
           f == [flow[r] EXCEPT !.at = "write", !.stop = fails, !.blank = fails, !.merged = merged]
<1>1. flow[r] \in FlowCall /\ GoodCall(flow[r]) /\ flow[r].at = "conflicts" /\ flow[r].kind = "update"
  BY DEF FlowInv, FlowTypes, CallsAreGood, MergeData, FlowAt
<1>2. ReadOnly /\ upsets' \in Nat
  BY DEF MergeData, Calm, FlowInv, FlowTypes
<1>3. CASE StopsAt(r)
  BY <1>1, <1>2, <1>3, StopFlow
<1>4. CASE Moves(r, f)
  <2>1. merged \in [ColumnName -> -1 .. MaxIds]
        /\ (~fails => \A c \in ColumnName :
                         flow[r].loaded.cols[c] # 0 => merged[c] = flow[r].loaded.cols[c])
    <3>1. flow[r].loaded \in Catalogued
      BY <1>1 DEF FlowCall
    <3>2. NoColumns \in [ColumnName -> -1 .. MaxIds]
      BY FlowBounds DEF NoColumns
    <3> QED BY <3>1, <3>2, MergeKeeps
  <2>2. fails \in BOOLEAN
    OBVIOUS
  <2> HIDE DEF fails, merged
  <2>3. f \in FlowCall /\ f.at = "write" /\ f.items = flow[r].items /\ f.ok = flow[r].ok
        /\ f.late = flow[r].late /\ f.commits = flow[r].commits /\ f.kind = flow[r].kind
        /\ f.tries = flow[r].tries /\ f.blank = fails /\ f.merged = merged
        /\ f.loaded = flow[r].loaded
    BY <1>1, <2>1, <2>2 DEF FlowCall, Places
  <2> HIDE DEF f
  <2>4. GoodCall(f) /\ Like(f, r)
    BY <1>1, <2>1, <2>3, FlowBounds DEF GoodCall, Like
  <2> QED BY <1>1, <1>2, <1>4, <2>3, <2>4, MoveFlow DEF ReadOnly, FlowInv, FlowTypes
<1> QED BY <1>3, <1>4 DEF MergeData

LEMMA ReadingFlow ==
    ASSUME FlowInv, NEW r \in Requests,
           \/ ReadFails(r) \/ CheckTableExists(r) \/ LoadCurrentTable(r) \/ FindForDelete(r)
           \/ ValidateTargetTables(r) \/ CheckFKConflicts(r)
    PROVE  FlowInv'
<1>1. flow[r] \in FlowCall /\ GoodCall(flow[r]) /\ upsets \in Nat /\ catalog \in [TableName -> Catalogued]
  BY DEF FlowInv, FlowTypes, CallsAreGood
<1>2. ReadOnly /\ upsets' \in Nat /\ flow[r].at \in {"first", "targets", "conflicts"}
  BY <1>1 DEF ReadFails, CheckTableExists, LoadCurrentTable, FindForDelete, ValidateTargetTables,
              CheckFKConflicts, Calm, Upset, FlowAt
<1>3. Current(r) \in Item
  <2>1. flow[r].items # <<>> /\ flow[r].items \in Seq(Item)
    BY <1>1, <1>2 DEF GoodCall, FlowCall
  <2> QED BY <2>1 DEF Current
<1>4. CASE StopsAt(r)
  BY <1>2, <1>4, StopFlow
<1>5. CASE CheckTableExists(r) /\ ~StopsAt(r)
  <2>1. Moves(r, [flow[r] EXCEPT !.at = "targets", !.stop = Current(r).flaw = "invalid"])
        /\ flow[r].kind = "create"
    BY <1>5 DEF CheckTableExists
  <2>2. (Current(r).flaw = "invalid") \in BOOLEAN
    OBVIOUS
  <2> QED BY <1>2, <2>1, <2>2, AheadFlow
<1>6. CASE LoadCurrentTable(r) /\ ~StopsAt(r)
  <2>1. Moves(r, [flow[r] EXCEPT !.at = IF Current(r).with = "none" THEN "conflicts" ELSE "targets",
                                 !.loaded = catalog[Current(r).table]])
        /\ flow[r].at = "first"
    BY <1>6 DEF LoadCurrentTable, FlowAt
  <2>2. catalog[Current(r).table] \in Catalogued
    BY <1>1, <1>3 DEF Item
  <2> QED BY <1>2, <2>1, <2>2, LoadFlow
<1>7. CASE FindForDelete(r) /\ ~StopsAt(r)
  <2>1. Moves(r, [flow[r] EXCEPT !.at = "write", !.loaded = catalog[Current(r).table]])
        /\ flow[r].at = "first" /\ flow[r].kind = "delete"
    BY <1>7 DEF FindForDelete, FlowAt
  <2>2. catalog[Current(r).table] \in Catalogued
    BY <1>1, <1>3 DEF Item
  <2> QED BY <1>2, <2>1, <2>2, LoadFlow
<1>8. CASE ValidateTargetTables(r) /\ ~StopsAt(r)
  <2> DEFINE place == IF Current(r).with = "none" THEN "write" ELSE "conflicts"
  <2>1. Moves(r, [flow[r] EXCEPT !.at = place]) /\ flow[r].at = "targets"
    BY <1>8 DEF ValidateTargetTables, FlowAt
  <2>2. place \in {"conflicts", "write"} /\ (flow[r].kind = "update" => place = "conflicts")
    BY <1>1, <2>1 DEF GoodCall, Current
  <2> HIDE DEF place
  <2>3. flow[r].stop \in BOOLEAN /\ [flow[r] EXCEPT !.at = place, !.stop = flow[r].stop]
                                       = [flow[r] EXCEPT !.at = place]
    BY <1>1 DEF FlowCall
  <2>4. Moves(r, [flow[r] EXCEPT !.at = place, !.stop = flow[r].stop])
    BY <2>1, <2>3
  <2> QED BY <1>2, <2>2, <2>3, <2>4, AheadFlow
<1>9. CASE CheckFKConflicts(r)
  <2>1. \E mark \in BOOLEAN : Moves(r, [flow[r] EXCEPT !.at = "write", !.stop = mark])
    <3> DEFINE alike == Current(r).flaw \in {"alike", "looksAlike"}
    <3>1. alike \in BOOLEAN /\ TRUE \in BOOLEAN
      OBVIOUS
    <3>2. \/ Moves(r, [flow[r] EXCEPT !.at = "write", !.stop = alike])
          \/ Moves(r, [flow[r] EXCEPT !.at = "write", !.stop = TRUE])
      BY <1>9 DEF CheckFKConflicts
    <3> HIDE DEF alike
    <3> QED BY <3>1, <3>2
  <2>3. PICK mark \in BOOLEAN : Moves(r, [flow[r] EXCEPT !.at = "write", !.stop = mark])
    BY <2>1
  <2>2. flow[r].kind = "create"
    BY <1>9 DEF CheckFKConflicts
  <2> QED BY <1>2, <2>2, <2>3, AheadFlow
<1>10. CASE ReadFails(r)
  BY <1>2, <1>10, StopFlow DEF ReadFails
<1> QED BY <1>4, <1>5, <1>6, <1>7, <1>8, <1>9, <1>10

-----------------------------------------------------------------------------
\* A call begins, is aborted, and goes on to its next table.

LEMMA StartFlow == ASSUME FlowInv, NEW r \in Requests, StartOrder(r) PROVE FlowInv'
<1>1. /\ flow[r] \in FlowCall /\ GoodCall(flow[r]) /\ flow[r].at = "idle"
      /\ UNCHANGED <<catalog, writer, granted, reports, ids>>
      /\ {orders', upsets'} \subseteq Nat
  BY DEF FlowInv, FlowTypes, CallsAreGood, StartOrder, FlowAt, Calm
<1>2. PICK o \in Orders :
         \/ Moves(r, [Idle EXCEPT !.at = "first", !.kind = o.kind, !.items = o.items,
                                  !.allowed = flow[r].allowed \cup {o.kind}])
         \/ UNCHANGED flow
  BY DEF StartOrder
<1>3. CASE UNCHANGED flow
  BY <1>1, <1>3 DEF FlowInv, FlowTypes, CallsAreGood, WriterCommits, CreatedIsThere, ReportsAreSo,
                    SomeDeleted, Current, GoodCall
<1>4. CASE Moves(r, [Idle EXCEPT !.at = "first", !.kind = o.kind, !.items = o.items,
                                 !.allowed = flow[r].allowed \cup {o.kind}])
  <2> DEFINE allowed == flow[r].allowed \cup {o.kind}
             f == [Idle EXCEPT !.at = "first", !.kind = o.kind, !.items = o.items, !.allowed = allowed]
  <2>1. o.kind \in Kinds /\ o.items \in Seq(Item) /\ o.items # <<>>
    BY WorkflowAssumption DEF Kinds
  <2>2. allowed \in SUBSET Kinds
    BY <1>1, <2>1 DEF FlowCall
  <2> HIDE DEF allowed
  <2>3. f \in FlowCall
    BY <2>1, <2>2, IdleFlow DEF FlowCall, Places
  <2>4. f.at = "first" /\ f.items = o.items /\ f.kind = o.kind /\ f.tries = 0 /\ f.commits = 0
        /\ f.ok = FALSE /\ f.blank = FALSE
    BY DEF Idle
  <2>5. Moves(r, f)
    BY <1>4 DEF allowed
  <2> HIDE DEF f
  <2>6. GoodCall(f)
    BY <2>1, <2>4 DEF GoodCall
  <2>7. \A k \in Requests : flow'[k] = IF k = r THEN f ELSE flow[k]
    BY <2>5 DEF FlowInv, FlowTypes, Moves
  <2>8. FlowTypes'
    BY <1>1, <2>3, <2>5 DEF FlowInv, FlowTypes, Moves
  <2>9. CallsAreGood' /\ WriterCommits'
    BY <1>1, <2>4, <2>6, <2>7 DEF FlowInv, CallsAreGood, WriterCommits, GoodCall
  <2>10. flow[r].commits = 0
    BY <1>1 DEF GoodCall
  <2>11. SomeDeleted' <=> SomeDeleted
    BY <1>1, <2>4, <2>7, <2>10 DEF SomeDeleted
  <2>12. CreatedIsThere'
    BY <1>1, <2>4, <2>7, <2>11 DEF FlowInv, CreatedIsThere, Current
  <2>13. ReportsAreSo'
    BY <1>1, <2>11 DEF FlowInv, ReportsAreSo
  <2> QED BY <2>8, <2>9, <2>12, <2>13 DEF FlowInv
<1> QED BY <1>2, <1>3, <1>4

LEMMA AbortFlow == ASSUME FlowInv, NEW r \in Requests, AbortOrder(r) PROVE FlowInv'
<1> DEFINE f == [flow[r] EXCEPT !.aborted = TRUE]
<1>1. flow[r] \in FlowCall /\ GoodCall(flow[r])
  BY DEF FlowInv, FlowTypes, CallsAreGood
<1>2. f \in FlowCall /\ f.at = flow[r].at /\ f.items = flow[r].items /\ f.ok = flow[r].ok
      /\ f.late = flow[r].late /\ f.commits = flow[r].commits /\ f.kind = flow[r].kind
      /\ f.tries = flow[r].tries /\ f.blank = flow[r].blank /\ f.merged = flow[r].merged
      /\ f.loaded = flow[r].loaded
  BY <1>1 DEF FlowCall
<1> HIDE DEF f
<1>3. GoodCall(f) /\ Like(f, r)
  BY <1>1, <1>2 DEF GoodCall, Like
<1>4. Moves(r, f) /\ UNCHANGED <<catalog, writer, granted, reports, ids, orders>> /\ upsets' = upsets + 1
  BY DEF AbortOrder, Upset, f
<1> QED BY <1>2, <1>3, <1>4, MoveFlow DEF FlowInv, FlowTypes

LEMMA AnswerFlow == ASSUME FlowInv, NEW r \in Requests, Answer(r) PROVE FlowInv'
<1> DEFINE g == flow[r]
           rest == IF g.aborted THEN <<>> ELSE Tail(g.items)
           p == [kind |-> g.kind, ok |-> g.ok, commits |-> g.commits, late |-> g.late,
                 blank |-> g.blank]
           place == IF rest = <<>> THEN "idle" ELSE "first"
           kind == IF rest = <<>> THEN "create" ELSE g.kind
           f == [Idle EXCEPT !.at = place, !.kind = kind, !.items = rest, !.allowed = g.allowed,
                             !.aborted = g.aborted]
<1>1. /\ g \in FlowCall /\ GoodCall(g) /\ g.at = "answer"
      /\ UNCHANGED <<catalog, writer, granted, ids, orders, upsets>>
      /\ reports' = [reports EXCEPT ![r] = @ \cup {p}]
  BY DEF FlowInv, FlowTypes, CallsAreGood, Answer, FlowAt, Calm
<1>2. Moves(r, f)
  <2>1. Idle.kind = "create"
    BY DEF Idle
  <2>2. Moves(r, [Idle EXCEPT !.at = IF rest = <<>> THEN "idle" ELSE "first",
                              !.kind = IF rest = <<>> THEN Idle.kind ELSE g.kind,
                              !.items = rest, !.allowed = g.allowed, !.aborted = g.aborted])
    BY DEF Answer
  <2> QED BY <2>1, <2>2
<1>3. rest \in Seq(Item) /\ place \in Places /\ kind \in Kinds /\ (rest = <<>> <=> place = "idle")
  <2>1. g.items \in Seq(Item) /\ g.items # <<>>
    BY <1>1 DEF FlowCall, GoodCall
  <2>2. Tail(g.items) \in Seq(Item)
    BY <2>1
  <2> QED BY <1>1, <2>2 DEF FlowCall, Kinds, Places
<1>4. /\ p \in Report /\ p.kind = g.kind /\ p.commits = g.commits /\ p.ok = g.ok /\ p.late = g.late
      /\ p.blank = g.blank
  BY <1>1 DEF FlowCall, Report
<1>5. g.allowed \in SUBSET Kinds /\ g.aborted \in BOOLEAN
  BY <1>1 DEF FlowCall
<1>6. place \in {"idle", "first"}
  OBVIOUS
<1> HIDE DEF p, rest, place, kind
<1>7. f \in FlowCall
  BY <1>3, <1>5, IdleFlow DEF FlowCall
<1>8. f.at = place /\ f.items = rest /\ f.kind = kind /\ f.tries = 0 /\ f.commits = 0 /\ f.ok = FALSE
      /\ f.blank = FALSE
  BY DEF Idle
<1> HIDE DEF f
<1>9. GoodCall(f)
  BY <1>3, <1>6, <1>8 DEF GoodCall
<1>10. /\ flow'[r] = f /\ reports'[r] = reports[r] \cup {p}
       /\ \A k \in Requests : k # r => flow'[k] = flow[k] /\ reports'[k] = reports[k]
  <2>1. flow \in [Requests -> FlowCall] /\ reports \in [Requests -> SUBSET Report]
    BY DEF FlowInv, FlowTypes
  <2> QED BY <1>1, <1>2, <2>1 DEF Moves
<1>11. FlowTypes'
  BY <1>1, <1>2, <1>4, <1>7 DEF FlowInv, FlowTypes, Moves
<1>12. CallsAreGood' /\ WriterCommits'
  BY <1>1, <1>6, <1>8, <1>9, <1>10 DEF FlowInv, CallsAreGood, WriterCommits, GoodCall
<1>13. SomeDeleted => SomeDeleted'
  <2> SUFFICES ASSUME NEW k \in Requests,
                      \/ flow[k].kind = "delete" /\ flow[k].commits > 0
                      \/ \E s \in reports[k] : s.kind = "delete" /\ s.commits > 0
               PROVE  \E j \in Requests :
                         \/ flow'[j].kind = "delete" /\ flow'[j].commits > 0
                         \/ \E s \in reports'[j] : s.kind = "delete" /\ s.commits > 0
    BY DEF SomeDeleted
  <2>1. CASE k = r
    BY <1>4, <1>10, <2>1
  <2>2. CASE k # r
    BY <1>10, <2>2
  <2> QED BY <2>1, <2>2
<1>14. CreatedIsThere'
  BY <1>1, <1>8, <1>10, <1>13 DEF FlowInv, CreatedIsThere, Current
<1>15. ReportsAreSo'
  <2> SUFFICES ASSUME NEW k \in Requests, NEW s \in reports'[k]
               PROVE  /\ (s.ok /\ ~s.blank) => s.commits > 0
                      /\ (s.kind = "create" /\ ~SomeDeleted') => s.commits <= 1
                      /\ (~s.ok /\ s.commits > 0) => s.late
    BY DEF ReportsAreSo
  <2>1. CASE s \in reports[k]
    BY <1>13, <2>1 DEF FlowInv, ReportsAreSo
  <2>2. CASE s = p
    <3>1. g.commits \in Nat
      BY <1>1, FlowBounds DEF FlowCall
    <3>2. (g.kind = "create" /\ ~SomeDeleted') => g.commits <= 1
      BY <1>13, <3>1 DEF FlowInv, CreatedIsThere
    <3> QED BY <1>1, <1>4, <2>2, <3>2 DEF GoodCall
  <2> QED BY <1>10, <2>1, <2>2
<1> QED BY <1>11, <1>12, <1>14, <1>15 DEF FlowInv

-----------------------------------------------------------------------------
\* The change.

(***************************************************************************)
(* An attempt that has failed: another one follows as long as there are    *)
(* some left.                                                              *)
(***************************************************************************)
LEMMA AgainIs ==
    ASSUME NEW f \in FlowCall, NEW retryable \in BOOLEAN,
           f.at \in {"write", "commit"}, f.tries < MaxRetries, f.commits <= f.tries + 1, ~f.ok,
           f.commits > 0 => f.late, f.items # <<>>, f.blank => f.kind = "update" /\ f.commits = 0,
           (f.kind = "update" /\ ~f.blank) =>
              \A c \in ColumnName : f.loaded.cols[c] # 0 => f.merged[c] = f.loaded.cols[c]
    PROVE  /\ Again(f, retryable) \in FlowCall /\ GoodCall(Again(f, retryable))
           /\ Again(f, retryable).at \in {"write", "answer"}
           /\ Again(f, FALSE).at = "answer"
           /\ Again(f, retryable).kind = f.kind /\ Again(f, retryable).commits = f.commits
           /\ Again(f, retryable).items = f.items
<1> DEFINE n == f.tries + 1
           over == f.kind = "delete" \/ (f.kind = "create" /\ f.stop)
           mark == IF f.kind = "update" THEN ~retryable ELSE f.stop
           place == IF retryable /\ ~over /\ n < MaxRetries THEN "write" ELSE "answer"
           h == [f EXCEPT !.tries = n, !.stop = mark, !.at = place]
<1>1. Again(f, retryable) = h
  BY DEF Again
<1>8. mark \in BOOLEAN
  <2>1. f.stop \in BOOLEAN /\ (~retryable) \in BOOLEAN
    BY DEF FlowCall
  <2> QED BY <2>1
<1>2. /\ n \in 1 .. MaxRetries /\ place \in {"write", "answer"}
      /\ place = "write" => n < MaxRetries
  BY FlowBounds DEF FlowCall
<1>3. f.commits <= n
  OBVIOUS
<1> HIDE DEF n, place, mark
<1>4. h \in FlowCall
  <2>1. n \in 0 .. MaxRetries /\ place \in Places
    BY <1>2, FlowBounds DEF Places
  <2> HIDE DEF Places
  <2> QED BY <1>8, <2>1 DEF FlowCall
<1>5. /\ h.at = place /\ h.tries = n /\ h.items = f.items /\ h.kind = f.kind /\ h.ok = f.ok
      /\ h.commits = f.commits /\ h.late = f.late /\ h.blank = f.blank /\ h.merged = f.merged
      /\ h.loaded = f.loaded
  BY DEF FlowCall
<1> HIDE DEF h
<1>6. GoodCall(h)
  BY <1>2, <1>3, <1>5 DEF GoodCall
<1>7. Again(f, FALSE).at = "answer"
  BY DEF Again, FlowCall
<1> QED BY <1>1, <1>2, <1>4, <1>5, <1>6, <1>7

(***************************************************************************)
(* What a commit makes of a table, and that it keeps the columns that an   *)
(* update loaded and found again.                                          *)
(***************************************************************************)
LEMMA ChangedIs ==
    ASSUME FlowInv, NEW r \in Requests, flow[r].at = "commit", Total(r) <= MaxIds,
           NEW now \in Catalogued
    PROVE  /\ Changed(r, now) \in Catalogued /\ Total(r) \in 0 .. MaxIds
           /\ flow[r].kind = "create" => Changed(r, now).id # 0
           /\ flow[r].kind = "update" =>
                 /\ Changed(r, now).id = now.id
                 /\ \A c \in ColumnName :
                       now.cols[c] = flow[r].loaded.cols[c] /\ now.cols[c] # 0 =>
                          Changed(r, now).cols[c] = now.cols[c]
<1> DEFINE g == flow[r]
           S == Fresh(r)
           n == Cardinality(S)
           new == NewIds(S)
<1>1. g \in FlowCall /\ GoodCall(g) /\ ids \in 0 .. MaxIds /\ MaxIds \in Nat
  BY FlowBounds DEF FlowInv, FlowTypes, CallsAreGood
<1>2. Current(r) \in Item
  <2>1. g.items # <<>> /\ g.items \in Seq(Item)
    BY <1>1 DEF GoodCall, FlowCall
  <2> QED BY <2>1 DEF Current
<1>3. S \in SUBSET ColumnName
  BY <1>2 DEF Fresh, Item
<1>4. n \in Nat /\ new \in [S -> ids + 1 .. ids + n]
  BY <1>1, <1>3, NewIdsAreNew
<1>5. Total(r) = ids + n + (IF g.kind = "create" THEN 1 ELSE 0)
  BY DEF Total
<1>6. now.id \in 0 .. MaxIds /\ now.cols \in [ColumnName -> 0 .. MaxIds]
  BY DEF Catalogued
<1>7. g.kind \in Kinds /\ g.loaded.cols \in [ColumnName -> 0 .. MaxIds]
  BY <1>1 DEF FlowCall, Catalogued
<1> HIDE DEF n, new
<1>8. Total(r) \in 0 .. MaxIds /\ ids + n <= MaxIds
  BY <1>1, <1>4, <1>5
<1>9. \A c \in S : new[c] \in 0 .. MaxIds
  BY <1>1, <1>4, <1>8
<1>10. CASE g.kind = "create"
  <2> DEFINE id == ids + n + 1
             cols == [c \in ColumnName |-> IF c \in S THEN new[c] ELSE 0]
  <2>1. Changed(r, now) = [id |-> id, cols |-> cols]
    BY <1>10 DEF Changed, n, new
  <2>2. id \in 1 .. MaxIds
    BY <1>1, <1>4, <1>5, <1>8, <1>10
  <2>3. cols \in [ColumnName -> 0 .. MaxIds]
    BY <1>1, <1>9
  <2> HIDE DEF id, cols, S
  <2> QED BY <1>8, <1>10, <2>1, <2>2, <2>3 DEF Catalogued
<1>11. CASE g.kind = "update" /\ g.blank
  BY <1>8, <1>11 DEF Changed
<1>12. CASE g.kind = "update" /\ ~g.blank
  <2> DEFINE cols == [c \in ColumnName |-> IF c \in S THEN new[c]
                                           ELSE IF g.merged[c] = now.cols[c] THEN now.cols[c] ELSE 0]
  <2>1. Changed(r, now) = [now EXCEPT !.cols = cols]
    BY <1>12 DEF Changed, n, new
  <2>2. cols \in [ColumnName -> 0 .. MaxIds]
    BY <1>1, <1>6, <1>9
  <2>3. \A c \in ColumnName : now.cols[c] = g.loaded.cols[c] /\ now.cols[c] # 0 => cols[c] = now.cols[c]
    <3> SUFFICES ASSUME NEW c \in ColumnName, now.cols[c] = g.loaded.cols[c], now.cols[c] # 0
                 PROVE  cols[c] = now.cols[c]
      OBVIOUS
    <3>1. g.merged[c] = g.loaded.cols[c]
      BY <1>1, <1>12 DEF GoodCall
    <3>2. c \notin S
      BY <1>12, <3>1 DEF Fresh
    <3> QED BY <3>1, <3>2
  <2> HIDE DEF cols, S
  <2> QED BY <1>8, <1>12, <2>1, <2>2, <2>3 DEF Catalogued
<1>13. CASE g.kind = "delete"
  BY <1>8, <1>13, IdleFlow DEF Changed
<1> QED BY <1>7, <1>10, <1>11, <1>12, <1>13 DEF Kinds

LEMMA LockFlow ==
    ASSUME FlowInv, NEW r \in Requests, TakeLock(r) \/ Locked(r) \/ NotCommitted(r)
    PROVE  FlowInv'
<1> DEFINE g == flow[r]
<1>1. g \in FlowCall /\ GoodCall(g) /\ upsets \in Nat /\ flow \in [Requests -> FlowCall]
  BY DEF FlowInv, FlowTypes, CallsAreGood
<1>2. /\ UNCHANGED <<catalog, granted, reports, ids, orders>> /\ upsets' \in Nat
      /\ g.at \in {"write", "commit"} /\ g.items # <<>>
  <2>1. UNCHANGED <<catalog, granted, reports, ids, orders>> /\ (Calm \/ Upset)
    BY DEF TakeLock, Locked, NotCommitted, ReadOnly
  <2>2. upsets' \in Nat
    BY <1>1, <2>1 DEF Calm, Upset
  <2>3. g.at \in {"write", "commit"}
    BY DEF TakeLock, Locked, NotCommitted, FlowAt
  <2> QED BY <1>1, <2>1, <2>2, <2>3 DEF GoodCall
<1>3. \A retryable \in BOOLEAN :
         /\ Again(g, retryable) \in FlowCall /\ GoodCall(Again(g, retryable))
         /\ Again(g, retryable).at \in {"write", "answer"} /\ Again(g, FALSE).at = "answer"
         /\ Again(g, retryable).kind = g.kind /\ Again(g, retryable).commits = g.commits
         /\ Again(g, retryable).items = g.items
  <2> TAKE retryable \in BOOLEAN
  <2>1. /\ g.tries < MaxRetries /\ g.commits <= g.tries + 1 /\ ~g.ok /\ (g.commits > 0 => g.late)
        /\ (g.blank => g.kind = "update" /\ g.commits = 0)
        /\ (g.kind = "update" /\ ~g.blank) =>
              \A c \in ColumnName : g.loaded.cols[c] # 0 => g.merged[c] = g.loaded.cols[c]
    <3>1. g.commits \in Nat /\ g.tries \in Nat
      BY <1>1, FlowBounds DEF FlowCall
    <3> QED BY <1>1, <1>2, <3>1 DEF GoodCall
  <2> HIDE DEF g
  <2> QED BY <1>1, <1>2, <2>1, AgainIs
<1>4. ASSUME NEW f \in FlowCall, GoodCall(f), Moves(r, f), f.kind = g.kind, f.commits = g.commits,
             f.items = g.items, f.at # "idle", f.at = "commit" <=> writer' = r,
             writer' \in Requests \cup {NoRequest},
             \A k \in Requests : k # r => (writer' = k <=> writer = k)
      PROVE  FlowInv'
  <2>1. \A k \in Requests : flow'[k] = IF k = r THEN f ELSE flow[k]
    BY <1>1, <1>4 DEF Moves
  <2>2. FlowTypes'
    BY <1>2, <1>4 DEF FlowInv, FlowTypes, Moves
  <2>3. CallsAreGood' /\ WriterCommits'
    BY <1>4, <2>1 DEF FlowInv, CallsAreGood, WriterCommits, GoodCall
  <2>4. SomeDeleted' <=> SomeDeleted
    BY <1>2, <1>4, <2>1 DEF SomeDeleted
  <2>5. CreatedIsThere' /\ ReportsAreSo'
    BY <1>2, <1>4, <2>1, <2>4 DEF FlowInv, CreatedIsThere, ReportsAreSo, Current
  <2> QED BY <2>2, <2>3, <2>5 DEF FlowInv
<1>5. CASE TakeLock(r)
  <2> DEFINE f == [g EXCEPT !.at = "commit"]
  <2>1. /\ writer = NoRequest /\ writer' = r /\ Moves(r, f) /\ g.at = "write"
    BY <1>5 DEF TakeLock, FlowAt
  <2>2. f \in FlowCall /\ f.at = "commit" /\ f.items = g.items /\ f.ok = g.ok
        /\ f.late = g.late /\ f.commits = g.commits /\ f.kind = g.kind
        /\ f.tries = g.tries /\ f.blank = g.blank /\ f.merged = g.merged /\ f.loaded = g.loaded
    BY <1>1 DEF FlowCall, Places
  <2> HIDE DEF f
  <2>3. GoodCall(f)
    BY <1>1, <2>1, <2>2 DEF GoodCall
  <2> QED BY <1>4, <2>1, <2>2, <2>3, WorkflowAssumption
<1>6. CASE Locked(r)
  <2>1. UNCHANGED writer /\ Moves(r, Again(g, FALSE)) /\ g.at = "write"
    BY <1>6 DEF Locked, FlowAt, ReadOnly
  <2>2. writer # r /\ writer \in Requests \cup {NoRequest}
    BY <2>1 DEF FlowInv, WriterCommits, FlowTypes
  <2>3. FALSE \in BOOLEAN
    OBVIOUS
  <2> QED BY <1>3, <1>4, <2>1, <2>2, <2>3
<1>7. CASE NotCommitted(r)
  <2>1. /\ writer' = NoRequest /\ g.at = "commit"
        /\ \E retryable \in BOOLEAN : Moves(r, Again(g, retryable))
    BY <1>7 DEF NotCommitted, FlowAt
  <2>2. PICK retryable \in BOOLEAN : Moves(r, Again(g, retryable))
    BY <2>1
  <2>3. writer = r
    BY <2>1 DEF FlowInv, WriterCommits
  <2> QED BY <1>3, <1>4, <2>1, <2>2, <2>3, WorkflowAssumption
<1> QED BY <1>5, <1>6, <1>7

LEMMA CommitFlow == ASSUME FlowInv, NEW r \in Requests, Commit(r) PROVE FlowInv'
<1> DEFINE g == flow[r]
           name == Current(r).table
           now == catalog[name]
           changed == Changed(r, now)
           more == IF g.blank THEN g.commits ELSE g.commits + 1
           done == [g EXCEPT !.commits = more]
           good == [done EXCEPT !.at = "answer", !.ok = TRUE]
           bad == [done EXCEPT !.late = TRUE]
<1>1. /\ g \in FlowCall /\ GoodCall(g) /\ flow \in [Requests -> FlowCall]
      /\ catalog \in [TableName -> Catalogued] /\ upsets \in Nat /\ orders \in Nat
  BY DEF FlowInv, FlowTypes, CallsAreGood
<1>2. /\ g.at = "commit" /\ Acceptable(r, now) /\ Total(r) <= MaxIds
      /\ catalog' = [catalog EXCEPT ![name] = changed]
      /\ ids' = Total(r) /\ writer' = NoRequest
      /\ UNCHANGED <<granted, reports, orders>> /\ upsets' \in Nat
      /\ \/ Moves(r, good)
         \/ \E retryable \in BOOLEAN : Moves(r, Again(bad, retryable))
  BY <1>1 DEF Commit, FlowAt, Calm, Upset
<1>3. g.items # <<>> /\ Current(r) \in Item /\ name \in TableName
  <2>1. g.items # <<>> /\ g.items \in Seq(Item)
    BY <1>1, <1>2 DEF GoodCall, FlowCall
  <2>2. Current(r) \in Item
    BY <2>1 DEF Current
  <2> QED BY <2>1, <2>2 DEF Item
<1>4. /\ changed \in Catalogued /\ Total(r) \in 0 .. MaxIds
      /\ g.kind = "create" => changed.id # 0
      /\ g.kind = "update" => changed.id = now.id
  BY <1>1, <1>2, <1>3, ChangedIs
<1>5. /\ g.tries \in Nat /\ g.tries < MaxRetries /\ g.commits \in Nat /\ g.commits <= g.tries
      /\ ~g.ok /\ g.kind \in Kinds /\ g.blank \in BOOLEAN
      /\ (g.blank => g.kind = "update" /\ g.commits = 0)
      /\ (g.kind = "update" /\ ~g.blank) =>
              \A c \in ColumnName : g.loaded.cols[c] # 0 => g.merged[c] = g.loaded.cols[c]
  BY <1>1, <1>2, FlowBounds DEF GoodCall, FlowCall
<1>6. /\ done \in FlowCall /\ done.at = "commit" /\ done.items = g.items /\ done.kind = g.kind
      /\ done.tries = g.tries /\ done.commits = more /\ done.ok = g.ok
      /\ done.blank = g.blank /\ done.merged = g.merged /\ done.loaded = g.loaded
  <2>1. more \in 0 .. MaxRetries
    BY <1>5, FlowBounds
  <2>2. done = [g EXCEPT !.commits = more]
    OBVIOUS
  <2> HIDE DEF g, more, done
  <2>3. /\ done \in FlowCall /\ done.at = g.at /\ done.items = g.items /\ done.kind = g.kind
        /\ done.tries = g.tries /\ done.commits = more /\ done.ok = g.ok
        /\ done.blank = g.blank /\ done.merged = g.merged /\ done.loaded = g.loaded
    BY <1>1, <2>1, <2>2 DEF FlowCall
  <2> QED BY <1>2, <2>3
<1>20. /\ more \in Nat /\ (g.blank => more = 0) /\ (~g.blank => more = g.commits + 1)
       /\ more <= g.tries + 1
  BY <1>5
<1> HIDE DEF done, g, changed, now, name, more
<1>7. /\ bad \in FlowCall /\ bad.at = "commit" /\ bad.items = g.items /\ bad.kind = g.kind
      /\ bad.tries = g.tries /\ bad.commits = more /\ bad.ok = g.ok /\ bad.late = TRUE
      /\ bad.blank = g.blank /\ bad.merged = g.merged /\ bad.loaded = g.loaded
  BY <1>6 DEF FlowCall
<1>8. /\ good \in FlowCall /\ good.at = "answer" /\ good.items = g.items /\ good.kind = g.kind
      /\ good.commits = more /\ good.ok = TRUE /\ good.blank = g.blank
  BY <1>6 DEF FlowCall, Places
<1> HIDE DEF good, bad
<1>9. GoodCall(good)
  BY <1>3, <1>5, <1>8, <1>20 DEF GoodCall
<1>10. \A retryable \in BOOLEAN :
         /\ Again(bad, retryable) \in FlowCall /\ GoodCall(Again(bad, retryable))
         /\ Again(bad, retryable).at \in {"write", "answer"}
         /\ Again(bad, retryable).kind = g.kind /\ Again(bad, retryable).commits = more
         /\ Again(bad, retryable).items = g.items
  <2> TAKE retryable \in BOOLEAN
  <2>1. bad.commits <= bad.tries + 1
    BY <1>7, <1>20
  <2>2. bad.blank => bad.kind = "update" /\ bad.commits = 0
    BY <1>5, <1>7, <1>20
  <2>3. /\ bad.at = "commit" /\ bad.tries < MaxRetries /\ ~bad.ok /\ bad.late /\ bad.items # <<>>
        /\ (bad.kind = "update" /\ ~bad.blank) =>
              \A c \in ColumnName : bad.loaded.cols[c] # 0 => bad.merged[c] = bad.loaded.cols[c]
    BY <1>3, <1>5, <1>7
  <2>4. Again(bad, retryable).kind = g.kind /\ Again(bad, retryable).commits = more
        /\ Again(bad, retryable).items = g.items
    BY <1>7, <2>1, <2>2, <2>3, AgainIs
  <2> QED BY <1>7, <2>1, <2>2, <2>3, <2>4, AgainIs
<1>11. PICK f \in FlowCall : /\ GoodCall(f) /\ Moves(r, f) /\ f.at \in {"write", "answer"}
                             /\ f.kind = g.kind /\ f.commits = more /\ f.items = g.items
  BY <1>2, <1>8, <1>9, <1>10
<1>12. flow'[r] = f /\ \A k \in Requests : k # r => flow'[k] = flow[k]
  BY <1>1, <1>11 DEF Moves
<1>13. FlowTypes'
  BY <1>1, <1>2, <1>3, <1>4, <1>11 DEF FlowInv, FlowTypes, Moves
<1>14. CallsAreGood'
  BY <1>11, <1>12 DEF FlowInv, CallsAreGood, GoodCall
<1>15. WriterCommits'
  <2>1. writer = r
    BY <1>2 DEF FlowInv, WriterCommits, g
  <2> QED BY <1>2, <1>11, <1>12, <2>1, WorkflowAssumption DEF FlowInv, WriterCommits
<1>16. SomeDeleted => SomeDeleted'
  <2> SUFFICES ASSUME NEW k \in Requests,
                      \/ flow[k].kind = "delete" /\ flow[k].commits > 0
                      \/ \E s \in reports[k] : s.kind = "delete" /\ s.commits > 0
               PROVE  \E j \in Requests :
                         \/ flow'[j].kind = "delete" /\ flow'[j].commits > 0
                         \/ \E s \in reports'[j] : s.kind = "delete" /\ s.commits > 0
    BY DEF SomeDeleted
  <2>1. CASE k = r
    BY <1>2, <1>5, <1>11, <1>12, <1>20, <2>1 DEF g
  <2>2. CASE k # r
    BY <1>2, <1>12, <2>2
  <2> QED BY <2>1, <2>2
<1>17. g.kind = "delete" => SomeDeleted'
  BY <1>5, <1>11, <1>12, <1>20 DEF SomeDeleted
<1>18. CreatedIsThere'
  <2> SUFFICES ASSUME ~SomeDeleted', NEW k \in Requests, flow'[k].kind = "create", flow'[k].commits > 0
               PROVE  flow'[k].commits = 1 /\ catalog'[Head(flow'[k].items).table].id # 0
    BY DEF CreatedIsThere, Current
  <2>1. ~SomeDeleted /\ g.kind \in {"create", "update"}
    BY <1>5, <1>16, <1>17 DEF Kinds
  <2>2. \A n \in TableName : catalog[n].id # 0 => catalog'[n].id # 0
    BY <1>1, <1>2, <1>3, <1>4, <2>1 DEF now
  <2>3. CASE k # r
    <3>1. flow[k].commits = 1 /\ catalog[Current(k).table].id # 0
      BY <1>12, <2>1, <2>3 DEF FlowInv, CreatedIsThere
    <3>2. Current(k).table \in TableName
      <4>1. flow[k] \in FlowCall /\ GoodCall(flow[k])
        BY DEF FlowInv, FlowTypes, CallsAreGood
      <4>2. flow[k].items # <<>> /\ flow[k].items \in Seq(Item)
        BY <3>1, <4>1 DEF GoodCall, FlowCall
      <4>3. Current(k) \in Item
        BY <4>2 DEF Current
      <4> QED BY <4>3 DEF Item
    <3> QED BY <1>12, <2>2, <2>3, <3>1, <3>2 DEF Current
  <2>4. CASE k = r
    <3>1. g.kind = "create"
      BY <1>11, <1>12, <2>4
    <3>2. now.id = 0
      BY <1>2, <3>1 DEF Acceptable, g
    <3>3. g.commits = 0
      BY <1>5, <2>1, <3>1, <3>2 DEF FlowInv, CreatedIsThere, g, now, name
    <3>4. Head(flow'[r].items).table = name
      BY <1>11, <1>12 DEF name, Current, g
    <3>5. catalog'[name] = changed
      BY <1>1, <1>2, <1>3
    <3> QED BY <1>4, <1>5, <1>11, <1>12, <1>20, <2>4, <3>1, <3>3, <3>4, <3>5
  <2> QED BY <2>3, <2>4
<1>19. ReportsAreSo'
  BY <1>2, <1>16 DEF FlowInv, ReportsAreSo
<1> QED BY <1>13, <1>14, <1>15, <1>18, <1>19 DEF FlowInv

LEMMA NextFlow == FlowInv /\ [FlowNext]_flowVars => FlowInv'
<1> SUFFICES ASSUME FlowInv, [FlowNext]_flowVars PROVE FlowInv'
  OBVIOUS
<1>1. CASE Revoke \/ UNCHANGED flowVars
  <2>1. /\ UNCHANGED <<catalog, writer, flow, reports, ids, orders>>
        /\ granted' \subseteq Kinds /\ upsets' \in Nat
    BY <1>1 DEF Revoke, Upset, flowVars, FlowInv, FlowTypes
  <2> QED BY <2>1 DEF FlowInv, FlowTypes, CallsAreGood, WriterCommits, CreatedIsThere, ReportsAreSo,
                      SomeDeleted, Current, GoodCall
<1>2. CASE \E r \in Requests : StartOrder(r) \/ AbortOrder(r) \/ ReadFails(r) \/ FlowGoesOn(r)
  BY <1>2, StartFlow, AbortFlow, AnswerFlow, ReadingFlow, MergeFlow, LockFlow, CommitFlow
     DEF FlowGoesOn
<1> QED BY <1>1, <1>2 DEF FlowNext

LEMMA FlowTypesOK == FlowInv => FlowTypeOK
<1> SUFFICES ASSUME FlowInv PROVE FlowTypeOK
  OBVIOUS
<1>1. ASSUME NEW r \in Requests
      PROVE  /\ flow[r].at \in Places /\ flow[r].kind \in Kinds
             /\ flow[r].items = <<>> <=> FlowAt(r, "idle")
             /\ flow[r].tries \in 0 .. MaxRetries
             /\ reports[r] \subseteq Report
  <2>1. flow[r] \in FlowCall /\ GoodCall(flow[r]) /\ reports[r] \in SUBSET Report
    BY DEF FlowInv, FlowTypes, CallsAreGood
  <2> QED BY <2>1 DEF FlowCall, GoodCall, FlowAt
<1>2. \A r \in Requests : writer = r <=> FlowAt(r, "commit")
  BY DEF FlowInv, WriterCommits, FlowAt
<1> QED BY <1>1, <1>2, FlowBounds DEF FlowInv, FlowTypes, FlowTypeOK

(***************************************************************************)
(* Whatever is retried, aborted or refused, and whatever other requests    *)
(* change in between, what a tool reports of a table is so, but for the    *)
(* success of an update whose merge has thrown (execute() of the           *)
(* workflows).                                                             *)
(***************************************************************************)
THEOREM ToolsReportWhatIs == FlowSpec => []ReportsAreSo
<1>1. FlowInv => ReportsAreSo
  BY DEF FlowInv
<1> QED BY <1>1, InitFlow, NextFlow, PTL DEF FlowSpec

(***************************************************************************)
(* An update leaves the columns that it has loaded, and that are still     *)
(* there when it commits, as they are (mergeData()).                       *)
(***************************************************************************)
THEOREM UpdatesKeepColumns == FlowSpec => LoadedColumnsStay
<1>1. ASSUME FlowInv, [FlowNext]_flowVars, NEW r \in Requests, FlowAt(r, "commit"),
             flow[r].kind = "update", flow'[r].at # "commit",
             NEW n \in TableName, NEW c \in ColumnName,
             catalog[n].id = flow[r].loaded.id, catalog[n].cols[c] = flow[r].loaded.cols[c],
             catalog[n].cols[c] # 0
      PROVE  catalog'[n].cols[c] = catalog[n].cols[c]
  <2>1. CASE Commit(r)
    <3> DEFINE name == Current(r).table
    <3>1. /\ catalog' = [catalog EXCEPT ![name] = Changed(r, catalog[name])] /\ Total(r) <= MaxIds
      BY <2>1 DEF Commit
    <3>2. catalog \in [TableName -> Catalogued] /\ catalog[n] \in Catalogued
      BY <1>1 DEF FlowInv, FlowTypes
    <3>3. CASE n = name
      <4>1. Changed(r, catalog[n]).cols[c] = catalog[n].cols[c]
        BY <1>1, <3>1, <3>2, ChangedIs DEF FlowAt
      <4> QED BY <3>1, <3>2, <3>3, <4>1
    <3>4. CASE n # name
      BY <3>1, <3>2, <3>4
    <3> QED BY <3>3, <3>4
  <2>2. CASE NotCommitted(r)
    BY <2>2 DEF NotCommitted
  <2>3. CASE ~Commit(r) /\ ~NotCommitted(r)
    <3>1. flow \in [Requests -> FlowCall]
      BY <1>1 DEF FlowInv, FlowTypes
    <3>2. ASSUME NEW k \in Requests, NEW f, k # r, Moves(k, f) PROVE flow'[r] = flow[r]
      BY <3>1, <3>2 DEF Moves
    <3>3. ASSUME AbortOrder(r) PROVE flow'[r].at = "commit"
      <4>1. flow'[r] = [flow[r] EXCEPT !.aborted = TRUE]
        BY <3>1, <3>3 DEF AbortOrder, Moves
      <4>2. flow[r] \in FlowCall
        BY <3>1
      <4> QED BY <1>1, <4>1, <4>2 DEF FlowCall, FlowAt
    <3>4. CASE Revoke \/ UNCHANGED flowVars
      BY <3>4 DEF Revoke, flowVars
    <3>5. CASE \E k \in Requests : StartOrder(k) \/ AbortOrder(k) \/ ReadFails(k) \/ FlowGoesOn(k)
      <4>1. PICK k \in Requests : StartOrder(k) \/ AbortOrder(k) \/ ReadFails(k) \/ FlowGoesOn(k)
        BY <3>5
      <4>2. CASE Commit(k) /\ k # r
        <5>1. PICK f : Moves(k, f)
          BY <4>2 DEF Commit
        <5> QED BY <1>1, <3>2, <4>2, <5>1 DEF FlowAt
      <4>3. CASE ~Commit(k)
        BY <1>1, <2>3, <3>3, <4>1, <4>3
           DEF FlowGoesOn, StartOrder, AbortOrder, ReadFails, CheckTableExists, LoadCurrentTable,
               FindForDelete, ValidateTargetTables, CheckFKConflicts, MergeData, TakeLock, Locked,
               NotCommitted, Answer, FlowAt, ReadOnly
      <4> QED BY <2>3, <4>2, <4>3
    <3> QED BY <1>1, <3>4, <3>5 DEF FlowNext
  <2> QED BY <2>1, <2>2, <2>3
<1>2. FlowInv /\ [FlowNext]_flowVars => [UpdateKeepsColumns]_flowVars
  BY <1>1 DEF UpdateKeepsColumns
<1> QED BY <1>2, InitFlow, NextFlow, PTL DEF FlowSpec, LoadedColumnsStay

-----------------------------------------------------------------------------
\* Types.

LEMMA InitScriptTypes == ScriptsInit => ScriptsTypeOK
<1> SUFFICES ASSUME ScriptsInit PROVE ScriptsTypeOK
  OBVIOUS
<1>1. loose \in BOOLEAN /\ broken \in BOOLEAN
  BY Zenon DEF ScriptsInit
<1>2. 0 \in 0 .. ScriptCount
  BY ScriptsAssumption
<1> QED BY <1>1, <1>2 DEF ScriptsInit, ScriptsTypeOK, NotBegun

(***************************************************************************)
(* The execution that is begun is one that was free.                       *)
(***************************************************************************)
LEMMA FreeIsFree == SomeFree => FreeRound \in Rounds /\ RoundAt(FreeRound, "none")
  BY DEF SomeFree, FreeRound

LEMMA NextScriptTypes == ScriptsTypeOK /\ [ScriptsNext]_scriptVars => ScriptsTypeOK'
<1> SUFFICES ASSUME ScriptsTypeOK, [ScriptsNext]_scriptVars PROVE ScriptsTypeOK'
  OBVIOUS
<1> USE ScriptsAssumption DEF ScriptsTypeOK, RoundAt, Goes, Mishap
<1>1. ASSUME NEW i \in Starters, StartInstance(i) PROVE ScriptsTypeOK'
  BY <1>1, FreeIsFree DEF StartInstance, Asking, NotBegun
<1>2. ASSUME NEW i \in Starters, CrashScripts(i) PROVE ScriptsTypeOK'
  BY <1>2 DEF CrashScripts
<1>3. ASSUME NEW x \in Rounds, AskForLock(x) PROVE ScriptsTypeOK'
  BY <1>3 DEF AskForLock, Refused
<1>4. ASSUME NEW x \in Rounds, ClearAll(x) PROVE ScriptsTypeOK'
  BY <1>4 DEF ClearAll
<1>5. ASSUME NEW x \in Rounds, ReadScripts(x) PROVE ScriptsTypeOK'
  <2>1. broken' \in BOOLEAN
    <3>1. broken' = broken \/ broken' = TRUE
      BY <1>5 DEF ReadScripts
    <3> QED BY <3>1
  <2>2. \E at \in {"scripts", "release"} : round' = [round EXCEPT ![x].at = at]
    BY <1>5 DEF ReadScripts
  <2>3. UNCHANGED <<scriptLock, up, loose>> /\ expiries' \in Nat
    BY <1>5 DEF ReadScripts
  <2> QED BY <2>1, <2>2, <2>3
<1>6. ASSUME NEW x \in Rounds, ExecuteScript(x) PROVE ScriptsTypeOK'
  BY <1>6, FreeIsFree DEF ExecuteScript, Asking, NotBegun
<1>7. ASSUME NEW x \in Rounds, LastScript(x) PROVE ScriptsTypeOK'
  BY <1>7 DEF LastScript
<1>8. ASSUME NEW x \in Rounds, ReleaseScripts(x) PROVE ScriptsTypeOK'
  BY <1>8 DEF ReleaseScripts, Released
<1>9. CASE ExpireScripts
  BY <1>9 DEF ExpireScripts
<1>10. CASE UNCHANGED scriptVars
  BY <1>10 DEF scriptVars
<1> QED BY <1>1, <1>2, <1>3, <1>4, <1>5, <1>6, <1>7, <1>8, <1>9, <1>10 DEF ScriptsNext
-----------------------------------------------------------------------------
\* One runner.

Holding == {x \in Rounds : round[x].at \in {"clear", "read", "scripts", "release"}}
HasRunAll(x) == round[x].ran = ScriptCount

(***************************************************************************)
(* An execution has an instance, or is still to begin.  As long as the     *)
(* lock goes by release() only, who is inside holds it, and is alone.  As  *)
(* long as nothing breaks, a lock that is taken, and the end of an         *)
(* execution that was inside, tell of one that runs the scripts or has run *)
(* them, and an instance that has started has asked.                       *)
(***************************************************************************)
RoundsHaveInstances ==
    \A x \in Rounds : IF RoundAt(x, "none") THEN round[x].ran = 0
                                           ELSE round[x].by \in Starters

LockIsHeld ==
    ~loose => /\ \A x \in Holding : scriptLock = round[x].by
              /\ \A x, y \in Holding : x = y

SomeoneRuns == \E x \in Rounds : x \in Executing \/ HasRunAll(x)

ScriptsAreRun ==
    ~broken => /\ \A x \in Rounds : RoundAt(x, "release") => HasRunAll(x)
               /\ scriptLock # NoStarter => SomeoneRuns
               /\ up # {} => SomeoneRuns \/ \E x \in Rounds : RoundAt(x, "asking")

RunnerInv == ScriptsTypeOK /\ RoundsHaveInstances /\ LockIsHeld /\ ScriptsAreRun

LEMMA InitRunner == ScriptsInit => RunnerInv
<1> SUFFICES ASSUME ScriptsInit PROVE RunnerInv
  OBVIOUS
<1> USE DEF ScriptsInit, NotBegun, RoundAt
<1>1. RoundsHaveInstances /\ LockIsHeld
  BY DEF RoundsHaveInstances, LockIsHeld, Holding
<1>2. ScriptsAreRun
  BY DEF ScriptsAreRun
<1> QED BY <1>1, <1>2, InitScriptTypes DEF RunnerInv

LEMMA NextHeld ==
    RunnerInv /\ [ScriptsNext]_scriptVars => RoundsHaveInstances' /\ LockIsHeld'
<1> SUFFICES ASSUME RunnerInv, [ScriptsNext]_scriptVars
             PROVE  RoundsHaveInstances' /\ LockIsHeld'
  OBVIOUS
<1> USE ScriptsAssumption DEF RunnerInv, ScriptsTypeOK, RoundsHaveInstances, LockIsHeld, Holding,
                              RoundAt, Goes
<1>1. ASSUME NEW i \in Starters, StartInstance(i)
      PROVE  RoundsHaveInstances' /\ LockIsHeld'
  BY <1>1, FreeIsFree DEF StartInstance, Asking
<1>2. ASSUME NEW i \in Starters, CrashScripts(i)
      PROVE  RoundsHaveInstances' /\ LockIsHeld'
  BY <1>2 DEF CrashScripts
<1>3. ASSUME NEW x \in Rounds, AskForLock(x)
      PROVE  RoundsHaveInstances' /\ LockIsHeld'
  BY <1>3 DEF AskForLock, Refused
<1>4. ASSUME NEW x \in Rounds, ClearAll(x)
      PROVE  RoundsHaveInstances' /\ LockIsHeld'
  BY <1>4 DEF ClearAll
<1>5. ASSUME NEW x \in Rounds, ReadScripts(x)
      PROVE  RoundsHaveInstances' /\ LockIsHeld'
  BY <1>5 DEF ReadScripts
<1>6. ASSUME NEW x \in Rounds, ExecuteScript(x)
      PROVE  RoundsHaveInstances' /\ LockIsHeld'
  BY <1>6, FreeIsFree DEF ExecuteScript, Asking
<1>7. ASSUME NEW x \in Rounds, LastScript(x)
      PROVE  RoundsHaveInstances' /\ LockIsHeld'
  BY <1>7 DEF LastScript
<1>8. ASSUME NEW x \in Rounds, ReleaseScripts(x)
      PROVE  RoundsHaveInstances' /\ LockIsHeld'
  BY <1>8 DEF ReleaseScripts, Released
<1>9. CASE ExpireScripts
  BY <1>9 DEF ExpireScripts
<1>10. CASE UNCHANGED scriptVars
  BY <1>10 DEF scriptVars
<1> QED BY <1>1, <1>2, <1>3, <1>4, <1>5, <1>6, <1>7, <1>8, <1>9, <1>10 DEF ScriptsNext

LEMMA NextRun == RunnerInv /\ [ScriptsNext]_scriptVars => ScriptsAreRun'
<1> SUFFICES ASSUME RunnerInv, [ScriptsNext]_scriptVars PROVE ScriptsAreRun'
  OBVIOUS
<1> USE ScriptsAssumption DEF RunnerInv, ScriptsTypeOK, RoundsHaveInstances, ScriptsAreRun,
                              SomeoneRuns, Executing, HasRunAll, RoundAt, Goes
<1>1. ASSUME NEW i \in Starters, StartInstance(i) PROVE ScriptsAreRun'
  BY <1>1, FreeIsFree DEF StartInstance, Asking
<1>2. ASSUME NEW i \in Starters, CrashScripts(i) PROVE ScriptsAreRun'
  BY <1>2 DEF CrashScripts
<1>3. ASSUME NEW x \in Rounds, AskForLock(x) PROVE ScriptsAreRun'
  BY <1>3 DEF AskForLock, Refused
<1>4. ASSUME NEW x \in Rounds, ClearAll(x) PROVE ScriptsAreRun'
  BY <1>4 DEF ClearAll
<1>5. ASSUME NEW x \in Rounds, ReadScripts(x) PROVE ScriptsAreRun'
  BY <1>5 DEF ReadScripts
<1>6. ASSUME NEW x \in Rounds, ExecuteScript(x) PROVE ScriptsAreRun'
  BY <1>6, FreeIsFree DEF ExecuteScript, Asking
<1>7. ASSUME NEW x \in Rounds, LastScript(x) PROVE ScriptsAreRun'
  BY <1>7 DEF LastScript
<1>8. ASSUME NEW x \in Rounds, ReleaseScripts(x) PROVE ScriptsAreRun'
  BY <1>8 DEF ReleaseScripts, Released
<1>9. CASE ExpireScripts
  BY <1>9 DEF ExpireScripts
<1>10. CASE UNCHANGED scriptVars
  BY <1>10 DEF scriptVars
<1> QED BY <1>1, <1>2, <1>3, <1>4, <1>5, <1>6, <1>7, <1>8, <1>9, <1>10 DEF ScriptsNext

(***************************************************************************)
(* While the lock neither expires nor is flushed, one execution at a time  *)
(* runs the scripts; and with no crash and no failed query those that were *)
(* refused have left them to one that ran them all.                        *)
(***************************************************************************)
THEOREM OneRunner == ScriptsSpec => []ScriptsHaveOneRunner
<1>1. RunnerInv /\ [ScriptsNext]_scriptVars => RunnerInv'
  BY NextScriptTypes, NextHeld, NextRun DEF RunnerInv
<1>2. RunnerInv => ScriptsHaveOneRunner
  <2> SUFFICES ASSUME RunnerInv PROVE ScriptsHaveOneRunner
    OBVIOUS
  <2>1. ASSUME ~loose PROVE Cardinality(Executing) <= 1
    <3>1. \A x, y \in Executing : x = y
      BY <2>1 DEF RunnerInv, LockIsHeld, Holding, Executing
    <3>2. CASE Executing = {}
      BY <3>2, FS_EmptySet
    <3>3. CASE Executing # {}
      <4>1. PICK x \in Executing : TRUE
        BY <3>3
      <4>2. Executing = {x}
        BY <3>1, <4>1
      <4> QED BY <4>2, FS_Singleton
    <3> QED BY <3>2, <3>3
  <2>2. ASSUME ~broken, up # {}, \A x \in Rounds : round[x].at \in {"none", "over"}
        PROVE  \E x \in Rounds : round[x].ran = ScriptCount
    BY <2>2 DEF RunnerInv, ScriptsAreRun, SomeoneRuns, Executing, HasRunAll, RoundAt
  <2> QED BY <2>1, <2>2 DEF ScriptsHaveOneRunner
<1> QED BY <1>1, <1>2, InitRunner, PTL DEF ScriptsSpec

-----------------------------------------------------------------------------
\* Types of the state that the argument is about.

PkgPlaces == {"idle", "check", "npm", "require", "row", "reload", "load", "publish", "save"}
TypedRow == [id : Nat, name : PkgName, type : Types, enabled : BOOLEAN, system : BOOLEAN]
PkgRequest == [at : PkgPlaces, on : Machine, kind : {"install", "update", "uninstall", "get"},
            row : TypedRow, whole : BOOLEAN, list : SUBSET PkgName]
Disk == [listed : SUBSET PkgName, modules : SUBSET PkgName, required : SUBSET PkgName]

PkgTypes == /\ disk \in [Machine -> Disk]
              /\ pcall \in [PkgCall -> PkgRequest]
              /\ pkgRows \subseteq TypedRow
              /\ nextRow \in Nat
              /\ evaded \in BOOLEAN

LEMMA IdleTypes == PkgIdle \in PkgRequest /\ NoRow \in TypedRow
<1>1. (CHOOSE m \in Machine : TRUE) \in Machine /\ (CHOOSE n \in PkgName : TRUE) \in PkgName
  BY PackagesAssumption
<1>2. NoRow \in TypedRow
  BY <1>1 DEF NoRow, TypedRow, Types
<1> QED BY <1>1, <1>2 DEF PkgIdle, PkgRequest, PkgPlaces

LEMMA ListedTypes == pkgRows \subseteq TypedRow => Listed \subseteq PkgName
  BY DEF Listed, TypedRow

LEMMA InitPkgTypes == PackagesInit => PkgTypes
<1> SUFFICES ASSUME PackagesInit PROVE PkgTypes
  OBVIOUS
<1>1. evaded \in BOOLEAN
  BY Zenon DEF PackagesInit
<1> QED BY <1>1, IdleTypes, PackagesAssumption DEF PackagesInit, PkgTypes, Disk

(***************************************************************************)
(* A request goes on, or is over: its place is all that changes.           *)
(***************************************************************************)
LEMMA StepPkgTypes ==
    ASSUME PkgTypes, NEW c \in PkgCall, NEW place \in PkgPlaces, Step(c, place)
    PROVE  pcall' \in [PkgCall -> PkgRequest]
  BY IdleTypes DEF PkgTypes, Step, PkgRequest
-----------------------------------------------------------------------------
\* The argument.

(***************************************************************************)
(* A row of what the server depends on is one of the system, for a name    *)
(* that is in package.json is taken for that when the row is made; no      *)
(* request uninstalls what such a row names.                               *)
(***************************************************************************)
InstallsCheck ==
    \A c \in PkgCall : pcall[c].at \in {"check", "require"} => pcall[c].kind = "install"

Guarded(c) ==
    LET r == pcall[c]
    IN /\ r.at \in {"npm", "require", "row"} /\ r.kind = "install" /\ r.row.name \in BaseDeps
             => r.row.system
       /\ r.at \in {"npm", "row"} /\ r.kind = "uninstall" => r.row.name \notin BaseDeps

DependenciesAreKept ==
    ~evaded =>
       /\ \A m \in Machine : BaseDeps \subseteq disk[m].listed \cap disk[m].modules
       /\ \A r \in pkgRows : r.name \in BaseDeps => r.system
       /\ \A c \in PkgCall : Guarded(c)

PkgInv == PkgTypes /\ InstallsCheck /\ DependenciesAreKept

LEMMA InitPkg == PackagesInit => PkgInv
<1> SUFFICES ASSUME PackagesInit PROVE PkgInv
  OBVIOUS
<1>1. InstallsCheck
  BY DEF PackagesInit, InstallsCheck, PkgIdle
<1>2. DependenciesAreKept
  BY PackagesAssumption DEF PackagesInit, DependenciesAreKept, Guarded, PkgIdle
<1> QED BY <1>1, <1>2, InitPkgTypes DEF PkgInv

(***************************************************************************)
(* The requests that begin: what they are made of.                         *)
(***************************************************************************)
LEMMA BeginPkg ==
    ASSUME PkgInv, NEW c \in PkgCall, NEW q \in PkgRequest,
           pcall' = [pcall EXCEPT ![c] = q],
           q.at \in {"check", "require"} => q.kind = "install",
           evaded' \in BOOLEAN, ~evaded' => ~evaded,
           ~evaded' =>
              /\ q.at \in {"npm", "require", "row"} /\ q.kind = "install" /\ q.row.name \in BaseDeps
                    => q.row.system
              /\ q.at \in {"npm", "row"} /\ q.kind = "uninstall" => q.row.name \notin BaseDeps,
           UNCHANGED <<pkgRows, disk, nextRow>>
    PROVE  PkgInv'
  BY DEF PkgInv, PkgTypes, InstallsCheck, DependenciesAreKept, Guarded

LEMMA BeginningsPkg ==
    ASSUME PkgInv, NEW c \in PkgCall, NEW m \in Machine,
           \/ \E n \in PkgName, type \in Types : BeginInstall(c, m, n, type)
           \/ \E r \in pkgRows, flag \in BOOLEAN : \/ BeginUninstall(c, m, r, flag)
                                                \/ BeginUpdate(c, m, r, flag)
           \/ BeginGet(c, m) /\ UNCHANGED evaded
    PROVE  PkgInv'
<1>1. /\ PkgIdle.kind = "install" /\ PkgIdle.list = {}
      /\ PkgIdle.row \in TypedRow /\ PkgIdle = [at |-> "idle", on |-> PkgIdle.on, kind |-> "install",
                                          row |-> PkgIdle.row, whole |-> TRUE, list |-> {}]
  BY IdleTypes DEF PkgIdle
<1>6. evaded \in BOOLEAN
  BY DEF PkgInv, PkgTypes
<1>2. ASSUME NEW n \in PkgName, NEW type \in Types, BeginInstall(c, m, n, type) PROVE PkgInv'
  <2> DEFINE row == [NoRow EXCEPT !.name = n, !.type = type, !.enabled = TRUE]
             q == [PkgIdle EXCEPT !.at = "check", !.on = m, !.row = row]
  <2>1. row \in TypedRow
    BY IdleTypes DEF TypedRow
  <2>2. q \in PkgRequest /\ q.at = "check" /\ q.kind = "install"
    <3> HIDE DEF row
    <3> QED BY <1>1, <2>1, IdleTypes DEF PkgRequest, PkgPlaces
  <2>3. pcall' = [pcall EXCEPT ![c] = q] /\ UNCHANGED <<pkgRows, disk, nextRow, evaded>>
    BY <1>2 DEF BeginInstall, Asks
  <2> HIDE DEF q
  <2> QED BY <1>6, <2>2, <2>3, BeginPkg
<1>3. ASSUME NEW r \in pkgRows, NEW flag \in BOOLEAN, BeginUninstall(c, m, r, flag) PROVE PkgInv'
  <2> DEFINE place == IF r.type = "Backend" THEN "npm" ELSE "row"
             q == [PkgIdle EXCEPT !.at = place, !.on = m, !.kind = "uninstall", !.row = r,
                                  !.whole = flag]
  <2>1. q \in PkgRequest /\ q.at \in {"npm", "row"} /\ q.kind = "uninstall" /\ q.row = r
    BY <1>1, IdleTypes DEF PkgRequest, PkgPlaces, PkgInv, PkgTypes
  <2>2. /\ pcall' = [pcall EXCEPT ![c] = q] /\ UNCHANGED <<pkgRows, disk, nextRow>>
        /\ evaded' = (evaded \/ (r.system /\ r.name \in BaseDeps))
    BY <1>3 DEF BeginUninstall, Asks
  <2>3. evaded' \in BOOLEAN /\ (~evaded' => ~evaded)
    BY <1>6, <2>2, Zenon
  <2>4. ~evaded' => r.name \notin BaseDeps
    BY <2>2 DEF PkgInv, DependenciesAreKept
  <2> HIDE DEF q
  <2> QED BY <2>1, <2>2, <2>3, <2>4, BeginPkg
<1>4. ASSUME NEW r \in pkgRows, NEW flag \in BOOLEAN, BeginUpdate(c, m, r, flag) PROVE PkgInv'
  <2> DEFINE place == IF r.type = "Backend" /\ flag THEN "npm" ELSE "row"
             q == [PkgIdle EXCEPT !.at = place, !.on = m, !.kind = "update", !.row = r]
  <2>1. q \in PkgRequest /\ q.at \in {"npm", "row"} /\ q.kind = "update"
    BY <1>1, IdleTypes DEF PkgRequest, PkgPlaces, PkgInv, PkgTypes
  <2>2. pcall' = [pcall EXCEPT ![c] = q] /\ UNCHANGED <<pkgRows, disk, nextRow, evaded>>
    BY <1>4 DEF BeginUpdate, Asks
  <2> HIDE DEF q
  <2> QED BY <1>6, <2>1, <2>2, BeginPkg
<1>5. ASSUME BeginGet(c, m), UNCHANGED evaded PROVE PkgInv'
  <2> DEFINE q == [PkgIdle EXCEPT !.at = "reload", !.on = m, !.kind = "get"]
  <2>1. q \in PkgRequest /\ q.at = "reload" /\ q.kind = "get"
    BY <1>1, IdleTypes DEF PkgRequest, PkgPlaces
  <2>2. pcall' = [pcall EXCEPT ![c] = q] /\ UNCHANGED <<pkgRows, disk, nextRow>>
    BY <1>5 DEF BeginGet, Asks
  <2> HIDE DEF q
  <2> QED BY <1>5, <1>6, <2>1, <2>2, BeginPkg
<1> QED BY <1>2, <1>3, <1>4, <1>5
(***************************************************************************)
(* Checking tells what belongs to the system, unless package.json cannot   *)
(* be read.                                                                *)
(***************************************************************************)
LEMMA CheckPkg == ASSUME PkgInv, NEW c \in PkgCall, CheckInstalled(c) PROVE PkgInv'
<1> DEFINE r == pcall[c]
<1>1. r \in PkgRequest /\ r.at = "check" /\ r.kind = "install"
  BY DEF CheckInstalled, CallAt, PkgInv, PkgTypes, InstallsCheck
<1>2. PICK read \in BOOLEAN :
         LET there == r.row.name \in disk[r.on].listed
             listed == read /\ there
         IN /\ evaded' = (evaded \/ (there /\ ~read))
            /\ pcall' = [pcall EXCEPT ![c] =
                  [r EXCEPT !.row = [r.row EXCEPT !.system = listed],
                            !.at = IF listed \/ r.row.type = "App" THEN "require" ELSE "npm"]]
  BY DEF CheckInstalled
<1> DEFINE listed == read /\ r.row.name \in disk[r.on].listed
           row == [r.row EXCEPT !.system = listed]
           place == IF listed \/ r.row.type = "App" THEN "require" ELSE "npm"
           q == [r EXCEPT !.row = row, !.at = place]
<1>3. row \in TypedRow /\ row.name = r.row.name /\ row.system = listed
  <2>1. listed \in BOOLEAN
    OBVIOUS
  <2>2. r.row \in TypedRow
    BY <1>1 DEF PkgRequest
  <2> HIDE DEF listed, r
  <2> QED BY <2>1, <2>2 DEF TypedRow
<1>4. q \in PkgRequest /\ q.row = row /\ q.at \in {"npm", "require"} /\ q.kind = "install"
  <2> HIDE DEF row, r
  <2> QED BY <1>1, <1>3 DEF PkgRequest, PkgPlaces
<1>5. pcall' = [pcall EXCEPT ![c] = q] /\ UNCHANGED <<pkgRows, disk, nextRow>>
  BY <1>2 DEF CheckInstalled
<1>6. /\ evaded' \in BOOLEAN
      /\ ~evaded' => ~evaded /\ (r.row.name \in disk[r.on].listed => read)
  <2>1. evaded \in BOOLEAN
    BY DEF PkgInv, PkgTypes
  <2> QED BY <1>2, <2>1, Zenon
<1>7. ~evaded' => (q.row.name \in BaseDeps => q.row.system)
  <2>1. r.on \in Machine
    BY <1>1 DEF PkgRequest
  <2> QED BY <1>3, <1>4, <1>6, <2>1 DEF PkgInv, DependenciesAreKept, Guarded
<1> HIDE DEF q
<1> QED BY <1>4, <1>5, <1>6, <1>7 DEF PkgInv, PkgTypes, InstallsCheck, DependenciesAreKept, Guarded

(***************************************************************************)
(* The commands: what they add to or take from an instance.                *)
(***************************************************************************)
LEMMA WithAndWithout ==
    ASSUME PkgTypes, NEW m \in Machine, NEW n \in PkgName
    PROVE  /\ With(m, n) \in [Machine -> Disk] /\ Without(m, n) \in [Machine -> Disk]
           /\ \A k \in Machine : /\ disk[k].listed \subseteq With(m, n)[k].listed
                                 /\ disk[k].modules \subseteq With(m, n)[k].modules
                                 /\ disk[k].listed \ {n} \subseteq Without(m, n)[k].listed
                                 /\ disk[k].modules \ {n} \subseteq Without(m, n)[k].modules
<1>1. disk[m] \in Disk
  BY DEF PkgTypes
<1>2. \A L, M, R \in SUBSET PkgName : [listed |-> L, modules |-> M, required |-> R] \in Disk
  BY DEF Disk
<1>3. With(m, n) \in [Machine -> Disk] /\ Without(m, n) \in [Machine -> Disk]
  BY <1>1, <1>2 DEF With, Without, PkgTypes, Disk
<1> QED BY <1>1, <1>3 DEF With, Without, PkgTypes

LEMMA CommandPkg ==
    ASSUME PkgInv, NEW c \in PkgCall, UNCHANGED evaded,
           NpmInstall(c) \/ NpmUninstall(c) \/ RequirePackage(c)
    PROVE  PkgInv'
<1> DEFINE r == pcall[c]
<1>1. r \in PkgRequest /\ r.on \in Machine /\ r.row.name \in PkgName
  BY DEF PkgInv, PkgTypes, PkgRequest, TypedRow
<1>2. PkgTypes
  BY DEF PkgInv
<1>3. UNCHANGED <<pkgRows, nextRow>>
  BY DEF NpmInstall, NpmUninstall, RequirePackage
<1>4. /\ r.at \in {"npm", "require"} /\ (r.at = "require" => r.kind = "install")
      /\ \E place \in {"row", "idle", "require"} :
            Step(c, place) /\ (place = "require" => r.kind = "install")
  <2>1. CASE NpmInstall(c)
    BY <2>1 DEF NpmInstall, CallAt
  <2>2. CASE NpmUninstall(c)
    BY <2>2 DEF NpmUninstall, CallAt
  <2>3. CASE RequirePackage(c)
    BY <2>3 DEF RequirePackage, CallAt, PkgInv, InstallsCheck
  <2> QED BY <2>1, <2>2, <2>3
<1>5. /\ disk' \in [Machine -> Disk]
      /\ ~evaded =>
             \A m \in Machine : BaseDeps \subseteq disk'[m].listed \cap disk'[m].modules
  <2>1. ~evaded =>
           \A m \in Machine : BaseDeps \subseteq disk[m].listed \cap disk[m].modules
    BY DEF PkgInv, DependenciesAreKept
  <2>2. CASE disk' = disk
    BY <1>2, <2>1, <2>2 DEF PkgTypes
  <2>3. CASE disk' = With(r.on, r.row.name)
    BY <1>1, <1>2, <2>1, <2>3, WithAndWithout
  <2>4. CASE NpmUninstall(c) /\ disk' = Without(r.on, r.row.name)
    <3>1. ~evaded => r.row.name \notin BaseDeps
      BY <2>4 DEF NpmUninstall, CallAt, PkgInv, DependenciesAreKept, Guarded
    <3> HIDE DEF r
    <3> QED BY <1>1, <1>2, <2>1, <2>4, <3>1, WithAndWithout
  <2>5. CASE disk' = [disk EXCEPT ![r.on].required = @ \cup {r.row.name}]
    <3> HIDE DEF r
    <3> QED BY <1>1, <1>2, <2>1, <2>5 DEF PkgTypes, Disk
  <2> QED BY <2>2, <2>3, <2>4, <2>5 DEF NpmInstall, NpmUninstall, RequirePackage
<1>6. PICK place \in {"row", "idle", "require"} :
         Step(c, place) /\ (place = "require" => r.kind = "install")
  BY <1>4
<1>7. pcall' \in [PkgCall -> PkgRequest]
  BY <1>2, <1>6, StepPkgTypes DEF PkgPlaces
<1>8. CASE place = "idle"
  <2>1. pcall' = [pcall EXCEPT ![c] = PkgIdle] /\ PkgIdle.at = "idle"
    BY <1>6, <1>8 DEF Step, PkgIdle
  <2> HIDE DEF r
  <2> QED BY <1>2, <1>3, <1>5, <1>7, <2>1
      DEF PkgInv, PkgTypes, InstallsCheck, DependenciesAreKept, Guarded
<1>9. CASE place # "idle"
  <2> DEFINE q == [r EXCEPT !.at = place]
  <2>1. pcall' = [pcall EXCEPT ![c] = q]
    BY <1>6, <1>9 DEF Step
  <2>2. q.at = place /\ q.kind = r.kind /\ q.row = r.row
    <3> HIDE DEF r
    <3> QED BY <1>1 DEF PkgRequest
  <2> HIDE DEF q
  <2>3. InstallsCheck'
    BY <1>2, <1>6, <1>9, <2>1, <2>2 DEF PkgInv, PkgTypes, InstallsCheck
  <2>4. ~evaded => \A k \in PkgCall : Guarded(k)
    BY DEF PkgInv, DependenciesAreKept
  <2>5. ~evaded => \A k \in PkgCall : Guarded(k)'
    BY <1>2, <1>4, <1>6, <1>9, <2>1, <2>2, <2>4 DEF Guarded, PkgTypes
  <2> QED BY <1>2, <1>3, <1>5, <1>7, <2>3, <2>5 DEF PkgInv, PkgTypes, DependenciesAreKept
<1> QED BY <1>8, <1>9

(***************************************************************************)
(* A request that goes on after its row is written asks for nothing more.  *)
(***************************************************************************)
LEMMA MovePkg ==
    ASSUME PkgInv, NEW c \in PkgCall,
           NEW place \in {"idle", "reload", "load", "publish", "save"}, Step(c, place)
    PROVE  /\ pcall' \in [PkgCall -> PkgRequest] /\ InstallsCheck'
           /\ ~evaded => \A k \in PkgCall : Guarded(k)'
<1> DEFINE r == pcall[c]
           q == IF place = "idle" THEN PkgIdle ELSE [r EXCEPT !.at = place]
<1>1. PkgTypes /\ r \in PkgRequest
  BY DEF PkgInv, PkgTypes
<1>2. pcall' = [pcall EXCEPT ![c] = q]
  BY DEF Step
<1>3. q.at = place
  <2> HIDE DEF r
  <2> QED BY <1>1 DEF PkgRequest, PkgIdle
<1>4. pcall' \in [PkgCall -> PkgRequest]
  BY <1>1, StepPkgTypes DEF PkgPlaces
<1> HIDE DEF q
<1>5. \A k \in PkgCall : pcall'[k] = IF k = c THEN q ELSE pcall[k]
  BY <1>1, <1>2 DEF PkgTypes
<1>6. InstallsCheck'
  BY <1>3, <1>5 DEF PkgInv, InstallsCheck
<1>7. ASSUME ~evaded, NEW k \in PkgCall PROVE Guarded(k)'
  <2>1. Guarded(k) /\ Guarded(c)
    BY <1>7 DEF PkgInv, DependenciesAreKept
  <2> QED BY <1>3, <1>5, <2>1 DEF Guarded
<1> QED BY <1>4, <1>6, <1>7

(***************************************************************************)
(* Rows: a new one is of the system when it has to be, an edited one that  *)
(* is not is told of, and a deleted one is just gone.                      *)
(***************************************************************************)
LEMMA WritePkg ==
    ASSUME PkgInv, NEW c \in PkgCall,
           ChangeRow(c) \/ ((SavePackage(c) \/ DeleteRow(c)) /\ UNCHANGED evaded)
    PROVE  PkgInv'
<1> DEFINE r == pcall[c]
           q == [PkgIdle EXCEPT !.at = "reload", !.on = r.on]
<1>1. PkgTypes /\ r \in PkgRequest /\ r.row \in TypedRow
  BY DEF PkgInv, PkgTypes, PkgRequest
<1>2. pcall' = [pcall EXCEPT ![c] = q] /\ UNCHANGED disk /\ r.at = "row"
  BY DEF SavePackage, ChangeRow, DeleteRow, Written, CallAt
<1>3. q \in PkgRequest /\ q.at = "reload"
  <2> HIDE DEF r
  <2> QED BY <1>1, IdleTypes DEF PkgRequest, PkgPlaces
<1>4. /\ pcall' \in [PkgCall -> PkgRequest] /\ InstallsCheck'
      /\ ~evaded => \A k \in PkgCall : Guarded(k)'
  <2> HIDE DEF q
  <2>1. \A k \in PkgCall : pcall'[k] = IF k = c THEN q ELSE pcall[k]
    BY <1>1, <1>2 DEF PkgTypes
  <2> QED BY <1>1, <1>2, <1>3, <2>1
      DEF PkgInv, PkgTypes, InstallsCheck, DependenciesAreKept, Guarded
<1>5. ~evaded => /\ \A s \in pkgRows : s.name \in BaseDeps => s.system
                 /\ Guarded(c)
  BY DEF PkgInv, DependenciesAreKept
<1> HIDE DEF q
<1>6. /\ pkgRows' \subseteq TypedRow /\ nextRow' \in Nat
      /\ evaded' \in BOOLEAN /\ (~evaded' => ~evaded)
      /\ ~evaded' => \A s \in pkgRows' : s.name \in BaseDeps => s.system
  <2>1. CASE SavePackage(c) /\ UNCHANGED evaded
    <3> DEFINE s == Saved(r.row)
    <3>1. s \in TypedRow /\ s.name = r.row.name /\ s.system = r.row.system
      <4> HIDE DEF r
      <4> QED BY <1>1 DEF Saved, TypedRow, PkgTypes
    <3>2. pkgRows' = pkgRows \cup {s} /\ nextRow' = nextRow + 1 /\ r.kind = "install"
      BY <2>1 DEF SavePackage
    <3>3. ~evaded => (s.name \in BaseDeps => s.system)
      BY <1>2, <1>5, <3>1, <3>2 DEF Guarded
    <3> HIDE DEF s
    <3> QED BY <1>1, <1>5, <2>1, <3>1, <3>2, <3>3 DEF PkgTypes
  <2>2. CASE ChangeRow(c)
    <3>5. PICK s \in StillThere(c) : \E e \in Edited(s) :
              /\ pkgRows' = (pkgRows \ {s}) \cup {e}
              /\ evaded' = (evaded \/ (e.name \in BaseDeps /\ ~e.system))
      BY <2>2 DEF ChangeRow
    <3>1. PICK e \in Edited(s) :
              /\ pkgRows' = (pkgRows \ {s}) \cup {e}
              /\ evaded' = (evaded \/ (e.name \in BaseDeps /\ ~e.system))
      BY <3>5
    <3>2. e \in TypedRow
      BY DEF Edited, PkgRow, TypedRow
    <3>3. UNCHANGED nextRow
      BY <2>2 DEF ChangeRow
    <3>4. evaded' \in BOOLEAN /\ (~evaded' => ~evaded /\ (e.name \in BaseDeps => e.system))
      BY <1>1, <3>1, Zenon DEF PkgTypes
    <3> HIDE DEF r
    <3> QED BY <1>1, <1>5, <3>1, <3>2, <3>3, <3>4 DEF PkgTypes
  <2>3. CASE DeleteRow(c) /\ UNCHANGED evaded
    <3>1. pkgRows' \subseteq pkgRows /\ UNCHANGED nextRow
      BY <2>3 DEF DeleteRow
    <3> QED BY <1>1, <1>5, <2>3, <3>1 DEF PkgTypes
  <2> QED BY <2>1, <2>2, <2>3
<1>7. ~evaded' => \A m \in Machine : BaseDeps \subseteq disk'[m].listed \cap disk'[m].modules
  BY <1>2, <1>6 DEF PkgInv, DependenciesAreKept
<1> HIDE DEF r
<1> QED BY <1>1, <1>2, <1>4, <1>6, <1>7 DEF PkgInv, PkgTypes, DependenciesAreKept

(***************************************************************************)
(* The reload of the list, and a statement that fails.                     *)
(***************************************************************************)
LEMMA ReloadPkg ==
    ASSUME PkgInv, NEW c \in PkgCall, UNCHANGED evaded,
           \/ WriteFails(c) \/ BeginReload(c) \/ LoadPackages(c)
           \/ PublishList(c) \/ SaveList(c)
    PROVE  PkgInv'
<1> DEFINE r == pcall[c]
<1>1. PkgTypes /\ UNCHANGED <<pkgRows, disk, nextRow>>
  BY DEF WriteFails, BeginReload, LoadPackages, PublishList, SaveList, PkgInv, NoReload
<1>2. CASE \E place \in {"idle", "reload", "load", "publish", "save"} : Step(c, place)
  BY <1>1, <1>2, MovePkg DEF PkgInv, PkgTypes, DependenciesAreKept
<1>3. CASE pcall' = [pcall EXCEPT ![c] = [@ EXCEPT !.list = Listed, !.at = "publish"]]
  <2> DEFINE q == [r EXCEPT !.list = Listed, !.at = "publish"]
  <2>1. r \in PkgRequest /\ Listed \subseteq PkgName
    BY <1>1, ListedTypes DEF PkgTypes
  <2>2. q \in PkgRequest /\ q.at = "publish"
    <3> HIDE DEF r
    <3> QED BY <2>1 DEF PkgRequest, PkgPlaces
  <2>3. pcall' = [pcall EXCEPT ![c] = q]
    BY <1>3
  <2> HIDE DEF q, r
  <2> QED BY <1>1, <2>2, <2>3
      DEF PkgInv, PkgTypes, InstallsCheck, DependenciesAreKept, Guarded
<1> QED BY <1>2, <1>3 DEF WriteFails, BeginReload, LoadPackages, PublishList, SaveList

LEMMA NextPkg == PkgInv /\ [PackagesNext]_pkgVars => PkgInv'
<1> SUFFICES ASSUME PkgInv, [PackagesNext]_pkgVars PROVE PkgInv'
  OBVIOUS
<1>1. CASE UNCHANGED pkgVars
  BY <1>1 DEF pkgVars, PkgInv, PkgTypes, InstallsCheck, DependenciesAreKept, Guarded
<1>2. ASSUME NEW m \in Machine, ReceiveList(m), UNCHANGED evaded PROVE PkgInv'
  <2>1. UNCHANGED <<pkgRows, disk, pcall, nextRow, evaded>>
    BY <1>2 DEF ReceiveList
  <2> QED BY <2>1 DEF PkgInv, PkgTypes, InstallsCheck, DependenciesAreKept, Guarded
<1>3. CASE PackagesNext
  BY <1>2, <1>3, BeginningsPkg, CheckPkg, CommandPkg, WritePkg, ReloadPkg DEF PackagesNext
<1> QED BY <1>1, <1>3

(***************************************************************************)
(* In every execution what the server itself depends on stays installed on *)
(* every instance, whatever packages are registered, changed and removed   *)
(* and in whatever order, until the check of isSystem has been passed by   *)
(* for such a package: package.json not read, a PATCH that leaves its name *)
(* on an unmarked row, a DELETE that has not read the mark                 *)
(* (installPackage(), updatePackage(), uninstallPackage()).                *)
(***************************************************************************)
THEOREM DependenciesStay == PackagesSpec => []ServerDependenciesStay
<1>1. PkgInv => ServerDependenciesStay
  BY DEF PkgInv, DependenciesAreKept, ServerDependenciesStay
<1> QED BY <1>1, InitPkg, NextPkg, PTL DEF PackagesSpec
-----------------------------------------------------------------------------
\* The lists.  What is on its way to an instance ends with the last list that
\* was published, and what is published is what the database has, unless a
\* request that has changed it is still to reload.

Reloading == {"load", "publish", "save"}

IdsAreOld == /\ nextRow \in 1 .. MaxRows + 1
             /\ \A r \in pkgRows : r.id \in 1 .. nextRow - 1
             /\ \A r, s \in pkgRows : r.id = s.id => r = s

ListTypes ==
    /\ mail \in [Machine -> Seq(SUBSET PkgName)]
    /\ names \in [Machine -> [list : SUBSET PkgName, loaded : BOOLEAN]]
    /\ pkgLock \in PkgCall \cup {NoCall} /\ lastFrom \subseteq Machine /\ skipped \in BOOLEAN
    /\ {asked, troubles} \subseteq Nat

OneReloads ==
    \A c \in PkgCall : /\ pcall[c].at \in Reloading => pkgLock = c
                       /\ pcall[c].at = "save" => lastFrom = {pcall[c].on}

ChangesAhead == \E c \in PkgCall : pcall[c].at = "reload" /\ pcall[c].kind # "get"
ListAhead == \E c \in PkgCall : pcall[c].at \in {"load", "publish"}

CarriesListed ==
    ~skipped => \A c \in PkgCall :
                   pcall[c].at \in {"publish", "save"} => pcall[c].list = Listed \/ ChangesAhead

EndsWithListed(m) ==
    /\ mail[m] # <<>> => mail[m][Len(mail[m])] = Listed
    /\ mail[m] = <<>> /\ names[m].loaded => names[m].list = Listed

ListsAgree ==
    (~skipped /\ ~ChangesAhead /\ ~ListAhead) => \A m \in Machine \ lastFrom : EndsWithListed(m)

ListInv == IdsAreOld /\ ListTypes /\ OneReloads /\ CarriesListed /\ ListsAgree

LEMMA InitList == PackagesInit => ListInv
<1> SUFFICES ASSUME PackagesInit PROVE ListInv
  OBVIOUS
<1>1. skipped = FALSE /\ skipped \in BOOLEAN
  BY Zenon DEF PackagesInit
<1>2. IdsAreOld
  BY PackagesAssumption DEF PackagesInit, IdsAreOld
<1>3. ListTypes
  BY <1>1 DEF PackagesInit, ListTypes
<1>4. OneReloads /\ CarriesListed
  BY DEF PackagesInit, OneReloads, CarriesListed, Reloading, PkgIdle
<1>5. ListsAgree
  BY DEF PackagesInit, ListsAgree, EndsWithListed
<1> QED BY <1>2, <1>3, <1>4, <1>5 DEF ListInv

(***************************************************************************)
(* What Step does to the requests.                                         *)
(***************************************************************************)
LEMMA PkgStepIs ==
    ASSUME PkgTypes, NEW c \in PkgCall, NEW place \in PkgPlaces, Step(c, place)
    PROVE  /\ \A k \in PkgCall : k # c => pcall'[k] = pcall[k]
           /\ pcall'[c].at = place
           /\ place # "idle" => /\ pcall'[c].kind = pcall[c].kind /\ pcall'[c].on = pcall[c].on
                                /\ pcall'[c].list = pcall[c].list
<1>1. pcall \in [PkgCall -> PkgRequest] /\ PkgIdle.at = "idle"
  BY DEF PkgTypes, PkgIdle
<1>2. pcall[c] \in PkgRequest /\ \A r \in PkgRequest : /\ [r EXCEPT !.at = place].at = place
                                                /\ [r EXCEPT !.at = place].kind = r.kind
                                                /\ [r EXCEPT !.at = place].on = r.on
                                                /\ [r EXCEPT !.at = place].list = r.list
  BY <1>1 DEF PkgRequest
<1> QED BY <1>1, <1>2 DEF Step

(***************************************************************************)
(* A step that leaves rows and lists alone, of a request that does not     *)
(* reload and will not with this step.                                     *)
(***************************************************************************)
LEMMA AsideList ==
    ASSUME PkgTypes, ListInv, UNCHANGED <<pkgRows, names, mail, pkgLock, skipped, lastFrom, nextRow>>,
           {asked', troubles'} \subseteq Nat, NEW c \in PkgCall,
           \A k \in PkgCall : k # c => pcall'[k] = pcall[k],
           pcall[c].at \notin Reloading \cup {"reload"}, pcall'[c].at \notin Reloading
    PROVE  ListInv'
<1>1. Listed' = Listed
  BY DEF Listed
<1>2. ChangesAhead => ChangesAhead'
  BY DEF ChangesAhead
<1>3. ListAhead => ListAhead'
  BY DEF ListAhead, Reloading
<1>4. IdsAreOld' /\ ListTypes'
  BY DEF ListInv, IdsAreOld, ListTypes
<1>5. OneReloads'
  BY DEF ListInv, OneReloads, Reloading
<1>6. CarriesListed'
  BY <1>1, <1>2 DEF ListInv, CarriesListed, Reloading
<1>7. ListsAgree'
  BY <1>1, <1>2, <1>3 DEF ListInv, ListsAgree, EndsWithListed
<1> QED BY <1>4, <1>5, <1>6, <1>7 DEF ListInv

(***************************************************************************)
(* A request that has written its row is to reload.                        *)
(***************************************************************************)
LEMMA WrittenList ==
    ASSUME PkgTypes, ListInv, NEW c \in PkgCall, SavePackage(c) \/ ChangeRow(c) \/ DeleteRow(c)
    PROVE  ListInv'
<1>1. /\ pcall' = [pcall EXCEPT ![c] = [PkgIdle EXCEPT !.at = "reload", !.on = pcall[c].on]]
      /\ pcall[c].at = "row"
      /\ UNCHANGED <<names, mail, pkgLock, skipped, lastFrom, asked, troubles>>
  BY DEF SavePackage, ChangeRow, DeleteRow, Written, CallAt, NoReload, Fine
<1>2. /\ \A k \in PkgCall : k # c => pcall'[k] = pcall[k]
      /\ pcall'[c].at = "reload" /\ pcall'[c].kind # "get"
  BY <1>1 DEF PkgTypes, PkgIdle
<1>3. ChangesAhead'
  BY <1>2 DEF ChangesAhead
<1>4. ListTypes' /\ OneReloads' /\ CarriesListed' /\ ListsAgree'
  BY <1>1, <1>2, <1>3 DEF ListInv, ListTypes, OneReloads, CarriesListed, ListsAgree, Reloading
<1>5. IdsAreOld'
  <2>1. CASE SavePackage(c)
    <3>1. /\ pkgRows' = pkgRows \cup {Saved(pcall[c].row)} /\ nextRow' = nextRow + 1
          /\ nextRow <= MaxRows
      BY <2>1 DEF SavePackage
    <3>2. pcall[c].row \in TypedRow
      BY DEF PkgTypes, PkgRequest
    <3>3. Saved(pcall[c].row).id = nextRow
      BY <3>2 DEF Saved, TypedRow
    <3>4. MaxRows \in Nat
      BY PackagesAssumption
    <3> DEFINE s == Saved(pcall[c].row)
    <3> HIDE DEF s
    <3>5. pkgRows' = pkgRows \cup {s} /\ s.id = nextRow
      BY <3>1, <3>3 DEF s
    <3> QED BY <3>1, <3>4, <3>5 DEF ListInv, IdsAreOld
  <2>2. CASE ChangeRow(c)
    <3>3. PICK r \in StillThere(c) : \E e \in Edited(r) : pkgRows' = (pkgRows \ {r}) \cup {e}
      BY <2>2 DEF ChangeRow
    <3>1. PICK e \in Edited(r) : pkgRows' = (pkgRows \ {r}) \cup {e}
      BY <3>3
    <3>2. r \in pkgRows /\ e.id = r.id
      BY DEF StillThere, Edited
    <3> QED BY <2>2, <3>1, <3>2 DEF ChangeRow, ListInv, IdsAreOld
  <2>3. CASE DeleteRow(c)
    BY <2>3 DEF DeleteRow, ListInv, IdsAreOld
  <2> QED BY <2>1, <2>2, <2>3
<1> QED BY <1>4, <1>5 DEF ListInv

LEMMA ReloadList ==
    ASSUME PkgTypes, ListInv, NEW c \in PkgCall, BeginReload(c) \/ LoadPackages(c)
    PROVE  ListInv'
<1>1. UNCHANGED <<pkgRows, names, mail, lastFrom, nextRow, asked>> /\ troubles' \in Nat
  BY DEF BeginReload, LoadPackages, Fine, Trouble, ListInv, ListTypes
<1>2. Listed' = Listed /\ IdsAreOld'
  BY <1>1 DEF Listed, ListInv, IdsAreOld
<1>3. c # NoCall /\ skipped \in BOOLEAN
  BY PackagesAssumption DEF ListInv, ListTypes
<1>4. CASE BeginReload(c) /\ CanReload
  <2>1. /\ pkgLock = NoCall /\ pkgLock' = c /\ Step(c, "load") /\ UNCHANGED skipped
    BY <1>4 DEF BeginReload, CanReload
  <2>2. \A k \in PkgCall : k # c => pcall'[k] = pcall[k] /\ pcall[k].at \notin Reloading
    <3>1. \A k \in PkgCall : pcall[k].at \notin Reloading
      BY <2>1, PackagesAssumption DEF ListInv, OneReloads
    <3> QED BY <2>1, <3>1, PkgStepIs DEF PkgPlaces
  <2>3. pcall'[c].at = "load"
    BY <2>1, PkgStepIs DEF PkgPlaces
  <2>4. ListAhead'
    BY <2>3 DEF ListAhead
  <2>5. ListTypes' /\ OneReloads' /\ CarriesListed' /\ ListsAgree'
    BY <1>1, <2>1, <2>2, <2>3, <2>4
       DEF ListInv, ListTypes, OneReloads, CarriesListed, ListsAgree, Reloading
  <2> QED BY <1>2, <2>5 DEF ListInv
<1>5. CASE BeginReload(c) /\ ~CanReload
  <2>1. /\ pcall[c].at = "reload" /\ Step(c, "idle") /\ UNCHANGED pkgLock
        /\ skipped' = (skipped \/ pcall[c].kind # "get")
    BY <1>5 DEF BeginReload, CallAt
  <2>2. (\A k \in PkgCall : k # c => pcall'[k] = pcall[k]) /\ pcall'[c].at = "idle"
    BY <2>1, PkgStepIs DEF PkgPlaces
  <2>3. skipped' \in BOOLEAN /\ (~skipped' => ~skipped /\ pcall[c].kind = "get")
    BY <1>3, <2>1
  <2>4. ~skipped' => (ChangesAhead <=> ChangesAhead') /\ (ListAhead <=> ListAhead')
    BY <2>1, <2>2, <2>3 DEF ChangesAhead, ListAhead
  <2>5. ListTypes' /\ OneReloads'
    BY <1>1, <2>1, <2>2, <2>3 DEF ListInv, ListTypes, OneReloads, Reloading
  <2>6. CarriesListed'
    BY <1>2, <2>2, <2>3, <2>4 DEF ListInv, CarriesListed
  <2>7. ListsAgree'
    BY <1>1, <1>2, <2>3, <2>4 DEF ListInv, ListsAgree, EndsWithListed
  <2> QED BY <1>2, <2>5, <2>6, <2>7 DEF ListInv
<1>6. CASE pcall' = [pcall EXCEPT ![c] = [@ EXCEPT !.list = Listed, !.at = "publish"]]
             /\ UNCHANGED <<pkgLock, skipped>> /\ pcall[c].at = "load"
  <2>1. /\ \A k \in PkgCall : k # c => pcall'[k] = pcall[k]
        /\ pcall'[c].at = "publish" /\ pcall'[c].list = Listed
    BY <1>6 DEF PkgTypes, PkgRequest
  <2>2. ListAhead' /\ (ChangesAhead => ChangesAhead')
    BY <1>6, <2>1 DEF ListAhead, ChangesAhead
  <2>3. ListTypes' /\ OneReloads' /\ ListsAgree'
    BY <1>1, <1>6, <2>1, <2>2 DEF ListInv, ListTypes, OneReloads, ListsAgree, Reloading
  <2>4. CarriesListed'
    BY <1>2, <1>6, <2>1, <2>2 DEF ListInv, CarriesListed
  <2> QED BY <1>2, <2>3, <2>4 DEF ListInv
<1>7. CASE Step(c, "idle") /\ pkgLock' = NoCall /\ skipped' = TRUE /\ pcall[c].at = "load"
  <2>1. (\A k \in PkgCall : k # c => pcall'[k] = pcall[k]) /\ pcall'[c].at = "idle"
    BY <1>7, PkgStepIs DEF PkgPlaces
  <2>2. skipped' /\ skipped' \in BOOLEAN
    BY <1>7, Zenon
  <2>3. \A k \in PkgCall : pcall'[k].at \notin Reloading
    BY <1>7, <2>1 DEF ListInv, OneReloads, Reloading
  <2>4. ListTypes' /\ OneReloads'
    BY <1>1, <1>7, <2>2, <2>3 DEF ListInv, ListTypes, OneReloads, Reloading
  <2>5. CarriesListed' /\ ListsAgree'
    BY <2>2 DEF CarriesListed, ListsAgree
  <2> QED BY <1>2, <2>4, <2>5 DEF ListInv
<1> QED BY <1>4, <1>5, <1>6, <1>7 DEF LoadPackages, CallAt

LEMMA PublishedList ==
    ASSUME PkgTypes, ListInv, NEW c \in PkgCall, PublishList(c)
    PROVE  ListInv'
<1> DEFINE on == pcall[c].on
           list == pcall[c].list
<1>1. /\ pcall[c].at = "publish" /\ lastFrom' = {on} /\ Step(c, "save")
      /\ UNCHANGED <<pkgRows, names, pkgLock, nextRow, asked>> /\ troubles' \in Nat
      /\ \/ /\ mail' = [m \in Machine |-> IF m = on THEN mail[m] ELSE Append(mail[m], list)]
            /\ UNCHANGED skipped
         \/ skipped' = TRUE /\ UNCHANGED mail
  BY DEF PublishList, CallAt, Fine, Trouble, ListInv, ListTypes
<1>2. /\ \A k \in PkgCall : k # c => pcall'[k] = pcall[k] /\ pcall'[k].at \notin Reloading
      /\ pcall'[c].at = "save" /\ pcall'[c].on = on /\ pcall'[c].list = list
      /\ on \in Machine /\ list \in SUBSET PkgName
  <2>1. \A k \in PkgCall : k # c => pcall[k].at \notin Reloading
    BY <1>1 DEF ListInv, OneReloads, Reloading
  <2> QED BY <1>1, <2>1, PkgStepIs DEF PkgPlaces, PkgTypes, PkgRequest
<1>3. Listed' = Listed /\ IdsAreOld'
  BY <1>1 DEF Listed, ListInv, IdsAreOld
<1>4. ChangesAhead <=> ChangesAhead'
  BY <1>1, <1>2 DEF ChangesAhead
<1>5. skipped' \in BOOLEAN /\ (~skipped' => ~skipped /\ (list = Listed \/ ChangesAhead))
  <2>1. CASE UNCHANGED skipped
    BY <1>1, <2>1 DEF ListInv, ListTypes, CarriesListed
  <2>2. CASE skipped' = TRUE
    BY <2>2, Zenon
  <2> QED BY <1>1, <2>1, <2>2
<1> HIDE DEF on, list
<1>6. mail' \in [Machine -> Seq(SUBSET PkgName)]
  <2>1. mail \in [Machine -> Seq(SUBSET PkgName)]
    BY DEF ListInv, ListTypes
  <2>2. \A m \in Machine : Append(mail[m], list) \in Seq(SUBSET PkgName)
    BY <1>2, <2>1
  <2> QED BY <1>1, <2>1, <2>2
<1>7. ListTypes' /\ OneReloads'
  BY <1>1, <1>2, <1>5, <1>6 DEF ListInv, ListTypes, OneReloads, Reloading
<1>8. CarriesListed'
  BY <1>2, <1>3, <1>4, <1>5 DEF CarriesListed, Reloading
<1>9. ListsAgree'
  <2> SUFFICES ASSUME ~skipped', ~ChangesAhead, NEW m \in Machine, m # on PROVE EndsWithListed(m)'
    BY <1>1, <1>4 DEF ListsAgree
  <2>1. list = Listed /\ mail'[m] = Append(mail[m], list)
    <3>1. skipped' # TRUE
      BY Zenon
    <3> QED BY <1>1, <1>5, <3>1
  <2>2. mail[m] \in Seq(SUBSET PkgName)
    BY DEF ListInv, ListTypes
  <2>3. mail'[m] # <<>> /\ mail'[m][Len(mail'[m])] = list
    BY <1>2, <2>1, <2>2
  <2> QED BY <1>3, <2>1, <2>3 DEF EndsWithListed
<1> QED BY <1>3, <1>7, <1>8, <1>9 DEF ListInv

LEMMA SavedList ==
    ASSUME PkgTypes, ListInv, NEW c \in PkgCall, SaveList(c)
    PROVE  ListInv'
<1> DEFINE on == pcall[c].on
           list == pcall[c].list
<1>1. /\ pcall[c].at = "save" /\ Step(c, "idle") /\ pkgLock' = NoCall
      /\ names' = [names EXCEPT ![on] = [list |-> list, loaded |-> TRUE]]
      /\ UNCHANGED <<pkgRows, mail, skipped, lastFrom, nextRow, asked, troubles>>
  BY DEF SaveList, CallAt, Fine
<1>2. /\ \A k \in PkgCall : k # c => pcall'[k] = pcall[k]
      /\ pcall'[c].at = "idle" /\ on \in Machine /\ list \in SUBSET PkgName /\ lastFrom = {on}
  BY <1>1, PkgStepIs DEF PkgPlaces, PkgTypes, PkgRequest, ListInv, OneReloads
<1>3. \A k \in PkgCall : pcall'[k].at \notin Reloading
  BY <1>1, <1>2 DEF ListInv, OneReloads, Reloading
<1>4. Listed' = Listed /\ IdsAreOld'
  BY <1>1 DEF Listed, ListInv, IdsAreOld
<1>5. (ChangesAhead <=> ChangesAhead') /\ (ListAhead <=> ListAhead')
  BY <1>1, <1>2 DEF ChangesAhead, ListAhead
<1> HIDE DEF on, list
<1>6. names' \in [Machine -> [list : SUBSET PkgName, loaded : BOOLEAN]]
  <2>1. [list |-> list, loaded |-> TRUE] \in [list : SUBSET PkgName, loaded : BOOLEAN]
    BY <1>2
  <2> DEFINE n == [list |-> list, loaded |-> TRUE]
  <2> HIDE DEF n
  <2>2. n \in [list : SUBSET PkgName, loaded : BOOLEAN] /\ names' = [names EXCEPT ![on] = n]
    BY <1>1, <2>1 DEF n
  <2> QED BY <1>2, <2>2 DEF ListInv, ListTypes
<1>7. ListTypes' /\ OneReloads' /\ CarriesListed'
  BY <1>1, <1>3, <1>6 DEF ListInv, ListTypes, OneReloads, CarriesListed, Reloading
<1>8. ListsAgree'
  <2>1. \A m \in Machine \ lastFrom : names'[m] = names[m]
    BY <1>1, <1>2 DEF ListInv, ListTypes
  <2> QED BY <1>1, <1>4, <1>5, <2>1 DEF ListInv, ListsAgree, EndsWithListed
<1> QED BY <1>4, <1>7, <1>8 DEF ListInv

LEMMA ReceivedList ==
    ASSUME PkgTypes, ListInv, NEW m \in Machine, ReceiveList(m)
    PROVE  ListInv'
<1> DEFINE q == mail[m]
<1>1. /\ q # <<>> /\ q \in Seq(SUBSET PkgName)
      /\ names' = [names EXCEPT ![m] = [list |-> Head(q), loaded |-> TRUE]]
      /\ mail' = [mail EXCEPT ![m] = Tail(q)]
      /\ UNCHANGED <<pkgRows, pkgLock, pcall, skipped, lastFrom, nextRow, asked, troubles>>
  BY DEF ReceiveList, Fine, ListInv, ListTypes
<1>2. /\ Head(q) \in SUBSET PkgName /\ Tail(q) \in Seq(SUBSET PkgName)
      /\ Tail(q) # <<>> => Tail(q)[Len(Tail(q))] = q[Len(q)]
      /\ Tail(q) = <<>> => Head(q) = q[Len(q)]
  <2> HIDE DEF q
  <2>1. /\ Head(q) = q[1] /\ Len(q) \in Nat \ {0} /\ Len(Tail(q)) = Len(q) - 1
        /\ \A k \in 1 .. Len(Tail(q)) : Tail(q)[k] = q[k + 1]
        /\ Head(q) \in SUBSET PkgName /\ Tail(q) \in Seq(SUBSET PkgName)
    BY <1>1
  <2>2. ASSUME Tail(q) # <<>> PROVE Tail(q)[Len(Tail(q))] = q[Len(q)]
    <3>1. Len(Tail(q)) \in Nat \ {0}
      BY <2>1, <2>2
    <3> QED BY <2>1, <3>1
  <2>3. ASSUME Tail(q) = <<>> PROVE Head(q) = q[Len(q)]
    <3>1. Len(Tail(q)) = 0
      <4>1. Len(<<>>) = 0
        OBVIOUS
      <4> QED BY <2>3, <4>1
    <3>2. Len(q) = 1
      <4> DEFINE n == Len(q)
                 l == Len(Tail(q))
      <4>1. n \in Nat /\ l = n - 1 /\ l = 0
        BY <2>1, <3>1
      <4> HIDE DEF n, l
      <4>2. n = 1
        BY <4>1
      <4> QED BY <4>2 DEF n
    <3> QED BY <2>1, <3>2
  <2> QED BY <2>1, <2>2, <2>3
<1> HIDE DEF q
<1>3. Listed' = Listed /\ IdsAreOld'
  BY <1>1 DEF Listed, ListInv, IdsAreOld
<1>4. (ChangesAhead <=> ChangesAhead') /\ (ListAhead <=> ListAhead')
  BY <1>1 DEF ChangesAhead, ListAhead
<1>5. /\ names' \in [Machine -> [list : SUBSET PkgName, loaded : BOOLEAN]]
      /\ \A k \in Machine : k # m => names'[k] = names[k] /\ mail'[k] = mail[k]
      /\ names'[m].list = Head(q) /\ mail'[m] = Tail(q)
      /\ mail' \in [Machine -> Seq(SUBSET PkgName)]
  <2> DEFINE n == [list |-> Head(q), loaded |-> TRUE]
  <2>1. n \in [list : SUBSET PkgName, loaded : BOOLEAN] /\ n.list = Head(q)
    BY <1>2
  <2>2. names' = [names EXCEPT ![m] = n]
    BY <1>1
  <2> HIDE DEF n
  <2> QED BY <1>1, <1>2, <2>1, <2>2 DEF ListInv, ListTypes
<1>6. ListTypes' /\ OneReloads' /\ CarriesListed'
  BY <1>1, <1>3, <1>4, <1>5 DEF ListInv, ListTypes, OneReloads, CarriesListed
<1>7. ListsAgree'
  <2> SUFFICES ASSUME NEW k \in Machine, EndsWithListed(k) PROVE EndsWithListed(k)'
    BY <1>1, <1>4 DEF ListInv, ListsAgree
  <2>1. CASE k # m
    BY <1>3, <1>5, <2>1 DEF EndsWithListed
  <2>2. CASE k = m
    BY <1>1, <1>2, <1>3, <1>5, <2>2 DEF EndsWithListed, q
  <2> QED BY <2>1, <2>2
<1> QED BY <1>3, <1>6, <1>7 DEF ListInv

LEMMA NextList == PkgInv /\ ListInv /\ [PackagesNext]_pkgVars => ListInv'
<1> SUFFICES ASSUME PkgInv, ListInv, [PackagesNext]_pkgVars PROVE ListInv'
  OBVIOUS
<1>1. PkgTypes /\ pcall \in [PkgCall -> PkgRequest] /\ {asked, troubles} \subseteq Nat
  BY DEF PkgInv, PkgTypes, ListInv, ListTypes
<1>2. ASSUME NEW c \in PkgCall, NEW m \in Machine,
             \/ \E n \in PkgName, type \in Types : BeginInstall(c, m, n, type)
             \/ \E r \in pkgRows, flag \in BOOLEAN : \/ BeginUninstall(c, m, r, flag)
                                                  \/ BeginUpdate(c, m, r, flag)
             \/ BeginGet(c, m)
      PROVE  ListInv'
  <2>1. /\ pcall[c].at = "idle"
        /\ UNCHANGED <<pkgRows, names, mail, pkgLock, skipped, lastFrom, nextRow>>
        /\ asked' = asked + 1 /\ troubles' = troubles
    BY <1>2 DEF BeginInstall, BeginUninstall, BeginUpdate, BeginGet, CallAt, Asks, Fine, NoReload
  <2>2. \E q : pcall' = [pcall EXCEPT ![c] = q] /\ q.at \notin Reloading
    <3>1. ASSUME NEW n \in PkgName, NEW type \in Types, BeginInstall(c, m, n, type)
          PROVE  \E q : pcall' = [pcall EXCEPT ![c] = q] /\ q.at \notin Reloading
      <4> DEFINE row == [NoRow EXCEPT !.name = n, !.type = type, !.enabled = TRUE]
                 q == [PkgIdle EXCEPT !.at = "check", !.on = m, !.row = row]
      <4>1. pcall' = [pcall EXCEPT ![c] = q]
        BY <3>1 DEF BeginInstall, Asks
      <4>2. q.at = "check"
        <5> HIDE DEF row
        <5> QED BY DEF PkgIdle
      <4> HIDE DEF q
      <4> QED BY <4>1, <4>2 DEF Reloading
    <3>2. ASSUME NEW r \in pkgRows, NEW flag \in BOOLEAN, BeginUninstall(c, m, r, flag)
          PROVE  \E q : pcall' = [pcall EXCEPT ![c] = q] /\ q.at \notin Reloading
      <4> DEFINE place == IF r.type = "Backend" THEN "npm" ELSE "row"
                 q == [PkgIdle EXCEPT !.at = place, !.on = m, !.kind = "uninstall", !.row = r,
                                      !.whole = flag]
      <4>1. pcall' = [pcall EXCEPT ![c] = q]
        BY <3>2 DEF BeginUninstall, Asks
      <4>2. q.at \in {"npm", "row"}
        BY DEF PkgIdle
      <4> HIDE DEF q
      <4> QED BY <4>1, <4>2 DEF Reloading
    <3>3. ASSUME NEW r \in pkgRows, NEW flag \in BOOLEAN, BeginUpdate(c, m, r, flag)
          PROVE  \E q : pcall' = [pcall EXCEPT ![c] = q] /\ q.at \notin Reloading
      <4> DEFINE place == IF r.type = "Backend" /\ flag THEN "npm" ELSE "row"
                 q == [PkgIdle EXCEPT !.at = place, !.on = m, !.kind = "update", !.row = r]
      <4>1. pcall' = [pcall EXCEPT ![c] = q]
        BY <3>3 DEF BeginUpdate, Asks
      <4>2. q.at \in {"npm", "row"}
        BY DEF PkgIdle
      <4> HIDE DEF q
      <4> QED BY <4>1, <4>2 DEF Reloading
    <3>4. CASE BeginGet(c, m)
      <4> DEFINE q == [PkgIdle EXCEPT !.at = "reload", !.on = m, !.kind = "get"]
      <4>1. pcall' = [pcall EXCEPT ![c] = q]
        BY <3>4 DEF BeginGet, Asks
      <4>2. q.at = "reload"
        BY DEF PkgIdle
      <4> HIDE DEF q
      <4> QED BY <4>1, <4>2 DEF Reloading
    <3> QED BY <1>2, <3>1, <3>2, <3>3, <3>4
  <2>5. PICK q : pcall' = [pcall EXCEPT ![c] = q] /\ q.at \notin Reloading
    BY <2>2
  <2>3. (\A k \in PkgCall : k # c => pcall'[k] = pcall[k]) /\ pcall'[c] = q
    BY <1>1, <2>5
  <2> QED BY <1>1, <2>1, <2>3, <2>5, AsideList DEF Reloading
<1>3. ASSUME NEW c \in PkgCall, CheckInstalled(c) PROVE ListInv'
  <2>1. /\ pcall[c].at = "check"
        /\ UNCHANGED <<pkgRows, names, mail, pkgLock, skipped, lastFrom, nextRow, asked>>
        /\ troubles' \in Nat
    BY <1>1, <1>3 DEF CheckInstalled, CallAt, NoReload, Fine, Trouble
  <2>3. PICK read \in BOOLEAN :
           LET there == pcall[c].row.name \in disk[pcall[c].on].listed
               listed == read /\ there
           IN pcall' = [pcall EXCEPT ![c] =
                 [pcall[c] EXCEPT !.row = [pcall[c].row EXCEPT !.system = listed],
                                  !.at = IF listed \/ pcall[c].row.type = "App"
                                         THEN "require" ELSE "npm"]]
    BY <1>3 DEF CheckInstalled
  <2> DEFINE listed == read /\ pcall[c].row.name \in disk[pcall[c].on].listed
             row == [pcall[c].row EXCEPT !.system = listed]
             place == IF listed \/ pcall[c].row.type = "App" THEN "require" ELSE "npm"
             q == [pcall[c] EXCEPT !.row = row, !.at = place]
  <2>4. pcall' = [pcall EXCEPT ![c] = q] /\ place \in {"require", "npm"}
    BY <2>3
  <2>5. q.at = place
    <3> HIDE DEF row, place
    <3> QED BY <1>1 DEF PkgRequest
  <2> HIDE DEF q
  <2>2. /\ \A k \in PkgCall : k # c => pcall'[k] = pcall[k]
        /\ pcall'[c].at \in {"require", "npm"}
    BY <1>1, <2>4, <2>5
  <2> QED BY <1>1, <2>1, <2>2, AsideList DEF Reloading
<1>4. ASSUME NEW c \in PkgCall,
             NpmInstall(c) \/ RequirePackage(c) \/ NpmUninstall(c) \/ WriteFails(c)
      PROVE  ListInv'
  <2>1. /\ pcall[c].at \in {"npm", "require", "row"}
        /\ UNCHANGED <<pkgRows, names, mail, pkgLock, skipped, lastFrom, nextRow, asked>>
        /\ troubles' \in Nat
        /\ \E place \in {"require", "row", "idle"} : Step(c, place)
    BY <1>1, <1>4 DEF NpmInstall, RequirePackage, NpmUninstall, WriteFails, CallAt, NoReload,
                      Fine, Trouble
  <2>2. /\ \A k \in PkgCall : k # c => pcall'[k] = pcall[k]
        /\ pcall'[c].at \in {"require", "row", "idle"}
    BY <1>1, <2>1, PkgStepIs DEF PkgPlaces
  <2> QED BY <1>1, <2>1, <2>2, AsideList DEF Reloading
<1>5. CASE UNCHANGED pkgVars
  <2>1. UNCHANGED <<pkgRows, names, mail, pkgLock, pcall, skipped, lastFrom, nextRow, asked, troubles>>
    BY <1>5 DEF pkgVars
  <2>2. Listed' = Listed /\ (ChangesAhead' <=> ChangesAhead) /\ (ListAhead' <=> ListAhead)
    BY <2>1 DEF Listed, ChangesAhead, ListAhead
  <2> QED BY <2>1, <2>2
      DEF ListInv, IdsAreOld, ListTypes, OneReloads, CarriesListed, ListsAgree, EndsWithListed
<1>6. CASE PackagesNext
  BY <1>1, <1>2, <1>3, <1>4, <1>6, WrittenList, ReloadList, PublishedList, SavedList, ReceivedList
     DEF PackagesNext
<1> QED BY <1>5, <1>6

(***************************************************************************)
(* The state is of the types it should be, no two rows have one id, and a  *)
(* request that loads, publishes or keeps a list holds the lock for it.    *)
(***************************************************************************)
LEMMA PackagesTypes == PkgInv /\ ListInv => PackagesTypeOK
<1> SUFFICES ASSUME PkgInv, ListInv PROVE PackagesTypeOK
  OBVIOUS
<1>1. PkgTypes /\ IdsAreOld /\ ListTypes /\ OneReloads
  BY DEF PkgInv, ListInv
<1>2. pkgRows \subseteq PkgRow
  <2> SUFFICES ASSUME NEW r \in pkgRows PROVE r \in PkgRow
    OBVIOUS
  <2>1. r \in TypedRow /\ r.id \in 1 .. MaxRows
    BY <1>1, PackagesAssumption DEF PkgTypes, IdsAreOld
  <2> QED BY <2>1 DEF TypedRow, PkgRow
<1>3. nextRow \in 1 .. MaxRows + 1 /\ \A r, s \in pkgRows : r.id = s.id => r = s
  BY <1>1 DEF IdsAreOld
<1>4. \A m \in Machine : /\ disk[m].listed \subseteq PkgName /\ disk[m].modules \subseteq PkgName
                         /\ disk[m].required \subseteq PkgName
                         /\ names[m].list \subseteq PkgName /\ mail[m] \in Seq(SUBSET PkgName)
  BY <1>1 DEF PkgTypes, Disk, ListTypes
<1>5. \A c \in PkgCall : CallAt(c, "load") \/ CallAt(c, "publish") \/ CallAt(c, "save") => pkgLock = c
  BY <1>1 DEF OneReloads, Reloading, CallAt
<1>6. {skipped, evaded} \subseteq BOOLEAN
  BY <1>1, Zenon DEF PkgTypes, ListTypes
<1> QED BY <1>1, <1>2, <1>3, <1>4, <1>5, <1>6 DEF PackagesTypeOK, ListTypes

(***************************************************************************)
(* In every execution, when nothing is going on, every instance that has a *)
(* list of packages has the enabled ones of the database - except the one  *)
(* that published last, and unless a reload was refused or has failed      *)
(* after a change (PackageCacheService).                                   *)
(***************************************************************************)
THEOREM ListsAgreeInTheEnd == PackagesSpec => []SettledListsAgree
<1>1. ListInv => SettledListsAgree
  <2> SUFFICES ASSUME ListInv, ~skipped, \A c \in PkgCall : CallAt(c, "idle"),
                      \A m \in Machine : mail[m] = <<>>, NEW m \in Machine \ lastFrom, names[m].loaded
               PROVE  names[m].list = Listed
    BY DEF SettledListsAgree
  <2>1. ~ChangesAhead /\ ~ListAhead
    BY DEF ChangesAhead, ListAhead, CallAt
  <2> QED BY <2>1 DEF ListInv, ListsAgree, EndsWithListed
<1> QED BY <1>1, InitPkg, NextPkg, InitList, NextList, PTL DEF PackagesSpec

Steps == {"idle", "upload", "insert", "undo", "overwrite", "backup", "unlink", "copy", "row",
          "clean", "restore", "remove", "forget"}
FileAt == [step : Steps, row : FileRow \cup {NoFile}, place : Stores, new : 0 .. MaxContents]
Backup == [by : 1 .. MaxContents, of : [place : Stores, at : Location], what : 1 .. MaxContents]

FileTypes == /\ fileRows \subseteq FileRow /\ objects \subseteq Object /\ backups \subseteq Backup
             /\ fcall \in [FileCall -> FileAt]
             /\ gap \in BOOLEAN /\ contents \in 0 .. MaxContents /\ slips \in Nat

(***************************************************************************)
(* What a request has: a row that it replaces or deletes, and a content    *)
(* that it uploads, of its own place.                                      *)
(***************************************************************************)
Shape(f) ==
    /\ f.step = "idle" => f.row = NoFile
    /\ f.step \in {"insert", "undo"} => f.row = NoFile
    /\ f.step \in {"overwrite", "backup", "unlink", "copy", "row", "clean", "restore", "remove",
                   "forget"} => f.row \in FileRow
    /\ f.step \in {"idle", "remove", "forget"} <=> f.new = 0
    /\ f.step = "overwrite" => f.place = "cloud"
    /\ f.step \in {"backup", "unlink", "copy", "clean", "restore"} => f.place = "local"
    /\ f.step = "upload" /\ f.row # NoFile => f.place = "local"

ShapesAreRight == \A c \in FileCall : Shape(fcall[c])

KeysAreUnique == \A o, p \in objects : KeyOf(o) = KeyOf(p) => o = p

(***************************************************************************)
(* A row is named after the content that it was created with, and a new    *)
(* content has a name that nothing else has.                               *)
(***************************************************************************)
NamesAreOld ==
    /\ \A r \in fileRows : r.at.name = r.id /\ r.id <= contents
    /\ \A c \in FileCall : /\ fcall[c].new <= contents
                           /\ fcall[c].row # NoFile => fcall[c].row.at.name = fcall[c].row.id
                                                       /\ fcall[c].row.id <= contents
    /\ \A v \in backups : v.by <= contents
    /\ \A o \in objects : o.at.name <= contents
IdsAreUnique == \A r, s \in fileRows : r.id = s.id => r = s

NewIsNew(c) == LET n == fcall[c].new IN
    n # 0 => /\ \A d \in FileCall \ {c} : fcall[d].new # n
             /\ fcall[c].step # "undo" \/ ~gap =>
                  /\ \A r \in fileRows : r.id # n
                  /\ \A d \in FileCall : fcall[d].row.id # n
NewIsUnused == \A c \in FileCall : NewIsNew(c)

Keys == [place : Stores, at : Location]
Obj(k, n) == [place |-> k.place, at |-> k.at, what |-> n]
There(k, n) == Obj(k, n) \in objects
Described(r) == There(RowKey(r), r.what)
Inside == {"unlink", "copy", "clean", "restore"}

(***************************************************************************)
(* As long as the code undoes what has failed: where a request is, in its  *)
(* row, in the storage and in the backups.                                 *)
(***************************************************************************)
OneAtARow ==
    \A c, d \in FileCall : c # d /\ fcall[c].row # NoFile => fcall[d].row.id # fcall[c].row.id

AtWork(f) ==
    /\ f.row # NoFile /\ f.step \notin {"remove", "forget"} => f.row.place = f.place
    /\ f.row # NoFile /\ f.step # "clean" => f.row \in fileRows
    /\ f.step = "clean" => [f.row EXCEPT !.what = f.new] \in fileRows
    /\ (f.row # NoFile /\ f.step \in {"upload", "overwrite", "backup", "unlink", "remove"}) =>
          Described(f.row)
    /\ f.step \in {"row", "clean"} => There(RowKey(f.row), f.new)
    /\ f.step \in {"insert", "backup", "unlink", "copy"} =>
          There(Key(f.place, NewAt(f.new, f.place)), f.new)
    /\ f.step = "forget" => \A o \in objects : KeyOf(o) # RowKey(f.row)

BackupsAreTrue ==
    \A v \in backups : \A c \in FileCall :
       v.by = fcall[c].new => /\ fcall[c].step \in Inside \cup {"row"}
                              /\ v.what = fcall[c].row.what /\ fcall[c].place = "local"
RowsAreTrue ==
    \A r \in fileRows : (\A c \in FileCall : fcall[c].row.id # r.id) => Described(r)

(***************************************************************************)
(* As long as nothing has failed: backups and objects belong to a request  *)
(* that is at work, or to a row.                                           *)
(***************************************************************************)
Uploaded(f) == \/ f.step \in {"insert", "backup", "unlink", "copy", "clean"}
               \/ f.step = "row" /\ f.place = "local"

NothingIsLeft ==
    /\ \A c \in FileCall : fcall[c].step \notin {"undo", "restore"}
    /\ \A v \in backups : \E c \in FileCall : v.by = fcall[c].new
    /\ \A o \in objects : \/ \E r \in fileRows : KeyOf(o) = RowKey(r)
                          \/ \E c \in FileCall : KeyOf(o) = Temp(c) /\ Uploaded(fcall[c])

WorkInv == /\ OneAtARow /\ BackupsAreTrue /\ RowsAreTrue
           /\ \A c \in FileCall : AtWork(fcall[c])

NamesInv == /\ FileTypes /\ ShapesAreRight /\ KeysAreUnique /\ NamesAreOld /\ IdsAreUnique
            /\ NewIsUnused

FilesInv == /\ NamesInv
            /\ ~gap => WorkInv
            /\ ~gap /\ slips = 0 => NothingIsLeft

LEMMA FileBounds == MaxContents \in Nat /\ MaxSlips \in Nat
  BY FilesAssumption

(***************************************************************************)
(* Keys and objects.                                                       *)
(***************************************************************************)
LEMMA KeysAre ==
    /\ \A place \in Stores : \A at \in Location :
          /\ Key(place, at) \in Keys /\ Key(place, at).place = place
          /\ Key(place, at).at.name = at.name
    /\ \A r \in FileRow : /\ RowKey(r) \in Keys /\ RowKey(r).place = r.place
                          /\ RowKey(r).at.name = r.at.name
<1>1. ASSUME NEW place \in Stores, NEW at \in Location
      PROVE  /\ Key(place, at) \in Keys /\ Key(place, at).place = place
             /\ Key(place, at).at.name = at.name
  <2> DEFINE flat == [at EXCEPT !.slash = FALSE]
  <2>1. flat \in Location /\ flat.name = at.name
    BY DEF Location
  <2> HIDE DEF flat
  <2>2. Key(place, at) = [place |-> place, at |-> IF place = "local" THEN flat ELSE at]
    BY DEF Key, flat
  <2> QED BY <2>1, <2>2 DEF Keys
<1>2. ASSUME NEW r \in FileRow
      PROVE  RowKey(r) \in Keys /\ RowKey(r).place = r.place /\ RowKey(r).at.name = r.at.name
  <2>1. r.place \in Stores /\ r.at \in Location
    BY DEF FileRow
  <2> QED BY <1>1, <2>1 DEF RowKey
<1> QED BY <1>1, <1>2

LEMMA ObjectsAre ==
    /\ \A k \in Keys : \A n \in 1 .. MaxContents :
          Obj(k, n) \in Object /\ KeyOf(Obj(k, n)) = k /\ Obj(k, n).what = n
    /\ \A o \in Object : KeyOf(o) \in Keys /\ o = Obj(KeyOf(o), o.what) /\ o.what \in 1 .. MaxContents
                         /\ KeyOf(o).at.name = o.at.name
<1>1. ASSUME NEW k \in Keys, NEW n \in 1 .. MaxContents
      PROVE  Obj(k, n) \in Object /\ KeyOf(Obj(k, n)) = k /\ Obj(k, n).what = n
  <2>1. k = [place |-> k.place, at |-> k.at] /\ k.place \in Stores /\ k.at \in Location
    BY DEF Keys
  <2> QED BY <2>1 DEF Obj, Object, KeyOf
<1>2. ASSUME NEW o \in Object
      PROVE  KeyOf(o) \in Keys /\ o = Obj(KeyOf(o), o.what) /\ o.what \in 1 .. MaxContents
             /\ KeyOf(o).at.name = o.at.name
  BY DEF Obj, Object, KeyOf, Keys
<1> QED BY <1>1, <1>2

LEMMA RemovedIs ==
    ASSUME NEW objs \in SUBSET Object, NEW k \in Keys
    PROVE  /\ Removed(objs, k) \in SUBSET Object
           /\ \A o : o \in Removed(objs, k) <=> o \in objs /\ KeyOf(o) # k
           /\ \A h \in Keys : \A n \in 1 .. MaxContents :
                 Obj(h, n) \in Removed(objs, k) <=> Obj(h, n) \in objs /\ h # k
  BY ObjectsAre DEF Removed

LEMMA PutIs ==
    ASSUME NEW objs \in SUBSET Object, NEW k \in Keys, NEW n \in 1 .. MaxContents
    PROVE  /\ Put(objs, k, n) \in SUBSET Object
           /\ \A o : o \in Put(objs, k, n) <=> o = Obj(k, n) \/ (o \in objs /\ KeyOf(o) # k)
           /\ \A h \in Keys : \A m \in 1 .. MaxContents :
                 Obj(h, m) \in Put(objs, k, n) <=> IF h = k THEN m = n ELSE Obj(h, m) \in objs
<1>1. Put(objs, k, n) = Removed(objs, k) \cup {Obj(k, n)}
  BY DEF Put, Obj
<1>2. /\ Put(objs, k, n) \in SUBSET Object
      /\ \A o : o \in Put(objs, k, n) <=> o = Obj(k, n) \/ (o \in objs /\ KeyOf(o) # k)
  <2>1. Removed(objs, k) \in SUBSET Object
    BY RemovedIs
  <2>2. \A o : o \in Removed(objs, k) <=> o \in objs /\ KeyOf(o) # k
    BY RemovedIs
  <2>3. Obj(k, n) \in Object
    BY ObjectsAre
  <2> QED BY <1>1, <2>1, <2>2, <2>3
<1>3. ASSUME NEW h \in Keys, NEW m \in 1 .. MaxContents
      PROVE  Obj(h, m) \in Put(objs, k, n) <=> IF h = k THEN m = n ELSE Obj(h, m) \in objs
  <2>1. KeyOf(Obj(h, m)) = h /\ KeyOf(Obj(k, n)) = k /\ Obj(h, m).what = m /\ Obj(k, n).what = n
    BY ObjectsAre
  <2> QED BY <1>2, <2>1
<1> QED BY <1>2, <1>3

LEMMA WhatIsThere ==
    ASSUME KeysAreUnique, objects \in SUBSET Object, NEW k \in Keys, NEW n \in 1 .. MaxContents
    PROVE  /\ There(k, n) => Has(objects, k) /\ WhatIs(k) = n
           /\ Has(objects, k) => WhatIs(k) \in 1 .. MaxContents
<1>1. ASSUME Has(objects, k)
      PROVE  \E o \in objects : KeyOf(o) = k /\ WhatIs(k) = o.what
  BY <1>1 DEF Has, WhatIs
<1>2. ASSUME There(k, n) PROVE Has(objects, k) /\ WhatIs(k) = n
  <2>1. Obj(k, n) \in objects /\ KeyOf(Obj(k, n)) = k /\ Obj(k, n).what = n
    BY <1>2, ObjectsAre DEF There
  <2>2. Has(objects, k)
    BY <2>1 DEF Has
  <2>3. PICK o \in objects : KeyOf(o) = k /\ WhatIs(k) = o.what
    BY <1>1, <2>2
  <2>4. o = Obj(k, n)
    BY <2>1, <2>3 DEF KeysAreUnique
  <2> QED BY <2>1, <2>2, <2>3, <2>4
<1>3. ASSUME Has(objects, k) PROVE WhatIs(k) \in 1 .. MaxContents
  BY <1>1, <1>3, ObjectsAre
<1> QED BY <1>2, <1>3

LEMMA NewKey ==
    ASSUME NEW n \in 1 .. MaxContents, NEW place \in Stores
    PROVE  /\ Key(place, NewAt(n, place)) \in Keys
           /\ Key(place, NewAt(n, place)).at.name = n
           /\ NewAt(n, place) \in Location /\ NewAt(n, place).name = n
<1>1. (place = "local") \in BOOLEAN
  BY Zenon
<1>2. NewAt(n, place) \in Location /\ NewAt(n, place).name = n
  BY <1>1 DEF NewAt, Location
<1> QED BY <1>2, KeysAre

LEMMA InitFiles == FilesInit => FilesInv
<1> SUFFICES ASSUME FilesInit PROVE FilesInv
  OBVIOUS
<1>1. FileIdle \in FileAt /\ Shape(FileIdle) /\ FileIdle.step = "idle" /\ FileIdle.row = NoFile
      /\ FileIdle.new = 0
  BY FileBounds DEF FileIdle, FileAt, Shape, Steps, Stores
<1>2. \A c \in FileCall : fcall[c] = FileIdle
  BY DEF FilesInit
<1>3. FileTypes
  <2>1. gap \in BOOLEAN
    BY Zenon DEF FilesInit
  <2> QED BY <1>1, <2>1, FileBounds DEF FilesInit, FileTypes
<1>4. ShapesAreRight /\ KeysAreUnique /\ IdsAreUnique /\ NewIsUnused
  BY <1>1, <1>2 DEF FilesInit, ShapesAreRight, KeysAreUnique, IdsAreUnique, NewIsUnused, NewIsNew
<1>5. NamesAreOld
  BY <1>1, <1>2 DEF FilesInit, NamesAreOld
<1>6. WorkInv
  BY <1>1, <1>2 DEF FilesInit, WorkInv, OneAtARow, BackupsAreTrue, RowsAreTrue, AtWork, Inside
<1>7. NothingIsLeft
  BY <1>1, <1>2 DEF FilesInit, NothingIsLeft
<1> QED BY <1>3, <1>4, <1>5, <1>6, <1>7 DEF FilesInv, NamesInv

LEMMA FStepIs ==
    ASSUME FileTypes, NEW c \in FileCall, NEW place \in Steps, FStep(c, place)
    PROVE  /\ fcall' \in [FileCall -> FileAt]
           /\ \A d \in FileCall : d # c => fcall'[d] = fcall[d]
           /\ fcall'[c].step = place
           /\ place = "idle" => fcall'[c].row = NoFile /\ fcall'[c].new = 0
           /\ place # "idle" => /\ fcall'[c].row = fcall[c].row /\ fcall'[c].new = fcall[c].new
                                /\ fcall'[c].place = fcall[c].place
<1>1. fcall \in [FileCall -> FileAt] /\ fcall[c] \in FileAt
  BY DEF FileTypes
<1>2. FileIdle \in FileAt /\ FileIdle.step = "idle" /\ FileIdle.row = NoFile /\ FileIdle.new = 0
  BY FileBounds DEF FileIdle, FileAt, Steps, Stores
<1> DEFINE f == [fcall[c] EXCEPT !.step = place]
<1>3. /\ f \in FileAt /\ f.step = place /\ f.row = fcall[c].row /\ f.new = fcall[c].new
      /\ f.place = fcall[c].place
  BY <1>1 DEF FileAt
<1> HIDE DEF f
<1>4. fcall' = [fcall EXCEPT ![c] = IF place = "idle" THEN FileIdle ELSE f]
  BY DEF FStep, f
<1> QED BY <1>1, <1>2, <1>3, <1>4

(***************************************************************************)
(* The names, when a request goes on, or comes to an end.                  *)
(***************************************************************************)
FileGoes(c) ==
    /\ \A d \in FileCall : d # c => fcall'[d] = fcall[d]
    /\ Shape(fcall'[c])
    /\ fcall'[c].new \in {0, fcall[c].new} /\ fcall'[c].row \in {NoFile, fcall[c].row}
    /\ fcall[c].step = "undo" => fcall'[c].step = "undo" \/ fcall'[c].new = 0

LEMMA NamesGo ==
    ASSUME NamesInv, FileTypes', NEW c \in FileCall, FileGoes(c), contents' = contents, gap => gap',
           KeysAreUnique', IdsAreUnique',
           \A o \in objects' : o \in objects \/ o.at.name <= contents,
           \A v \in backups' : v.by <= contents,
           \A r \in fileRows' : /\ r.at.name = r.id /\ r.id <= contents
                                /\ \/ \E s \in fileRows : s.id = r.id
                                   \/ /\ r.id = fcall[c].new /\ r.id # 0
                                      /\ fcall'[c].new = 0 \/ (fcall'[c].step = "undo" /\ gap')
    PROVE  NamesInv'
<1>1. /\ \A d \in FileCall : fcall[d] \in FileAt /\ fcall'[d] \in FileAt
      /\ NoFile.id = 0
  BY DEF NamesInv, FileTypes, NoFile
<1>2. ShapesAreRight'
  BY DEF ShapesAreRight, FileGoes, NamesInv
<1>3. NamesAreOld'
  <2>1. \A d \in FileCall : fcall'[d].new <= contents
    BY <1>1 DEF NamesInv, NamesAreOld, FileGoes, FileAt, FileTypes
  <2>2. ASSUME NEW d \in FileCall, fcall'[d].row # NoFile
        PROVE  fcall'[d].row.at.name = fcall'[d].row.id /\ fcall'[d].row.id <= contents
    BY <2>2 DEF NamesInv, NamesAreOld, FileGoes
  <2>3. \A o \in objects' : o.at.name <= contents
    BY DEF NamesInv, NamesAreOld
  <2> QED BY <2>1, <2>2, <2>3 DEF NamesAreOld
<1>4. NewIsUnused'
  <2> SUFFICES ASSUME NEW d \in FileCall, fcall'[d].new # 0 PROVE NewIsNew(d)'
    BY DEF NewIsUnused, NewIsNew
  <2>1. fcall'[d].new = fcall[d].new /\ fcall[d].new # 0
    BY DEF FileGoes
  <2>2. \A e \in FileCall : fcall'[e].new \in {0, fcall[e].new}
                            /\ fcall'[e].row \in {NoFile, fcall[e].row}
    BY DEF FileGoes
  <2>3. NewIsNew(d)
    BY DEF NamesInv, NewIsUnused
  <2>4. \A e \in FileCall \ {d} : fcall'[e].new # fcall'[d].new
    BY <2>1, <2>2, <2>3 DEF NewIsNew
  <2>5. ASSUME fcall'[d].step # "undo" \/ ~gap'
        PROVE  fcall[d].step # "undo" \/ ~gap
    BY <2>1, <2>5 DEF FileGoes
  <2>6. ASSUME fcall'[d].step # "undo" \/ ~gap', NEW r \in fileRows' PROVE r.id # fcall'[d].new
    BY <2>1, <2>3, <2>5, <2>6 DEF NewIsNew
  <2>7. ASSUME fcall'[d].step # "undo" \/ ~gap', NEW e \in FileCall
        PROVE  fcall'[e].row.id # fcall'[d].new
    BY <1>1, <2>1, <2>2, <2>3, <2>5, <2>7 DEF NewIsNew
  <2> QED BY <2>4, <2>6, <2>7 DEF NewIsNew
<1> QED BY <1>2, <1>3, <1>4 DEF NamesInv

(***************************************************************************)
(* The names, when a request begins.                                       *)
(***************************************************************************)
Begins(c) ==
    /\ \A d \in FileCall : d # c => fcall'[d] = fcall[d]
    /\ fcall[c].step = "idle" /\ Shape(fcall'[c])
    /\ \/ fcall'[c].new = 0 /\ contents' = contents
       \/ fcall'[c].new = contents + 1 /\ contents' = contents + 1
    /\ fcall'[c].row \in {NoFile} \cup fileRows

LEMMA NamesBegin ==
    ASSUME NamesInv, FileTypes', NEW c \in FileCall, Begins(c), gap => gap',
           UNCHANGED <<objects, backups, fileRows>>
    PROVE  NamesInv'
<1>1. /\ \A d \in FileCall : fcall[d] \in FileAt /\ fcall'[d] \in FileAt
      /\ NoFile.id = 0 /\ contents \in Nat /\ contents' \in Nat /\ contents <= contents'
      /\ \A r \in fileRows : r.id \in Nat
  BY FileBounds DEF NamesInv, FileTypes, NoFile, Begins, FileRow
<1>2. ShapesAreRight'
  BY DEF ShapesAreRight, Begins, NamesInv
<1>3. NamesAreOld'
  <2>1. \A d \in FileCall : fcall'[d].new <= contents'
    <3>1. \A d \in FileCall : fcall[d].new <= contents /\ fcall[d].new \in Nat
      BY <1>1, FileBounds DEF NamesInv, NamesAreOld, FileAt
    <3> QED BY <1>1, <3>1 DEF Begins
  <2>2. ASSUME NEW d \in FileCall, fcall'[d].row # NoFile
        PROVE  fcall'[d].row.at.name = fcall'[d].row.id /\ fcall'[d].row.id <= contents'
    <3>1. CASE d # c
      <4>1. fcall[d].row # NoFile /\ fcall'[d].row = fcall[d].row
        BY <2>2, <3>1 DEF Begins
      <4>2. fcall[d].row.id \in Nat /\ fcall[d].row.id <= contents
            /\ fcall[d].row.at.name = fcall[d].row.id
        BY <1>1, <4>1, FileBounds DEF NamesInv, NamesAreOld, FileAt, FileRow
      <4> QED BY <1>1, <4>1, <4>2
    <3>2. CASE d = c
      <4>1. fcall'[c].row \in fileRows
        BY <2>2, <3>2 DEF Begins
      <4> QED BY <1>1, <3>2, <4>1 DEF NamesInv, NamesAreOld
    <3> QED BY <3>1, <3>2
  <2>3. \A r \in fileRows : r.at.name = r.id /\ r.id <= contents'
    BY <1>1 DEF NamesInv, NamesAreOld
  <2>4. \A o \in objects : o.at.name <= contents'
    <3>1. \A o \in objects : o.at.name \in Nat /\ o.at.name <= contents
      BY FileBounds DEF NamesInv, NamesAreOld, FileTypes, Object, Location
    <3> QED BY <1>1, <3>1
  <2>5. \A v \in backups : v.by <= contents'
    <3>1. \A v \in backups : v.by \in Nat /\ v.by <= contents
      BY FileBounds DEF NamesInv, NamesAreOld, FileTypes, Backup
    <3> QED BY <1>1, <3>1
  <2> QED BY <2>1, <2>2, <2>3, <2>4, <2>5 DEF NamesAreOld
<1>4. NewIsUnused'
  <2> SUFFICES ASSUME NEW d \in FileCall, fcall'[d].new # 0 PROVE NewIsNew(d)'
    BY DEF NewIsUnused, NewIsNew
  <2>1. \A e \in FileCall : /\ fcall[e].new \in Nat /\ fcall[e].new <= contents
                            /\ fcall[e].row.id \in Nat /\ fcall[e].row.id <= contents
                            /\ fcall[e].row = NoFile \/ fcall[e].row \in FileRow
    BY <1>1, FileBounds DEF NamesInv, NamesAreOld, FileAt, FileRow
  <2>2. \A r \in fileRows : r.id \in Nat /\ r.id <= contents
    BY <1>1 DEF NamesInv, NamesAreOld
  <2>3. /\ fcall'[c].row.id \in Nat /\ fcall'[c].row.id <= contents
        /\ fcall[c].new = 0
    BY <1>1, <2>2 DEF Begins, NamesInv, ShapesAreRight, Shape
  <2>4. CASE d = c
    <3>1. fcall'[c].new = contents + 1
      BY <2>4 DEF Begins
    <3>2. \A e \in FileCall \ {c} : fcall'[e].new # contents + 1
      BY <1>1, <2>1 DEF Begins
    <3>3. \A e \in FileCall : fcall'[e].row.id # contents + 1
      BY <1>1, <2>1, <2>3 DEF Begins
    <3>4. \A r \in fileRows : r.id # contents + 1
      BY <1>1, <2>2
    <3> QED BY <2>4, <3>1, <3>2, <3>3, <3>4 DEF NewIsNew
  <2>5. CASE d # c
    <3>1. NewIsNew(d) /\ fcall'[d] = fcall[d]
      BY <2>5 DEF NamesInv, NewIsUnused, Begins
    <3>2. \A e \in FileCall \ {d} : fcall'[e].new # fcall[d].new
      BY <1>1, <2>1, <3>1 DEF Begins, NewIsNew
    <3>3. ASSUME fcall[d].step # "undo" \/ ~gap', NEW e \in FileCall
          PROVE  fcall'[e].row.id # fcall[d].new
      BY <1>1, <3>1, <3>3 DEF Begins, NewIsNew
    <3>4. ASSUME fcall[d].step # "undo" \/ ~gap', NEW r \in fileRows
          PROVE  r.id # fcall[d].new
      BY <3>1, <3>4 DEF NewIsNew
    <3> QED BY <3>1, <3>2, <3>3, <3>4 DEF NewIsNew
  <2> QED BY <2>4, <2>5
<1>5. KeysAreUnique' /\ IdsAreUnique'
  BY DEF NamesInv, KeysAreUnique, IdsAreUnique
<1> QED BY <1>2, <1>3, <1>4, <1>5 DEF NamesInv

LEMMA CallIs ==
    ASSUME NamesInv, NEW c \in FileCall
    PROVE  LET f == fcall[c] IN
           /\ f \in FileAt /\ Shape(f) /\ contents \in Nat
           /\ f.new # 0 => /\ f.new \in 1 .. MaxContents /\ f.new <= contents
                           /\ Temp(c) \in Keys /\ Temp(c).at.name = f.new
           /\ f.row # NoFile =>
                 /\ f.row \in FileRow /\ f.row.at.name = f.row.id /\ f.row.id <= contents
                 /\ OldKey(c) \in Keys /\ OldKey(c).at.name = f.row.id
                 /\ f.row.place = "local" => OldKey(c) = RowKey(f.row)
                 /\ Key("cloud", f.row.at) \in Keys /\ Key("cloud", f.row.at).at.name = f.row.id
                 /\ f.row.place = "cloud" => Key("cloud", f.row.at) = RowKey(f.row)
<1> DEFINE f == fcall[c]
<1>1. f \in FileAt /\ Shape(f) /\ contents \in Nat
  BY FileBounds DEF NamesInv, FileTypes, ShapesAreRight
<1>2. ASSUME f.new # 0
      PROVE  /\ f.new \in 1 .. MaxContents /\ f.new <= contents
             /\ Temp(c) \in Keys /\ Temp(c).at.name = f.new
  <2>1. f.new \in 1 .. MaxContents /\ f.place \in Stores
    BY <1>1, <1>2, FileBounds DEF FileAt
  <2>2. f.new <= contents
    BY DEF NamesInv, NamesAreOld
  <2> QED BY <2>1, <2>2, NewKey DEF Temp
<1>3. ASSUME f.row # NoFile
      PROVE  /\ f.row \in FileRow /\ f.row.at.name = f.row.id /\ f.row.id <= contents
             /\ OldKey(c) \in Keys /\ OldKey(c).at.name = f.row.id
             /\ f.row.place = "local" => OldKey(c) = RowKey(f.row)
             /\ Key("cloud", f.row.at) \in Keys /\ Key("cloud", f.row.at).at.name = f.row.id
             /\ f.row.place = "cloud" => Key("cloud", f.row.at) = RowKey(f.row)
  <2>1. f.row \in FileRow
    BY <1>1, <1>3 DEF FileAt
  <2>2. f.row.at \in Location /\ "local" \in Stores /\ "cloud" \in Stores
    BY <2>1 DEF FileRow, Stores
  <2>3. f.row.at.name = f.row.id /\ f.row.id <= contents
    BY <1>3 DEF NamesInv, NamesAreOld
  <2> QED BY <2>1, <2>2, <2>3, KeysAre DEF OldKey, RowKey
<1> HIDE DEF f
<1> QED BY <1>1, <1>2, <1>3 DEF f

LEMMA ObjectsGo ==
    ASSUME NamesInv, NEW k \in Keys, k.at.name <= contents,
           \/ objects' = objects
           \/ objects' = Removed(objects, k)
           \/ \E n \in 1 .. MaxContents : objects' = Put(objects, k, n)
    PROVE  objects' \in SUBSET Object /\ KeysAreUnique' /\ \A o \in objects' : o.at.name <= contents
<1>1. objects \in SUBSET Object /\ KeysAreUnique /\ \A o \in objects : o.at.name <= contents
  BY DEF NamesInv, FileTypes, NamesAreOld
<1>2. CASE objects' = objects
  BY <1>1, <1>2 DEF KeysAreUnique
<1>3. CASE objects' = Removed(objects, k)
  BY <1>1, <1>3, RemovedIs DEF KeysAreUnique
<1>4. CASE \E n \in 1 .. MaxContents : objects' = Put(objects, k, n)
  <2>1. PICK n \in 1 .. MaxContents : objects' = Put(objects, k, n)
    BY <1>4
  <2>2. objects' \in SUBSET Object
    BY <1>1, <2>1, PutIs
  <2>3. \A o \in objects' : o = Obj(k, n) \/ (o \in objects /\ KeyOf(o) # k)
    BY <1>1, <2>1, PutIs
  <2>4. KeyOf(Obj(k, n)) = k /\ Obj(k, n).at.name = k.at.name
    BY ObjectsAre DEF Obj
  <2> QED BY <1>1, <2>2, <2>3, <2>4 DEF KeysAreUnique
<1> QED BY <1>2, <1>3, <1>4

(***************************************************************************)
(* A step that leaves the rows alone, and one that leaves the storage.     *)
(***************************************************************************)
LEMMA StepNames ==
    ASSUME NamesInv, NEW c \in FileCall, NEW place \in Steps, FStep(c, place),
           Shape(fcall'[c]), fcall[c].step = "undo" => place \in {"undo", "idle"},
           contents' = contents, gap => gap', gap' \in BOOLEAN, Smooth \/ Slip,
           objects' \in SUBSET Object, KeysAreUnique', \A o \in objects' : o.at.name <= contents,
           backups' \in SUBSET Backup, \A v \in backups' : v.by <= contents,
           fileRows' \in SUBSET FileRow, IdsAreUnique',
           \A r \in fileRows' : /\ r.at.name = r.id /\ r.id <= contents
                                /\ \/ \E s \in fileRows : s.id = r.id
                                   \/ /\ r.id = fcall[c].new /\ r.id # 0
                                      /\ place = "idle" \/ (place = "undo" /\ gap')
    PROVE  NamesInv' /\ FileGoes(c)
<1>1. FileTypes
  BY DEF NamesInv
<1>2. slips' \in Nat
  BY <1>1 DEF FileTypes, Smooth, Slip
<1>3. FileTypes'
  BY <1>1, <1>2, FStepIs DEF FileTypes
<1>4. FileGoes(c)
  BY <1>1, FStepIs DEF FileGoes
<1>5. place = "idle" => fcall'[c].new = 0
  BY <1>1, FStepIs
<1>6. fcall'[c].step = place
  BY <1>1, FStepIs
<1> QED BY <1>3, <1>4, <1>5, <1>6, NamesGo

(***************************************************************************)
(* The rows, if a step leaves them alone, or if it takes some away.        *)
(***************************************************************************)
LEMMA RowsGo ==
    ASSUME NamesInv, NEW S \in SUBSET fileRows, fileRows' = S
    PROVE  /\ fileRows' \in SUBSET FileRow /\ IdsAreUnique'
           /\ \A r \in fileRows' : /\ r.at.name = r.id /\ r.id <= contents
                                   /\ \E s \in fileRows : s.id = r.id
  BY DEF NamesInv, FileTypes, NamesAreOld, IdsAreUnique

LEMMA BackupsGo ==
    ASSUME NamesInv, NEW S \in SUBSET backups, backups' = S
    PROVE  backups' \in SUBSET Backup /\ \A v \in backups' : v.by <= contents
  BY DEF NamesInv, FileTypes, NamesAreOld

-----------------------------------------------------------------------------
\* What the other requests are at.

(***************************************************************************)
(* A step of request c touches names n and m only, which are nobody else's. *)
(***************************************************************************)
Apart(c, n, m) ==
    /\ \A d \in FileCall : d # c =>
          /\ fcall'[d] = fcall[d]
          /\ fcall[d].new # 0 => fcall[d].new \notin {n, m}
          /\ fcall[d].row # NoFile => fcall[d].row.id \notin {n, m}
    /\ {fcall[c].new, fcall'[c].new} \subseteq {0, n}
    /\ {fcall[c].row.id, fcall'[c].row.id} \subseteq {0, m}
    /\ \A o \in Object : o.at.name \notin {n, m} => (o \in objects' <=> o \in objects)
    /\ \A r \in FileRow : r.id \notin {n, m} => (r \in fileRows' <=> r \in fileRows)
    /\ \A v \in Backup : v.by # n => (v \in backups' <=> v \in backups)

LEMMA RowsHaveIds == NoFile.id = 0 /\ \A r \in FileRow : r.id \in Nat /\ r.id # 0
  BY FileBounds DEF NoFile, FileRow

LEMMA OthersAtWork ==
    ASSUME NamesInv, NamesInv', WorkInv, NEW c \in FileCall, NEW n \in Nat, NEW m \in Nat,
           Apart(c, n, m), NEW d \in FileCall, d # c
    PROVE  AtWork(fcall[d])'
<1>1. PICK f : /\ f = fcall[d] /\ f \in FileAt /\ Shape(f) /\ AtWork(f)
               /\ f.new # 0 => f.new \notin {n, m} /\ f.new \in 1 .. MaxContents
               /\ f.row # NoFile => /\ f.row.id \notin {n, m} /\ f.row \in FileRow
                                    /\ f.row.at.name = f.row.id
               /\ fcall'[d] = f
  BY CallIs DEF Apart, WorkInv
<1>2. objects \in SUBSET Object /\ objects' \in SUBSET Object
  BY DEF NamesInv, FileTypes
<1>3. ASSUME NEW k \in Keys, k.at.name \notin {n, m}, NEW w \in 1 .. MaxContents, There(k, w)
      PROVE  There(k, w)'
  <2>1. Obj(k, w) \in Object /\ Obj(k, w).at.name = k.at.name
    BY ObjectsAre DEF Obj
  <2> QED BY <1>3, <2>1 DEF There, Apart
<1>4. ASSUME f.row # NoFile
      PROVE  /\ Described(f.row) => Described(f.row)'
             /\ f.new # 0 /\ There(RowKey(f.row), f.new) => There(RowKey(f.row), f.new)'
  <2>1. /\ RowKey(f.row) \in Keys /\ RowKey(f.row).at.name \notin {n, m}
        /\ f.row.what \in 1 .. MaxContents
    BY <1>1, <1>4, KeysAre DEF FileRow
  <2> QED BY <1>1, <1>3, <2>1 DEF Described
<1>5. ASSUME f.row # NoFile, NEW w \in 1 .. MaxContents
      PROVE  /\ f.row \in fileRows => f.row \in fileRows'
             /\ [f.row EXCEPT !.what = w] \in fileRows => [f.row EXCEPT !.what = w] \in fileRows'
  <2> DEFINE r == [f.row EXCEPT !.what = w]
  <2>1. r \in FileRow /\ r.id = f.row.id
    BY <1>1, <1>5 DEF FileRow
  <2> HIDE DEF r
  <2>2. r \in fileRows => r \in fileRows'
    BY <1>1, <1>5, <2>1 DEF Apart
  <2>3. f.row \in fileRows => f.row \in fileRows'
    BY <1>1, <1>5 DEF Apart
  <2> QED BY <2>2, <2>3 DEF r
<1>6. ASSUME f.new # 0, There(Key(f.place, NewAt(f.new, f.place)), f.new)
      PROVE  There(Key(f.place, NewAt(f.new, f.place)), f.new)'
  <2>1. f.new \in 1 .. MaxContents /\ f.place \in Stores
    BY <1>1, <1>6 DEF FileAt
  <2> QED BY <1>1, <1>3, <1>6, <2>1, NewKey
<1>7. ASSUME f.row # NoFile, \A o \in objects : KeyOf(o) # RowKey(f.row)
      PROVE  \A o \in objects' : KeyOf(o) # RowKey(f.row)
  <2> SUFFICES ASSUME NEW o \in objects', KeyOf(o) = RowKey(f.row) PROVE FALSE
    OBVIOUS
  <2>1. o \in Object /\ o.at.name = f.row.id
    BY <1>1, <1>2, <1>7, KeysAre, ObjectsAre
  <2> QED BY <1>1, <1>7, <2>1 DEF Apart
<1>8. /\ f.step = "clean" => [f.row EXCEPT !.what = f.new] \in fileRows'
      /\ f.step \in {"row", "clean"} => There(RowKey(f.row), f.new)'
  <2>1. f.step \in {"row", "clean"} => f.new # 0 /\ f.row # NoFile
    BY <1>1, RowsHaveIds DEF Shape
  <2>2. f.step = "clean" => [f.row EXCEPT !.what = f.new] \in fileRows'
    BY <1>1, <1>5, <2>1 DEF AtWork
  <2>3. f.step \in {"row", "clean"} => There(RowKey(f.row), f.new)'
    BY <1>1, <1>4, <2>1 DEF AtWork
  <2> QED BY <2>2, <2>3
<1>9. f.step \in {"insert", "backup", "unlink", "copy"} =>
          There(Key(f.place, NewAt(f.new, f.place)), f.new)'
  BY <1>1, <1>6 DEF AtWork, Shape
<1>10. f.step = "forget" => \A o \in objects' : KeyOf(o) # RowKey(f.row)
  <2>1. f.step = "forget" => f.row # NoFile
    BY <1>1, RowsHaveIds DEF Shape
  <2> QED BY <1>1, <1>7, <2>1 DEF AtWork
<1>11. /\ f.row # NoFile /\ f.step # "clean" => f.row \in fileRows'
       /\ (f.row # NoFile /\ f.step \in {"upload", "overwrite", "backup", "unlink", "remove"}) =>
            Described(f.row)'
  BY <1>1, <1>4, <1>5 DEF AtWork, FileRow
<1>12. f.row # NoFile /\ f.step \notin {"remove", "forget"} => f.row.place = f.place
  BY <1>1 DEF AtWork
<1>13. AtWork(fcall[d])'
  BY <1>1, <1>8, <1>9, <1>10, <1>11, <1>12 DEF AtWork
<1> QED BY <1>13

LEMMA Aside ==
    ASSUME NamesInv, NamesInv', WorkInv, NEW c \in FileCall, NEW n \in Nat, NEW m \in Nat,
           Apart(c, n, m), AtWork(fcall[c])',
           \A v \in backups' : v.by = fcall'[c].new =>
               /\ fcall'[c].step \in Inside \cup {"row"}
               /\ v.what = fcall'[c].row.what /\ fcall'[c].place = "local",
           \A r \in fileRows' : r.id \in {n, m} /\ fcall'[c].row.id # r.id => Described(r)'
    PROVE  WorkInv'
<1>1. \A d \in FileCall : AtWork(fcall[d])'
  BY OthersAtWork
<1>2. \A d \in FileCall : /\ fcall[d] \in FileAt /\ fcall'[d] \in FileAt
                          /\ fcall[d].row = NoFile \/ fcall[d].row \in FileRow
                          /\ fcall'[d].row = NoFile \/ fcall'[d].row \in FileRow
                          /\ d # c => fcall'[d] = fcall[d]
  BY DEF NamesInv, FileTypes, FileAt, Apart
<1>3. OneAtARow'
  <2> SUFFICES ASSUME NEW d \in FileCall, NEW e \in FileCall, d # e, fcall'[d].row # NoFile
               PROVE  fcall'[e].row.id # fcall'[d].row.id
    BY DEF OneAtARow
  <2>1. fcall'[d].row.id # 0
    BY <1>2, RowsHaveIds
  <2>2. CASE d # c /\ e # c
    BY <1>2, <2>2 DEF WorkInv, OneAtARow
  <2>3. CASE d = c
    <3>1. fcall'[c].row.id = m /\ m # 0 /\ fcall'[e] = fcall[e]
      BY <2>1, <2>3 DEF Apart
    <3>2. fcall[e].row = NoFile \/ fcall[e].row.id # m
      BY <2>3 DEF Apart
    <3> QED BY <2>3, <3>1, <3>2, RowsHaveIds
  <2>4. CASE e = c
    <3>1. fcall'[c].row.id \in {0, m} /\ fcall'[d] = fcall[d]
      BY <2>4 DEF Apart
    <3>2. fcall[d].row.id # m
      BY <1>2, <2>1, <2>4, <3>1 DEF Apart
    <3> QED BY <2>1, <2>4, <3>1, <3>2
  <2> QED BY <2>2, <2>3, <2>4
<1>4. BackupsAreTrue'
  <2> SUFFICES ASSUME NEW v \in backups', NEW d \in FileCall, v.by = fcall'[d].new, d # c
               PROVE  /\ fcall'[d].step \in Inside \cup {"row"}
                      /\ v.what = fcall'[d].row.what /\ fcall'[d].place = "local"
    BY DEF BackupsAreTrue
  <2>1. v \in Backup /\ v.by # 0
    BY FileBounds DEF NamesInv, FileTypes, Backup
  <2>2. fcall'[d] = fcall[d] /\ v.by # n
    BY <1>2, <2>1 DEF Apart
  <2>3. v \in backups
    BY <2>1, <2>2 DEF Apart
  <2> QED BY <2>2, <2>3 DEF WorkInv, BackupsAreTrue
<1>5. RowsAreTrue'
  <2> SUFFICES ASSUME NEW r \in fileRows', \A d \in FileCall : fcall'[d].row.id # r.id,
                      r.id \notin {n, m}
               PROVE  Described(r)'
    BY DEF RowsAreTrue
  <2>1. r \in FileRow /\ r.id # 0 /\ r.at.name = r.id
    BY RowsHaveIds DEF NamesInv, FileTypes, NamesAreOld
  <2>2. r \in fileRows
    BY <2>1 DEF Apart
  <2>3. ASSUME NEW d \in FileCall PROVE fcall[d].row.id # r.id
    <3>1. CASE d # c
      BY <1>2, <3>1
    <3>2. CASE d = c
      BY <2>1, <3>2 DEF Apart
    <3> QED BY <3>1, <3>2
  <2>4. Described(r)
    BY <2>2, <2>3 DEF WorkInv, RowsAreTrue
  <2>5. RowKey(r) \in Keys /\ RowKey(r).at.name = r.id /\ r.what \in 1 .. MaxContents
    BY <2>1, KeysAre DEF FileRow
  <2>6. Obj(RowKey(r), r.what) \in Object /\ Obj(RowKey(r), r.what).at.name = r.id
    BY <2>5, ObjectsAre DEF Obj
  <2>7. Obj(RowKey(r), r.what) \in objects'
    BY <2>4, <2>6 DEF Described, There, Apart
  <2> QED BY <2>7 DEF Described, There
<1> QED BY <1>1, <1>3, <1>4, <1>5 DEF WorkInv

LEMMA AsideLeft ==
    ASSUME NamesInv, NamesInv', NothingIsLeft, NEW c \in FileCall, NEW n \in Nat, NEW m \in Nat,
           Apart(c, n, m), fcall'[c].step \notin {"undo", "restore"},
           \A v \in backups' : v.by = n => fcall'[c].new = n,
           \A o \in objects' : o.at.name \in {n, m} =>
               \/ \E r \in fileRows' : KeyOf(o) = RowKey(r)
               \/ KeyOf(o) = Temp(c)' /\ Uploaded(fcall'[c])
    PROVE  NothingIsLeft'
<1>1. \A d \in FileCall : fcall'[d].step \notin {"undo", "restore"}
  BY DEF NothingIsLeft, Apart
<1>2. ASSUME NEW v \in backups' PROVE \E d \in FileCall : v.by = fcall'[d].new
  <2>1. v \in Backup /\ v.by # 0
    BY FileBounds DEF NamesInv, FileTypes, Backup
  <2>2. CASE v.by = n
    BY <1>2, <2>2
  <2>3. CASE v.by # n
    <3>1. v \in backups
      BY <2>1, <2>3 DEF Apart
    <3>2. PICK d \in FileCall : v.by = fcall[d].new
      BY <3>1 DEF NothingIsLeft
    <3>3. d # c
      BY <2>1, <2>3, <3>2 DEF Apart
    <3> QED BY <3>2, <3>3 DEF Apart
  <2> QED BY <2>2, <2>3
<1>3. ASSUME NEW o \in objects', o.at.name \notin {n, m}
      PROVE  \/ \E r \in fileRows' : KeyOf(o) = RowKey(r)
             \/ \E d \in FileCall : KeyOf(o) = Temp(d)' /\ Uploaded(fcall'[d])
  <2>1. o \in Object /\ KeyOf(o).at.name = o.at.name
    BY ObjectsAre DEF NamesInv, FileTypes
  <2>2. o \in objects
    BY <1>3, <2>1 DEF Apart
  <2>3. CASE \E r \in fileRows : KeyOf(o) = RowKey(r)
    <3>1. PICK r \in fileRows : KeyOf(o) = RowKey(r)
      BY <2>3
    <3>2. r \in FileRow /\ r.at.name = r.id
      BY DEF NamesInv, FileTypes, NamesAreOld
    <3>3. r.id \notin {n, m}
      BY <1>3, <2>1, <3>1, <3>2, KeysAre
    <3>4. r \in fileRows'
      BY <3>2, <3>3 DEF Apart
    <3> QED BY <3>1, <3>4
  <2>4. CASE \E d \in FileCall : KeyOf(o) = Temp(d) /\ Uploaded(fcall[d])
    <3>1. PICK d \in FileCall : KeyOf(o) = Temp(d) /\ Uploaded(fcall[d])
      BY <2>4
    <3>2. fcall[d].new # 0
      BY <3>1, CallIs DEF Uploaded, Shape
    <3>3. o.at.name = fcall[d].new
      BY <2>1, <3>1, <3>2, CallIs
    <3>4. d # c
      BY <1>3, <3>2, <3>3 DEF Apart
    <3>5. fcall'[d] = fcall[d]
      BY <3>4 DEF Apart
    <3> QED BY <3>1, <3>5 DEF Temp
  <2> QED BY <2>2, <2>3, <2>4 DEF NothingIsLeft
<1>4. ASSUME NEW o \in objects'
      PROVE  \/ \E r \in fileRows' : KeyOf(o) = RowKey(r)
             \/ \E d \in FileCall : KeyOf(o) = Temp(d)' /\ Uploaded(fcall'[d])
  BY <1>3, <1>4
<1>5. ASSUME NEW d \in FileCall PROVE Uploaded(fcall'[d]) <=> Uploaded(fcall[d])'
  OBVIOUS
<1> QED BY <1>1, <1>2, <1>4 DEF NothingIsLeft

(***************************************************************************)
(* What a step of a request changes: its own object, row and backups.      *)
(***************************************************************************)
Own(c) == {fcall[c].new, fcall[c].row.id}

LEMMA OwnObjects ==
    ASSUME NamesInv, NEW c \in FileCall, NEW k \in Keys, k.at.name \in Own(c),
           \/ objects' = objects
           \/ objects' = Removed(objects, k)
           \/ \E n \in 1 .. MaxContents : objects' = Put(objects, k, n)
    PROVE  \A o \in Object : o.at.name \notin Own(c) => (o \in objects' <=> o \in objects)
<1> SUFFICES ASSUME NEW o \in Object, o.at.name \notin Own(c)
             PROVE  o \in objects' <=> o \in objects
  OBVIOUS
<1>1. KeyOf(o) # k /\ objects \in SUBSET Object
  BY ObjectsAre DEF NamesInv, FileTypes
<1>2. ASSUME NEW n \in 1 .. MaxContents PROVE o # Obj(k, n)
  BY <1>1, ObjectsAre
<1>3. CASE objects' = Removed(objects, k)
  BY <1>1, <1>3, RemovedIs
<1>4. CASE \E n \in 1 .. MaxContents : objects' = Put(objects, k, n)
  BY <1>1, <1>2, <1>4, PutIs
<1> QED BY <1>3, <1>4

Left(c) ==
    /\ fcall'[c].step \notin {"undo", "restore"}
    /\ \A v \in backups' : v.by = fcall[c].new => fcall'[c].new = fcall[c].new
    /\ \A o \in objects' : o.at.name \in Own(c) =>
          \/ \E r \in fileRows' : KeyOf(o) = RowKey(r)
          \/ KeyOf(o) = Temp(c)' /\ Uploaded(fcall'[c])

Kept(c) ==
    /\ AtWork(fcall[c])'
    /\ \A v \in backups' : v.by = fcall'[c].new =>
          /\ fcall'[c].step \in Inside \cup {"row"}
          /\ v.what = fcall'[c].row.what /\ fcall'[c].place = "local"
    /\ \A r \in fileRows' : r.id \in Own(c) /\ fcall'[c].row.id # r.id => Described(r)'

LEMMA OwnStep ==
    ASSUME FilesInv, NamesInv', NEW c \in FileCall, FileGoes(c), gap => gap', Smooth \/ Slip,
           \A o \in Object : o.at.name \notin Own(c) => (o \in objects' <=> o \in objects),
           \A r \in FileRow : r.id \notin Own(c) => (r \in fileRows' <=> r \in fileRows),
           \A v \in Backup : v.by # fcall[c].new => (v \in backups' <=> v \in backups),
           ~gap' /\ ~gap => Kept(c), ~gap' /\ ~gap /\ slips = 0 /\ Smooth => Left(c)
    PROVE  FilesInv'
<1> SUFFICES ASSUME ~gap' PROVE WorkInv' /\ (slips' = 0 => NothingIsLeft')
  BY DEF FilesInv
<1>1. NamesInv /\ ~gap /\ WorkInv /\ (slips = 0 => NothingIsLeft)
  BY DEF FilesInv
<1>2. PICK n \in Nat : n = fcall[c].new
  BY <1>1, FileBounds, CallIs DEF FileAt
<1>3. PICK m \in Nat : m = fcall[c].row.id
  BY <1>1, RowsHaveIds, CallIs DEF FileAt
<1>4. Apart(c, n, m)
  <2>1. ASSUME NEW d \in FileCall, d # c
        PROVE  /\ fcall[d].new # 0 => fcall[d].new \notin {n, m}
               /\ fcall[d].row # NoFile => fcall[d].row.id \notin {n, m}
    <3>1. NewIsNew(d) /\ NewIsNew(c) /\ OneAtARow
      BY <1>1 DEF NamesInv, NewIsUnused, WorkInv
    <3>2. fcall[d].new # 0 => fcall[d].new # n /\ fcall[d].new # m
      BY <1>1, <1>2, <1>3, <2>1, <3>1 DEF NewIsNew
    <3>3. fcall[d].row # NoFile => fcall[d].row.id # m
      BY <1>3, <2>1, <3>1 DEF OneAtARow
    <3>4. fcall[d].row # NoFile => fcall[d].row.id # 0
      BY <1>1, CallIs, RowsHaveIds
    <3>5. fcall[d].row # NoFile => fcall[d].row.id # n
      BY <1>1, <1>2, <2>1, <3>1, <3>4 DEF NewIsNew
    <3> QED BY <3>2, <3>3, <3>5
  <2>2. /\ {fcall[c].new, fcall'[c].new} \subseteq {0, n}
        /\ {fcall[c].row.id, fcall'[c].row.id} \subseteq {0, m}
    BY <1>2, <1>3, RowsHaveIds DEF FileGoes
  <2>3. \A d \in FileCall : d # c => fcall'[d] = fcall[d]
    BY DEF FileGoes
  <2> QED BY <1>2, <1>3, <2>1, <2>2, <2>3 DEF Apart, Own
<1>5. WorkInv'
  BY <1>1, <1>2, <1>3, <1>4, Aside DEF Kept, Own
<1>6. ASSUME slips' = 0 PROVE NothingIsLeft'
  <2>1. slips = 0 /\ Smooth
    BY <1>1, <1>6 DEF Smooth, Slip, NamesInv, FileTypes
  <2>2. Left(c)
    BY <1>1, <2>1
  <2> QED BY <1>1, <1>2, <1>3, <1>4, <2>1, <2>2, AsideLeft DEF Left, Own
<1> QED BY <1>5, <1>6

-----------------------------------------------------------------------------
\* The storage after a step.

LEMMA StaysThere ==
    ASSUME NamesInv, NEW k \in Keys, NEW h \in Keys, h # k, NEW w \in 1 .. MaxContents, There(h, w),
           \/ objects' = objects
           \/ objects' = Removed(objects, k)
           \/ \E n \in 1 .. MaxContents : objects' = Put(objects, k, n)
    PROVE  There(h, w)'
<1>1. objects \in SUBSET Object
  BY DEF NamesInv, FileTypes
<1> QED BY <1>1, RemovedIs, PutIs DEF There

LEMMA IsPut ==
    ASSUME NamesInv, NEW k \in Keys, NEW w \in 1 .. MaxContents, objects' = Put(objects, k, w)
    PROVE  There(k, w)'
<1>1. objects \in SUBSET Object
  BY DEF NamesInv, FileTypes
<1> QED BY <1>1, PutIs DEF There

\* A row keeps its object when another name's goes or is put.
LEMMA StaysDescribed ==
    ASSUME NamesInv, NEW k \in Keys, NEW r \in FileRow, r.at.name # k.at.name, Described(r),
           \/ objects' = objects
           \/ objects' = Removed(objects, k)
           \/ \E n \in 1 .. MaxContents : objects' = Put(objects, k, n)
    PROVE  Described(r)'
<1>1. RowKey(r) \in Keys /\ RowKey(r).at.name = r.at.name /\ r.what \in 1 .. MaxContents
  BY KeysAre DEF FileRow
<1> QED BY <1>1, StaysThere DEF Described

(***************************************************************************)
(* Before a step: what there is of the request's names.                    *)
(***************************************************************************)
LEMMA OwnBefore ==
    ASSUME NamesInv, WorkInv, ~gap, NEW c \in FileCall
    PROVE  LET f == fcall[c] IN
           /\ AtWork(f)
           /\ \A r \in fileRows : r.id # f.new /\ r.id # 0
           /\ f.row # NoFile => f.row.id # f.new /\ f.row.id # 0
           /\ \A r \in fileRows : r.id = f.row.id /\ f.step # "clean" => r = f.row
           /\ f.step \notin Inside \cup {"row"} => \A v \in backups : v.by # f.new
           /\ \A v \in backups : v.by # 0 /\ (v.by = f.new => v.what = f.row.what)
<1> DEFINE f == fcall[c]
<1>1. AtWork(f) /\ NewIsNew(c) /\ BackupsAreTrue /\ fileRows \in SUBSET FileRow
  BY DEF NamesInv, NewIsUnused, WorkInv, FileTypes
<1>2. f \in FileAt /\ (f.row # NoFile => f.row \in FileRow)
  BY CallIs
<1>3. \A r \in fileRows : r.id # f.new /\ r.id # 0
  BY <1>1, RowsHaveIds DEF NewIsNew
<1>4. f.row # NoFile => f.row.id # f.new /\ f.row.id # 0
  BY <1>1, <1>2, RowsHaveIds DEF NewIsNew
<1>5. ASSUME NEW r \in fileRows, r.id = f.row.id, f.step # "clean" PROVE r = f.row
  <2>1. f.row # NoFile
    BY <1>3, <1>5, RowsHaveIds
  <2>2. f.row \in fileRows
    BY <1>1, <1>5, <2>1 DEF AtWork
  <2> QED BY <1>5, <2>2 DEF NamesInv, IdsAreUnique
<1>6. /\ f.step \notin Inside \cup {"row"} => \A v \in backups : v.by # f.new
      /\ \A v \in backups : v.by = f.new => v.what = f.row.what
  BY <1>1 DEF BackupsAreTrue
<1>7. \A v \in backups : v.by # 0
  BY FileBounds DEF NamesInv, FileTypes, Backup
<1> HIDE DEF f
<1> QED BY <1>1, <1>3, <1>4, <1>5, <1>6, <1>7 DEF f

LEMMA OldLeft ==
    ASSUME NamesInv, NothingIsLeft, ~gap, NEW c \in FileCall, NEW o \in objects,
           o.at.name \in Own(c)
    PROVE  \/ \E r \in fileRows : KeyOf(o) = RowKey(r) /\ r.id = o.at.name
           \/ KeyOf(o) = Temp(c) /\ Uploaded(fcall[c])
<1>1. o \in Object /\ KeyOf(o).at.name = o.at.name
  BY ObjectsAre DEF NamesInv, FileTypes
<1>2. ASSUME NEW r \in fileRows, KeyOf(o) = RowKey(r) PROVE r.id = o.at.name
  <2>1. r \in FileRow /\ r.at.name = r.id
    BY DEF NamesInv, FileTypes, NamesAreOld
  <2> QED BY <1>1, <1>2, <2>1, KeysAre
<1>3. ASSUME NEW d \in FileCall, KeyOf(o) = Temp(d), Uploaded(fcall[d]) PROVE d = c
  <2>1. fcall[d].new # 0
    BY <1>3, CallIs DEF Uploaded, Shape
  <2>2. o.at.name = fcall[d].new
    BY <1>1, <1>3, <2>1, CallIs
  <2>3. NewIsNew(d)
    BY DEF NamesInv, NewIsUnused
  <2>4. fcall[c].row.id # fcall[d].new
    BY <2>1, <2>3 DEF NewIsNew
  <2> QED BY <2>1, <2>2, <2>3, <2>4 DEF NewIsNew, Own
<1> QED BY <1>2, <1>3 DEF NothingIsLeft

(***************************************************************************)
(* A request comes to its end.                                             *)
(***************************************************************************)
LEMMA EndKept ==
    ASSUME NamesInv, NamesInv', NEW c \in FileCall,
           fcall'[c].step = "idle", fcall'[c].row = NoFile, fcall'[c].new = 0,
           \A r \in fileRows' : r.id \in Own(c) => Described(r)'
    PROVE  Kept(c)
<1>1. AtWork(fcall[c])'
  BY DEF AtWork, Inside
<1>2. \A v \in backups' : v.by # 0
  BY FileBounds DEF NamesInv, FileTypes, Backup
<1> QED BY <1>1, <1>2 DEF Kept

(***************************************************************************)
(* A step of a request that is at work.                                    *)
(***************************************************************************)
ObjectsMove(c) ==
    \/ objects' = objects
    \/ \E k \in Keys : /\ k.at.name \in Own(c)
                       /\ \/ objects' = Removed(objects, k)
                          \/ \E n \in 1 .. MaxContents : objects' = Put(objects, k, n)

BackupsMove(c) ==
    /\ backups' \in SUBSET Backup
    /\ \A v \in Backup : v.by # fcall[c].new => (v \in backups' <=> v \in backups)

RowsMove(c) ==
    /\ fileRows' \in SUBSET FileRow /\ IdsAreUnique'
    /\ \A r \in fileRows' : /\ r.at.name = r.id /\ r.id <= contents
                            /\ \/ \E s \in fileRows : s.id = r.id
                               \/ /\ r.id = fcall[c].new /\ r.id # 0
                                  /\ \/ fcall'[c].step = "idle"
                                     \/ fcall'[c].step = "undo" /\ gap'
    /\ \A r \in FileRow : r.id \notin Own(c) => (r \in fileRows' <=> r \in fileRows)

LEMMA RowsStay == ASSUME NamesInv, NEW c \in FileCall, fileRows' = fileRows PROVE RowsMove(c)
<1>1. IdsAreUnique'
  BY DEF NamesInv, IdsAreUnique
<1>2. /\ fileRows' \in SUBSET FileRow
      /\ \A r \in fileRows' : /\ r.at.name = r.id /\ r.id <= contents
                              /\ \E s \in fileRows : s.id = r.id
  BY DEF NamesInv, FileTypes, NamesAreOld
<1> QED BY <1>1, <1>2 DEF RowsMove

LEMMA BackupsStay ==
    ASSUME NamesInv, NEW c \in FileCall, backups' = backups \/ backups' = WithoutBackup(c)
    PROVE  BackupsMove(c)
  BY DEF NamesInv, FileTypes, BackupsMove, WithoutBackup

LEMMA FileStep ==
    ASSUME FilesInv, NEW c \in FileCall, NEW place \in Steps, FStep(c, place), Shape(fcall'[c]),
           fcall[c].step = "undo" => place = "idle", Rest,
           gap => gap', gap' \in BOOLEAN, Smooth \/ Slip,
           ObjectsMove(c), BackupsMove(c), RowsMove(c),
           NamesInv' /\ ~gap' /\ ~gap => Kept(c),
           NamesInv' /\ ~gap' /\ ~gap /\ slips = 0 /\ Smooth => Left(c)
    PROVE  FilesInv'
<1>1. NamesInv /\ contents' = contents
  BY DEF FilesInv, Rest
<1>2. fcall[c].new <= contents /\ fcall[c].row.id <= contents /\ contents \in Nat
  <2>1. fcall[c].new <= contents
    BY <1>1 DEF NamesInv, NamesAreOld
  <2>2. CASE fcall[c].row = NoFile
    BY <1>1, <2>1, <2>2, RowsHaveIds, CallIs
  <2> QED BY <1>1, <2>1, <2>2, CallIs
<1>3. \A k \in Keys : k.at.name \in Own(c) => k.at.name <= contents
  BY <1>2 DEF Own
<1>4. /\ objects' \in SUBSET Object /\ KeysAreUnique' /\ \A o \in objects' : o.at.name <= contents
      /\ \A o \in Object : o.at.name \notin Own(c) => (o \in objects' <=> o \in objects)
  <2>1. CASE objects' = objects
    <3>1. objects \in SUBSET Object /\ \A o \in objects : o.at.name <= contents
      BY <1>1 DEF NamesInv, FileTypes, NamesAreOld
    <3>2. KeysAreUnique'
      BY <1>1, <2>1 DEF NamesInv, KeysAreUnique
    <3> QED BY <2>1, <3>1, <3>2
  <2>2. CASE \E k \in Keys : /\ k.at.name \in Own(c)
                             /\ \/ objects' = Removed(objects, k)
                                \/ \E n \in 1 .. MaxContents : objects' = Put(objects, k, n)
    <3>1. PICK k \in Keys : /\ k.at.name \in Own(c)
                            /\ \/ objects' = Removed(objects, k)
                               \/ \E n \in 1 .. MaxContents : objects' = Put(objects, k, n)
      BY <2>2
    <3>2. k.at.name <= contents
      BY <1>3, <3>1
    <3>3. objects' \in SUBSET Object /\ KeysAreUnique' /\ \A o \in objects' : o.at.name <= contents
      BY <1>1, <3>1, <3>2, ObjectsGo
    <3>4. \A o \in Object : o.at.name \notin Own(c) => (o \in objects' <=> o \in objects)
      BY <1>1, <3>1, OwnObjects
    <3> QED BY <3>3, <3>4
  <2> QED BY <2>1, <2>2 DEF ObjectsMove
<1>5. \A v \in backups' : v.by <= contents
  <2> SUFFICES ASSUME NEW v \in backups' PROVE v.by <= contents
    OBVIOUS
  <2>1. v.by = fcall[c].new \/ v \in backups
    BY DEF BackupsMove
  <2> QED BY <1>1, <1>2, <2>1 DEF NamesInv, NamesAreOld
<1>6. fcall'[c].step = place
  BY <1>1, FStepIs DEF NamesInv
<1>7. NamesInv' /\ FileGoes(c)
  <2>1. \A r \in fileRows' : /\ r.at.name = r.id /\ r.id <= contents
                             /\ \/ \E s \in fileRows : s.id = r.id
                                \/ /\ r.id = fcall[c].new /\ r.id # 0
                                   /\ place = "idle" \/ (place = "undo" /\ gap')
    BY <1>6 DEF RowsMove
  <2> QED BY <1>1, <1>4, <1>5, <2>1, StepNames DEF RowsMove, BackupsMove
<1> QED BY <1>4, <1>7, OwnStep DEF RowsMove, BackupsMove

-----------------------------------------------------------------------------
\* The upload.

LEMMA StepPlaces ==
    {"idle", "insert", "undo", "backup", "unlink", "copy", "row", "clean", "restore", "remove",
     "forget"} \subseteq Steps
  BY DEF Steps

LEMMA StoreFiles == ASSUME FilesInv, NEW c \in FileCall, StoreUpload(c) PROVE FilesInv'
<1>1. NamesInv /\ FileTypes
  BY DEF FilesInv, NamesInv
<1>2. PICK f : /\ f = fcall[c] /\ f \in FileAt /\ Shape(f) /\ f.step = "upload" /\ f.new # 0
               /\ f.new \in 1 .. MaxContents /\ (f.row = NoFile \/ f.row \in FileRow)
  BY <1>1, CallIs DEF StoreUpload, FAt, Shape
<1>3. PICK k \in Keys : k = Temp(c) /\ k.at.name = f.new
  BY <1>1, <1>2, CallIs
<1>4. /\ Rest /\ UNCHANGED <<fileRows, backups, gap>>
      /\ objects' = objects \/ objects' = Put(objects, k, f.new)
      /\ \/ /\ objects' = Put(objects, k, f.new)
            /\ Smooth /\ FStep(c, IF f.row = NoFile THEN "insert" ELSE "backup")
         \/ Slip /\ FStep(c, "idle")
  BY <1>2, <1>3 DEF StoreUpload
<1>5. ObjectsMove(c)
  BY <1>2, <1>3, <1>4 DEF ObjectsMove, Own
<1>6. BackupsMove(c) /\ RowsMove(c) /\ gap' \in BOOLEAN
  BY <1>1, <1>4, BackupsStay, RowsStay DEF FileTypes
<1>7. ASSUME ~gap, NEW r \in fileRows, Described(r), r.id # f.new PROVE Described(r)'
  <2>1. r \in FileRow /\ r.at.name = r.id
    BY <1>1 DEF FileTypes, NamesInv, NamesAreOld
  <2> QED BY <1>1, <1>2, <1>3, <1>4, <1>7, <2>1, StaysDescribed
<1>8. ~gap => /\ WorkInv /\ AtWork(f) /\ \A r \in fileRows : r.id # f.new
              /\ \A r \in fileRows : r.id = f.row.id => r = f.row /\ Described(r)
              /\ \A v \in backups : v.by # f.new
  <2> SUFFICES ASSUME ~gap
               PROVE  /\ WorkInv /\ AtWork(f) /\ \A r \in fileRows : r.id # f.new
                      /\ \A r \in fileRows : r.id = f.row.id => r = f.row /\ Described(r)
                      /\ \A v \in backups : v.by # f.new
    OBVIOUS
  <2>1. WorkInv
    BY DEF FilesInv
  <2>2. /\ AtWork(f) /\ \A r \in fileRows : r.id # f.new /\ r.id # 0
        /\ \A r \in fileRows : r.id = f.row.id => r = f.row
        /\ \A v \in backups : v.by # f.new
    BY <1>1, <1>2, <2>1, OwnBefore DEF Inside
  <2>3. f.row # NoFile => Described(f.row)
    BY <1>2, <2>2 DEF AtWork
  <2> QED BY <2>1, <2>2, <2>3, RowsHaveIds
<1>9. CASE Slip /\ FStep(c, "idle")
  <2>1. fcall'[c].step = "idle" /\ fcall'[c].row = NoFile /\ fcall'[c].new = 0
    BY <1>1, <1>9, FStepIs, StepPlaces
  <2>2. Shape(fcall'[c])
    BY <2>1 DEF Shape
  <2>3. NamesInv' /\ ~gap => Kept(c)
    BY <1>1, <1>2, <1>4, <1>7, <1>8, <2>1, EndKept DEF Own
  <2>4. ~(slips = 0 /\ Smooth)
    BY <1>9 DEF Slip, Smooth
  <2> QED BY <1>2, <1>4, <1>5, <1>6, <1>9, <2>2, <2>3, <2>4, FileStep, StepPlaces
<1>10. CASE objects' = Put(objects, k, f.new) /\ Smooth
            /\ FStep(c, IF f.row = NoFile THEN "insert" ELSE "backup")
  <2>1. PICK place \in Steps : /\ FStep(c, place) /\ place \in {"insert", "backup"}
                               /\ place = "insert" <=> f.row = NoFile
    BY <1>10, StepPlaces
  <2>2. PICK g : /\ g = fcall'[c] /\ g.step = place /\ g.row = f.row /\ g.new = f.new
                 /\ g.place = f.place
    BY <1>1, <1>2, <2>1, FStepIs
  <2>3. Shape(g)
    BY <1>2, <2>1, <2>2 DEF Shape
  <2>4. There(k, f.new)'
    BY <1>1, <1>2, <1>10, IsPut
  <2>5. k = Key(g.place, NewAt(g.new, g.place)) /\ Temp(c)' = k
    BY <1>2, <1>3, <2>2 DEF Temp
  <2>6. ASSUME ~gap PROVE Kept(c)
    <3>1. f.row # NoFile => f.row \in fileRows' /\ f.row.place = f.place /\ Described(f.row)'
      <4> SUFFICES ASSUME f.row # NoFile
                   PROVE  f.row \in fileRows' /\ f.row.place = f.place /\ Described(f.row)'
        OBVIOUS
      <4>1. f.row \in fileRows /\ f.row.place = f.place /\ Described(f.row)
        BY <1>2, <1>8, <2>6 DEF AtWork
      <4> QED BY <1>4, <1>7, <1>8, <2>6, <4>1
    <3>2. AtWork(fcall[c])'
      BY <2>1, <2>2, <2>4, <2>5, <3>1 DEF AtWork, Inside
    <3>3. \A v \in backups' : v.by # g.new
      BY <1>4, <1>8, <2>2, <2>6
    <3>4. \A r \in fileRows' : r.id \in Own(c) => r.id = g.row.id
      BY <1>2, <1>4, <1>8, <2>2, <2>6 DEF Own
    <3> QED BY <2>2, <3>2, <3>3, <3>4 DEF Kept
  <2>7. ASSUME ~gap, slips = 0 PROVE Left(c)
    <3>1. NothingIsLeft
      BY <2>7 DEF FilesInv
    <3>2. ASSUME NEW o \in objects', o.at.name \in Own(c)
          PROVE  (\E r \in fileRows' : KeyOf(o) = RowKey(r)) \/ KeyOf(o) = k
      <4>1. o = Obj(k, f.new) \/ o \in objects
        BY <1>1, <1>2, <1>10, PutIs DEF FileTypes
      <4>2. KeyOf(Obj(k, f.new)) = k
        BY <1>2, ObjectsAre
      <4> QED BY <1>1, <1>3, <1>4, <2>7, <3>1, <3>2, <4>1, <4>2, OldLeft
    <3>3. Uploaded(g)
      BY <2>1, <2>2 DEF Uploaded
    <3> QED BY <1>2, <2>1, <2>2, <2>5, <3>2, <3>3 DEF Left
  <2> QED BY <1>2, <1>4, <1>5, <1>6, <1>10, <2>1, <2>2, <2>3, <2>6, <2>7, FileStep
<1> QED BY <1>4, <1>9, <1>10

LEMMA InsertFiles == ASSUME FilesInv, NEW c \in FileCall, InsertFile(c) PROVE FilesInv'
<1>1. NamesInv /\ FileTypes
  BY DEF FilesInv, NamesInv
<1>2. PICK f : /\ f = fcall[c] /\ f \in FileAt /\ f.step = "insert" /\ f.row = NoFile
               /\ f.new # 0 /\ f.new \in 1 .. MaxContents /\ f.new <= contents
               /\ f.place \in Stores
  BY <1>1, CallIs DEF InsertFile, FAt, Shape, FileAt
<1> DEFINE row == [id |-> f.new, place |-> f.place, at |-> NewAt(f.new, f.place), what |-> f.new]
<1>3. /\ row \in FileRow /\ row.id = f.new /\ row.at.name = f.new /\ row.what = f.new
      /\ RowKey(row) = Key(f.place, NewAt(f.new, f.place))
  BY <1>2, NewKey DEF FileRow, RowKey
<1>4. /\ Rest /\ UNCHANGED <<objects, backups>>
      /\ \/ fileRows' = fileRows \cup {row} /\ Smooth /\ FStep(c, "idle") /\ UNCHANGED gap
         \/ Slip /\ FStep(c, "undo") /\ UNCHANGED <<fileRows, gap>>
         \/ fileRows' = fileRows \cup {row} /\ Slip /\ FStep(c, "undo") /\ gap' = TRUE
  BY <1>2 DEF InsertFile
<1> HIDE DEF row
<1>5. ObjectsMove(c) /\ BackupsMove(c) /\ gap' \in BOOLEAN
  BY <1>1, <1>4, BackupsStay DEF FileTypes, ObjectsMove
<1>6. \A r \in fileRows : r.id # f.new
  BY <1>1, <1>2 DEF NamesInv, NewIsUnused, NewIsNew
<1>7. ASSUME fileRows' = fileRows \cup {row},
             fcall'[c].step = "idle" \/ (fcall'[c].step = "undo" /\ gap')
      PROVE  RowsMove(c)
  <2>1. fileRows' \in SUBSET FileRow
    BY <1>1, <1>3, <1>7 DEF FileTypes
  <2>2. IdsAreUnique'
    BY <1>1, <1>3, <1>6, <1>7 DEF NamesInv, IdsAreUnique
  <2>3. \A r \in fileRows' : /\ r.at.name = r.id /\ r.id <= contents
                             /\ (\E s \in fileRows : s.id = r.id) \/ (r.id = f.new /\ r.id # 0)
    BY <1>1, <1>2, <1>3, <1>7 DEF NamesInv, NamesAreOld
  <2>4. \A r \in FileRow : r.id \notin Own(c) => (r \in fileRows' <=> r \in fileRows)
    BY <1>2, <1>3, <1>7 DEF Own
  <2> QED BY <1>2, <1>7, <2>1, <2>2, <2>3, <2>4 DEF RowsMove
<1>8. CASE FStep(c, "undo")
  <2>1. fcall'[c].step = "undo" /\ fcall'[c].row = NoFile /\ fcall'[c].new = f.new
    BY <1>1, <1>2, <1>8, FStepIs, StepPlaces
  <2>2. Shape(fcall'[c])
    BY <1>2, <2>1 DEF Shape
  <2>3. \/ Slip /\ UNCHANGED <<fileRows, gap>>
        \/ fileRows' = fileRows \cup {row} /\ Slip /\ gap' = TRUE
    <3>1. ~FStep(c, "idle")
      BY <1>1, <2>1, FStepIs, StepPlaces
    <3> QED BY <1>4, <3>1
  <2>4. RowsMove(c)
    BY <1>1, <1>7, <2>1, <2>3, RowsStay
  <2>5. ASSUME ~gap', ~gap PROVE Kept(c)
    <3>1. fileRows' = fileRows /\ backups' = backups
      BY <1>4, <2>3, <2>5
    <3>2. /\ \A r \in fileRows : r.id # f.new /\ r.id # 0
          /\ \A v \in backups : v.by # f.new
      BY <1>1, <1>2, <2>5, OwnBefore DEF FilesInv, Inside
    <3>3. AtWork(fcall[c])'
      BY <2>1 DEF AtWork, Inside
    <3>4. \A r \in fileRows' : r.id \notin Own(c)
      BY <1>2, <3>1, <3>2, RowsHaveIds DEF Own
    <3> QED BY <2>1, <3>1, <3>2, <3>3, <3>4 DEF Kept
  <2>6. ~(slips = 0 /\ Smooth) /\ (gap => gap')
    BY <2>3 DEF Slip, Smooth
  <2> QED BY <1>2, <1>4, <1>5, <1>8, <2>2, <2>3, <2>4, <2>5, <2>6, FileStep, StepPlaces
<1>9. CASE fileRows' = fileRows \cup {row} /\ Smooth /\ FStep(c, "idle") /\ UNCHANGED gap
  <2>1. fcall'[c].step = "idle" /\ fcall'[c].row = NoFile /\ fcall'[c].new = 0
    BY <1>1, <1>9, FStepIs, StepPlaces
  <2>2. Shape(fcall'[c])
    BY <2>1 DEF Shape
  <2>3. RowsMove(c)
    BY <1>7, <1>9, <2>1
  <2>4. ASSUME NamesInv', ~gap PROVE Kept(c)
    <3>1. /\ AtWork(f) /\ \A r \in fileRows : r.id # 0
      BY <1>1, <1>2, <2>4, OwnBefore DEF FilesInv
    <3>2. There(RowKey(row), f.new)
      BY <1>2, <1>3, <3>1 DEF AtWork
    <3>3. Described(row)'
      BY <1>3, <1>4, <3>2 DEF Described, There
    <3>4. \A r \in fileRows' : r.id \in Own(c) => r = row
      BY <1>2, <1>6, <1>9, <3>1, RowsHaveIds DEF Own
    <3> QED BY <1>1, <2>1, <2>4, <3>3, <3>4, EndKept
  <2>5. ASSUME ~gap, slips = 0 PROVE Left(c)
    <3>1. NothingIsLeft
      BY <2>5 DEF FilesInv
    <3>2. \A v \in backups : v.by # f.new
      BY <1>1, <1>2, <2>5, OwnBefore DEF FilesInv, Inside
    <3>3. RowKey(row) = Temp(c)
      BY <1>2, <1>3 DEF Temp
    <3>4. \A o \in objects : o.at.name \in Own(c) => \E r \in fileRows' : KeyOf(o) = RowKey(r)
      BY <1>1, <1>9, <2>5, <3>1, <3>3, OldLeft
    <3> QED BY <1>2, <1>4, <2>1, <3>2, <3>4 DEF Left
  <2> QED BY <1>2, <1>4, <1>5, <1>9, <2>2, <2>3, <2>4, <2>5, FileStep, StepPlaces
<1> QED BY <1>4, <1>8, <1>9

LEMMA UndoFiles == ASSUME FilesInv, NEW c \in FileCall, UndoUpload(c) PROVE FilesInv'
<1>1. NamesInv /\ FileTypes
  BY DEF FilesInv, NamesInv
<1>2. PICK f : /\ f = fcall[c] /\ f \in FileAt /\ f.step = "undo" /\ f.row = NoFile /\ f.new # 0
               /\ Temp(c) \in Keys /\ Temp(c).at.name = f.new
  BY <1>1, CallIs DEF UndoUpload, FAt, Shape
<1>3. /\ Rest /\ UNCHANGED <<fileRows, backups>> /\ FStep(c, "idle")
      /\ \/ objects' = Removed(objects, Temp(c)) /\ Smooth /\ UNCHANGED gap
         \/ Slip /\ gap' = TRUE /\ UNCHANGED objects
  BY DEF UndoUpload, AfterUndo
<1>4. fcall'[c].step = "idle" /\ fcall'[c].row = NoFile /\ fcall'[c].new = 0
  BY <1>1, <1>3, FStepIs, StepPlaces
<1>5. Shape(fcall'[c])
  BY <1>4 DEF Shape
<1>6. ObjectsMove(c)
  BY <1>2, <1>3 DEF ObjectsMove, Own
<1>7. BackupsMove(c) /\ RowsMove(c)
  BY <1>1, <1>3, BackupsStay, RowsStay
<1>8. gap' \in BOOLEAN /\ (gap => gap')
  <2>1. gap' = gap \/ gap' = TRUE
    BY <1>3
  <2> QED BY <1>1, <2>1 DEF FileTypes
<1>9. ASSUME NamesInv', ~gap PROVE Kept(c)
  <2>1. \A r \in fileRows : r.id # f.new /\ r.id # 0
    BY <1>1, <1>2, <1>9, OwnBefore DEF FilesInv
  <2>2. \A r \in fileRows' : r.id \notin Own(c)
    BY <1>2, <1>3, <2>1, RowsHaveIds DEF Own
  <2> QED BY <1>1, <1>4, <1>9, <2>2, EndKept
<1>10. ~(~gap /\ slips = 0)
  BY <1>2 DEF FilesInv, NothingIsLeft
<1> QED BY <1>3, <1>5, <1>6, <1>7, <1>8, <1>9, <1>10, FileStep, StepPlaces

-----------------------------------------------------------------------------
\* The replacement of a file.

LEMMA EndStep ==
    ASSUME FilesInv, NEW c \in FileCall, FStep(c, "idle"), Rest,
           gap => gap', gap' \in BOOLEAN, Smooth \/ Slip,
           ObjectsMove(c), BackupsMove(c), RowsMove(c),
           ~gap' /\ ~gap => \A r \in fileRows' : r.id \in Own(c) => Described(r)',
           ~gap' /\ ~gap /\ slips = 0 /\ Smooth =>
              /\ \A v \in backups' : v.by # fcall[c].new
              /\ \A o \in objects' : o.at.name \in Own(c) => \E r \in fileRows' : KeyOf(o) = RowKey(r)
    PROVE  FilesInv'
<1>1. NamesInv /\ FileTypes
  BY DEF FilesInv, NamesInv
<1>2. fcall'[c].step = "idle" /\ fcall'[c].row = NoFile /\ fcall'[c].new = 0
  BY <1>1, FStepIs, StepPlaces
<1>3. Shape(fcall'[c])
  BY <1>2 DEF Shape
<1>4. NamesInv' /\ ~gap' /\ ~gap => Kept(c)
  BY <1>1, <1>2, EndKept
<1>5. ~gap' /\ ~gap /\ slips = 0 /\ Smooth => Left(c)
  BY <1>2 DEF Left
<1> QED BY <1>3, <1>4, <1>5, FileStep, StepPlaces

LEMMA RowedCall ==
    ASSUME FilesInv, NEW c \in FileCall,
           fcall[c].step \in {"overwrite", "backup", "unlink", "copy", "row", "clean", "restore"}
    PROVE  LET f == fcall[c] IN
           /\ NamesInv /\ FileTypes /\ f \in FileAt /\ Shape(f) /\ f.new # 0
           /\ f.new \in 1 .. MaxContents /\ f.row \in FileRow /\ f.row # NoFile
           /\ Temp(c) \in Keys /\ Temp(c).at.name = f.new
           /\ Temp(c) = Key(f.place, NewAt(f.new, f.place))
           /\ OldKey(c) \in Keys /\ OldKey(c).at.name = f.row.id
           /\ Key("cloud", f.row.at) \in Keys /\ Key("cloud", f.row.at).at.name = f.row.id
           /\ f.row.place \in Stores /\ f.row.at.name = f.row.id
           /\ ~gap => /\ WorkInv /\ AtWork(f) /\ f.row.place = f.place /\ f.row.id # f.new
                      /\ f.place = "local" => RowKey(f.row) = OldKey(c)
                      /\ f.place = "cloud" => RowKey(f.row) = Key("cloud", f.row.at)
                      /\ \A r \in fileRows : r.id # f.new
                      /\ f.step # "clean" => /\ f.row \in fileRows
                                             /\ \A r \in fileRows : r.id = f.row.id => r = f.row
                      /\ \A v \in backups : v.by = f.new => v.what = f.row.what
                      /\ f.step \in {"overwrite", "backup"} => \A v \in backups : v.by # f.new
<1> DEFINE f == fcall[c]
<1>1. NamesInv /\ FileTypes
  BY DEF FilesInv, NamesInv
<1>2. f \in FileAt /\ Shape(f)
  BY <1>1, CallIs
<1>3. f.new # 0 /\ f.row \in FileRow /\ f.row # NoFile
  BY <1>2, RowsHaveIds DEF Shape
<1>4. /\ f.new \in 1 .. MaxContents /\ Temp(c) \in Keys /\ Temp(c).at.name = f.new
      /\ OldKey(c) \in Keys /\ OldKey(c).at.name = f.row.id
      /\ Key("cloud", f.row.at) \in Keys /\ Key("cloud", f.row.at).at.name = f.row.id
      /\ f.row.at.name = f.row.id
      /\ f.row.place = "local" => OldKey(c) = RowKey(f.row)
      /\ f.row.place = "cloud" => Key("cloud", f.row.at) = RowKey(f.row)
  BY <1>1, <1>3, CallIs
<1>5. f.row.place \in Stores
  BY <1>3 DEF FileRow
<1>6. Temp(c) = Key(f.place, NewAt(f.new, f.place))
  BY DEF Temp
<1>7. ASSUME ~gap
      PROVE  /\ WorkInv /\ AtWork(f) /\ f.row.place = f.place /\ f.row.id # f.new
             /\ \A r \in fileRows : r.id # f.new
             /\ f.step # "clean" => /\ f.row \in fileRows
                                    /\ \A r \in fileRows : r.id = f.row.id => r = f.row
             /\ \A v \in backups : v.by = f.new => v.what = f.row.what
             /\ f.step \in {"overwrite", "backup"} => \A v \in backups : v.by # f.new
  <2>1. WorkInv
    BY <1>7 DEF FilesInv
  <2>2. /\ AtWork(f) /\ f.row.id # f.new /\ \A r \in fileRows : r.id # f.new
        /\ f.step # "clean" => \A r \in fileRows : r.id = f.row.id => r = f.row
        /\ \A v \in backups : v.by = f.new => v.what = f.row.what
        /\ f.step \in {"overwrite", "backup"} => \A v \in backups : v.by # f.new
    BY <1>1, <1>3, <1>7, <2>1, OwnBefore DEF Inside
  <2>3. f.row.place = f.place /\ (f.step # "clean" => f.row \in fileRows)
    BY <1>3, <2>2 DEF AtWork
  <2> QED BY <2>1, <2>2, <2>3
<1> HIDE DEF f
<1> QED BY <1>1, <1>2, <1>3, <1>4, <1>5, <1>6, <1>7 DEF f

LEMMA OverwriteFiles == ASSUME FilesInv, NEW c \in FileCall, Overwrite(c) PROVE FilesInv'
<1>1. fcall[c].step = "overwrite"
  BY DEF Overwrite, FAt
<1>2. PICK f : /\ f = fcall[c] /\ f.new # 0 /\ f.step = "overwrite" /\ f.place = "cloud"
               /\ f.new \in 1 .. MaxContents /\ f.row \in FileRow /\ f.row # NoFile
               /\ ~gap => /\ WorkInv /\ AtWork(f) /\ f.row.place = "cloud" /\ f.row.id # f.new
                          /\ RowKey(f.row) = Key("cloud", f.row.at)
                          /\ \A r \in fileRows : r.id # f.new
                          /\ f.row \in fileRows /\ \A r \in fileRows : r.id = f.row.id => r = f.row
                          /\ \A v \in backups : v.by # f.new
  BY <1>1, RowedCall DEF Shape
<1>3. NamesInv /\ FileTypes
  BY <1>1, RowedCall
<1>4. PICK k \in Keys : k = Key("cloud", f.row.at) /\ k.at.name = f.row.id
  BY <1>1, <1>2, RowedCall
<1>5. /\ Rest /\ UNCHANGED <<fileRows, backups>>
      /\ \/ objects' = Put(objects, k, f.new) /\ Smooth /\ FStep(c, "row") /\ UNCHANGED gap
         \/ Slip /\ FStep(c, "idle") /\ UNCHANGED <<objects, gap>>
         \/ objects' = Put(objects, k, f.new) /\ Slip /\ FStep(c, "idle") /\ gap' = TRUE
  BY <1>2, <1>4 DEF Overwrite
<1>6. ObjectsMove(c)
  BY <1>2, <1>4, <1>5 DEF ObjectsMove, Own
<1>7. BackupsMove(c) /\ RowsMove(c)
  BY <1>3, <1>5, BackupsStay, RowsStay
<1>8. gap' \in BOOLEAN /\ (gap => gap') /\ (Smooth \/ Slip)
  <2>1. gap' = gap \/ gap' = TRUE
    BY <1>5
  <2>2. Smooth \/ Slip
    BY <1>5
  <2> QED BY <1>3, <2>1, <2>2 DEF FileTypes
<1>9. CASE objects' = Put(objects, k, f.new) /\ Smooth /\ FStep(c, "row") /\ UNCHANGED gap
  <2>1. PICK g : g = fcall'[c] /\ g.step = "row" /\ g.row = f.row /\ g.new = f.new /\ g.place = f.place
    BY <1>2, <1>3, <1>9, FStepIs, StepPlaces
  <2>2. Shape(fcall'[c])
    BY <1>2, <2>1 DEF Shape
  <2>3. ASSUME ~gap PROVE Kept(c)
    <3>1. There(k, f.new)'
      BY <1>2, <1>3, <1>9, IsPut
    <3>2. AtWork(fcall[c])'
      BY <1>2, <1>4, <1>5, <2>1, <2>3, <3>1 DEF AtWork
    <3> QED BY <1>2, <1>5, <2>1, <2>3, <3>2 DEF Kept, Own
  <2>4. ASSUME ~gap, slips = 0 PROVE Left(c)
    <3>1. NothingIsLeft
      BY <2>4 DEF FilesInv
    <3>2. ASSUME NEW o \in objects', o.at.name \in Own(c)
          PROVE  \E r \in fileRows' : KeyOf(o) = RowKey(r)
      <4>1. o = Obj(k, f.new) \/ o \in objects
        BY <1>2, <1>3, <1>9, PutIs DEF FileTypes
      <4>2. KeyOf(Obj(k, f.new)) = RowKey(f.row)
        BY <1>2, <1>4, <2>4, ObjectsAre
      <4>3. ~Uploaded(fcall[c])
        BY <1>2 DEF Uploaded
      <4> QED BY <1>2, <1>3, <1>5, <2>4, <3>1, <3>2, <4>1, <4>2, <4>3, OldLeft
    <3> QED BY <1>2, <1>5, <2>1, <3>2 DEF Left
  <2> QED BY <1>2, <1>5, <1>6, <1>7, <1>8, <1>9, <2>2, <2>3, <2>4, FileStep, StepPlaces
<1>10. CASE Slip /\ FStep(c, "idle") /\ UNCHANGED <<objects, gap>>
  <2>1. ASSUME ~gap, NEW r \in fileRows', r.id \in Own(c) PROVE Described(r)'
    <3>1. Described(f.row)
      BY <1>2, <2>1 DEF AtWork
    <3>2. r = f.row
      BY <1>2, <1>5, <2>1 DEF Own
    <3> QED BY <1>10, <3>1, <3>2 DEF Described, There
  <2>2. ~Smooth
    BY <1>3, <1>10 DEF Slip, Smooth, FileTypes
  <2> QED BY <1>5, <1>6, <1>7, <1>8, <1>10, <2>1, <2>2, EndStep
<1>11. CASE FStep(c, "idle") /\ gap' = TRUE
  BY <1>5, <1>6, <1>7, <1>8, <1>11, EndStep
<1> QED BY <1>5, <1>9, <1>10, <1>11

LEMMA BackupFiles == ASSUME FilesInv, NEW c \in FileCall, BackupFile(c) PROVE FilesInv'
<1>1. fcall[c].step = "backup"
  BY DEF BackupFile, FAt
<1>2. PICK f : /\ f = fcall[c] /\ f.new # 0 /\ f.step = "backup" /\ f.place = "local"
               /\ f.new \in 1 .. MaxContents /\ f.row \in FileRow /\ f.row # NoFile
               /\ ~gap => /\ WorkInv /\ AtWork(f) /\ f.row.place = "local" /\ f.row.id # f.new
                          /\ RowKey(f.row) = OldKey(c)
                          /\ \A r \in fileRows : r.id # f.new
                          /\ f.row \in fileRows /\ \A r \in fileRows : r.id = f.row.id => r = f.row
                          /\ \A v \in backups : v.by # f.new
  BY <1>1, RowedCall DEF Shape
<1>3. NamesInv /\ FileTypes /\ KeysAreUnique /\ objects \in SUBSET Object
  BY <1>1, RowedCall DEF NamesInv, FileTypes
<1>4. PICK k \in Keys : k = OldKey(c) /\ k.at.name = f.row.id
  BY <1>1, <1>2, RowedCall
<1> DEFINE copy == [by |-> f.new, of |-> k, what |-> WhatIs(k)]
<1>5. /\ Rest /\ UNCHANGED <<fileRows, objects>>
      /\ \/ /\ Has(objects, k) /\ backups' = backups \cup {copy}
            /\ Smooth /\ FStep(c, "unlink") /\ UNCHANGED gap
         \/ /\ Slip \/ Smooth
            /\ gap' = TRUE /\ FStep(c, "idle") /\ UNCHANGED backups
  BY <1>2, <1>4 DEF BackupFile
<1>6. ObjectsMove(c) /\ RowsMove(c)
  BY <1>3, <1>5, RowsStay DEF ObjectsMove
<1>7. CASE Has(objects, k) /\ backups' = backups \cup {copy}
            /\ Smooth /\ FStep(c, "unlink") /\ UNCHANGED gap
  <2>1. PICK g : g = fcall'[c] /\ g.step = "unlink" /\ g.row = f.row /\ g.new = f.new /\ g.place = f.place
    BY <1>2, <1>3, <1>7, FStepIs, StepPlaces
  <2>2. Shape(fcall'[c])
    BY <1>2, <2>1 DEF Shape
  <2>3. WhatIs(k) \in 1 .. MaxContents
    BY <1>2, <1>3, <1>7, WhatIsThere
  <2>4. copy \in Backup /\ copy.by = f.new /\ copy.what = WhatIs(k)
    BY <1>2, <2>3 DEF Backup, Keys
  <2> HIDE DEF copy
  <2>5. BackupsMove(c)
    BY <1>2, <1>3, <1>7, <2>4 DEF BackupsMove, FileTypes
  <2>6. ASSUME ~gap PROVE Kept(c)
    <3>1. Described(f.row)
      BY <1>2, <2>6 DEF AtWork
    <3>2. WhatIs(k) = f.row.what
      <4>1. f.row.what \in 1 .. MaxContents
        BY <1>2 DEF FileRow
      <4> QED BY <1>2, <1>3, <1>4, <2>6, <3>1, <4>1, WhatIsThere DEF Described
    <3>3. Described(f.row)' /\ There(Key(f.place, NewAt(f.new, f.place)), f.new)'
      BY <1>2, <1>5, <2>6, <3>1 DEF Described, There, AtWork
    <3>4. AtWork(fcall[c])'
      BY <1>2, <1>5, <2>1, <2>6, <3>3 DEF AtWork
    <3>5. \A v \in backups' : v.by = f.new => v.what = f.row.what
      BY <1>2, <1>7, <2>4, <2>6, <3>2
    <3> QED BY <1>2, <1>5, <2>1, <2>6, <3>4, <3>5 DEF Kept, Own, Inside
  <2>7. ASSUME ~gap, slips = 0 PROVE Left(c)
    <3>1. NothingIsLeft
      BY <2>7 DEF FilesInv
    <3>2. Temp(c)' = Temp(c) /\ Uploaded(g)
      BY <1>2, <2>1 DEF Temp, Uploaded
    <3> QED BY <1>2, <1>3, <1>5, <2>1, <2>7, <3>1, <3>2, OldLeft DEF Left
  <2> QED BY <1>2, <1>3, <1>5, <1>6, <1>7, <2>2, <2>5, <2>6, <2>7, FileStep, StepPlaces DEF FileTypes
<1>8. CASE /\ Slip \/ Smooth
           /\ gap' = TRUE /\ FStep(c, "idle") /\ UNCHANGED backups
  <2>1. BackupsMove(c) /\ gap' \in BOOLEAN
    BY <1>3, <1>8, BackupsStay
  <2> QED BY <1>5, <1>6, <1>8, <2>1, EndStep
<1> QED BY <1>5, <1>7, <1>8

LEMMA UnlinkFiles == ASSUME FilesInv, NEW c \in FileCall, UnlinkOld(c) PROVE FilesInv'
<1>1. fcall[c].step = "unlink"
  BY DEF UnlinkOld, FAt
<1>2. PICK f : /\ f = fcall[c] /\ f.new # 0 /\ f.step = "unlink" /\ f.place = "local"
               /\ f.new \in 1 .. MaxContents /\ f.row \in FileRow /\ f.row # NoFile
               /\ ~gap => /\ WorkInv /\ AtWork(f) /\ f.row.place = "local" /\ f.row.id # f.new
                          /\ RowKey(f.row) = OldKey(c)
                          /\ \A r \in fileRows : r.id # f.new
                          /\ f.row \in fileRows /\ \A r \in fileRows : r.id = f.row.id => r = f.row
                          /\ \A v \in backups : v.by = f.new => v.what = f.row.what
  BY <1>1, RowedCall DEF Shape
<1>3. NamesInv /\ FileTypes /\ KeysAreUnique /\ objects \in SUBSET Object
  BY <1>1, RowedCall DEF NamesInv, FileTypes
<1>4. PICK k \in Keys : k = OldKey(c) /\ k.at.name = f.row.id
  BY <1>1, <1>2, RowedCall
<1>5. PICK h \in Keys : h = Temp(c) /\ h.at.name = f.new /\ h = Key(f.place, NewAt(f.new, f.place))
  BY <1>1, <1>2, RowedCall
<1>6. /\ Rest /\ UNCHANGED <<fileRows, backups, gap>>
      /\ \/ objects' = Removed(objects, k) /\ Smooth /\ FStep(c, "copy")
         \/ /\ (Has(objects, h) /\ Has(objects, k) /\ Slip)
               \/ (~(Has(objects, h) /\ Has(objects, k)) /\ Smooth)
            /\ FStep(c, "restore") /\ UNCHANGED objects
  BY <1>4, <1>5 DEF UnlinkOld
<1>7. ObjectsMove(c)
  BY <1>2, <1>4, <1>6 DEF ObjectsMove, Own
<1>8. BackupsMove(c) /\ RowsMove(c) /\ gap' \in BOOLEAN
  BY <1>3, <1>6, BackupsStay, RowsStay DEF FileTypes
<1>9. PICK place \in Steps : /\ FStep(c, place) /\ place \in {"copy", "restore"}
                             /\ place = "copy" => objects' = Removed(objects, k) /\ Smooth
                             /\ place = "restore" =>
                                   (Has(objects, h) /\ Has(objects, k) /\ Slip)
                                      \/ (~(Has(objects, h) /\ Has(objects, k)) /\ Smooth)
  BY <1>6, StepPlaces
<1>10. PICK g : /\ g = fcall'[c] /\ g.step = place /\ g.row = f.row /\ g.new = f.new
                /\ g.place = f.place
  BY <1>2, <1>3, <1>9, FStepIs, StepPlaces
<1>11. Shape(fcall'[c])
  BY <1>2, <1>9, <1>10 DEF Shape
<1>12. ~gap => There(h, f.new) /\ There(k, f.row.what)
  BY <1>2, <1>4, <1>5 DEF AtWork, Described
<1>13. ~gap => Has(objects, h) /\ Has(objects, k)
  <2>1. f.row.what \in 1 .. MaxContents
    BY <1>2 DEF FileRow
  <2> QED BY <1>2, <1>3, <1>4, <1>12, <2>1, WhatIsThere
<1>14. ASSUME ~gap PROVE Kept(c)
  <2>1. place = "copy" => There(h, f.new)'
    <3>1. h # k
      BY <1>2, <1>4, <1>5, <1>14
    <3> QED BY <1>2, <1>3, <1>9, <1>12, <1>14, <3>1, StaysThere
  <2>2. AtWork(fcall[c])'
    BY <1>2, <1>5, <1>6, <1>9, <1>10, <1>14, <2>1 DEF AtWork
  <2> QED BY <1>2, <1>6, <1>9, <1>10, <1>14, <2>2 DEF Kept, Own, Inside
<1>15. ASSUME ~gap, slips = 0, Smooth PROVE Left(c)
  <2>1. place = "copy"
    BY <1>3, <1>9, <1>13, <1>15 DEF Slip, Smooth, FileTypes
  <2>2. NothingIsLeft
    BY <1>15 DEF FilesInv
  <2>3. Temp(c)' = Temp(c) /\ Uploaded(g)
    BY <1>2, <1>10, <2>1 DEF Temp, Uploaded
  <2>4. objects' \subseteq objects
    BY <1>3, <1>9, <2>1, RemovedIs
  <2> QED BY <1>2, <1>3, <1>6, <1>10, <1>15, <2>1, <2>2, <2>3, <2>4, OldLeft DEF Left
<1>16. Smooth \/ Slip
  BY <1>6
<1> QED BY <1>2, <1>6, <1>7, <1>8, <1>9, <1>11, <1>14, <1>15, <1>16, FileStep

LEMMA CopyFiles == ASSUME FilesInv, NEW c \in FileCall, CopyNew(c) PROVE FilesInv'
<1>1. fcall[c].step = "copy"
  BY DEF CopyNew, FAt
<1>2. PICK f : /\ f = fcall[c] /\ f.new # 0 /\ f.step = "copy" /\ f.place = "local"
               /\ f.new \in 1 .. MaxContents /\ f.row \in FileRow /\ f.row # NoFile
               /\ ~gap => /\ WorkInv /\ AtWork(f) /\ f.row.place = "local" /\ f.row.id # f.new
                          /\ RowKey(f.row) = OldKey(c)
                          /\ \A r \in fileRows : r.id # f.new
                          /\ f.row \in fileRows /\ \A r \in fileRows : r.id = f.row.id => r = f.row
                          /\ \A v \in backups : v.by = f.new => v.what = f.row.what
  BY <1>1, RowedCall DEF Shape
<1>3. NamesInv /\ FileTypes /\ KeysAreUnique /\ objects \in SUBSET Object
  BY <1>1, RowedCall DEF NamesInv, FileTypes
<1>4. PICK k \in Keys : k = OldKey(c) /\ k.at.name = f.row.id
  BY <1>1, <1>2, RowedCall
<1>5. PICK h \in Keys : h = Temp(c) /\ h.at.name = f.new /\ h = Key(f.place, NewAt(f.new, f.place))
  BY <1>1, <1>2, RowedCall
<1>6. /\ Rest /\ UNCHANGED <<fileRows, backups, gap>>
      /\ \/ /\ Has(objects, h) /\ objects' = Put(objects, k, WhatIs(h))
            /\ Smooth /\ FStep(c, "row")
         \/ /\ (Has(objects, h) /\ Slip) \/ (~Has(objects, h) /\ Smooth)
            /\ FStep(c, "restore") /\ UNCHANGED objects
  BY <1>4, <1>5 DEF CopyNew
<1>7. /\ Has(objects, h) => WhatIs(h) \in 1 .. MaxContents
      /\ ~gap => Has(objects, h) /\ WhatIs(h) = f.new
  <2>1. ~gap => There(h, f.new)
    BY <1>2, <1>5 DEF AtWork
  <2> QED BY <1>2, <1>3, <2>1, WhatIsThere
<1>8. ObjectsMove(c)
  BY <1>2, <1>4, <1>6, <1>7 DEF ObjectsMove, Own
<1>9. BackupsMove(c) /\ RowsMove(c) /\ gap' \in BOOLEAN /\ (Smooth \/ Slip)
  <2>1. Smooth \/ Slip
    BY <1>6
  <2> QED BY <1>3, <1>6, <2>1, BackupsStay, RowsStay DEF FileTypes
<1>10. CASE Has(objects, h) /\ objects' = Put(objects, k, WhatIs(h)) /\ Smooth /\ FStep(c, "row")
  <2>1. PICK g : g = fcall'[c] /\ g.step = "row" /\ g.row = f.row /\ g.new = f.new /\ g.place = f.place
    BY <1>2, <1>3, <1>10, FStepIs, StepPlaces
  <2>2. Shape(fcall'[c])
    BY <1>2, <2>1 DEF Shape
  <2>3. ASSUME ~gap PROVE Kept(c)
    <3>1. There(k, f.new)'
      BY <1>2, <1>3, <1>7, <1>10, <2>3, IsPut
    <3>2. AtWork(fcall[c])'
      BY <1>2, <1>4, <1>6, <2>1, <2>3, <3>1 DEF AtWork, Inside
    <3> QED BY <1>2, <1>6, <2>1, <2>3, <3>2 DEF Kept, Own
  <2>4. ASSUME ~gap, slips = 0 PROVE Left(c)
    <3>1. NothingIsLeft
      BY <2>4 DEF FilesInv
    <3>2. Temp(c)' = Temp(c) /\ Uploaded(g)
      BY <1>2, <2>1 DEF Temp, Uploaded
    <3>3. ASSUME NEW o \in objects', o.at.name \in Own(c)
          PROVE  (\E r \in fileRows' : KeyOf(o) = RowKey(r)) \/ KeyOf(o) = Temp(c)
      <4>1. o = Obj(k, f.new) \/ o \in objects
        <5>1. objects' = Put(objects, k, f.new)
          BY <1>7, <1>10, <2>4
        <5> QED BY <1>2, <1>3, <5>1, PutIs
      <4>2. KeyOf(Obj(k, f.new)) = RowKey(f.row)
        BY <1>2, <1>4, <2>4, ObjectsAre
      <4> QED BY <1>2, <1>3, <1>6, <2>4, <3>1, <3>3, <4>1, <4>2, OldLeft
    <3> QED BY <1>2, <2>1, <3>2, <3>3 DEF Left
  <2> QED BY <1>2, <1>6, <1>8, <1>9, <1>10, <2>2, <2>3, <2>4, FileStep, StepPlaces
<1>11. CASE /\ (Has(objects, h) /\ Slip) \/ (~Has(objects, h) /\ Smooth)
            /\ FStep(c, "restore") /\ UNCHANGED objects
  <2>1. PICK g : /\ g = fcall'[c] /\ g.step = "restore" /\ g.row = f.row /\ g.new = f.new
                 /\ g.place = f.place
    BY <1>2, <1>3, <1>11, FStepIs, StepPlaces
  <2>2. Shape(fcall'[c])
    BY <1>2, <2>1 DEF Shape
  <2>3. ASSUME ~gap PROVE Kept(c)
    <3>1. AtWork(fcall[c])'
      BY <1>2, <1>6, <2>1, <2>3 DEF AtWork, Inside
    <3> QED BY <1>2, <1>6, <2>1, <2>3, <3>1 DEF Kept, Own, Inside
  <2>4. ~gap => ~Smooth
    BY <1>3, <1>7, <1>11 DEF Slip, Smooth, FileTypes
  <2> QED BY <1>2, <1>6, <1>8, <1>9, <1>11, <2>2, <2>3, <2>4, FileStep, StepPlaces
<1> QED BY <1>6, <1>10, <1>11

LEMMA RowFiles == ASSUME FilesInv, NEW c \in FileCall, UpdateFileRow(c) PROVE FilesInv'
<1>1. fcall[c].step = "row"
  BY DEF UpdateFileRow, FAt
<1>2. PICK f : /\ f = fcall[c] /\ f.new # 0 /\ f.step = "row" /\ f.place \in Stores
               /\ f.new \in 1 .. MaxContents /\ f.row \in FileRow /\ f.row # NoFile
               /\ f.row.at.name = f.row.id
               /\ ~gap => /\ WorkInv /\ AtWork(f) /\ f.row.place = f.place /\ f.row.id # f.new
                          /\ \A r \in fileRows : r.id # f.new
                          /\ f.row \in fileRows /\ \A r \in fileRows : r.id = f.row.id => r = f.row
                          /\ \A v \in backups : v.by = f.new => v.what = f.row.what
  BY <1>1, RowedCall DEF FileAt
<1>3. NamesInv /\ FileTypes /\ IdsAreUnique /\ fileRows \in SUBSET FileRow
  BY DEF FilesInv, NamesInv, FileTypes
<1> DEFINE found == {r \in fileRows : r.id = f.row.id}
           cloud == f.place = "cloud"
           w(r) == [r EXCEPT !.place = f.place, !.at = IF cloud THEN r.at ELSE f.row.at,
                             !.what = f.new]
           written == (fileRows \ found) \cup {w(r) : r \in found}
<1>4. /\ Rest /\ UNCHANGED <<objects, backups>>
      /\ \/ /\ found # {} /\ fileRows' = written
            /\ Smooth /\ FStep(c, IF cloud THEN "idle" ELSE "clean") /\ UNCHANGED gap
         \/ /\ IF found = {} THEN Smooth ELSE Slip
            /\ gap' = (gap \/ cloud)
            /\ FStep(c, IF cloud THEN "idle" ELSE "restore") /\ UNCHANGED fileRows
         \/ /\ found # {} /\ fileRows' = written
            /\ Slip /\ gap' = (gap \/ ~cloud)
            /\ FStep(c, IF cloud THEN "idle" ELSE "restore")
  BY <1>2 DEF UpdateFileRow
<1>5. \A r \in found : /\ w(r) \in FileRow /\ w(r).id = r.id /\ w(r).what = f.new
                       /\ w(r).place = f.place /\ w(r).at = IF cloud THEN r.at ELSE f.row.at
                       /\ w(r).at.name = r.id
  <2> SUFFICES ASSUME NEW r \in found
               PROVE  /\ w(r) \in FileRow /\ w(r).id = r.id /\ w(r).what = f.new
                      /\ w(r).place = f.place /\ w(r).at = IF cloud THEN r.at ELSE f.row.at
                      /\ w(r).at.name = r.id
    OBVIOUS
  <2> DEFINE at == IF cloud THEN r.at ELSE f.row.at
  <2>1. r \in FileRow /\ r.id = f.row.id /\ r.at.name = r.id
    BY <1>3 DEF NamesInv, NamesAreOld
  <2>2. at \in Location /\ at.name = r.id
    BY <1>2, <2>1 DEF FileRow
  <2>3. w(r) = [r EXCEPT !.place = f.place, !.at = at, !.what = f.new]
    OBVIOUS
  <2> HIDE DEF at, w
  <2>4. w(r) \in FileRow /\ w(r).id = r.id /\ w(r).what = f.new /\ w(r).place = f.place /\ w(r).at = at
    BY <1>2, <2>1, <2>2, <2>3 DEF FileRow
  <2> QED BY <2>2, <2>4 DEF at
<1> HIDE DEF w
<1>6. \A x \in written : \/ x \in fileRows /\ x.id # f.row.id
                         \/ \E r \in fileRows : r.id = f.row.id /\ x = w(r) /\ x.id = r.id
  BY <1>5
<1>7. fileRows' = written => RowsMove(c)
  <2> SUFFICES ASSUME fileRows' = written PROVE RowsMove(c)
    OBVIOUS
  <2>1. fileRows' \in SUBSET FileRow
    BY <1>3, <1>5
  <2>2. IdsAreUnique'
    BY <1>3, <1>6 DEF IdsAreUnique
  <2>3. ASSUME NEW x \in fileRows'
        PROVE  x.at.name = x.id /\ x.id <= contents /\ \E s \in fileRows : s.id = x.id
    <3>1. \A r \in fileRows : r.at.name = r.id /\ r.id <= contents
      BY <1>3 DEF NamesInv, NamesAreOld
    <3>2. CASE x \in fileRows
      BY <3>1, <3>2
    <3>3. CASE \E r \in fileRows : r.id = f.row.id /\ x = w(r) /\ x.id = r.id
      BY <1>5, <3>1, <3>3
    <3> QED BY <1>6, <3>2, <3>3
  <2>4. ASSUME NEW r \in FileRow, r.id # f.row.id PROVE r \in fileRows' <=> r \in fileRows
    BY <1>6, <2>4
  <2> QED BY <1>2, <2>1, <2>2, <2>3, <2>4 DEF RowsMove, Own
<1>8. ASSUME ~gap
      PROVE  /\ found # {} /\ w(f.row) \in written /\ w(f.row).id = f.row.id
             /\ \A x \in written : x.id = f.row.id => x = w(f.row)
             /\ \A x \in written : x.id # f.new /\ x.id # 0
             /\ w(f.row) = [f.row EXCEPT !.what = f.new]
             /\ RowKey(w(f.row)) = RowKey(f.row)
  <2>1. f.row \in found
    BY <1>2, <1>8
  <2>2. \A r \in fileRows : r.id = f.row.id => r = f.row
    BY <1>2, <1>8
  <2>3. w(f.row) = [f.row EXCEPT !.what = f.new]
    <3>1. f.row.place = f.place
      BY <1>2, <1>8
    <3>2. w(f.row) = [f.row EXCEPT !.place = f.row.place, !.at = f.row.at, !.what = f.new]
      BY <3>1 DEF w
    <3> QED BY <1>2, <3>2 DEF FileRow
  <2>4. w(f.row).place = f.row.place /\ w(f.row).at = f.row.at
    BY <1>2, <1>5, <1>8, <2>1
  <2>5. \A x \in written : x.id # f.new /\ x.id # 0
    BY <1>2, <1>3, <1>6, <1>8, RowsHaveIds
  <2>6. \A x \in written : x.id = f.row.id => x = w(f.row)
    BY <1>6, <2>2
  <2> QED BY <1>5, <2>1, <2>3, <2>4, <2>5, <2>6 DEF RowKey
<1>9. ~gap => There(RowKey(f.row), f.new)
  BY <1>2 DEF AtWork
<1>10. ObjectsMove(c) /\ BackupsMove(c) /\ (Smooth \/ Slip)
  <2>1. Smooth \/ Slip
    BY <1>4
  <2> QED BY <1>3, <1>4, <2>1, BackupsStay DEF ObjectsMove
<1>11. RowsMove(c) /\ gap' \in BOOLEAN /\ (gap => gap')
  <2>1. fileRows' = written \/ fileRows' = fileRows
    BY <1>4
  <2>2. gap' = gap \/ gap' = (gap \/ cloud) \/ gap' = (gap \/ ~cloud)
    BY <1>4
  <2>3. gap \in BOOLEAN
    BY <1>3 DEF FileTypes
  <2>4. gap' \in BOOLEAN /\ (gap => gap')
    <3>1. /\ (gap \/ cloud) \in BOOLEAN /\ (gap => (gap \/ cloud))
          /\ (gap \/ ~cloud) \in BOOLEAN /\ (gap => (gap \/ ~cloud))
      BY Zenon
    <3> HIDE DEF cloud
    <3> QED BY <2>2, <2>3, <3>1, Zenon
  <2> QED BY <1>3, <1>7, <2>1, <2>4, RowsStay
<1>12. CASE cloud
  <2>1. /\ FStep(c, "idle")
        /\ ~gap' => fileRows' = written
    BY <1>4, <1>12
  <2>2. ASSUME ~gap', ~gap, NEW r \in fileRows', r.id \in Own(c) PROVE Described(r)'
    <3>1. r = w(f.row)
      BY <1>2, <1>8, <2>1, <2>2 DEF Own
    <3>2. r.what = f.new /\ RowKey(r) = RowKey(f.row)
      BY <1>2, <1>5, <1>8, <2>2, <3>1
    <3>3. Obj(RowKey(r), r.what) \in objects'
      BY <1>4, <1>9, <2>2, <3>2 DEF There
    <3> QED BY <3>3 DEF Described, There
  <2>3. ASSUME ~gap', ~gap, slips = 0
        PROVE  /\ \A v \in backups' : v.by # fcall[c].new
               /\ \A o \in objects' : o.at.name \in Own(c) => \E r \in fileRows' : KeyOf(o) = RowKey(r)
    <3>1. \A v \in backups : v.by # f.new
      BY <1>2, <1>12, <2>3 DEF WorkInv, BackupsAreTrue
    <3>2. ASSUME NEW o \in objects, o.at.name \in Own(c)
          PROVE  \E r \in fileRows' : KeyOf(o) = RowKey(r)
      <4>1. NothingIsLeft /\ ~Uploaded(fcall[c])
        BY <1>2, <1>12, <2>3 DEF FilesInv, Uploaded
      <4>2. PICK r \in fileRows : KeyOf(o) = RowKey(r)
        BY <1>3, <2>3, <3>2, <4>1, OldLeft
      <4>3. CASE r \in found
        <5>1. r = f.row
          BY <1>2, <2>3, <4>3
        <5> QED BY <1>8, <2>1, <2>3, <4>2, <5>1
      <4>4. CASE r \notin found
        BY <2>1, <2>3, <4>2, <4>4
      <4> QED BY <4>3, <4>4
    <3> QED BY <1>2, <1>4, <3>1, <3>2
  <2> HIDE DEF written, found, cloud
  <2> QED BY <1>4, <1>10, <1>11, <2>1, <2>2, <2>3, EndStep
<1>13. CASE ~cloud
  <2>1. f.place = "local"
    BY <1>2, <1>13 DEF Stores
  <2>2. PICK place \in Steps : /\ FStep(c, place) /\ place \in {"clean", "restore"}
                               /\ ~gap' /\ place = "clean" => fileRows' = written
                               /\ ~gap' /\ place = "restore" => fileRows' = fileRows
                               /\ ~gap /\ place = "restore" => Slip
    BY <1>4, <1>8, <1>13, StepPlaces
  <2>3. PICK g : g = fcall'[c] /\ g.step = place /\ g.row = f.row /\ g.new = f.new /\ g.place = f.place
    BY <1>2, <1>3, <2>2, FStepIs
  <2>4. Shape(fcall'[c])
    BY <1>2, <2>1, <2>2, <2>3 DEF Shape
  <2>5. ASSUME ~gap', ~gap PROVE Kept(c)
    <3>1. place = "clean" => [f.row EXCEPT !.what = f.new] \in fileRows'
      BY <1>8, <2>2, <2>5
    <3>2. place = "restore" => f.row \in fileRows'
      BY <1>2, <2>2, <2>5
    <3>3. place = "clean" => There(RowKey(f.row), f.new)'
      BY <1>4, <1>9, <2>5 DEF There
    <3>4. f.row.place = f.place
      BY <1>2, <2>5
    <3>5. AtWork(fcall[c])'
      BY <2>2, <2>3, <3>1, <3>2, <3>3, <3>4 DEF AtWork
    <3>6. \A r \in fileRows' : r.id # f.new
      BY <1>2, <1>8, <2>2, <2>5
    <3> QED BY <1>2, <1>4, <2>1, <2>2, <2>3, <2>5, <3>5, <3>6 DEF Kept, Own, Inside
  <2>6. ASSUME ~gap', ~gap, slips = 0, Smooth PROVE Left(c)
    <3>1. place = "clean" /\ fileRows' = written
      BY <1>3, <2>2, <2>6 DEF Slip, Smooth, FileTypes
    <3>2. Temp(c)' = Temp(c) /\ Uploaded(g)
      BY <1>2, <2>3, <3>1 DEF Temp, Uploaded
    <3>3. ASSUME NEW o \in objects, o.at.name \in Own(c)
          PROVE  (\E r \in fileRows' : KeyOf(o) = RowKey(r)) \/ KeyOf(o) = Temp(c)
      <4>1. NothingIsLeft
        BY <2>6 DEF FilesInv
      <4>2. CASE \E r \in fileRows : KeyOf(o) = RowKey(r)
        <5>1. PICK r \in fileRows : KeyOf(o) = RowKey(r)
          BY <4>2
        <5>2. CASE r \in found
          <6>1. r = f.row
            BY <1>2, <2>6, <5>2
          <6> QED BY <1>8, <2>6, <3>1, <5>1, <6>1
        <5>3. CASE r \notin found
          BY <3>1, <5>1, <5>3
        <5> QED BY <5>2, <5>3
      <4> QED BY <1>3, <2>6, <3>3, <4>1, <4>2, OldLeft
    <3> QED BY <1>2, <1>4, <2>3, <3>1, <3>2, <3>3 DEF Left
  <2> HIDE DEF written, found, cloud
  <2> QED BY <1>2, <1>4, <1>10, <1>11, <2>2, <2>4, <2>5, <2>6, FileStep
<1> QED BY <1>12, <1>13

LEMMA CleanFiles == ASSUME FilesInv, NEW c \in FileCall, CleanUp(c) PROVE FilesInv'
<1>1. fcall[c].step = "clean"
  BY DEF CleanUp, FAt
<1>2. PICK f : /\ f = fcall[c] /\ f.new # 0 /\ f.step = "clean" /\ f.place = "local"
               /\ f.new \in 1 .. MaxContents /\ f.row \in FileRow /\ f.row # NoFile
               /\ f.row.at.name = f.row.id
               /\ ~gap => /\ WorkInv /\ AtWork(f) /\ f.row.id # f.new
                          /\ \A r \in fileRows : r.id # f.new
  BY <1>1, RowedCall DEF Shape
<1>3. NamesInv /\ FileTypes /\ IdsAreUnique /\ objects \in SUBSET Object
  BY <1>1, RowedCall DEF NamesInv, FileTypes
<1>4. PICK h \in Keys : h = Temp(c) /\ h.at.name = f.new
  BY <1>1, <1>2, RowedCall
<1>5. /\ Rest /\ UNCHANGED <<fileRows, gap>> /\ FStep(c, "idle")
      /\ objects' = objects \/ objects' = Removed(objects, h)
      /\ backups' = backups \/ backups' = WithoutBackup(c)
      /\ \/ Slip
         \/ objects' = Removed(objects, h) /\ backups' = WithoutBackup(c) /\ Smooth
  BY <1>4 DEF CleanUp
<1>6. ObjectsMove(c)
  BY <1>2, <1>4, <1>5 DEF ObjectsMove, Own
<1>7. BackupsMove(c) /\ RowsMove(c) /\ gap' \in BOOLEAN /\ (gap => gap')
  BY <1>3, <1>5, BackupsStay, RowsStay DEF FileTypes
<1>8. ASSUME ~gap, NEW r \in fileRows', r.id \in Own(c) PROVE Described(r)'
  <2> DEFINE now == [f.row EXCEPT !.what = f.new]
  <2>1. now \in fileRows /\ now.id = f.row.id /\ now.at = f.row.at /\ now.what = f.new
        /\ now.place = f.row.place
    BY <1>2, <1>8 DEF AtWork, FileRow
  <2> HIDE DEF now
  <2>2. \A s \in fileRows : s.id # 0
    BY <1>3, RowsHaveIds DEF FileTypes
  <2>3. r = now
    BY <1>2, <1>3, <1>5, <1>8, <2>1 DEF Own, IdsAreUnique
  <2>4. There(RowKey(f.row), f.new)
    BY <1>2, <1>8 DEF AtWork
  <2>5. RowKey(r) = RowKey(f.row)
    BY <2>1, <2>3 DEF RowKey
  <2>6. Described(r) /\ r \in FileRow /\ r.at.name # h.at.name
    BY <1>2, <1>3, <1>4, <1>8, <2>1, <2>3, <2>4, <2>5 DEF Described, FileTypes
  <2> QED BY <1>3, <1>5, <2>6, StaysDescribed
<1>9. ASSUME ~gap, slips = 0, Smooth
      PROVE  /\ \A v \in backups' : v.by # fcall[c].new
             /\ \A o \in objects' : o.at.name \in Own(c) => \E r \in fileRows' : KeyOf(o) = RowKey(r)
  <2>1. objects' = Removed(objects, h) /\ backups' = WithoutBackup(c)
    BY <1>3, <1>5, <1>9 DEF Slip, Smooth, FileTypes
  <2>2. \A o \in objects' : o \in objects /\ KeyOf(o) # Temp(c)
    BY <1>3, <1>4, <2>1, RemovedIs
  <2>3. NothingIsLeft
    BY <1>9 DEF FilesInv
  <2> QED BY <1>3, <1>5, <1>9, <2>1, <2>2, <2>3, OldLeft DEF WithoutBackup
<1>10. Smooth \/ Slip
  BY <1>5
<1> QED BY <1>5, <1>6, <1>7, <1>8, <1>9, <1>10, EndStep

LEMMA RestoreFiles == ASSUME FilesInv, NEW c \in FileCall, RestoreFile(c) PROVE FilesInv'
<1>1. fcall[c].step = "restore"
  BY DEF RestoreFile, FAt
<1>2. PICK f : /\ f = fcall[c] /\ f.new # 0 /\ f.step = "restore" /\ f.place = "local"
               /\ f.new \in 1 .. MaxContents /\ f.row \in FileRow /\ f.row # NoFile
               /\ ~gap => /\ WorkInv /\ AtWork(f) /\ f.row.place = "local" /\ f.row.id # f.new
                          /\ RowKey(f.row) = OldKey(c)
                          /\ \A r \in fileRows : r.id # f.new
                          /\ f.row \in fileRows /\ \A r \in fileRows : r.id = f.row.id => r = f.row
                          /\ \A v \in backups : v.by = f.new => v.what = f.row.what
  BY <1>1, RowedCall DEF Shape
<1>3. NamesInv /\ FileTypes /\ backups \in SUBSET Backup
  BY <1>1, RowedCall DEF NamesInv, FileTypes
<1>4. PICK k \in Keys : k = OldKey(c) /\ k.at.name = f.row.id
  BY <1>1, <1>2, RowedCall
<1>5. Rest /\ UNCHANGED fileRows /\ FStep(c, "idle") /\ RowsMove(c)
  BY <1>3, RowsStay DEF RestoreFile
<1>6. CASE \E v \in backups : /\ v.by = f.new /\ objects' = Put(objects, k, v.what)
                              /\ (backups' = backups \ {v} /\ Smooth) \/ (Slip /\ UNCHANGED backups)
                              /\ UNCHANGED gap
  <2>1. PICK v \in backups : /\ v.by = f.new /\ objects' = Put(objects, k, v.what)
                             /\ (backups' = backups \ {v} /\ Smooth) \/ (Slip /\ UNCHANGED backups)
                             /\ UNCHANGED gap
    BY <1>6
  <2>2. v.what \in 1 .. MaxContents
    BY <1>3 DEF Backup
  <2>3. ObjectsMove(c)
    BY <1>2, <1>4, <2>1, <2>2 DEF ObjectsMove, Own
  <2>4. BackupsMove(c)
    BY <1>2, <1>3, <2>1 DEF BackupsMove
  <2>5. ASSUME ~gap, NEW r \in fileRows', r.id \in Own(c) PROVE Described(r)'
    <3>1. r = f.row /\ v.what = r.what
      BY <1>2, <1>5, <2>1, <2>5 DEF Own
    <3>2. There(k, v.what)'
      BY <1>3, <2>1, <2>2, IsPut
    <3>3. RowKey(r) = k
      BY <1>2, <1>4, <2>5, <3>1
    <3> QED BY <3>1, <3>2, <3>3 DEF Described
  <2>6. ~(~gap /\ slips = 0)
    BY <1>2 DEF FilesInv, NothingIsLeft
  <2>7. gap' \in BOOLEAN /\ (gap => gap') /\ (Smooth \/ Slip)
    <3>1. Smooth \/ Slip
      BY <2>1
    <3> QED BY <1>3, <2>1, <3>1 DEF FileTypes
  <2> QED BY <1>5, <2>3, <2>4, <2>5, <2>6, <2>7, EndStep
<1>7. CASE Slip /\ gap' = TRUE /\ UNCHANGED <<objects, backups>>
  <2>1. ObjectsMove(c) /\ BackupsMove(c) /\ gap' \in BOOLEAN
    BY <1>3, <1>7, BackupsStay DEF ObjectsMove
  <2> QED BY <1>5, <1>7, <2>1, EndStep
<1>8. \/ \E v \in backups : /\ v.by = f.new /\ objects' = Put(objects, k, v.what)
                            /\ (backups' = backups \ {v} /\ Smooth) \/ (Slip /\ UNCHANGED backups)
                            /\ UNCHANGED gap
      \/ Slip /\ gap' = TRUE /\ UNCHANGED <<objects, backups>>
  BY <1>2, <1>4 DEF RestoreFile, Restored
<1> QED BY <1>6, <1>7, <1>8

-----------------------------------------------------------------------------
\* The deletion, and the rest.

LEMMA RemoveFiles == ASSUME FilesInv, NEW c \in FileCall, RemoveFile(c) PROVE FilesInv'
<1>1. NamesInv /\ FileTypes /\ objects \in SUBSET Object
  BY DEF FilesInv, NamesInv, FileTypes
<1>2. PICK f : /\ f = fcall[c] /\ f.step = "remove" /\ f.new = 0 /\ f.row \in FileRow
               /\ f.row # NoFile /\ f.row.at.name = f.row.id /\ f.row.id # 0
  BY <1>1, CallIs, RowsHaveIds DEF RemoveFile, FAt, Shape
<1>3. ~gap => /\ WorkInv /\ AtWork(f) /\ \A r \in fileRows : r.id # 0
              /\ \A r \in fileRows : r.id = f.row.id => r = f.row
              /\ \A v \in backups : v.by # 0
  BY <1>1, <1>2, OwnBefore DEF FilesInv
<1>4. PICK k \in Keys : k = RowKey(f.row) /\ k.at.name = f.row.id
  BY <1>2, KeysAre
<1>5. /\ Rest /\ UNCHANGED <<fileRows, backups>>
      /\ \/ objects' = Removed(objects, k) /\ Smooth /\ FStep(c, "forget") /\ UNCHANGED gap
         \/ Slip /\ FStep(c, "idle") /\ UNCHANGED <<objects, gap>>
         \/ objects' = Removed(objects, k) /\ Slip /\ FStep(c, "idle") /\ gap' = TRUE
  BY <1>2, <1>4 DEF RemoveFile
<1>6. ObjectsMove(c)
  BY <1>2, <1>4, <1>5 DEF ObjectsMove, Own
<1>7. BackupsMove(c) /\ RowsMove(c)
  BY <1>1, <1>5, BackupsStay, RowsStay
<1>8. gap' \in BOOLEAN /\ (gap => gap') /\ (Smooth \/ Slip)
  <2>1. gap' = gap \/ gap' = TRUE
    BY <1>5
  <2>2. Smooth \/ Slip
    BY <1>5
  <2> QED BY <1>1, <2>1, <2>2 DEF FileTypes
<1>9. CASE objects' = Removed(objects, k) /\ Smooth /\ FStep(c, "forget") /\ UNCHANGED gap
  <2>1. PICK g : g = fcall'[c] /\ g.step = "forget" /\ g.row = f.row /\ g.new = 0
    BY <1>1, <1>2, <1>9, FStepIs, StepPlaces
  <2>2. Shape(fcall'[c])
    BY <1>2, <2>1 DEF Shape
  <2>3. \A o \in objects' : o \in objects /\ KeyOf(o) # RowKey(f.row)
    BY <1>1, <1>4, <1>9, RemovedIs
  <2>4. ASSUME ~gap PROVE Kept(c)
    <3>1. f.row \in fileRows'
      BY <1>2, <1>3, <1>5, <2>4 DEF AtWork
    <3>2. AtWork(fcall[c])'
      BY <1>2, <2>1, <2>3, <3>1 DEF AtWork, Inside
    <3> QED BY <1>2, <1>3, <1>5, <2>1, <2>4, <3>2 DEF Kept, Own
  <2>5. ASSUME ~gap, slips = 0 PROVE Left(c)
    <3>1. NothingIsLeft /\ ~Uploaded(fcall[c])
      BY <1>2, <2>5 DEF FilesInv, Uploaded
    <3>2. \A o \in objects' : o.at.name \in Own(c) => \E r \in fileRows' : KeyOf(o) = RowKey(r)
      BY <1>1, <1>5, <2>3, <2>5, <3>1, OldLeft
    <3> QED BY <1>2, <2>1, <3>2 DEF Left
  <2> QED BY <1>2, <1>5, <1>6, <1>7, <1>8, <1>9, <2>2, <2>4, <2>5, FileStep, StepPlaces
<1>10. CASE Slip /\ FStep(c, "idle") /\ UNCHANGED <<objects, gap>>
  <2>1. ASSUME ~gap, NEW r \in fileRows', r.id \in Own(c) PROVE Described(r)'
    <3>1. Described(f.row)
      BY <1>2, <1>3, <2>1 DEF AtWork
    <3>2. r = f.row
      BY <1>2, <1>3, <1>5, <2>1 DEF Own
    <3> QED BY <1>10, <3>1, <3>2 DEF Described, There
  <2>2. ~Smooth
    BY <1>1, <1>10 DEF Slip, Smooth, FileTypes
  <2> QED BY <1>5, <1>6, <1>7, <1>8, <1>10, <2>1, <2>2, EndStep
<1>11. CASE FStep(c, "idle") /\ gap' = TRUE
  BY <1>5, <1>6, <1>7, <1>8, <1>11, EndStep
<1> QED BY <1>5, <1>9, <1>10, <1>11

LEMMA ForgetFiles == ASSUME FilesInv, NEW c \in FileCall, ForgetRow(c) PROVE FilesInv'
<1>1. NamesInv /\ FileTypes /\ objects \in SUBSET Object
  BY DEF FilesInv, NamesInv, FileTypes
<1>2. PICK f : /\ f = fcall[c] /\ f.step = "forget" /\ f.new = 0 /\ f.row \in FileRow
               /\ f.row # NoFile /\ f.row.id # 0
  BY <1>1, CallIs, RowsHaveIds DEF ForgetRow, FAt, Shape
<1>3. ~gap => /\ WorkInv /\ AtWork(f) /\ \A r \in fileRows : r.id # 0
              /\ \A r \in fileRows : r.id = f.row.id => r = f.row
              /\ \A v \in backups : v.by # 0
  BY <1>1, <1>2, OwnBefore DEF FilesInv
<1> DEFINE others == {r \in fileRows : r.id # f.row.id}
<1>4. /\ Rest /\ UNCHANGED <<objects, backups>> /\ FStep(c, "idle")
      /\ \/ fileRows' = others /\ Smooth /\ UNCHANGED gap
         \/ Slip /\ gap' = TRUE /\ UNCHANGED fileRows
  BY <1>2 DEF ForgetRow
<1>5. ObjectsMove(c) /\ BackupsMove(c)
  BY <1>1, <1>4, BackupsStay DEF ObjectsMove
<1>6. RowsMove(c)
  <2>1. CASE fileRows' = others
    <3>1. /\ fileRows' \in SUBSET FileRow /\ IdsAreUnique'
          /\ \A r \in fileRows' : /\ r.at.name = r.id /\ r.id <= contents
                                  /\ \E s \in fileRows : s.id = r.id
      BY <1>1, <2>1, RowsGo
    <3>2. \A r \in FileRow : r.id # f.row.id => (r \in fileRows' <=> r \in fileRows)
      BY <2>1
    <3> QED BY <1>2, <3>1, <3>2 DEF RowsMove, Own
  <2>2. CASE UNCHANGED fileRows
    BY <1>1, <2>2, RowsStay
  <2> QED BY <1>4, <2>1, <2>2
<1>7. gap' \in BOOLEAN /\ (gap => gap') /\ (Smooth \/ Slip)
  <2>1. gap' = gap \/ gap' = TRUE
    BY <1>4
  <2>2. Smooth \/ Slip
    BY <1>4
  <2> QED BY <1>1, <2>1, <2>2 DEF FileTypes
<1>8. ASSUME ~gap', ~gap PROVE fileRows' = others /\ \A r \in others : r.id \notin Own(c)
  BY <1>2, <1>3, <1>4, <1>8 DEF Own
<1>9. ASSUME ~gap', ~gap, slips = 0, NEW o \in objects', o.at.name \in Own(c) PROVE FALSE
  <2>1. NothingIsLeft /\ ~Uploaded(fcall[c])
    BY <1>2, <1>9 DEF FilesInv, Uploaded
  <2>2. PICK r \in fileRows : KeyOf(o) = RowKey(r) /\ r.id = o.at.name
    BY <1>1, <1>4, <1>9, <2>1, OldLeft
  <2>3. r = f.row
    BY <1>2, <1>3, <1>9, <2>2 DEF Own
  <2> QED BY <1>2, <1>3, <1>4, <1>9, <2>2, <2>3 DEF AtWork
<1>10. ~gap' /\ ~gap => \A v \in backups' : v.by # fcall[c].new
  BY <1>2, <1>3, <1>4
<1> QED BY <1>4, <1>5, <1>6, <1>7, <1>8, <1>9, <1>10, EndStep

LEMMA BeginStep ==
    ASSUME FilesInv, FileTypes', NEW c \in FileCall, Begins(c), gap => gap',
           UNCHANGED <<objects, backups, fileRows, slips>>,
           fcall'[c].step \in {"upload", "overwrite", "remove"},
           (~gap' /\ fcall'[c].row # NoFile) =>
               /\ ~Shared(c, fcall'[c].row)
               /\ fcall'[c].step # "remove" => fcall'[c].row.place = fcall'[c].place
    PROVE  FilesInv'
<1>1. NamesInv'
  BY NamesBegin DEF FilesInv
<1> SUFFICES ASSUME ~gap' PROVE WorkInv' /\ (slips' = 0 => NothingIsLeft')
  BY <1>1 DEF FilesInv
<1>2. NamesInv /\ ~gap /\ WorkInv /\ (slips = 0 => NothingIsLeft)
  BY DEF FilesInv
<1>3. PICK g : /\ g = fcall'[c] /\ g \in FileAt /\ g.step \in {"upload", "overwrite", "remove"}
               /\ g.row = NoFile \/ (g.row \in fileRows /\ g.row \in FileRow)
               /\ g.row # NoFile => /\ \A d \in FileCall : d # c => fcall[d].row.id # g.row.id
                                    /\ g.step # "remove" => g.row.place = g.place
  BY <1>2 DEF NamesInv, FileTypes, Begins, Shared
<1>4. PICK n \in Nat : n = g.new
  BY <1>3, FileBounds DEF FileAt
<1>5. PICK m \in Nat : m = g.row.id
  BY <1>3, RowsHaveIds
<1>6. fcall[c].new = 0 /\ fcall[c].row = NoFile /\ fcall[c].step = "idle"
  BY <1>2 DEF Begins, NamesInv, ShapesAreRight, Shape
<1>7. Apart(c, n, m)
  <2>1. ASSUME NEW d \in FileCall, d # c
        PROVE  /\ fcall'[d] = fcall[d]
               /\ fcall[d].new # 0 => fcall[d].new \notin {n, m}
               /\ fcall[d].row # NoFile => fcall[d].row.id \notin {n, m}
    <3>1. fcall'[d] = fcall[d]
      BY <2>1 DEF Begins
    <3>2. NewIsNew(c)' /\ NewIsNew(d)'
      BY <1>1 DEF NamesInv, NewIsUnused
    <3>3. fcall[d].new # 0 => fcall[d].new # n /\ fcall[d].new # m
      BY <1>3, <1>4, <1>5, <2>1, <3>1, <3>2 DEF NewIsNew
    <3>4. fcall[d].row # NoFile => fcall[d].row.id # 0
      BY <1>2, CallIs, RowsHaveIds
    <3>5. fcall[d].row # NoFile => fcall[d].row.id # n
      BY <1>3, <1>4, <2>1, <3>1, <3>2, <3>4 DEF NewIsNew
    <3>6. fcall[d].row # NoFile => fcall[d].row.id # m
      BY <1>3, <1>5, <2>1, <3>4, RowsHaveIds
    <3> QED BY <3>1, <3>3, <3>5, <3>6
  <2>2. /\ {fcall[c].new, fcall'[c].new} \subseteq {0, n}
        /\ {fcall[c].row.id, fcall'[c].row.id} \subseteq {0, m}
    BY <1>3, <1>4, <1>5, <1>6, RowsHaveIds
  <2> QED BY <2>1, <2>2 DEF Apart
<1>8. \A v \in backups : v.by # n
  <2>1. n = 0 \/ n = contents + 1
    BY <1>3, <1>4 DEF Begins
  <2>2. \A v \in backups : v.by \in Nat /\ v.by # 0 /\ v.by <= contents
    BY <1>2, FileBounds DEF NamesInv, NamesAreOld, FileTypes, Backup
  <2>3. contents \in Nat
    BY <1>2, FileBounds DEF NamesInv, FileTypes
  <2> QED BY <2>1, <2>2, <2>3
<1>9. \A r \in fileRows : r.id # n
  <2>1. n = 0 \/ n = contents + 1
    BY <1>3, <1>4 DEF Begins
  <2>2. \A r \in fileRows : r.id \in Nat /\ r.id # 0 /\ r.id <= contents
    BY <1>2, RowsHaveIds DEF NamesInv, NamesAreOld, FileTypes
  <2>3. contents \in Nat
    BY <1>2, FileBounds DEF NamesInv, FileTypes
  <2> QED BY <2>1, <2>2, <2>3
<1>10. WorkInv'
  <2>1. g.row # NoFile => Described(g.row)
    <3> SUFFICES ASSUME g.row # NoFile PROVE Described(g.row)
      OBVIOUS
    <3>1. \A d \in FileCall : fcall[d].row.id # g.row.id
      BY <1>3, <1>6, RowsHaveIds
    <3> QED BY <1>2, <1>3, <3>1 DEF WorkInv, RowsAreTrue
  <2>2. g.row # NoFile => Described(g.row)'
    BY <2>1 DEF Described, There
  <2>3. AtWork(fcall[c])'
    BY <1>3, <2>2 DEF AtWork, Inside
  <2>4. \A r \in fileRows' : r.id \in {n, m} /\ fcall'[c].row.id # r.id => Described(r)'
    BY <1>3, <1>5, <1>9
  <2> QED BY <1>1, <1>2, <1>3, <1>4, <1>7, <1>8, <2>3, <2>4, Aside
<1>11. ASSUME slips' = 0 PROVE NothingIsLeft'
  <2>1. NothingIsLeft
    BY <1>2, <1>11
  <2>2. ASSUME NEW o \in objects, o.at.name \in {n, m}
        PROVE  \E r \in fileRows : KeyOf(o) = RowKey(r)
    <3>1. o \in Object /\ KeyOf(o).at.name = o.at.name
      BY <1>2, ObjectsAre DEF NamesInv, FileTypes
    <3>2. ASSUME NEW d \in FileCall, KeyOf(o) = Temp(d), Uploaded(fcall[d]) PROVE FALSE
      <4>1. d # c
        BY <1>6, <3>2 DEF Uploaded
      <4>2. fcall[d].new # 0
        BY <1>2, <3>2, CallIs DEF Uploaded, Shape
      <4>3. o.at.name = fcall[d].new
        BY <1>2, <3>1, <3>2, <4>2, CallIs
      <4> QED BY <1>7, <2>2, <4>1, <4>2, <4>3 DEF Apart
    <3> QED BY <2>1, <3>2 DEF NothingIsLeft
  <2> QED BY <1>1, <1>2, <1>3, <1>4, <1>7, <1>8, <2>1, <2>2, AsideLeft
<1> QED BY <1>10, <1>11

LEMMA IdleIs == FileIdle \in FileAt /\ FileIdle.row = NoFile /\ FileIdle.new = 0
BY FileBounds DEF FileIdle, FileAt, Steps, Stores

LEMMA BeginFiles ==
    ASSUME FilesInv, NEW c \in FileCall,
           \/ \E place \in Stores : BeginUpload(c, place)
           \/ \E place \in Stores : \E r \in fileRows : BeginReplace(c, r, place)
           \/ \E r \in fileRows : BeginDelete(c, r)
    PROVE  FilesInv'
<1>1. FileTypes /\ fcall[c] \in FileAt
  BY DEF FilesInv, NamesInv, FileTypes
<1>2. contents \in Nat /\ contents <= MaxContents /\ gap \in BOOLEAN
  BY <1>1, FileBounds DEF FileTypes
<1>3. ASSUME NEW place \in Stores, BeginUpload(c, place) PROVE FilesInv'
  <2>1. PICK k : k = contents'
    OBVIOUS
  <2> DEFINE g == [FileIdle EXCEPT !.step = "upload", !.place = place, !.new = k]
  <2>2. /\ fcall[c].step = "idle" /\ contents < MaxContents /\ k = contents + 1
        /\ fcall' = [fcall EXCEPT ![c] = g]
        /\ UNCHANGED <<objects, backups, fileRows, slips, gap>>
    BY <1>3, <2>1 DEF BeginUpload, FAt, Smooth
  <2>3. k \in Nat /\ k \in 0 .. MaxContents /\ k # 0
    BY <1>2, <2>2, FileBounds
  <2>4. PICK h \in FileAt : h = g /\ h.step = "upload" /\ h.row = NoFile /\ h.place = place /\ h.new = k
    <3>1. FileIdle \in FileAt /\ FileIdle.row = NoFile
      BY IdleIs
    <3>2. g \in FileAt
      BY <2>3, <3>1 DEF FileAt, Steps
    <3>3. g.step = "upload" /\ g.row = NoFile /\ g.place = place /\ g.new = k
      BY <3>1 DEF FileAt
    <3> QED BY <3>2, <3>3
  <2> HIDE DEF g
  <2>5. Shape(h)
    BY <2>3, <2>4 DEF Shape
  <2>6. fcall' \in [FileCall -> FileAt] /\ fcall'[c] = h /\ \A d \in FileCall : d # c => fcall'[d] = fcall[d]
    BY <1>1, <2>2, <2>4 DEF FileTypes
  <2>7. FileTypes'
    BY <1>1, <2>1, <2>2, <2>3, <2>6 DEF FileTypes
  <2>8. Begins(c)
    BY <2>1, <2>2, <2>3, <2>4, <2>5, <2>6 DEF Begins
  <2> QED BY <2>2, <2>4, <2>6, <2>7, <2>8, BeginStep
<1>4. ASSUME NEW place \in Stores, NEW r \in fileRows, BeginReplace(c, r, place) PROVE FilesInv'
  <2>1. PICK step \in {"upload", "overwrite"} : step = IF place = "local" THEN "upload" ELSE "overwrite"
    OBVIOUS
  <2>2. PICK k : k = contents'
    OBVIOUS
  <2> DEFINE g == [step |-> step, row |-> r, place |-> place, new |-> k]
  <2>3. /\ fcall[c].step = "idle" /\ k = contents + 1 /\ k = contents' /\ k \in 0 .. MaxContents /\ k # 0
        /\ fcall' = [fcall EXCEPT ![c] = g]
        /\ UNCHANGED <<objects, backups, fileRows, slips>>
        /\ gap' = (gap \/ Shared(c, r) \/ r.place # place)
    <3>1. /\ fcall[c].step = "idle" /\ contents < MaxContents /\ k = contents + 1
          /\ UNCHANGED <<objects, backups, fileRows, slips>>
      BY <1>4, <2>2 DEF BeginReplace, FAt, Smooth
    <3>2. fcall' = [fcall EXCEPT ![c] = g]
      <4>1. fcall' = [fcall EXCEPT ![c] = [step |-> IF place = "local" THEN "upload" ELSE "overwrite",
                                           row |-> r, place |-> place, new |-> contents']]
        BY <1>4 DEF BeginReplace
      <4> QED BY <2>1, <2>2, <4>1
    <3>3. gap' = (gap \/ Shared(c, r) \/ r.place # place)
      BY <1>4, Zenon DEF BeginReplace
    <3>4. k \in 0 .. MaxContents /\ k # 0
      BY <1>2, <3>1, FileBounds
    <3> QED BY <2>2, <3>1, <3>2, <3>3, <3>4, Zenon
  <2>4. r \in FileRow
    BY <1>1 DEF FileTypes
  <2>5. PICK h \in FileAt : h = g /\ h.step = step /\ h.row = r /\ h.place = place /\ h.new = k
    <3>1. step \in Steps /\ r \in FileRow \cup {NoFile} /\ k \in 0 .. MaxContents
      BY <2>1, <2>3, <2>4 DEF Steps
    <3>2. g \in FileAt
      BY <3>1 DEF FileAt
    <3> QED BY <3>2
  <2> HIDE DEF g
  <2>6. Shape(h)
    BY <2>1, <2>3, <2>4, <2>5, RowsHaveIds DEF Shape, Stores
  <2>7. fcall' \in [FileCall -> FileAt] /\ fcall'[c] = h /\ \A d \in FileCall : d # c => fcall'[d] = fcall[d]
    BY <1>1, <2>3, <2>5 DEF FileTypes
  <2>8. gap' \in BOOLEAN /\ (gap => gap') /\ (~gap' => ~Shared(c, r) /\ r.place = place)
    BY <2>3, Zenon
  <2>9. FileTypes'
    <3>1. slips' \in Nat /\ contents' \in 0 .. MaxContents
      BY <1>1, <2>3 DEF FileTypes
    <3> QED BY <1>1, <2>3, <2>7, <2>8, <3>1 DEF FileTypes
  <2>10. Begins(c)
    BY <2>3, <2>5, <2>6, <2>7 DEF Begins
  <2> QED BY <2>1, <2>3, <2>5, <2>7, <2>8, <2>9, <2>10, BeginStep
<1>5. ASSUME NEW r \in fileRows, BeginDelete(c, r) PROVE FilesInv'
  <2> DEFINE g == [FileIdle EXCEPT !.step = "remove", !.row = r]
  <2>1. /\ fcall[c].step = "idle" /\ contents' = contents
        /\ fcall' = [fcall EXCEPT ![c] = g]
        /\ UNCHANGED <<objects, backups, fileRows, slips>>
        /\ gap' = (gap \/ Shared(c, r))
    BY <1>5 DEF BeginDelete, FAt, Smooth, Rest
  <2>2. r \in FileRow
    BY <1>1 DEF FileTypes
  <2>3. FileIdle \in FileAt /\ FileIdle.new = 0
    BY IdleIs
  <2>4. PICK h \in FileAt : h = g /\ h.step = "remove" /\ h.row = r /\ h.new = 0
    <3>1. g \in FileAt
      BY <2>2, <2>3 DEF FileAt, Steps
    <3>2. g.step = "remove" /\ g.row = r /\ g.new = 0
      BY <2>3 DEF FileAt
    <3> QED BY <3>1, <3>2
  <2> HIDE DEF g
  <2>5. Shape(h)
    BY <2>2, <2>4 DEF Shape
  <2>6. fcall' \in [FileCall -> FileAt] /\ fcall'[c] = h /\ \A d \in FileCall : d # c => fcall'[d] = fcall[d]
    BY <1>1, <2>1, <2>4 DEF FileTypes
  <2>7. gap' \in BOOLEAN /\ (gap => gap') /\ (~gap' => ~Shared(c, r))
    BY <2>1, Zenon
  <2>8. FileTypes'
    BY <1>1, <2>1, <2>6, <2>7 DEF FileTypes
  <2>9. Begins(c)
    BY <2>1, <2>4, <2>5, <2>6 DEF Begins
  <2> QED BY <2>1, <2>4, <2>6, <2>7, <2>8, <2>9, BeginStep
<1> QED BY <1>3, <1>4, <1>5

LEMMA MoveFiles ==
    ASSUME FilesInv, NEW c \in FileCall, NEW r \in fileRows, NEW place \in Stores,
           MoveRow(c, r, place)
    PROVE  FilesInv'
<1>1. NamesInv /\ FileTypes
  BY DEF FilesInv, NamesInv
<1> DEFINE w == [r EXCEPT !.place = place]
<1>2. /\ fileRows' = (fileRows \ {r}) \cup {w} /\ gap' = TRUE
      /\ UNCHANGED <<objects, backups, fcall, contents, slips>>
  BY DEF MoveRow, Smooth, Rest
<1>3. w \in FileRow /\ w.id = r.id /\ w.at = r.at
  BY <1>1 DEF FileTypes, FileRow
<1> HIDE DEF w
<1>4. FileTypes'
  BY <1>1, <1>2, <1>3 DEF FileTypes
<1>5. IdsAreUnique' /\ KeysAreUnique'
  BY <1>1, <1>2, <1>3 DEF NamesInv, IdsAreUnique, KeysAreUnique
<1>6. FileGoes(c)
  BY <1>1, <1>2 DEF FileGoes, NamesInv, ShapesAreRight
<1>7. /\ \A o \in objects' : o \in objects
      /\ \A v \in backups' : v.by <= contents
      /\ \A s \in fileRows' : s.at.name = s.id /\ s.id <= contents /\ \E x \in fileRows : x.id = s.id
  BY <1>1, <1>2, <1>3 DEF NamesInv, NamesAreOld
<1>8. NamesInv'
  BY <1>1, <1>2, <1>4, <1>5, <1>6, <1>7, NamesGo
<1> QED BY <1>2, <1>8 DEF FilesInv

LEMMA CrashedFiles == ASSUME FilesInv, CrashFiles PROVE FilesInv'
<1>1. NamesInv /\ FileTypes
  BY DEF FilesInv, NamesInv
<1>2. /\ fcall' = [c \in FileCall |-> FileIdle] /\ gap' = TRUE /\ slips' = slips + 1
      /\ UNCHANGED <<fileRows, objects, backups, contents>>
  BY DEF CrashFiles, Slip, Rest
<1>3. FileIdle \in FileAt /\ Shape(FileIdle) /\ FileIdle.row = NoFile /\ FileIdle.new = 0
  BY FileBounds DEF FileIdle, FileAt, Shape, Steps, Stores
<1>4. FileTypes'
  BY <1>1, <1>2, <1>3 DEF FileTypes
<1>5. ShapesAreRight' /\ KeysAreUnique' /\ IdsAreUnique'
  BY <1>1, <1>2, <1>3 DEF NamesInv, ShapesAreRight, KeysAreUnique, IdsAreUnique
<1>6. NamesAreOld'
  <2>1. contents \in Nat
    BY <1>1, FileBounds DEF FileTypes
  <2> QED BY <1>1, <1>2, <1>3, <2>1 DEF NamesInv, NamesAreOld
<1>7. NewIsUnused'
  BY <1>2, <1>3 DEF NewIsUnused, NewIsNew
<1> QED BY <1>2, <1>4, <1>5, <1>6, <1>7 DEF FilesInv, NamesInv

LEMMA NextFiles == FilesInv /\ [FilesNext]_fileVars => FilesInv'
<1> SUFFICES ASSUME FilesInv, [FilesNext]_fileVars PROVE FilesInv'
  OBVIOUS
<1>1. CASE UNCHANGED fileVars
  BY <1>1 DEF fileVars, FilesInv, NamesInv, FileTypes, ShapesAreRight, KeysAreUnique, NamesAreOld,
              IdsAreUnique, NewIsUnused, NewIsNew, WorkInv, OneAtARow, BackupsAreTrue, RowsAreTrue,
              AtWork, Described, There, NothingIsLeft, Temp
<1>2. CASE FilesNext
  BY <1>2, BeginFiles, MoveFiles, StoreFiles, InsertFiles, UndoFiles, OverwriteFiles, BackupFiles,
     UnlinkFiles, CopyFiles, RowFiles, CleanFiles, RestoreFiles, RemoveFiles, ForgetFiles,
     CrashedFiles DEF FilesNext
<1> QED BY <1>1, <1>2

LEMMA FilesTypes == FilesInv => FilesTypeOK
<1> SUFFICES ASSUME FilesInv PROVE FilesTypeOK
  OBVIOUS
<1>1. FileTypes /\ KeysAreUnique /\ IdsAreUnique
  BY DEF FilesInv, NamesInv
<1> QED BY <1>1 DEF FileTypes, KeysAreUnique, IdsAreUnique, FilesTypeOK, Backup, FileAt

(***************************************************************************)
(* Whatever fails, and whenever requests meet at one row only so that the  *)
(* code notices: the file that a row describes is where it says, with the  *)
(* content that it describes, and as long as nothing fails nothing is left *)
(* (uploadFileAndCreateRecord(), updateFile(), deleteFile()).              *)
(***************************************************************************)
THEOREM FilesStayDescribed == FilesSpec => []FilesAreAsDescribed
<1>1. FilesInv => FilesAreAsDescribed
  <2> SUFFICES ASSUME FilesInv, ~gap PROVE FilesAreAsDescribed
    BY DEF FilesAreAsDescribed
  <2>1. NamesInv /\ FileTypes /\ WorkInv
    BY DEF FilesInv, NamesInv
  <2>2. ASSUME NEW r \in fileRows, \A c \in FileCall : fcall[c].row.id # r.id
        PROVE  [place |-> r.place, at |-> RowKey(r).at, what |-> r.what] \in objects
    <3>1. Described(r) /\ r \in FileRow
      BY <2>1, <2>2 DEF WorkInv, RowsAreTrue, FileTypes
    <3>2. RowKey(r).place = r.place
      BY <3>1, KeysAre
    <3> QED BY <3>1, <3>2 DEF Described, There, Obj
  <2>3. ASSUME slips = 0, \A c \in FileCall : FAt(c, "idle")
        PROVE  /\ backups = {}
               /\ \A o \in objects : \E r \in fileRows : KeyOf(o) = RowKey(r)
    <3>1. NothingIsLeft
      BY <2>3 DEF FilesInv
    <3>2. \A c \in FileCall : fcall[c].new = 0 /\ ~Uploaded(fcall[c])
      BY <2>1, <2>3, CallIs DEF FAt, Shape, Uploaded
    <3>3. \A v \in backups : v.by # 0
      BY <2>1, FileBounds DEF FileTypes, Backup
    <3> QED BY <3>1, <3>2, <3>3 DEF NothingIsLeft
  <2> QED BY <2>2, <2>3 DEF FilesAreAsDescribed
<1> QED BY <1>1, InitFiles, NextFiles, PTL DEF FilesSpec

-----------------------------------------------------------------------------
\* The four together.

ServicesInv == FlowInv /\ ScriptsTypeOK /\ PkgInv /\ ListInv /\ FilesInv

(***************************************************************************)
(* Whatever the part: the state of the tools, of the scripts, of the       *)
(* packages and of the files stays of its types, with one holder of the    *)
(* lock for tables, one row of an id and one object of a key.              *)
(***************************************************************************)
THEOREM ServicesTypeCorrect == MCSpec => []TypesOK
<1>1. MCInit => ServicesInv
  BY InitFlow, InitScriptTypes, InitPkg, InitList, InitFiles DEF MCInit, ServicesInv
<1>2. ServicesInv /\ [MCNext]_allVars => ServicesInv'
  <2> SUFFICES ASSUME ServicesInv, [MCNext]_allVars PROVE ServicesInv'
    OBVIOUS
  <2>1. /\ [FlowNext]_flowVars /\ [ScriptsNext]_scriptVars
        /\ [PackagesNext]_pkgVars /\ [FilesNext]_fileVars
    BY DEF MCNext, allVars
  <2> QED BY <2>1, NextFlow, NextScriptTypes, NextPkg, NextList, NextFiles DEF ServicesInv
<1>3. ServicesInv => TypesOK
  BY FlowTypesOK, PackagesTypes, FilesTypes DEF ServicesInv, TypesOK
<1> QED BY <1>1, <1>2, <1>3, PTL DEF MCSpec
=============================================================================
