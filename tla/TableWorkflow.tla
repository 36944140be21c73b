---------------------------- MODULE TableWorkflow ----------------------------
(***************************************************************************)
(* The tools with which the AI agent creates, updates and deletes tables:  *)
(* the executors, that take the tables of a call one by one, and the       *)
(* workflows TableCreationWorkflow and TableUpdateWorkflow, graphs whose   *)
(* nodes read the catalogue, decide, and change it through                 *)
(* DynamicRepository under the schema lock.  Several requests run at once. *)
(*                                                                         *)
(* The catalogue is the rows of table_definition and column_definition: a  *)
(* table, and each of its columns, has an id or 0.  How a change is made,  *)
(* and what it does to the physical schema, is TableHandler's and          *)
(* RelationMigration's; here it is a step between taking the lock and      *)
(* giving it back, which fails before it has committed, or after.          *)
(***************************************************************************)
EXTENDS Integers, FiniteSets, Sequences

CONSTANTS Requests,    \* requests to the agent, each with tool calls of its own
          TableName, ColumnName,
          Orders,      \* the calls that the model makes: records [kind, items]
          NoRequest,
          MaxRetries,  \* params.maxRetries || 3
          MaxOrders,   \* bound on the calls
          MaxUpsets,   \* bound on failures, revocations and aborts
          MaxIds       \* bound on the ids given out

(***************************************************************************)
(* An item names a table and columns to be in it.  "with" tells that it has *)
(* relations, whose targets exist or not.  "flaw" is what is wrong with it: *)
(* "invalid" data, a foreign key that is "alike" a column or only "looks    *)
(* alike", as author_id looks like authorId; a column that is "nameless".   *)
(***************************************************************************)
Item == [table : TableName, columns : SUBSET ColumnName, with : {"none", "there", "missing"},
         flaw : {"none", "invalid", "alike", "looksAlike", "nameless"}]

ASSUME WorkflowAssumption ==
    /\ \A o \in Orders : /\ o.kind \in {"create", "update", "delete"}
                         /\ o.items \in Seq(Item) /\ o.items # <<>>
    /\ MaxRetries \in Nat \ {0} /\ {MaxOrders, MaxUpsets, MaxIds} \subseteq Nat
    /\ NoRequest \notin Requests /\ IsFiniteSet(ColumnName)

VARIABLES catalog,    \* the rows: the table's id and those of its columns
          writer,     \* the request that holds the schema lock
          granted,    \* what the user may do by the route permissions
          flow,       \* per request: where its call is, and the locals of the workflow
          reports,    \* per request: what its calls have reported, table by table
          ids, orders, upsets   \* ids, calls and upsets so far

flowVars == <<catalog, writer, granted, flow, reports, ids, orders, upsets>>

Kinds == {"create", "update", "delete"}
Places == {"idle", "first", "targets", "conflicts", "write", "commit", "answer"}
NoColumns == [c \in ColumnName |-> 0]
Gone == [id |-> 0, cols |-> NoColumns]
Catalogued == [id : 0 .. MaxIds, cols : [ColumnName -> 0 .. MaxIds]]
Report == [kind : Kinds, ok : BOOLEAN, commits : 0 .. MaxRetries, late : BOOLEAN, blank : BOOLEAN]

Idle == [at |-> "idle", kind |-> "create", items |-> <<>>, allowed |-> {}, aborted |-> FALSE,
         loaded |-> Gone, merged |-> NoColumns, blank |-> FALSE, stop |-> FALSE,
         tries |-> 0, ok |-> FALSE, commits |-> 0, late |-> FALSE]

FlowAt(r, place) == flow[r].at = place
Current(r) == Head(flow[r].items)

\* What a failure, or the user or an administrator, may still do.
Upset == upsets < MaxUpsets /\ upsets' = upsets + 1
Calm == upsets' = upsets

Moves(r, f) == flow' = [flow EXCEPT ![r] = f]

-----------------------------------------------------------------------------
\* The call.

\* A positive answer of executeCheckPermission() is kept for the request.
Permitted(r, kind) == kind \in flow[r].allowed \cup granted

StartOrder(r) ==
    /\ FlowAt(r, "idle") /\ orders < MaxOrders /\ ~flow[r].aborted
    /\ orders' = orders + 1
    /\ \E o \in Orders :
          IF Permitted(r, o.kind)
          THEN Moves(r, [Idle EXCEPT !.at = "first", !.kind = o.kind, !.items = o.items,
                                     !.allowed = flow[r].allowed \cup {o.kind}])
          ELSE UNCHANGED flow
    /\ Calm /\ UNCHANGED <<catalog, writer, granted, reports, ids>>

Revoke == /\ Upset /\ granted # {}
          /\ granted' = {}
          /\ UNCHANGED <<catalog, writer, flow, reports, ids, orders>>

AbortOrder(r) == /\ ~FlowAt(r, "idle") /\ ~flow[r].aborted /\ Upset
                 /\ Moves(r, [flow[r] EXCEPT !.aborted = TRUE])
                 /\ UNCHANGED <<catalog, writer, granted, reports, ids, orders>>

\* The workflow of one table has ended: what it tells, and the next table.  An
\* abort is looked at between tables.
Answer(r) ==
    /\ FlowAt(r, "answer")
    /\ LET f == flow[r]
           rest == IF f.aborted THEN <<>> ELSE Tail(f.items)
       IN /\ reports' = [reports EXCEPT ![r] = @ \cup
                {[kind |-> f.kind, ok |-> f.ok, commits |-> f.commits, late |-> f.late,
                  blank |-> f.blank]}]
          /\ Moves(r, [Idle EXCEPT !.at = IF rest = <<>> THEN "idle" ELSE "first",
                                   !.kind = IF rest = <<>> THEN @ ELSE f.kind,
                                   !.items = rest, !.allowed = f.allowed, !.aborted = f.aborted])
    /\ Calm /\ UNCHANGED <<catalog, writer, granted, ids, orders>>

-----------------------------------------------------------------------------
\* The nodes before the change.  Each is one read of the catalogue.

StopsAt(r) == Moves(r, [flow[r] EXCEPT !.at = "answer"])
ReadOnly == UNCHANGED <<catalog, writer, granted, reports, ids, orders>>

\* A query of a node fails: handleError().
ReadFails(r) ==
    /\ flow[r].at \in {"first", "targets"} \/ (FlowAt(r, "conflicts") /\ flow[r].kind = "update")
    /\ Upset /\ StopsAt(r) /\ ReadOnly

\* checkTableExists(), and the data, which needs no query.
CheckTableExists(r) ==
    /\ FlowAt(r, "first") /\ flow[r].kind = "create"
    /\ IF catalog[Current(r).table].id # 0
       THEN StopsAt(r)
       ELSE Moves(r, [flow[r] EXCEPT !.at = "targets", !.stop = Current(r).flaw = "invalid"])
    /\ Calm /\ ReadOnly

\* loadCurrentTable() and validateUpdateData()
LoadCurrentTable(r) ==
    /\ FlowAt(r, "first") /\ flow[r].kind = "update"
    /\ LET it == Current(r) IN
       IF catalog[it.table].id = 0 \/ it.flaw = "invalid"
       THEN StopsAt(r)
       ELSE Moves(r, [flow[r] EXCEPT !.at = IF it.with = "none" THEN "conflicts" ELSE "targets",
                                     !.loaded = catalog[it.table]])
    /\ Calm /\ ReadOnly

\* executeDeleteSingleTable()
FindForDelete(r) ==
    /\ FlowAt(r, "first") /\ flow[r].kind = "delete"
    /\ LET found == catalog[Current(r).table]
       IN IF found.id = 0 THEN StopsAt(r)
          ELSE Moves(r, [flow[r] EXCEPT !.at = "write", !.loaded = found])
    /\ Calm /\ ReadOnly

ValidateTargetTables(r) ==
    /\ FlowAt(r, "targets")
    /\ LET it == Current(r) IN
       IF flow[r].stop \/ it.with = "missing"
       THEN StopsAt(r)
       ELSE Moves(r, [flow[r] EXCEPT !.at = IF it.with = "none" THEN "write" ELSE "conflicts"])
    /\ Calm /\ ReadOnly

\* checkFKConflicts() of a creation: the table is created whatever it finds,
\* and when the query fails too; only a retry is not made any more.
CheckFKConflicts(r) ==
    /\ FlowAt(r, "conflicts") /\ flow[r].kind = "create"
    /\ \/ Calm /\ Moves(r, [flow[r] EXCEPT !.at = "write",
                                           !.stop = Current(r).flaw \in {"alike", "looksAlike"}])
       \/ Upset /\ Moves(r, [flow[r] EXCEPT !.at = "write", !.stop = TRUE])
    /\ ReadOnly

\* Mutation of Merge: the columns of the call alone.
MergeFresh(loaded, columns) ==
    [c \in ColumnName |-> IF c \in columns THEN loaded.cols[c] ELSE -1]

\* The columns of the update: those of the call, with the id they have already,
\* and all others that were loaded, but for createdAt and updatedAt, which are not
\* among ColumnName.  -1 tells that the column is not there.
Merge(loaded, columns) ==
    [c \in ColumnName |-> IF c \in columns \/ loaded.cols[c] # 0 THEN loaded.cols[c] ELSE -1]

\* checkFKConflicts() and mergeData() of an update, on what was loaded.  The
\* update follows a merge that has failed, and has nothing in it.
MergeData(r) ==
    /\ FlowAt(r, "conflicts") /\ flow[r].kind = "update"
    /\ LET it == Current(r)
           fails == it.flaw = "nameless"
       IN IF it.with # "none" /\ it.flaw \in {"alike", "looksAlike", "nameless"}
          THEN StopsAt(r)
          ELSE Moves(r, [flow[r] EXCEPT
                   !.at = "write", !.stop = fails, !.blank = fails,
                   !.merged = IF fails THEN NoColumns ELSE Merge(flow[r].loaded, it.columns)])
    /\ Calm /\ ReadOnly

-----------------------------------------------------------------------------
\* createTable(), updateTable() and delete(), and what follows a failure.

TakeLock(r) == /\ FlowAt(r, "write") /\ writer = NoRequest
               /\ writer' = r
               /\ Moves(r, [flow[r] EXCEPT !.at = "commit"])
               /\ Calm /\ UNCHANGED <<catalog, granted, reports, ids, orders>>

\* A creation and an update are tried again after a failure that is to be
\* retried, a creation unless a check has failed before: updateTable() sets
\* shouldStop anew, and forgets of the merge.
Again(f, retryable) ==
    LET n == f.tries + 1
        stop == f.kind = "delete" \/ (f.kind = "create" /\ f.stop)
    IN [f EXCEPT !.tries = n,
                 !.stop = IF f.kind = "update" THEN ~retryable ELSE @,
                 !.at = IF retryable /\ ~stop /\ n < MaxRetries THEN "write" ELSE "answer"]

\* The lock is taken.  The refusal reads "[schema is being updated, try again later]", in
\* which no pattern of isRetryableError() is found.
Locked(r) == /\ FlowAt(r, "write") /\ writer # NoRequest
             /\ Moves(r, Again(flow[r], FALSE))
             /\ Calm /\ ReadOnly

NewIds(S) == CHOOSE g \in [S -> ids + 1 .. ids + Cardinality(S)] :
                \A a, b \in S : g[a] = g[b] => a = b

\* The ids that are given out, and the table afterwards.
Fresh(r) == LET f == flow[r] IN
    CASE f.kind = "create" -> Current(r).columns
      [] f.kind = "update" -> {c \in ColumnName : ~f.blank /\ f.merged[c] = 0}
      [] OTHER -> {}

\* A column with an id is updated where it is: it is not made again when it
\* has been deleted meanwhile.
Changed(r, now) ==
    LET f == flow[r]
        new == NewIds(Fresh(r))
    IN CASE f.kind = "create" ->
              [id |-> ids + Cardinality(Fresh(r)) + 1,
               cols |-> [c \in ColumnName |-> IF c \in Fresh(r) THEN new[c] ELSE 0]]
         [] f.kind = "update" ->
              IF f.blank THEN now
              ELSE [now EXCEPT !.cols = [c \in ColumnName |->
                       IF c \in Fresh(r) THEN new[c]
                       ELSE IF f.merged[c] = @[c] THEN @[c] ELSE 0]]
         [] OTHER -> Gone

\* Mutation of Acceptable: a table of that name may be there.
AcceptableTwice(r, now) ==
    LET f == flow[r] IN
    CASE f.kind = "create" -> Current(r).flaw # "alike"
      [] OTHER -> now.id = f.loaded.id

\* The handler finds the row as it should be.
Acceptable(r, now) ==
    LET f == flow[r] IN
    CASE f.kind = "create" -> now.id = 0 /\ Current(r).flaw # "alike"
      [] OTHER -> now.id = f.loaded.id

Total(r) == ids + Cardinality(Fresh(r)) + (IF flow[r].kind = "create" THEN 1 ELSE 0)

\* The change is made and read back.  What is counted is a change that was asked
\* for: after a merge that has failed, an update of nothing succeeds.
Commit(r) ==
    /\ FlowAt(r, "commit")
    /\ LET name == Current(r).table IN
       /\ Acceptable(r, catalog[name]) /\ Total(r) <= MaxIds
       /\ catalog' = [catalog EXCEPT ![name] = Changed(r, @)]
       /\ ids' = Total(r)
       /\ writer' = NoRequest
       /\ LET done == [flow[r] EXCEPT !.commits = IF flow[r].blank THEN @ ELSE @ + 1]
          IN \/ Calm /\ Moves(r, [done EXCEPT !.at = "answer", !.ok = TRUE])
             \/ \E retryable \in BOOLEAN :
                   Upset /\ Moves(r, Again([done EXCEPT !.late = TRUE], retryable))
    /\ UNCHANGED <<granted, reports, orders>>

\* The handler refuses, which is for good, or the database does.
NotCommitted(r) ==
    /\ FlowAt(r, "commit")
    /\ writer' = NoRequest
    /\ \/ /\ ~Acceptable(r, catalog[Current(r).table]) \/ Total(r) > MaxIds
          /\ Calm /\ Moves(r, Again(flow[r], FALSE))
       \/ \E retryable \in BOOLEAN : Upset /\ Moves(r, Again(flow[r], retryable))
    /\ UNCHANGED <<catalog, granted, reports, ids, orders>>

-----------------------------------------------------------------------------
FlowInit == /\ catalog \in [TableName -> {Gone}]
            /\ writer = NoRequest
            /\ granted = Kinds
            /\ flow = [r \in Requests |-> Idle]
            /\ reports = [r \in Requests |-> {}]
            /\ ids = 0 /\ orders = 0 /\ upsets = 0

FlowGoesOn(r) == \/ CheckTableExists(r) \/ LoadCurrentTable(r) \/ FindForDelete(r)
                 \/ ValidateTargetTables(r) \/ CheckFKConflicts(r) \/ MergeData(r)
                 \/ TakeLock(r) \/ Locked(r) \/ Commit(r) \/ NotCommitted(r) \/ Answer(r)

FlowNext == \/ \E r \in Requests : StartOrder(r) \/ AbortOrder(r) \/ ReadFails(r) \/ FlowGoesOn(r)
            \/ Revoke

FlowSpec == FlowInit /\ [][FlowNext]_flowVars

FlowTypeOK ==
    /\ catalog \in [TableName -> Catalogued]
    /\ writer \in Requests \cup {NoRequest}
    /\ \A r \in Requests : writer = r <=> FlowAt(r, "commit")
    /\ granted \subseteq Kinds
    /\ \A r \in Requests :
          /\ flow[r].at \in Places /\ flow[r].kind \in Kinds
          /\ flow[r].items = <<>> <=> FlowAt(r, "idle")
          /\ flow[r].tries \in 0 .. MaxRetries
          /\ reports[r] \subseteq Report
    /\ {orders, upsets, ids} \subseteq Nat

SomeDeleted == \E r \in Requests :
    \/ flow[r].kind = "delete" /\ flow[r].commits > 0
    \/ \E p \in reports[r] : p.kind = "delete" /\ p.commits > 0

(* What a tool reports of a table is so, whatever is retried and whatever  *)
(* others do meanwhile: what is called a success has been committed, unless *)
(* its columns could not be merged, a creation by exactly one of its       *)
(* attempts, unless its table has been deleted in between, and a failure    *)
(* that was committed all the same is one of reading the result back       *)
(* (execute() of the workflows).                                           *)
ReportsAreSo ==
    \A r \in Requests : \A p \in reports[r] :
       /\ (p.ok /\ ~p.blank) => p.commits > 0
       /\ (p.kind = "create" /\ ~SomeDeleted) => p.commits <= 1
       /\ (~p.ok /\ p.commits > 0) => p.late

(* "success: true" of execute() tells that the table is as it was asked    *)
(* (table-update-workflow.ts:763-768): an update whose merge has thrown    *)
(* goes on with nothing in it, and reports one.                            *)
SuccessIsCommitted ==
    \A r \in Requests : \A p \in reports[r] : p.ok => p.commits > 0

\* An update that gives the lock back leaves the columns it loaded alone.
UpdateKeepsColumns ==
    \A r \in Requests :
       (FlowAt(r, "commit") /\ flow[r].kind = "update" /\ flow'[r].at # "commit") =>
          \A n \in TableName : \A c \in ColumnName :
             (catalog[n].id = flow[r].loaded.id /\ catalog[n].cols[c] = flow[r].loaded.cols[c]
                 /\ catalog[n].cols[c] # 0)
                => catalog'[n].cols[c] = catalog[n].cols[c]

(* An update leaves the columns that it found when it loaded the table, and *)
(* that are still there, as they are: it sends the whole list of columns,  *)
(* and those that it does not send are deleted (mergeData()).              *)
LoadedColumnsStay == [][UpdateKeepsColumns]_flowVars

(* update_tables adds columns and changes them, "Merged by name"           *)
(* (llm-tools.helper.ts:278): it deletes none.                             *)
UpdatesAddColumns ==
    [][\A t \in TableName : \A c \in ColumnName :
          (catalog[t].id # 0 /\ catalog'[t].id = catalog[t].id /\ catalog[t].cols[c] # 0)
             => catalog'[t].cols[c] = catalog[t].cols[c]]_flowVars
=============================================================================
