---------------------------- MODULE CascadeWrites ----------------------------
(***************************************************************************)
(* Writing a record with its relations on SQL (KnexEntityManager, the      *)
(* hooks of KnexService, CascadeHandler).  The hook before the statement   *)
(* puts the relations of the body into a map, under the name of the table; *)
(* the one after it takes from there what it writes to the junction table, *)
(* to the children and to the one-to-one partner, statement by statement.  *)
(* The map belongs to the process: so do its entries, and not to requests. *)
(*                                                                         *)
(* One table is followed, with one relation of each kind that cascades.    *)
(* (A many-to-one relation is a column of the statement itself.)           *)
(***************************************************************************)
EXTENDS Naturals, FiniteSets

CONSTANTS Server,      \* processes
          NoServer,    \* none of them
          Writes,      \* requests at a time
          Tags,        \* records of the many-to-many target
          FirstKids,   \* records of the one-to-many target, from the start
          Bodies,      \* what requests say of relations
          MaxRecords,  \* bound on records
          MaxKids,     \* bound on children
          MaxWritten,  \* bound on requests
          MaxFlaws     \* bound on failures and crashes

Kid == 1 .. MaxKids
Body == [tags : SUBSET Tags, kids : SUBSET FirstKids, born : BOOLEAN, one : BOOLEAN]

ASSUME CascadeAssumption ==
    /\ Bodies \subseteq Body /\ \E n \in 0 .. MaxKids : FirstKids = 1 .. n
    /\ {MaxRecords, MaxKids, MaxWritten, MaxFlaws} \subseteq Nat

VARIABLES dialect,    \* DB_TYPE, and whether the table's name has four parts
          records,    \* ids of the table
          tagged,     \* rows of the junction table
          parent,     \* the children, and the record that each points to, or 0
          partnered,  \* records that have a partner
          context,    \* cascadeContextMap of each process, for the table
          write,      \* what each request is doing
          shared,     \* history: two requests at a time in one process
          contended,  \* history: two at a time for one record or child
          lastRecord, written, flaws

writeVars == <<dialect, records, tagged, parent, partnered, context, write, shared, contended,
              lastRecord, written, flaws>>

NoBodyOf == [tags |-> {}, kids |-> {}, born |-> FALSE, one |-> FALSE]
NoContext == [rec |-> 0, body |-> NoBodyOf, there |-> FALSE]

\* "body" and "rec" are the request's own, "see" and "target" what the hook
\* after the statement has found; "old" and "todo" are its children to be.
Unwritten == [at |-> "idle", on |-> NoServer, new |-> FALSE, rec |-> 0,
              body |-> NoBodyOf, see |-> NoContext, target |-> 0, old |-> {}, todo |-> {},
              made |-> {}]

WriteAt(w, place) == write[w].at = place
Becomes(w, f) == write' = [write EXCEPT ![w] = f]
Onto(w, place) == Becomes(w, [write[w] EXCEPT !.at = place])
Busy == {w \in Writes : ~WriteAt(w, "idle")}
Data == <<records, tagged, parent, partnered>>
Past == <<dialect, shared, contended, lastRecord, written>>

-----------------------------------------------------------------------------
\* What a request has to do with: its children to be, and those it has.
Touched(f) == f.body.kids \cup {k \in DOMAIN parent : f.rec # 0 /\ parent[k] = f.rec}

Contend(f, g) == (f.rec = g.rec /\ f.rec # 0) \/ Touched(f) \cap Touched(g) # {}

\* Mutation of WithContext: what is there is not replaced.
WithContextKept(s, c) == [context EXCEPT ![s] = IF @.there THEN @ ELSE c]

WithContext(s, c) == [context EXCEPT ![s] = c]

\* The hooks before the statement.  Of an insert there is no id yet.
BeginWrite(w, s, r, b) ==
    /\ WriteAt(w, "idle") /\ written < MaxWritten
    /\ LET f == [Unwritten EXCEPT !.at = "statement", !.on = s, !.new = r = 0, !.rec = r, !.body = b]
       IN /\ Becomes(w, f)
          /\ context' = WithContext(s, [rec |-> r, body |-> b, there |-> TRUE])
          /\ shared' = (shared \/ \E v \in Busy : write[v].on = s)
          /\ contended' = (contended \/ \E v \in Busy : Contend(f, write[v]))
    /\ written' = written + 1
    /\ UNCHANGED <<Data, dialect, lastRecord, flaws>>

-----------------------------------------------------------------------------
\* The order of the relations.
OneOrEnd(b) == IF b.one THEN "create" ELSE "finish"
KidsOn(b) == IF b.kids # {} \/ b.born THEN "select" ELSE OneOrEnd(b)
TagsOn(b) == IF b.tags # {} THEN "untag" ELSE KidsOn(b)

\* The statement, and what the hook after it finds: an insert goes on with its
\* own id, an update with the one it finds.  The id of an insert is lost on
\* Postgres when the name of the table looks like a junction's.
Statement(w) ==
    /\ WriteAt(w, "statement")
    /\ LET f == write[w]
           found == context[f.on]
           id == IF f.new THEN lastRecord + 1 ELSE f.rec
           known == IF f.new /\ dialect = "postgres, long name" THEN 0 ELSE id
       IN /\ f.new => lastRecord < MaxRecords
          /\ lastRecord' = IF f.new THEN id ELSE lastRecord
          /\ records' = IF f.new THEN records \cup {id} ELSE records
          /\ Becomes(w, [f EXCEPT !.rec = id, !.see = found,
                               !.target = IF f.new THEN known ELSE found.rec,
                               !.at = IF found.there THEN TagsOn(found.body) ELSE "finish"])
    /\ UNCHANGED <<tagged, parent, partnered, context, dialect, shared, contended, written, flaws>>

\* Statements without an id are refused, as are references to no record, and
\* on Postgres what an insert returns is not an id.
Doomed(w) ==
    LET f == write[w]
    IN \/ f.target = 0 /\ f.at \in {"untag", "select", "link"}
       \/ f.target \notin records /\ f.at = "tag"
       \/ f.target \notin records /\ f.at = "put" /\ f.todo # {}
       \/ f.target \notin records /\ f.at = "put" /\ f.see.body.born /\ f.made = {}
       \/ dialect # "mysql" /\ f.at = "link"

Cascades(w, place) == WriteAt(w, place) /\ ~Doomed(w) /\ UNCHANGED <<Past, context, flaws>>
See(w) == write[w].see.body

\* Mutation of Untagged: what there is stays.
UntaggedNothing(r) == tagged

Untagged(r) == {p \in tagged : p[1] # r}

Untag(w) ==
    /\ Cascades(w, "untag")
    /\ tagged' = Untagged(write[w].target)
    /\ Onto(w, "tag")
    /\ UNCHANGED <<records, parent, partnered>>

Tag(w) ==
    /\ Cascades(w, "tag")
    /\ tagged' = tagged \cup ({write[w].target} \X See(w).tags)
    /\ Onto(w, KidsOn(See(w)))
    /\ UNCHANGED <<records, parent, partnered>>

\* Which children there are is read before it is written.
SelectKids(w) ==
    /\ Cascades(w, "select")
    /\ LET has == {k \in DOMAIN parent : parent[k] = write[w].target}
       IN Becomes(w, [write[w] EXCEPT !.at = IF has \subseteq See(w).kids THEN "put" ELSE "free",
                                   !.old = has \ See(w).kids, !.todo = See(w).kids])
    /\ UNCHANGED Data

FreeKids(w) ==
    /\ Cascades(w, "free")
    /\ parent' = [k \in DOMAIN parent |-> IF k \in write[w].old THEN 0 ELSE parent[k]]
    /\ Onto(w, "put")
    /\ UNCHANGED <<records, tagged, partnered>>

\* One after another, those there are in the order of the body.
PutKid(w) ==
    /\ Cascades(w, "put")
    /\ \E k \in write[w].todo :
          /\ parent' = [parent EXCEPT ![k] = write[w].target]
          /\ Becomes(w, [write[w] EXCEPT !.todo = @ \ {k}])
    /\ UNCHANGED <<records, tagged, partnered>>

NewKid(w) ==
    /\ Cascades(w, "put")
    /\ See(w).born /\ write[w].made = {} /\ Cardinality(DOMAIN parent) < MaxKids
    /\ LET k == Cardinality(DOMAIN parent) + 1
       IN /\ parent' = [j \in DOMAIN parent \cup {k} |->
                           IF j = k THEN write[w].target ELSE parent[j]]
          /\ Becomes(w, [write[w] EXCEPT !.made = {k}])
    /\ UNCHANGED <<records, tagged, partnered>>

KidsDone(w) ==
    /\ Cascades(w, "put")
    /\ write[w].todo = {} /\ (See(w).born => write[w].made # {})
    /\ Onto(w, OneOrEnd(See(w)))
    /\ UNCHANGED Data

\* A partner without id is created, then the record is made to point to it.
CreateOne(w) ==
    /\ Cascades(w, "create")
    /\ Onto(w, "link")
    /\ UNCHANGED Data

LinkOne(w) ==
    /\ Cascades(w, "link")
    /\ partnered' = partnered \cup ({write[w].target} \cap records)
    /\ Onto(w, "finish")
    /\ UNCHANGED <<records, tagged, parent>>

\* The entry is deleted, whosever it is, by who has found one.
FinishWrite(w) ==
    /\ WriteAt(w, "finish")
    /\ context' = IF write[w].see.there THEN [context EXCEPT ![write[w].on] = NoContext]
                                        ELSE context
    /\ Becomes(w, Unwritten)
    /\ UNCHANGED <<Data, Past, flaws>>

-----------------------------------------------------------------------------
\* What has been written stays, and so does the entry.
WriteFailed(w) ==
    /\ ~WriteAt(w, "idle") /\ ~WriteAt(w, "finish")
    /\ IF Doomed(w) THEN UNCHANGED flaws ELSE flaws < MaxFlaws /\ flaws' = flaws + 1
    /\ Becomes(w, Unwritten)
    /\ UNCHANGED <<Data, Past, context>>

CrashServer(s) ==
    /\ flaws < MaxFlaws /\ flaws' = flaws + 1
    /\ \E w \in Busy : write[w].on = s
    /\ write' = [w \in Writes |-> IF write[w].on = s THEN Unwritten ELSE write[w]]
    /\ context' = [context EXCEPT ![s] = NoContext]
    /\ UNCHANGED <<Data, Past>>

\* The database deletes what refers to a record, or clears the reference.
DeleteRecord(r) ==
    /\ written < MaxWritten /\ written' = written + 1
    /\ records' = records \ {r}
    /\ tagged' = {p \in tagged : p[1] # r}
    /\ parent' = [k \in DOMAIN parent |-> IF parent[k] = r THEN 0 ELSE parent[k]]
    /\ partnered' = partnered \ {r}
    /\ contended' = (contended \/ \E v \in Busy : r \in {write[v].rec, write[v].target})
    /\ UNCHANGED <<dialect, context, write, shared, lastRecord, flaws>>

-----------------------------------------------------------------------------
WritesInit ==
    /\ dialect \in {"mysql", "postgres", "postgres, long name"}
    /\ records = {} /\ tagged = {} /\ partnered = {}
    /\ parent = [k \in FirstKids |-> 0]
    /\ context = [s \in Server |-> NoContext]
    /\ write = [w \in Writes |-> Unwritten]
    /\ shared = FALSE /\ contended = FALSE
    /\ lastRecord = 0 /\ written = 0 /\ flaws = 0

WritesNext ==
    \/ \E w \in Writes :
          \/ \E s \in Server, r \in records \cup {0}, b \in Bodies : BeginWrite(w, s, r, b)
          \/ Statement(w) \/ Untag(w) \/ Tag(w) \/ SelectKids(w) \/ FreeKids(w) \/ PutKid(w)
          \/ NewKid(w) \/ KidsDone(w) \/ CreateOne(w) \/ LinkOne(w) \/ FinishWrite(w)
          \/ WriteFailed(w)
    \/ \E s \in Server : CrashServer(s)
    \/ \E r \in records : DeleteRecord(r)

WritesSpec == WritesInit /\ [][WritesNext]_writeVars

WritesTypeOK ==
    /\ records \subseteq 1 .. lastRecord /\ lastRecord \in 0 .. MaxRecords
    /\ tagged \subseteq records \X Tags /\ partnered \subseteq records
    /\ DOMAIN parent \subseteq Kid /\ \A k \in DOMAIN parent : parent[k] \in records \cup {0}
    /\ \A s \in Server : context[s].rec \in 0 .. lastRecord /\ context[s].body \in Body
    /\ \A w \in Writes : write[w].body \in Bodies \cup {NoBodyOf} /\ write[w].on \in Server \cup {NoServer}
    /\ {shared, contended} \subseteq BOOLEAN /\ {written, flaws} \subseteq Nat

-----------------------------------------------------------------------------
\* The relations that a request names are those of its record.  (A list that
\* is empty is passed over.)
Synced(w) ==
    LET f == write[w]
        kids == f.body.kids \cup f.made
    IN /\ f.body.tags # {} => {p[2] : p \in {q \in tagged : q[1] = f.rec}} = f.body.tags
       /\ (f.body.kids # {} \/ f.body.born) =>
             /\ {k \in DOMAIN parent : parent[k] = f.rec} = kids
             /\ f.body.born => f.made # {}
       /\ f.body.one => f.rec \in partnered

(* A request that has come to its end has stored the relations of its body, *)
(* each as a whole, whatever other processes write to other records and     *)
(* children meanwhile, and whatever earlier requests that have failed have  *)
(* left in the map; but not if there were two at a time in one process, or  *)
(* for one record or child (handleCascadeRelations()).                      *)
WritesAreSynced ==
    (~shared /\ ~contended) => \A w \in Writes : WriteAt(w, "finish") => Synced(w)

(* "M2M: sync junction table" (cascade-handler.ts:15): the same with two    *)
(* requests at a time in one process, for different records and children.   *)
EveryWriteIsSynced ==
    ~contended => \A w \in Writes : WriteAt(w, "finish") => Synced(w)
=============================================================================
