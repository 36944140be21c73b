----------------------------- MODULE MCServices -----------------------------
(***************************************************************************)
(* Four parts that meet only in the tables of the database, the locks and  *)
(* channels of Redis, and the repositories they write through: the agent's *)
(* tools (TableWorkflow), the bootstrap scripts (BootstrapScripts), the    *)
(* packages (Packages) and the files (FileManagement).  A behaviour is one *)
(* of one part, so that the run is of the size of their sum.               *)
(***************************************************************************)
EXTENDS TableWorkflow, BootstrapScripts, Packages, FileManagement, TLC

CONSTANTS t, u, a, b, r1, r2, c1, c2, f1, f2

VARIABLE part
allVars == <<flowVars, scriptVars, pkgVars, fileVars, part>>

ItemFor(n, cs, w, f) == [table |-> n, columns |-> cs, with |-> w, flaw |-> f]
Order(k, s) == [kind |-> k, items |-> s]

\* Calls in which everything that is told apart occurs.
MCOrders ==
    {Order("create", <<ItemFor(t, {a}, "none", "none"), ItemFor(u, {a}, "there", "looksAlike")>>),
     Order("create", <<ItemFor(t, {a}, "there", "alike")>>),
     Order("create", <<ItemFor(t, {a}, "missing", "none"), ItemFor(u, {a}, "none", "invalid")>>),
     Order("update", <<ItemFor(t, {b}, "none", "none")>>),
     Order("update", <<ItemFor(t, {}, "none", "nameless"), ItemFor(t, {a}, "there", "none")>>),
     Order("update", <<ItemFor(t, {}, "there", "alike")>>),
     Order("delete", <<ItemFor(t, {}, "none", "none"), ItemFor(u, {}, "none", "none")>>)}

\* Requests are alike.
MCSymmetry == Permutations({r1, r2}) \cup Permutations({c1, c2}) \cup Permutations({f1, f2})

MCInit == /\ part \in {"tools", "scripts", "packages", "files"}
          /\ FlowInit /\ ScriptsInit /\ PackagesInit /\ FilesInit

MCNext ==
    /\ UNCHANGED part
    /\ \/ part = "tools" /\ FlowNext /\ UNCHANGED <<scriptVars, pkgVars, fileVars>>
       \/ part = "scripts" /\ ScriptsNext /\ UNCHANGED <<flowVars, pkgVars, fileVars>>
       \/ part = "packages" /\ PackagesNext /\ UNCHANGED <<flowVars, scriptVars, fileVars>>
       \/ part = "files" /\ FilesNext /\ UNCHANGED <<flowVars, scriptVars, pkgVars>>

MCSpec == MCInit /\ [][MCNext]_allVars

TypesOK == FlowTypeOK /\ ScriptsTypeOK /\ PackagesTypeOK /\ FilesTypeOK
=============================================================================
