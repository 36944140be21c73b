---------------------------- MODULE MCRelations ----------------------------
(***************************************************************************)
(* Two tables with at most two relations between them or to themselves.    *)
(***************************************************************************)
EXTENDS RelationMigration, TLC

CONSTANTS t, u, p, q

MCNamedAs == (t :> p) @@ (u :> q)

\* The tables are alike, each with the property that has its name.
RelationSymmetry == {(t :> u) @@ (u :> t) @@ (p :> q) @@ (q :> p)}
=============================================================================
