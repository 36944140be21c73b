---------------------------- MODULE Subsequence ----------------------------
(***************************************************************************)
(* What Array.prototype.filter() and queries keep of a list: the elements  *)
(* at the positions P, in their order.                                     *)
(***************************************************************************)
EXTENDS Naturals, Sequences, FiniteSets

Rank(P, i) == Cardinality({j \in P : j <= i})
Nth(P, k) == CHOOSE i \in P : Rank(P, i) = k
Subsequence(s, P) == [k \in 1 .. Cardinality(P) |-> s[Nth(P, k)]]
=============================================================================
