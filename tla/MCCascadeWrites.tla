--------------------------- MODULE MCCascadeWrites ---------------------------
(***************************************************************************)
(* CascadeWrites for TLC: bodies that name children, tags, a child that is *)
(* to be born or a partner that is to be created.                          *)
(***************************************************************************)
EXTENDS CascadeWrites, TLC

CONSTANTS g, h, w1, w2, s1, s2

Saying(ts, ks, n, o) == [tags |-> ts, kids |-> ks, born |-> n, one |-> o]

MCBodies == {Saying({g}, {1}, FALSE, FALSE), Saying({h}, {2}, TRUE, FALSE),
             Saying({g, h}, {}, FALSE, TRUE)}

\* Requests are alike, and so are processes.
MCSymmetry == Permutations({w1, w2}) \cup Permutations({s1, s2})
=============================================================================
