---------------------------- MODULE MCRouteCache ----------------------------
(***************************************************************************)
(* A small instance of RouteCache for TLC: three process lifetimes, two    *)
(* calls that may overlap on the first.                                    *)
(***************************************************************************)
EXTENDS RouteCache, TLC

CONSTANTS i1, i2, i3, p1, p2, p3, p4

MCInst == {i1, i2, i3}
MCCall == {p1, p2, p3, p4}
MCAt == p1 :> i1 @@ p2 :> i1 @@ p3 :> i2 @@ p4 :> i3

\* The second and the third instance are alike, each with its call.
MCSymmetry ==
    {f \in Permutations({i2, i3, p3, p4}) :
        \/ f[i2] = i3 /\ f[i3] = i2 /\ f[p3] = p4
        \/ \A x \in DOMAIN f : f[x] = x}
=============================================================================
