--------------------------- MODULE MCMetadataCache ---------------------------
(***************************************************************************)
(* Small instances of MetadataCache for TLC.                               *)
(***************************************************************************)
EXTENDS MetadataCache, TLC

CONSTANTS i1, i2, i3, p1, p2, p3, p4

\* Three process lifetimes; two calls may overlap on the first.
MCInst3 == {i1, i2, i3}
MCCall4 == {p1, p2, p3, p4}
MCAt4 == p1 :> i1 @@ p2 :> i1 @@ p3 :> i2 @@ p4 :> i3
\* The second and the third instance are alike, each with its call.
MCSymmetry ==
    {f \in Permutations({i2, i3, p3, p4}) :
        \/ f[i2] = i3 /\ f[i3] = i2 /\ f[p3] = p4
        \/ \A x \in DOMAIN f : f[x] = x}

\* Two lifetimes with overlapping calls on the first.
MCInst2 == {i1, i2}
MCCall3 == {p1, p2, p3}
MCAt3 == p1 :> i1 @@ p2 :> i1 @@ p3 :> i2
=============================================================================
