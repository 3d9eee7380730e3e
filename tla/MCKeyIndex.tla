----------------------------- MODULE MCKeyIndex ------------------------------
(* Two points of one type and one of another, four keys, three of them in  *)
(* one bucket: chains of several keys form, types run out, the table fills.*)
EXTENDS KeyIndex, TLC

CONSTANTS k1, k2, k3, k4, YX, YC, b1, b2

MCKeys == {k1, k2, k3, k4}
MCTypes == {YX, YC}
MCBuckets == {b1, b2}
MCHash == (k1 :> b1) @@ (k2 :> b1) @@ (k3 :> b1) @@ (k4 :> b2)
MCCount == (YX :> 2) @@ (YC :> 1)

Sym == Permutations({k1, k2, k3})

\* Milliseconds since boot: the high half stays 0 for the first 49 days.
MCStamps == {<<7, 0>>, <<9, 1>>}

==============================================================================
