---------------------------- MODULE MCPointStore -----------------------------
(* Two threads, two points, a key for one of them and a key nobody         *)
(* registered, two samples.                                                *)
EXTENDS PointStore, TLC

CONSTANTS t1, t2, p1, p2, kA, kB, s1, s2

MCThreads == {t1, t2}
MCPoints == {p1, p2}
MCKeys == {kA, kB}
MCPointOf == (kA :> p1) @@ (kB :> NoPoint)
MCSamples == {s1, s2}

==============================================================================
