---------------------------- MODULE MCBatchStore -----------------------------
(* Batches of one key, of a known and an unknown key, and the empty batch; *)
(* p2 has no key, so plain stores by index are its only writers.           *)
EXTENDS BatchStore, TLC

CONSTANTS t1, t2, p1, p2, kA, kB, s1, s2

MCThreads == {t1, t2}
MCOneThread == {t1}
MCPoints == {p1, p2}
MCKeys == {kA, kB}
MCPointOf == (kA :> p1) @@ (kB :> NoPoint)
MCSamples == {s1, s2}
MCBatches == {<<>>, <<kA>>, <<kB, kA>>}
Symmetry == Permutations({s1, s2}) \cup Permutations({t1, t2})

\* out and view are write-only here: no guard and no checked invariant reads
\* them, so states that differ in them alone are explored once.
Seen == <<lock, values, timestamps, qualities, pc, op, rest>>

==============================================================================
