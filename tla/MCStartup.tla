------------------------------ MODULE MCStartup ------------------------------
(* Three processes, one of which may crash, and up to two pools; every     *)
(* initialization mode of a type that is set by index and of one that is   *)
(* not, beside every state of the files.                                   *)
EXTENDS Startup, TLC

CONSTANTS p1, p2, p3, YC, DZ

MCProcs == {p1, p2, p3}
MCMayFail == {p1}
MCTypes == <<YC, DZ>>
MCIndexed == {1}
Sym == Permutations({p2, p3})

==============================================================================
