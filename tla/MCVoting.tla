------------------------------- MODULE MCVoting ------------------------------
(* Two voters on two groups over the same three points, which two threads  *)
(* set.  Binary groups may change to another strategy, order of sources    *)
(* and count limit, or to a strategy nobody knows.  The count wraps after  *)
(* three votes instead of 256.  Analog limit 1:                            *)
(* values 1 apart deviate a little, 3 apart severely; binary values 1 and  *)
(* 3 differ, yet both are not zero.                                        *)
EXTENDS Voting, TLC

CONSTANTS pA, pB, pC, r1, r2, v1, v2, g1, g2

Good0 == [value |-> 0, good |-> TRUE]
Good1 == [value |-> 1, good |-> TRUE]
Good3 == [value |-> 3, good |-> TRUE]
Bad0 == [value |-> 0, good |-> FALSE]

MCPoints == {pA, pB, pC}
MCValues == {Good0, Good1, Good3, Bad0}
MCFirstValues == {Good0, Good3}
MCReporters == {r1, r2}
MCVoters == {v1, v2}
MCGroups == {g1, g2}

\* The strategy is of no consequence to analog votes.
TwoOutOfThree ==
  [strategy |-> "twoOfThree", source |-> 1, limit |-> 1, count |-> 2, keys |-> <<pA, pB, pC>>]
SecondFirst ==
  [strategy |-> "priority", source |-> 2, limit |-> 1, count |-> 1, keys |-> <<pA, pC, pB>>]
Unknown == [TwoOutOfThree EXCEPT !.strategy = "unknown"]
MCConfigs == [YX |-> {TwoOutOfThree, SecondFirst, Unknown}, YC |-> {TwoOutOfThree}]

Sym == Permutations(MCReporters) \cup Permutations(MCVoters) \cup Permutations(MCGroups)

==============================================================================
