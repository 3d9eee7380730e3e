----------------------------- MODULE VotingRules -----------------------------
(***************************************************************************)
(* How VotingEngine decides between three sources and how far it finds     *)
(* them apart.  A source is a value and whether it is good: performVotingYX*)
(* and performVotingYC of the client make it VALID exactly if its quality  *)
(* is 0.  Analog values are whole numbers, and decisions on them six times *)
(* the number, so that averages of two and of three are exact.             *)
(***************************************************************************)
EXTENDS Integers, FiniteSets, FiniteSetsExt

Sources == 1..3
Good(s) == {i \in Sources : s[i].good}
Distance(a, b) == IF a < b THEN b - a ELSE a - b

Insufficient == [result |-> "INSUFFICIENT", value |-> 0]
Failed == [result |-> "FAILED", value |-> 0]

\* Strategies 0 and 1, which differ in the quality of the output only.  Mutant:
\* whatever is good first decides.
TwoOfThreeFirst(s) == [result |-> "MAJORITY", value |-> s[Min(Good(s))].value]
TwoOfThree(s) ==
  LET Agreed(n) == {v \in {s[i].value : i \in Good(s)} :
                      Cardinality({i \in Good(s) : s[i].value = v}) = n}
  IN  IF Agreed(3) # {} THEN [result |-> "UNANIMOUS", value |-> Min(Agreed(3))]
      ELSE IF Agreed(2) # {} THEN [result |-> "MAJORITY", value |-> Min(Agreed(2))]
      ELSE [result |-> "DISAGREE", value |-> 0]

\* Strategy 2: one source decides, or the first good one of the others.
Priority(s, source) ==
  [result |-> "MAJORITY",
   value |-> s[IF s[source].good THEN source ELSE Min(Good(s))].value]

VoteYX(s, config) ==
  IF Cardinality(Good(s)) < 2 THEN Insufficient
  ELSE CASE config.strategy = "twoOfThree" -> TwoOfThree(s)
         [] config.strategy = "priority" -> Priority(s, config.source)
         [] OTHER -> Failed

\* The average, without the first of the sources furthest from it if three are
\* good and one is too far from it.
Average(s, I) == (6 \div Cardinality(I)) * MapThenSumSet(LAMBDA i : s[i].value, I)
Off(s, i, average) == Distance(6 * s[i].value, average)

VoteYC(s, config) ==
  LET all == Average(s, Good(s))
      near == \A i \in Good(s) : Off(s, i, all) <= 6 * config.limit
      furthest == Min({i \in Good(s) : \A j \in Good(s) : Off(s, j, all) <= Off(s, i, all)})
  IN  IF Cardinality(Good(s)) < 2 THEN Insufficient
      ELSE IF Cardinality(Good(s)) = 2 THEN [result |-> "MAJORITY", value |-> all]
      ELSE IF near THEN [result |-> "UNANIMOUS", value |-> all]
      ELSE [result |-> "MAJORITY", value |-> Average(s, Good(s) \ {furthest})]

------------------------------------------------------------------------------
\* checkDeviationYX tells zero from not zero only.
LevelYX(s) ==
  IF (\E i \in Good(s) : s[i].value = 0) /\ (\E i \in Good(s) : s[i].value # 0)
  THEN "SEVERE" ELSE "NONE"

LevelYC(s, limit) ==
  LET spread == Max({Distance(s[i].value, s[j].value) : i, j \in Good(s)})
  IN  CASE spread > 2 * limit -> "SEVERE"
        [] spread > limit /\ spread <= 2 * limit -> "MODERATE"
        [] 2 * spread > limit /\ spread <= limit -> "MINOR"
        [] OTHER -> "NONE"

==============================================================================
