--------------------------- MODULE EventCenterProofs --------------------------
(***************************************************************************)
(* Theorems about EventCenter, for any publishers, subscribers, capacity   *)
(* and addresses, also when publishers die and addresses are wrong.        *)
(*                                                                         *)
(* They rest on one fact: readIndex never moves, so writeIndex never comes *)
(* round.  Every slot is claimed once in the life of the ring, and what is *)
(* claimed lies below writeIndex for good.                                 *)
(*                                                                         *)
(* The second half shows that EventCenter keeps the promise of EventLog,   *)
(* that an empty slot is handed out in the window between claim and fill   *)
(* only, and that a lone waiter does not sleep through an event.  The      *)
(* first two hold when every process finds the segment at the address that *)
(* is kept in it, the third when one subscriber at most calls wait.        *)
(***************************************************************************)
EXTENDS EventCenter, Sequences, FiniteSetTheorems, TLAPS

Labels == {"idle", "retry", "check", "claim", "fill", "post", "count"}

\* The ring starts at 0 for ever; its index is what any publisher has loaded or more.
LoadedBehind ==
  /\ readIndex = 0
  /\ \A p \in Publishers :
       /\ loaded[p] <= writeIndex
       /\ ppc[p] = "claim" => loaded[p] # Capacity - 1
       /\ ppc[p] \in {"fill", "post", "count"} => loaded[p] < writeIndex

\* Nothing was written beyond writeIndex.
Untouched == \A i \in Indices : i >= writeIndex => slots[i] = Unfilled

\* No publisher has sent more than were counted.
SentCounted == \A p \in Publishers : sent[p] <= totalEvents

ActiveCounted == subscriberCount = Cardinality({s \in Subscribers : active[s]})

\* Subscribers are not ahead of the ring, and have something to copy when they copy.
CursorsBehind ==
  \A s \in Subscribers :
    /\ cursor[s] <= writeIndex
    /\ spc[s] = "copy" => cursor[s] < writeIndex
    /\ spc[s] \in {"blocked", "woken"} => s \in Waiters

IInv ==
  /\ TypeOK /\ LoadedBehind /\ Untouched /\ SlotsClaimedOnce
  /\ TotalsAgree /\ SentCounted /\ ActiveCounted /\ CursorsBehind

------------------------------------------------------------------------------
\* The next index is one up, but for the last.
LEMMA FollowingIs ==
  ASSUME NEW i \in Indices
  PROVE  /\ Following(i) \in Indices
         /\ i # Capacity - 1 => Following(i) = i + 1
         /\ i = Capacity - 1 => Following(i) = 0
  BY EventCenterAssumption DEF Following, Indices

\* A set of publishers has a number, which one more or one less changes by one.
LEMMA Counting ==
  ASSUME NEW S \in SUBSET Publishers
  PROVE  /\ IsFiniteSet(S) /\ Cardinality(S) \in Nat
         /\ \A p \in Publishers \ S : Cardinality(S \cup {p}) = Cardinality(S) + 1
         /\ \A p \in S : Cardinality(S \ {p}) = Cardinality(S) - 1 /\ Cardinality(S) >= 1
  <1>1. IsFiniteSet(S)
    BY EventCenterAssumption, FS_Subset
  <1>2. Cardinality(S) \in Nat
    BY <1>1, FS_CardinalityType
  <1>3. \A p \in Publishers \ S : Cardinality(S \cup {p}) = Cardinality(S) + 1
    BY <1>1, FS_AddElement
  <1>4. ASSUME NEW p \in S PROVE Cardinality(S \ {p}) = Cardinality(S) - 1 /\ Cardinality(S) >= 1
    <2>1. IsFiniteSet(S \ {p}) /\ Cardinality(S \ {p}) = Cardinality(S) - 1
      BY <1>1, FS_RemoveElement
    <2>2. Cardinality(S \ {p}) \in Nat
      BY <2>1, FS_CardinalityType
    <2> QED
      BY <1>2, <2>1, <2>2
  <1> QED
    BY <1>1, <1>2, <1>3, <1>4

\* The same for the active subscribers.
LEMMA ActiveCounting ==
  ASSUME active \in [Subscribers -> BOOLEAN], NEW s \in Subscribers, NEW b \in BOOLEAN,
         active' = [active EXCEPT ![s] = b], active[s] # b
  PROVE  LET n == Cardinality({x \in Subscribers : active[x]})
             m == Cardinality({x \in Subscribers : active'[x]})
         IN  n \in Nat /\ m \in Nat /\ m = IF b THEN n + 1 ELSE n - 1
  <1> DEFINE A == {x \in Subscribers : active[x]}
             B == {x \in Subscribers : active'[x]}
  <1>1. IsFiniteSet(A) /\ IsFiniteSet(B)
    BY EventCenterAssumption, FS_Subset
  <1>2. Cardinality(A) \in Nat /\ Cardinality(B) \in Nat
    BY <1>1, FS_CardinalityType
  <1>3. CASE b
    <2>1. B = A \cup {s} /\ s \notin A
      BY <1>3
    <2> QED
      BY <1>1, <1>2, <1>3, <2>1, FS_AddElement
  <1>4. CASE ~b
    <2>1. B = A \ {s} /\ s \in A
      BY <1>4
    <2> QED
      BY <1>1, <1>2, <1>4, <2>1, FS_RemoveElement
  <1> QED
    BY <1>3, <1>4

LEMMA InitIInv == Init => IInv
  <1> SUFFICES ASSUME Init PROVE IInv
    OBVIOUS
  <1> USE EventCenterAssumption DEF Init
  <1>1. 0 \in Indices
    BY DEF Indices
  <1>2. TypeOK
    BY <1>1 DEF TypeOK, Indices
  <1>3. LoadedBehind /\ Untouched /\ SentCounted /\ CursorsBehind
    BY DEF LoadedBehind, Untouched, SentCounted, CursorsBehind
  <1>4. Filling = {} /\ Uncounted = {} /\ {s \in Subscribers : active[s]} = {}
    BY DEF Filling, Uncounted
  <1>5. SlotsClaimedOnce
    BY <1>4 DEF SlotsClaimedOnce
  <1>6. TotalsAgree /\ ActiveCounted
    <2>1. Cardinality(Uncounted) = 0 /\ Cardinality({s \in Subscribers : active[s]}) = 0
      <3> HIDE DEF Init
      <3> QED
        BY <1>4, FS_EmptySet
    <2> QED
      BY <2>1 DEF TotalsAgree, ActiveCounted
  <1> QED
    BY <1>2, <1>3, <1>5, <1>6 DEF IInv

------------------------------------------------------------------------------
(* publish.                                                                *)

\* A load finds writeIndex where it is.
LEMMA LoadKeeps == ASSUME IInv, NEW p \in Publishers, WriteLoad(p) PROVE IInv'
  <1> USE EventCenterAssumption DEF WriteLoad, GotoP, ring, pubs, subs, counters, LoadAddress
  <1>1. Uncounted' = Uncounted
    BY DEF IInv, TypeOK, Uncounted
  <1>2. TypeOK'
    BY <1>1 DEF IInv, TypeOK, Indices, LoadedBehind
  <1>3. LoadedBehind'
    BY <1>1 DEF IInv, TypeOK, Indices, LoadedBehind
  <1>4. Untouched'
    BY <1>1 DEF IInv, TypeOK, Indices, LoadedBehind, Untouched
  <1>5. SlotsClaimedOnce'
    BY <1>1
       DEF IInv, TypeOK, Indices, LoadedBehind, Untouched, SlotsClaimedOnce, Filling
  <1>6. TotalsAgree' /\ SentCounted'
    BY <1>1 DEF IInv, TypeOK, TotalsAgree, SentCounted
  <1>7. ActiveCounted' /\ CursorsBehind'
    BY <1>1 DEF IInv, TypeOK, Indices, ActiveCounted, CursorsBehind
  <1> QED
    BY <1>2, <1>3, <1>4, <1>5, <1>6, <1>7 DEF IInv

\* Refusing an event changes nothing but where the publisher is.
LEMMA FullKeeps == ASSUME IInv, NEW p \in Publishers, WriteFull(p) PROVE IInv'
  <1> USE EventCenterAssumption DEF WriteFull, GotoP, ring, pubs, subs, counters
  <1>1. Uncounted' = Uncounted
    BY DEF IInv, TypeOK, Uncounted
  <1>2. TypeOK'
    BY <1>1 DEF IInv, TypeOK, Indices, LoadedBehind
  <1>3. LoadedBehind'
    BY <1>1 DEF IInv, TypeOK, Indices, LoadedBehind
  <1>4. Untouched'
    BY <1>1 DEF IInv, TypeOK, Indices, LoadedBehind, Untouched
  <1>5. SlotsClaimedOnce'
    BY <1>1
       DEF IInv, TypeOK, Indices, LoadedBehind, Untouched, SlotsClaimedOnce, Filling
  <1>6. TotalsAgree' /\ SentCounted'
    BY <1>1 DEF IInv, TypeOK, TotalsAgree, SentCounted
  <1>7. ActiveCounted' /\ CursorsBehind'
    BY <1>1 DEF IInv, TypeOK, Indices, ActiveCounted, CursorsBehind
  <1> QED
    BY <1>2, <1>3, <1>4, <1>5, <1>6, <1>7 DEF IInv

\* Room means that the loaded index is not the last.
LEMMA RoomKeeps == ASSUME IInv, NEW p \in Publishers, WriteRoom(p) PROVE IInv'
  <1> USE EventCenterAssumption DEF WriteRoom, GotoP, ring, pubs, subs, counters
  <1>1. Uncounted' = Uncounted
    BY DEF IInv, TypeOK, Uncounted
  <1>2. loaded[p] \in Indices /\ readIndex = 0 /\ writeIndex \in Indices
    BY DEF IInv, TypeOK, LoadedBehind
  <1>3. Following(loaded[p]) = 0 <=> loaded[p] = Capacity - 1
    BY <1>2, FollowingIs DEF Indices
  <1>4. TypeOK'
    BY <1>1, <1>2, <1>3 DEF IInv, TypeOK, Indices, LoadedBehind
  <1>5. LoadedBehind'
    BY <1>1, <1>2, <1>3 DEF IInv, TypeOK, Indices, LoadedBehind
  <1>6. Untouched'
    BY <1>1, <1>2, <1>3 DEF IInv, TypeOK, Indices, LoadedBehind, Untouched
  <1>7. SlotsClaimedOnce'
    BY <1>1, <1>2, <1>3
       DEF IInv, TypeOK, Indices, LoadedBehind, Untouched, SlotsClaimedOnce, Filling
  <1>8. TotalsAgree' /\ SentCounted'
    BY <1>1, <1>2, <1>3 DEF IInv, TypeOK, TotalsAgree, SentCounted
  <1>9. ActiveCounted' /\ CursorsBehind'
    BY <1>1, <1>2, <1>3 DEF IInv, TypeOK, Indices, ActiveCounted, CursorsBehind
  <1> QED
    BY <1>4, <1>5, <1>6, <1>7, <1>8, <1>9 DEF IInv

\* The claim moves writeIndex one up, over a slot nobody has touched.
LEMMA ClaimKeeps == ASSUME IInv, NEW p \in Publishers, WriteClaim(p) PROVE IInv'
  <1> USE EventCenterAssumption DEF WriteClaim, GotoP, ring, pubs, subs, counters
  <1>1. loaded[p] \in Indices /\ readIndex = 0 /\ writeIndex \in Indices
    BY DEF IInv, TypeOK, LoadedBehind
  <1>2. Following(loaded[p]) = 0 <=> loaded[p] = Capacity - 1
    BY <1>1, FollowingIs DEF Indices
  <1>3. loaded[p] # Capacity - 1 => Following(loaded[p]) = loaded[p] + 1
    BY <1>1, FollowingIs
  <1>4. ppc[p] = "claim" /\ loaded[p] # Capacity - 1 /\ p \notin Uncounted
    BY DEF IInv, LoadedBehind, Uncounted
  <1>5. \/ UNCHANGED writeIndex /\ ppc' = [ppc EXCEPT ![p] = "retry"] /\ Uncounted' = Uncounted
        \/ /\ writeIndex = loaded[p] /\ writeIndex' = writeIndex + 1
           /\ ppc' = [ppc EXCEPT ![p] = "fill"] /\ Uncounted' = Uncounted \cup {p}
    BY <1>3, <1>4 DEF IInv, TypeOK, Uncounted
  <1>6. /\ Cardinality(Uncounted) \in Nat
        /\ Cardinality(Uncounted \cup {p}) = Cardinality(Uncounted) + 1
    <2>1. Uncounted \in SUBSET Publishers /\ p \in Publishers \ Uncounted
      BY <1>4 DEF Uncounted
    <2> QED
      BY <2>1, Counting
  <1>7. TypeOK'
    <2>1. writeIndex' \in Indices
      BY <1>1, <1>4, <1>5 DEF Indices
    <2>2. ppc' \in [Publishers -> Labels]
      BY <1>5 DEF IInv, TypeOK, Labels
    <2> QED
      BY <2>1, <2>2 DEF IInv, TypeOK, Labels
  <1>8. LoadedBehind'
    BY <1>1, <1>3, <1>4, <1>5 DEF IInv, TypeOK, Indices, LoadedBehind
  <1>9. Untouched'
    BY <1>1, <1>3, <1>4, <1>5 DEF IInv, TypeOK, Indices, LoadedBehind, Untouched
  <1>10. SlotsClaimedOnce'
    BY <1>1, <1>3, <1>4, <1>5
       DEF IInv, TypeOK, Indices, LoadedBehind, Untouched, SlotsClaimedOnce, Filling
  <1>11. TotalsAgree' /\ SentCounted'
    <2>1. SentCounted'
      BY DEF IInv, SentCounted
    <2>2. totalEvents' = totalEvents /\ totalEvents \in Nat /\ writeIndex \in Nat
      BY DEF IInv, TypeOK, Indices
    <2>3. totalEvents + Cardinality(Uncounted) = writeIndex
      BY DEF IInv, TotalsAgree
    <2>4. CASE UNCHANGED writeIndex /\ Uncounted' = Uncounted
      BY <2>1, <2>2, <2>3, <2>4 DEF TotalsAgree
    <2>5. CASE writeIndex' = writeIndex + 1 /\ Uncounted' = Uncounted \cup {p}
      <3>1. Cardinality(Uncounted') = Cardinality(Uncounted) + 1
        BY <1>6, <2>5
      <3> QED
        BY <1>6, <2>1, <2>2, <2>3, <2>5, <3>1 DEF TotalsAgree
    <2> QED
      BY <1>5, <2>1, <2>4, <2>5
  <1>12. ActiveCounted' /\ CursorsBehind'
    BY <1>1, <1>3, <1>4, <1>5 DEF IInv, TypeOK, Indices, ActiveCounted, CursorsBehind
  <1> QED
    BY <1>7, <1>8, <1>9, <1>10, <1>11, <1>12 DEF IInv

\* The slot that is filled is this publisher's alone.
LEMMA FillKeeps == ASSUME IInv, NEW p \in Publishers, WriteFill(p) PROVE IInv'
  <1> USE EventCenterAssumption DEF WriteFill, GotoP, ring, pubs, subs, counters
  <1>1. Uncounted' = Uncounted
    BY DEF IInv, TypeOK, Uncounted
  <1>2. /\ ppc[p] = "fill" /\ p \in Filling /\ p \in Uncounted
        /\ loaded[p] \in Indices /\ loaded[p] < writeIndex /\ Uncounted \in SUBSET Publishers
    BY DEF IInv, TypeOK, LoadedBehind, Filling, Uncounted
  <1>3. Cardinality(Uncounted) \in Nat /\ Cardinality(Uncounted) >= 1
    BY <1>2, Counting
  <1>4. sent[p] + 1 \in 1..(Capacity - 1)
    BY <1>3 DEF IInv, TypeOK, Indices, TotalsAgree, SentCounted
  <1>5. Current(p) \in Events
    BY <1>4 DEF Current, Events
  <1>6. /\ \A i \in Indices : i # loaded[p] => slots'[i] = slots[i]
        /\ slots' \in [Indices -> Events \cup {Unfilled}]
    BY <1>2, <1>5 DEF IInv, TypeOK
  <1>7. Filling' = Filling \ {p}
    BY DEF IInv, TypeOK, Filling
  <1>8. TypeOK'
    BY <1>1, <1>2, <1>6 DEF IInv, TypeOK, Indices, LoadedBehind
  <1>9. LoadedBehind'
    BY <1>1, <1>2, <1>6 DEF IInv, TypeOK, Indices, LoadedBehind
  <1>10. Untouched'
    BY <1>2, <1>6 DEF IInv, TypeOK, Indices, Untouched
  <1>11. SlotsClaimedOnce'
    BY <1>6, <1>7 DEF IInv, TypeOK, SlotsClaimedOnce, Filling
  <1>12. TotalsAgree' /\ SentCounted'
    BY <1>1, <1>2, <1>6 DEF IInv, TypeOK, TotalsAgree, SentCounted
  <1>13. ActiveCounted' /\ CursorsBehind'
    BY <1>1, <1>2, <1>6 DEF IInv, TypeOK, Indices, ActiveCounted, CursorsBehind
  <1> QED
    BY <1>8, <1>9, <1>10, <1>11, <1>12, <1>13 DEF IInv

\* A token is added.
LEMMA PostKeeps == ASSUME IInv, NEW p \in Publishers, WritePost(p) PROVE IInv'
  <1> USE EventCenterAssumption DEF WritePost, GotoP, ring, pubs, subs, counters
  <1>1. Uncounted' = Uncounted
    BY DEF IInv, TypeOK, Uncounted
  <1>2. TypeOK'
    BY <1>1 DEF IInv, TypeOK, Indices, LoadedBehind
  <1>3. LoadedBehind'
    BY <1>1 DEF IInv, TypeOK, Indices, LoadedBehind
  <1>4. Untouched'
    BY <1>1 DEF IInv, TypeOK, Indices, LoadedBehind, Untouched
  <1>5. SlotsClaimedOnce'
    BY <1>1
       DEF IInv, TypeOK, Indices, LoadedBehind, Untouched, SlotsClaimedOnce, Filling
  <1>6. TotalsAgree' /\ SentCounted'
    BY <1>1 DEF IInv, TypeOK, TotalsAgree, SentCounted
  <1>7. ActiveCounted' /\ CursorsBehind'
    BY <1>1 DEF IInv, TypeOK, Indices, ActiveCounted, CursorsBehind
  <1> QED
    BY <1>2, <1>3, <1>4, <1>5, <1>6, <1>7 DEF IInv

\* The event comes from the uncounted to the counted ones.
LEMMA CountKeeps == ASSUME IInv, NEW p \in Publishers, CountEvent(p) PROVE IInv'
  <1> USE EventCenterAssumption DEF CountEvent, GotoP, ring, pubs, subs, counters
  <1>1. /\ Uncounted' = Uncounted \ {p} /\ p \in Uncounted
        /\ Uncounted \in SUBSET Publishers
    BY DEF IInv, TypeOK, Uncounted
  <1>2. /\ Cardinality(Uncounted) \in Nat
        /\ Cardinality(Uncounted \ {p}) = Cardinality(Uncounted) - 1
    BY <1>1, Counting
  <1>3. TypeOK'
    BY DEF IInv, TypeOK, Indices, LoadedBehind
  <1>4. LoadedBehind'
    BY DEF IInv, TypeOK, Indices, LoadedBehind
  <1>5. Untouched'
    BY DEF IInv, TypeOK, Indices, LoadedBehind, Untouched
  <1>6. SlotsClaimedOnce'
    BY
       DEF IInv, TypeOK, Indices, LoadedBehind, Untouched, SlotsClaimedOnce, Filling
  <1>7. TotalsAgree' /\ SentCounted'
    BY <1>1, <1>2 DEF IInv, TypeOK, TotalsAgree, SentCounted
  <1>8. ActiveCounted' /\ CursorsBehind'
    BY DEF IInv, TypeOK, Indices, ActiveCounted, CursorsBehind
  <1> QED
    BY <1>3, <1>4, <1>5, <1>6, <1>7, <1>8 DEF IInv

\* Who dies stays where it is.
LEMMA DieKeeps == ASSUME IInv, NEW p \in Publishers, Die(p) PROVE IInv'
  <1> USE EventCenterAssumption DEF Die, GotoP, ring, pubs, subs, counters
  <1>1. Uncounted' = Uncounted
    BY DEF IInv, TypeOK, Uncounted
  <1>2. TypeOK'
    BY <1>1 DEF IInv, TypeOK, Indices, LoadedBehind
  <1>3. LoadedBehind'
    BY <1>1 DEF IInv, TypeOK, Indices, LoadedBehind
  <1>4. Untouched'
    BY <1>1 DEF IInv, TypeOK, Indices, LoadedBehind, Untouched
  <1>5. SlotsClaimedOnce'
    BY <1>1
       DEF IInv, TypeOK, Indices, LoadedBehind, Untouched, SlotsClaimedOnce, Filling
  <1>6. TotalsAgree' /\ SentCounted'
    BY <1>1 DEF IInv, TypeOK, TotalsAgree, SentCounted
  <1>7. ActiveCounted' /\ CursorsBehind'
    BY <1>1 DEF IInv, TypeOK, Indices, ActiveCounted, CursorsBehind
  <1> QED
    BY <1>2, <1>3, <1>4, <1>5, <1>6, <1>7 DEF IInv

------------------------------------------------------------------------------
(* The subscribers, and connect.                                           *)

\* Who subscribes starts at writeIndex.
LEMMA SubscribeKeeps == ASSUME IInv, NEW s \in Subscribers, Subscribe(s) PROVE IInv'
  <1> USE EventCenterAssumption DEF Subscribe, GotoS, ring, pubs, subs, counters
  <1>1. LET n == Cardinality({x \in Subscribers : active[x]})
            m == Cardinality({x \in Subscribers : active'[x]})
        IN  n \in Nat /\ m \in Nat /\ m = n + 1
    <2>1. /\ active \in [Subscribers -> BOOLEAN]
          /\ active' = [active EXCEPT ![s] = TRUE] /\ active[s] # TRUE
      BY DEF IInv, TypeOK
    <2> QED
      BY <2>1, ActiveCounting
  <1>2. TypeOK'
    BY <1>1 DEF IInv, TypeOK, Indices, ActiveCounted
  <1>3. LoadedBehind' /\ Untouched' /\ SentCounted'
    BY DEF IInv, LoadedBehind, Untouched, SentCounted
  <1>4. SlotsClaimedOnce' /\ TotalsAgree'
    BY DEF IInv, SlotsClaimedOnce, Filling, TotalsAgree, Uncounted
  <1>5. ActiveCounted'
    BY <1>1 DEF IInv, ActiveCounted
  <1>6. CursorsBehind'
    BY DEF IInv, TypeOK, Indices, CursorsBehind
  <1> QED
    BY <1>2, <1>3, <1>4, <1>5, <1>6 DEF IInv

\* Who unsubscribes was counted.
LEMMA UnsubscribeKeeps == ASSUME IInv, NEW s \in Subscribers, Unsubscribe(s) PROVE IInv'
  <1> USE EventCenterAssumption DEF Unsubscribe, GotoS, ring, pubs, subs, counters
  <1>1. LET n == Cardinality({x \in Subscribers : active[x]})
            m == Cardinality({x \in Subscribers : active'[x]})
        IN  n \in Nat /\ m \in Nat /\ m = n - 1
    <2>1. /\ active \in [Subscribers -> BOOLEAN]
          /\ active' = [active EXCEPT ![s] = FALSE] /\ active[s] # FALSE
      BY DEF IInv, TypeOK
    <2> QED
      BY <2>1, ActiveCounting
  <1>2. TypeOK'
    BY <1>1 DEF IInv, TypeOK, Indices, ActiveCounted
  <1>3. LoadedBehind' /\ Untouched' /\ SentCounted'
    BY DEF IInv, LoadedBehind, Untouched, SentCounted
  <1>4. SlotsClaimedOnce' /\ TotalsAgree'
    BY DEF IInv, SlotsClaimedOnce, Filling, TotalsAgree, Uncounted
  <1>5. ActiveCounted'
    BY <1>1 DEF IInv, ActiveCounted
  <1>6. CursorsBehind'
    BY DEF IInv, TypeOK, Indices, CursorsBehind
  <1> QED
    BY <1>2, <1>3, <1>4, <1>5, <1>6 DEF IInv

\* A poll that finds an event is behind.
LEMMA PollKeeps == ASSUME IInv, NEW s \in Subscribers, PollFound(s) PROVE IInv'
  <1> USE EventCenterAssumption DEF PollFound, GotoS, ring, pubs, subs, counters, LoadAddress
  <1>1. TypeOK'
    BY DEF IInv, TypeOK, Indices
  <1>2. LoadedBehind' /\ Untouched' /\ SentCounted'
    BY DEF IInv, LoadedBehind, Untouched, SentCounted
  <1>3. SlotsClaimedOnce' /\ TotalsAgree'
    BY DEF IInv, SlotsClaimedOnce, Filling, TotalsAgree, Uncounted
  <1>4. ActiveCounted'
    BY DEF IInv, ActiveCounted
  <1>5. CursorsBehind'
    BY DEF IInv, TypeOK, Indices, CursorsBehind
  <1> QED
    BY <1>1, <1>2, <1>3, <1>4, <1>5 DEF IInv

\* A copy moves on by one, which is not round the end.
LEMMA CopyKeeps == ASSUME IInv, NEW s \in Subscribers, PollCopy(s) PROVE IInv'
  <1> USE EventCenterAssumption DEF PollCopy, GotoS, ring, pubs, subs, counters
  <1>1. cursor[s] \in Indices /\ cursor[s] < writeIndex /\ writeIndex \in Indices
    BY DEF IInv, TypeOK, CursorsBehind
  <1>2. Following(cursor[s]) = cursor[s] + 1 /\ Following(cursor[s]) \in Indices
    BY <1>1, FollowingIs DEF Indices
  <1>3. TypeOK'
    BY <1>1, <1>2 DEF IInv, TypeOK
  <1>4. LoadedBehind' /\ Untouched' /\ SentCounted'
    BY DEF IInv, LoadedBehind, Untouched, SentCounted
  <1>5. SlotsClaimedOnce' /\ TotalsAgree'
    BY DEF IInv, SlotsClaimedOnce, Filling, TotalsAgree, Uncounted
  <1>6. ActiveCounted'
    BY DEF IInv, ActiveCounted
  <1>7. CursorsBehind'
    BY <1>1, <1>2 DEF IInv, TypeOK, Indices, CursorsBehind
  <1> QED
    BY <1>3, <1>4, <1>5, <1>6, <1>7 DEF IInv

WaitStep(s) == WaitSleep(s) \/ WaitWake(s) \/ WaitPoll(s) \/ WaitTimeout(s)

\* The steps of wait.
LEMMA WaitKeeps == ASSUME IInv, NEW s \in Subscribers, WaitStep(s) PROVE IInv'
  <1> USE EventCenterAssumption
      DEF WaitStep, GotoS, ring, pubs, subs, counters, WaitSleep, WaitWake, WaitPoll, WaitTimeout,
          LoadAddress
  <1>1. TypeOK'
    <2>1. tokens' \in Nat
      BY DEF IInv, TypeOK
    <2>3. wild' \in [Publishers \cup Subscribers -> BOOLEAN]
      <3>1. \/ UNCHANGED wild
            \/ wild' = [wild EXCEPT ![s] = base \notin Mapped[s]]
        OBVIOUS
      <3>2. wild \in [Publishers \cup Subscribers -> BOOLEAN]
        BY DEF IInv, TypeOK
      <3> QED
        BY <3>1, <3>2
    <2>2. spc' \in [Subscribers -> {"idle", "copy", "blocked", "woken"}]
      BY DEF IInv, TypeOK
    <2> QED
      BY <2>1, <2>2, <2>3 DEF IInv, TypeOK
  <1>2. LoadedBehind' /\ Untouched' /\ SentCounted'
    BY DEF IInv, LoadedBehind, Untouched, SentCounted
  <1>3. SlotsClaimedOnce' /\ TotalsAgree'
    BY DEF IInv, SlotsClaimedOnce, Filling, TotalsAgree, Uncounted
  <1>4. ActiveCounted'
    BY DEF IInv, ActiveCounted
  <1>5. CursorsBehind'
    BY DEF IInv, TypeOK, Indices, CursorsBehind
  <1> QED
    BY <1>1, <1>2, <1>3, <1>4, <1>5 DEF IInv

\* connect changes an address.
LEMMA AttachKeeps == ASSUME IInv, NEW a \in Addresses, Attach(a) PROVE IInv'
  <1> USE EventCenterAssumption DEF Attach, GotoS, ring, pubs, subs, counters
  <1>1. TypeOK'
    BY DEF IInv, TypeOK, Indices
  <1>2. LoadedBehind' /\ Untouched' /\ SentCounted'
    BY DEF IInv, LoadedBehind, Untouched, SentCounted
  <1>3. SlotsClaimedOnce' /\ TotalsAgree'
    BY DEF IInv, SlotsClaimedOnce, Filling, TotalsAgree, Uncounted
  <1>4. ActiveCounted'
    BY DEF IInv, ActiveCounted
  <1>5. CursorsBehind'
    BY DEF IInv, TypeOK, Indices, CursorsBehind
  <1> QED
    BY <1>1, <1>2, <1>3, <1>4, <1>5 DEF IInv

LEMMA StutterKeeps == ASSUME IInv, UNCHANGED vars PROVE IInv'
  <1> USE DEF vars, ring, pubs, subs, counters
  <1>1. TypeOK' /\ LoadedBehind' /\ Untouched' /\ SentCounted'
    BY DEF IInv, TypeOK, LoadedBehind, Untouched, SentCounted
  <1>2. SlotsClaimedOnce' /\ TotalsAgree'
    BY DEF IInv, SlotsClaimedOnce, Filling, TotalsAgree, Uncounted
  <1>3. ActiveCounted' /\ CursorsBehind'
    BY DEF IInv, ActiveCounted, CursorsBehind
  <1> QED
    BY <1>1, <1>2, <1>3 DEF IInv

LEMMA StepIInv == IInv /\ [Next]_vars => IInv'
  <1> SUFFICES ASSUME IInv, [Next]_vars PROVE IInv'
    OBVIOUS
  <1>1. ASSUME NEW a \in Addresses, Attach(a) PROVE IInv'
    BY <1>1, AttachKeeps
  <1>2. ASSUME NEW p \in Publishers, Publish(p) \/ Die(p) PROVE IInv'
    BY <1>2, LoadKeeps, FullKeeps, RoomKeeps, ClaimKeeps, FillKeeps, PostKeeps, CountKeeps, DieKeeps
       DEF Publish
  <1>3. ASSUME NEW s \in Subscribers, Subscribe(s) \/ Unsubscribe(s) \/ Consume(s) PROVE IInv'
    BY <1>3, SubscribeKeeps, UnsubscribeKeeps, PollKeeps, CopyKeeps, WaitKeeps DEF Consume, WaitStep
  <1> QED
    BY <1>1, <1>2, <1>3, StutterKeeps DEF Next

------------------------------------------------------------------------------
\* IInv holds in every state of the event center.
THEOREM Invariance == Spec => []IInv
  BY InitIInv, StepIInv, PTL DEF Spec

\* The variables keep their types: indices stay in the ring, and no counter goes
\* below zero.
THEOREM TypeCorrect == Spec => []TypeOK
  <1>1. IInv => TypeOK
    BY DEF IInv
  <1> QED
    BY <1>1, Invariance, PTL

\* However publishers race for the ring, no two fill one slot and none fills a slot
\* again.
THEOREM ClaimedOnce == Spec => []SlotsClaimedOnce
  <1>1. IInv => SlotsClaimedOnce
    BY DEF IInv
  <1> QED
    BY <1>1, Invariance, PTL

\* The header counts every accepted event but those whose publishers have not come
\* to it.
THEOREM TotalsAreRight == Spec => []TotalsAgree
  <1>1. IInv => TotalsAgree
    BY DEF IInv
  <1> QED
    BY <1>1, Invariance, PTL

\* publish refuses an event exactly after Capacity - 1 were accepted, and from then
\* on for ever.
THEOREM RingIsSpent == Spec => SpentForGood
  <1>1. ASSUME IInv, [Next]_vars PROVE \A p \in Publishers : Refuses(p) => writeIndex = Capacity - 1
    <2> SUFFICES ASSUME NEW p \in Publishers, Refuses(p) PROVE writeIndex = Capacity - 1
      OBVIOUS
    <2>1. WriteFull(p)
      <3>1. ppc[p] = "check" /\ ppc'[p] = "idle"
        BY DEF Refuses
      <3>2. ASSUME NEW q \in Publishers, Publish(q) \/ Die(q) PROVE WriteFull(p)
        BY <1>1, <3>1, <3>2
           DEF IInv, TypeOK, Publish, Die, WriteLoad, WriteFull, WriteRoom, WriteClaim, WriteFill,
               WritePost, CountEvent, GotoP
      <3>3. ASSUME NEW a \in Addresses, Attach(a) PROVE FALSE
        BY <3>1, <3>3 DEF Attach, pubs
      <3>4. ASSUME NEW s \in Subscribers, Subscribe(s) \/ Unsubscribe(s) \/ Consume(s) PROVE FALSE
        BY <3>1, <3>4
           DEF Subscribe, Unsubscribe, Consume, PollFound, PollCopy, WaitSleep, WaitWake, WaitPoll,
               WaitTimeout, pubs
      <3> QED
        BY <1>1, <3>1, <3>2, <3>3, <3>4 DEF Next, vars, pubs
    <2>2. loaded[p] \in Indices /\ loaded[p] <= writeIndex /\ writeIndex \in Indices /\ readIndex = 0
      BY <1>1 DEF IInv, TypeOK, LoadedBehind
    <2>3. loaded[p] = Capacity - 1
      BY <2>1, <2>2, FollowingIs, EventCenterAssumption DEF WriteFull, Indices
    <2> QED
      BY <2>2, <2>3, EventCenterAssumption DEF Indices
  <1>2. ASSUME IInv, [Next]_vars, writeIndex = Capacity - 1 PROVE writeIndex' = writeIndex
    <2>1. ASSUME NEW p \in Publishers, Publish(p) \/ Die(p) PROVE writeIndex' = writeIndex
      <3>1. CASE WriteClaim(p)
        BY <1>2, <3>1 DEF IInv, LoadedBehind, WriteClaim, GotoP
      <3> QED
        BY <2>1, <3>1
           DEF Publish, Die, WriteLoad, WriteFull, WriteRoom, WriteFill, WritePost, CountEvent, ring
    <2>2. ASSUME NEW a \in Addresses, Attach(a) PROVE writeIndex' = writeIndex
      BY <2>2 DEF Attach, ring
    <2>3. ASSUME NEW s \in Subscribers, Subscribe(s) \/ Unsubscribe(s) \/ Consume(s)
          PROVE  writeIndex' = writeIndex
      BY <2>3 DEF Subscribe, Unsubscribe, Consume, PollFound, PollCopy, WaitSleep, WaitWake,
                  WaitPoll, WaitTimeout, ring
    <2> QED
      BY <1>2, <2>1, <2>2, <2>3 DEF Next, vars, ring
  <1>3. IInv /\ [Next]_vars =>
          [/\ \A p \in Publishers : Refuses(p) => writeIndex = Capacity - 1
           /\ writeIndex = Capacity - 1 => writeIndex' = writeIndex]_vars
    BY <1>1, <1>2
  <1> QED
    BY <1>3, Invariance, PTL DEF Spec, SpentForGood

------------------------------------------------------------------------------
OneAddress == \A x \in Publishers \cup Subscribers : Mapped[x] = Addresses
OneWaiter == \A s, t \in Waiters : s = t

NotWild == \A x \in Publishers \cup Subscribers : wild[x] = FALSE

\* A slot below writeIndex is empty only while its publisher is about to fill it.
Window == \A i \in Indices : i < writeIndex /\ slots[i] = Unfilled =>
            \E p \in Filling : loaded[p] = i

OwnInv == IInv /\ NotWild /\ Window

------------------------------------------------------------------------------
(* One address.                                                            *)

LEMMA InitOwnInv == ASSUME OneAddress PROVE Init => OwnInv
  <1> SUFFICES ASSUME Init PROVE OwnInv
    OBVIOUS
  <1>1. NotWild /\ Window
    BY DEF NotWild, Window, Init, Indices
  <1> QED
    BY <1>1, InitIInv DEF OwnInv

\* What base is, it is this process's address.
LEMMA NotWildKept == ASSUME OneAddress, IInv, NotWild, [Next]_vars PROVE NotWild'
  <1>1. base \in Addresses /\ wild \in [Publishers \cup Subscribers -> BOOLEAN]
    BY DEF IInv, TypeOK
  <1>2. ASSUME NEW x \in Publishers \cup Subscribers, LoadAddress(x) PROVE NotWild'
    BY <1>1, <1>2 DEF OneAddress, LoadAddress, NotWild
  <1>3. CASE UNCHANGED wild
    BY <1>3 DEF NotWild
  <1>4. ASSUME NEW p \in Publishers, Publish(p) \/ Die(p) PROVE NotWild'
    BY <1>2, <1>3, <1>4
       DEF Publish, Die, WriteLoad, WriteFull, WriteRoom, WriteClaim, WriteFill, WritePost, CountEvent
  <1>5. ASSUME NEW s \in Subscribers, Subscribe(s) \/ Unsubscribe(s) \/ Consume(s) PROVE NotWild'
    BY <1>2, <1>3, <1>5
       DEF Subscribe, Unsubscribe, Consume, PollFound, PollCopy, WaitSleep, WaitWake, WaitPoll,
           WaitTimeout
  <1> QED
    BY <1>3, <1>4, <1>5 DEF Next, Attach, vars

\* The steps that leave the ring's slots, its index and the publishers about to fill
\* alone.
Aside ==
  /\ UNCHANGED <<writeIndex, slots>> /\ Filling' = Filling
  /\ \A p \in Filling : loaded'[p] = loaded[p] /\ sent'[p] = sent[p]

LEMMA StepsAside ==
  ASSUME IInv, [Next]_vars
  PROVE  \/ Aside
         \/ \E p \in Publishers :
              WriteClaim(p) /\ writeIndex = loaded[p] /\ writeIndex' = Following(loaded[p])
              /\ Filling' = Filling \cup {p}
         \/ \E p \in Publishers : WriteFill(p) /\ Filling' = Filling \ {p}
  <1> USE DEF GotoP, pubs, ring
  <1>1. ppc \in [Publishers -> Labels] /\ loaded \in [Publishers -> Indices] /\ sent \in [Publishers -> Nat]
    BY DEF IInv, TypeOK, Labels
  <1>2. ASSUME UNCHANGED <<writeIndex, slots, pubs>> PROVE Aside
    BY <1>2 DEF Aside, Filling
  <1>3. ASSUME NEW p \in Publishers,
               \/ WriteLoad(p) \/ WriteFull(p) \/ WriteRoom(p) \/ WritePost(p) \/ CountEvent(p) \/ Die(p)
        PROVE  Aside
    BY <1>1, <1>3 DEF Aside, Filling, WriteLoad, WriteFull, WriteRoom, WritePost, CountEvent, Die
  <1>4. ASSUME NEW p \in Publishers, WriteClaim(p)
        PROVE  \/ Aside
               \/ writeIndex = loaded[p] /\ writeIndex' = Following(loaded[p]) /\ Filling' = Filling \cup {p}
    BY <1>1, <1>4 DEF Aside, Filling, WriteClaim
  <1>5. ASSUME NEW p \in Publishers, WriteFill(p) PROVE Filling' = Filling \ {p}
    BY <1>1, <1>5 DEF Filling, WriteFill
  <1>6. ASSUME NEW s \in Subscribers, Subscribe(s) \/ Unsubscribe(s) \/ Consume(s) PROVE Aside
    BY <1>2, <1>6
       DEF Subscribe, Unsubscribe, Consume, PollFound, PollCopy, WaitSleep, WaitWake, WaitPoll,
           WaitTimeout
  <1>7. ASSUME NEW a \in Addresses, Attach(a) PROVE Aside
    BY <1>2, <1>7 DEF Attach
  <1>8. CASE UNCHANGED vars
    BY <1>2, <1>8 DEF vars
  <1> QED
    BY <1>3, <1>4, <1>5, <1>6, <1>7, <1>8 DEF Next, Publish

\* What is filled in is an event.
LEMMA FilledIn ==
  ASSUME IInv, NEW p \in Publishers, WriteFill(p)
  PROVE  /\ loaded[p] \in Indices /\ loaded[p] < writeIndex /\ p \in Filling
         /\ Current(p) \in Events
         /\ ~wild[p] => slots' = [slots EXCEPT ![loaded[p]] = Current(p)]
         /\ UNCHANGED <<writeIndex, loaded, sent>>
  <1>1. p \in Uncounted /\ Uncounted \in SUBSET Publishers /\ p \in Filling
    BY DEF WriteFill, GotoP, Uncounted, Filling
  <1>2. Cardinality(Uncounted) \in Nat /\ Cardinality(Uncounted) >= 1
    BY <1>1, Counting
  <1>3. sent[p] + 1 \in 1..(Capacity - 1)
    BY <1>2, EventCenterAssumption DEF IInv, TypeOK, Indices, TotalsAgree, SentCounted
  <1>4. Current(p) \in Events
    BY <1>3 DEF Current, Events
  <1> QED
    BY <1>1, <1>4 DEF IInv, TypeOK, LoadedBehind, WriteFill, GotoP

LEMMA WindowKept == ASSUME OwnInv, [Next]_vars PROVE Window'
  <1>1. CASE Aside
    BY <1>1 DEF OwnInv, Window, Aside
  <1>2. ASSUME NEW p \in Publishers, WriteClaim(p), writeIndex = loaded[p],
               writeIndex' = Following(loaded[p]), Filling' = Filling \cup {p}
        PROVE  Window'
    <2>1. loaded[p] \in Indices /\ loaded[p] # Capacity - 1 /\ UNCHANGED <<loaded, slots>>
      BY <1>2 DEF OwnInv, IInv, TypeOK, LoadedBehind, WriteClaim, GotoP
    <2>2. writeIndex' = writeIndex + 1
      BY <1>2, <2>1, FollowingIs
    <2> QED
      BY <1>2, <2>1, <2>2, EventCenterAssumption DEF OwnInv, Window, Indices
  <1>3. ASSUME NEW p \in Publishers, WriteFill(p), Filling' = Filling \ {p} PROVE Window'
    <2>1. slots' = [slots EXCEPT ![loaded[p]] = Current(p)] /\ Current(p) # Unfilled
      BY <1>3, FilledIn, EventCenterAssumption DEF OwnInv, NotWild, Events
    <2>2. UNCHANGED <<writeIndex, loaded>> /\ loaded[p] \in Indices
      BY <1>3, FilledIn DEF OwnInv
    <2>3. slots \in [Indices -> Events \cup {Unfilled}]
      BY DEF OwnInv, IInv, TypeOK
    <2> QED
      BY <1>3, <2>1, <2>2, <2>3 DEF OwnInv, Window
  <1> QED
    BY <1>1, <1>2, <1>3, StepsAside DEF OwnInv

LEMMA StepOwnInv == ASSUME OneAddress PROVE OwnInv /\ [Next]_vars => OwnInv'
  BY StepIInv, NotWildKept, WindowKept DEF OwnInv

\* With the segment at one address, a subscriber is handed an empty slot only while
\* its publisher is between claim and fill.
THEOREM EmptyInWindow ==
  ASSUME OneAddress
  PROVE  Spec => EmptyOnlyInWindow
  <1>1. ASSUME OwnInv, [Next]_vars, NEW s \in Subscribers, spc[s] = "copy", spc'[s] = "idle",
               event'[s] = Unfilled
        PROVE  \E p \in Filling : loaded[p] = cursor[s]
    <2>1. PollCopy(s)
      <3>1. ASSUME NEW r \in Subscribers, Subscribe(r) \/ Unsubscribe(r) \/ Consume(r)
            PROVE  PollCopy(s)
        BY <1>1, <3>1
           DEF OwnInv, IInv, TypeOK, Subscribe, Unsubscribe, Consume, PollFound, PollCopy, WaitSleep,
               WaitWake, WaitPoll, WaitTimeout, GotoS
      <3>2. ASSUME NEW p \in Publishers, Publish(p) \/ Die(p) PROVE FALSE
        BY <1>1, <3>2
           DEF Publish, Die, WriteLoad, WriteFull, WriteRoom, WriteClaim, WriteFill, WritePost,
               CountEvent, subs
      <3> QED
        BY <1>1, <3>1, <3>2 DEF Next, Attach, vars, subs
    <2>2. event'[s] = slots[cursor[s]]
      <3>1. ~wild[s] /\ event \in [Subscribers -> Events \cup {Unfilled, Nothing}]
        BY <1>1 DEF OwnInv, IInv, TypeOK, NotWild
      <3> QED
        BY <2>1, <3>1 DEF PollCopy
    <2>3. cursor[s] \in Indices /\ cursor[s] < writeIndex
      BY <1>1 DEF OwnInv, IInv, TypeOK, CursorsBehind
    <2> QED
      BY <1>1, <2>2, <2>3 DEF OwnInv, Window
  <1>2. OwnInv /\ [Next]_vars =>
          [\A s \in Subscribers :
             (spc[s] = "copy" /\ spc'[s] = "idle" /\ event'[s] = Unfilled)
               => \E p \in Filling : loaded[p] = cursor[s]]_vars
    BY <1>1
  <1>3. Init => OwnInv
    BY InitOwnInv
  <1>4. OwnInv /\ [Next]_vars => OwnInv'
    BY StepOwnInv
  <1> QED
    BY <1>2, <1>3, <1>4, PTL DEF Spec, EmptyOnlyInWindow

------------------------------------------------------------------------------
(* The log.                                                                *)

Entry(i) ==
  IF \E p \in Filling : loaded[p] = i - 1
  THEN Current(CHOOSE p \in Filling : loaded[p] = i - 1)
  ELSE slots[i - 1]

LEMMA LogEntries ==
  ASSUME IInv
  PROVE  /\ Log = [i \in 1..writeIndex |-> Entry(i)]
         /\ writeIndex \in Nat /\ Len(Log) = writeIndex
  <1>1. writeIndex \in Nat /\ Log = [i \in 1..writeIndex |-> Entry(i)]
    BY EventCenterAssumption DEF IInv, TypeOK, Indices, Log, Entry
  <1> QED
    BY <1>1

\* The publisher about to fill a slot is the one, before a step and after it.
LEMMA OwnEntry ==
  ASSUME SlotsClaimedOnce, NEW i, NEW p \in Filling, loaded[p] = i - 1
  PROVE  Entry(i) = Current(p)
  <1>1. \A q \in Filling : loaded[q] = i - 1 => q = p
    BY DEF SlotsClaimedOnce
  <1>2. (CHOOSE q \in Filling : loaded[q] = i - 1) = p
    BY <1>1
  <1> QED
    BY <1>2 DEF Entry

LEMMA OwnEntryNext ==
  ASSUME SlotsClaimedOnce', NEW i, NEW p \in Filling', loaded'[p] = i - 1
  PROVE  Entry(i)' = Current(p)'
  <1>1. \A q \in Filling' : loaded'[q] = i - 1 => q = p
    BY DEF SlotsClaimedOnce
  <1>2. (CHOOSE q \in Filling' : loaded'[q] = i - 1) = p
    BY <1>1
  <1> QED
    BY <1>2 DEF Entry

\* The entries stay as they are while the publishers about to fill stay.
LEMMA EntryKept ==
  ASSUME SlotsClaimedOnce, SlotsClaimedOnce', NEW i,
         \A p \in Filling : loaded[p] = i - 1 => p \in Filling',
         \A p \in Filling' : loaded'[p] = i - 1 => p \in Filling,
         \A p \in Filling : loaded'[p] = loaded[p] /\ sent'[p] = sent[p],
         (\A p \in Filling : loaded[p] # i - 1) => slots'[i - 1] = slots[i - 1]
  PROVE  Entry(i)' = Entry(i)
  <1>1. CASE \E p \in Filling : loaded[p] = i - 1
    <2> PICK p \in Filling : loaded[p] = i - 1
      BY <1>1
    <2>1. p \in Filling' /\ loaded'[p] = i - 1 /\ Current(p)' = Current(p)
      BY DEF Current
    <2> QED
      BY <2>1, OwnEntry, OwnEntryNext
  <1>2. CASE \A p \in Filling : loaded[p] # i - 1
    <2>1. \A p \in Filling' : loaded'[p] # i - 1
      BY <1>2
    <2>2. Entry(i) = slots[i - 1]
      BY <1>2 DEF Entry
    <2>3. Entry(i)' = slots'[i - 1]
      BY <2>1 DEF Entry
    <2> QED
      BY <1>2, <2>2, <2>3
  <1> QED
    BY <1>1, <1>2

LEMMA LogKept ==
  ASSUME IInv, IInv', UNCHANGED writeIndex, \A i \in 1..writeIndex : Entry(i)' = Entry(i)
  PROVE  Log' = Log
  <1>1. Log = [i \in 1..writeIndex |-> Entry(i)]
    BY LogEntries
  <1>2. Log' = [i \in 1..writeIndex' |-> Entry(i)']
    BY EventCenterAssumption DEF IInv, TypeOK, Indices, Log, Entry
  <1> QED
    BY <1>1, <1>2

LEMMA AsideKeepsLog == ASSUME IInv, IInv', Aside PROVE Log' = Log
  <1>1. SlotsClaimedOnce /\ SlotsClaimedOnce'
    BY DEF IInv
  <1>2. ASSUME NEW i \in 1..writeIndex PROVE Entry(i)' = Entry(i)
    BY <1>1, EntryKept DEF Aside
  <1> QED
    BY <1>2, LogKept DEF Aside

LEMMA FillKeepsLog ==
  ASSUME IInv, IInv', NotWild, NEW p \in Publishers, WriteFill(p), Filling' = Filling \ {p}
  PROVE  Log' = Log
  <1>1. /\ loaded[p] \in Indices /\ loaded[p] < writeIndex /\ p \in Filling
        /\ slots' = [slots EXCEPT ![loaded[p]] = Current(p)]
        /\ UNCHANGED <<writeIndex, loaded, sent>>
    BY FilledIn DEF NotWild
  <1>2. SlotsClaimedOnce /\ SlotsClaimedOnce' /\ slots \in [Indices -> Events \cup {Unfilled}]
        /\ writeIndex \in Indices
    BY DEF IInv, TypeOK
  <1>3. ASSUME NEW i \in 1..writeIndex PROVE Entry(i)' = Entry(i)
    <2>1. i - 1 \in Indices
      BY <1>2, EventCenterAssumption DEF Indices
    <2>2. CASE i - 1 = loaded[p]
      <3>1. Entry(i) = Current(p)
        BY <1>1, <1>2, <2>2, OwnEntry
      <3>2. \A q \in Filling' : loaded'[q] # i - 1
        BY <1>1, <1>2, <2>2 DEF SlotsClaimedOnce
      <3>3. Entry(i)' = slots'[i - 1]
        BY <3>2 DEF Entry
      <3> QED
        BY <1>1, <1>2, <2>1, <2>2, <3>1, <3>3
    <2>3. CASE i - 1 # loaded[p]
      <3>1. slots'[i - 1] = slots[i - 1]
        BY <1>1, <1>2, <2>1, <2>3
      <3> QED
        BY <1>1, <1>2, <2>3, <3>1, EntryKept
    <2> QED
      BY <2>2, <2>3
  <1> QED
    BY <1>1, <1>3, LogKept

\* The claim appends the event that its publisher holds.
LEMMA ClaimAppends ==
  ASSUME IInv, IInv', NEW p \in Publishers, WriteClaim(p), writeIndex = loaded[p],
         writeIndex' = Following(loaded[p]), Filling' = Filling \cup {p}
  PROVE  /\ Log' = Append(Log, Current(p))
         /\ Current(p) \in Events /\ Len(Log) < Capacity - 1
  <1>1. /\ loaded[p] \in Indices /\ loaded[p] # Capacity - 1 /\ writeIndex \in Nat
        /\ UNCHANGED <<loaded, slots, sent>>
    BY DEF IInv, TypeOK, Indices, LoadedBehind, WriteClaim, GotoP
  <1>2. writeIndex' = writeIndex + 1 /\ writeIndex < Capacity - 1
    BY <1>1, FollowingIs, EventCenterAssumption DEF Indices
  <1>3. Current(p) \in Events
    <2>1. Uncounted \in SUBSET Publishers
      BY DEF Uncounted
    <2>2. Cardinality(Uncounted) \in Nat
      BY <2>1, Counting
    <2>3. sent[p] + 1 \in 1..(Capacity - 1)
      BY <1>2, <2>2, EventCenterAssumption DEF IInv, TypeOK, TotalsAgree, SentCounted
    <2> QED
      BY <2>3 DEF Current, Events
  <1>4. SlotsClaimedOnce /\ SlotsClaimedOnce'
    BY DEF IInv
  <1>5. ASSUME NEW n \in 1..writeIndex', n = writeIndex + 1 PROVE Entry(n)' = Current(p)
    <2>1. p \in Filling' /\ loaded'[p] = n - 1
      BY <1>1, <1>5
    <2>2. Entry(n)' = Current(p)'
      BY <1>4, <2>1, OwnEntryNext
    <2> QED
      BY <1>1, <2>2 DEF Current
  <1>6. ASSUME NEW i \in 1..writeIndex PROVE Entry(i)' = Entry(i)
    <2>1. loaded[p] # i - 1
      BY <1>1
    <2> QED
      BY <1>1, <1>4, <2>1, EntryKept
  <1>7. Log = [i \in 1..writeIndex |-> Entry(i)] /\ Len(Log) = writeIndex
    BY LogEntries
  <1>8. Log' = [i \in 1..writeIndex' |-> Entry(i)']
    BY EventCenterAssumption DEF IInv, TypeOK, Indices, Log, Entry
  <1>9. Log' = Append(Log, Current(p))
    <2> DEFINE S == {Entry(i) : i \in 1..writeIndex} \cup {Current(p)}
               E(i) == IF i = writeIndex + 1 THEN Current(p) ELSE Entry(i)
    <2>1. Log \in Seq(S) /\ Current(p) \in S
      BY <1>1, <1>7
    <2>2. Append(Log, Current(p)) = [i \in 1..(writeIndex + 1) |-> E(i)]
      BY <1>1, <1>7, <2>1
    <2>3. \A i \in 1..(writeIndex + 1) : Entry(i)' = E(i)
      BY <1>1, <1>2, <1>5, <1>6
    <2> QED
      BY <1>2, <1>8, <2>2, <2>3
  <1> QED
    BY <1>2, <1>3, <1>7, <1>9

------------------------------------------------------------------------------
(* EventCenter implements EventLog.                                        *)

LEMMA InitRefines == Init => OneLog!Init
  <1> SUFFICES ASSUME Init PROVE OneLog!Init
    OBVIOUS
  <1>1. Log = <<>>
    BY DEF Init, Log
  <1> QED
    BY <1>1 DEF Init, OneLog!Init

\* Nothing but a claim changes the log.
LEMMA LogSteps ==
  ASSUME OwnInv, OwnInv', [Next]_vars
  PROVE  \/ Log' = Log
         \/ /\ UNCHANGED subs /\ writeIndex' # writeIndex /\ Len(Log) < Capacity - 1
            /\ \E e \in Events : Log' = Append(Log, e)
  <1>1. CASE Aside
    BY <1>1, AsideKeepsLog DEF OwnInv
  <1>2. ASSUME NEW p \in Publishers, WriteFill(p), Filling' = Filling \ {p} PROVE Log' = Log
    BY <1>2, FillKeepsLog DEF OwnInv
  <1>3. ASSUME NEW p \in Publishers, WriteClaim(p), writeIndex = loaded[p],
               writeIndex' = Following(loaded[p]), Filling' = Filling \cup {p}
        PROVE  /\ UNCHANGED subs /\ writeIndex' # writeIndex /\ Len(Log) < Capacity - 1
               /\ \E e \in Events : Log' = Append(Log, e)
    <2>1. Log' = Append(Log, Current(p)) /\ Current(p) \in Events /\ Len(Log) < Capacity - 1
      BY <1>3, ClaimAppends DEF OwnInv
    <2>2. loaded[p] \in Indices /\ loaded[p] # Capacity - 1
      BY <1>3 DEF OwnInv, IInv, TypeOK, LoadedBehind, WriteClaim, GotoP
    <2>3. writeIndex' # writeIndex
      BY <1>3, <2>2, FollowingIs DEF Indices
    <2> QED
      BY <1>3, <2>1, <2>3 DEF WriteClaim
  <1> QED
    BY <1>1, <1>2, <1>3, StepsAside DEF OwnInv

\* Nothing but subscribing and copying changes what a subscriber sees.
LEMMA ViewSteps ==
  ASSUME [Next]_vars
  PROVE  \/ UNCHANGED <<cursor, event>>
         \/ \E s \in Subscribers : Subscribe(s) \/ PollCopy(s)
  <1>1. ASSUME NEW p \in Publishers, Publish(p) \/ Die(p) PROVE UNCHANGED <<cursor, event>>
    BY <1>1
       DEF Publish, Die, WriteLoad, WriteFull, WriteRoom, WriteClaim, WriteFill, WritePost,
           CountEvent, subs
  <1>2. ASSUME NEW s \in Subscribers, Subscribe(s) \/ Unsubscribe(s) \/ Consume(s)
        PROVE  UNCHANGED <<cursor, event>> \/ Subscribe(s) \/ PollCopy(s)
    BY <1>2 DEF Unsubscribe, Consume, PollFound, WaitSleep, WaitWake, WaitPoll, WaitTimeout
  <1> QED
    BY <1>1, <1>2 DEF Next, Attach, vars, subs

\* The copy hands out the next entry of the log, or the empty slot of a publisher that
\* is about to fill it.
LEMMA CopyDelivers ==
  ASSUME OwnInv, NEW s \in Subscribers, PollCopy(s), Log' = Log
  PROVE  OneLog!Deliver(s)
  <1>1. /\ cursor \in [Subscribers -> Indices] /\ cursor[s] \in Indices /\ cursor[s] < writeIndex
        /\ writeIndex \in Indices /\ ~wild[s]
    BY DEF OwnInv, IInv, TypeOK, CursorsBehind, NotWild, PollCopy, GotoS
  <1>2. Log = [i \in 1..writeIndex |-> Entry(i)] /\ Len(Log) = writeIndex
    BY LogEntries DEF OwnInv
  <1>3. cursor[s] + 1 \in 1..writeIndex /\ Following(cursor[s]) = cursor[s] + 1
    BY <1>1, FollowingIs, EventCenterAssumption DEF Indices
  <1>4. cursor' = [cursor EXCEPT ![s] = @ + 1] /\ event' = [event EXCEPT ![s] = slots[cursor[s]]]
    BY <1>1, <1>3 DEF PollCopy
  <1>5. slots[cursor[s]] \in {Log[cursor[s] + 1], Unfilled}
    <2>1. Log[cursor[s] + 1] = Entry(cursor[s] + 1)
      BY <1>2, <1>3
    <2>2. CASE \E p \in Filling : loaded[p] = cursor[s]
      BY <2>2 DEF OwnInv, IInv, SlotsClaimedOnce
    <2>3. CASE \A p \in Filling : loaded[p] # cursor[s]
      <3>1. (cursor[s] + 1) - 1 = cursor[s]
        BY <1>1 DEF Indices
      <3>2. Entry(cursor[s] + 1) = slots[cursor[s]]
        BY <2>3, <3>1 DEF Entry
      <3> QED
        BY <2>1, <3>2
    <2> QED
      BY <2>2, <2>3
  <1> QED
    BY <1>1, <1>2, <1>4, <1>5 DEF OneLog!Deliver

LEMMA StepRefines ==
  ASSUME OwnInv, OwnInv', [Next]_vars
  PROVE  [OneLog!Next]_OneLog!vars
  <1>1. CASE UNCHANGED subs /\ Len(Log) < Capacity - 1 /\ \E e \in Events : Log' = Append(Log, e)
    <2> PICK e \in Events : Log' = Append(Log, e)
      BY <1>1
    <2>1. OneLog!Accept(e)
      BY <1>1 DEF OneLog!Accept, subs
    <2> QED
      BY <2>1 DEF OneLog!Next
  <1>2. CASE Log' = Log /\ UNCHANGED <<cursor, event>>
    BY <1>2 DEF OneLog!vars
  <1>3. ASSUME NEW s \in Subscribers, Subscribe(s), Log' = Log PROVE OneLog!Next
    <2>1. Len(Log) = writeIndex
      BY LogEntries DEF OwnInv
    <2>2. OneLog!Subscribe(s)
      BY <1>3, <2>1 DEF Subscribe, OneLog!Subscribe
    <2> QED
      BY <2>2 DEF OneLog!Next
  <1>4. ASSUME NEW s \in Subscribers, PollCopy(s), Log' = Log PROVE OneLog!Next
    BY <1>4, CopyDelivers DEF OneLog!Next
  <1>5. ASSUME NEW s \in Subscribers, Subscribe(s) \/ PollCopy(s) PROVE Log' = Log
    BY <1>5, LogSteps DEF Subscribe, PollCopy, ring
  <1> QED
    BY <1>1, <1>2, <1>3, <1>4, <1>5, LogSteps, ViewSteps

\* With the segment at one address, the event center keeps the promise of EventLog:
\* one log, which every subscriber goes through event by event.
THEOREM Refinement ==
  ASSUME OneAddress
  PROVE  Spec => LogSpec
  <1>1. Init => OwnInv
    BY InitOwnInv
  <1>2. OwnInv /\ [Next]_vars => OwnInv'
    BY StepOwnInv
  <1>3. OwnInv /\ OwnInv' /\ [Next]_vars => [OneLog!Next]_OneLog!vars
    BY StepRefines
  <1> QED
    BY <1>1, <1>2, <1>3, InitRefines, PTL DEF Spec, LogSpec, OneLog!Spec

------------------------------------------------------------------------------
(* One waiter.                                                             *)

\* What the publishers still owe to a sleeper, in steps that leave its subscriber.
LEMMA PublishersPost ==
  ASSUME IInv, NoLostWakeup, NEW p \in Publishers, Publish(p) \/ Die(p)
  PROVE  NoLostWakeup'
  <1>1. /\ ppc \in [Publishers -> Labels] /\ writeIndex \in Nat /\ tokens \in Nat
        /\ \A s \in Subscribers : cursor[s] \in Nat
    BY EventCenterAssumption DEF IInv, TypeOK, Labels, Indices
  <1>2. /\ InFlight \in SUBSET Publishers /\ Cardinality(InFlight) \in Nat
        /\ p \notin InFlight => Cardinality(InFlight \cup {p}) = Cardinality(InFlight) + 1
        /\ p \in InFlight => Cardinality(InFlight \ {p}) = Cardinality(InFlight) - 1
    <2>1. InFlight \in SUBSET Publishers
      BY DEF InFlight
    <2> QED
      BY <2>1, Counting
  <1>3. UNCHANGED <<cursor, spc>>
    BY DEF Publish, Die, WriteLoad, WriteFull, WriteRoom, WriteClaim, WriteFill, WritePost,
           CountEvent, subs
  <1>4. CASE UNCHANGED <<writeIndex, tokens>> /\ InFlight' = InFlight
    BY <1>3, <1>4 DEF NoLostWakeup, Pending
  <1>5. CASE UNCHANGED tokens /\ writeIndex' = writeIndex + 1 /\ InFlight' = InFlight \cup {p}
             /\ p \notin InFlight
    <2>1. Cardinality(InFlight') = Cardinality(InFlight) + 1
      BY <1>2, <1>5
    <2> QED
      BY <1>1, <1>2, <1>3, <1>5, <2>1, EventCenterAssumption DEF NoLostWakeup, Pending
  <1>6. CASE UNCHANGED writeIndex /\ tokens' = tokens + 1 /\ InFlight' = InFlight \ {p}
             /\ p \in InFlight
    <2>1. Cardinality(InFlight') = Cardinality(InFlight) - 1
      BY <1>2, <1>6
    <2> QED
      BY <1>1, <1>2, <1>3, <1>6, <2>1, EventCenterAssumption DEF NoLostWakeup, Pending
  <1>7. CASE WriteClaim(p)
    <2>1. ppc[p] = "claim" /\ p \notin InFlight /\ UNCHANGED tokens
      BY <1>7 DEF WriteClaim, GotoP, InFlight
    <2>2. \/ UNCHANGED writeIndex /\ InFlight' = InFlight
          \/ writeIndex = loaded[p] /\ writeIndex' = Following(loaded[p]) /\ InFlight' = InFlight \cup {p}
      BY <1>1, <1>7 DEF WriteClaim, GotoP, InFlight
    <2>3. loaded[p] \in Indices /\ loaded[p] # Capacity - 1
      BY <2>1 DEF IInv, TypeOK, LoadedBehind
    <2>4. Following(loaded[p]) = loaded[p] + 1
      BY <2>3, FollowingIs
    <2> QED
      BY <1>4, <1>5, <2>1, <2>2, <2>4
  <1>8. CASE WritePost(p)
    BY <1>1, <1>6, <1>8 DEF WritePost, GotoP, InFlight
  <1>9. ASSUME WriteLoad(p) \/ WriteFull(p) \/ WriteRoom(p) \/ WriteFill(p) \/ CountEvent(p) \/ Die(p)
        PROVE  UNCHANGED <<writeIndex, tokens>> /\ InFlight' = InFlight
    BY <1>1, <1>9
       DEF WriteLoad, WriteFull, WriteRoom, WriteFill, CountEvent, Die, GotoP, InFlight, ring, pubs
  <1> QED
    BY <1>4, <1>7, <1>8, <1>9 DEF Publish

\* A subscriber that falls asleep has nothing to read, and nobody but the waiter takes
\* tokens.
LEMMA SubscribersWait ==
  ASSUME OneWaiter, IInv, NoLostWakeup,
         NEW s \in Subscribers, Subscribe(s) \/ Unsubscribe(s) \/ Consume(s)
  PROVE  NoLostWakeup'
  <1>1. /\ spc \in [Subscribers -> {"idle", "copy", "blocked", "woken"}] /\ tokens \in Nat
        /\ cursor \in [Subscribers -> Indices] /\ writeIndex \in Nat /\ Waiters \subseteq Subscribers
    BY EventCenterAssumption DEF IInv, TypeOK, Indices
  <1>2. Cardinality(InFlight) \in Nat
    <2>1. InFlight \in SUBSET Publishers
      BY DEF InFlight
    <2> QED
      BY <2>1, Counting
  <1>3. UNCHANGED <<writeIndex, ppc>> /\ InFlight' = InFlight
    BY DEF Subscribe, Unsubscribe, Consume, PollFound, PollCopy, WaitSleep, WaitWake, WaitPoll,
           WaitTimeout, ring, pubs, InFlight
  <1>4. CASE WaitWake(s)
    <2>1. s \in Waiters
      BY <1>4 DEF IInv, CursorsBehind, WaitWake, GotoS
    <2>2. spc'[s] = "woken" /\ \A t \in Waiters : t = s
      BY <1>1, <1>4, <2>1 DEF WaitWake, GotoS, OneWaiter
    <2> QED
      BY <2>2 DEF NoLostWakeup
  <1>5. CASE WaitSleep(s)
    <2>1. UNCHANGED <<tokens, cursor>> /\ cursor[s] = writeIndex
          /\ \A t \in Subscribers \ {s} : spc'[t] = spc[t]
      BY <1>1, <1>5 DEF WaitSleep, GotoS, ring
    <2> QED
      BY <1>1, <1>2, <1>3, <2>1 DEF NoLostWakeup, Pending, Indices
  <1>6. CASE ~WaitWake(s) /\ ~WaitSleep(s)
    <2>1. /\ spc'[s] # "blocked" \/ UNCHANGED <<spc, cursor>>
          /\ \A t \in Subscribers \ {s} : spc'[t] = spc[t] /\ cursor'[t] = cursor[t]
      BY <1>1, <1>6
         DEF Subscribe, Unsubscribe, Consume, PollFound, PollCopy, WaitPoll, WaitTimeout, GotoS, ring
    <2>2. UNCHANGED tokens
      BY <1>6 DEF Subscribe, Unsubscribe, Consume, PollFound, PollCopy, WaitPoll, WaitTimeout, ring
    <2> QED
      BY <1>1, <1>3, <2>1, <2>2 DEF NoLostWakeup, Pending
  <1> QED
    BY <1>4, <1>5, <1>6

\* As long as one subscriber at most calls wait, it does not sleep through an event
\* without a token, or a publisher that is about to post one.
THEOREM NobodySleepsOn ==
  ASSUME OneWaiter
  PROVE  Spec => []NoLostWakeup
  <1>1. Init => NoLostWakeup
    BY EventCenterAssumption DEF Init, NoLostWakeup
  <1>2. IInv /\ NoLostWakeup /\ [Next]_vars => NoLostWakeup'
    <2>1. CASE UNCHANGED <<ring, pubs, subs>>
      BY <2>1 DEF NoLostWakeup, Pending, InFlight, ring, pubs, subs
    <2> QED
      BY <2>1, PublishersPost, SubscribersWait DEF Next, Attach, vars
  <1> QED
    BY <1>1, <1>2, Invariance, PTL DEF Spec

=============================================================================
