-------------------------- MODULE SOERecorderProofs ---------------------------
(***************************************************************************)
(* Theorems about SOERecorder, for any readers, capacity and bounds.  That *)
(* the variables keep their types holds for any recorders as well; what    *)
(* the readers are told, and that the ring keeps the newest records, needs *)
(* OneRecorder, since the lock that should order several is never set up.  *)
(*                                                                         *)
(* The proof follows the slots backwards from head.  A read that at most   *)
(* one record meets is at most one slot behind, and the slot which that    *)
(* record overwrites is the free one, which no such read visits.           *)
(***************************************************************************)
EXTENDS SOERecorder, FiniteSetTheorems, SequenceTheorems, TLAPS

Recording == {"tail", "drop", "dropped", "store", "stored", "publish", "count"}
Labels == {"idle", "clearTail", "queryTail", "query", "latestTail", "latest"} \cup Recording

\* The records under way, and those among them that may still drop one.
Started == {w \in Recorders : pc[w] \in Recording}
Undecided == {w \in Recorders : pc[w] \in {"tail", "drop", "dropped"}}

\* What the counts say of the recorders: every call is counted or under way.
Counted ==
  /\ issued = totalRecords + Cardinality(Started)
  /\ droppedRecords + Cardinality(Undecided) <= issued
  /\ \A w \in Recorders : pc[w] \in Recording => number[w] >= 1

LocalTypes ==
  /\ pc \in [Threads -> Labels]
  /\ \A w \in Recorders : pc[w] \in {"idle", "clearTail"} \cup Recording
  /\ result \in [Readers -> Seq(1..MaxRecords \cup {Blank, Torn})]
  /\ \A r \in Readers : pc[r] \in {"queryTail", "latestTail"} => result[r] = <<>>

TypeInv == TypeOK /\ LocalTypes /\ Counted

OneRecorder == \A v, w \in Recorders : v = w

Published == totalRecords + Cardinality({w \in Recorders : pc[w] = "count"})

\* Where the recorder is, and the shape of the ring there: it has never been full since it
\* was empty, or all slots but the free one are in use.
RecorderAt(w) ==
  /\ pc[w] \in Recording \ {"count"} => h[w] = head /\ number[w] = Published + 1
  /\ pc[w] = "drop" => t[w] = tail /\ Following(head) = tail
  /\ pc[w] \in {"dropped", "store", "stored", "publish"} => Following(head) # tail
  /\ pc[w] = "publish" => slots[head] = number[w]
  /\ pc[w] = "count" => tail # head
  /\ pc[w] = "clearTail" => head = 0
  /\ pc[w] \in {"idle", "tail", "drop", "count"} => tail \in {0, Following(head)}
  /\ pc[w] \in {"dropped", "store", "stored", "publish"} =>
       tail \in {0, Following(Following(head))}

\* From the slot before i backwards, n slots hold records, each older than the one before.
Descending(i, n) ==
  \A k \in 0..(n - 1) :
    /\ slots[Before(i, k)] \in Nat
    /\ \A j \in 0..(k - 1) : slots[Before(i, j)] > slots[Before(i, k)]

RingHolds ==
  /\ ~Clearing =>
       /\ Distance(tail, head) <= Published
       /\ \A k \in 0..(Distance(tail, head) - 1) : slots[Before(head, k)] = Published - k
  /\ Clearing => Descending(0, Distance(tail, 0))

\* A read that at most one record met is at most one slot behind.
Near(r) ==
  pc[r] # "idle" /\ met[r] <= 1 =>
    /\ met[r] = 0 => Quiet
    /\ \/ head = h[r]
       \/ /\ met[r] = 1 /\ head = Following(h[r]) /\ tail # head
          /\ \A w \in Recorders : pc[w] \in {"count", "idle"}

\* The slots a reader has still to visit, by their distance before h[r].
Ahead(r) ==
  IF pc[r] = "query" THEN 0..(Distance(cur[r], h[r]) - 1)
  ELSE IF pc[r] = "latest" THEN Len(result[r])..(limit[r] - 1) ELSE {}

Slot(r, k) == slots[Before(h[r], k)]

View(r) ==
  met[r] <= 1 =>
    /\ \A k \in Ahead(r) : Slot(r, k) \in Nat /\ \A j \in Ahead(r) : j < k => Slot(r, j) > Slot(r, k)
    /\ \A i \in 1..Len(result[r]) :
         /\ result[r][i] \in Nat
         /\ \A k \in Ahead(r) : IF pc[r] = "query" THEN result[r][i] < Slot(r, k)
                                                   ELSE result[r][i] > Slot(r, k)
         /\ \A j \in 1..Len(result[r]) : i < j =>
              /\ pc[r] = "query" => result[r][i] < result[r][j]
              /\ pc[r] = "latest" => result[r][i] > result[r][j]

Latest(r) ==
  pc[r] = "latest" =>
    /\ limit[r] <= Capacity - 1
    /\ met[r] = 0 =>
         /\ limit[r] <= Distance(tail, head)
         /\ result[r] # <<>> => result[r][1] = totalRecords

RingInv ==
  /\ TypeInv
  /\ \A w \in Recorders : RecorderAt(w)
  /\ RingHolds
  /\ \A r \in Readers : Near(r) /\ View(r) /\ Latest(r)

------------------------------------------------------------------------------
(* Facts about the ring's indices.                                         *)

LEMMA Wraps == \A x \in 0..(2 * Capacity - 1) :
                 x % Capacity = IF x < Capacity THEN x ELSE x - Capacity
  <1> SUFFICES ASSUME NEW x \in 0..(2 * Capacity - 1)
               PROVE  x % Capacity = IF x < Capacity THEN x ELSE x - Capacity
    OBVIOUS
  <1>1. Capacity \in Nat /\ Capacity >= 2 /\ x \in Nat
    BY SOEAssumption
  <1>2. x = Capacity * (x \div Capacity) + (x % Capacity) /\ x % Capacity \in 0..(Capacity - 1)
        /\ x \div Capacity \in Int
    BY <1>1
  <1> QED
    BY <1>1, <1>2

\* The slot after, and the slots before, another.
LEMMA FollowingIs == \A i \in Indices :
  /\ Following(i) = IF i = Capacity - 1 THEN 0 ELSE i + 1
  /\ Following(i) \in Indices /\ Following(i) # i
  BY Wraps, SOEAssumption DEF Following, Indices

LEMMA BeforeIs == \A i \in Indices, k \in 0..(Capacity - 1) :
  /\ Before(i, k) = IF k < i THEN i - 1 - k ELSE i + Capacity - 1 - k
  /\ Before(i, k) \in Indices
  /\ Before(i, k) = i <=> k = Capacity - 1
  /\ k > 0 => Before(Following(i), k) = Before(i, k - 1)
  /\ Before(Following(i), 0) = i
  <1>1. Capacity \in Nat /\ Capacity >= 2
    BY SOEAssumption
  <1>2. ASSUME NEW i \in Indices, NEW k \in 0..(Capacity - 1)
        PROVE  Before(i, k) = IF k < i THEN i - 1 - k ELSE i + Capacity - 1 - k
    <2>1. i + Capacity - 1 - k \in 0..(2 * Capacity - 1)
      BY <1>1 DEF Indices
    <2> QED
      BY <1>1, <2>1, Wraps DEF Before, Indices
  <1> TAKE i \in Indices, k \in 0..(Capacity - 1)
  <1>3. k > 0 => k - 1 \in 0..(Capacity - 1)
    BY <1>1
  <1>4. Following(i) \in Indices /\ Following(i) = IF i = Capacity - 1 THEN 0 ELSE i + 1
    BY FollowingIs
  <1>5. k > 0 => Before(Following(i), k) = Before(i, k - 1)
    BY <1>1, <1>2, <1>3, <1>4 DEF Indices
  <1>6. Before(Following(i), 0) = i
    BY <1>1, <1>2, <1>4 DEF Indices
  <1> QED
    BY <1>1, <1>2, <1>5, <1>6 DEF Indices

LEMMA DistanceIs == \A i, j \in Indices :
  /\ Distance(i, j) \in 0..(Capacity - 1)
  /\ Distance(i, j) = 0 <=> i = j
  /\ Distance(0, j) = j
  /\ Distance(Following(j), j) = Capacity - 1
  /\ i # j => Distance(Following(i), j) = Distance(i, j) - 1 /\ Before(j, Distance(i, j) - 1) = i
  /\ i # Following(j) => Distance(i, Following(j)) = Distance(i, j) + 1
  <1>1. Capacity \in Nat /\ Capacity >= 2
    BY SOEAssumption
  <1> TAKE i \in Indices, j \in Indices
  <1>2. Distance(i, j) \in 0..(Capacity - 1) /\ (Distance(i, j) = 0 <=> i = j) /\ Distance(0, j) = j
    BY <1>1 DEF Distance, Indices
  <1>3. Distance(Following(j), j) = Capacity - 1
    BY <1>1, FollowingIs DEF Distance, Indices
  <1>4. i # j => Distance(Following(i), j) = Distance(i, j) - 1
    BY <1>1, FollowingIs DEF Distance, Indices
  <1>5. i # j => Before(j, Distance(i, j) - 1) = i
    <2>1. i # j => Distance(i, j) - 1 \in 0..(Capacity - 1)
      BY <1>1, <1>2
    <2>2. \A k \in 0..(Capacity - 1) : Before(j, k) = IF k < j THEN j - 1 - k ELSE j + Capacity - 1 - k
      BY BeforeIs
    <2>3. ASSUME i < j PROVE Before(j, Distance(i, j) - 1) = i
      <3>1. Distance(i, j) = j - i /\ Distance(i, j) - 1 < j
        BY <1>1, <2>3 DEF Distance, Indices
      <3> QED
        BY <1>1, <2>1, <2>2, <2>3, <3>1 DEF Indices
    <2>4. ASSUME i > j PROVE Before(j, Distance(i, j) - 1) = i
      <3>1. Distance(i, j) = Capacity - i + j /\ ~(Distance(i, j) - 1 < j)
        BY <1>1, <2>4 DEF Distance, Indices
      <3> QED
        BY <1>1, <2>1, <2>2, <2>4, <3>1 DEF Indices
    <2> QED
      BY <2>3, <2>4 DEF Indices
  <1>6. i # Following(j) => Distance(i, Following(j)) = Distance(i, j) + 1
    BY <1>1, FollowingIs DEF Distance, Indices
  <1> QED
    BY <1>2, <1>3, <1>4, <1>5, <1>6

------------------------------------------------------------------------------
(* Types, for any recorders.                                               *)

\* A set of recorders has a number, which one more or one less changes by one.
LEMMA Counting ==
  ASSUME NEW S \in SUBSET Recorders
  PROVE  /\ IsFiniteSet(S) /\ Cardinality(S) \in Nat /\ Cardinality(S) <= Cardinality(Recorders)
         /\ Cardinality(Recorders) \in Nat
         /\ Cardinality(S) = 0 <=> S = {}
         /\ \A w \in Recorders \ S : Cardinality(S \cup {w}) = Cardinality(S) + 1
         /\ \A w \in S : Cardinality(S \ {w}) = Cardinality(S) - 1
  <1>1. IsFiniteSet(Recorders)
    BY SOEAssumption
  <1>2. IsFiniteSet(S) /\ Cardinality(S) <= Cardinality(Recorders)
    BY <1>1, FS_Subset
  <1> QED
    BY <1>1, <1>2, FS_CardinalityType, FS_EmptySet, FS_AddElement, FS_RemoveElement

LEMMA OneMoreOrLess ==
  ASSUME NEW S \in SUBSET Recorders, NEW w \in Recorders, NEW T,
         T = S \cup {w} \/ T = S \ {w}
  PROVE  /\ Cardinality(T) \in Nat
         /\ w \notin S /\ w \in T => Cardinality(T) = Cardinality(S) + 1
         /\ w \in S /\ w \notin T => Cardinality(T) = Cardinality(S) - 1
         /\ (w \in S <=> w \in T) => Cardinality(T) = Cardinality(S)
  <1>1. (w \in S <=> w \in T) => T = S
    OBVIOUS
  <1>2. T \in SUBSET Recorders
    OBVIOUS
  <1>3. w \notin S /\ w \in T => T = S \cup {w}
    OBVIOUS
  <1>4. w \in S /\ w \notin T => T = S \ {w}
    OBVIOUS
  <1> QED
    BY <1>1, <1>2, <1>3, <1>4, Counting

\* A step of one recorder takes it into the sets of those under way, or out of them.
LEMMA RecorderMoves ==
  ASSUME LocalTypes, NEW w \in Recorders, NEW from \in Labels,
         NEW to \in {"idle", "clearTail"} \cup Recording, Goto(w, from, to)
  PROVE  /\ pc' \in [Threads -> Labels] /\ pc'[w] = to /\ pc[w] = from
         /\ \A x \in Threads \ {w} : pc'[x] = pc[x]
         /\ Cardinality(Started) \in Nat /\ Cardinality(Started') \in Nat
         /\ Cardinality(Undecided) \in Nat /\ Cardinality(Undecided') \in Nat
         /\ from \notin Recording /\ to \in Recording =>
              Cardinality(Started') = Cardinality(Started) + 1
         /\ from \in Recording /\ to \notin Recording =>
              Cardinality(Started') = Cardinality(Started) - 1
         /\ (from \in Recording <=> to \in Recording) =>
              Cardinality(Started') = Cardinality(Started)
         /\ from \notin {"tail", "drop", "dropped"} /\ to \in {"tail", "drop", "dropped"} =>
              Cardinality(Undecided') = Cardinality(Undecided) + 1
         /\ from \in {"tail", "drop", "dropped"} /\ to \notin {"tail", "drop", "dropped"} =>
              Cardinality(Undecided') = Cardinality(Undecided) - 1
         /\ (from \in {"tail", "drop", "dropped"} <=> to \in {"tail", "drop", "dropped"}) =>
              Cardinality(Undecided') = Cardinality(Undecided)
  <1>1. /\ pc' \in [Threads -> Labels] /\ pc'[w] = to /\ pc[w] = from
        /\ \A x \in Threads \ {w} : pc'[x] = pc[x]
    BY DEF LocalTypes, Goto, Threads, Labels
  <1>2. Undecided' = Undecided \cup {w} \/ Undecided' = Undecided \ {w}
    BY <1>1 DEF Undecided, Threads
  <1>3. Started' = Started \cup {w} \/ Started' = Started \ {w}
    BY <1>1 DEF Started, Threads
  <1>4. /\ w \in Undecided <=> from \in {"tail", "drop", "dropped"}
        /\ w \in Undecided' <=> to \in {"tail", "drop", "dropped"}
        /\ w \in Started <=> from \in Recording
        /\ w \in Started' <=> to \in Recording
        /\ Undecided \in SUBSET Recorders /\ Started \in SUBSET Recorders
    BY <1>1 DEF Undecided, Started
  <1>5. Cardinality(Started) \in Nat /\ Cardinality(Undecided) \in Nat
    BY <1>4, Counting
  <1>6. /\ Cardinality(Started') \in Nat
        /\ w \notin Started /\ w \in Started' => Cardinality(Started') = Cardinality(Started) + 1
        /\ w \in Started /\ w \notin Started' => Cardinality(Started') = Cardinality(Started) - 1
        /\ (w \in Started <=> w \in Started') => Cardinality(Started') = Cardinality(Started)
    BY <1>3, <1>4, OneMoreOrLess
  <1>7. /\ Cardinality(Undecided') \in Nat
        /\ w \notin Undecided /\ w \in Undecided' => Cardinality(Undecided') = Cardinality(Undecided) + 1
        /\ w \in Undecided /\ w \notin Undecided' => Cardinality(Undecided') = Cardinality(Undecided) - 1
        /\ (w \in Undecided <=> w \in Undecided') => Cardinality(Undecided') = Cardinality(Undecided)
    BY <1>2, <1>4, OneMoreOrLess
  <1> QED
    BY <1>1, <1>4, <1>5, <1>6, <1>7

\* The counts of calls follow the recorder's steps.
LEMMA RecorderCounted ==
  ASSUME TypeInv, NEW w \in Recorders, Record(w) \/ ClearHead(w) \/ ClearTail(w)
  PROVE  /\ Counted'
         /\ pc' \in [Threads -> Labels] /\ pc'[w] \in {"idle", "clearTail"} \cup Recording
         /\ \A x \in Threads \ {w} : pc'[x] = pc[x]
         /\ issued' \in 0..MaxRecords /\ totalRecords' \in 0..MaxRecords
         /\ droppedRecords' \in 0..MaxRecords
  <1> USE DEF TypeInv
  <1> DEFINE Goal == /\ Counted'
                     /\ pc' \in [Threads -> Labels] /\ pc'[w] \in {"idle", "clearTail"} \cup Recording
                     /\ \A x \in Threads \ {w} : pc'[x] = pc[x]
                     /\ issued' \in 0..MaxRecords /\ totalRecords' \in 0..MaxRecords
                     /\ droppedRecords' \in 0..MaxRecords
  <1>1. CASE RecordHead(w)
    <2>1. Goto(w, "idle", "tail") /\ issued' = issued + 1 /\ issued < MaxRecords
          /\ number' = [number EXCEPT ![w] = issued'] /\ UNCHANGED <<totalRecords, droppedRecords>>
      BY <1>1 DEF RecordHead, counts
    <2>2. /\ Cardinality(Started') = Cardinality(Started) + 1
          /\ Cardinality(Undecided') = Cardinality(Undecided) + 1
          /\ pc' \in [Threads -> Labels] /\ pc'[w] = "tail" /\ \A x \in Threads \ {w} : pc'[x] = pc[x]
          /\ Cardinality(Started) \in Nat /\ Cardinality(Undecided) \in Nat
      BY <2>1, RecorderMoves DEF Labels, Recording
    <2>3. \A v \in Recorders : pc'[v] \in Recording => number'[v] >= 1
      <3>1. issued + 1 >= 1
        BY SOEAssumption DEF TypeOK
      <3> QED
        BY <2>1, <2>2, <3>1 DEF Counted, TypeOK, Threads
    <2>4. Counted'
      BY <2>1, <2>2, <2>3, SOEAssumption DEF Counted, TypeOK
    <2> QED
      BY <2>1, <2>2, <2>4, SOEAssumption DEF Recording, TypeOK
  <1>2. CASE RecordTail(w)
    <2>1. PICK to \in {"drop", "store"} : Goto(w, "tail", to)
      BY <1>2 DEF RecordTail
    <2>2. UNCHANGED <<issued, totalRecords, droppedRecords, number>>
      BY <1>2 DEF RecordTail, counts, local
    <2>3. /\ Cardinality(Started') = Cardinality(Started)
          /\ Cardinality(Undecided') \in {Cardinality(Undecided), Cardinality(Undecided) - 1}
          /\ pc' \in [Threads -> Labels] /\ pc'[w] = to /\ \A x \in Threads \ {w} : pc'[x] = pc[x]
          /\ Cardinality(Started) \in Nat /\ Cardinality(Undecided) \in Nat
          /\ pc[w] = "tail"
      BY <2>1, RecorderMoves DEF Labels, Recording
    <2>4. \A v \in Recorders : pc'[v] \in Recording => number'[v] >= 1
      BY <2>2, <2>3 DEF Counted, TypeOK, Threads, Recording
    <2>5. Counted'
      BY <2>2, <2>3, <2>4 DEF Counted, TypeOK
    <2> QED
      BY <2>2, <2>3, <2>5 DEF Recording, TypeOK
  <1>3. CASE RecordDropped(w)
    <2>1. Goto(w, "dropped", "store") /\ droppedRecords' = droppedRecords + 1
          /\ UNCHANGED <<issued, totalRecords, number>>
      BY <1>3 DEF RecordDropped, local
    <2>2. /\ Cardinality(Started') = Cardinality(Started)
          /\ Cardinality(Undecided') = Cardinality(Undecided) - 1
          /\ pc' \in [Threads -> Labels] /\ pc'[w] = "store" /\ \A x \in Threads \ {w} : pc'[x] = pc[x]
          /\ Cardinality(Started) \in Nat /\ Cardinality(Undecided) \in Nat /\ Cardinality(Undecided') \in Nat
          /\ pc[w] = "dropped"
      BY <2>1, RecorderMoves DEF Labels, Recording
    <2>3. \A v \in Recorders : pc'[v] \in Recording => number'[v] >= 1
      BY <2>1, <2>2 DEF Counted, TypeOK, Threads, Recording
    <2>4. droppedRecords' \in Nat /\ droppedRecords' + Cardinality(Undecided') <= issued
      BY <2>1, <2>2 DEF Counted, TypeOK
    <2>5. Counted'
      BY <2>1, <2>2, <2>3, <2>4 DEF Counted
    <2> QED
      BY <2>1, <2>2, <2>4, <2>5, SOEAssumption DEF Recording, TypeOK
  <1>4. CASE RecordCount(w)
    <2>1. Goto(w, "count", "idle") /\ totalRecords' = totalRecords + 1
          /\ UNCHANGED <<issued, droppedRecords, number>>
      BY <1>4 DEF RecordCount, local
    <2>2. /\ Cardinality(Started') = Cardinality(Started) - 1
          /\ Cardinality(Undecided') = Cardinality(Undecided)
          /\ pc' \in [Threads -> Labels] /\ pc'[w] = "idle" /\ \A x \in Threads \ {w} : pc'[x] = pc[x]
          /\ Cardinality(Started) \in Nat /\ Cardinality(Undecided) \in Nat /\ Cardinality(Started') \in Nat
      BY <2>1, RecorderMoves DEF Labels, Recording
    <2>3. \A v \in Recorders : pc'[v] \in Recording => number'[v] >= 1
      BY <2>1, <2>2 DEF Counted, TypeOK, Threads, Recording
    <2>4. totalRecords' \in Nat /\ issued = totalRecords' + Cardinality(Started')
      BY <2>1, <2>2 DEF Counted, TypeOK
    <2>5. Counted'
      BY <2>1, <2>2, <2>3, <2>4 DEF Counted
    <2> QED
      BY <2>1, <2>2, <2>4, <2>5, SOEAssumption DEF Recording, TypeOK
  <1>5. ASSUME NEW from \in Labels, NEW to \in {"idle", "clearTail"} \cup Recording, Goto(w, from, to),
               from \in Recording <=> to \in Recording,
               from \in {"tail", "drop", "dropped"} <=> to \in {"tail", "drop", "dropped"},
               UNCHANGED <<issued, totalRecords, droppedRecords, number>>
        PROVE  Goal
    BY <1>5, RecorderMoves DEF Recording, Threads, Counted, TypeOK
  <1>6. CASE RecordDrop(w)
    BY <1>5, <1>6 DEF RecordDrop, counts, local, Labels, Recording
  <1>7. CASE RecordStore(w)
    BY <1>5, <1>7 DEF RecordStore, counts, local, Labels, Recording
  <1>8. CASE RecordStored(w)
    BY <1>5, <1>8 DEF RecordStored, counts, local, Labels, Recording
  <1>9. CASE RecordPublish(w)
    BY <1>5, <1>9 DEF RecordPublish, counts, local, Labels, Recording
  <1>10. CASE ClearHead(w)
    BY <1>5, <1>10 DEF ClearHead, counts, local, Labels, Recording
  <1>11. CASE ClearTail(w)
    BY <1>5, <1>11 DEF ClearTail, counts, local, Labels, Recording
  <1> QED
    BY <1>1, <1>2, <1>3, <1>4, <1>6, <1>7, <1>8, <1>9, <1>10, <1>11 DEF Record

\* The ring, and what the recorder has loaded of it, keep their types.
LEMMA RecorderRing ==
  ASSUME TypeInv, NEW w \in Recorders, Record(w) \/ ClearHead(w) \/ ClearTail(w)
  PROVE  /\ head' \in Indices /\ tail' \in Indices
         /\ slots' \in [Indices -> 1..MaxRecords \cup {Blank, Torn}]
         /\ h' \in [Threads -> Indices] /\ t' \in [Threads -> Indices]
         /\ number' \in [Recorders -> 0..MaxRecords]
         /\ met' \in [Readers -> 0..(2 + Cardinality(Recorders))]
         /\ UNCHANGED <<limit, cur, result>>
  <1> USE DEF TypeInv
  <1> DEFINE Goal ==
         /\ head' \in Indices /\ tail' \in Indices
         /\ slots' \in [Indices -> 1..MaxRecords \cup {Blank, Torn}]
         /\ h' \in [Threads -> Indices] /\ t' \in [Threads -> Indices]
         /\ number' \in [Recorders -> 0..MaxRecords]
         /\ met' \in [Readers -> 0..(2 + Cardinality(Recorders))]
         /\ UNCHANGED <<limit, cur, result>>
  <1>1. h[w] \in Indices /\ t[w] \in Indices /\ Following(h[w]) \in Indices
        /\ Following(t[w]) \in Indices /\ 0 \in Indices
    BY FollowingIs, SOEAssumption DEF TypeOK, Threads, Indices
  <1>2. ASSUME NEW n \in {1, 2}, Meet(n) PROVE met' \in [Readers -> 0..(2 + Cardinality(Recorders))]
    <2>1. Cardinality(Recorders) \in Nat
      BY Counting
    <2> QED
      BY <1>2, <2>1 DEF Meet, TypeOK
  <1>3. CASE RecordHead(w)
    <2>1. issued + 1 \in 0..MaxRecords
      BY <1>3, SOEAssumption DEF RecordHead, TypeOK
    <2> QED
      BY <1>2, <1>3, <2>1 DEF RecordHead, ring, counts, TypeOK
  <1>4. CASE RecordTail(w)
    BY <1>4 DEF RecordTail, ring, counts, local, TypeOK
  <1>5. CASE RecordDrop(w) \/ RecordPublish(w)
    BY <1>1, <1>5 DEF RecordDrop, RecordPublish, counts, local, TypeOK
  <1>6. CASE RecordDropped(w) \/ RecordCount(w)
    BY <1>6 DEF RecordDropped, RecordCount, ring, local, TypeOK
  <1>7. CASE RecordStore(w)
    <2>1. slots' \in [Indices -> 1..MaxRecords \cup {Blank, Torn}]
      BY <1>1, <1>7 DEF RecordStore, TypeOK
    <2>2. UNCHANGED <<head, tail, h, t, number, limit, cur, result, met>>
      BY <1>7 DEF RecordStore, local
    <2> QED
      BY <2>1, <2>2 DEF TypeOK
  <1>8. CASE RecordStored(w)
    <2>1. number[w] \in 1..MaxRecords
      BY <1>8 DEF RecordStored, Goto, Counted, TypeOK, Recording
    <2> QED
      BY <1>1, <1>8, <2>1 DEF RecordStored, counts, local, TypeOK
  <1>9. CASE ClearHead(w)
    BY <1>1, <1>2, <1>9 DEF ClearHead, counts, local, TypeOK
  <1>10. CASE ClearTail(w)
    BY <1>1, <1>10 DEF ClearTail, counts, local, TypeOK
  <1> QED
    BY <1>3, <1>4, <1>5, <1>6, <1>7, <1>8, <1>9, <1>10 DEF Record

LEMMA RecorderTypes ==
  ASSUME TypeInv, NEW w \in Recorders, Record(w) \/ ClearHead(w) \/ ClearTail(w)
  PROVE  TypeInv'
  <1> USE DEF TypeInv
  <1>1. /\ Counted'
        /\ pc' \in [Threads -> Labels] /\ pc'[w] \in {"idle", "clearTail"} \cup Recording
        /\ \A x \in Threads \ {w} : pc'[x] = pc[x]
        /\ issued' \in 0..MaxRecords /\ totalRecords' \in 0..MaxRecords
        /\ droppedRecords' \in 0..MaxRecords
    BY RecorderCounted
  <1>2. /\ head' \in Indices /\ tail' \in Indices
        /\ slots' \in [Indices -> 1..MaxRecords \cup {Blank, Torn}]
        /\ h' \in [Threads -> Indices] /\ t' \in [Threads -> Indices]
        /\ number' \in [Recorders -> 0..MaxRecords]
        /\ met' \in [Readers -> 0..(2 + Cardinality(Recorders))]
        /\ UNCHANGED <<limit, cur, result>>
    BY RecorderRing
  <1>3. TypeOK'
    BY <1>1, <1>2 DEF TypeOK
  <1>4. LocalTypes'
    <2>1. \A r \in Readers : r \in Threads \ {w}
      BY SOEAssumption DEF Threads
    <2>2. \A r \in Recorders : r \in Threads
      BY DEF Threads
    <2> QED
      BY <1>1, <1>2, <2>1, <2>2 DEF LocalTypes
  <1> QED
    BY <1>1, <1>3, <1>4

\* What a reader does leaves the ring and the recorders alone.
LEMMA ReaderLeaves ==
  ASSUME TypeInv, NEW r \in Readers, Read(r)
  PROVE  /\ UNCHANGED <<head, tail, slots, totalRecords, droppedRecords, issued, number>>
         /\ pc' \in [Threads -> Labels]
         /\ \A x \in Threads \ {r} : pc'[x] = pc[x] /\ h'[x] = h[x] /\ t'[x] = t[x]
         /\ \A w \in Recorders : w \in Threads \ {r}
         /\ \A x \in Readers \ {r} : /\ limit'[x] = limit[x] /\ cur'[x] = cur[x]
                                     /\ result'[x] = result[x] /\ met'[x] = met[x]
  <1> USE DEF TypeInv
  <1>1. UNCHANGED <<head, tail, slots, totalRecords, droppedRecords, issued, number>>
    BY DEF Read, ReadHead, QueryTail, QueryVisit, QueryEnd, LatestTail, LatestCopy, LatestEnd,
           ring, counts, local
  <1>2. PICK from \in Labels, to \in Labels : Goto(r, from, to)
    BY DEF Read, ReadHead, QueryTail, QueryVisit, QueryEnd, LatestTail, LatestCopy, LatestEnd, Labels
  <1>3. pc' \in [Threads -> Labels] /\ \A x \in Threads \ {r} : pc'[x] = pc[x]
    BY <1>2 DEF Goto, LocalTypes, Threads
  <1>4. \A w \in Recorders : w \in Threads \ {r}
    BY SOEAssumption DEF Threads
  <1>5. \A x \in Threads \ {r} : h'[x] = h[x] /\ t'[x] = t[x]
    BY DEF Read, ReadHead, QueryTail, QueryVisit, QueryEnd, LatestTail, LatestCopy, LatestEnd,
           TypeOK
  <1>6. \A x \in Readers \ {r} : limit'[x] = limit[x] /\ cur'[x] = cur[x] /\ met'[x] = met[x]
    BY DEF Read, ReadHead, QueryTail, QueryVisit, QueryEnd, LatestTail, LatestCopy, LatestEnd,
           TypeOK, local
  <1>7. \A x \in Readers \ {r} : result'[x] = result[x]
    BY DEF Read, ReadHead, QueryTail, QueryVisit, QueryEnd, LatestTail, LatestCopy, LatestEnd,
           LocalTypes, local
  <1> QED
    BY <1>1, <1>3, <1>4, <1>5, <1>6, <1>7

Contents == 1..MaxRecords \cup {Blank, Torn}

\* What a reader holds keeps its type: it copies what is in a slot, and no more than limit.
LEMMA ReaderLocals ==
  ASSUME TypeInv, NEW r \in Readers, Read(r)
  PROVE  /\ h' \in [Threads -> Indices] /\ t' \in [Threads -> Indices]
         /\ limit' \in [Readers -> 0..Capacity] /\ cur' \in [Readers -> Indices]
         /\ met' \in [Readers -> 0..(2 + Cardinality(Recorders))]
         /\ result' \in [Readers -> Seq(Contents)]
         /\ Len(result'[r]) <= limit'[r]
         /\ pc'[r] \in {"queryTail", "latestTail"} => result'[r] = <<>>
  <1> USE DEF TypeInv
  <1> DEFINE Goal ==
         /\ h' \in [Threads -> Indices] /\ t' \in [Threads -> Indices]
         /\ limit' \in [Readers -> 0..Capacity] /\ cur' \in [Readers -> Indices]
         /\ met' \in [Readers -> 0..(2 + Cardinality(Recorders))]
         /\ result' \in [Readers -> Seq(Contents)]
         /\ Len(result'[r]) <= limit'[r]
         /\ pc'[r] \in {"queryTail", "latestTail"} => result'[r] = <<>>
  <1>1. r \in Threads /\ pc \in [Threads -> Labels]
    BY DEF Threads, LocalTypes
  <1>2. /\ result \in [Readers -> Seq(Contents)] /\ Len(result[r]) <= limit[r] /\ Len(result[r]) \in Nat
        /\ \A i \in Indices : slots[i] \in Contents
        /\ cur[r] \in Indices /\ h[r] \in Indices
    BY <1>1, SOEAssumption DEF LocalTypes, TypeOK, Contents
  <1>a. /\ Len(result[r]) \in Nat /\ limit[r] \in Nat /\ Len(result[r]) <= limit[r]
        /\ limit[r] <= Capacity /\ Capacity \in Nat
    BY <1>2, SOEAssumption DEF TypeOK
  <1>3. \A c \in Contents : /\ Append(result[r], c) \in Seq(Contents)
                            /\ Len(Append(result[r], c)) = Len(result[r]) + 1
    BY <1>2
  <1>4. CASE \E n \in 1..Capacity : ReadHead(r, n)
    <2>1. PICK n \in 1..Capacity : ReadHead(r, n)
      BY <1>4
    <2>2. Cardinality({w \in Recorders : pc[w] # "idle"}) \in 0..(2 + Cardinality(Recorders))
      BY Counting
    <2>3. <<>> \in Seq(Contents) /\ Len(<<>>) = 0
      OBVIOUS
    <2>4. pc'[r] # "query" /\ UNCHANGED <<t, cur>>
      BY <1>1, <2>1 DEF ReadHead, Goto
    <2>5. h' \in [Threads -> Indices]
      BY <2>1 DEF ReadHead, TypeOK
    <2>8. limit' \in [Readers -> 0..Capacity] /\ limit'[r] >= 0
      <3>1. n \in 0..Capacity /\ n >= 0
        BY <1>a
      <3> QED
        BY <2>1, <3>1 DEF ReadHead, TypeOK
    <2>6. met' \in [Readers -> 0..(2 + Cardinality(Recorders))]
      BY <2>1, <2>2 DEF ReadHead, TypeOK
    <2>7. result' \in [Readers -> Seq(Contents)] /\ result'[r] = <<>>
      BY <1>2, <2>1, <2>3 DEF ReadHead
    <2> QED
      BY <2>3, <2>4, <2>5, <2>6, <2>7, <2>8 DEF TypeOK
  <1>5. CASE QueryTail(r)
    <2>1. pc'[r] = "query"
      BY <1>1, <1>5 DEF QueryTail, Goto
    <2> QED
      BY <1>2, <1>5, <2>1 DEF QueryTail, TypeOK
  <1>6. CASE QueryVisit(r)
    <2>a. Len(result[r]) + 1 <= limit[r]
      BY <1>a, <1>6 DEF QueryVisit
    <2>1. pc'[r] = "query" /\ slots[cur[r]] \in Contents /\ Following(cur[r]) \in Indices
      BY <1>1, <1>2, <1>6, FollowingIs DEF QueryVisit, Goto
    <2>2. UNCHANGED <<h, t, limit, met>> /\ cur' \in [Readers -> Indices]
      BY <1>6, <2>1 DEF QueryVisit, TypeOK
    <2>3. /\ result' \in [Readers -> Seq(Contents)]
          /\ Len(result'[r]) <= limit[r]
      BY <1>2, <1>a, <1>3, <1>6, <2>a, <2>1 DEF QueryVisit
    <2> QED
      BY <2>1, <2>2, <2>3 DEF TypeOK
  <1>7. CASE QueryEnd(r) \/ LatestEnd(r)
    <2>1. pc'[r] = "idle" /\ UNCHANGED <<h, t, limit, cur, result, met>>
      BY <1>1, <1>7 DEF QueryEnd, LatestEnd, Goto, local
    <2> QED
      BY <1>2, <2>1 DEF TypeOK
  <1>8. CASE LatestTail(r)
    <2>1. pc[r] = "latestTail" /\ pc'[r] = "latest"
      BY <1>1, <1>8 DEF LatestTail, Goto
    <2>2. Len(result[r]) = 0
      BY <2>1 DEF LocalTypes
    <2>3. Distance(tail, h[r]) \in 0..Capacity
      <3>1. tail \in Indices /\ h[r] \in Indices
        BY <1>2 DEF TypeOK
      <3>2. Distance(tail, h[r]) \in 0..(Capacity - 1)
        BY <3>1, DistanceIs
      <3> QED
        BY <1>a, <3>2
    <2>4. limit' \in [Readers -> 0..Capacity] /\ limit'[r] >= 0
      <3> DEFINE n == IF limit[r] <= Distance(tail, h[r]) THEN limit[r] ELSE Distance(tail, h[r])
      <3>1. n \in 0..Capacity
        BY <1>a, <2>3
      <3>2. limit' = [limit EXCEPT ![r] = n]
        BY <1>8 DEF LatestTail
      <3> HIDE DEF n
      <3>3. limit' \in [Readers -> 0..Capacity] /\ limit'[r] = n
        BY <3>1, <3>2 DEF TypeOK
      <3> QED
        BY <1>a, <3>1, <3>3
    <2> QED
      BY <1>2, <1>8, <2>1, <2>2, <2>4 DEF LatestTail, TypeOK
  <1>9. CASE LatestCopy(r)
    <2>1. pc'[r] = "latest" /\ Len(result[r]) + 1 <= limit[r]
      BY <1>1, <1>a, <1>9 DEF LatestCopy, Goto
    <2>2. Len(result[r]) \in 0..(Capacity - 1)
      BY <1>a, <2>1
    <2>3. slots[Before(h[r], Len(result[r]))] \in Contents
      <3>1. Before(h[r], Len(result[r])) \in Indices
        BY <1>2, <2>2, BeforeIs
      <3> QED
        BY <1>2, <3>1
    <2>4. UNCHANGED <<h, t, limit, cur, met>>
      BY <1>9 DEF LatestCopy
    <2>5. result' \in [Readers -> Seq(Contents)] /\ Len(result'[r]) <= limit[r]
      BY <1>2, <1>3, <1>9, <2>1, <2>3 DEF LatestCopy
    <2> QED
      BY <2>1, <2>4, <2>5 DEF TypeOK
  <1> QED
    BY <1>4, <1>5, <1>6, <1>7, <1>8, <1>9 DEF Read

LEMMA ReaderTypes ==
  ASSUME TypeInv, NEW r \in Readers, Read(r)
  PROVE  TypeInv'
  <1> USE DEF TypeInv
  <1>1. /\ UNCHANGED <<head, tail, slots, totalRecords, droppedRecords, issued, number>>
        /\ pc' \in [Threads -> Labels]
        /\ \A x \in Threads \ {r} : pc'[x] = pc[x]
        /\ \A w \in Recorders : w \in Threads \ {r}
        /\ \A x \in Readers \ {r} : limit'[x] = limit[x] /\ result'[x] = result[x]
    BY ReaderLeaves
  <1>2. /\ h' \in [Threads -> Indices] /\ t' \in [Threads -> Indices]
        /\ limit' \in [Readers -> 0..Capacity] /\ cur' \in [Readers -> Indices]
        /\ met' \in [Readers -> 0..(2 + Cardinality(Recorders))]
        /\ result' \in [Readers -> Seq(Contents)]
        /\ Len(result'[r]) <= limit'[r]
        /\ pc'[r] \in {"queryTail", "latestTail"} => result'[r] = <<>>
    BY ReaderLocals
  <1>3. TypeOK'
    BY <1>1, <1>2 DEF TypeOK
  <1>4. LocalTypes'
    BY <1>1, <1>2 DEF LocalTypes, Contents, Threads
  <1>5. Counted'
    <2>1. UNCHANGED <<Started, Undecided>>
      BY <1>1 DEF Started, Undecided
    <2> QED
      BY <1>1, <2>1 DEF Counted
  <1> QED
    BY <1>3, <1>4, <1>5

LEMMA InitTypes == Init => TypeInv
  <1> SUFFICES ASSUME Init PROVE TypeInv
    OBVIOUS
  <1>1. Started = {} /\ Undecided = {}
    BY DEF Init, Started, Undecided, Recording, Threads
  <1>2. Cardinality(Started) = 0 /\ Cardinality(Undecided) = 0
    BY <1>1, FS_EmptySet
  <1>3. Counted
    BY <1>2 DEF Init, Counted, Recording, Threads
  <1>4. LocalTypes
    BY DEF Init, LocalTypes, Labels, Threads
  <1>5. Cardinality(Recorders) \in Nat
    BY Counting
  <1>6. TypeOK
    BY <1>5, SOEAssumption DEF Init, TypeOK, Indices
  <1> QED
    BY <1>3, <1>4, <1>6 DEF TypeInv

LEMMA StepTypes == TypeInv /\ [Next]_vars => TypeInv'
  <1> SUFFICES ASSUME TypeInv, [Next]_vars PROVE TypeInv'
    OBVIOUS
  <1>1. CASE UNCHANGED vars
    BY <1>1 DEF vars, ring, counts, local, TypeInv, TypeOK, LocalTypes, Counted, Started, Undecided
  <1> QED
    BY <1>1, RecorderTypes, ReaderTypes DEF Next

\* The variables keep their types and the counts their bounds, for any recorders: no index
\* leaves the ring, and no reader copies more than it was asked for.
THEOREM TypeCorrect == Spec => []TypeOK
  <1>1. TypeInv => TypeOK
    BY DEF TypeInv
  <1> QED
    BY <1>1, InitTypes, StepTypes, PTL DEF Spec

------------------------------------------------------------------------------
(* One recorder.                                                           *)

\* What is said of all recorders is said of this one.
LEMMA Alone ==
  ASSUME OneRecorder, NEW w \in Recorders
  PROVE  /\ \A v \in Recorders : v = w
         /\ Clearing <=> pc[w] = "clearTail"
         /\ Clearing' <=> pc'[w] = "clearTail"
         /\ Quiet <=> pc[w] = "idle"
         /\ Quiet' <=> pc'[w] = "idle"
         /\ Published = totalRecords + (IF pc[w] = "count" THEN 1 ELSE 0)
         /\ Published' = totalRecords' + (IF pc'[w] = "count" THEN 1 ELSE 0)
         /\ Cardinality(Started) = IF pc[w] \in Recording THEN 1 ELSE 0
  <1>1. \A v \in Recorders : v = w
    BY DEF OneRecorder
  <1>2. \A S \in SUBSET Recorders : S = IF w \in S THEN {w} ELSE {}
    BY <1>1
  <1>3. Cardinality({w}) = 1 /\ Cardinality({}) = 0
    BY FS_Singleton, FS_EmptySet
  <1>4. \A S \in SUBSET Recorders : Cardinality(S) = IF w \in S THEN 1 ELSE 0
    BY <1>2, <1>3
  <1>5. Cardinality({v \in Recorders : pc[v] = "count"}) = IF pc[w] = "count" THEN 1 ELSE 0
    BY <1>4
  <1>6. Cardinality({v \in Recorders : pc'[v] = "count"}) = IF pc'[w] = "count" THEN 1 ELSE 0
    BY <1>4
  <1>7. Cardinality(Started) = IF pc[w] \in Recording THEN 1 ELSE 0
    BY <1>4 DEF Started
  <1> QED
    BY <1>1, <1>5, <1>6, <1>7 DEF Clearing, Quiet, Published

\* The readers' part in a recorder's step: a reader meets it, or nothing.
LEMMA RecorderAndReaders ==
  ASSUME RingInv, OneRecorder, NEW w \in Recorders, Record(w) \/ ClearHead(w) \/ ClearTail(w)
  PROVE  \A r \in Readers :
           /\ pc'[r] = pc[r] /\ h'[r] = h[r]
           /\ limit'[r] = limit[r] /\ cur'[r] = cur[r] /\ result'[r] = result[r]
           /\ met[r] \in Nat /\ met'[r] \in Nat
           /\ IF RecordHead(w) THEN met'[r] <= 1 => met[r] = 0 /\ met'[r] = 1
              ELSE IF ClearHead(w) THEN met'[r] > 1 ELSE met'[r] = met[r]
  <1> SUFFICES ASSUME NEW r \in Readers
      PROVE  /\ pc'[r] = pc[r] /\ h'[r] = h[r]
             /\ limit'[r] = limit[r] /\ cur'[r] = cur[r] /\ result'[r] = result[r]
             /\ met[r] \in Nat /\ met'[r] \in Nat
             /\ IF RecordHead(w) THEN met'[r] <= 1 => met[r] = 0 /\ met'[r] = 1
                ELSE IF ClearHead(w) THEN met'[r] > 1 ELSE met'[r] = met[r]
    OBVIOUS
  <1>1. TypeInv /\ r \in Threads /\ r # w /\ w \in Threads
    BY SOEAssumption DEF RingInv, Threads
  <1>2. pc'[r] = pc[r]
    BY <1>1, RecorderCounted
  <1>3. UNCHANGED <<limit, cur, result>>
    BY <1>1, RecorderRing
  <1>4. h'[r] = h[r]
    BY <1>1 DEF Record, RecordHead, RecordTail, RecordDrop, RecordDropped, RecordStore, RecordStored,
           RecordPublish, RecordCount, ClearHead, ClearTail, TypeInv, TypeOK
  <1>5. Cardinality(Recorders) \in Nat
    BY Counting
  <1>6. met[r] \in Nat
    BY <1>1, <1>5 DEF TypeInv, TypeOK
  <1>7. CASE RecordHead(w)
    <2>1. met'[r] = IF met[r] + 1 > 2 THEN 2 ELSE met[r] + 1
      BY <1>7 DEF RecordHead, Meet
    <2> QED
      BY <1>2, <1>3, <1>4, <1>6, <1>7, <2>1
  <1>8. CASE ClearHead(w)
    <2>1. met'[r] = IF met[r] + 2 > 2 THEN 2 ELSE met[r] + 2
      BY <1>8 DEF ClearHead, Meet
    <2>2. ~RecordHead(w)
      BY <1>1, <1>8 DEF RecordHead, ClearHead, Goto, TypeInv, LocalTypes
    <2> QED
      BY <1>2, <1>3, <1>4, <1>6, <1>8, <2>1, <2>2
  <1>9. CASE ~RecordHead(w) /\ ~ClearHead(w)
    <2>1. met' = met
      BY <1>9 DEF Record, RecordTail, RecordDrop, RecordDropped, RecordStore, RecordStored,
             RecordPublish, RecordCount, ClearTail, local
    <2> QED
      BY <1>2, <1>3, <1>4, <1>6, <1>9, <2>1
  <1> QED
    BY <1>7, <1>8, <1>9

\* The recorder stays in step with the ring, and the window keeps the newest records.
LEMMA RecordKeeps ==
  ASSUME RingInv, OneRecorder, NEW w \in Recorders, Record(w) \/ ClearHead(w) \/ ClearTail(w)
  PROVE  RecorderAt(w)' /\ RingHolds'
  <1> DEFINE D == Distance(tail, head)
             Goal == RecorderAt(w)' /\ RingHolds'
  <1>1. /\ TypeInv /\ RecorderAt(w) /\ RingHolds
        /\ w \in Threads /\ pc \in [Threads -> Labels]
        /\ head \in Indices /\ tail \in Indices
        /\ Capacity \in Nat /\ Capacity >= 2 /\ 0 \in Indices
        /\ totalRecords \in Nat /\ issued \in Nat
        /\ h \in [Threads -> Indices] /\ t \in [Threads -> Indices]
        /\ number \in [Recorders -> 0..MaxRecords]
        /\ \A i \in Indices : slots[i] \in Contents
        /\ DOMAIN slots = Indices
    BY SOEAssumption DEF RingInv, TypeInv, TypeOK, LocalTypes, Threads, Contents, Indices
  <1>2. /\ Clearing <=> pc[w] = "clearTail"
        /\ Clearing' <=> pc'[w] = "clearTail"
        /\ Published = totalRecords + (IF pc[w] = "count" THEN 1 ELSE 0)
        /\ Published' = totalRecords' + (IF pc'[w] = "count" THEN 1 ELSE 0)
        /\ pc[w] = "idle" => issued = Published
    <2>1. pc[w] = "idle" => issued = totalRecords
      BY <1>1, Alone DEF TypeInv, Counted, Recording
    <2> QED
      BY <1>1, <2>1, Alone
  <1>3. /\ Published \in Nat /\ D \in 0..(Capacity - 1)
        /\ Following(head) \in Indices /\ Following(Following(head)) \in Indices
        /\ Following(head) # head /\ Following(Following(head)) # Following(head)
    BY <1>1, <1>2, DistanceIs, FollowingIs
  <1>4. ASSUME NEW from, NEW to, Goto(w, from, to)
        PROVE  pc[w] = from /\ pc'[w] = to
    BY <1>1, <1>4 DEF Goto
  <1>5. ASSUME UNCHANGED <<head, tail, slots, totalRecords>>,
               pc[w] \notin {"clearTail", "count"}, pc'[w] \notin {"clearTail", "count"}
        PROVE  RingHolds'
    BY <1>1, <1>2, <1>5 DEF RingHolds
  <1>6. CASE RecordHead(w)
    <2>1. pc[w] = "idle" /\ pc'[w] = "tail"
      BY <1>4, <1>6 DEF RecordHead
    <2>2. UNCHANGED <<head, tail, slots, totalRecords>> /\ h'[w] = head /\ number'[w] = issued + 1
      BY <1>1, <1>6 DEF RecordHead, ring, counts
    <2>3. RecorderAt(w)'
      BY <1>1, <1>2, <2>1, <2>2 DEF RecorderAt, Recording
    <2> QED
      BY <1>5, <2>1, <2>2, <2>3
  <1>7. CASE RecordTail(w)
    <2>1. pc[w] = "tail" /\ pc'[w] = IF Following(head) = tail THEN "drop" ELSE "store"
      BY <1>1, <1>4, <1>7 DEF RecordTail, RecorderAt, Recording
    <2>2. UNCHANGED <<head, tail, slots, totalRecords, h, number>> /\ t'[w] = tail
      BY <1>1, <1>7 DEF RecordTail, ring, counts, local
    <2>3. RecorderAt(w)'
      BY <1>1, <1>2, <2>1, <2>2 DEF RecorderAt, Recording
    <2> QED
      BY <1>5, <2>1, <2>2, <2>3
  <1>8. CASE RecordDrop(w)
    <2>1. pc[w] = "drop" /\ pc'[w] = "dropped"
      BY <1>4, <1>8 DEF RecordDrop
    <2>2. UNCHANGED <<head, slots, totalRecords, h, number>>
          /\ tail = Following(head) /\ tail' = Following(tail)
      BY <1>1, <1>8, <2>1 DEF RecordDrop, counts, local, RecorderAt
    <2>3. RecorderAt(w)'
      BY <1>1, <1>2, <1>3, <2>1, <2>2 DEF RecorderAt, Recording
    <2>4. Distance(tail', head) = D - 1 /\ Published' = Published
      BY <1>1, <1>2, <1>3, <2>1, <2>2, DistanceIs
    <2>5. RingHolds'
      BY <1>1, <1>2, <1>3, <2>1, <2>2, <2>4 DEF RingHolds
    <2> QED
      BY <2>3, <2>5
  <1>9. CASE RecordDropped(w)
    <2>1. pc[w] = "dropped" /\ pc'[w] = "store"
      BY <1>4, <1>9 DEF RecordDropped
    <2>2. UNCHANGED <<head, tail, slots, totalRecords, h, number>>
      BY <1>9 DEF RecordDropped, ring, local
    <2>3. RecorderAt(w)'
      BY <1>1, <1>2, <2>1, <2>2 DEF RecorderAt, Recording
    <2> QED
      BY <1>5, <2>1, <2>2, <2>3
  <1>10. CASE RecordStore(w) \/ RecordStored(w)
    <2>1. \/ pc[w] = "store" /\ pc'[w] = "stored"
          \/ pc[w] = "stored" /\ pc'[w] = "publish"
      BY <1>4, <1>10 DEF RecordStore, RecordStored
    <2>2. UNCHANGED <<head, tail, totalRecords, h, number>>
      BY <1>10 DEF RecordStore, RecordStored, counts, local
    <2>3. h[w] = head /\ \A i \in Indices \ {head} : slots'[i] = slots[i]
      BY <1>1, <1>10, <2>1 DEF RecordStore, RecordStored, RecorderAt, Recording
    <2>4. pc'[w] = "publish" => slots'[head] = number[w]
      BY <1>1, <1>10, <2>1, <2>3, <1>4 DEF RecordStore, RecordStored
    <2>5. RecorderAt(w)'
      BY <1>1, <1>2, <2>1, <2>2, <2>4 DEF RecorderAt, Recording
    <2>6. ASSUME NEW k \in 0..(D - 1) PROVE Before(head, k) \in Indices \ {head}
      <3>1. k \in 0..(Capacity - 1) /\ k # Capacity - 1
        BY <1>3, SOEAssumption
      <3> QED
        BY <1>1, <3>1, BeforeIs
    <2>7. RingHolds'
      BY <1>1, <1>2, <2>1, <2>2, <2>3, <2>6 DEF RingHolds
    <2> QED
      BY <2>5, <2>7
  <1>11. CASE RecordPublish(w)
    <2>1. pc[w] = "publish" /\ pc'[w] = "count"
      BY <1>4, <1>11 DEF RecordPublish
    <2>2. UNCHANGED <<tail, slots, totalRecords>> /\ head' = Following(head)
          /\ tail # Following(head) /\ slots[head] = Published + 1
      BY <1>1, <1>11, <2>1 DEF RecordPublish, counts, RecorderAt, Recording
    <2>3. Published' = Published + 1 /\ Distance(tail, Following(head)) = D + 1
      BY <1>1, <1>2, <2>1, <2>2, DistanceIs
    <2>4. RecorderAt(w)'
      BY <1>1, <1>3, <2>1, <2>2 DEF RecorderAt, Recording
    <2>5. ASSUME NEW k \in 0..D PROVE slots[Before(Following(head), k)] = Published + 1 - k
      <3>1. k \in 0..(Capacity - 1)
        BY <1>1, <1>3
      <3>2. CASE k = 0
        BY <1>1, <1>3, <2>2, <3>1, <3>2, BeforeIs
      <3>3. CASE k > 0
        <4>1. Before(Following(head), k) = Before(head, k - 1)
          BY <1>1, <3>1, <3>3, BeforeIs
        <4>2. k - 1 \in 0..(D - 1)
          BY <1>3, <3>3
        <4>3. slots[Before(head, k - 1)] = Published - (k - 1)
          BY <1>1, <1>2, <2>1, <4>2 DEF RingHolds
        <4> QED
          BY <1>3, <4>1, <4>3
      <3> QED
        BY <1>3, <3>2, <3>3
    <2>6. D + 1 <= Published + 1
      BY <1>1, <1>2, <1>3, <2>1 DEF RingHolds
    <2>7. RingHolds'
      BY <1>1, <1>2, <1>3, <2>1, <2>2, <2>3, <2>5, <2>6 DEF RingHolds
    <2> QED
      BY <2>4, <2>7
  <1>12. CASE RecordCount(w)
    <2>1. pc[w] = "count" /\ pc'[w] = "idle"
      BY <1>4, <1>12 DEF RecordCount
    <2>2. UNCHANGED <<head, tail, slots>> /\ totalRecords' = totalRecords + 1
      BY <1>12 DEF RecordCount, ring
    <2>3. Published' = Published
      BY <1>1, <1>2, <2>1, <2>2
    <2>4. RecorderAt(w)'
      BY <1>1, <2>1, <2>2 DEF RecorderAt, Recording
    <2>5. RingHolds'
      BY <1>1, <1>2, <2>1, <2>2, <2>3 DEF RingHolds
    <2> QED
      BY <2>4, <2>5
  <1>13. CASE ClearHead(w)
    <2>1. pc[w] = "idle" /\ pc'[w] = "clearTail"
      BY <1>4, <1>13 DEF ClearHead
    <2>2. UNCHANGED <<tail, slots>> /\ head' = 0 /\ tail \in {0, Following(head)}
      BY <1>1, <1>13, <2>1 DEF ClearHead, RecorderAt
    <2>3. RecorderAt(w)'
      BY <2>1, <2>2 DEF RecorderAt, Recording
    <2>4. Descending(0, Distance(tail, 0))
      <3>1. CASE tail = 0
        <4>1. Distance(tail, 0) = 0
          BY <1>1, <3>1, DistanceIs
        <4> QED
          BY <4>1 DEF Descending
      <3>2. CASE tail = Following(head) /\ tail # 0
        <4>1. /\ D = Capacity - 1 /\ tail = head + 1 /\ head \in 0..(Capacity - 2)
              /\ Distance(tail, 0) = Capacity - 1 - head
          <5>1. Following(head) = IF head = Capacity - 1 THEN 0 ELSE head + 1
            BY <1>1, FollowingIs
          <5>2. head \in 0..(Capacity - 2) /\ tail = head + 1
            BY <1>1, <3>2, <5>1 DEF Indices
          <5>3. D = Capacity - 1
            BY <1>1, <3>2, DistanceIs
          <5> QED
            BY <1>1, <5>2, <5>3 DEF Distance
        <4>2. ASSUME NEW k \in 0..(Distance(tail, 0) - 1)
              PROVE  slots[Before(0, k)] = Published - (k + head) /\ slots[Before(0, k)] \in Nat
          <5>1. k \in 0..(Capacity - 1) /\ k + head \in 0..(Capacity - 1) /\ k + head \in 0..(D - 1)
            BY <1>1, <4>1
          <5>2. Before(0, k) = Capacity - 1 - k
            BY <1>1, <4>1, <5>1, BeforeIs
          <5>3. Before(head, k + head) = Capacity - 1 - k
            <6>1. Before(head, k + head) = head + Capacity - 1 - (k + head)
              BY <1>1, <4>1, <5>1, BeforeIs
            <6> QED
              BY <1>1, <4>1, <5>1, <6>1
          <5>4. slots[Before(head, k + head)] = Published - (k + head) /\ k + head < Published
            BY <1>1, <1>2, <1>3, <2>1, <5>1 DEF RingHolds
          <5> QED
            BY <1>1, <1>3, <4>1, <5>1, <5>2, <5>3, <5>4
        <4> QED
          BY <1>1, <1>3, <4>1, <4>2 DEF Descending
      <3> QED
        BY <2>2, <3>1, <3>2
    <2>5. RingHolds'
      BY <1>2, <2>1, <2>2, <2>4 DEF RingHolds, Descending
    <2> QED
      BY <2>3, <2>5
  <1>14. CASE ClearTail(w)
    <2>1. pc[w] = "clearTail" /\ pc'[w] = "idle" /\ head = 0
      BY <1>1, <1>4, <1>14 DEF ClearTail, RecorderAt
    <2>2. UNCHANGED <<head, slots, totalRecords>> /\ tail' = 0
      BY <1>14 DEF ClearTail, counts
    <2>3. RecorderAt(w)'
      BY <2>1, <2>2 DEF RecorderAt, Recording
    <2>4. Distance(tail', head') = 0 /\ Published' \in Nat
      BY <1>1, <1>2, <2>1, <2>2, DistanceIs
    <2>5. RingHolds'
      BY <1>2, <2>1, <2>4 DEF RingHolds
    <2> QED
      BY <2>3, <2>5
  <1> QED
    BY <1>6, <1>7, <1>8, <1>9, <1>10, <1>11, <1>12, <1>13, <1>14 DEF Record

\* A reader never visits the slot kept free.
LEMMA AheadRange ==
  ASSUME TypeInv, NEW r \in Readers, Latest(r)
  PROVE  \A k \in Ahead(r) : k \in 0..(Capacity - 2) /\ Before(h[r], k) \in Indices \ {h[r]}
  <1>1. /\ Capacity \in Nat /\ Capacity >= 2 /\ cur[r] \in Indices /\ h[r] \in Indices
        /\ limit[r] \in Nat /\ Len(result[r]) \in Nat
    BY SOEAssumption DEF TypeInv, TypeOK, LocalTypes, Threads
  <1>2. Distance(cur[r], h[r]) \in 0..(Capacity - 1)
    BY <1>1, DistanceIs
  <1>3. ASSUME NEW k \in Ahead(r) PROVE k \in 0..(Capacity - 2)
    BY <1>1, <1>2 DEF Ahead, Latest
  <1>4. ASSUME NEW k \in 0..(Capacity - 2) PROVE Before(h[r], k) \in Indices \ {h[r]}
    <2>1. k \in 0..(Capacity - 1) /\ k # Capacity - 1
      BY <1>1
    <2> QED
      BY <1>1, <2>1, BeforeIs
  <1> QED
    BY <1>3, <1>4

\* A step of the recorder that is no call's first finds a call under way.
LEMMA NotIdle ==
  ASSUME TypeInv, NEW w \in Recorders, Record(w) \/ ClearHead(w) \/ ClearTail(w),
         ~RecordHead(w), ~ClearHead(w)
  PROVE  pc[w] # "idle"
  BY DEF Record, RecordTail, RecordDrop, RecordDropped, RecordStore, RecordStored,
         RecordPublish, RecordCount, ClearTail, Goto

\* A reader stays near the recorder while it has met one record at most.
LEMMA RecorderNear ==
  ASSUME RingInv, OneRecorder, NEW w \in Recorders, Record(w) \/ ClearHead(w) \/ ClearTail(w),
         NEW r \in Readers
  PROVE  Near(r)'
  <1> SUFFICES ASSUME pc'[r] # "idle", met'[r] <= 1
      PROVE  /\ met'[r] = 0 => Quiet'
             /\ \/ head' = h'[r]
                \/ /\ met'[r] = 1 /\ head' = Following(h'[r]) /\ tail' # head'
                   /\ \A v \in Recorders : pc'[v] \in {"count", "idle"}
    BY DEF Near
  <1>1. /\ pc'[r] = pc[r] /\ h'[r] = h[r] /\ met[r] \in Nat /\ met'[r] \in Nat
        /\ IF RecordHead(w) THEN met'[r] <= 1 => met[r] = 0 /\ met'[r] = 1
           ELSE IF ClearHead(w) THEN met'[r] > 1 ELSE met'[r] = met[r]
    BY RecorderAndReaders
  <1>2. /\ TypeInv /\ RecorderAt(w) /\ Near(r) /\ w \in Threads /\ pc \in [Threads -> Labels]
    BY DEF RingInv, TypeInv, LocalTypes, Threads
  <1>3. /\ \A v \in Recorders : v = w
        /\ Quiet <=> pc[w] = "idle"
    BY Alone
  <1>4. CASE RecordHead(w)
    <2>1. met[r] = 0 /\ met'[r] = 1 /\ head' = head
      BY <1>1, <1>4 DEF RecordHead, ring
    <2>2. head = h[r]
      BY <1>1, <1>2, <2>1 DEF Near
    <2> QED
      BY <1>1, <2>1, <2>2
  <1>5. CASE ClearHead(w)
    <2>1. ~RecordHead(w)
      BY <1>2, <1>5 DEF RecordHead, ClearHead, Goto
    <2>2. met'[r] > 1
      BY <1>1, <1>5, <2>1
    <2> QED
      BY <1>1, <2>2
  <1>6. CASE ~RecordHead(w) /\ ~ClearHead(w)
    <2>1. pc[w] # "idle" /\ met'[r] = met[r]
      BY <1>1, <1>2, <1>6, NotIdle
    <2>2. /\ met[r] = 1 /\ met'[r] = 1
          /\ head = h[r] \/ (head = Following(h[r]) /\ tail # head /\ pc[w] = "count")
      BY <1>1, <1>2, <1>3, <2>1 DEF Near
    <2>3. CASE RecordPublish(w)
      <3>1. pc[w] = "publish" /\ pc'[w] = "count"
        BY <1>2, <2>3 DEF RecordPublish, Goto
      <3>2. head = h[r] /\ head' = Following(head) /\ tail' = tail /\ tail # Following(head)
        BY <1>2, <2>2, <2>3, <3>1 DEF RecordPublish, RecorderAt, Recording
      <3> QED
        BY <1>1, <1>3, <2>2, <3>1, <3>2
    <2>4. CASE RecordCount(w)
      <3>1. pc'[w] = "idle" /\ UNCHANGED <<head, tail>>
        BY <1>2, <2>4 DEF RecordCount, Goto, ring
      <3> QED
        BY <1>1, <1>3, <2>2, <3>1
    <2>5. CASE ~RecordPublish(w) /\ ~RecordCount(w)
      <3>1. pc[w] # "count" /\ head' = head
        BY <1>2, <1>6, <2>5 DEF Record, RecordTail, RecordDrop, RecordDropped, RecordStore, RecordStored,
               ClearTail, Goto, ring
      <3> QED
        BY <1>1, <2>2, <3>1
    <2> QED
      BY <2>3, <2>4, <2>5
  <1> QED
    BY <1>4, <1>5, <1>6

\* The slots a reader has still to visit do not change while it has met one record at most.
LEMMA RecorderView ==
  ASSUME RingInv, OneRecorder, NEW w \in Recorders, Record(w) \/ ClearHead(w) \/ ClearTail(w),
         NEW r \in Readers
  PROVE  View(r)' /\ Latest(r)'
  <1>1. /\ pc'[r] = pc[r] /\ h'[r] = h[r] /\ met[r] \in Nat /\ met'[r] \in Nat
        /\ limit'[r] = limit[r] /\ cur'[r] = cur[r] /\ result'[r] = result[r]
        /\ IF RecordHead(w) THEN met'[r] <= 1 => met[r] = 0 /\ met'[r] = 1
           ELSE IF ClearHead(w) THEN met'[r] > 1 ELSE met'[r] = met[r]
    BY RecorderAndReaders
  <1>2. /\ TypeInv /\ RecorderAt(w) /\ Near(r) /\ View(r) /\ Latest(r)
        /\ w \in Threads /\ pc \in [Threads -> Labels]
        /\ slots \in [Indices -> Contents] /\ h[w] \in Indices /\ h[r] \in Indices
    BY DEF RingInv, TypeInv, TypeOK, LocalTypes, Threads, Contents
  <1>3. /\ \A v \in Recorders : v = w
        /\ Quiet <=> pc[w] = "idle"
    BY Alone
  <1>4. Ahead(r)' = Ahead(r)
    BY <1>1 DEF Ahead
  <1>5. met'[r] <= 1 => met[r] <= 1
    BY <1>1
  <1>6. ASSUME met'[r] <= 1, NEW k \in Ahead(r) PROVE slots'[Before(h[r], k)] = slots[Before(h[r], k)]
    <2>1. Before(h[r], k) \in Indices \ {h[r]} /\ pc[r] # "idle"
      BY <1>2, AheadRange DEF Ahead
    <2>2. CASE RecordStore(w) \/ RecordStored(w)
      <3>1. pc[w] \in {"store", "stored"}
        BY <1>2, <2>2 DEF RecordStore, RecordStored, Goto
      <3>2. head = h[r] /\ h[w] = head
        BY <1>2, <1>3, <1>5, <1>6, <2>1, <3>1 DEF Near, RecorderAt, Recording
      <3> QED
        BY <1>2, <2>1, <2>2, <3>2 DEF RecordStore, RecordStored
    <2>3. CASE ~RecordStore(w) /\ ~RecordStored(w)
      BY <2>3 DEF Record, RecordHead, RecordTail, RecordDrop, RecordDropped, RecordPublish, RecordCount,
             ClearHead, ClearTail, ring
    <2> QED
      BY <2>2, <2>3
  <1>7. met'[r] <= 1 => \A k \in Ahead(r) : Slot(r, k)' = Slot(r, k)
    BY <1>1, <1>6 DEF Slot
  <1>8. View(r)'
    BY <1>1, <1>2, <1>4, <1>5, <1>7 DEF View
  <1>9. pc[r] = "latest" => met'[r] # 0
    <2> SUFFICES ASSUME pc[r] = "latest", met'[r] = 0 PROVE FALSE
      OBVIOUS
    <2>1. ~RecordHead(w) /\ ~ClearHead(w) /\ met[r] = 0
      <3>1. ~RecordHead(w)
        BY <1>1
      <3>2. ~ClearHead(w)
        BY <1>1, <3>1
      <3> QED
        BY <1>1, <3>1, <3>2
    <2>2. pc[w] # "idle"
      BY <1>2, <2>1, NotIdle
    <2> QED
      BY <1>2, <1>3, <2>1, <2>2 DEF Near
  <1>10. Latest(r)'
    BY <1>1, <1>2, <1>9 DEF Latest
  <1> QED
    BY <1>8, <1>10

\* Backwards from head, the window between tail and head holds ever older records.
LEMMA WindowDescends ==
  ASSUME RingInv, OneRecorder
  PROVE  /\ Descending(head, Distance(tail, head))
         /\ Quiet => Published = totalRecords /\ ~Clearing
  <1>1. /\ TypeInv /\ RingHolds /\ \A w \in Recorders : RecorderAt(w)
        /\ head \in Indices /\ tail \in Indices /\ totalRecords \in Nat
        /\ Capacity \in Nat /\ Capacity >= 2
    BY SOEAssumption DEF RingInv, TypeInv, TypeOK
  <1>2. Published \in Nat /\ Distance(tail, head) \in 0..(Capacity - 1)
    BY <1>1, Counting, DistanceIs DEF Published
  <1>3. ASSUME Clearing PROVE Descending(head, Distance(tail, head))
    <2>1. head = 0
      BY <1>1, <1>3 DEF Clearing, RecorderAt
    <2>2. Descending(0, Distance(tail, 0))
      BY <1>1, <1>3 DEF RingHolds
    <2> HIDE DEF Descending
    <2> QED
      BY <2>1, <2>2
  <1>4. ASSUME ~Clearing PROVE Descending(head, Distance(tail, head))
    <2>1. ASSUME NEW k \in 0..(Distance(tail, head) - 1)
          PROVE  slots[Before(head, k)] = Published - k /\ Published - k \in Nat
      BY <1>1, <1>2, <1>4 DEF RingHolds
    <2>2. ASSUME NEW k \in 0..(Distance(tail, head) - 1), NEW j \in 0..(k - 1)
          PROVE  slots[Before(head, j)] > slots[Before(head, k)]
      <3>1. j \in 0..(Distance(tail, head) - 1) /\ j < k /\ j \in Nat /\ k \in Nat
        BY <1>1, <1>2
      <3>2. slots[Before(head, k)] = Published - k /\ slots[Before(head, j)] = Published - j
        BY <2>1, <3>1
      <3> HIDE DEF Published
      <3>3. Published - j > Published - k
        BY <1>2, <3>1
      <3> QED
        BY <3>2, <3>3
    <2> QED
      BY <2>1, <2>2 DEF Descending
  <1>5. Quiet => {w \in Recorders : pc[w] = "count"} = {}
    BY DEF Quiet
  <1>6. Quiet => Published = totalRecords /\ ~Clearing
    BY <1>1, <1>5, FS_EmptySet DEF Published, Quiet, Clearing
  <1> QED
    BY <1>3, <1>4, <1>6

\* So does what a reader is about to walk, when it loads tail.
LEMMA LoadedWindow ==
  ASSUME RingInv, OneRecorder, NEW r \in Readers, pc[r] # "idle", met[r] <= 1
  PROVE  Descending(h[r], Distance(tail, h[r]))
  <1>1. /\ Near(r) /\ head \in Indices /\ tail \in Indices /\ h[r] \in Indices
        /\ Capacity \in Nat /\ Capacity >= 2
    BY SOEAssumption DEF RingInv, TypeInv, TypeOK, Threads
  <1>2. Descending(head, Distance(tail, head))
    BY WindowDescends
  <1>3. CASE head = h[r]
    BY <1>2, <1>3
  <1>4. CASE head = Following(h[r]) /\ tail # head
    <2>1. /\ Distance(tail, head) = Distance(tail, h[r]) + 1
          /\ Distance(tail, h[r]) \in 0..(Capacity - 1)
      BY <1>1, <1>4, DistanceIs
    <2>2. ASSUME NEW k \in 0..(Distance(tail, h[r]) - 1)
          PROVE  /\ k + 1 \in 0..(Distance(tail, head) - 1)
                 /\ Before(h[r], k) = Before(head, k + 1)
      <3>1. k + 1 \in 0..(Capacity - 1) /\ k + 1 > 0 /\ (k + 1) - 1 = k
        BY <1>1, <2>1
      <3>2. Before(Following(h[r]), k + 1) = Before(h[r], (k + 1) - 1)
        BY <1>1, <3>1, BeforeIs
      <3> QED
        BY <1>4, <2>1, <3>1, <3>2
    <2>3. ASSUME NEW k \in 0..(Distance(tail, h[r]) - 1), NEW j \in 0..(k - 1)
          PROVE  slots[Before(h[r], j)] > slots[Before(h[r], k)]
      <3>1. j \in 0..(Distance(tail, h[r]) - 1) /\ j + 1 \in 0..((k + 1) - 1)
        BY <2>1
      <3> QED
        BY <1>2, <2>2, <3>1 DEF Descending
    <2> QED
      BY <1>2, <2>2, <2>3 DEF Descending
  <1> QED
    BY <1>1, <1>3, <1>4 DEF Near

\* A reader stays near the recorder also by its own steps.
LEMMA ReaderNear ==
  ASSUME RingInv, NEW r \in Readers, Read(r)
  PROVE  Near(r)'
  <1>1. /\ TypeInv /\ Near(r) /\ r \in Threads
        /\ pc \in [Threads -> Labels] /\ h \in [Threads -> Indices]
        /\ met \in [Readers -> 0..(2 + Cardinality(Recorders))]
    BY DEF RingInv, TypeInv, TypeOK, LocalTypes, Threads
  <1>2. /\ UNCHANGED <<head, tail>> /\ \A w \in Recorders : pc'[w] = pc[w]
    BY <1>1, ReaderLeaves
  <1>3. Quiet' <=> Quiet
    BY <1>2 DEF Quiet
  <1>4. CASE \E n \in 1..Capacity : ReadHead(r, n)
    <2>1. h'[r] = head /\ met'[r] = Cardinality({w \in Recorders : pc[w] # "idle"})
      BY <1>1, <1>4 DEF ReadHead
    <2>2. {w \in Recorders : pc[w] # "idle"} \in SUBSET Recorders
      OBVIOUS
    <2>3. met'[r] = 0 => {w \in Recorders : pc[w] # "idle"} = {}
      BY <2>1, <2>2, Counting
    <2>4. met'[r] = 0 => Quiet
      BY <2>3 DEF Quiet
    <2> QED
      BY <1>2, <1>3, <2>1, <2>4 DEF Near
  <1>5. CASE ~\E n \in 1..Capacity : ReadHead(r, n)
    <2>1. pc[r] # "idle" /\ UNCHANGED <<h, met>>
      BY <1>1, <1>5 DEF Read, QueryTail, QueryVisit, QueryEnd, LatestTail, LatestCopy, LatestEnd,
                        Goto, local
    <2> QED
      BY <1>1, <1>2, <1>3, <2>1 DEF Near
  <1> QED
    BY <1>4, <1>5

\* What a copy adds to the records read, and what it leaves as it was.
LEMMA Copied ==
  ASSUME NEW S, NEW s \in Seq(S), NEW c \in S
  PROVE  /\ Len(Append(s, c)) = Len(s) + 1 /\ Len(s) \in Nat
         /\ \A i \in 1..Len(s) : Append(s, c)[i] = s[i]
         /\ Append(s, c)[Len(s) + 1] = c
  OBVIOUS

\* A query goes on from the oldest record left to the next.
LEMMA QueryViews ==
  ASSUME RingInv, OneRecorder, NEW r \in Readers, QueryTail(r) \/ QueryVisit(r)
  PROVE  View(r)'
  <1>1. /\ TypeInv /\ View(r) /\ Latest(r) /\ r \in Threads
        /\ pc \in [Threads -> Labels] /\ h[r] \in Indices /\ cur \in [Readers -> Indices]
        /\ result \in [Readers -> Seq(Contents)] /\ slots \in [Indices -> Contents]
        /\ Capacity \in Nat /\ Capacity >= 2
    BY SOEAssumption DEF RingInv, TypeInv, TypeOK, LocalTypes, Threads, Contents
  <1>2. UNCHANGED <<slots, h, met>> /\ pc'[r] = "query"
    BY <1>1 DEF QueryTail, QueryVisit, ring, Goto
  <1> SUFFICES ASSUME met[r] <= 1
      PROVE  /\ \A k \in Ahead(r)' : /\ Slot(r, k) \in Nat
                                     /\ \A j \in Ahead(r)' : j < k => Slot(r, j) > Slot(r, k)
             /\ \A i \in 1..Len(result'[r]) :
                  /\ result'[r][i] \in Nat
                  /\ \A k \in Ahead(r)' : result'[r][i] < Slot(r, k)
                  /\ \A j \in 1..Len(result'[r]) : i < j => result'[r][i] < result'[r][j]
    BY <1>2 DEF View, Slot
  <1>3. CASE QueryTail(r)
    <2>1. pc[r] = "queryTail" /\ result[r] = <<>> /\ result' = result /\ cur'[r] = tail
      BY <1>1, <1>3 DEF QueryTail, Goto, TypeInv, LocalTypes
    <2>2. Ahead(r)' = 0..(Distance(tail, h[r]) - 1)
      BY <1>2, <2>1 DEF Ahead
    <2>3. Descending(h[r], Distance(tail, h[r]))
      BY <2>1, LoadedWindow
    <2>4. Len(result'[r]) = 0
      BY <2>1
    <2>5. tail \in Indices /\ Distance(tail, h[r]) \in Nat
      BY <1>1, DistanceIs DEF TypeInv, TypeOK
    <2>6. ASSUME NEW k \in Ahead(r)', NEW j \in Ahead(r)', j < k
          PROVE  Slot(r, j) > Slot(r, k)
      <3>1. j \in 0..(k - 1)
        BY <2>2, <2>5, <2>6
      <3> QED
        BY <2>2, <2>3, <3>1 DEF Descending, Slot
    <2> QED
      BY <2>2, <2>3, <2>4, <2>6 DEF Descending, Slot
  <1>4. CASE QueryVisit(r)
    <2> DEFINE last == Distance(cur[r], h[r]) - 1
    <2>1. pc[r] = "query" /\ cur[r] # h[r] /\ cur'[r] = Following(cur[r])
      BY <1>1, <1>4 DEF QueryVisit, Goto
    <2>2. /\ last \in Nat /\ Ahead(r) = 0..last
          /\ Distance(Following(cur[r]), h[r]) = last /\ Before(h[r], last) = cur[r]
      <3>1. Distance(cur[r], h[r]) \in Nat /\ Distance(cur[r], h[r]) # 0
        BY <1>1, <2>1, DistanceIs
      <3>2. /\ Distance(Following(cur[r]), h[r]) = Distance(cur[r], h[r]) - 1
            /\ Before(h[r], Distance(cur[r], h[r]) - 1) = cur[r]
        BY <1>1, <2>1, DistanceIs
      <3> QED
        BY <2>1, <3>1, <3>2 DEF Ahead
    <2>3. Ahead(r)' = 0..(last - 1)
      BY <1>2, <2>1, <2>2 DEF Ahead
    <2> HIDE DEF last
    <2>4. Ahead(r)' \subseteq Ahead(r) /\ last \in Ahead(r)
          /\ \A k \in Ahead(r)' : k < last
      BY <2>2, <2>3
    <2>5. Slot(r, last) = slots[cur[r]] /\ slots[cur[r]] \in Contents
      BY <1>1, <2>2 DEF Slot
    <2>6. /\ \A k \in Ahead(r) : /\ Slot(r, k) \in Nat
                                 /\ \A j \in Ahead(r) : j < k => Slot(r, j) > Slot(r, k)
          /\ \A i \in 1..Len(result[r]) :
               /\ result[r][i] \in Nat
               /\ \A k \in Ahead(r) : result[r][i] < Slot(r, k)
               /\ \A j \in 1..Len(result[r]) : i < j => result[r][i] < result[r][j]
      BY <1>1, <2>1 DEF View
    <2>7. CASE result' = result
      BY <2>4, <2>6, <2>7
    <2>8. CASE result' = [result EXCEPT ![r] = Append(@, slots[cur[r]])]
      <3> DEFINE n == Len(result[r])
      <3>1. result'[r] = Append(result[r], slots[cur[r]])
        BY <1>1, <2>8
      <3>2. /\ Len(result'[r]) = n + 1 /\ n \in Nat
            /\ \A i \in 1..n : result'[r][i] = result[r][i]
            /\ result'[r][n + 1] = Slot(r, last)
        BY <1>1, <2>5, <3>1, Copied
      <3> HIDE DEF n
      <3>3. \A i \in 1..(n + 1) : i \in 1..n \/ i = n + 1
        BY <3>2
      <3>4. /\ \A i \in 1..n : result[r][i] \in Nat /\ result[r][i] < Slot(r, last)
            /\ \A i \in 1..n : \A j \in 1..n : i < j => result[r][i] < result[r][j]
            /\ \A i \in 1..n : \A k \in Ahead(r)' : result[r][i] < Slot(r, k)
            /\ \A k \in Ahead(r)' : Slot(r, last) < Slot(r, k)
            /\ Slot(r, last) \in Nat
        <4>1. \A k \in Ahead(r)' : Slot(r, k) > Slot(r, last) /\ Slot(r, k) \in Nat
          BY <2>4, <2>6
        <4> QED
          BY <2>4, <2>6, <4>1 DEF n
      <3>5. ASSUME NEW i \in 1..(n + 1)
            PROVE  /\ result'[r][i] \in Nat
                   /\ \A k \in Ahead(r)' : result'[r][i] < Slot(r, k)
        BY <3>2, <3>3, <3>4
      <3>6. ASSUME NEW i \in 1..(n + 1), NEW j \in 1..(n + 1), i < j
            PROVE  result'[r][i] < result'[r][j]
        <4>1. i \in 1..n
          BY <3>2, <3>6
        <4>2. CASE j \in 1..n
          BY <3>2, <3>4, <3>6, <4>1, <4>2
        <4>3. CASE j = n + 1
          BY <3>2, <3>4, <4>1, <4>3
        <4> QED
          BY <3>3, <4>2, <4>3
      <3> QED
        BY <2>4, <2>6, <3>2, <3>5, <3>6
    <2> QED
      BY <1>4, <2>7, <2>8 DEF QueryVisit
  <1> QED
    BY <1>3, <1>4

\* getLatest goes on from the newest record left to the one before.
LEMMA LatestViews ==
  ASSUME RingInv, OneRecorder, NEW r \in Readers, LatestTail(r) \/ LatestCopy(r)
  PROVE  View(r)'
  <1>1. /\ TypeInv /\ View(r) /\ Latest(r) /\ r \in Threads
        /\ pc \in [Threads -> Labels] /\ h[r] \in Indices
        /\ limit \in [Readers -> 0..Capacity]
        /\ result \in [Readers -> Seq(Contents)] /\ slots \in [Indices -> Contents]
        /\ Capacity \in Nat /\ Capacity >= 2
    BY SOEAssumption DEF RingInv, TypeInv, TypeOK, LocalTypes, Threads, Contents
  <1>2. UNCHANGED <<slots, h, met>> /\ pc'[r] = "latest"
    BY <1>1 DEF LatestTail, LatestCopy, ring, Goto
  <1> SUFFICES ASSUME met[r] <= 1
      PROVE  /\ \A k \in Ahead(r)' : /\ Slot(r, k) \in Nat
                                     /\ \A j \in Ahead(r)' : j < k => Slot(r, j) > Slot(r, k)
             /\ \A i \in 1..Len(result'[r]) :
                  /\ result'[r][i] \in Nat
                  /\ \A k \in Ahead(r)' : result'[r][i] > Slot(r, k)
                  /\ \A j \in 1..Len(result'[r]) : i < j => result'[r][i] > result'[r][j]
    BY <1>2 DEF View, Slot
  <1>3. CASE LatestTail(r)
    <2>1. pc[r] = "latestTail" /\ result[r] = <<>> /\ result' = result
      BY <1>1, <1>3 DEF LatestTail, Goto, TypeInv, LocalTypes
    <2>2. tail \in Indices /\ Distance(tail, h[r]) \in 0..(Capacity - 1) /\ limit[r] \in Nat
      BY <1>1, DistanceIs DEF TypeInv, TypeOK
    <2>3. limit'[r] = IF limit[r] <= Distance(tail, h[r]) THEN limit[r] ELSE Distance(tail, h[r])
      BY <1>1, <1>3 DEF LatestTail
    <2>4. limit'[r] \in Nat /\ limit'[r] <= Distance(tail, h[r])
      BY <2>2, <2>3
    <2>5. Len(result'[r]) = 0
      BY <2>1
    <2>6. Ahead(r)' = 0..(limit'[r] - 1)
      BY <1>2, <2>1 DEF Ahead
    <2>7. Ahead(r)' \subseteq 0..(Distance(tail, h[r]) - 1)
      BY <1>1, <2>2, <2>4, <2>6
    <2>8. Descending(h[r], Distance(tail, h[r]))
      BY <2>1, LoadedWindow
    <2>9. ASSUME NEW k \in Ahead(r)', NEW j \in Ahead(r)', j < k
          PROVE  Slot(r, j) > Slot(r, k)
      <3>1. j \in 0..(k - 1)
        BY <2>4, <2>6, <2>9
      <3> QED
        BY <2>7, <2>8, <3>1 DEF Descending, Slot
    <2> QED
      BY <2>5, <2>7, <2>8, <2>9 DEF Descending, Slot
  <1>4. CASE LatestCopy(r)
    <2> DEFINE n == Len(result[r])
    <2>1. /\ pc[r] = "latest" /\ n < limit[r] /\ limit' = limit
          /\ result'[r] = Append(result[r], slots[Before(h[r], n)])
      BY <1>1, <1>4 DEF LatestCopy, Goto
    <2>2. n \in Nat /\ limit[r] \in Nat /\ limit[r] <= Capacity - 1
      BY <1>1, <2>1 DEF Latest
    <2>3. Slot(r, n) \in Contents /\ slots[Before(h[r], n)] = Slot(r, n)
      <3>1. n \in 0..(Capacity - 1)
        BY <1>1, <2>1, <2>2
      <3>2. Before(h[r], n) \in Indices
        BY <1>1, <3>1, BeforeIs
      <3> QED
        BY <1>1, <3>2 DEF Slot
    <2>4. /\ Len(result'[r]) = n + 1
          /\ \A i \in 1..n : result'[r][i] = result[r][i]
          /\ result'[r][n + 1] = Slot(r, n)
      BY <1>1, <2>1, <2>3, Copied
    <2>5. Ahead(r) = n..(limit[r] - 1) /\ Ahead(r)' = (n + 1)..(limit[r] - 1)
      BY <1>2, <2>1, <2>4 DEF Ahead
    <2>6. /\ \A k \in Ahead(r) : /\ Slot(r, k) \in Nat
                                 /\ \A j \in Ahead(r) : j < k => Slot(r, j) > Slot(r, k)
          /\ \A i \in 1..n :
               /\ result[r][i] \in Nat
               /\ \A k \in Ahead(r) : result[r][i] > Slot(r, k)
               /\ \A j \in 1..n : i < j => result[r][i] > result[r][j]
      BY <1>1, <2>1 DEF View
    <2> HIDE DEF n
    <2>7. Ahead(r)' \subseteq Ahead(r) /\ n \in Ahead(r) /\ \A k \in Ahead(r)' : n < k
      BY <2>1, <2>2, <2>5
    <2>8. \A i \in 1..(n + 1) : i \in 1..n \/ i = n + 1
      BY <2>2
    <2>9. \A k \in Ahead(r)' : Slot(r, n) > Slot(r, k)
      BY <2>6, <2>7
    <2>10. ASSUME NEW i \in 1..(n + 1)
           PROVE  /\ result'[r][i] \in Nat
                  /\ \A k \in Ahead(r)' : result'[r][i] > Slot(r, k)
      BY <2>4, <2>6, <2>7, <2>8, <2>9
    <2>11. ASSUME NEW i \in 1..(n + 1), NEW j \in 1..(n + 1), i < j
           PROVE  result'[r][i] > result'[r][j]
      <3>1. i \in 1..n
        BY <2>2, <2>11
      <3>2. CASE j \in 1..n
        BY <2>4, <2>6, <2>11, <3>1, <3>2
      <3>3. CASE j = n + 1
        BY <2>4, <2>6, <2>7, <3>1, <3>3
      <3> QED
        BY <2>8, <3>2, <3>3
    <2> QED
      BY <2>4, <2>6, <2>7, <2>10, <2>11
  <1> QED
    BY <1>3, <1>4

\* Reads that begin or end hold nothing a reader could compare.
LEMMA ReaderView ==
  ASSUME RingInv, OneRecorder, NEW r \in Readers, Read(r)
  PROVE  View(r)'
  <1>1. /\ TypeInv /\ View(r) /\ r \in Threads /\ pc \in [Threads -> Labels]
        /\ result \in [Readers -> Seq(Contents)]
    BY DEF RingInv, TypeInv, LocalTypes, Threads, Contents
  <1>2. CASE \E n \in 1..Capacity : ReadHead(r, n)
    <2>1. result'[r] = <<>> /\ pc'[r] \in {"queryTail", "latestTail"}
      BY <1>1, <1>2 DEF ReadHead, Goto
    <2>2. Ahead(r)' = {} /\ Len(result'[r]) = 0
      BY <2>1 DEF Ahead
    <2> QED
      BY <2>2 DEF View
  <1>3. CASE QueryEnd(r) \/ LatestEnd(r)
    <2>1. pc'[r] = "idle" /\ UNCHANGED <<result, met>>
      BY <1>1, <1>3 DEF QueryEnd, LatestEnd, Goto, local
    <2>2. Ahead(r)' = {}
      BY <2>1 DEF Ahead
    <2> QED
      BY <1>1, <2>1, <2>2 DEF View
  <1> QED
    BY <1>2, <1>3, QueryViews, LatestViews DEF Read

\* getLatest copies the slot before head first, and no more records than there are.
LEMMA ReaderLatest ==
  ASSUME RingInv, OneRecorder, NEW r \in Readers, Read(r)
  PROVE  Latest(r)'
  <1> SUFFICES ASSUME pc'[r] = "latest"
      PROVE  /\ limit'[r] <= Capacity - 1
             /\ met'[r] = 0 =>
                  /\ limit'[r] <= Distance(tail', head')
                  /\ result'[r] # <<>> => result'[r][1] = totalRecords'
    BY DEF Latest, Distance
  <1>1. /\ TypeInv /\ Near(r) /\ Latest(r) /\ RingHolds
        /\ r \in Threads /\ pc \in [Threads -> Labels]
        /\ h[r] \in Indices /\ head \in Indices /\ tail \in Indices
        /\ limit \in [Readers -> 0..Capacity] /\ result \in [Readers -> Seq(Contents)]
        /\ slots \in [Indices -> Contents] /\ totalRecords \in Nat
        /\ Capacity \in Nat /\ Capacity >= 2
    BY SOEAssumption DEF RingInv, TypeInv, TypeOK, LocalTypes, Threads, Contents
  <1>2. UNCHANGED <<head, tail, slots, totalRecords>>
    BY <1>1, ReaderLeaves
  <1>3. LatestTail(r) \/ LatestCopy(r)
    BY <1>1 DEF Read, ReadHead, QueryTail, QueryVisit, QueryEnd, LatestEnd, Goto
  <1>4. pc[r] # "idle" /\ met' = met
    BY <1>1, <1>3 DEF LatestTail, LatestCopy, Goto
  <1>5. met[r] = 0 => Quiet /\ head = h[r]
    BY <1>1, <1>4 DEF Near
  <1>6. CASE LatestTail(r)
    <2>1. pc[r] = "latestTail" /\ result[r] = <<>> /\ result' = result
      BY <1>1, <1>6 DEF LatestTail, Goto, TypeInv, LocalTypes
    <2>2. Distance(tail, h[r]) \in 0..(Capacity - 1) /\ limit[r] \in Nat
      BY <1>1, DistanceIs
    <2>3. limit'[r] = IF limit[r] <= Distance(tail, h[r]) THEN limit[r] ELSE Distance(tail, h[r])
      BY <1>1, <1>6 DEF LatestTail
    <2>4. limit'[r] <= Capacity - 1 /\ limit'[r] <= Distance(tail, h[r])
      BY <1>1, <2>2, <2>3
    <2> QED
      BY <1>2, <1>4, <1>5, <2>1, <2>4
  <1>7. CASE LatestCopy(r)
    <2> DEFINE n == Len(result[r])
    <2>1. /\ pc[r] = "latest" /\ n < limit[r] /\ limit' = limit
          /\ result'[r] = Append(result[r], slots[Before(h[r], n)])
      BY <1>1, <1>7 DEF LatestCopy, Goto
    <2>2. n \in Nat /\ limit[r] \in Nat /\ limit[r] <= Capacity - 1
      BY <1>1, <2>1 DEF Latest
    <2>3. slots[Before(h[r], n)] \in Contents
      <3>1. n \in 0..(Capacity - 1)
        BY <1>1, <2>1, <2>2
      <3> QED
        BY <1>1, <3>1, BeforeIs
    <2>4. /\ \A i \in 1..n : result'[r][i] = result[r][i]
          /\ result'[r][n + 1] = slots[Before(h[r], n)]
      BY <1>1, <2>1, <2>3, Copied
    <2>5. met[r] = 0 => limit[r] <= Distance(tail, head)
      BY <1>1, <2>1 DEF Latest
    <2>6. met[r] = 0 => result'[r][1] = totalRecords
      <3> SUFFICES ASSUME met[r] = 0 PROVE result'[r][1] = totalRecords
        OBVIOUS
      <3>1. CASE n = 0
        <4>1. result'[r][1] = slots[Before(head, 0)]
          BY <1>5, <2>4, <3>1
        <4>2. Distance(tail, head) \in Nat /\ 0 \in 0..(Distance(tail, head) - 1)
          BY <1>1, <2>1, <2>2, <2>5, <3>1, DistanceIs
        <4>3. Published = totalRecords /\ ~Clearing
          BY <1>5, WindowDescends
        <4>4. slots[Before(head, 0)] = totalRecords - 0
          BY <1>1, <4>2, <4>3 DEF RingHolds
        <4> QED
          BY <1>1, <4>1, <4>4
      <3>2. CASE n > 0
        <4>1. 1 \in 1..n /\ result[r] # <<>>
          BY <1>1, <2>2, <3>2
        <4> QED
          BY <1>1, <2>1, <2>4, <4>1 DEF Latest
      <3> QED
        BY <2>2, <3>1, <3>2
    <2> QED
      BY <1>2, <1>4, <2>1, <2>2, <2>5, <2>6
  <1> QED
    BY <1>3, <1>6, <1>7

LEMMA ReaderKeeps ==
  ASSUME RingInv, OneRecorder, NEW r \in Readers, Read(r)
  PROVE  RingInv'
  <1>1. TypeInv /\ RingHolds /\ \A w \in Recorders : RecorderAt(w)
    BY DEF RingInv
  <1>2. /\ UNCHANGED <<head, tail, slots, totalRecords, droppedRecords, issued, number>>
        /\ \A x \in Threads \ {r} : pc'[x] = pc[x] /\ h'[x] = h[x] /\ t'[x] = t[x]
        /\ \A w \in Recorders : w \in Threads \ {r}
        /\ \A x \in Readers \ {r} : /\ limit'[x] = limit[x] /\ cur'[x] = cur[x]
                                    /\ result'[x] = result[x] /\ met'[x] = met[x]
    BY <1>1, ReaderLeaves
  <1>3. \A w \in Recorders : pc'[w] = pc[w] /\ h'[w] = h[w] /\ t'[w] = t[w]
    BY <1>2
  <1>4. Published' = Published /\ (Clearing' <=> Clearing) /\ (Quiet' <=> Quiet)
    BY <1>2, <1>3 DEF Published, Clearing, Quiet
  <1>5. \A w \in Recorders : RecorderAt(w)'
    BY <1>1, <1>2, <1>3, <1>4 DEF RecorderAt
  <1>6. RingHolds'
    BY <1>1, <1>2, <1>4 DEF RingHolds, Descending
  <1>7. ASSUME NEW x \in Readers, x # r PROVE Near(x)' /\ View(x)' /\ Latest(x)'
    <2>1. /\ pc'[x] = pc[x] /\ h'[x] = h[x] /\ limit'[x] = limit[x] /\ cur'[x] = cur[x]
          /\ result'[x] = result[x] /\ met'[x] = met[x]
      BY <1>2, <1>7 DEF Threads
    <2>2. Near(x) /\ View(x) /\ Latest(x)
      BY DEF RingInv
    <2>3. Ahead(x)' = Ahead(x)
      BY <2>1 DEF Ahead
    <2>4. \A k \in Ahead(x) : Slot(x, k)' = Slot(x, k)
      BY <1>2, <2>1 DEF Slot
    <2>5. View(x)'
      BY <2>1, <2>2, <2>3, <2>4 DEF View
    <2>6. Near(x)'
      BY <1>2, <1>3, <1>4, <2>1, <2>2 DEF Near
    <2>7. Latest(x)'
      BY <1>2, <2>1, <2>2 DEF Latest
    <2> QED
      BY <2>5, <2>6, <2>7
  <1>8. Near(r)' /\ View(r)' /\ Latest(r)'
    BY ReaderNear, ReaderView, ReaderLatest
  <1>9. TypeInv'
    BY <1>1, ReaderTypes
  <1> QED
    BY <1>5, <1>6, <1>7, <1>8, <1>9 DEF RingInv

LEMMA InitRing == Init => RingInv
  <1> SUFFICES ASSUME Init PROVE RingInv
    OBVIOUS
  <1>1. TypeInv
    BY InitTypes
  <1>2. /\ head = 0 /\ tail = 0 /\ 0 \in Indices /\ totalRecords = 0
        /\ Capacity \in Nat /\ Capacity >= 2
    BY SOEAssumption DEF Init, Indices
  <1>3. \A x \in Threads : pc[x] = "idle"
    BY DEF Init
  <1>4. Distance(tail, head) = 0
    BY <1>2, DistanceIs
  <1>5. /\ \A w \in Recorders : pc[w] = "idle"
        /\ \A r \in Readers : pc[r] = "idle" /\ result[r] = <<>>
    BY <1>3 DEF Init, Threads
  <1>6. \A w \in Recorders : RecorderAt(w)
    BY <1>2, <1>5 DEF RecorderAt, Recording
  <1>7. RingHolds
    <2>1. {w \in Recorders : pc[w] = "count"} = {}
      BY <1>5
    <2>2. Published = 0
      BY <1>2, <2>1, FS_EmptySet DEF Published
    <2> QED
      BY <1>4, <1>5, <2>2 DEF RingHolds, Clearing
  <1>8. ASSUME NEW r \in Readers PROVE Near(r) /\ View(r) /\ Latest(r)
    <2>1. Ahead(r) = {} /\ Len(result[r]) = 0
      BY <1>5 DEF Ahead
    <2> QED
      BY <1>5, <2>1 DEF Near, View, Latest
  <1> QED
    BY <1>1, <1>6, <1>7, <1>8 DEF RingInv

LEMMA StepRing == ASSUME OneRecorder PROVE RingInv /\ [Next]_vars => RingInv'
  <1> SUFFICES ASSUME RingInv, [Next]_vars PROVE RingInv'
    OBVIOUS
  <1>1. CASE UNCHANGED vars
    <2>1. TypeInv'
      BY <1>1, StepTypes DEF RingInv
    <2>2. \A r \in Readers : Near(r)' /\ Latest(r)'
      BY <1>1 DEF vars, ring, counts, local, RingInv, Near, Latest, Quiet
    <2>3. ASSUME NEW r \in Readers PROVE View(r)'
      <3>1. UNCHANGED <<slots, pc, h, limit, cur, result, met>> /\ View(r)
        BY <1>1 DEF vars, ring, local, RingInv
      <3>2. Ahead(r)' = Ahead(r)
        BY <3>1 DEF Ahead
      <3>3. \A k \in Ahead(r) : Slot(r, k)' = Slot(r, k)
        BY <3>1 DEF Slot
      <3> QED
        BY <3>1, <3>2, <3>3 DEF View
    <2>4. Published' = Published /\ (Clearing' <=> Clearing)
      BY <1>1 DEF vars, ring, counts, Published, Clearing
    <2>5. \A w \in Recorders : RecorderAt(w)'
      BY <1>1, <2>4 DEF vars, ring, local, RingInv, RecorderAt
    <2>6. RingHolds'
      BY <1>1, <2>4 DEF vars, ring, RingInv, RingHolds, Descending
    <2> QED
      BY <2>1, <2>2, <2>3, <2>5, <2>6 DEF RingInv
  <1>2. ASSUME NEW w \in Recorders, Record(w) \/ ClearHead(w) \/ ClearTail(w) PROVE RingInv'
    <2>1. TypeInv'
      BY <1>2, RecorderTypes DEF RingInv
    <2>2. RecorderAt(w)' /\ RingHolds'
      BY <1>2, RecordKeeps
    <2>3. \A v \in Recorders : RecorderAt(v)'
      BY <2>2, Alone
    <2>4. \A r \in Readers : Near(r)'
      BY <1>2, RecorderNear
    <2>5. \A r \in Readers : View(r)' /\ Latest(r)'
      BY <1>2, RecorderView
    <2> QED
      BY <2>1, <2>2, <2>3, <2>4, <2>5 DEF RingInv
  <1> QED
    BY <1>1, <1>2, ReaderKeeps DEF Next

\* Where the recorder and the readers are, and what the slots hold, with one recorder.
THEOREM RingInvariance == ASSUME OneRecorder PROVE Spec => []RingInv
  <1>1. RingInv /\ [Next]_vars => RingInv'
    BY StepRing
  <1> QED
    BY <1>1, InitRing, PTL DEF Spec

\* query and getLatest return whole records, in order and without repeats, when at most one
\* call of record meets the read and no clear does.
THEOREM InOrder == ASSUME OneRecorder PROVE Spec => []ReadsInOrder
  <1>1. RingInv => ReadsInOrder
    BY DEF RingInv, View, ReadsInOrder
  <1> QED
    BY <1>1, RingInvariance, PTL

\* A getLatest that no record meets starts at the record published last.
THEOREM NewestFirst == ASSUME OneRecorder PROVE Spec => []LatestIsNewest
  <1>1. RingInv => LatestIsNewest
    BY DEF RingInv, Latest, LatestIsNewest
  <1> QED
    BY <1>1, RingInvariance, PTL

------------------------------------------------------------------------------
(* With one recorder the ring implements RecentRecords.                    *)

\* The d numbers up to n.
Numbers(n, d) == [i \in 1..d |-> n - d + i]

LEMMA NumbersAre ==
  ASSUME NEW n \in Nat, NEW d \in Nat
  PROVE  /\ Numbers(n, d) \in Seq(Int) /\ Len(Numbers(n, d)) = d
         /\ d = 0 => Numbers(n, d) = <<>>
         /\ d > 0 => Numbers(n, d) # <<>>
         /\ \A i \in 1..d : Numbers(n, d)[i] = n - d + i
  <1>1. /\ Numbers(n, d) \in Seq(Int) /\ Len(Numbers(n, d)) = d
        /\ \A i \in 1..d : Numbers(n, d)[i] = n - d + i
    BY DEF Numbers
  <1>2. d = 0 => Numbers(n, d) = <<>>
    BY <1>1
  <1>3. d > 0 => Numbers(n, d) # <<>>
    BY <1>1
  <1> QED
    BY <1>1, <1>2, <1>3

\* One number less at the front, one more at the end.
LEMMA NumbersMove ==
  ASSUME NEW n \in Nat, NEW d \in Nat
  PROVE  /\ d > 0 => Tail(Numbers(n, d)) = Numbers(n, d - 1)
         /\ Append(Numbers(n, d), n + 1) = Numbers(n + 1, d + 1)
  <1>1. /\ Numbers(n, d) \in Seq(Int) /\ Len(Numbers(n, d)) = d
        /\ d > 0 => Numbers(n, d) # <<>>
        /\ \A i \in 1..d : Numbers(n, d)[i] = n - d + i
    BY NumbersAre
  <1>2. ASSUME d > 0 PROVE Tail(Numbers(n, d)) = Numbers(n, d - 1)
    <2>1. d - 1 \in Nat
      BY <1>2
    <2>2. /\ Tail(Numbers(n, d)) \in Seq(Int) /\ Len(Tail(Numbers(n, d))) = d - 1
          /\ \A i \in 1..(d - 1) : Tail(Numbers(n, d))[i] = Numbers(n, d)[i + 1]
      BY <1>1, <1>2, HeadTailProperties
    <2>3. /\ Numbers(n, d - 1) \in Seq(Int) /\ Len(Numbers(n, d - 1)) = d - 1
          /\ \A i \in 1..(d - 1) : Numbers(n, d - 1)[i] = n - (d - 1) + i
      BY <2>1, NumbersAre
    <2>4. ASSUME NEW i \in 1..(d - 1) PROVE Tail(Numbers(n, d))[i] = Numbers(n, d - 1)[i]
      <3>1. i + 1 \in 1..d /\ n - d + (i + 1) = n - (d - 1) + i
        BY <2>1
      <3> QED
        BY <1>1, <2>2, <2>3, <3>1
    <2> QED
      BY <2>2, <2>3, <2>4, SeqEqual
  <1>3. Append(Numbers(n, d), n + 1) = Numbers(n + 1, d + 1)
    <2>1. n + 1 \in Nat /\ d + 1 \in Nat /\ n + 1 \in Int
      OBVIOUS
    <2>2. /\ Append(Numbers(n, d), n + 1) \in Seq(Int) /\ Len(Append(Numbers(n, d), n + 1)) = d + 1
          /\ \A i \in 1..d : Append(Numbers(n, d), n + 1)[i] = Numbers(n, d)[i]
          /\ Append(Numbers(n, d), n + 1)[d + 1] = n + 1
      BY <1>1
    <2>3. /\ Numbers(n + 1, d + 1) \in Seq(Int) /\ Len(Numbers(n + 1, d + 1)) = d + 1
          /\ \A i \in 1..(d + 1) : Numbers(n + 1, d + 1)[i] = n + 1 - (d + 1) + i
      BY <2>1, NumbersAre
    <2>4. ASSUME NEW i \in 1..(d + 1)
          PROVE  Append(Numbers(n, d), n + 1)[i] = Numbers(n + 1, d + 1)[i]
      <3>1. n + 1 - (d + 1) + i = n - d + i
        OBVIOUS
      <3>2. CASE i \in 1..d
        BY <1>1, <2>2, <2>3, <3>1, <3>2
      <3>3. CASE i = d + 1
        <4>1. n + 1 - (d + 1) + (d + 1) = n + 1
          OBVIOUS
        <4> QED
          BY <2>2, <2>3, <3>3, <4>1
      <3>4. i \in 1..d \/ i = d + 1
        OBVIOUS
      <3> QED
        BY <3>2, <3>3, <3>4
    <2> QED
      BY <2>2, <2>3, <2>4, SeqEqual
  <1> QED
    BY <1>2, <1>3

\* The slots from tail on are those before head, in the other order.
LEMMA Forwards ==
  ASSUME NEW i \in Indices, NEW j \in Indices, NEW k \in 1..Distance(i, j)
  PROVE  /\ Distance(i, j) - k \in 0..(Distance(i, j) - 1)
         /\ (i + k - 1) % Capacity = Before(j, Distance(i, j) - k)
  <1> DEFINE d == Distance(i, j)
             x == i + k - 1
  <1>1. Capacity \in Nat /\ Capacity >= 2 /\ d \in 0..(Capacity - 1)
    BY SOEAssumption, DistanceIs
  <1>2. d - k \in 0..(d - 1) /\ d - k \in 0..(Capacity - 1) /\ k \in Nat
    BY <1>1
  <1>3. Before(j, d - k) = IF d - k < j THEN j - 1 - (d - k) ELSE j + Capacity - 1 - (d - k)
    BY <1>2, BeforeIs
  <1>4. x \in 0..(2 * Capacity - 1)
    BY <1>1 DEF Indices
  <1>5. d = IF j >= i THEN j - i ELSE Capacity - i + j
    BY DEF Distance
  <1>6. x = i + k - 1
    OBVIOUS
  <1> HIDE DEF d, x
  <1>7. x % Capacity = IF x < Capacity THEN x ELSE x - Capacity
    BY <1>4, Wraps
  <1>8. x % Capacity = Before(j, d - k)
    BY <1>1, <1>2, <1>3, <1>5, <1>6, <1>7 DEF Indices
  <1>9. (i + k - 1) % Capacity = Before(j, d - k)
    BY <1>8 DEF x
  <1> QED
    BY <1>2, <1>9 DEF d

\* A ring whose slots hold ever older records before head shows their numbers in order.
LEMMA Unrolled ==
  ASSUME NEW i \in Indices, NEW j \in Indices, NEW S, NEW n \in Nat,
         \A k \in 0..(Distance(i, j) - 1) : S[Before(j, k)] = n - k
  PROVE  [k \in 1..Distance(i, j) |-> S[(i + k - 1) % Capacity]] = Numbers(n, Distance(i, j))
  <1>1. Distance(i, j) \in Nat
    BY DistanceIs
  <1>2. ASSUME NEW k \in 1..Distance(i, j)
        PROVE  S[(i + k - 1) % Capacity] = n - Distance(i, j) + k
    <2>1. /\ Distance(i, j) - k \in 0..(Distance(i, j) - 1)
          /\ (i + k - 1) % Capacity = Before(j, Distance(i, j) - k)
      BY Forwards
    <2>2. S[Before(j, Distance(i, j) - k)] = n - (Distance(i, j) - k)
      BY <2>1
    <2>3. n - (Distance(i, j) - k) = n - Distance(i, j) + k
      BY <1>1
    <2> QED
      BY <2>1, <2>2, <2>3
  <1> QED
    BY <1>2 DEF Numbers

\* What the ring keeps for a reader that comes now.
Kept == IF Clearing THEN <<>> ELSE Window

LEMMA KeptNow ==
  ASSUME RingInv
  PROVE  /\ Published \in Nat /\ Distance(tail, head) \in 0..(Capacity - 1)
         /\ ~Clearing => Kept = Numbers(Published, Distance(tail, head))
         /\ Clearing => Kept = <<>>
  <1>1. /\ RingHolds /\ head \in Indices /\ tail \in Indices /\ totalRecords \in Nat
    BY SOEAssumption DEF RingInv, TypeInv, TypeOK
  <1>2. Published \in Nat /\ Distance(tail, head) \in 0..(Capacity - 1)
    BY <1>1, Counting, DistanceIs DEF Published
  <1>3. ASSUME ~Clearing PROVE Kept = Numbers(Published, Distance(tail, head))
    <2>1. \A k \in 0..(Distance(tail, head) - 1) : slots[Before(head, k)] = Published - k
      BY <1>1, <1>3 DEF RingHolds
    <2> HIDE DEF Published
    <2>2. Window = Numbers(Published, Distance(tail, head))
      BY <1>1, <1>2, <2>1, Unrolled DEF Window
    <2> QED
      BY <1>3, <2>2 DEF Kept
  <1> QED
    BY <1>2, <1>3 DEF Kept

LEMMA KeptNext ==
  ASSUME RingInv'
  PROVE  /\ Published' \in Nat /\ Distance(tail', head') \in 0..(Capacity - 1)
         /\ ~Clearing' => Kept' = Numbers(Published', Distance(tail', head'))
         /\ Clearing' => Kept' = <<>>
  <1>1. /\ RingHolds' /\ head' \in Indices /\ tail' \in Indices /\ totalRecords' \in Nat
    BY SOEAssumption DEF RingInv, TypeInv, TypeOK
  <1>2. Published' \in Nat /\ Distance(tail', head') \in 0..(Capacity - 1)
    BY <1>1, Counting, DistanceIs DEF Published
  <1>3. ASSUME ~Clearing' PROVE Kept' = Numbers(Published', Distance(tail', head'))
    <2>1. \A k \in 0..(Distance(tail', head') - 1) : slots'[Before(head', k)] = Published' - k
      BY <1>1, <1>3 DEF RingHolds
    <2>2. Window' = Numbers(Published', Distance(tail', head'))
      BY <1>1, <1>2, <2>1, Unrolled DEF Window
    <2> QED
      BY <1>3, <2>2 DEF Kept
  <1> QED
    BY <1>2, <1>3 DEF Kept

LEMMA InitRefines == Init => Newest!Init
  <1> SUFFICES ASSUME Init PROVE Kept = <<>> /\ Published = 0
    BY DEF Newest!Init, Kept, Published
  <1>1. RingInv
    BY InitRing
  <1>2. /\ head = 0 /\ tail = 0 /\ 0 \in Indices /\ totalRecords = 0
        /\ \A w \in Recorders : pc[w] = "idle"
    BY SOEAssumption DEF Init, Indices, Threads
  <1>3. {w \in Recorders : pc[w] = "count"} = {} /\ ~Clearing
    BY <1>2 DEF Clearing
  <1>4. Published = 0
    BY <1>2, <1>3, FS_EmptySet DEF Published
  <1>5. Distance(tail, head) = 0
    BY <1>2, DistanceIs
  <1>6. Kept = Numbers(0, 0)
    BY <1>1, <1>3, <1>4, <1>5, KeptNow
  <1> QED
    BY <1>4, <1>6, NumbersAre

\* Giving way drops the oldest, publishing adds the newest, and the first half of clear
\* empties the recorder: no other step of the recorder changes what it keeps.
LEMMA RecorderRefines ==
  ASSUME RingInv, RingInv', OneRecorder, NEW w \in Recorders, Record(w) \/ ClearHead(w) \/ ClearTail(w)
  PROVE  \/ Newest!Next
         \/ Kept' = Kept /\ Published' = Published
  <1> DEFINE d == Distance(tail, head)
             n == Published
  <1>1. /\ RecorderAt(w) /\ w \in Threads /\ pc \in [Threads -> Labels]
        /\ head \in Indices /\ tail \in Indices /\ h \in [Threads -> Indices]
        /\ totalRecords \in Nat /\ Capacity \in Nat /\ Capacity >= 2
    BY SOEAssumption DEF RingInv, TypeInv, TypeOK, LocalTypes, Threads
  <1>2. /\ Clearing <=> pc[w] = "clearTail"
        /\ Clearing' <=> pc'[w] = "clearTail"
        /\ Published = totalRecords + (IF pc[w] = "count" THEN 1 ELSE 0)
        /\ Published' = totalRecords' + (IF pc'[w] = "count" THEN 1 ELSE 0)
    BY Alone
  <1>3. /\ n \in Nat /\ d \in 0..(Capacity - 1)
        /\ ~Clearing => Kept = Numbers(n, d)
        /\ Clearing => Kept = <<>>
    BY KeptNow
  <1>4. /\ Published' \in Nat /\ Distance(tail', head') \in 0..(Capacity - 1)
        /\ ~Clearing' => Kept' = Numbers(Published', Distance(tail', head'))
        /\ Clearing' => Kept' = <<>>
    BY KeptNext
  <1>5. ASSUME NEW from, NEW to, Goto(w, from, to)
        PROVE  pc[w] = from /\ pc'[w] = to
    BY <1>1, <1>5 DEF Goto
  <1>6. CASE RecordDrop(w)
    <2>1. pc[w] = "drop" /\ pc'[w] = "dropped"
      BY <1>5, <1>6 DEF RecordDrop
    <2>2. UNCHANGED <<head, totalRecords>> /\ tail = Following(head) /\ tail' = Following(tail)
      BY <1>1, <1>6, <2>1 DEF RecordDrop, counts, RecorderAt
    <2>3. Distance(tail', head') = d - 1 /\ d = Capacity - 1 /\ Published' = n
      BY <1>1, <1>2, <2>1, <2>2, DistanceIs, FollowingIs
    <2> HIDE DEF d, n
    <2>4. Kept = Numbers(n, d) /\ Kept' = Numbers(n, d - 1) /\ d > 0 /\ d \in Nat
      BY <1>1, <1>2, <1>3, <1>4, <2>1, <2>3
    <2>5. Kept' = Tail(Kept) /\ Len(Kept) = Capacity - 1
      BY <1>3, <2>3, <2>4, NumbersAre, NumbersMove
    <2>6. Newest!Drop
      BY <2>3, <2>5 DEF Newest!Drop, Kept, Published, n
    <2> QED
      BY <2>6 DEF Newest!Next
  <1>7. CASE RecordPublish(w)
    <2>1. pc[w] = "publish" /\ pc'[w] = "count"
      BY <1>5, <1>7 DEF RecordPublish
    <2>2. UNCHANGED <<tail, totalRecords>> /\ head' = Following(head) /\ tail # Following(head)
      BY <1>1, <1>7, <2>1 DEF RecordPublish, counts, RecorderAt, Recording
    <2>3. Distance(tail', head') = d + 1 /\ Published' = n + 1
      BY <1>1, <1>2, <2>1, <2>2, DistanceIs
    <2> HIDE DEF d, n
    <2>4. Kept = Numbers(n, d) /\ Kept' = Numbers(n + 1, d + 1) /\ d \in Nat /\ d < Capacity - 1
      BY <1>1, <1>2, <1>3, <1>4, <2>1, <2>3
    <2>5. Kept' = Append(Kept, n + 1) /\ Len(Kept) < Capacity - 1
      BY <1>3, <2>4, NumbersAre, NumbersMove
    <2>6. Newest!Add
      BY <2>3, <2>5 DEF Newest!Add, Kept, Published, n
    <2> QED
      BY <2>6 DEF Newest!Next
  <1>8. CASE ClearHead(w)
    <2>1. pc[w] = "idle" /\ pc'[w] = "clearTail" /\ totalRecords' = totalRecords
      BY <1>5, <1>8 DEF ClearHead, counts
    <2>2. Kept' = <<>> /\ Published' = Published
      BY <1>1, <1>2, <1>4, <2>1
    <2>3. Newest!Clear
      BY <2>2 DEF Newest!Clear, Kept, Published
    <2> QED
      BY <2>3 DEF Newest!Next
  <1>9. CASE ClearTail(w)
    <2>1. pc[w] = "clearTail" /\ pc'[w] = "idle" /\ totalRecords' = totalRecords
      BY <1>5, <1>9 DEF ClearTail, counts
    <2>2. tail' = 0 /\ head' = 0 /\ 0 \in Indices
      BY <1>1, <1>9, <2>1 DEF ClearTail, RecorderAt, Indices
    <2>3. Distance(tail', head') = 0 /\ Published' = Published
      BY <1>1, <1>2, <2>1, <2>2, DistanceIs
    <2>4. Kept = <<>> /\ Kept' = Numbers(Published', 0)
      BY <1>2, <1>3, <1>4, <2>1, <2>3
    <2>5. Numbers(Published', 0) = <<>>
      BY <1>4, NumbersAre
    <2> QED
      BY <2>3, <2>4, <2>5
  <1>10. CASE RecordCount(w)
    <2>1. pc[w] = "count" /\ pc'[w] = "idle"
      BY <1>5, <1>10 DEF RecordCount
    <2>2. UNCHANGED <<head, tail>> /\ Published' = Published
      BY <1>1, <1>2, <1>10, <2>1 DEF RecordCount, ring
    <2> QED
      BY <1>2, <1>3, <1>4, <2>1, <2>2
  <1>11. CASE RecordHead(w) \/ RecordTail(w) \/ RecordDropped(w) \/ RecordStore(w) \/ RecordStored(w)
    <2>1. pc[w] \notin {"clearTail", "count"} /\ pc'[w] \notin {"clearTail", "count"}
      <3>1. ASSUME RecordHead(w) PROVE pc[w] = "idle" /\ pc'[w] = "tail"
        BY <1>5, <3>1 DEF RecordHead
      <3>2. ASSUME RecordTail(w) PROVE pc[w] = "tail" /\ pc'[w] \in {"drop", "store"}
        BY <1>5, <3>2 DEF RecordTail
      <3>3. ASSUME RecordDropped(w) PROVE pc[w] = "dropped" /\ pc'[w] = "store"
        BY <1>5, <3>3 DEF RecordDropped
      <3>4. ASSUME RecordStore(w) PROVE pc[w] = "store" /\ pc'[w] = "stored"
        BY <1>5, <3>4 DEF RecordStore
      <3>5. ASSUME RecordStored(w) PROVE pc[w] = "stored" /\ pc'[w] = "publish"
        BY <1>5, <3>5 DEF RecordStored
      <3> QED
        BY <1>11, <3>1, <3>2, <3>3, <3>4, <3>5
    <2>2. UNCHANGED <<head, tail, totalRecords>>
      BY <1>11 DEF RecordHead, RecordTail, RecordDropped, RecordStore, RecordStored, ring, counts
    <2>3. Published' = Published /\ ~Clearing /\ ~Clearing'
      BY <1>2, <2>1, <2>2
    <2> QED
      BY <1>3, <1>4, <2>2, <2>3
  <1> QED
    BY <1>6, <1>7, <1>8, <1>9, <1>10, <1>11 DEF Record

LEMMA StepRefines ==
  ASSUME OneRecorder PROVE RingInv /\ RingInv' /\ [Next]_vars => [Newest!Next]_Newest!vars
  <1> SUFFICES ASSUME RingInv, RingInv', [Next]_vars
      PROVE  Newest!Next \/ (Kept' = Kept /\ Published' = Published)
    BY DEF Newest!vars, Kept, Published
  <1>1. ASSUME UNCHANGED <<head, tail, slots, totalRecords>>, \A w \in Recorders : pc'[w] = pc[w]
        PROVE  Kept' = Kept /\ Published' = Published
    <2>1. Published' = Published /\ (Clearing' <=> Clearing)
      BY <1>1 DEF Published, Clearing
    <2> QED
      BY <1>1, <2>1, KeptNow, KeptNext
  <1>2. ASSUME NEW r \in Readers, Read(r) PROVE Kept' = Kept /\ Published' = Published
    <2>1. /\ UNCHANGED <<head, tail, slots, totalRecords>>
          /\ \A w \in Recorders : pc'[w] = pc[w]
      BY <1>2, ReaderLeaves DEF RingInv
    <2> QED
      BY <1>1, <2>1
  <1>3. CASE UNCHANGED vars
    BY <1>1, <1>3 DEF vars, ring, counts
  <1> QED
    BY <1>2, <1>3, RecorderRefines DEF Next

\* With one recorder the window between tail and head holds the newest records, none
\* missing among them, whatever the readers do: the ring implements RecentRecords.
THEOREM NewestKept == ASSUME OneRecorder PROVE Spec => KeepsNewest
  <1>1. RingInv /\ RingInv' /\ [Next]_vars => [Newest!Next]_Newest!vars
    BY StepRefines
  <1> QED
    BY <1>1, InitRefines, RingInvariance, PTL DEF Spec, KeepsNewest, Newest!Spec

=============================================================================
