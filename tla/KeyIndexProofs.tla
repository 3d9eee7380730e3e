---------------------------- MODULE KeyIndexProofs ----------------------------
(***************************************************************************)
(* Theorems about KeyIndex, for any keys, types, counts of points, hash    *)
(* function and chains, whatever snapshots are loaded in between.          *)
(*                                                                         *)
(* Points are handed out by the counters in the header, which nothing but  *)
(* registerKey and create changes, so they are distinct (IInv).  What      *)
(* findKey answers rests on the tables (DirInv): each chain goes from an   *)
(* entry to the last older one of its bucket, so that a walk meets every   *)
(* entry of its key's bucket, and the entry that the process calls write   *)
(* into can only be the head of one.                                       *)
(*                                                                         *)
(* The walk and the sum of the points are recursive functions.  What is    *)
(* said of them is proved by an induction over a set of numbers (Counting).*)
(***************************************************************************)
EXTENDS KeyIndex, FiniteSetTheorems, TLAPS

CountersBounded ==
  /\ typeIndex \in [Types -> Nat]
  /\ \A ty \in Types : typeIndex[ty] <= Count[ty]

\* What was given lies below the counter of its type.
Places == {Place(ty, i) : ty \in Types, i \in Nat}
GivenBelow ==
  /\ given \in [Keys -> Places \cup {Nowhere}]
  /\ \A k \in Keys : given[k].ok => given[k].index < typeIndex[given[k].type]

GivenApart == \A j, k \in Keys : given[j].ok /\ j # k => given[j] # given[k]

IInv == CountersBounded /\ GivenBelow /\ GivenApart

------------------------------------------------------------------------------
\* create hands out nothing.
LEMMA FreshIInv ==
  ASSUME typeIndex' = [ty \in Types |-> 0], given' = [k \in Keys |-> Nowhere]
  PROVE  IInv'
  <1>1. CountersBounded'
    BY KeyIndexAssumption DEF CountersBounded
  <1>2. GivenBelow' /\ GivenApart'
    BY DEF GivenBelow, GivenApart, Nowhere
  <1> QED
    BY <1>1, <1>2 DEF IInv

LEMMA InitIInv == Init => IInv
  <1> SUFFICES ASSUME Init PROVE IInv
    OBVIOUS
  <1>1. CountersBounded
    BY KeyIndexAssumption DEF CountersBounded, Init
  <1>2. GivenBelow /\ GivenApart
    BY DEF GivenBelow, GivenApart, Nowhere, Init
  <1> QED
    BY <1>1, <1>2 DEF IInv

\* registerKey gives the point at the counter, which is above all that were given.
LEMMA RegisterKeeps ==
  ASSUME IInv, NEW k \in Keys, NEW ty \in Types, RegisterKey(k, ty)
  PROVE  IInv'
  <1>1. /\ typeIndex' = [typeIndex EXCEPT ![ty] = @ + 1]
        /\ given' = [given EXCEPT ![k] = Place(ty, typeIndex[ty])]
        /\ typeIndex[ty] < Count[ty]
    BY DEF RegisterKey, Taken, HasRoom
  <1>2. /\ typeIndex \in [Types -> Nat] /\ Count \in [Types -> Nat]
        /\ \A u \in Types : typeIndex[u] <= Count[u]
    BY KeyIndexAssumption DEF IInv, CountersBounded
  <1>3. Place(ty, typeIndex[ty]) \in Places /\ Place(ty, typeIndex[ty]).index = typeIndex[ty]
        /\ Place(ty, typeIndex[ty]).type = ty /\ Place(ty, typeIndex[ty]).ok
    <2>1. typeIndex[ty] \in Nat
      BY <1>2
    <2>2. Place(ty, typeIndex[ty]) \in Places
      BY <2>1 DEF Places
    <2> QED
      BY <2>2 DEF Place
  <1>4. CountersBounded'
    BY <1>1, <1>2 DEF CountersBounded
  <1>5. \A u \in Types : typeIndex[u] <= typeIndex'[u] /\ typeIndex[ty] < typeIndex'[ty]
    BY <1>1, <1>2
  <1>6. \A j \in Keys : given[j].ok =>
          /\ given[j].type \in Types /\ given[j].index \in Nat
          /\ given[j].index < typeIndex[given[j].type]
    BY DEF IInv, GivenBelow, Places, Place, Nowhere
  <1>7. given \in [Keys -> Places \cup {Nowhere}]
    BY DEF IInv, GivenBelow
  <1>8. GivenBelow'
    <2>1. given' \in [Keys -> Places \cup {Nowhere}]
      BY <1>1, <1>3, <1>7
    <2>2. ASSUME NEW j \in Keys, given'[j].ok PROVE given'[j].index < typeIndex'[given'[j].type]
      <3>1. CASE j = k
        BY <1>1, <1>2, <1>3, <1>5, <1>7, <3>1
      <3>2. CASE j # k
        <4>1. given'[j] = given[j]
          BY <1>1, <1>7, <3>2
        <4> DEFINE u == given[j].type
        <4>2. u \in Types /\ given[j].index \in Nat /\ given[j].index < typeIndex[u]
          BY <1>6, <2>2, <4>1
        <4>3. typeIndex[u] <= typeIndex'[u] /\ typeIndex[u] \in Nat /\ typeIndex'[u] \in Nat
          BY <1>2, <1>4, <1>5, <4>2 DEF CountersBounded
        <4> QED
          BY <4>1, <4>2, <4>3
      <3> QED
        BY <3>1, <3>2
    <2> QED
      BY <2>1, <2>2 DEF GivenBelow
  <1>9. \A j \in Keys : given[j] # Place(ty, typeIndex[ty])
    <2> SUFFICES ASSUME NEW j \in Keys, given[j] = Place(ty, typeIndex[ty]) PROVE FALSE
      OBVIOUS
    <2> QED
      BY <1>2, <1>3, <1>6
  <1>10. GivenApart'
    BY <1>1, <1>7, <1>9 DEF IInv, GivenApart
  <1> QED
    BY <1>4, <1>8, <1>10 DEF IInv

LEMMA UntouchedKeeps == ASSUME IInv, UNCHANGED <<typeIndex, given>> PROVE IInv'
  BY DEF IInv, CountersBounded, GivenBelow, GivenApart

LEMMA StepIInv == IInv /\ [Next]_vars => IInv'
  <1> SUFFICES ASSUME IInv, [Next]_vars PROVE IInv'
    OBVIOUS
  <1>1. ASSUME NEW k \in Keys, NEW ty \in Types, RegisterKey(k, ty) PROVE IInv'
    BY <1>1, RegisterKeeps
  <1>2. CASE Create
    BY <1>2, FreshIInv DEF Create
  <1>3. ASSUME NEW now \in Stamps, RegisterProcess(now) \/ UpdateHeartbeat(now) PROVE IInv'
    BY <1>3, UntouchedKeeps DEF RegisterProcess, UpdateHeartbeat, Shared
  <1>4. CASE ReleaseProcess \/ SaveSnapshot \/ LoadSnapshot \/ UNCHANGED vars
    BY <1>4, UntouchedKeeps
       DEF ReleaseProcess, Shared, SaveSnapshot, LoadSnapshot, vars, directory
  <1> QED
    BY <1>1, <1>2, <1>3, <1>4 DEF Next

------------------------------------------------------------------------------
\* No point is given to two keys, and none that there is not, in any session and
\* after any restore.
THEOREM PointsAreDistinct == Spec => []PointsDistinct
  <1>1. IInv => PointsDistinct
    <2> SUFFICES ASSUME IInv, NEW j \in Keys, NEW k \in Keys, given[j].ok
                 PROVE  /\ given[j].index < Count[given[j].type]
                        /\ j # k => given[j] # given[k]
      BY DEF PointsDistinct
    <2> DEFINE u == given[j].type
    <2>1. u \in Types /\ given[j].index \in Nat /\ given[j].index < typeIndex[u]
      BY DEF IInv, GivenBelow, Places, Place, Nowhere
    <2>2. typeIndex[u] \in Nat /\ Count[u] \in Nat /\ typeIndex[u] <= Count[u]
      BY <2>1, KeyIndexAssumption DEF IInv, CountersBounded
    <2>3. given[j].index < Count[u]
      BY <2>1, <2>2
    <2> QED
      BY <2>3 DEF IInv, GivenApart
  <1> QED
    BY <1>1, InitIInv, StepIInv, PTL DEF Spec

------------------------------------------------------------------------------
(* Numbers and sums.                                                       *)

\* A set that holds 0 and with every number the next holds every number.
LEMMA Counting ==
  ASSUME NEW S, 0 \in S, \A n \in Nat : n \in S => n + 1 \in S
  PROVE  \A n \in Nat : n \in S
  <1> DEFINE Bad == Nat \ S
  <1> SUFFICES ASSUME Bad # {} PROVE FALSE
    OBVIOUS
  <1>1. PICK m \in Bad : \A n \in Bad : ~ (<<n, m>> \in OpToRel(<, Nat))
    <2>1. Bad \subseteq Nat
      OBVIOUS
    <2> HIDE DEF Bad
    <2> QED
      BY <2>1, WFMin, NatLessThanWellFounded
  <1>2. m # 0 /\ m \in Nat /\ m - 1 \in Nat /\ m - 1 < m /\ m = (m - 1) + 1
    OBVIOUS
  <1>3. <<m - 1, m>> \in OpToRel(<, Nat)
    BY <1>2 DEF OpToRel
  <1>4. m - 1 \in S
    BY <1>1, <1>2, <1>3
  <1> QED
    BY <1>2, <1>4

First(s) == CHOOSE x \in s : TRUE
Small(n) == {s \in SUBSET Types : Cardinality(s) <= n}
SumsTo(f, g, D) == f = [s \in D |-> IF s = {} THEN 0 ELSE g[First(s)] + f[s \ {First(s)}]]
Sum(g) == MapThenSumSet(LAMBDA ty : g[ty], Types)

LEMMA Parts ==
  ASSUME NEW s \in SUBSET Types, s # {}
  PROVE  /\ IsFiniteSet(s) /\ Cardinality(s) \in Nat /\ Cardinality(s) > 0
         /\ First(s) \in s /\ First(s) \in Types
         /\ s \ {First(s)} \in SUBSET Types
         /\ Cardinality(s \ {First(s)}) = Cardinality(s) - 1
  <1>1. IsFiniteSet(s)
    BY FS_Subset, KeyIndexAssumption
  <1>2. Cardinality(s) \in Nat /\ Cardinality(s) # 0
    BY <1>1, FS_CardinalityType, FS_EmptySet
  <1>3. First(s) \in s
    BY DEF First
  <1>4. Cardinality(s \ {First(s)}) = Cardinality(s) - 1
    BY <1>1, <1>3, FS_RemoveElement
  <1> QED
    BY <1>1, <1>2, <1>3, <1>4

LEMMA SmallParts ==
  ASSUME NEW n \in Nat, NEW s \in Small(n), s # {}
  PROVE  /\ n - 1 \in Nat /\ s \in SUBSET Types /\ First(s) \in s
         /\ s \ {First(s)} \in Small(n - 1) /\ s \ {First(s)} \in Small(n)
  <1> DEFINE r == s \ {First(s)}
  <1>1. s \in SUBSET Types /\ Cardinality(s) <= n
    BY DEF Small
  <1>2. /\ First(s) \in s /\ r \in SUBSET Types
        /\ Cardinality(s) \in Nat /\ Cardinality(s) > 0
        /\ Cardinality(r) = Cardinality(s) - 1
    BY <1>1, Parts
  <1>3. n - 1 \in Nat /\ Cardinality(r) <= n - 1 /\ Cardinality(r) <= n
    BY <1>1, <1>2
  <1> QED
    BY <1>1, <1>2, <1>3 DEF Small

LEMMA NoneSmall == Small(0) = {{}}
  <1>1. ASSUME NEW s \in Small(0) PROVE s = {}
    <2> SUFFICES ASSUME s # {} PROVE FALSE
      OBVIOUS
    <2>1. 0 - 1 \in Nat
      BY SmallParts
    <2> QED
      BY <2>1
  <1>2. {} \in Small(0)
    BY FS_EmptySet DEF Small
  <1> QED
    BY <1>1, <1>2

\* The function the fold is defined with exists.
LEMMA SumExists == ASSUME NEW g PROVE \E f : SumsTo(f, g, SUBSET Types)
  <1> DEFINE S == {n \in Nat : \E f : SumsTo(f, g, Small(n))}
  <1>0. Cardinality({}) = 0
    BY FS_EmptySet
  <1>1. 0 \in S
    <2> DEFINE f == [s \in Small(0) |-> 0]
    <2>2. SumsTo(f, g, Small(0))
      BY NoneSmall DEF SumsTo
    <2> QED
      BY <2>2
  <1>2. ASSUME NEW n \in Nat, n \in S PROVE n + 1 \in S
    <2>1. PICK f : SumsTo(f, g, Small(n))
      BY <1>2
    <2> DEFINE e == [s \in Small(n + 1) |-> IF s = {} THEN 0 ELSE g[First(s)] + f[s \ {First(s)}]]
    <2>2. ASSUME NEW s \in Small(n + 1), s # {}
          PROVE  s \ {First(s)} \in Small(n) /\ s \ {First(s)} \in Small(n + 1)
      <3>1. s \ {First(s)} \in Small((n + 1) - 1) /\ s \ {First(s)} \in Small(n + 1)
        BY <2>2, SmallParts
      <3> QED
        BY <3>1
    <2>3. \A u \in Small(n) : f[u] = IF u = {} THEN 0 ELSE g[First(u)] + f[u \ {First(u)}]
      BY <2>1, Zenon DEF SumsTo
    <2>4. \A u \in Small(n) : u \in Small(n + 1) => e[u] = f[u]
      BY <2>3
    <2>5. \A s \in Small(n + 1) : s # {} => e[s \ {First(s)}] = f[s \ {First(s)}]
      BY <2>2, <2>4
    <2>6. e = [s \in Small(n + 1) |-> IF s = {} THEN 0 ELSE g[First(s)] + e[s \ {First(s)}]]
      BY <2>5
    <2>7. SumsTo(e, g, Small(n + 1))
      BY <2>6 DEF SumsTo
    <2> QED
      BY <2>7
  <1>3. Cardinality(Types) \in Nat
    BY KeyIndexAssumption, FS_CardinalityType
  <1>4. Cardinality(Types) \in S
    <2> HIDE DEF S
    <2> QED
      BY <1>1, <1>2, <1>3, Counting
  <1>5. Small(Cardinality(Types)) = SUBSET Types
    <2>1. ASSUME NEW s \in SUBSET Types PROVE Cardinality(s) <= Cardinality(Types)
      BY FS_Subset, KeyIndexAssumption
    <2> QED
      BY <2>1 DEF Small
  <1> QED
    BY <1>4, <1>5

LEMMA SumIs == ASSUME NEW g PROVE \E f : SumsTo(f, g, SUBSET Types) /\ Sum(g) = f[Types]
  <1> DEFINE f == CHOOSE f : SumsTo(f, g, SUBSET Types)
  <1>1. Sum(g) = f[Types]
    BY Zenon DEF Sum, MapThenSumSet, MapThenFoldSet, SumsTo, First
  <1>2. SumsTo(f, g, SUBSET Types)
    BY SumExists, Zenon
  <1> HIDE DEF f
  <1> QED
    BY <1>1, <1>2

LEMMA TotalIsSum == Total = Sum(Count)
  BY Zenon DEF Total, Sum

\* Smaller numbers have a smaller sum, and one more makes one more.
LEMMA SumFacts ==
  ASSUME NEW g \in [Types -> Nat], NEW e \in [Types -> Nat]
  PROVE  /\ Sum(g) \in Nat
         /\ (\A ty \in Types : g[ty] <= e[ty]) => Sum(g) <= Sum(e)
         /\ \A ty \in Types : e = [g EXCEPT ![ty] = @ + 1] => Sum(e) = Sum(g) + 1
  <1>1. PICK f : SumsTo(f, g, SUBSET Types) /\ Sum(g) = f[Types]
    BY SumIs
  <1>2. PICK d : SumsTo(d, e, SUBSET Types) /\ Sum(e) = d[Types]
    BY SumIs
  <1>3. /\ \A s \in SUBSET Types : f[s] = IF s = {} THEN 0 ELSE g[First(s)] + f[s \ {First(s)}]
        /\ \A s \in SUBSET Types : d[s] = IF s = {} THEN 0 ELSE e[First(s)] + d[s \ {First(s)}]
    BY <1>1, <1>2, Zenon DEF SumsTo
  <1> DEFINE Good(s) ==
        /\ f[s] \in Nat /\ d[s] \in Nat
        /\ (\A ty \in Types : g[ty] <= e[ty]) => f[s] <= d[s]
        /\ \A ty \in Types : e = [g EXCEPT ![ty] = @ + 1] =>
              d[s] = IF ty \in s THEN f[s] + 1 ELSE f[s]
  <1> DEFINE S == {n \in Nat : \A s \in Small(n) : Good(s)}
  <1>4. Good({})
    <2>1. f[{}] = 0 /\ d[{}] = 0
      BY <1>3
    <2> QED
      BY <2>1
  <1>5. 0 \in S
    BY <1>4, NoneSmall
  <1>6. ASSUME NEW n \in Nat, n \in S PROVE n + 1 \in S
    <2> SUFFICES ASSUME NEW s \in Small(n + 1) PROVE Good(s)
      OBVIOUS
    <2> SUFFICES ASSUME s # {} PROVE Good(s)
      BY <1>4
    <2> DEFINE r == s \ {First(s)}
               x == First(s)
    <2>1. s \in SUBSET Types /\ x \in s /\ r \in Small((n + 1) - 1)
      BY SmallParts
    <2>2. x \in Types /\ r \in SUBSET Types /\ r \in Small(n)
      BY <2>1
    <2>3. Good(r)
      BY <1>6, <2>2
    <2>4. f[s] = g[x] + f[r] /\ d[s] = e[x] + d[r] /\ g[x] \in Nat /\ e[x] \in Nat
      BY <1>3, <2>1, <2>2
    <2>5. \A ty : ty \in s <=> (ty \in r \/ ty = x)
      BY <2>1
    <2>6. x \notin r
      OBVIOUS
    <2> HIDE DEF r, x
    <2>7. f[s] \in Nat /\ d[s] \in Nat /\ ((\A ty \in Types : g[ty] <= e[ty]) => f[s] <= d[s])
      BY <2>2, <2>3, <2>4
    <2>8. ASSUME NEW ty \in Types, e = [g EXCEPT ![ty] = @ + 1]
          PROVE  d[s] = IF ty \in s THEN f[s] + 1 ELSE f[s]
      <3>1. e[x] = IF ty = x THEN g[x] + 1 ELSE g[x]
        BY <2>2, <2>8
      <3>2. d[r] = IF ty \in r THEN f[r] + 1 ELSE f[r]
        BY <2>3, <2>8
      <3> QED
        BY <2>3, <2>4, <2>5, <2>6, <3>1, <3>2
    <2> QED
      BY <2>7, <2>8
  <1>7. Cardinality(Types) \in Nat /\ Types \in Small(Cardinality(Types))
    BY KeyIndexAssumption, FS_CardinalityType DEF Small
  <1>8. Good(Types)
    <2>1. Cardinality(Types) \in S
      <3> HIDE DEF S
      <3> QED
        BY <1>5, <1>6, <1>7, Counting
    <2> QED
      BY <1>7, <2>1
  <1> QED
    BY <1>1, <1>2, <1>8

LEMMA SumOfNone == Sum([ty \in Types |-> 0]) = 0
  <1> DEFINE g == [ty \in Types |-> 0]
  <1>1. PICK f : SumsTo(f, g, SUBSET Types) /\ Sum(g) = f[Types]
    BY SumIs
  <1>2. \A s \in SUBSET Types : f[s] = IF s = {} THEN 0 ELSE g[First(s)] + f[s \ {First(s)}]
    BY <1>1, Zenon DEF SumsTo
  <1> DEFINE S == {n \in Nat : \A s \in Small(n) : f[s] = 0}
  <1>3. f[{}] = 0
    BY <1>2
  <1>4. 0 \in S
    BY <1>3, NoneSmall
  <1>5. ASSUME NEW n \in Nat, n \in S PROVE n + 1 \in S
    <2> SUFFICES ASSUME NEW s \in Small(n + 1) PROVE f[s] = 0
      OBVIOUS
    <2> SUFFICES ASSUME s # {} PROVE f[s] = 0
      BY <1>3
    <2>1. s \in SUBSET Types /\ First(s) \in s /\ s \ {First(s)} \in Small((n + 1) - 1)
      BY SmallParts
    <2>2. g[First(s)] = 0 /\ f[s \ {First(s)}] = 0
      BY <1>5, <2>1
    <2> QED
      BY <1>2, <2>1, <2>2
  <1>6. Cardinality(Types) \in Nat /\ Types \in Small(Cardinality(Types))
    BY KeyIndexAssumption, FS_CardinalityType DEF Small
  <1>7. Cardinality(Types) \in S
    <2> HIDE DEF S
    <2> QED
      BY <1>4, <1>5, <1>6, Counting
  <1> QED
    BY <1>1, <1>6, <1>7

------------------------------------------------------------------------------
(* The tables.                                                             *)

Shaped(hash, index, g) == DOMAIN hash = Buckets /\ DOMAIN index = 1..Total /\ DOMAIN g = Keys

GivenKeys(g) == {k \in Keys : g[k].ok}
GivenCount(g) == Cardinality(GivenKeys(g))
PlaceOf(e) == Place(e.type, e.index)

\* The entries after `from' and before `to' that are in bucket b.
Behind(index, b, from, to) ==
  {i \in 1..Total : from < i /\ i < to /\ index[i].key \in Keys /\ Hash[index[i].key] = b}

\* Chain b goes on from an entry to n, the last of its entries between `from' and
\* `to', if there is one.
GoesTo(index, b, from, to, n) ==
  \A i \in Behind(index, b, from, to) : n \in Behind(index, b, from, to) /\ i <= n

\* The last entry a chain can have that the process calls do not write into.
Above(count) == IF count < Total THEN count + 1 ELSE Total

\* The entries after `from', of `count' in use, were registered since the tables
\* were made or brought back: each has its place, stands there once, and is on the
\* chain of its key, in front of what was there before.
Chained(hash, index, g, from, count) ==
  /\ \A i \in 1..count : from < i /\ i < Total =>
       /\ index[i].key \in Keys /\ PlaceOf(index[i]) = g[index[i].key]
       /\ GoesTo(index, Hash[index[i].key], from, i, index[i].next)
       /\ \A j \in 1..count :
            from < j /\ j < Total /\ index[i].key = index[j].key => i = j
  /\ \A b \in Buckets : hash[b] # Total \/ count < Total =>
       GoesTo(index, b, from, Above(count), hash[b])

\* The tables hold the places in g and nothing else: every entry in use is on the
\* chain of its key, and every key with a place has an entry.
Whole(hash, index, g, count) ==
  /\ count \in 0..Total
  /\ \A b \in Buckets : hash[b] \in 0..count
  /\ \A b \in Buckets : hash[b] # Total /\ hash[b] # 0 =>
       hash[b] \in Behind(index, b, 0, count + 1)
  /\ Chained(hash, index, g, 0, count)
  /\ \A i \in 1..Total : count < i /\ i < Total => index[i].key \notin Keys
  /\ \A i \in 1..count : i < Total =>
       index[i].next = 0 \/ index[i].next \in Behind(index, Hash[index[i].key], 0, i)
  /\ \A k \in Keys : g[k].ok /\ (hash[Hash[k]] # Total \/ count < Total) =>
       \E i \in 1..count : i < Total /\ index[i].key = k

\* The keys among the entries after `from' up to `to' are at the places in g.
AtPlaces(index, g, from, to) ==
  \A i \in 1..Total : from < i /\ i <= to /\ i < Total /\ index[i].key \in Keys
     => PlaceOf(index[i]) = g[index[i].key]

Typed ==
  /\ Shaped(hashTable, indexTable, given)
  /\ Shaped(snapshot.hash, snapshot.index, snapshot.given)
  /\ foreign \in BOOLEAN /\ snapshot.foreign \in BOOLEAN
  /\ IsFiniteSet(GivenKeys(given))

\* As many entries are in use as points were handed out, so there is a free one
\* whenever there is a point left.
Counted == indexCount = Sum(typeIndex) /\ indexCount \in 0..Total

OwnTables ==
  ~foreign => indexCount = GivenCount(given) /\ Whole(hashTable, indexTable, given, indexCount)

SavedTables ==
  ~snapshot.foreign =>
    Whole(snapshot.hash, snapshot.index, snapshot.given, GivenCount(snapshot.given))

\* The table as the snapshot has it, and the entries put in front since.
Grown ==
  ~snapshot.foreign =>
    \E from \in 0..indexCount :
      /\ Chained(hashTable, indexTable, given, from, indexCount)
      /\ AtPlaces(indexTable, snapshot.given, 0, from)
      /\ AtPlaces(indexTable, snapshot.given, indexCount, Total)

DirInv == Typed /\ Counted /\ OwnTables /\ SavedTables /\ Grown

------------------------------------------------------------------------------
(* The walk along a chain.                                                 *)

Onward(k, limit, i) ==
  IF i \notin 1..limit \/ indexTable[i].key = k THEN i ELSE indexTable[i].next
IsWalk(f, k, limit, n) ==
  f = [m \in 0..n |-> IF m = 0 THEN hashTable[Hash[k]] ELSE Onward(k, limit, f[m - 1])]

LEMMA WalkExists ==
  ASSUME NEW k, NEW limit
  PROVE  \A n \in Nat : \E f : IsWalk(f, k, limit, n)
  <1> DEFINE S == {n \in Nat : \E f : IsWalk(f, k, limit, n)}
             start == hashTable[Hash[k]]
  <1>1. 0 \in S
    <2> DEFINE f == [m \in 0..0 |-> start]
    <2>1. IsWalk(f, k, limit, 0)
      <3>1. f = [m \in 0..0 |-> IF m = 0 THEN start ELSE Onward(k, limit, f[m - 1])]
        OBVIOUS
      <3> QED
        BY <3>1, Zenon DEF IsWalk
    <2> QED
      BY <2>1
  <1>2. ASSUME NEW n \in Nat, n \in S PROVE n + 1 \in S
    <2>1. PICK f : IsWalk(f, k, limit, n)
      BY <1>2
    <2> DEFINE e == [m \in 0..(n + 1) |-> IF m = 0 THEN start ELSE Onward(k, limit, f[m - 1])]
    <2>2. \A m \in 0..n : f[m] = IF m = 0 THEN start ELSE Onward(k, limit, f[m - 1])
      BY <2>1, Zenon DEF IsWalk
    <2>3. \A m \in 0..n : e[m] = f[m]
      BY <2>2
    <2>4. ASSUME NEW m \in 0..(n + 1), m # 0 PROVE e[m - 1] = f[m - 1]
      <3>1. m - 1 \in 0..n
        BY <2>4
      <3> HIDE DEF e
      <3> QED
        BY <2>3, <3>1
    <2>5. e = [m \in 0..(n + 1) |-> IF m = 0 THEN start ELSE Onward(k, limit, e[m - 1])]
      BY <2>4
    <2>6. IsWalk(e, k, limit, n + 1)
      BY <2>5, Zenon DEF IsWalk
    <2> QED
      BY <2>6
  <1> HIDE DEF S
  <1>3. \A n \in Nat : n \in S
    BY <1>1, <1>2, Counting
  <1> QED
    BY <1>3 DEF S

\* The links that a walk takes, one after the other.
LEMMA WalkIs ==
  ASSUME NEW k, NEW limit, Total \in Nat
  PROVE  \E f : /\ f[0] = hashTable[Hash[k]]
                /\ \A n \in 0..(Total - 1) : f[n + 1] = Onward(k, limit, f[n])
                /\ Walk(k, limit) = f[Total]
  <1> DEFINE f == CHOOSE f : IsWalk(f, k, limit, Total)
  <1>1. Walk(k, limit) = f[Total]
    BY Zenon DEF Walk, IsWalk, Onward
  <1>2. IsWalk(f, k, limit, Total)
    BY WalkExists, Zenon
  <1> HIDE DEF f
  <1>3. \A m \in 0..Total : f[m] = IF m = 0 THEN hashTable[Hash[k]] ELSE Onward(k, limit, f[m - 1])
    BY <1>2, Zenon DEF IsWalk
  <1>4. f[0] = hashTable[Hash[k]]
    BY <1>3
  <1>5. ASSUME NEW n \in 0..(Total - 1) PROVE f[n + 1] = Onward(k, limit, f[n])
    <2>1. n + 1 \in 0..Total /\ n + 1 # 0 /\ (n + 1) - 1 = n
      OBVIOUS
    <2> QED
      BY <1>3, <2>1
  <1> QED
    BY <1>1, <1>4, <1>5

\* A walk finds the entry of its key, if it was registered since the tables were
\* made or brought back.
LEMMA WalkFinds ==
  ASSUME NEW from \in Nat, NEW count \in Nat, NEW limit \in Nat, Total \in Nat,
         count <= limit, limit <= Total,
         Chained(hashTable, indexTable, given, from, count),
         NEW k \in Keys, Hash[k] \in Buckets,
         hashTable[Hash[k]] # Total \/ count < Total,
         NEW i \in 1..count, from < i, i < Total, indexTable[i].key = k
  PROVE  Walk(k, limit) = i
  <1> DEFINE b == Hash[k]
             On(j, to) == j \in Behind(indexTable, b, from, to)
             At(j, n) == On(j, Above(count)) /\ i <= j /\ (j = i \/ j + n < Above(count))
  <1>1. PICK f : /\ f[0] = hashTable[b]
                 /\ \A n \in 0..(Total - 1) : f[n + 1] = Onward(k, limit, f[n])
                 /\ Walk(k, limit) = f[Total]
    BY WalkIs
  <1> DEFINE S == {n \in Nat : n <= Total => At(f[n], n)}
  <1>2. /\ Above(count) \in Nat /\ Above(count) <= Total
        /\ Above(count) <= count + 1 /\ i < Above(count)
    BY DEF Above
  <1>3. On(i, Above(count))
    BY <1>2 DEF Behind
  <1>4. 0 \in S
    <2>1. GoesTo(indexTable, b, from, Above(count), hashTable[b])
      BY DEF Chained
    <2>2. On(f[0], Above(count)) /\ i <= f[0]
      BY <1>1, <1>3, <2>1 DEF GoesTo
    <2>3. f[0] \in Nat /\ f[0] + 0 < Above(count)
      BY <1>2, <2>2 DEF Behind
    <2> QED
      BY <2>2, <2>3
  <1>5. ASSUME NEW n \in Nat, n \in S PROVE n + 1 \in S
    <2> SUFFICES ASSUME n + 1 <= Total PROVE At(f[n + 1], n + 1)
      OBVIOUS
    <2>1. At(f[n], n) /\ f[n + 1] = Onward(k, limit, f[n])
      BY <1>1, <1>5
    <2> DEFINE j == f[n]
    <2>2. /\ j \in 1..Total /\ from < j /\ j < Above(count)
          /\ indexTable[j].key \in Keys /\ Hash[indexTable[j].key] = b
      BY <2>1 DEF Behind
    <2>3. j \in 1..limit /\ j \in 1..count /\ j < Total
      BY <1>2, <2>2
    <2> HIDE DEF j
    <2>4. CASE j = i
      <3>1. f[n + 1] = i
        BY <2>1, <2>4 DEF Onward, j
      <3> QED
        BY <1>3, <3>1
    <2>5. CASE j # i
      <3>1. indexTable[j].key # k
        BY <2>2, <2>3, <2>5 DEF Chained
      <3>2. f[n + 1] = indexTable[j].next
        BY <2>1, <2>3, <3>1 DEF Onward, j
      <3>3. GoesTo(indexTable, b, from, j, f[n + 1])
        BY <2>2, <2>3, <3>2 DEF Chained
      <3>4. i < j /\ j + n < Above(count)
        BY <2>1, <2>3, <2>5 DEF j
      <3>5. On(i, j)
        BY <1>3, <3>4 DEF Behind
      <3>6. On(f[n + 1], j) /\ i <= f[n + 1]
        BY <3>3, <3>5 DEF GoesTo
      <3>7. f[n + 1] \in Nat /\ f[n + 1] < j
        BY <3>6 DEF Behind
      <3>8. On(f[n + 1], Above(count))
        BY <1>2, <2>2, <3>6, <3>7 DEF Behind
      <3>9. f[n + 1] + (n + 1) < Above(count)
        BY <1>2, <2>3, <3>4, <3>7
      <3> QED
        BY <3>6, <3>8, <3>9
    <2> QED
      BY <2>4, <2>5
  <1>6. Total \in S
    <2> HIDE DEF S
    <2> QED
      BY <1>4, <1>5, Counting
  <1>7. At(f[Total], Total)
    BY <1>6
  <1>8. f[Total] \in Nat
    BY <1>7 DEF Behind
  <1> QED
    BY <1>1, <1>2, <1>7, <1>8

\* A walk over whole tables comes to the entry that the process calls write into
\* only where a chain begins with it.
LEMMA WalkAvoids ==
  ASSUME Whole(hashTable, indexTable, given, indexCount), Total \in Nat,
         NEW k \in Keys, hashTable[Hash[k]] # Total, Hash[k] \in Buckets
  PROVE  Walk(k, indexCount) # Total
  <1>1. PICK f : /\ f[0] = hashTable[Hash[k]]
                 /\ \A n \in 0..(Total - 1) : f[n + 1] = Onward(k, indexCount, f[n])
                 /\ Walk(k, indexCount) = f[Total]
    BY WalkIs
  <1> DEFINE S == {n \in Nat : n <= Total => f[n] # Total}
  <1>2. 0 \in S
    BY <1>1
  <1>3. ASSUME NEW n \in Nat, n \in S PROVE n + 1 \in S
    <2> SUFFICES ASSUME n + 1 <= Total PROVE f[n + 1] # Total
      OBVIOUS
    <2>1. f[n] # Total /\ f[n + 1] = Onward(k, indexCount, f[n])
      BY <1>1, <1>3
    <2> DEFINE j == f[n]
    <2>2. CASE j \notin 1..indexCount \/ indexTable[j].key = k
      BY <2>1, <2>2 DEF Onward
    <2>3. CASE j \in 1..indexCount /\ indexTable[j].key # k
      <3>1. indexCount \in Nat /\ indexCount <= Total
        BY DEF Whole
      <3>2. j < Total /\ j \in 1..Total
        BY <2>1, <2>3, <3>1
      <3>3. f[n + 1] = indexTable[j].next
        BY <2>1, <2>3 DEF Onward
      <3> HIDE DEF j
      <3>4. \/ indexTable[j].next = 0
            \/ indexTable[j].next \in Behind(indexTable, Hash[indexTable[j].key], 0, j)
        BY <2>3, <3>2 DEF Whole
      <3>5. CASE indexTable[j].next = 0
        BY <3>2, <3>3, <3>5
      <3>6. CASE indexTable[j].next \in Behind(indexTable, Hash[indexTable[j].key], 0, j)
        <4>1. indexTable[j].next \in Nat /\ indexTable[j].next < j
          BY <3>6 DEF Behind
        <4> QED
          BY <3>2, <3>3, <4>1
      <3> QED
        BY <3>4, <3>5, <3>6
    <2> QED
      BY <2>2, <2>3
  <1>4. Total \in S
    <2> HIDE DEF S
    <2> QED
      BY <1>2, <1>3, Counting
  <1> QED
    BY <1>1, <1>4

------------------------------------------------------------------------------
(* What a step does to the tables.                                         *)

\* Whoever looks only before `to' sees the same chain.
LEMMA BehindSame ==
  ASSUME NEW x, NEW y, NEW b, NEW from \in Nat, NEW to \in Nat,
         \A i \in 1..Total : i < to => y[i] = x[i]
  PROVE  Behind(y, b, from, to) = Behind(x, b, from, to)
  BY DEF Behind

\* A new entry in front of its chain.
LEMMA ChainedGrows ==
  ASSUME NEW h, NEW x, NEW g, NEW from \in Nat, NEW count \in Nat, Total \in Nat,
         count < Total, from <= count,
         Shaped(h, x, g), Hash \in [Keys -> Buckets],
         NEW k \in Keys, NEW e, e.key = k, e.next = h[Hash[k]],
         Chained(h, x, g, from, count),
         \A i \in 1..count : from < i /\ i < Total => x[i].key # k
  PROVE  Chained([h EXCEPT ![Hash[k]] = count + 1], [x EXCEPT ![count + 1] = e],
                 [g EXCEPT ![k] = PlaceOf(e)], from, count + 1)
  <1> DEFINE n == count + 1
             b == Hash[k]
             hh == [h EXCEPT ![b] = n]
             xx == [x EXCEPT ![n] = e]
             gg == [g EXCEPT ![k] = PlaceOf(e)]
  <1>1. /\ n \in 1..Total /\ n \in Nat /\ b \in Buckets
        /\ xx[n] = e /\ \A i \in 1..Total : i # n => xx[i] = x[i]
        /\ gg[k] = PlaceOf(e) /\ \A j \in Keys : j # k => gg[j] = g[j]
        /\ hh[b] = n /\ \A c \in Buckets : c # b => hh[c] = h[c]
    BY DEF Shaped
  <1>2. Above(count) = n
    BY DEF Above
  <1> HIDE DEF hh, xx, gg, n
  <1>3. \A c, to : to \in Nat /\ to <= n => Behind(xx, c, from, to) = Behind(x, c, from, to)
    <2> SUFFICES ASSUME NEW c, NEW to \in Nat, to <= n
                 PROVE  Behind(xx, c, from, to) = Behind(x, c, from, to)
      OBVIOUS
    <2>1. \A i \in 1..Total : i < to => xx[i] = x[i]
      BY <1>1
    <2> QED
      BY <2>1, BehindSame
  <1>4. ASSUME NEW i \in 1..n, from < i, i < Total
        PROVE  /\ xx[i].key \in Keys /\ PlaceOf(xx[i]) = gg[xx[i].key]
               /\ GoesTo(xx, Hash[xx[i].key], from, i, xx[i].next)
               /\ i # n => i \in 1..count /\ xx[i] = x[i] /\ x[i].key # k
    <2>1. CASE i = n
      <3>1. GoesTo(x, b, from, n, h[b])
        BY <1>1, <1>2 DEF Chained
      <3>2. GoesTo(xx, b, from, n, h[b])
        BY <1>1, <1>3, <3>1 DEF GoesTo
      <3> QED
        BY <1>1, <2>1, <3>2
    <2>2. CASE i # n
      <3>1. i \in 1..count /\ i \in 1..Total /\ xx[i] = x[i] /\ i \in Nat /\ i <= n
        BY <1>1, <2>2 DEF n
      <3>2. /\ x[i].key \in Keys /\ PlaceOf(x[i]) = g[x[i].key]
            /\ GoesTo(x, Hash[x[i].key], from, i, x[i].next)
        BY <1>4, <3>1 DEF Chained
      <3>3. x[i].key # k
        BY <1>4, <3>1
      <3>4. GoesTo(xx, Hash[x[i].key], from, i, x[i].next)
        BY <1>3, <3>1, <3>2 DEF GoesTo
      <3> QED
        BY <1>1, <3>1, <3>2, <3>3, <3>4
    <2> QED
      BY <2>1, <2>2
  <1>5. ASSUME NEW i \in 1..n, from < i, i < Total,
               NEW j \in 1..n, from < j, j < Total, xx[i].key = xx[j].key
        PROVE  i = j
    <2>1. CASE i = n \/ j = n
      BY <1>1, <1>4, <1>5, <2>1
    <2>2. CASE i # n /\ j # n
      <3>1. i \in 1..count /\ j \in 1..count /\ x[i].key = x[j].key
        BY <1>4, <1>5, <2>2
      <3> QED
        BY <1>5, <3>1 DEF Chained
    <2> QED
      BY <2>1, <2>2
  <1>6. ASSUME NEW c \in Buckets, hh[c] # Total \/ n < Total
        PROVE  GoesTo(xx, c, from, Above(n), hh[c])
    <2>1. CASE c = b
      <3>1. n < Total /\ hh[c] = n
        BY <1>1, <1>6, <2>1
      <3>2. Above(n) = n + 1
        BY <3>1 DEF Above
      <3>3. n \in Behind(xx, c, from, n + 1)
        BY <1>1, <2>1 DEF Behind, n
      <3>4. \A i \in Behind(xx, c, from, n + 1) : i <= n
        BY <1>1 DEF Behind
      <3> QED
        BY <3>1, <3>2, <3>3, <3>4 DEF GoesTo
    <2>2. CASE c # b
      <3>1. GoesTo(x, c, from, n, h[c]) /\ hh[c] = h[c]
        BY <1>1, <1>2, <2>2 DEF Chained
      <3>2. GoesTo(xx, c, from, n, hh[c])
        BY <1>1, <1>3, <3>1 DEF GoesTo
      <3>3. Behind(xx, c, from, Above(n)) = Behind(xx, c, from, n)
        <4>1. Above(n) = IF n < Total THEN n + 1 ELSE n
          BY <1>1 DEF Above
        <4>2. Hash[xx[n].key] # c
          BY <1>1, <2>2
        <4> QED
          BY <1>1, <4>1, <4>2 DEF Behind
      <3> QED
        BY <3>2, <3>3 DEF GoesTo
    <2> QED
      BY <2>1, <2>2
  <1>7. Chained(hh, xx, gg, from, n)
    BY <1>4, <1>5, <1>6 DEF Chained
  <1> QED
    BY <1>7 DEF hh, xx, gg, n

LEMMA WholeGrows ==
  ASSUME NEW h, NEW x, NEW g, NEW count \in Nat, Total \in Nat, count < Total,
         Shaped(h, x, g), Hash \in [Keys -> Buckets],
         NEW k \in Keys, NEW e, e.key = k, e.next = h[Hash[k]],
         Whole(h, x, g, count), \A i \in 1..count : i < Total => x[i].key # k
  PROVE  Whole([h EXCEPT ![Hash[k]] = count + 1], [x EXCEPT ![count + 1] = e],
               [g EXCEPT ![k] = PlaceOf(e)], count + 1)
  <1> DEFINE n == count + 1
             b == Hash[k]
             hh == [h EXCEPT ![b] = n]
             xx == [x EXCEPT ![n] = e]
             gg == [g EXCEPT ![k] = PlaceOf(e)]
  <1>1. /\ n \in 1..Total /\ n \in Nat /\ b \in Buckets
        /\ xx[n] = e /\ \A i \in 1..Total : i # n => xx[i] = x[i]
        /\ \A j \in Keys : j # k => gg[j] = g[j]
        /\ hh[b] = n /\ \A c \in Buckets : c # b => hh[c] = h[c]
    BY DEF Shaped
  <1>2. Chained(hh, xx, gg, 0, n)
    <2>1. Chained(h, x, g, 0, count)
      BY DEF Whole
    <2>2. 0 \in Nat /\ 0 <= count /\ \A i \in 1..count : 0 < i /\ i < Total => x[i].key # k
      OBVIOUS
    <2> QED
      BY <2>1, <2>2, ChainedGrows
  <1> HIDE DEF hh, xx, gg
  <1>3. \A c, to : to \in Nat /\ to <= n => Behind(xx, c, 0, to) = Behind(x, c, 0, to)
    <2> SUFFICES ASSUME NEW c, NEW to \in Nat, to <= n
                 PROVE  Behind(xx, c, 0, to) = Behind(x, c, 0, to)
      OBVIOUS
    <2>1. \A i \in 1..Total : i < to => xx[i] = x[i]
      BY <1>1
    <2> QED
      BY <2>1, BehindSame
  <1>4. \A c \in Buckets : h[c] \in 0..count /\ (h[c] # 0 => h[c] \in Behind(x, c, 0, n))
    BY DEF Whole
  <1>5. ASSUME NEW c \in Buckets PROVE hh[c] \in 0..n
    BY <1>1, <1>4
  <1>6. ASSUME NEW c \in Buckets, hh[c] # 0 PROVE hh[c] \in Behind(xx, c, 0, n + 1)
    <2>1. CASE c = b
      BY <1>1, <2>1 DEF Behind
    <2>2. CASE c # b
      <3>1. hh[c] \in Behind(xx, c, 0, n)
        BY <1>1, <1>3, <1>4, <1>6, <2>2
      <3> QED
        BY <1>1, <3>1 DEF Behind
    <2> QED
      BY <2>1, <2>2
  <1>7. ASSUME NEW i \in 1..Total, n < i, i < Total PROVE xx[i].key \notin Keys
    BY <1>1, <1>7 DEF Whole
  <1>8. ASSUME NEW i \in 1..n, i < Total
        PROVE  xx[i].next = 0 \/ xx[i].next \in Behind(xx, Hash[xx[i].key], 0, i)
    <2>1. CASE i = n
      <3>1. xx[i].next = h[b] /\ xx[i].key = k
        BY <1>1, <2>1
      <3> QED
        BY <1>1, <1>3, <1>4, <2>1, <3>1
    <2>2. CASE i # n
      <3>1. i \in 1..count /\ i \in Nat /\ i <= n /\ xx[i] = x[i]
        BY <1>1, <2>2
      <3>2. x[i].next = 0 \/ x[i].next \in Behind(x, Hash[x[i].key], 0, i)
        BY <1>8, <3>1 DEF Whole
      <3> QED
        BY <1>3, <3>1, <3>2
    <2> QED
      BY <2>1, <2>2
  <1>9. ASSUME NEW j \in Keys, gg[j].ok, hh[Hash[j]] # Total \/ n < Total
        PROVE  \E i \in 1..n : i < Total /\ xx[i].key = j
    <2>1. CASE j = k
      <3>1. n < Total
        BY <1>1, <1>9, <2>1
      <3> QED
        BY <1>1, <2>1, <3>1
    <2>2. CASE j # k
      <3>1. g[j].ok
        BY <1>1, <1>9, <2>2
      <3>2. PICK i \in 1..count : i < Total /\ x[i].key = j
        BY <3>1 DEF Whole
      <3>3. xx[i] = x[i] /\ i \in 1..n
        BY <1>1
      <3> QED
        BY <3>2, <3>3
    <2> QED
      BY <2>1, <2>2
  <1>10. n \in 0..Total
    BY <1>1
  <1> HIDE DEF n
  <1>11. Whole(hh, xx, gg, n)
    BY <1>2, <1>5, <1>6, <1>7, <1>8, <1>9, <1>10 DEF Whole
  <1> QED
    BY <1>11 DEF hh, xx, gg, n

\* What the process calls write into entry Total, nobody looks at.
LEMMA LastUnseen ==
  ASSUME NEW h, NEW x, NEW y, NEW g, NEW s, NEW from \in Nat,
         NEW count \in 0..Total, Total \in Nat, \A i \in 1..Total : i < Total => y[i] = x[i]
  PROVE  /\ Chained(h, x, g, from, count) => Chained(h, y, g, from, count)
         /\ AtPlaces(x, s, from, count) => AtPlaces(y, s, from, count)
         /\ AtPlaces(x, s, count, Total) => AtPlaces(y, s, count, Total)
         /\ from = 0 /\ Whole(h, x, g, count) => Whole(h, y, g, count)
  <1>1. \A b, to : to \in Nat /\ to <= Total => Behind(y, b, from, to) = Behind(x, b, from, to)
    <2> SUFFICES ASSUME NEW b, NEW to \in Nat, to <= Total
                 PROVE  Behind(y, b, from, to) = Behind(x, b, from, to)
      OBVIOUS
    <2>1. \A i \in 1..Total : i < to => y[i] = x[i]
      OBVIOUS
    <2> QED
      BY <2>1, BehindSame
  <1>2. \A i \in 1..count : i < Total => i \in 1..Total /\ y[i] = x[i] /\ i \in Nat /\ i <= Total
    OBVIOUS
  <1>3. Above(count) \in Nat /\ Above(count) <= Total
    BY DEF Above
  <1>4. ASSUME Chained(h, x, g, from, count) PROVE Chained(h, y, g, from, count)
    <2>1. ASSUME NEW i \in 1..count, from < i, i < Total
          PROVE  /\ y[i].key \in Keys /\ PlaceOf(y[i]) = g[y[i].key]
                 /\ GoesTo(y, Hash[y[i].key], from, i, y[i].next)
      <3>1. /\ x[i].key \in Keys /\ PlaceOf(x[i]) = g[x[i].key]
            /\ GoesTo(x, Hash[x[i].key], from, i, x[i].next)
        BY <1>4, <2>1 DEF Chained
      <3> QED
        BY <1>1, <1>2, <2>1, <3>1 DEF GoesTo
    <2>2. ASSUME NEW i \in 1..count, from < i, i < Total,
                 NEW j \in 1..count, from < j, j < Total, y[i].key = y[j].key
          PROVE  i = j
      BY <1>2, <1>4, <2>2 DEF Chained
    <2>3. ASSUME NEW b \in Buckets, h[b] # Total \/ count < Total
          PROVE  GoesTo(y, b, from, Above(count), h[b])
      <3>1. GoesTo(x, b, from, Above(count), h[b])
        BY <1>4, <2>3 DEF Chained
      <3> QED
        BY <1>1, <1>3, <3>1 DEF GoesTo
    <2> QED
      BY <2>1, <2>2, <2>3 DEF Chained
  <1>5. ASSUME from = 0, Whole(h, x, g, count) PROVE Whole(h, y, g, count)
    <2>1. Chained(h, y, g, 0, count)
      BY <1>4, <1>5 DEF Whole
    <2>2. ASSUME NEW b \in Buckets, h[b] # Total, h[b] # 0
          PROVE  h[b] \in Behind(y, b, 0, count + 1)
      <3>1. h[b] \in Behind(x, b, 0, count + 1)
        BY <1>5, <2>2 DEF Whole
      <3>2. h[b] \in 1..Total /\ h[b] < Total
        BY <2>2, <3>1 DEF Behind
      <3> QED
        BY <3>1, <3>2 DEF Behind
    <2>3. ASSUME NEW i \in 1..Total, count < i, i < Total PROVE y[i].key \notin Keys
      BY <1>5, <2>3 DEF Whole
    <2>4. ASSUME NEW i \in 1..count, i < Total
          PROVE  y[i].next = 0 \/ y[i].next \in Behind(y, Hash[y[i].key], 0, i)
      <3>1. x[i].next = 0 \/ x[i].next \in Behind(x, Hash[x[i].key], 0, i)
        BY <1>5, <2>4 DEF Whole
      <3> QED
        BY <1>1, <1>2, <1>5, <2>4, <3>1
    <2>5. ASSUME NEW k \in Keys, g[k].ok, h[Hash[k]] # Total \/ count < Total
          PROVE  \E i \in 1..count : i < Total /\ y[i].key = k
      <3>1. PICK i \in 1..count : i < Total /\ x[i].key = k
        BY <1>5, <2>5 DEF Whole
      <3> QED
        BY <1>2, <3>1
    <2>6. \A b \in Buckets : h[b] \in 0..count
      BY <1>5 DEF Whole
    <2> QED
      BY <2>1, <2>2, <2>3, <2>4, <2>5, <2>6 DEF Whole
  <1>6. /\ AtPlaces(x, s, from, count) => AtPlaces(y, s, from, count)
        /\ AtPlaces(x, s, count, Total) => AtPlaces(y, s, count, Total)
    BY DEF AtPlaces
  <1> QED
    BY <1>4, <1>5, <1>6

------------------------------------------------------------------------------
(* Steps.                                                                  *)

LEMMA TotalType == Total \in Nat
  BY TotalIsSum, SumFacts, KeyIndexAssumption

\* Empty tables are whole, with no key.
LEMMA FreshWhole ==
  ASSUME NEW h, NEW x, NEW g, h = [b \in Buckets |-> 0], x = [i \in 1..Total |-> Empty],
         g = [k \in Keys |-> Nowhere]
  PROVE  /\ Shaped(h, x, g) /\ IsFiniteSet(GivenKeys(g)) /\ GivenCount(g) = 0
         /\ Whole(h, x, g, 0) /\ Chained(h, x, g, 0, 0)
         /\ \A s, to : AtPlaces(x, s, 0, to)
  <1>1. GivenKeys(g) = {}
    BY DEF GivenKeys, Nowhere
  <1>2. IsFiniteSet(GivenKeys(g)) /\ GivenCount(g) = 0
    BY <1>1, FS_EmptySet DEF GivenCount
  <1>3. \A i \in 1..Total : x[i].key \notin Keys
    BY KeyIndexAssumption DEF Empty
  <1>4. \A b, from, to : Behind(x, b, from, to) = {}
    BY <1>3 DEF Behind
  <1>5. Chained(h, x, g, 0, 0)
    <2>1. \A i \in 1..0 : FALSE
      OBVIOUS
    <2>2. \A b, to, n : GoesTo(x, b, 0, to, n)
      BY <1>4 DEF GoesTo
    <2> QED
      BY <2>1, <2>2 DEF Chained
  <1>6. Whole(h, x, g, 0)
    <2>1. 0 \in 0..Total /\ 0 \in 0..0 /\ \A i \in 1..0 : FALSE
      BY TotalType
    <2>2. \A b \in Buckets : h[b] = 0
      OBVIOUS
    <2>3. \A k \in Keys : ~g[k].ok
      BY DEF Nowhere
    <2> QED
      BY <1>3, <1>5, <2>1, <2>2, <2>3 DEF Whole
  <1>7. \A s, to : AtPlaces(x, s, 0, to)
    BY <1>3 DEF AtPlaces
  <1> QED
    BY <1>2, <1>5, <1>6, <1>7 DEF Shaped

\* Whole tables have their keys at their places.
LEMMA WholePlaces ==
  ASSUME NEW h, NEW x, NEW g, NEW count, Whole(h, x, g, count), Total \in Nat
  PROVE  \A from, to : AtPlaces(x, g, from, to)
  <1>1. ASSUME NEW i \in 1..Total, i < Total, x[i].key \in Keys PROVE PlaceOf(x[i]) = g[x[i].key]
    <2>1. count \in Nat /\ ~(count < i)
      BY <1>1 DEF Whole
    <2>2. i \in 1..count /\ 0 < i
      BY <2>1
    <2> QED
      BY <1>1, <2>2 DEF Whole, Chained
  <1> QED
    BY <1>1 DEF AtPlaces

LEMMA InitDir == Init => DirInv
  <1> SUFFICES ASSUME Init PROVE DirInv
    OBVIOUS
  <1>1. /\ hashTable = [b \in Buckets |-> 0] /\ indexTable = [i \in 1..Total |-> Empty]
        /\ given = [k \in Keys |-> Nowhere] /\ indexCount = 0 /\ foreign = FALSE
        /\ typeIndex = [ty \in Types |-> 0]
        /\ snapshot.hash = hashTable /\ snapshot.index = indexTable
        /\ snapshot.given = given /\ snapshot.foreign = FALSE
    BY DEF Init, Tables
  <1>2. /\ Shaped(hashTable, indexTable, given) /\ IsFiniteSet(GivenKeys(given))
        /\ GivenCount(given) = 0 /\ Whole(hashTable, indexTable, given, 0)
        /\ Chained(hashTable, indexTable, given, 0, 0)
        /\ \A s, to : AtPlaces(indexTable, s, 0, to)
    BY <1>1, FreshWhole
  <1>3. Sum([ty \in Types |-> 0]) = 0
    BY SumOfNone
  <1>4. Counted
    BY <1>1, <1>3, TotalType DEF Counted
  <1>5. Typed
    BY <1>1, <1>2 DEF Typed
  <1>6. OwnTables /\ SavedTables
    BY <1>1, <1>2 DEF OwnTables, SavedTables
  <1>7. Grown
    <2>1. 0 \in 0..indexCount
      BY <1>1
    <2> QED
      BY <1>1, <1>2, <2>1 DEF Grown
  <1> QED
    BY <1>4, <1>5, <1>6, <1>7 DEF DirInv

LEMMA CreateDir == ASSUME DirInv, Create PROVE DirInv'
  <1>1. /\ hashTable' = [b \in Buckets |-> 0] /\ indexTable' = [i \in 1..Total |-> Empty]
        /\ given' = [k \in Keys |-> Nowhere] /\ indexCount' = 0 /\ foreign' = FALSE
        /\ typeIndex' = [ty \in Types |-> 0] /\ snapshot' = snapshot
    BY DEF Create, file
  <1>2. /\ Shaped(hashTable', indexTable', given') /\ IsFiniteSet(GivenKeys(given'))
        /\ GivenCount(given') = 0 /\ Whole(hashTable', indexTable', given', 0)
        /\ Chained(hashTable', indexTable', given', 0, 0)
        /\ \A s, to : AtPlaces(indexTable', s, 0, to)
    BY <1>1, FreshWhole
  <1>3. Sum([ty \in Types |-> 0]) = 0
    BY SumOfNone
  <1>4. Counted'
    BY <1>1, <1>3, TotalType DEF Counted
  <1>5. Typed'
    BY <1>1, <1>2 DEF Typed, DirInv
  <1>6. OwnTables' /\ SavedTables'
    BY <1>1, <1>2 DEF OwnTables, SavedTables, DirInv
  <1>7. Grown'
    <2>1. 0 \in 0..indexCount'
      BY <1>1
    <2> QED
      BY <1>1, <1>2, <2>1 DEF Grown
  <1> QED
    BY <1>4, <1>5, <1>6, <1>7 DEF DirInv

\* A restore of the keys that are registered brings back the tables as they are,
\* and any other makes the directory foreign.
LEMMA LoadDir == ASSUME DirInv, LoadSnapshot PROVE DirInv'
  <1>1. /\ hashTable' = snapshot.hash /\ indexTable' = snapshot.index
        /\ foreign' = (foreign \/ snapshot.foreign \/ snapshot.given # given)
        /\ indexCount' = indexCount /\ typeIndex' = typeIndex /\ given' = given
        /\ snapshot' = snapshot
    BY DEF LoadSnapshot, file
  <1>2. Typed /\ Counted /\ OwnTables /\ SavedTables /\ Total \in Nat
    BY TotalType DEF DirInv
  <1>3. foreign \in BOOLEAN /\ snapshot.foreign \in BOOLEAN
    BY <1>2 DEF Typed
  <1>4. Typed'
    BY <1>1, <1>2, <1>3 DEF Typed, Shaped
  <1>5. Counted'
    BY <1>1, <1>2 DEF Counted
  <1>6. SavedTables'
    BY <1>1, <1>2 DEF SavedTables
  <1>7. OwnTables'
    <2> SUFFICES ASSUME ~foreign' 
                 PROVE  /\ indexCount' = GivenCount(given')
                        /\ Whole(hashTable', indexTable', given', indexCount')
      BY DEF OwnTables
    <2>1. ~foreign /\ ~snapshot.foreign /\ snapshot.given = given
      BY <1>1, <1>3
    <2>2. indexCount = GivenCount(given)
      BY <1>2, <2>1 DEF OwnTables
    <2>3. Whole(snapshot.hash, snapshot.index, snapshot.given, GivenCount(snapshot.given))
      BY <1>2, <2>1 DEF SavedTables
    <2> QED
      BY <1>1, <2>1, <2>2, <2>3
  <1>8. Grown'
    <2> SUFFICES ASSUME ~snapshot'.foreign
                 PROVE  \E from \in 0..indexCount' :
                          /\ Chained(hashTable', indexTable', given', from, indexCount')
                          /\ AtPlaces(indexTable', snapshot'.given, 0, from)
                          /\ AtPlaces(indexTable', snapshot'.given, indexCount', Total)
      BY DEF Grown
    <2>1. Whole(snapshot.hash, snapshot.index, snapshot.given, GivenCount(snapshot.given))
      BY <1>1, <1>2 DEF SavedTables
    <2>2. \A from, to : AtPlaces(indexTable', snapshot'.given, from, to)
      BY <1>1, <1>2, <2>1, WholePlaces
    <2>3. indexCount \in 0..Total /\ indexCount \in 0..indexCount
      BY <1>2 DEF Counted
    <2>4. Chained(hashTable', indexTable', given', indexCount, indexCount)
      <3>1. Above(indexCount) \in Nat /\ Above(indexCount) <= indexCount + 1
        BY <1>2, <2>3 DEF Above
      <3>2. \A b : Behind(indexTable', b, indexCount, Above(indexCount)) = {}
        BY <2>3, <3>1 DEF Behind
      <3>3. \A i \in 1..indexCount : ~(indexCount < i)
        BY <2>3
      <3> QED
        BY <3>2, <3>3 DEF Chained, GoesTo
    <2> QED
      BY <1>1, <2>2, <2>3, <2>4
  <1> QED
    BY <1>4, <1>5, <1>6, <1>7, <1>8 DEF DirInv

LEMMA SaveDir == ASSUME DirInv, SaveSnapshot PROVE DirInv'
  <1>1. /\ hashTable' = hashTable /\ indexTable' = indexTable /\ foreign' = foreign
        /\ indexCount' = indexCount /\ typeIndex' = typeIndex /\ given' = given
        /\ snapshot'.hash = hashTable /\ snapshot'.index = indexTable
        /\ snapshot'.given = given /\ snapshot'.foreign = foreign
    BY DEF SaveSnapshot, Tables, directory
  <1>2. Typed /\ Counted /\ OwnTables /\ Total \in Nat
    BY TotalType DEF DirInv
  <1>3. Typed'
    BY <1>1, <1>2 DEF Typed
  <1>4. Counted' /\ OwnTables' /\ SavedTables'
    BY <1>1, <1>2 DEF Counted, OwnTables, SavedTables
  <1>5. Grown'
    <2> SUFFICES ASSUME ~foreign PROVE Grown'
      BY <1>1 DEF Grown
    <2>1. Whole(hashTable, indexTable, given, indexCount) /\ 0 \in 0..indexCount
      BY <1>2 DEF OwnTables, Counted
    <2>2. Chained(hashTable, indexTable, given, 0, indexCount)
      BY <2>1 DEF Whole
    <2>3. \A from, to : AtPlaces(indexTable, given, from, to)
      BY <1>2, <2>1, WholePlaces
    <2> QED
      BY <1>1, <2>1, <2>2, <2>3 DEF Grown
  <1> QED
    BY <1>3, <1>4, <1>5 DEF DirInv

\* A step that leaves everything but entry Total.
LEMMA SharedDir == ASSUME DirInv, NEW e, Shared(e) PROVE DirInv'
  <1>1. /\ hashTable' = hashTable /\ foreign' = foreign
        /\ indexTable' = [indexTable EXCEPT ![Total] = e]
        /\ indexCount' = indexCount /\ typeIndex' = typeIndex /\ given' = given
        /\ snapshot' = snapshot
    BY DEF Shared, file
  <1>2. Typed /\ Counted /\ OwnTables /\ SavedTables /\ Grown /\ Total \in Nat
    BY TotalType DEF DirInv
  <1>3. /\ DOMAIN indexTable = 1..Total /\ DOMAIN indexTable' = 1..Total
        /\ \A i \in 1..Total : i < Total => indexTable'[i] = indexTable[i]
    BY <1>1, <1>2 DEF Typed, Shaped
  <1>4. Typed'
    BY <1>1, <1>2, <1>3 DEF Typed, Shaped
  <1>5. Counted' /\ SavedTables'
    BY <1>1, <1>2 DEF Counted, SavedTables
  <1>6. indexCount \in 0..Total /\ 0 \in Nat
    BY <1>2 DEF Counted
  <1>7. OwnTables'
    <2>1. Whole(hashTable, indexTable, given, indexCount) =>
            Whole(hashTable, indexTable', given, indexCount)
      BY <1>2, <1>3, <1>6, LastUnseen
    <2> QED
      BY <1>1, <1>2, <2>1 DEF OwnTables
  <1>8. Grown'
    <2> SUFFICES ASSUME ~snapshot.foreign PROVE Grown'
      BY <1>1 DEF Grown
    <2>1. PICK from \in 0..indexCount :
            /\ Chained(hashTable, indexTable, given, from, indexCount)
            /\ AtPlaces(indexTable, snapshot.given, 0, from)
            /\ AtPlaces(indexTable, snapshot.given, indexCount, Total)
      BY <1>2 DEF Grown
    <2>2. from \in Nat /\ from \in 0..Total
      BY <1>2, <1>6
    <2>3. /\ Chained(hashTable, indexTable', given, from, indexCount)
          /\ AtPlaces(indexTable', snapshot.given, indexCount, Total)
      BY <1>2, <1>3, <1>6, <2>1, <2>2, LastUnseen
    <2>4. AtPlaces(indexTable', snapshot.given, 0, from)
      BY <1>2, <1>3, <1>6, <2>1, <2>2, LastUnseen
    <2> QED
      BY <1>1, <2>3, <2>4 DEF Grown
  <1> QED
    BY <1>4, <1>5, <1>7, <1>8 DEF DirInv

\* registerKey.
LEMMA RegisterDir ==
  ASSUME IInv, DirInv, NEW k \in Keys, NEW ty \in Types, RegisterKey(k, ty)
  PROVE  DirInv'
  <1> DEFINE n == indexCount + 1
             e == NewEntry(k, ty)
  <1>1. /\ indexCount' = n /\ typeIndex' = Taken(ty)
        /\ indexTable' = [indexTable EXCEPT ![n] = e]
        /\ hashTable' = [hashTable EXCEPT ![Hash[k]] = n]
        /\ given' = [given EXCEPT ![k] = PlaceOf(e)]
        /\ foreign' = foreign /\ snapshot' = snapshot
        /\ Walk(k, Total) \notin 1..Total /\ HasRoom(ty)
    BY DEF RegisterKey, NewEntry, PlaceOf, file
  <1>2. /\ Typed /\ Counted /\ OwnTables /\ SavedTables /\ Grown /\ Total \in Nat
        /\ Hash \in [Keys -> Buckets] /\ Hash[k] \in Buckets
    BY TotalType, KeyIndexAssumption DEF DirInv
  <1>3. e.key = k /\ e.next = hashTable[Hash[k]] /\ PlaceOf(e).ok
    BY DEF NewEntry, PlaceOf, Place
  <1>4. /\ typeIndex \in [Types -> Nat] /\ Taken(ty) \in [Types -> Nat]
        /\ Taken(ty) = [typeIndex EXCEPT ![ty] = @ + 1]
        /\ \A u \in Types : Taken(ty)[u] <= Count[u]
    <2>1. typeIndex \in [Types -> Nat] /\ Count \in [Types -> Nat]
          /\ \A u \in Types : typeIndex[u] <= Count[u]
      BY KeyIndexAssumption DEF IInv, CountersBounded
    <2>2. typeIndex[ty] < Count[ty]
      BY <1>1 DEF HasRoom
    <2> QED
      BY <2>1, <2>2 DEF Taken
  <1>5. Sum(Taken(ty)) = indexCount + 1 /\ Sum(Taken(ty)) <= Total
    <2>1. Sum(Taken(ty)) = Sum(typeIndex) + 1
      BY <1>4, SumFacts
    <2>2. Sum(Taken(ty)) <= Sum(Count)
      BY <1>4, SumFacts, KeyIndexAssumption
    <2> QED
      BY <1>2, <2>1, <2>2, TotalIsSum DEF Counted
  <1>6. indexCount \in Nat /\ indexCount < Total /\ n \in 1..Total
    BY <1>2, <1>5 DEF Counted
  <1>7. Counted'
    BY <1>1, <1>5, <1>6 DEF Counted
  <1>8. Shaped(hashTable, indexTable, given)
    BY <1>2 DEF Typed
  <1> HIDE DEF e, n
  <1>9. /\ Shaped(hashTable', indexTable', given')
        /\ GivenKeys(given') = GivenKeys(given) \cup {k}
    BY <1>1, <1>3, <1>8 DEF Shaped, GivenKeys
  <1>10. IsFiniteSet(GivenKeys(given))
    BY <1>2 DEF Typed
  <1>11. Typed'
    <2>1. IsFiniteSet(GivenKeys(given'))
      BY <1>9, <1>10, FS_AddElement
    <2> QED
      BY <1>1, <1>2, <1>9, <2>1 DEF Typed
  <1>12. SavedTables'
    BY <1>1, <1>2 DEF SavedTables
  <1>13. ASSUME NEW from \in 0..indexCount, Chained(hashTable, indexTable, given, from, indexCount),
                NEW i \in 1..indexCount, from < i, i < Total
         PROVE  indexTable[i].key # k
    <2> SUFFICES ASSUME indexTable[i].key = k PROVE FALSE
      OBVIOUS
    <2>1. Walk(k, Total) = i
      <3>1. from \in Nat /\ indexCount <= Total /\ Total <= Total
        BY <1>2, <1>6
      <3> QED
        BY <1>2, <1>6, <1>13, <3>1, WalkFinds
    <2>2. i \in 1..Total
      BY <1>2, <1>6
    <2> QED
      BY <1>1, <2>1, <2>2
  <1>14. OwnTables'
    <2> SUFFICES ASSUME ~foreign PROVE OwnTables'
      BY <1>1 DEF OwnTables
    <2>1. indexCount = GivenCount(given) /\ Whole(hashTable, indexTable, given, indexCount)
      BY <1>2 DEF OwnTables
    <2>2. \A i \in 1..indexCount : i < Total => indexTable[i].key # k
      <3>1. Chained(hashTable, indexTable, given, 0, indexCount) /\ 0 \in 0..indexCount
        BY <1>6, <2>1 DEF Whole
      <3> QED
        BY <1>13, <3>1
    <2>3. ~ given[k].ok
      <3> SUFFICES ASSUME given[k].ok PROVE FALSE
        OBVIOUS
      <3>1. PICK i \in 1..indexCount : i < Total /\ indexTable[i].key = k
        BY <1>6, <2>1 DEF Whole
      <3> QED
        BY <2>2, <3>1
    <2>4. GivenCount(given') = indexCount + 1
      <3>1. k \notin GivenKeys(given)
        BY <2>3 DEF GivenKeys
      <3> QED
        BY <1>9, <1>10, <2>1, <3>1, FS_AddElement DEF GivenCount
    <2>5. Whole([hashTable EXCEPT ![Hash[k]] = indexCount + 1],
                [indexTable EXCEPT ![indexCount + 1] = e],
                [given EXCEPT ![k] = PlaceOf(e)], indexCount + 1)
      BY <1>2, <1>3, <1>6, <1>8, <2>1, <2>2, WholeGrows
    <2> QED
      BY <1>1, <2>4, <2>5 DEF OwnTables, n
  <1>15. Grown'
    <2> SUFFICES ASSUME ~snapshot.foreign PROVE Grown'
      BY <1>1 DEF Grown
    <2>1. PICK from \in 0..indexCount :
            /\ Chained(hashTable, indexTable, given, from, indexCount)
            /\ AtPlaces(indexTable, snapshot.given, 0, from)
            /\ AtPlaces(indexTable, snapshot.given, indexCount, Total)
      BY <1>2 DEF Grown
    <2>2. from \in Nat /\ from <= indexCount /\ from \in 0..n
      BY <1>6 DEF n
    <2>3. \A i \in 1..indexCount : from < i /\ i < Total => indexTable[i].key # k
      BY <1>13, <2>1
    <2>4. Chained([hashTable EXCEPT ![Hash[k]] = indexCount + 1],
                  [indexTable EXCEPT ![indexCount + 1] = e],
                  [given EXCEPT ![k] = PlaceOf(e)], from, indexCount + 1)
      BY <1>2, <1>3, <1>6, <1>8, <2>1, <2>2, <2>3, ChainedGrows
    <2>5. Chained(hashTable', indexTable', given', from, n)
      BY <1>1, <2>4 DEF n
    <2>6. \A i \in 1..Total : i # n => indexTable'[i] = indexTable[i]
      BY <1>1, <1>8 DEF Shaped
    <2>7. AtPlaces(indexTable', snapshot.given, 0, from)
      BY <1>6, <2>1, <2>2, <2>6 DEF AtPlaces, n
    <2>8. AtPlaces(indexTable', snapshot.given, n, Total)
      BY <1>6, <2>1, <2>6 DEF AtPlaces, n
    <2> QED
      BY <1>1, <2>2, <2>5, <2>7, <2>8 DEF Grown
  <1> QED
    BY <1>7, <1>11, <1>12, <1>14, <1>15 DEF DirInv

LEMMA StepDir == IInv /\ DirInv /\ [Next]_vars => DirInv'
  <1> SUFFICES ASSUME IInv, DirInv, [Next]_vars PROVE DirInv'
    OBVIOUS
  <1>1. ASSUME NEW k \in Keys, NEW ty \in Types, RegisterKey(k, ty) PROVE DirInv'
    BY <1>1, RegisterDir
  <1>2. ASSUME NEW now \in Stamps, RegisterProcess(now) \/ UpdateHeartbeat(now) PROVE DirInv'
    BY <1>2, SharedDir DEF RegisterProcess, UpdateHeartbeat
  <1>3. CASE ReleaseProcess
    BY <1>3, SharedDir DEF ReleaseProcess
  <1>4. CASE SaveSnapshot
    BY <1>4, SaveDir
  <1>5. CASE Create
    BY <1>5, CreateDir
  <1>6. CASE LoadSnapshot
    BY <1>6, LoadDir
  <1>7. CASE UNCHANGED vars
    BY <1>7 DEF vars, directory, file, DirInv, Typed, Counted, OwnTables, SavedTables, Grown
  <1> QED
    BY <1>1, <1>2, <1>3, <1>4, <1>5, <1>6, <1>7 DEF Next

------------------------------------------------------------------------------
\* Where the directory was not replaced, findKey answers with the place that the
\* key was given, and with nothing when it was given none.
LEMMA Answers == IInv /\ DirInv => FindAgrees
  <1> SUFFICES ASSUME IInv, DirInv, ~foreign, NEW k \in Keys, hashTable[Hash[k]] # Total
               PROVE  Find(k) = given[k]
    BY DEF FindAgrees
  <1>1. /\ Whole(hashTable, indexTable, given, indexCount) /\ Total \in Nat
        /\ indexCount \in 0..Total /\ Hash[k] \in Buckets
    BY TotalType, KeyIndexAssumption DEF DirInv, OwnTables, Counted
  <1>2. Chained(hashTable, indexTable, given, 0, indexCount)
    BY <1>1 DEF Whole
  <1> DEFINE limit == IF indexCount < Total THEN indexCount ELSE Total
             w == Walk(k, indexCount)
  <1>3. limit = indexCount
    BY <1>1
  <1>4. Find(k) = IF Hits(k, indexCount) THEN PlaceOf(indexTable[w]) ELSE Nowhere
    BY <1>3 DEF Find, PlaceOf
  <1>5. Hits(k, indexCount) <=> w \in 1..indexCount /\ indexTable[w].key = k
    BY DEF Hits
  <1>6. w # Total
    BY <1>1, WalkAvoids
  <1> HIDE DEF w
  <1>7. CASE Hits(k, indexCount)
    <2>1. w \in 1..indexCount /\ 0 < w /\ w < Total /\ indexTable[w].key = k
      BY <1>1, <1>5, <1>6, <1>7
    <2> QED
      BY <1>2, <1>4, <1>7, <2>1 DEF Chained
  <1>8. CASE ~Hits(k, indexCount)
    <2>1. ~given[k].ok
      <3> SUFFICES ASSUME given[k].ok PROVE FALSE
        OBVIOUS
      <3>1. PICK i \in 1..indexCount : i < Total /\ indexTable[i].key = k
        BY <1>1 DEF Whole
      <3>2. /\ 0 \in Nat /\ indexCount \in Nat /\ indexCount <= indexCount
            /\ indexCount <= Total /\ 0 < i
        BY <1>1
      <3>3. w = i
        BY <1>1, <1>2, <3>1, <3>2, WalkFinds DEF w
      <3> QED
        BY <1>5, <1>8, <3>1, <3>3
    <2>2. given[k] = Nowhere
      BY <2>1 DEF IInv, GivenBelow, Places, Place
    <2> QED
      BY <1>4, <1>8, <2>2
  <1> QED
    BY <1>7, <1>8

\* Every entry that findKey can come to holds the place its key has now, or had
\* when the snapshot was taken.
LEMMA OwnAnswers == DirInv => FindsOwnPlaces
  <1> SUFFICES ASSUME DirInv, NEW k \in Keys, Walk(k, indexCount) # Total, ~snapshot.foreign
               PROVE  Find(k) \in {Nowhere, given[k], snapshot.given[k]}
    BY DEF FindsOwnPlaces
  <1>1. Total \in Nat /\ indexCount \in 0..Total
    BY TotalType DEF DirInv, Counted
  <1> DEFINE limit == IF indexCount < Total THEN indexCount ELSE Total
             w == Walk(k, indexCount)
  <1>2. limit = indexCount
    BY <1>1
  <1>3. Find(k) = IF Hits(k, indexCount) THEN PlaceOf(indexTable[w]) ELSE Nowhere
    BY <1>2 DEF Find, PlaceOf
  <1>4. Hits(k, indexCount) => w \in 1..indexCount /\ indexTable[w].key = k
    BY DEF Hits
  <1>5. w # Total
    OBVIOUS
  <1> HIDE DEF w
  <1> SUFFICES ASSUME Hits(k, indexCount)
               PROVE  PlaceOf(indexTable[w]) \in {given[k], snapshot.given[k]}
    BY <1>3
  <1>6. w \in 1..indexCount /\ w \in 1..Total /\ 0 < w /\ w < Total /\ indexTable[w].key = k
    BY <1>1, <1>4, <1>5
  <1>7. PICK from \in 0..indexCount :
          /\ Chained(hashTable, indexTable, given, from, indexCount)
          /\ AtPlaces(indexTable, snapshot.given, 0, from)
    BY DEF DirInv, Grown
  <1>8. CASE from < w
    BY <1>6, <1>7, <1>8 DEF Chained
  <1>9. CASE ~(from < w)
    <2>1. w <= from
      BY <1>1, <1>6, <1>9
    <2> QED
      BY <1>6, <1>7, <2>1 DEF AtPlaces
  <1> QED
    BY <1>8, <1>9

\* What registerKey returned, findKey returns, until a restore brings other keys:
\* for any hash function and any number of keys, points and restores.
THEOREM FindsWhatWasGiven == Spec => []FindAgrees
  BY InitIInv, InitDir, StepIInv, StepDir, Answers, PTL DEF Spec

\* And after any restore it returns no place but the key's own.
THEOREM PlacesStayOwn == Spec => []FindsOwnPlaces
  BY InitIInv, InitDir, StepIInv, StepDir, OwnAnswers, PTL DEF Spec

=============================================================================
