-------------------------- MODULE ProcessTableProofs -------------------------
(***************************************************************************)
(* Proofs about ProcessTable for any processes, slots and timeouts: who    *)
(* owns a slot, and what the count of processes counts.  The inductive     *)
(* invariant is ProcessTable's IInv.                                       *)
(***************************************************************************)
EXTENDS ProcessTable, FiniteSetTheorems, WellFoundedInduction, TLAPS

------------------------------------------------------------------------------
(* Facts about numbers and sets.                                           *)

\* A set of naturals that is not empty has a least element, which Min gives.
LEMMA MinIsLeast ==
  ASSUME NEW S \in SUBSET Nat, S # {}
  PROVE  Min(S) \in S /\ \A x \in S : Min(S) <= x
<1> DEFINE R == OpToRel(<, Nat)
<1>1. \A x, y \in Nat : y < x => <<y, x>> \in R
  BY DEF OpToRel
<1>2. IsWellFoundedOn(R, Nat)
  BY NatLessThanWellFounded
<1> HIDE DEF R
<1>3. PICK x \in S : \A y \in S : ~ (<<y, x>> \in R)
  BY <1>2, WFMin
<1>4. ASSUME NEW y \in S PROVE x <= y
  <2>1. x \in Nat /\ y \in Nat
    OBVIOUS
  <2>2. ~ (y < x)
    BY <2>1, <1>1, <1>3
  <2>3. QED
    BY <2>1, <2>2
<1>5. QED
  BY <1>4 DEF Min

\* The least slot of a set of slots is one of them.
LEMMA LeastSlot ==
  ASSUME NEW S \in SUBSET Slots, S # {}
  PROVE  Min(S) \in S /\ Min(S) \in Slots
BY MinIsLeast, ProcessTableAssumption

\* The count stays in range whatever is added to it.
LEMMA CountInRange ==
  ASSUME NEW n \in Int
  PROVE  n % Wrap \in 0..(Wrap - 1)
<1>1. Wrap \in Nat /\ Wrap > 0
  BY ProcessTableAssumption, FS_CardinalityType
<1>2. QED
  BY <1>1

\* What the count shows of a number that is less than three times its bound.
LEMMA SmallRest ==
  ASSUME NEW n \in Nat
  PROVE  /\ n < Wrap => n % Wrap = n
         /\ Wrap <= n /\ n < 2 * Wrap => n % Wrap = n - Wrap
         /\ 2 * Wrap <= n /\ n < 3 * Wrap => n % Wrap = n - 2 * Wrap
<1> DEFINE q == n \div Wrap
           m == n % Wrap
<1>1. Wrap \in Nat /\ Wrap > 0
  BY ProcessTableAssumption, FS_CardinalityType
<1>2. n = Wrap * q + m /\ m \in 0..(Wrap - 1) /\ q \in Int
  BY <1>1
<1> HIDE DEF q, m
<1>3. q < 0 => Wrap * q <= - Wrap
  BY <1>1, <1>2
<1>4. q > 0 => Wrap * q >= Wrap
  BY <1>1, <1>2
<1>5. q > 1 => Wrap * q >= 2 * Wrap
  BY <1>1, <1>2
<1>6. q > 2 => Wrap * q >= 3 * Wrap
  BY <1>1, <1>2
<1>7. q \in {0, 1, 2} \/ q < 0 \/ q > 2
  BY <1>2
<1>8. CASE q = 0
  BY <1>1, <1>2, <1>8 DEF m
<1>9. CASE q = 1
  BY <1>1, <1>2, <1>9 DEF m
<1>10. CASE q = 2
  BY <1>1, <1>2, <1>10 DEF m
<1>11. CASE q < 0
  BY <1>1, <1>2, <1>3, <1>11
<1>12. CASE q > 2
  BY <1>1, <1>2, <1>6, <1>12 DEF m
<1>13. QED
  BY <1>7, <1>8, <1>9, <1>10, <1>11, <1>12

\* The ages a slot starts and ends with.
LEMMA AgesHave == 0 \in Ages /\ Oldest \in Ages /\ Oldest \in Nat
BY ProcessTableAssumption DEF Ages, Oldest

\* Counting u slots in use and a gap of g modulo the bound: one up, one down, a
\* wider gap, and as many more in use as the gap is made less.
LEMMA CountShifts ==
  ASSUME NEW u \in Nat, u < Wrap, NEW g \in 0..(Wrap - 1)
  PROVE  /\ u + 1 < Wrap => (((u + g) % Wrap) + 1) % Wrap = (u + 1 + g) % Wrap
         /\ u > 0 => (((u + g) % Wrap) + Wrap - 1) % Wrap = (u - 1 + g) % Wrap
         /\ (((u + g) % Wrap) + Wrap - 1) % Wrap = (u + ((g + Wrap - 1) % Wrap)) % Wrap
         /\ \A v \in Nat : v < Wrap => (u + g) % Wrap = (v + ((g + Wrap + u - v) % Wrap)) % Wrap
<1>1. Wrap \in Nat /\ Wrap > 0 /\ g \in Nat /\ g < Wrap
  BY ProcessTableAssumption, FS_CardinalityType
<1>2. (u + g) % Wrap = IF u + g < Wrap THEN u + g ELSE u + g - Wrap
  BY <1>1, SmallRest
<1> DEFINE k == (u + g) % Wrap
<1>3. k \in Nat /\ k < Wrap
  BY <1>1, <1>2
<1>4. u + 1 < Wrap => (k + 1) % Wrap = (u + 1 + g) % Wrap
  <2>1. (k + 1) % Wrap = IF k + 1 < Wrap THEN k + 1 ELSE 0
    <3>1. k + 1 \in Nat /\ k + 1 < 2 * Wrap /\ (k + 1 < Wrap \/ k + 1 = Wrap)
      BY <1>1, <1>3
    <3> HIDE DEF k
    <3>2. QED
      BY <1>1, <1>3, <3>1, SmallRest
  <2>2. (u + 1 + g) % Wrap = IF u + 1 + g < Wrap THEN u + 1 + g ELSE u + 1 + g - Wrap
    <3>1. u + 1 + g \in Nat /\ (u + 1 < Wrap => u + 1 + g < 2 * Wrap)
      BY <1>1
    <3>2. QED
      BY <1>1, <3>1, SmallRest
  <2>3. QED
    BY <1>1, <1>2, <2>1, <2>2
<1>5. (k + Wrap - 1) % Wrap = IF k = 0 THEN Wrap - 1 ELSE k - 1
  <2>1. k + Wrap - 1 \in Nat /\ k + Wrap - 1 < 2 * Wrap
    BY <1>1, <1>3
  <2> HIDE DEF k
  <2>2. QED
    BY <1>1, <1>3, <2>1, SmallRest
<1>6. u > 0 => (k + Wrap - 1) % Wrap = (u - 1 + g) % Wrap
  <2>1. u > 0 => (u - 1 + g) % Wrap = IF u - 1 + g < Wrap THEN u - 1 + g ELSE u - 1 + g - Wrap
    <3>1. u > 0 => u - 1 + g \in Nat /\ u - 1 + g < 2 * Wrap
      BY <1>1
    <3>2. QED
      BY <1>1, <3>1, SmallRest
  <2>2. QED
    BY <1>1, <1>2, <1>5, <2>1
<1>7. (k + Wrap - 1) % Wrap = (u + ((g + Wrap - 1) % Wrap)) % Wrap
  <2> DEFINE h == (g + Wrap - 1) % Wrap
  <2>1. h = IF g = 0 THEN Wrap - 1 ELSE g - 1
    <3>1. g + Wrap - 1 \in Nat /\ g + Wrap - 1 < 2 * Wrap
      BY <1>1
    <3>2. QED
      BY <1>1, <3>1, SmallRest
  <2>2. h \in Nat /\ h < Wrap
    BY <1>1, <2>1
  <2> HIDE DEF h
  <2>3. (u + h) % Wrap = IF u + h < Wrap THEN u + h ELSE u + h - Wrap
    <3> DEFINE n == u + h
    <3>1. n \in Nat /\ n < 2 * Wrap
      BY <1>1, <2>2
    <3> HIDE DEF n
    <3>2. n % Wrap = IF n < Wrap THEN n ELSE n - Wrap
      BY <1>1, <3>1, SmallRest
    <3>3. QED
      BY <1>1, <2>2, <3>2 DEF n
  <2>4. QED
    BY <1>1, <1>2, <1>5, <2>1, <2>3 DEF h
<1>8. ASSUME NEW v \in Nat, v < Wrap PROVE k = (v + ((g + Wrap + u - v) % Wrap)) % Wrap
  <2> DEFINE w == g + Wrap + u - v
             h == w % Wrap
  <2>1. w \in Nat /\ w < 3 * Wrap
    BY <1>1, <1>8
  <2>2. h = IF w < Wrap THEN w ELSE IF w < 2 * Wrap THEN w - Wrap ELSE w - 2 * Wrap
    <3> HIDE DEF w
    <3>1. QED
      BY <1>1, <2>1, SmallRest
  <2>3. h \in Nat /\ h < Wrap
    BY <1>1, <1>8, <2>2
  <2> HIDE DEF h
  <2>4. (v + h) % Wrap = IF v + h < Wrap THEN v + h ELSE v + h - Wrap
    <3> DEFINE n == v + h
    <3>1. n \in Nat /\ n < 2 * Wrap
      BY <1>1, <1>8, <2>3
    <3> HIDE DEF n
    <3>2. n % Wrap = IF n < Wrap THEN n ELSE n - Wrap
      BY <1>1, <3>1, SmallRest
    <3>3. QED
      BY <1>1, <1>8, <2>3, <3>2 DEF n
  <2>5. k = v + h \/ k = v + h - Wrap
    BY <1>1, <1>2, <1>8, <2>2
  <2>6. k = (v + h) % Wrap
    BY <1>1, <1>3, <1>8, <2>3, <2>4, <2>5
  <2>7. QED
    BY <2>6 DEF h
<1>9. QED
  BY <1>4, <1>6, <1>7, <1>8

\* The slots in use are fewer than the count can hold.
LEMMA UsedInRange ==
  \A A \in SUBSET Slots : Cardinality(A) \in Nat /\ Cardinality(A) < Wrap
<1> SUFFICES ASSUME NEW A \in SUBSET Slots
             PROVE  Cardinality(A) \in Nat /\ Cardinality(A) < Wrap
  OBVIOUS
<1>1. IsFiniteSet(A) /\ Cardinality(A) <= Cardinality(Slots)
  BY ProcessTableAssumption, FS_Subset
<1>2. Cardinality(A) \in Nat /\ Cardinality(Slots) \in Nat
  BY <1>1, ProcessTableAssumption, FS_CardinalityType
<1>3. QED
  BY <1>1, <1>2, ProcessTableAssumption

\* Taking a slot into use and giving one back moves their number by one.
LEMMA ActiveSlots ==
  ASSUME active \in [Slots -> BOOLEAN], NEW s \in Slots, NEW b \in BOOLEAN,
         active' = [active EXCEPT ![s] = b]
  PROVE  /\ Used \in Nat /\ Used' \in Nat /\ Used < Wrap /\ Used' < Wrap
         /\ ~active[s] /\ b => Used' = Used + 1
         /\ active[s] /\ ~b => Used' = Used - 1
         /\ ~active[s] /\ ~b => Used' = Used
<1> DEFINE A == {x \in Slots : active[x]}
           B == {x \in Slots : active'[x]}
<1>1. Used = Cardinality(A) /\ Used' = Cardinality(B)
  BY DEF Used
<1>2. IsFiniteSet(A) /\ IsFiniteSet(B)
  BY ProcessTableAssumption, FS_Subset
<1>3. Used \in Nat /\ Used' \in Nat /\ Used < Wrap /\ Used' < Wrap
  BY <1>1, UsedInRange
<1>4. ASSUME ~active[s], b PROVE Cardinality(B) = Cardinality(A) + 1
  <2>1. B = A \cup {s} /\ s \notin A
    BY <1>4
  <2>2. QED
    BY <1>2, <2>1, FS_AddElement
<1>5. ASSUME active[s], ~b PROVE Cardinality(B) = Cardinality(A) - 1
  <2>1. B = A \ {s} /\ s \in A
    BY <1>5
  <2>2. QED
    BY <1>2, <2>1, FS_RemoveElement
<1>6. ASSUME ~active[s], ~b PROVE B = A
  BY <1>6
<1>7. QED
  BY <1>1, <1>3, <1>4, <1>5, <1>6

------------------------------------------------------------------------------
(* What a step that leaves part of the state alone preserves.              *)

\* Steps of the monitors, and heartbeats, leave ownership and count as they are.
LEMMA TableUntouched ==
  ASSUME NamedInUse, TakenAccounted, NoneExpelled, CountIsActive,
         UNCHANGED <<active, pid, processCount, state, slot, takenBy, gap, disturbed>>
  PROVE  NamedInUse' /\ TakenAccounted' /\ NoneExpelled' /\ CountIsActive'
<1>1. NamedInUse' /\ TakenAccounted'
  BY DEF NamedInUse, TakenAccounted, Owns
<1>2. NoneExpelled'
  BY DEF NoneExpelled, Running
<1>3. CountIsActive'
  BY DEF CountIsActive, Used
<1>4. QED
  BY <1>1, <1>2, <1>3

\* Without a cleanup the clients' threads have nothing to do with the table.
LEMMA ThreadsUntouched ==
  ASSUME TodoReady, OneCleanup, UNCHANGED <<tpc, todo>>, ~Locked \/ UNCHANGED active
  PROVE  TodoReady' /\ OneCleanup'
BY DEF TodoReady, OneCleanup, Locked

\* A step of one client's thread outside of cleanup.
LEMMA ThreadMoves ==
  ASSUME TypeOK, TodoReady, OneCleanup, NEW c \in Clients,
         NEW to \in {"off", "rest", "check", "info", "sweep", "free"},
         NEW left \in SUBSET Slots,
         tpc' = [tpc EXCEPT ![c] = to], todo' = [todo EXCEPT ![c] = left],
         to \in {"sweep", "free"} => tpc[c] \in {"sweep", "free"} \/ ~Locked,
         to \in {"info", "free"} => left # {},
         to = "free" => active[Min(left)],
         UNCHANGED active
  PROVE  TodoReady' /\ OneCleanup'
<1>1. \A d \in Clients : IF d = c THEN tpc'[d] = to /\ todo'[d] = left
                                  ELSE tpc'[d] = tpc[d] /\ todo'[d] = todo[d]
  BY DEF TypeOK
<1>2. TodoReady'
  BY <1>1 DEF TodoReady
<1>3. OneCleanup'
  BY <1>1 DEF OneCleanup, Locked
<1>4. QED
  BY <1>2, <1>3

------------------------------------------------------------------------------
(* The steps that change the table.                                        *)

\* Time and heartbeats move ages only.
LEMMA AgeStep ==
  ASSUME IInv, Tick \/ \E c \in Clients : UpdateHeartbeat(c)
  PROVE  IInv'
<1>1. age' \in [Slots -> Ages]
  <2>1. 0 \in Ages /\ Oldest \in Ages /\ Oldest \in Nat
    BY AgesHave
  <2>2. CASE Tick
    <3>1. \A n \in Ages : (IF n = Oldest THEN Oldest ELSE n + 1) \in Ages
      BY <2>1, ProcessTableAssumption DEF Ages
    <3>2. \A s \in Slots : age[s] \in Ages
      BY DEF IInv, TypeOK
    <3>3. age' = [s \in Slots |-> IF age[s] = Oldest THEN Oldest ELSE age[s] + 1]
      BY <2>2 DEF Tick
    <3>4. QED
      BY <3>1, <3>2, <3>3
  <2>3. CASE \E c \in Clients : UpdateHeartbeat(c)
    BY <2>1, <2>3 DEF IInv, TypeOK, UpdateHeartbeat
  <2>4. QED
    BY <2>2, <2>3
<1>2. UNCHANGED <<active, pid, processCount, state, slot, tpc, todo, cache, told, lastKey, restores, takenBy, gap, disturbed>>
  BY DEF Tick, UpdateHeartbeat, threads, writers, account
<1>3. TypeOK'
  BY <1>1, <1>2 DEF IInv, TypeOK
<1>4. QED
  BY <1>2, <1>3, TableUntouched, ThreadsUntouched DEF IInv

\* A client takes the first free slot.  Nobody's name is on it, so the slot is its
\* own; whoever had the slot before has been told so in takenBy.
LEMMA RegisterStep ==
  ASSUME IInv, NEW c \in Clients, Register(c)
  PROVE  IInv'
<1>1. CASE FreeSlots = {}
  <2>1. /\ state' = [state EXCEPT ![c] = "in"] /\ slot' = [slot EXCEPT ![c] = NoSlot]
        /\ UNCHANGED <<active, pid, age, processCount, tpc, todo, cache, told, lastKey, restores, takenBy, gap, disturbed>>
    BY <1>1 DEF Register, slots, threads, writers, account
  <2>2. state[c] = "out" /\ slot[c] = NoSlot /\ slot' = slot
    BY <2>1 DEF Register, IInv, TakenAccounted, TypeOK
  <2>3. TypeOK'
    BY <2>1, <2>2 DEF IInv, TypeOK
  <2>4. TodoReady' /\ OneCleanup'
    BY <2>1, ThreadsUntouched DEF IInv
  <2>5. NamedInUse' /\ TakenAccounted'
    BY <2>1, <2>2 DEF IInv, TypeOK, NamedInUse, TakenAccounted, Owns
  <2>6. NoneExpelled'
    BY <2>1, <2>2 DEF IInv, TypeOK, NoneExpelled, Running
  <2>7. CountIsActive'
    BY <2>1 DEF IInv, CountIsActive, Used
  <2>8. QED
    BY <2>3, <2>4, <2>5, <2>6, <2>7 DEF IInv
<1>2. CASE FreeSlots # {}
  <2> DEFINE s == Min(FreeSlots)
  <2>1. s \in Slots /\ ~active[s]
    BY <1>2, LeastSlot DEF FreeSlots
  <2>2. /\ state' = [state EXCEPT ![c] = "in"] /\ slot' = [slot EXCEPT ![c] = s]
        /\ active' = [active EXCEPT ![s] = TRUE] /\ pid' = [pid EXCEPT ![s] = c]
        /\ age' = [age EXCEPT ![s] = 0] /\ processCount' = (processCount + 1) % Wrap
        /\ UNCHANGED <<tpc, todo, cache, told, lastKey, restores, takenBy, gap, disturbed>>
    BY <1>2 DEF Register, threads, writers, account
  <2> HIDE DEF s
  <2>3. state[c] = "out" /\ slot[c] = NoSlot /\ takenBy[c] = NoClient /\ ~Locked
    BY DEF Register, IInv, TakenAccounted
  <2>4. TypeOK'
    <3>1. 0 \in Ages /\ processCount + 1 \in Int
      BY AgesHave, ProcessTableAssumption DEF IInv, TypeOK
    <3>2. processCount' \in 0..(Wrap - 1)
      BY <2>2, <3>1, CountInRange
    <3>3. QED
      BY <2>1, <2>2, <3>1, <3>2 DEF IInv, TypeOK
  <2>5. TodoReady' /\ OneCleanup'
    BY <2>2, <2>3, ThreadsUntouched DEF IInv
  <2>6. NamedInUse'
    BY <2>1, <2>2 DEF IInv, TypeOK, NamedInUse
  <2>7. TakenAccounted'
    BY <2>1, <2>2, <2>3, ProcessTableAssumption DEF IInv, TypeOK, NamedInUse, TakenAccounted, Owns
  <2>8. NoneExpelled'
    BY <2>1, <2>2, <2>3, ProcessTableAssumption DEF IInv, TypeOK, NoneExpelled, Running
  <2>9. CountIsActive'
    <3>1. gap \in 0..(Wrap - 1) /\ gap' = gap /\ disturbed' = disturbed
      BY <2>2 DEF IInv, TypeOK
    <3>2. Used \in Nat /\ Used < Wrap /\ Used' < Wrap /\ Used' = Used + 1
      BY <2>1, <2>2, ActiveSlots DEF IInv, TypeOK
    <3>3. (((Used + gap) % Wrap) + 1) % Wrap = (Used + 1 + gap) % Wrap
      BY <3>1, <3>2, CountShifts
    <3>4. QED
      BY <2>2, <3>1, <3>2, <3>3 DEF IInv, CountIsActive
  <2>10. QED
    BY <2>4, <2>5, <2>6, <2>7, <2>8, <2>9 DEF IInv
<1>3. QED
  BY <1>1, <1>2

\* What releasing a slot, whoever does it, leaves behind.
LEMMA ReleaseEffect ==
  ASSUME IInv, NEW s \in Slots, Release(s)
  PROVE  /\ active' \in [Slots -> BOOLEAN] /\ pid' \in [Slots -> Clients \cup {NoClient}]
         /\ age' \in [Slots -> Ages] /\ processCount' \in 0..(Wrap - 1)
         /\ active' = [active EXCEPT ![s] = FALSE] /\ pid' = [pid EXCEPT ![s] = NoClient]
         /\ active[s] => processCount' = (Used' + gap) % Wrap
         /\ ~active[s] => processCount' = (Used' + ((gap + Wrap - 1) % Wrap)) % Wrap
         /\ NamedInUse'
<1>1. /\ active' = [active EXCEPT ![s] = FALSE] /\ pid' = [pid EXCEPT ![s] = NoClient]
      /\ age' = [age EXCEPT ![s] = Oldest] /\ processCount' = (processCount + Wrap - 1) % Wrap
  BY DEF Release
<1>2. processCount' \in 0..(Wrap - 1)
  <2>1. processCount + Wrap - 1 \in Int
    BY ProcessTableAssumption DEF IInv, TypeOK
  <2>2. QED
    BY <1>1, <2>1, CountInRange
<1>3. /\ active' \in [Slots -> BOOLEAN] /\ pid' \in [Slots -> Clients \cup {NoClient}]
      /\ age' \in [Slots -> Ages]
  BY <1>1, AgesHave DEF IInv, TypeOK
<1>4. /\ Used \in Nat /\ Used < Wrap /\ gap \in 0..(Wrap - 1)
      /\ processCount = (Used + gap) % Wrap
      /\ active[s] => Used' = Used - 1 /\ Used' \in Nat
      /\ ~active[s] => Used' = Used
  BY <1>1, ActiveSlots DEF IInv, TypeOK, CountIsActive
<1>5. ASSUME active[s] PROVE processCount' = (Used' + gap) % Wrap
  <2>1. Used > 0
    BY <1>4, <1>5
  <2>2. (((Used + gap) % Wrap) + Wrap - 1) % Wrap = (Used - 1 + gap) % Wrap
    BY <1>4, <2>1, CountShifts
  <2>3. QED
    BY <1>1, <1>4, <1>5, <2>2
<1>6. ASSUME ~active[s] PROVE processCount' = (Used' + ((gap + Wrap - 1) % Wrap)) % Wrap
  <2>1. (((Used + gap) % Wrap) + Wrap - 1) % Wrap = (Used + ((gap + Wrap - 1) % Wrap)) % Wrap
    BY <1>4, CountShifts
  <2>2. QED
    BY <1>1, <1>4, <1>6, <2>1
<1>7. NamedInUse'
  BY <1>1, ProcessTableAssumption DEF IInv, TypeOK, NamedInUse
<1>8. QED
  BY <1>1, <1>2, <1>3, <1>5, <1>6, <1>7

\* Who owns a slot after slot s has been released, by c for itself or for another.
LEMMA OwnersAfter ==
  ASSUME IInv, NEW s \in Slots, Release(s), NEW x \in Clients, slot'[x] = slot[x]
  PROVE  Owns(x)' <=> Owns(x) /\ ~Holds(x, s)
<1>1. pid'[s] = NoClient /\ \A r \in Slots : r # s => pid'[r] = pid[r]
  BY ReleaseEffect DEF IInv, TypeOK
<1>2. slot[x] = NoSlot \/ slot[x] \in Slots
  BY DEF IInv, TypeOK
<1>3. CASE slot[x] = NoSlot
  BY <1>3 DEF Owns
<1>4. CASE slot[x] = s
  BY <1>1, <1>4, ProcessTableAssumption DEF Owns, Holds
<1>5. CASE slot[x] \in Slots /\ slot[x] # s
  BY <1>1, <1>5, ProcessTableAssumption DEF Owns, Holds
<1>6. QED
  BY <1>2, <1>3, <1>4, <1>5

\* A client that shuts down releases its slot, and may have to say so to another.
LEMMA ShutdownStep ==
  ASSUME IInv, NEW c \in Clients, Shutdown(c)
  PROVE  IInv'
<1>1. /\ state' = [state EXCEPT ![c] = "out"] /\ slot' = [slot EXCEPT ![c] = NoSlot]
      /\ tpc' = [tpc EXCEPT ![c] = "off"] /\ todo' = todo /\ state[c] = "in" /\ ~Locked
      /\ UNCHANGED <<lastKey, restores, disturbed>>
  BY DEF Shutdown, writers
<1>2. cache' \in [Monitors -> [Slots -> Healths]] /\ told' \in [Monitors -> SUBSET Clients]
  BY DEF Shutdown, StopsMonitor, IInv, TypeOK, Healths
<1>3. TodoReady' /\ OneCleanup'
  <2>1. \A d \in Clients : tpc'[d] = tpc[d] \/ tpc'[d] = "off"
    BY <1>1 DEF IInv, TypeOK
  <2>2. \A d \in Clients : tpc[d] \notin {"sweep", "free"}
    BY <1>1 DEF Locked
  <2>3. QED
    BY <1>1, <2>1, <2>2 DEF IInv, TodoReady, OneCleanup
<1>4. /\ slot' \in [Clients -> Slots \cup {NoSlot}] /\ slot'[c] = NoSlot
      /\ state' \in [Clients -> {"out", "in", "crashed"}] /\ state'[c] = "out"
      /\ tpc' \in [Clients -> {"off", "rest", "check", "info", "sweep", "free"}]
      /\ \A x \in Clients : x # c => slot'[x] = slot[x] /\ state'[x] = state[x]
  BY <1>1 DEF IInv, TypeOK
<1>5. CASE slot[c] = NoSlot
  <2>1. UNCHANGED <<active, pid, age, processCount, takenBy, gap>>
    BY <1>5 DEF Shutdown, slots
  <2>2. TypeOK'
    BY <1>1, <1>2, <1>4, <2>1 DEF IInv, TypeOK
  <2>3. NamedInUse' /\ TakenAccounted'
    BY <1>4, <1>5, <2>1 DEF IInv, NamedInUse, TakenAccounted, Owns
  <2>4. NoneExpelled'
    BY <1>1, <1>4, <2>1 DEF IInv, NoneExpelled, Running
  <2>5. CountIsActive'
    BY <1>1, <2>1 DEF IInv, CountIsActive, Used
  <2>6. QED
    BY <1>3, <2>2, <2>3, <2>4, <2>5 DEF IInv
<1>6. CASE slot[c] # NoSlot
  <2> DEFINE s == slot[c]
  <2>1. s \in Slots
    BY <1>6 DEF IInv, TypeOK
  <2>2. /\ Release(s)
        /\ takenBy' = [x \in Clients |-> IF x = c THEN NoClient ELSE IF Holds(x, s) THEN c ELSE takenBy[x]]
        /\ gap' = IF active[s] THEN gap ELSE (gap + Wrap - 1) % Wrap
    BY <1>6 DEF Shutdown
  <2>3. takenBy' \in [Clients -> Clients \cup {NoClient, Overwritten}] /\ gap' \in 0..(Wrap - 1)
    <3>1. gap + Wrap - 1 \in Int /\ gap \in 0..(Wrap - 1)
      BY ProcessTableAssumption DEF IInv, TypeOK
    <3>2. QED
      BY <2>2, <3>1, CountInRange DEF IInv, TypeOK
  <2>4. active' = [active EXCEPT ![s] = FALSE] /\ pid' = [pid EXCEPT ![s] = NoClient]
    BY <2>1, <2>2, ReleaseEffect
  <2>5. TypeOK'
    BY <1>1, <1>2, <1>4, <2>1, <2>2, <2>3, ReleaseEffect DEF IInv, TypeOK
  <2>6. TakenAccounted'
    <3>1. ASSUME NEW x \in Clients
          PROVE  /\ state'[x] = "out" => slot'[x] = NoSlot
                 /\ slot'[x] = NoSlot => takenBy'[x] = NoClient
                 /\ slot'[x] # NoSlot => (Owns(x)' <=> takenBy'[x] = NoClient)
      <4>1. CASE x = c
        BY <1>4, <2>2, <4>1
      <4>2. CASE x # c /\ Holds(x, s)
        <5>1. slot'[x] = slot[x] /\ state'[x] = state[x] /\ takenBy'[x] = c /\ slot[x] # NoSlot
          BY <1>4, <2>1, <2>2, <4>2, ProcessTableAssumption DEF Holds
        <5>2. ~Owns(x)'
          BY <2>1, <2>2, <4>2, <5>1, OwnersAfter
        <5>3. QED
          BY <5>1, <5>2, ProcessTableAssumption DEF IInv, TakenAccounted
      <4>3. CASE x # c /\ ~Holds(x, s)
        <5>1. slot'[x] = slot[x] /\ state'[x] = state[x] /\ takenBy'[x] = takenBy[x]
          BY <1>4, <2>2, <4>3
        <5>2. Owns(x)' <=> Owns(x)
          BY <2>1, <2>2, <4>3, <5>1, OwnersAfter
        <5>3. QED
          BY <5>1, <5>2 DEF IInv, TakenAccounted
      <4>4. QED
        BY <4>1, <4>2, <4>3
    <3>2. QED
      BY <3>1 DEF TakenAccounted
  <2>7. NoneExpelled'
    BY <1>1, <1>4, <2>1, <2>4 DEF IInv, TypeOK, NoneExpelled, Running
  <2>8. CountIsActive'
    <3>1. ~disturbed => active[s]
      BY <1>1, <1>6 DEF IInv, NoneExpelled, Running
    <3>2. processCount' = (Used' + gap') % Wrap
      BY <2>1, <2>2, ReleaseEffect
    <3>3. QED
      BY <1>1, <2>2, <3>1, <3>2 DEF IInv, CountIsActive
  <2>9. QED
    BY <1>3, <2>1, <2>2, <2>5, <2>6, <2>7, <2>8, ReleaseEffect DEF IInv
<1>7. QED
  BY <1>5, <1>6

\* A crash leaves the slot to whoever cleans up.
LEMMA CrashStep ==
  ASSUME IInv, NEW c \in Clients, Crash(c)
  PROVE  IInv'
<1>1. /\ state' = [state EXCEPT ![c] = "crashed"] /\ tpc' = [tpc EXCEPT ![c] = "off"]
      /\ todo' = [todo EXCEPT ![c] = {}] /\ state[c] = "in"
      /\ UNCHANGED <<active, pid, age, processCount, slot, lastKey, restores, takenBy, gap, disturbed>>
  BY DEF Crash, slots, writers, account
<1>2. cache' \in [Monitors -> [Slots -> Healths]] /\ told' \in [Monitors -> SUBSET Clients]
  BY DEF Crash, StopsMonitor, IInv, TypeOK, Healths
<1>3. TypeOK'
  BY <1>1, <1>2 DEF IInv, TypeOK
<1>4. TodoReady' /\ OneCleanup'
  BY <1>1, ThreadMoves DEF IInv
<1>5. NamedInUse' /\ TakenAccounted' /\ CountIsActive'
  BY <1>1 DEF IInv, TypeOK, NamedInUse, TakenAccounted, Owns, CountIsActive, Used
<1>6. NoneExpelled'
  BY <1>1 DEF IInv, TypeOK, NoneExpelled, Running
<1>7. QED
  BY <1>3, <1>4, <1>5, <1>6 DEF IInv

\* Cleanup frees a slot in use, and takes the blame if it is its owner's.
LEMMA CleanupFreeStep ==
  ASSUME IInv, NEW c \in Clients, CleanupFree(c)
  PROVE  IInv'
<1> DEFINE s == Min(todo[c])
<1>1. tpc[c] = "free" /\ s \in Slots /\ active[s]
  <2>1. tpc[c] = "free" /\ todo[c] # {} /\ active[s] /\ todo[c] \in SUBSET Slots
    BY DEF CleanupFree, Goto, IInv, TodoReady, TypeOK
  <2>2. QED
    BY <2>1, LeastSlot
<1>2. /\ Release(s)
      /\ tpc' = [tpc EXCEPT ![c] = "sweep"] /\ todo' = [todo EXCEPT ![c] = todo[c] \ {s}]
      /\ takenBy' = [x \in Clients |-> IF Holds(x, s) THEN c ELSE takenBy[x]]
      /\ disturbed' = (disturbed \/ \E x \in Clients : state[x] = "in" /\ slot[x] = s)
      /\ UNCHANGED <<state, slot, cache, told, lastKey, restores, gap>>
  BY DEF CleanupFree, Goto, IInv, TypeOK, writers
<1> HIDE DEF s
<1>3. active' = [active EXCEPT ![s] = FALSE] /\ pid' = [pid EXCEPT ![s] = NoClient]
  BY <1>1, <1>2, ReleaseEffect
<1>4. TypeOK'
  <2>1. tpc' \in [Clients -> {"off", "rest", "check", "info", "sweep", "free"}] /\ todo' \in [Clients -> SUBSET Slots]
    BY <1>2 DEF IInv, TypeOK
  <2>2. takenBy' \in [Clients -> Clients \cup {NoClient, Overwritten}] /\ disturbed' \in BOOLEAN
    BY <1>2 DEF IInv, TypeOK
  <2>3. QED
    BY <1>1, <1>2, <2>1, <2>2, ReleaseEffect DEF IInv, TypeOK
<1>5. TodoReady' /\ OneCleanup'
  <2>1. \A d \in Clients : tpc'[d] = IF d = c THEN "sweep" ELSE tpc[d]
    BY <1>2 DEF IInv, TypeOK
  <2>2. \A d \in Clients : tpc[d] = "free" => d = c
    BY <1>1 DEF IInv, OneCleanup
  <2>3. \A d \in Clients : d # c => todo'[d] = todo[d]
    BY <1>2 DEF IInv, TypeOK
  <2>4. TodoReady'
    BY <2>1, <2>2, <2>3 DEF IInv, TodoReady
  <2>5. OneCleanup'
    BY <1>1, <2>1 DEF IInv, OneCleanup
  <2>6. QED
    BY <2>4, <2>5
<1>6. NamedInUse'
  BY <1>1, <1>2, ReleaseEffect
<1>7. TakenAccounted'
  <2>1. ASSUME NEW x \in Clients
        PROVE  /\ state'[x] = "out" => slot'[x] = NoSlot
               /\ slot'[x] = NoSlot => takenBy'[x] = NoClient
               /\ slot'[x] # NoSlot => (Owns(x)' <=> takenBy'[x] = NoClient)
    <3>1. slot'[x] = slot[x] /\ state'[x] = state[x] /\ (Owns(x)' <=> Owns(x) /\ ~Holds(x, s))
      BY <1>1, <1>2, OwnersAfter
    <3>2. CASE Holds(x, s)
      <4>1. takenBy'[x] = c /\ slot[x] # NoSlot
        BY <1>1, <1>2, <3>2, ProcessTableAssumption DEF Holds
      <4>2. QED
        BY <3>1, <3>2, <4>1, ProcessTableAssumption DEF IInv, TakenAccounted
    <3>3. CASE ~Holds(x, s)
      <4>1. takenBy'[x] = takenBy[x]
        BY <1>2, <3>3
      <4>2. QED
        BY <3>1, <3>3, <4>1 DEF IInv, TakenAccounted
    <3>4. QED
      BY <3>2, <3>3
  <2>2. QED
    BY <2>1 DEF TakenAccounted
<1>8. NoneExpelled'
  BY <1>1, <1>2, <1>3 DEF IInv, TypeOK, NoneExpelled, Running
<1>9. CountIsActive'
  <2>1. processCount' = (Used' + gap') % Wrap
    BY <1>1, <1>2, ReleaseEffect
  <2>2. QED
    BY <1>2, <2>1 DEF IInv, CountIsActive
<1>10. QED
  BY <1>4, <1>5, <1>6, <1>7, <1>8, <1>9 DEF IInv

\* A restore keeps the accounts: who had its slot until now and has it no more has
\* been overwritten, who is named in the restored table has its slot back, and the
\* gap takes up what the count does not tell of the slots in use.
LEMMA RestoreStep ==
  ASSUME IInv, NEW c \in Clients, Restore(c)
  PROVE  IInv'
<1>1. PICK t \in Snapshots : active' = t.active /\ pid' = t.pid /\ age' = t.age
  BY DEF Restore
<1>2. /\ active' \in [Slots -> BOOLEAN] /\ pid' \in [Slots -> Clients \cup {NoClient}]
      /\ age' \in [Slots -> Ages]
      /\ \A s \in Slots : ~active'[s] => pid'[s] = NoClient
  <2>1. IsTable(t)
    BY ProcessTableAssumption
  <2>2. QED
    BY <1>1, <2>1 DEF IsTable
<1>3. /\ takenBy' = [x \in Clients |->
                      IF slot[x] = NoSlot \/ pid'[slot[x]] = x THEN NoClient
                      ELSE IF Owns(x) THEN Overwritten ELSE takenBy[x]]
      /\ gap' = (gap + Wrap + Used - Used') % Wrap
      /\ restores' = restores + 1 /\ restores < MaxRestores /\ disturbed' = TRUE /\ ~Locked
      /\ UNCHANGED <<processCount, state, slot, tpc, todo, cache, told, lastKey>>
  BY DEF Restore, threads
<1>4. Used \in Nat /\ Used < Wrap /\ Used' \in Nat /\ Used' < Wrap
  <2>1. {s \in Slots : active[s]} \in SUBSET Slots /\ {s \in Slots : active'[s]} \in SUBSET Slots
    OBVIOUS
  <2>2. QED
    BY <2>1, UsedInRange DEF Used
<1>5. TypeOK'
  <2>1. gap' \in 0..(Wrap - 1)
    <3>1. gap + Wrap + Used - Used' \in Int
      BY <1>4, ProcessTableAssumption DEF IInv, TypeOK
    <3>2. QED
      BY <1>3, <3>1, CountInRange
  <2>2. restores' \in 0..MaxRestores
    BY <1>3, ProcessTableAssumption DEF IInv, TypeOK
  <2>3. takenBy' \in [Clients -> Clients \cup {NoClient, Overwritten}]
    BY <1>3 DEF IInv, TypeOK
  <2>4. QED
    BY <1>2, <1>3, <2>1, <2>2, <2>3 DEF IInv, TypeOK
<1>6. TodoReady' /\ OneCleanup'
  BY <1>3, ThreadsUntouched DEF IInv
<1>7. NamedInUse'
  BY <1>2, ProcessTableAssumption DEF NamedInUse
<1>8. TakenAccounted'
  <2>1. ASSUME NEW x \in Clients
        PROVE  /\ state'[x] = "out" => slot'[x] = NoSlot
               /\ slot'[x] = NoSlot => takenBy'[x] = NoClient
               /\ slot'[x] # NoSlot => (Owns(x)' <=> takenBy'[x] = NoClient)
    <3>1. slot'[x] = slot[x] /\ state'[x] = state[x]
          /\ takenBy'[x] = IF slot[x] = NoSlot \/ pid'[slot[x]] = x THEN NoClient
                           ELSE IF Owns(x) THEN Overwritten ELSE takenBy[x]
      BY <1>3
    <3>2. slot[x] # NoSlot => (Owns(x)' <=> pid'[slot[x]] = x)
      BY <3>1 DEF Owns
    <3>3. slot[x] # NoSlot /\ ~Owns(x) => takenBy[x] # NoClient
      BY DEF IInv, TakenAccounted
    <3>4. QED
      BY <3>1, <3>2, <3>3, ProcessTableAssumption DEF IInv, TakenAccounted
  <2>2. QED
    BY <2>1 DEF TakenAccounted
<1>9. NoneExpelled'
  BY <1>3 DEF NoneExpelled
<1>10. CountIsActive'
  <2>1. gap \in 0..(Wrap - 1) /\ processCount = (Used + gap) % Wrap
    BY DEF IInv, TypeOK, CountIsActive
  <2>2. (Used + gap) % Wrap = (Used' + ((gap + Wrap + Used - Used') % Wrap)) % Wrap
    BY <1>4, <2>1, CountShifts
  <2>3. processCount' = (Used' + gap') % Wrap
    BY <1>3, <2>1, <2>2
  <2>4. QED
    BY <1>3, <2>3 DEF CountIsActive
<1>11. QED
  BY <1>5, <1>6, <1>7, <1>8, <1>9, <1>10 DEF IInv

\* The last key takes the name off the first slot, and its owner is told so.
LEMMA LastKeyStep ==
  ASSUME IInv, NEW c \in Clients, RegisterLastKey(c)
  PROVE  IInv'
<1>1. PICK n \in {-Ahead, Oldest} : age' = [age EXCEPT ![0] = IF active[0] THEN n ELSE Oldest]
  BY DEF RegisterLastKey
<1>2. /\ pid' = [pid EXCEPT ![0] = NoClient]
      /\ takenBy' = [x \in Clients |-> IF Holds(x, 0) THEN Overwritten ELSE takenBy[x]]
      /\ lastKey' = TRUE
      /\ UNCHANGED <<active, processCount, state, slot, tpc, todo, cache, told, restores, gap, disturbed>>
  BY DEF RegisterLastKey, threads
<1>3. 0 \in Slots
  BY ProcessTableAssumption
<1>4. TypeOK'
  <2>1. n \in Ages /\ Oldest \in Ages
    BY AgesHave, ProcessTableAssumption DEF Ages
  <2>2. age' \in [Slots -> Ages]
    BY <1>1, <2>1 DEF IInv, TypeOK
  <2>3. takenBy' \in [Clients -> Clients \cup {NoClient, Overwritten}]
        /\ pid' \in [Slots -> Clients \cup {NoClient}]
    BY <1>2 DEF IInv, TypeOK
  <2>4. QED
    BY <1>2, <2>2, <2>3 DEF IInv, TypeOK
<1>5. TodoReady' /\ OneCleanup'
  BY <1>2, ThreadsUntouched DEF IInv
<1>6. pid'[0] = NoClient /\ \A r \in Slots : r # 0 => pid'[r] = pid[r]
  BY <1>2, <1>3 DEF IInv, TypeOK
<1>7. NamedInUse'
  BY <1>2, <1>6, ProcessTableAssumption DEF IInv, NamedInUse
<1>8. TakenAccounted'
  <2>1. ASSUME NEW x \in Clients
        PROVE  /\ state'[x] = "out" => slot'[x] = NoSlot
               /\ slot'[x] = NoSlot => takenBy'[x] = NoClient
               /\ slot'[x] # NoSlot => (Owns(x)' <=> takenBy'[x] = NoClient)
    <3>1. slot'[x] = slot[x] /\ state'[x] = state[x] /\ (slot[x] = NoSlot \/ slot[x] \in Slots)
      BY <1>2 DEF IInv, TypeOK
    <3>2. CASE Holds(x, 0)
      <4>1. takenBy'[x] = Overwritten /\ ~Owns(x)' /\ slot[x] # NoSlot
        BY <1>2, <1>3, <1>6, <3>1, <3>2, ProcessTableAssumption DEF Holds, Owns
      <4>2. QED
        BY <3>1, <4>1, ProcessTableAssumption DEF IInv, TakenAccounted
    <3>3. CASE ~Holds(x, 0)
      <4>1. takenBy'[x] = takenBy[x]
        BY <1>2, <3>3
      <4>2. Owns(x)' <=> Owns(x)
        BY <1>3, <1>6, <3>1, <3>3, ProcessTableAssumption DEF Holds, Owns
      <4>3. QED
        BY <3>1, <4>1, <4>2 DEF IInv, TakenAccounted
    <3>4. QED
      BY <3>2, <3>3
  <2>2. QED
    BY <2>1 DEF TakenAccounted
<1>9. NoneExpelled' /\ CountIsActive'
  BY <1>2 DEF IInv, NoneExpelled, Running, CountIsActive, Used
<1>10. QED
  BY <1>4, <1>5, <1>7, <1>8, <1>9 DEF IInv

\* A step of a client's thread that leaves the table alone.
LEMMA ThreadStep ==
  ASSUME IInv, NEW c \in Clients,
         NEW to \in {"off", "rest", "check", "info", "sweep", "free"},
         NEW left \in SUBSET Slots,
         tpc' = [tpc EXCEPT ![c] = to], todo' = [todo EXCEPT ![c] = left],
         cache' \in [Monitors -> [Slots -> Healths]], told' \in [Monitors -> SUBSET Clients],
         UNCHANGED <<slots, state, slot, writers, account>>,
         to \in {"sweep", "free"} => tpc[c] \in {"sweep", "free"} \/ ~Locked,
         to \in {"info", "free"} => left # {},
         to = "free" => active[Min(left)]
  PROVE  IInv'
<1>1. UNCHANGED <<active, pid, age, processCount, state, slot, lastKey, restores, takenBy, gap, disturbed>>
  BY DEF slots, writers, account
<1>2. TypeOK'
  BY <1>1 DEF IInv, TypeOK
<1>3. TodoReady' /\ OneCleanup'
  BY <1>1, ThreadMoves DEF IInv
<1>4. NamedInUse' /\ TakenAccounted' /\ NoneExpelled' /\ CountIsActive'
  BY <1>1, TableUntouched DEF IInv
<1>5. QED
  BY <1>2, <1>3, <1>4 DEF IInv

\* The monitor is switched on and off.
LEMMA SwitchStep ==
  ASSUME IInv, NEW m \in Monitors, StartMonitor(m) \/ StopMonitor(m)
  PROVE  IInv'
<1>1. m \in Clients
  BY ProcessTableAssumption
<1>2. todo' = [todo EXCEPT ![m] = todo[m]] /\ todo[m] \in SUBSET Slots
  BY <1>1 DEF StartMonitor, StopMonitor, IInv, TypeOK
<1>3. cache' \in [Monitors -> [Slots -> Healths]] /\ told' \in [Monitors -> SUBSET Clients]
  BY DEF StartMonitor, StopMonitor, StopsMonitor, IInv, TypeOK, Healths
<1>4. UNCHANGED <<slots, state, slot, writers, account>>
  BY DEF StartMonitor, StopMonitor
<1>5. CASE StartMonitor(m)
  <2>1. tpc' = [tpc EXCEPT ![m] = "rest"]
    BY <1>5 DEF StartMonitor, Goto
  <2>2. QED
    BY <1>1, <1>2, <1>3, <1>4, <2>1, ThreadStep
<1>6. CASE StopMonitor(m)
  <2>1. tpc' = [tpc EXCEPT ![m] = "off"]
    BY <1>6 DEF StopMonitor, Goto
  <2>2. QED
    BY <1>1, <1>2, <1>3, <1>4, <2>1, ThreadStep
<1>7. QED
  BY <1>5, <1>6

\* checkProcessHealth answers with a health.
LEMMA HealthType == \A s \in Slots : Health(s) \in Healths
BY DEF Health, Healths

\* A round of the monitor up to its cleanup.
LEMMA RoundStep ==
  ASSUME IInv, NEW m \in Monitors, Round(m)
  PROVE  IInv'
<1>1. m \in Clients
  BY ProcessTableAssumption
<1>2. CASE MonitorList(m)
  <2> DEFINE left == {s \in Slots : active[s]}
  <2>1. /\ tpc' = [tpc EXCEPT ![m] = "check"] /\ todo' = [todo EXCEPT ![m] = left]
        /\ UNCHANGED <<slots, state, slot, cache, told, writers, account>>
    BY <1>2 DEF MonitorList, Goto
  <2>2. cache' \in [Monitors -> [Slots -> Healths]] /\ told' \in [Monitors -> SUBSET Clients]
    BY <2>1 DEF IInv, TypeOK
  <2>3. left \in SUBSET Slots
    OBVIOUS
  <2> HIDE DEF left
  <2>4. QED
    BY <1>1, <2>1, <2>2, <2>3, ThreadStep
<1>3. CASE MonitorCheck(m)
  <2> DEFINE s == Min(todo[m])
             changed == s # slot[m] /\ Health(s) # cache[m][s]
             dead == changed /\ Reports(cache[m][s], Health(s))
             left == IF dead THEN todo[m] ELSE todo[m] \ {s}
             to == IF dead THEN "info" ELSE "check"
  <2>1. /\ todo[m] # {} /\ todo[m] \in SUBSET Slots
        /\ tpc' = [tpc EXCEPT ![m] = to]
        /\ todo' = [todo EXCEPT ![m] = left]
        /\ cache' = IF changed THEN [cache EXCEPT ![m][s] = Health(s)] ELSE cache
        /\ UNCHANGED <<slots, state, slot, told, writers, account>>
    BY <1>1, <1>3 DEF MonitorCheck, Goto, IInv, TypeOK
  <2>2. s \in Slots
    BY <2>1, LeastSlot
  <2>3. left \in SUBSET Slots /\ (to = "info" => left # {}) /\ to \in {"info", "check"}
    BY <2>1
  <2>4. cache' \in [Monitors -> [Slots -> Healths]] /\ told' \in [Monitors -> SUBSET Clients]
    <3>1. Health(s) \in Healths
      BY <2>2, HealthType
    <3>2. cache \in [Monitors -> [Slots -> Healths]] /\ told' = told
      BY <2>1 DEF IInv, TypeOK
    <3> HIDE DEF s, changed
    <3>3. QED
      BY <2>1, <2>2, <3>1, <3>2 DEF IInv, TypeOK
  <2> HIDE DEF left, to
  <2>5. QED
    BY <1>1, <2>1, <2>3, <2>4, ThreadStep
<1>4. CASE MonitorDeath(m)
  <2> DEFINE s == Min(todo[m])
             named == {pid[s]} \cap {c \in Clients : state[c] = "crashed"}
  <2>1. /\ tpc' = [tpc EXCEPT ![m] = "check"] /\ todo' = [todo EXCEPT ![m] = todo[m] \ {s}]
        /\ told' = [told EXCEPT ![m] = told[m] \cup named]
        /\ UNCHANGED <<slots, state, slot, cache, writers, account>>
    BY <1>1, <1>4 DEF MonitorDeath, Goto, IInv, TypeOK
  <2>2. named \in SUBSET Clients
    OBVIOUS
  <2>3. todo[m] \ {s} \in SUBSET Slots
    BY <1>1 DEF IInv, TypeOK
  <2> HIDE DEF s, named
  <2>4. cache' \in [Monitors -> [Slots -> Healths]] /\ told' \in [Monitors -> SUBSET Clients]
    BY <2>1, <2>2 DEF IInv, TypeOK
  <2>5. QED
    BY <1>1, <2>1, <2>3, <2>4, ThreadStep
<1>5. QED
  BY <1>2, <1>3, <1>4 DEF Round

\* Cleanup starts when no other is under way, looks for a stale slot, and ends.
LEMMA CleanupStep ==
  ASSUME IInv, NEW c \in Clients, CleanupStart(c) \/ CleanupLook(c) \/ CleanupEnd(c)
  PROVE  IInv'
<1>1. cache' \in [Monitors -> [Slots -> Healths]] /\ told' \in [Monitors -> SUBSET Clients]
  BY DEF CleanupStart, CleanupLook, CleanupEnd, IInv, TypeOK
<1>2. UNCHANGED <<slots, state, slot, writers, account>>
  BY DEF CleanupStart, CleanupLook, CleanupEnd
<1>3. CASE CleanupStart(c)
  <2>1. ~Locked /\ tpc' = [tpc EXCEPT ![c] = "sweep"] /\ todo' = [todo EXCEPT ![c] = Slots]
    BY <1>3 DEF CleanupStart, Goto
  <2>2. QED
    BY <1>1, <1>2, <2>1, ThreadStep
<1>4. CASE CleanupLook(c)
  <2> DEFINE stale == {s \in todo[c] : Stale(s)}
             first == Min(stale)
             left == {s \in todo[c] : s >= first}
  <2>1. /\ stale # {} /\ tpc[c] = "sweep"
        /\ tpc' = [tpc EXCEPT ![c] = "free"] /\ todo' = [todo EXCEPT ![c] = left]
    BY <1>4 DEF CleanupLook, Goto, IInv, TypeOK
  <2>2. todo[c] \in SUBSET Slots
    BY DEF IInv, TypeOK
  <2>3. first \in stale
    BY <2>1, <2>2, LeastSlot
  <2>4. first \in todo[c] /\ first \in Nat /\ active[first]
    BY <2>2, <2>3, ProcessTableAssumption DEF Stale
  <2> HIDE DEF first
  <2>5. first \in left /\ left \in SUBSET Slots /\ left \in SUBSET Nat
    <3>1. first >= first
      BY <2>4
    <3>2. first \in left
      BY <2>4, <3>1
    <3>3. Slots \subseteq Nat
      BY ProcessTableAssumption
    <3>4. QED
      BY <2>2, <3>2, <3>3
  <2>6. Min(left) \in left /\ Min(left) <= first
    BY <2>5, MinIsLeast
  <2>7. Min(left) = first
    BY <2>4, <2>5, <2>6
  <2> HIDE DEF left
  <2>8. QED
    BY <1>1, <1>2, <2>1, <2>4, <2>5, <2>7, ThreadStep
<1>5. CASE CleanupEnd(c)
  <2> DEFINE to == IF c \in Monitors THEN "rest" ELSE "off"
  <2>1. tpc' = [tpc EXCEPT ![c] = to] /\ todo' = [todo EXCEPT ![c] = {}]
    BY <1>5 DEF CleanupEnd, Goto
  <2>2. to \in {"off", "rest"}
    OBVIOUS
  <2> HIDE DEF to
  <2>3. QED
    BY <1>1, <1>2, <2>1, <2>2, ThreadStep
<1>6. QED
  BY <1>3, <1>4, <1>5

------------------------------------------------------------------------------
(* The theorems.                                                           *)

\* The table starts empty.
LEMMA Initially == Init => IInv
<1> SUFFICES ASSUME Init PROVE IInv
  OBVIOUS
<1>1. TypeOK
  <2>1. 0 \in 0..(Wrap - 1) /\ 0 \in 0..MaxRestores /\ Oldest \in Ages
    BY AgesHave, ProcessTableAssumption, FS_CardinalityType
  <2>2. QED
    BY <2>1, ProcessTableAssumption DEF Init, TypeOK, Healths
<1>2. TodoReady /\ OneCleanup /\ NamedInUse /\ TakenAccounted /\ NoneExpelled
  BY ProcessTableAssumption DEF Init, TodoReady, OneCleanup, NamedInUse, TakenAccounted, NoneExpelled, Running
<1>3. CountIsActive
  <2>1. {s \in Slots : active[s]} = {}
    BY DEF Init
  <2>2. Used = 0
    BY <2>1, FS_EmptySet DEF Used
  <2>3. 0 % Wrap = 0
    BY ProcessTableAssumption, FS_CardinalityType, SmallRest
  <2>4. QED
    BY <2>2, <2>3 DEF Init, CountIsActive
<1>4. QED
  BY <1>1, <1>2, <1>3 DEF IInv

\* Every step keeps the invariant.
LEMMA Inductive == IInv /\ [Next]_vars => IInv'
<1> SUFFICES ASSUME IInv, [Next]_vars PROVE IInv'
  OBVIOUS
<1>1. CASE Tick
  BY <1>1, AgeStep
<1>2. ASSUME NEW c \in Clients, Client(c) PROVE IInv'
  <2>1. CASE Register(c)
    BY <2>1, RegisterStep
  <2>2. CASE UpdateHeartbeat(c)
    BY <2>2, AgeStep
  <2>3. CASE Shutdown(c)
    BY <1>2, <2>3, ShutdownStep DEF Client
  <2>4. CASE Crash(c)
    BY <2>4, CrashStep
  <2>5. CASE c \in Monitors /\ (StartMonitor(c) \/ StopMonitor(c))
    BY <2>5, SwitchStep
  <2>6. QED
    BY <1>2, <2>1, <2>2, <2>3, <2>4, <2>5 DEF Client
<1>7. ASSUME NEW c \in Clients, Overwrite(c) PROVE IInv'
  BY <1>7, RestoreStep, LastKeyStep DEF Overwrite
<1>3. ASSUME NEW c \in Clients, CleanupStart(c) \/ Cleanup(c) PROVE IInv'
  BY <1>3, CleanupStep, CleanupFreeStep DEF Cleanup
<1>4. ASSUME NEW m \in Monitors, Round(m) PROVE IInv'
  BY <1>4, RoundStep
<1>5. CASE UNCHANGED vars
  <2>1. UNCHANGED <<active, pid, age, processCount, state, slot, tpc, todo, cache, told, lastKey, restores, takenBy, gap, disturbed>>
    BY <1>5 DEF vars, slots, threads, writers, account
  <2>2. TypeOK' /\ TodoReady' /\ OneCleanup'
    BY <2>1, ThreadsUntouched DEF IInv, TypeOK
  <2>3. QED
    BY <2>1, <2>2, TableUntouched DEF IInv
<1>6. QED
  BY <1>1, <1>2, <1>3, <1>4, <1>5, <1>7 DEF Next

\* The inductive invariant holds throughout: who may free a slot, whose account
\* says so, and what the count counts.
THEOREM Invariance == Spec => []IInv
BY Initially, Inductive, PTL DEF Spec

\* The variables keep their types; the count of processes stays a 32-bit number.
THEOREM TypeCorrect == Spec => []TypeOK
<1>1. IInv => TypeOK
  BY DEF IInv
<1>2. QED
  BY <1>1, Invariance, PTL

\* A running process has its slot to itself, in use and in its own name, as long as
\* no other process frees it and neither a restored table nor the last key is
\* written over it, whatever tables are restored and however often.
THEOREM SlotsHaveOneOwner == Spec => []OwnersKept
<1>1. IInv => OwnersKept
  <2> SUFFICES ASSUME IInv, NEW c \in Running, slot[c] # NoSlot
               PROVE  active[slot[c]] /\ Owns(c) <=> takenBy[c] = NoClient
    BY DEF OwnersKept
  <2>1. c \in Clients /\ slot[c] \in Slots
    BY DEF Running, IInv, TypeOK
  <2>2. Owns(c) => active[slot[c]]
    BY <2>1 DEF Owns, IInv, NamedInUse
  <2>3. QED
    BY <2>1, <2>2 DEF IInv, TakenAccounted
<1>2. QED
  BY <1>1, Invariance, PTL

\* The count of processes is off the number of slots in use by what restores and
\* second unregistrations made of it, and by nothing until a cleanup takes a running
\* process's slot or a table is restored.  The clients go on after either.
THEOREM CountIsRight == Spec => []CountIsActive
<1>1. IInv => CountIsActive
  BY DEF IInv
<1>2. QED
  BY <1>1, Invariance, PTL

==============================================================================
