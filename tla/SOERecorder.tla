----------------------------- MODULE SOERecorder -----------------------------
(***************************************************************************)
(* The sequence-of-events recorder: a ring of records in shared memory     *)
(* that drops the oldest record when it is full, and readers that walk it. *)
(*                                                                         *)
(* Every operation is bracketed by lockWrite/unlockWrite or lockRead/      *)
(* unlockRead, but create never initializes the header's ProcessRWLock, so *)
(* each of these calls returns NOT_INITIALIZED at once and the result is   *)
(* ignored.  They are no steps here: what is left is the order of the      *)
(* accesses to the shared memory, one step each.                           *)
(*                                                                         *)
(* A record is its number, in the order record was called.  The 32 bytes   *)
(* are stored in two steps, between which a reader sees Torn.              *)
(***************************************************************************)
EXTENDS Naturals, FiniteSets, Sequences

CONSTANTS
  Recorders,    \* threads that call record and clear
  Readers,      \* threads that call query and getLatest
  Capacity,
  MaxRecords,   \* bound on the calls of record
  Blank, Torn   \* contents of a slot never written, or half written

\* create refuses capacity 0; with capacity 1 the ring keeps nothing.
ASSUME SOEAssumption ==
  /\ IsFiniteSet(Recorders) /\ IsFiniteSet(Readers)
  /\ Recorders \cap Readers = {}
  /\ Capacity \in Nat /\ Capacity >= 2
  /\ MaxRecords \in Nat
  /\ Blank \notin Nat /\ Torn \notin Nat

VARIABLES
  head, tail, slots,        \* the ring
  totalRecords, droppedRecords,
  issued,                   \* calls of record so far
  pc,                       \* control point of every thread
  h, t,                     \* head and tail as a thread loaded them
  number,                   \* recorders: the record being recorded
  limit, cur, result,       \* readers: maxCount, the slot to visit, the copies made
  met                       \* readers: changes of the ring begun since the read began

ring == <<head, tail, slots>>
counts == <<totalRecords, droppedRecords>>
local == <<number, limit, cur, result>>
vars == <<ring, counts, issued, pc, h, t, local, met>>

Threads == Recorders \cup Readers
Indices == 0..(Capacity - 1)
FollowingUnwrapped(i) == i + 1  \* mutant: the index does not wrap
Following(i) == (i + 1) % Capacity
BeforeOneOff(i, n) == (i + Capacity - n) % Capacity  \* mutant: starts at head
Before(i, n) == (i + Capacity - 1 - n) % Capacity
Distance(from, to) == IF to >= from THEN to - from ELSE Capacity - from + to

Init ==
  /\ head = 0 /\ tail = 0
  /\ slots = [i \in Indices |-> Blank]
  /\ totalRecords = 0 /\ droppedRecords = 0 /\ issued = 0
  /\ pc = [x \in Threads |-> "idle"]
  /\ h = [x \in Threads |-> 0]
  /\ t = [x \in Threads |-> 0]
  /\ number = [x \in Recorders |-> 0]
  /\ limit = [r \in Readers |-> 0]
  /\ cur = [r \in Readers |-> 0]
  /\ result = [r \in Readers |-> <<>>]
  /\ met = [r \in Readers |-> 0]

Goto(x, from, to) ==
  /\ pc[x] = from
  /\ pc' = [pc EXCEPT ![x] = to]

\* met counts changes up to 2, which stands for "two or more".
Meet(n) == met' = [r \in Readers |-> IF met[r] + n > 2 THEN 2 ELSE met[r] + n]

------------------------------------------------------------------------------
(* record                                                                  *)

RecordHead(w) ==
  /\ issued < MaxRecords
  /\ Goto(w, "idle", "tail")
  /\ issued' = issued + 1
  /\ number' = [number EXCEPT ![w] = issued']
  /\ h' = [h EXCEPT ![w] = head]
  /\ Meet(1)
  /\ UNCHANGED <<ring, counts, t, limit, cur, result>>

\* Mutant: the ring never counts as full.
RecordTailNeverFull(w) ==
  /\ Goto(w, "tail", "store")
  /\ t' = [t EXCEPT ![w] = tail]
  /\ UNCHANGED <<ring, counts, issued, h, local, met>>

RecordTail(w) ==
  /\ Goto(w, "tail", IF Following(h[w]) = tail THEN "drop" ELSE "store")
  /\ t' = [t EXCEPT ![w] = tail]
  /\ UNCHANGED <<ring, counts, issued, h, local, met>>

\* Full: the oldest record gives way.
RecordDrop(w) ==
  /\ Goto(w, "drop", "dropped")
  /\ tail' = Following(t[w])
  /\ UNCHANGED <<head, slots, counts, issued, h, t, local, met>>

RecordDropped(w) ==
  /\ Goto(w, "dropped", "store")
  /\ droppedRecords' = droppedRecords + 1
  /\ UNCHANGED <<ring, totalRecords, issued, h, t, local, met>>

RecordStore(w) ==
  /\ Goto(w, "store", "stored")
  /\ slots' = [slots EXCEPT ![h[w]] = Torn]
  /\ UNCHANGED <<head, tail, counts, issued, h, t, local, met>>

\* Mutant: the record goes to the slot after head.
RecordStoredNext(w) ==
  /\ Goto(w, "stored", "publish")
  /\ slots' = [slots EXCEPT ![Following(h[w])] = number[w]]
  /\ UNCHANGED <<head, tail, counts, issued, h, t, local, met>>

RecordStored(w) ==
  /\ Goto(w, "stored", "publish")
  /\ slots' = [slots EXCEPT ![h[w]] = number[w]]
  /\ UNCHANGED <<head, tail, counts, issued, h, t, local, met>>

RecordPublish(w) ==
  /\ Goto(w, "publish", "count")
  /\ head' = Following(h[w])
  /\ UNCHANGED <<tail, slots, counts, issued, h, t, local, met>>

RecordCount(w) ==
  /\ Goto(w, "count", "idle")
  /\ totalRecords' = totalRecords + 1
  /\ UNCHANGED <<ring, droppedRecords, issued, h, t, local, met>>

------------------------------------------------------------------------------
(* clear                                                                   *)

ClearHead(w) ==
  /\ Goto(w, "idle", "clearTail")
  /\ head' = 0
  /\ Meet(2)
  /\ UNCHANGED <<tail, slots, counts, issued, h, t, local>>

ClearTail(w) ==
  /\ Goto(w, "clearTail", "idle")
  /\ tail' = 0
  /\ UNCHANGED <<head, slots, counts, issued, h, t, local, met>>

------------------------------------------------------------------------------
(* query walks from tail to head and stops at maxCount matches; getLatest  *)
(* walks back from head.                                                   *)

ReadHead(r, n) ==
  /\ \/ Goto(r, "idle", "queryTail")
     \/ Goto(r, "idle", "latestTail")
  /\ h' = [h EXCEPT ![r] = head]
  /\ limit' = [limit EXCEPT ![r] = n]
  /\ result' = [result EXCEPT ![r] = <<>>]
  /\ met' = [met EXCEPT ![r] = Cardinality({w \in Recorders : pc[w] # "idle"})]
  /\ UNCHANGED <<ring, counts, issued, t, number, cur>>

QueryTail(r) ==
  /\ Goto(r, "queryTail", "query")
  /\ t' = [t EXCEPT ![r] = tail]
  /\ cur' = [cur EXCEPT ![r] = tail]
  /\ UNCHANGED <<ring, counts, issued, h, number, limit, result, met>>

\* A record the condition rejects is passed over.
QueryVisit(r) ==
  /\ cur[r] # h[r] /\ Len(result[r]) < limit[r]
  /\ Goto(r, "query", "query")
  /\ cur' = [cur EXCEPT ![r] = Following(@)]
  /\ \/ result' = [result EXCEPT ![r] = Append(@, slots[cur[r]])]
     \/ UNCHANGED result
  /\ UNCHANGED <<ring, counts, issued, h, t, number, limit, met>>

QueryEnd(r) ==
  /\ cur[r] = h[r] \/ Len(result[r]) >= limit[r]
  /\ Goto(r, "query", "idle")
  /\ UNCHANGED <<ring, counts, issued, h, t, local, met>>

LatestTail(r) ==
  /\ Goto(r, "latestTail", "latest")
  /\ t' = [t EXCEPT ![r] = tail]
  /\ limit' = [limit EXCEPT ![r] = IF @ <= Distance(tail, h[r]) THEN @ ELSE Distance(tail, h[r])]
  /\ UNCHANGED <<ring, counts, issued, h, number, cur, result, met>>

LatestCopy(r) ==
  /\ Len(result[r]) < limit[r]
  /\ Goto(r, "latest", "latest")
  /\ result' = [result EXCEPT ![r] = Append(@, slots[Before(h[r], Len(@))])]
  /\ UNCHANGED <<ring, counts, issued, h, t, number, limit, cur, met>>

LatestEnd(r) ==
  /\ Len(result[r]) = limit[r]
  /\ Goto(r, "latest", "idle")
  /\ UNCHANGED <<ring, counts, issued, h, t, local, met>>

------------------------------------------------------------------------------
Record(w) ==
  \/ RecordHead(w) \/ RecordTail(w) \/ RecordDrop(w) \/ RecordDropped(w)
  \/ RecordStore(w) \/ RecordStored(w) \/ RecordPublish(w) \/ RecordCount(w)

Read(r) ==
  \/ \E n \in 1..Capacity : ReadHead(r, n)
  \/ QueryTail(r) \/ QueryVisit(r) \/ QueryEnd(r)
  \/ LatestTail(r) \/ LatestCopy(r) \/ LatestEnd(r)

Next ==
  \/ \E w \in Recorders : Record(w) \/ ClearHead(w) \/ ClearTail(w)
  \/ \E r \in Readers : Read(r)

Spec == Init /\ [][Next]_vars

\* The same without clear.
RecordingSpec ==
  Init /\ [][(\E w \in Recorders : Record(w)) \/ (\E r \in Readers : Read(r))]_vars

------------------------------------------------------------------------------
Quiet == \A w \in Recorders : pc[w] = "idle"
Clearing == \E w \in Recorders : pc[w] = "clearTail"
Window == [i \in 1..Distance(tail, head) |-> slots[(tail + i - 1) % Capacity]]

\* The variables keep their types.
TypeOK ==
  /\ head \in Indices /\ tail \in Indices
  /\ slots \in [Indices -> 1..MaxRecords \cup {Blank, Torn}]
  /\ totalRecords \in 0..MaxRecords /\ droppedRecords \in 0..MaxRecords
  /\ issued \in 0..MaxRecords
  /\ h \in [Threads -> Indices] /\ t \in [Threads -> Indices]
  /\ number \in [Recorders -> 0..MaxRecords]
  /\ limit \in [Readers -> 0..Capacity]
  /\ cur \in [Readers -> Indices]
  /\ \A r \in Readers : Len(result[r]) <= limit[r]
  /\ met \in [Readers -> 0..(2 + Cardinality(Recorders))]

\* With a single recorder the window between tail and head holds the newest
\* records, none missing among them, whatever the readers do.
Newest == INSTANCE RecentRecords WITH
  Depth <- Capacity - 1,
  kept <- IF Clearing THEN <<>> ELSE Window,
  newest <- totalRecords + Cardinality({w \in Recorders : pc[w] = "count"})
KeepsNewest == Newest!Spec

\* query and getLatest return whole records, in order and without repeats, when
\* at most one record call meets the read and no clear does: the slot kept free
\* absorbs one record, and nothing else protects a reader.
ReadsInOrder ==
  \A r \in Readers : met[r] <= 1 =>
    /\ \A i \in 1..Len(result[r]) : result[r][i] \in Nat
    /\ \A i, j \in 1..Len(result[r]) : i < j =>
         IF pc[r] = "latest" THEN result[r][i] > result[r][j]
                             ELSE pc[r] = "query" => result[r][i] < result[r][j]

\* getLatest starts at the record published last when it loaded head.
LatestIsNewest ==
  \A r \in Readers :
    (pc[r] = "latest" /\ met[r] = 0 /\ result[r] # <<>>)
      => result[r][1] = totalRecords

\* Without clear, once no record is under way each one recorded is either in the
\* ring or counted as dropped.
RecordsAccounted ==
  Quiet => totalRecords = droppedRecords + Cardinality({i \in DOMAIN Window : Window[i] \in Nat})

==============================================================================
