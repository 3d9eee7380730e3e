------------------------------- MODULE KeyIndex ------------------------------
(***************************************************************************)
(* The key directory of SharedDataPool: a hash table of chains through an  *)
(* entry table, both in the segment.  registerKey and the process calls    *)
(* run under the write lock and findKey under the read lock, so each is    *)
(* one step here; updateHeartbeat takes no lock and is a single store.     *)
(*                                                                         *)
(* Entries are numbered from 1 to the number of points, since 0 ends a     *)
(* chain, but the segment has room for the entries 0 .. Total - 1 only.    *)
(* The bytes of entry Total are the first 24 bytes of process slot 0:      *)
(*   key            over  pid and padding                                  *)
(*   index, next    over  the low and high half of lastHeartbeat           *)
(*   type           over  the first byte of eventReadIndex                 *)
(* so the calls on slot 0 write into that entry, and it into the slot.     *)
(*                                                                         *)
(* A snapshot takes the tables with it, but a restore leaves the header as *)
(* it is, and the counters of registered keys are in the header.           *)
(***************************************************************************)
EXTENDS Naturals, FiniteSets, FiniteSetsExt

CONSTANTS
  Keys, Types, Buckets,
  Hash,         \* hashKey
  Count,        \* points per type: yxCount, ycCount, ...
  MaxKeys,      \* bound: how many keys the clients register
  MaxSessions,  \* bound: how often the pool is created
  MaxSaves,     \* bound: snapshots taken
  ZeroType,     \* the type whose code is 0
  NoKey,        \* a key nobody registers: zeroed bytes, or half overwritten
  Stamps        \* times of heartbeats, as <<low half, high half>>

ASSUME KeyIndexAssumption ==
  /\ IsFiniteSet(Types) /\ ZeroType \in Types
  /\ Hash \in [Keys -> Buckets]
  /\ Count \in [Types -> Nat]
  /\ MaxKeys \in Nat /\ MaxSessions \in Nat /\ MaxSaves \in Nat
  /\ NoKey \notin Keys
  /\ Stamps \subseteq Nat \X Nat

VARIABLES
  hashTable,    \* the head of each chain
  indexTable,   \* the entries 1 .. Total
  indexCount,
  typeIndex,    \* yxIndex, ycIndex, ...: points of each type handed out
  slotActive,   \* processInfo[0].active
  given,        \* what registerKey returned to its callers since create
  session,      \* how often the pool was created
  snapshot,     \* the tables and the slot in the snapshot file, and given beside them
  saves,        \* how many snapshots were taken
  foreign       \* a restore since create brought other keys than were registered

directory == <<hashTable, indexTable, indexCount, typeIndex, given>>
file == <<snapshot, saves>>
vars == <<directory, slotActive, session, file, foreign>>

Total == MapThenSumSet(LAMBDA ty : Count[ty], Types)
Nowhere == [ok |-> FALSE]
Place(ty, i) == [ok |-> TRUE, type |-> ty, index |-> i]
Empty == [key |-> NoKey, index |-> 0, next |-> 0, type |-> ZeroType]

Tables == [hash |-> hashTable, index |-> indexTable, slot |-> slotActive,
           given |-> given, foreign |-> foreign]

Init ==
  /\ hashTable = [b \in Buckets |-> 0]
  /\ indexTable = [i \in 1..Total |-> Empty]
  /\ indexCount = 0
  /\ typeIndex = [ty \in Types |-> 0]
  /\ slotActive = FALSE
  /\ given = [k \in Keys |-> Nowhere]
  /\ session = 1 /\ foreign = FALSE
  /\ snapshot = Tables /\ saves = 0

------------------------------------------------------------------------------
\* The chain walk for key k over entries up to limit: where it stops after at
\* most Total links.  A walk still on a live entry then goes round in a circle,
\* which the code notices by a loop counter.
Walk(k, limit) ==
  LET Stop(i) == i \notin 1..limit \/ indexTable[i].key = k
      At[n \in 0..Total] ==
        IF n = 0 THEN hashTable[Hash[k]]
        ELSE IF Stop(At[n - 1]) THEN At[n - 1] ELSE indexTable[At[n - 1]].next
  IN  At[Total]

\* Mutant: the loop counter is not told from a hit.
HitsInCircle(k, limit) == Walk(k, limit) \in 1..limit
Hits(k, limit) ==
  LET i == Walk(k, limit) IN i \in 1..limit /\ indexTable[i].key = k

\* findKey.
Find(k) ==
  LET limit == IF indexCount < Total THEN indexCount ELSE Total
      e == indexTable[Walk(k, limit)]
  IN  IF Hits(k, limit) THEN Place(e.type, e.index) ELSE Nowhere

\* The switch on the type in registerKey: is a point left, and which counter is
\* moved on.  Mutant: off by one.
HasRoomOneMore(ty) == typeIndex[ty] <= Count[ty]
HasRoom(ty) == typeIndex[ty] < Count[ty]

Taken(ty) == [typeIndex EXCEPT ![ty] = @ + 1]

\* The new entry is put in front of its chain.  Mutant: the rest of the chain is
\* dropped.
NewEntryCutsChain(k, ty) == [key |-> k, index |-> typeIndex[ty], next |-> 0, type |-> ty]
NewEntry(k, ty) ==
  [key |-> k, index |-> typeIndex[ty], next |-> hashTable[Hash[k]], type |-> ty]

\* registerKey, on the path that registers.  The others (the key is known, the
\* chain is circular, the type has no point left) leave everything as it is.
RegisterKey(k, ty) ==
  /\ indexCount < MaxKeys
  /\ Walk(k, Total) \notin 1..Total
  /\ HasRoom(ty)
  /\ typeIndex' = Taken(ty)
  /\ indexCount' = indexCount + 1
  /\ indexTable' = [indexTable EXCEPT ![indexCount'] = NewEntry(k, ty)]
  /\ hashTable' = [hashTable EXCEPT ![Hash[k]] = indexCount']
  /\ given' = [given EXCEPT ![k] = Place(ty, typeIndex[ty])]
  /\ UNCHANGED <<slotActive, session, file, foreign>>

------------------------------------------------------------------------------
(* The calls on process slot 0, as the entry table sees them.              *)

Shared(e) ==
  /\ indexTable' = [indexTable EXCEPT ![Total] = e]
  /\ UNCHANGED <<hashTable, indexCount, typeIndex, given, session, file, foreign>>

\* registerProcess: pid, lastHeartbeat and eventReadIndex = 0.
RegisterProcess(now) ==
  /\ ~slotActive /\ slotActive' = TRUE
  /\ Shared([key |-> NoKey, index |-> now[1], next |-> now[2], type |-> ZeroType])

\* Nothing asks whether the slot is in use: a process whose slot was taken away
\* goes on beating.
UpdateHeartbeat(now) ==
  /\ UNCHANGED slotActive
  /\ Shared([indexTable[Total] EXCEPT !.index = now[1], !.next = now[2]])

\* unregisterProcess, which may come twice, or cleanupDeadProcesses finding the
\* slot stale: pid = 0.
ReleaseProcess ==
  /\ slotActive' = FALSE
  /\ Shared([indexTable[Total] EXCEPT !.key = NoKey])

------------------------------------------------------------------------------
(* Snapshots and restarts.                                                 *)

\* saveSnapshot of the pool or of PersistentStorage.
SaveSnapshot ==
  /\ saves < MaxSaves /\ saves' = saves + 1
  /\ snapshot' = Tables
  /\ UNCHANGED <<directory, slotActive, session, foreign>>

\* The pool is created again, after a reboot or by name.
Create ==
  /\ session < MaxSessions /\ session' = session + 1
  /\ hashTable' = [b \in Buckets |-> 0]
  /\ indexTable' = [i \in 1..Total |-> Empty]
  /\ indexCount' = 0
  /\ typeIndex' = [ty \in Types |-> 0]
  /\ slotActive' = FALSE
  /\ given' = [k \in Keys |-> Nowhere]
  /\ foreign' = FALSE
  /\ UNCHANGED file

\* loadSnapshot or restore: everything behind the header.
LoadSnapshot ==
  /\ saves > 0
  /\ hashTable' = snapshot.hash /\ indexTable' = snapshot.index
  /\ slotActive' = snapshot.slot
  /\ foreign' = (foreign \/ snapshot.foreign \/ snapshot.given # given)
  /\ UNCHANGED <<indexCount, typeIndex, given, session, file>>

Next ==
  \/ \E k \in Keys, ty \in Types : RegisterKey(k, ty)
  \/ \E now \in Stamps : RegisterProcess(now) \/ UpdateHeartbeat(now)
  \/ ReleaseProcess \/ SaveSnapshot \/ Create \/ LoadSnapshot

Spec == Init /\ [][Next]_vars

------------------------------------------------------------------------------
\* findKey returns for ever what registerKey returned, and finds nothing else.  Two
\* things can break this and nothing else does: when the entry table is full, the
\* process calls reach the bucket that the last entry heads, and no other; and a
\* restore is harmless if its snapshot was taken with the same keys at the same
\* places, in this session or an earlier one.
FindAgrees ==
  ~foreign => \A k \in Keys : hashTable[Hash[k]] # Total => Find(k) = given[k]

\* Every key is given a point that there is, and no two keys the same, even when a
\* restore came between.
PointsDistinct ==
  \A j, k \in Keys : given[j].ok =>
    given[j].index < Count[given[j].type] /\ (j # k => given[j] # given[k])

\* After a restore of other keys chains may run into each other or into a circle,
\* but findKey still finds a key nowhere, or at the place that it was given in this
\* session or in the one saved, never at that of another key, unless it meets the
\* entry that the process calls write into.
FindsOwnPlaces ==
  \A k \in Keys : Walk(k, indexCount) # Total /\ ~snapshot.foreign =>
    Find(k) \in {Nowhere, given[k], snapshot.given[k]}

==============================================================================
