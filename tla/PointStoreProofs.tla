-------------------------- MODULE PointStoreProofs ---------------------------
(***************************************************************************)
(* Proofs about PointStore for any number of threads, points, keys and     *)
(* samples: the invariants of its run, and that it implements              *)
(* AtomicPoints.  The inductive invariant is PointStore's IInv.            *)
(*                                                                         *)
(* Then about BatchStore, what is left of the lock's promise when batches  *)
(* run beside the other calls: plain stores still exclude each other, and  *)
(* a point that no batch names is never left half written.  The reader     *)
(* count is useless once a batch has run, so that invariant does not speak *)
(* of it: only the writer's own unlock ends its write lock, and a plain    *)
(* store has no unlock before its last.                                    *)
(***************************************************************************)
EXTENDS BatchStore, FiniteSetTheorems, TLAPS

------------------------------------------------------------------------------
(* Facts about the lock and about the two groups of threads.               *)

\* What a granted request and an unlock make of a lock is a lock again.
LEMMA LockShape ==
  ASSUME NEW l \in Locks, NEW t \in Threads, NEW n \in Int
  PROVE  /\ [l EXCEPT !.readers = n, !.phase = "read"] \in Locks
         /\ [l EXCEPT !.writer = t, !.phase = "write"] \in Locks
<1>1. [l EXCEPT !.readers = n, !.phase = "read"] \in Locks
  BY DEF Locks
<1>2. [l EXCEPT !.writer = t, !.phase = "write"] \in Locks
  BY DEF Locks
<1>3. QED
  BY <1>1, <1>2

LEMMA UnlockShape ==
  ASSUME NEW l \in Locks, NEW t \in Threads
  PROVE  /\ AfterUnlock(l, t) \in Locks
         /\ l.writer = t => AfterUnlock(l, t).writer = NoThread /\ AfterUnlock(l, t).readers = l.readers
         /\ l.writer # t => /\ AfterUnlock(l, t).writer = l.writer
                            /\ AfterUnlock(l, t).readers = l.readers - 1
                            /\ AfterUnlock(l, t).phase = l.phase
<1>1. CASE l.writer = t
  BY <1>1 DEF Locks, AfterUnlock
<1>2. CASE l.writer # t
  BY <1>2 DEF Locks, AfterUnlock
<1>3. QED
  BY <1>1, <1>2

\* The two groups are finite and disjoint, and the program counter of a thread
\* tells whether it is in them.
LEMMA Groups ==
  /\ IsFiniteSet(Reading) /\ Cardinality(Reading) \in Nat
  /\ \A t \in Threads : t \in Reading <=> pc[t] \in FindSection \cup GetSection
  /\ \A t \in Threads : t \in Writing <=> pc[t] \in SetSection
  /\ Reading \subseteq Threads /\ Writing \subseteq Threads
  /\ Reading \cap Writing = {}
<1>1. Reading \subseteq Threads /\ Writing \subseteq Threads
  BY DEF Reading, Writing
<1>2. IsFiniteSet(Reading) /\ Cardinality(Reading) \in Nat
  BY <1>1, ThreadAssumption, FS_Subset, FS_CardinalityType
<1>3. QED
  BY <1>1, <1>2 DEF Reading, Writing, FindSection, GetSection, SetSection

\* A step of one thread that stays in its group, or outside both, leaves the
\* groups as they are.
LEMMA GroupsStay ==
  ASSUME pc \in [Threads -> PCs], NEW t \in Threads, NEW to \in PCs,
         pc' = [pc EXCEPT ![t] = to],
         t \in Reading <=> to \in FindSection \cup GetSection,
         t \in Writing <=> to \in SetSection
  PROVE  Reading' = Reading /\ Writing' = Writing
BY DEF Reading, Writing, FindSection, GetSection, SetSection

\* A thread that enters the readers' group raises its size by one.
LEMMA ReaderEnters ==
  ASSUME pc \in [Threads -> PCs], NEW t \in Threads, NEW to \in FindSection \cup GetSection,
         pc' = [pc EXCEPT ![t] = to], pc[t] \in Waiting
  PROVE  /\ Reading' = Reading \cup {t} /\ Writing' = Writing
         /\ Cardinality(Reading') = Cardinality(Reading) + 1
<1>1. t \notin Reading
  BY DEF Reading, FindSection, GetSection, Waiting
<1>2. Reading' = Reading \cup {t} /\ Writing' = Writing
  BY DEF Reading, Writing, FindSection, GetSection, SetSection, Waiting, PCs
<1>3. QED
  BY <1>1, <1>2, Groups, FS_AddElement

\* A thread that leaves the readers' group lowers its size by one.
LEMMA ReaderLeaves ==
  ASSUME pc \in [Threads -> PCs], NEW t \in Threads, NEW to \in {"idle"} \cup Waiting,
         pc' = [pc EXCEPT ![t] = to], t \in Reading
  PROVE  /\ Reading' = Reading \ {t} /\ Writing' = Writing
         /\ Cardinality(Reading') = Cardinality(Reading) - 1
<1>1. Reading' = Reading \ {t} /\ Writing' = Writing
  BY DEF Reading, Writing, FindSection, GetSection, SetSection, Waiting, PCs
<1>2. QED
  BY <1>1, Groups, FS_RemoveElement

\* A lock that counts no reader has none inside.
LEMMA NoReaders == Cardinality(Reading) = 0 <=> Reading = {}
  BY Groups, FS_EmptySet

------------------------------------------------------------------------------
(* Every step keeps IInv.                                                  *)

LEMMA InitIInv == Init => IInv
<1>1. SUFFICES ASSUME Init PROVE IInv
  OBVIOUS
<1>2. Reading = {} /\ Writing = {}
  BY <1>1 DEF Init, Reading, Writing, FindSection, GetSection, SetSection
<1>3. TypeOK
  BY <1>1 DEF Init, TypeOK, FreeLock, Locks, Contents, Triples, Zero, Calls, NoCall, PCs
<1>4. LockAccounted
  BY <1>1, <1>2, NoReaders, ThreadAssumption DEF Init, LockAccounted, FreeLock
<1>5. WriterAlone /\ PointsWhole /\ CallsReady /\ StoreProgress /\ FetchProgress
  BY <1>1, <1>2 DEF Init, WriterAlone, PointsWhole, Whole, CallsReady, StoreProgress, FetchProgress,
     GetSection, SetSection
<1>6. QED
  BY <1>3, <1>4, <1>5 DEF IInv

\* Starting a call touches nothing but the caller's own program counter and
\* arguments.
LEMMA CallKeeps ==
  ASSUME IInv, NEW t \in Threads, NEW call \in Calls, NEW start \in Waiting,
         Call(t, call, start),
         start = "find_lock" => call.key \in Keys,
         start \in {"get_lock", "set_lock"} => call.point \in Points,
         start = "set_lock" => call.kind = "set",
         call.kind = "set" => call.sample \in Samples
  PROVE  IInv'
<1> USE DEF IInv, Call, Goto
<1>1. TypeOK'
  BY DEF TypeOK, PCs
<1>2. Reading' = Reading /\ Writing' = Writing
  <2>1. t \notin Reading /\ t \notin Writing
    BY DEF Reading, Writing, FindSection, GetSection, SetSection
  <2>2. QED
    BY <2>1, GroupsStay DEF TypeOK, PCs, Waiting, FindSection, GetSection, SetSection
<1>3. LockAccounted' /\ WriterAlone'
  BY <1>2 DEF LockAccounted, WriterAlone
<1>4. PointsWhole'
  BY <1>2 DEF PointsWhole, Whole, TypeOK, Writing, SetSection
<1>5. CallsReady' /\ StoreProgress' /\ FetchProgress'
  BY DEF CallsReady, StoreProgress, FetchProgress, TypeOK, GetSection, SetSection, Waiting
<1>6. QED
  BY <1>1, <1>3, <1>4, <1>5

LEMMA BeginKeeps ==
  ASSUME IInv, NEW t \in Threads, Begin(t)
  PROVE  IInv'
<1>1. ASSUME NEW p \in Points, GetByIndex(t, p) PROVE IInv'
  BY <1>1, CallKeeps, PointAssumption DEF GetByIndex, Calls, Contents, Waiting
<1>2. ASSUME NEW p \in Points, NEW s \in Samples, SetByIndex(t, p, s) PROVE IInv'
  BY <1>2, CallKeeps, PointAssumption DEF SetByIndex, Calls, Contents, Waiting
<1>3. ASSUME NEW k \in Keys, GetByKey(t, k) PROVE IInv'
  BY <1>3, CallKeeps, PointAssumption DEF GetByKey, Calls, Contents, Waiting
<1>4. ASSUME NEW k \in Keys, NEW s \in Samples, SetByKey(t, k, s) PROVE IInv'
  BY <1>4, CallKeeps, PointAssumption DEF SetByKey, Calls, Contents, Waiting
<1>5. QED
  BY <1>1, <1>2, <1>3, <1>4 DEF Begin

\* A reader is let in: no thread is writing, so it finds every point whole.
LEMMA ReadLockKeeps ==
  ASSUME IInv, NEW t \in Threads,
         FindLock(t) \/ GetLock(t)
  PROVE  IInv'
<1> USE DEF IInv
<1> DEFINE to == IF pc[t] = "find_lock" THEN "find_walk" ELSE "get_val"
<1>1. /\ pc[t] \in {"find_lock", "get_lock"} /\ pc' = [pc EXCEPT ![t] = to]
      /\ CanReadLock(lock, t) /\ lock' = AfterReadLock(lock, t)
      /\ UNCHANGED <<values, timestamps, qualities, op, out, view>>
  BY DEF FindLock, GetLock, ReadLock, Goto
<1>2. lock.writer = NoThread /\ Writing = {}
  <2>1. t \notin Writing
    BY <1>1 DEF Writing, SetSection
  <2>2. lock.writer # t
    BY <2>1 DEF LockAccounted
  <2>3. lock.writer = NoThread
    BY <1>1, <2>2 DEF CanReadLock
  <2>4. QED
    BY <2>3, ThreadAssumption, Groups DEF LockAccounted
<1>3. /\ Writing' = {} /\ Cardinality(Reading') = Cardinality(Reading) + 1
  BY <1>1, <1>2, ReaderEnters DEF TypeOK, Waiting, FindSection, GetSection
<1>4. lock' = [lock EXCEPT !.readers = @ + 1, !.phase = "read"]
  BY <1>1, <1>2, ThreadAssumption DEF AfterReadLock, TypeOK, Locks
<1>5. TypeOK'
  <2>1. lock' \in Locks /\ lock'.readers >= 0
    <3>1. lock \in Locks /\ lock.readers + 1 \in Int /\ lock.readers + 1 >= 0
      BY DEF TypeOK, Locks
    <3>2. lock' \in Locks
      BY <1>4, <3>1, LockShape
    <3>3. lock'.readers = lock.readers + 1
      BY <1>4, <3>1 DEF Locks
    <3>4. QED
      BY <3>1, <3>2, <3>3
  <2>2. pc' \in [Threads -> PCs]
    BY <1>1 DEF TypeOK, PCs, FindSection, GetSection
  <2>3. QED
    BY <1>1, <2>1, <2>2 DEF TypeOK
<1>6. LockAccounted'
  BY <1>2, <1>3, <1>4, ThreadAssumption DEF LockAccounted, TypeOK, Locks
<1>7. WriterAlone' /\ PointsWhole'
  BY <1>1, <1>2, <1>3 DEF WriterAlone, PointsWhole, Whole
<1>8. CallsReady' /\ StoreProgress' /\ FetchProgress'
  BY <1>1 DEF CallsReady, StoreProgress, FetchProgress, TypeOK, GetSection, SetSection
<1>9. QED
  BY <1>5, <1>6, <1>7, <1>8

\* The writer is let in: nobody is inside.
LEMMA SetLockKeeps ==
  ASSUME IInv, NEW t \in Threads, SetLock(t)
  PROVE  IInv'
<1> USE DEF IInv
<1>1. /\ pc[t] = "set_lock" /\ pc' = [pc EXCEPT ![t] = "set_val"]
      /\ CanWriteLock(lock, t) /\ lock' = AfterWriteLock(lock, t)
      /\ UNCHANGED <<values, timestamps, qualities, op, out, view>>
  BY DEF SetLock, WriteLock, Goto
<1>2. t \notin Writing /\ t \notin Reading
  BY <1>1 DEF Writing, Reading, SetSection, FindSection, GetSection
<1>3. lock.writer = NoThread /\ lock.readers = 0
  BY <1>1, <1>2 DEF LockAccounted, CanWriteLock
<1>4. Writing = {} /\ Reading = {}
  BY <1>3, ThreadAssumption, Groups, NoReaders DEF LockAccounted
<1>5. Writing' = {t} /\ Reading' = {}
  BY <1>1, <1>4 DEF Writing, Reading, SetSection, FindSection, GetSection, TypeOK
<1>6. lock' = [lock EXCEPT !.writer = t, !.phase = "write"]
  BY <1>1, <1>3, ThreadAssumption DEF AfterWriteLock
<1>7. TypeOK'
  BY <1>1, <1>6 DEF TypeOK, Locks, PCs, SetSection
<1>8. LockAccounted'
  BY <1>3, <1>5, <1>6, FS_EmptySet DEF LockAccounted, TypeOK, Locks
<1>9. WriterAlone' /\ PointsWhole'
  BY <1>1, <1>4, <1>5 DEF WriterAlone, PointsWhole, Whole
<1>10. CallsReady' /\ StoreProgress' /\ FetchProgress'
  BY <1>1 DEF CallsReady, StoreProgress, FetchProgress, TypeOK, GetSection, SetSection
<1>11. QED
  BY <1>7, <1>8, <1>9, <1>10

\* The three stores.  The writer is alone, so no fetch is in progress that
\* could meet the point half written.
LEMMA StoreKeeps ==
  ASSUME IInv, NEW t \in Threads,
         SetValue(t) \/ SetTimestamp(t) \/ SetQuality(t)
  PROVE  IInv'
<1> USE DEF IInv
<1>1. /\ pc[t] \in {"set_val", "set_stamp", "set_qual"} /\ t \in Writing
      /\ \E to \in {"set_stamp", "set_qual", "set_unlock"} : pc' = [pc EXCEPT ![t] = to]
      /\ UNCHANGED <<lock, op, out, view>>
      /\ op[t].point \in Points /\ op[t].sample \in Samples
  BY DEF SetValue, SetTimestamp, SetQuality, Goto, Writing, SetSection, CallsReady
<1>2. Reading' = Reading /\ Writing' = Writing
  BY <1>1, Groups, GroupsStay DEF TypeOK, PCs, SetSection, FindSection, GetSection
<1>3. TypeOK'
  BY <1>1 DEF TypeOK, PCs, SetSection, SetValue, SetTimestamp, SetQuality, Contents
<1>4. LockAccounted' /\ WriterAlone'
  BY <1>1, <1>2 DEF LockAccounted, WriterAlone
<1>5. Writing = {t} /\ Reading = {}
  BY <1>1 DEF WriterAlone
<1>6. PointsWhole'
  BY <1>1, <1>2, <1>5 DEF PointsWhole, Whole, TypeOK, SetValue, SetTimestamp, SetQuality
<1>7. \A u \in Threads \ {t} : pc[u] \notin SetSection \cup FindSection \cup GetSection
  BY <1>5, Groups
<1>8. \A u \in Threads \ {t} : pc'[u] = pc[u]
  BY <1>1 DEF TypeOK
<1>9. CallsReady' /\ StoreProgress'
  BY <1>1, <1>7, <1>8 DEF CallsReady, StoreProgress, TypeOK, SetSection, GetSection,
     SetValue, SetTimestamp, SetQuality, Goto
<1>10. FetchProgress'
  BY <1>1, <1>7, <1>8 DEF FetchProgress, TypeOK, SetSection, GetSection
<1>11. QED
  BY <1>3, <1>4, <1>6, <1>9, <1>10

\* The lookup and the three loads.  A thread that fetches is a reader, so
\* nobody is writing and what it has copied stays what the arrays hold.
LEMMA LoadKeeps ==
  ASSUME IInv, NEW t \in Threads,
         FindWalk(t) \/ GetValue(t) \/ GetTimestamp(t) \/ GetQuality(t)
  PROVE  IInv'
<1> USE DEF IInv
<1>1. /\ pc[t] \in {"find_walk", "get_val", "get_stamp", "get_qual"}
      /\ \E to \in {"find_unlock", "get_stamp", "get_qual", "get_unlock"} :
           pc' = [pc EXCEPT ![t] = to]
      /\ UNCHANGED <<lock, values, timestamps, qualities, view>>
  BY DEF FindWalk, GetValue, GetTimestamp, GetQuality, Goto
<1>2. t \in Reading /\ t \notin Writing
  BY <1>1 DEF Reading, Writing, FindSection, GetSection, SetSection
<1>3. Reading' = Reading /\ Writing' = Writing
  BY <1>1, <1>2, GroupsStay DEF TypeOK, PCs, SetSection, FindSection, GetSection
<1>4. Writing = {}
  BY <1>2 DEF WriterAlone
<1>5. TypeOK'
  <2>1. /\ pc[t] = "find_walk" => op[t].key \in Keys
        /\ pc[t] # "find_walk" => op[t].point \in Points
    BY <1>1 DEF CallsReady, GetSection
  <2>2. pc' \in [Threads -> PCs]
    BY <1>1 DEF TypeOK, PCs, FindSection, GetSection
  <2>3. op' \in [Threads -> Calls] /\ out' \in [Threads -> Triples]
    <3>1. CASE FindWalk(t)
      BY <2>1, <3>1, PointAssumption DEF TypeOK, Calls, FindWalk, Goto
    <3>2. CASE GetValue(t) \/ GetTimestamp(t) \/ GetQuality(t)
      BY <2>1, <3>2 DEF TypeOK, Triples, GetValue, GetTimestamp, GetQuality, Goto
    <3>3. QED
      BY <3>1, <3>2
  <2>4. QED
    BY <1>1, <2>2, <2>3 DEF TypeOK
<1>6. LockAccounted' /\ WriterAlone'
  BY <1>1, <1>3 DEF LockAccounted, WriterAlone
<1>7. PointsWhole'
  BY <1>1, <1>3, <1>4 DEF PointsWhole, Whole
<1>8. \A u \in Threads : pc[u] \notin SetSection /\ pc'[u] \notin SetSection
  BY <1>3, <1>4, Groups DEF Writing
<1>9. CallsReady' /\ StoreProgress'
  <2>1. StoreProgress'
    BY <1>1, <1>8 DEF StoreProgress, SetSection
  <2>2. \/ UNCHANGED op /\ pc[t] \in {"get_val", "get_stamp", "get_qual"}
        \/ /\ pc'[t] = "find_unlock"
           /\ op' = [op EXCEPT ![t].point = PointOf[op[t].key]]
    BY <1>1 DEF FindWalk, GetValue, GetTimestamp, GetQuality, Goto, TypeOK
  <2>3. CallsReady'
    BY <1>1, <1>8, <2>2 DEF CallsReady, TypeOK, Calls, SetSection, GetSection
  <2>4. QED
    BY <2>1, <2>3
<1>10. FetchProgress'
  <2>1. CASE FindWalk(t)
    <3>1. \A u \in Threads \ {t} : pc'[u] = pc[u] /\ op'[u] = op[u]
      BY <2>1 DEF FindWalk, Goto, TypeOK
    <3>2. pc'[t] = "find_unlock" /\ out' = out
      BY <2>1 DEF FindWalk, Goto, TypeOK
    <3>3. QED
      BY <1>1, <3>1, <3>2 DEF FetchProgress
  <2>2. CASE GetValue(t) \/ GetTimestamp(t) \/ GetQuality(t)
    <3>1. CASE GetValue(t)
      BY <3>1, <1>1 DEF FetchProgress, TypeOK, Triples, GetValue, Goto
    <3>2. CASE GetTimestamp(t)
      BY <3>2, <1>1 DEF FetchProgress, TypeOK, Triples, GetTimestamp, Goto
    <3>3. CASE GetQuality(t)
      BY <3>3, <1>1 DEF FetchProgress, TypeOK, Triples, GetQuality, Goto
    <3>4. QED
      BY <2>2, <3>1, <3>2, <3>3
  <2>3. QED
    BY <2>1, <2>2
<1>11. QED
  BY <1>5, <1>6, <1>7, <1>9, <1>10

\* A reader leaves: it is no writer, so its unlock takes itself off the count.
LEMMA ReadUnlockKeeps ==
  ASSUME IInv, NEW t \in Threads,
         FindUnlock(t) \/ GetUnlock(t)
  PROVE  IInv'
<1> USE DEF IInv
<1>1. PICK to \in {"idle", "set_lock", "get_lock"} :
        /\ pc[t] \in {"find_unlock", "get_unlock"} /\ pc' = [pc EXCEPT ![t] = to]
        /\ to # "idle" => op[t].point # NoPoint /\ to = (IF op[t].kind = "set" THEN "set_lock" ELSE "get_lock")
        /\ op' = [op EXCEPT ![t] = IF to = "idle" THEN NoCall ELSE @]
        /\ lock' = AfterUnlock(lock, t)
        /\ UNCHANGED <<values, timestamps, qualities>>
  <2>1. CASE FindUnlock(t) /\ op[t].point = NoPoint
    BY <2>1 DEF FindUnlock
  <2>2. CASE FindUnlock(t) /\ op[t].point # NoPoint
    BY <2>2 DEF FindUnlock, TypeOK
  <2>3. CASE GetUnlock(t)
    BY <2>3 DEF GetUnlock, Goto
  <2>4. QED
    BY <2>1, <2>2, <2>3
<1>2. t \in Reading /\ t \notin Writing
  BY <1>1 DEF Reading, Writing, FindSection, GetSection, SetSection
<1>3. Writing = {}
  BY <1>2 DEF WriterAlone
<1>4. Writing' = {} /\ Cardinality(Reading') = Cardinality(Reading) - 1
  BY <1>1, <1>2, <1>3, ReaderLeaves DEF TypeOK, Waiting
<1>5. lock.writer = NoThread
  BY <1>2, <1>3, ThreadAssumption DEF LockAccounted, TypeOK, Locks
<1>6. lock.readers \in Nat /\ lock.readers >= 1
  BY <1>2, Groups, NoReaders DEF LockAccounted
<1>7. lock' \in Locks /\ lock'.readers = lock.readers - 1 /\ lock'.writer = NoThread
      /\ lock'.phase = lock.phase
  BY <1>1, <1>5, UnlockShape, ThreadAssumption DEF TypeOK
<1>8. TypeOK'
  <2>1. pc' \in [Threads -> PCs] /\ op' \in [Threads -> Calls]
    BY <1>1 DEF TypeOK, PCs, Waiting, Calls, NoCall, Contents
  <2>2. out' \in [Threads -> Triples] /\ view' \in [Threads -> Triples]
    <3>1. Zero \in Triples
      BY DEF Zero, Triples, Contents
    <3>2. CASE FindUnlock(t)
      BY <3>2 DEF TypeOK, FindUnlock
    <3>3. CASE GetUnlock(t)
      BY <3>1, <3>3 DEF TypeOK, GetUnlock
    <3>4. QED
      BY <3>2, <3>3
  <2>3. QED
    BY <1>1, <1>6, <1>7, <2>1, <2>2 DEF TypeOK
<1>9. LockAccounted' /\ WriterAlone'
  BY <1>4, <1>6, <1>7, ThreadAssumption DEF LockAccounted, WriterAlone
<1>10. PointsWhole'
  BY <1>1, <1>3, <1>4 DEF PointsWhole, Whole
<1>11. CallsReady'
  <2>1. op[t].point \in Points \cup {NoPoint} /\ op[t].kind \in {"get", "set"}
    BY DEF TypeOK, Calls
  <2>2. QED
    BY <1>1, <2>1 DEF CallsReady, TypeOK, GetSection, SetSection, NoCall
<1>12. StoreProgress' /\ FetchProgress'
  BY <1>1 DEF StoreProgress, FetchProgress, TypeOK, FindUnlock, GetUnlock
<1>13. QED
  BY <1>8, <1>9, <1>10, <1>11, <1>12

\* The writer leaves: the point it stored is whole again.
LEMMA SetUnlockKeeps ==
  ASSUME IInv, NEW t \in Threads, SetUnlock(t)
  PROVE  IInv'
<1> USE DEF IInv
<1>1. /\ pc[t] = "set_unlock" /\ pc' = [pc EXCEPT ![t] = "idle"]
      /\ op' = [op EXCEPT ![t] = NoCall]
      /\ lock' = AfterUnlock(lock, t)
      /\ UNCHANGED <<values, timestamps, qualities, out, view>>
  BY DEF SetUnlock, Goto
<1>2. Writing = {t} /\ Reading = {}
  <2>1. t \in Writing
    BY <1>1 DEF Writing, SetSection
  <2>2. QED
    BY <2>1 DEF WriterAlone
<1>3. Writing' = {} /\ Reading' = {}
  BY <1>1, <1>2 DEF Writing, Reading, SetSection, FindSection, GetSection, TypeOK
<1>4. lock.writer = t /\ lock.readers = 0
  BY <1>2, NoReaders DEF LockAccounted
<1>5. lock' \in Locks /\ lock'.writer = NoThread /\ lock'.readers = 0
  BY <1>1, <1>4, UnlockShape DEF TypeOK
<1>6. TypeOK'
  BY <1>1, <1>5 DEF TypeOK, PCs, Calls, NoCall, Contents
<1>7. LockAccounted' /\ WriterAlone'
  BY <1>3, <1>5, ThreadAssumption, FS_EmptySet DEF LockAccounted, WriterAlone
<1>8. Whole(op[t].point)
  BY <1>1 DEF StoreProgress, Whole
<1>9. PointsWhole'
  BY <1>1, <1>2, <1>8 DEF PointsWhole, Whole
<1>10. CallsReady' /\ StoreProgress' /\ FetchProgress'
  BY <1>1 DEF CallsReady, StoreProgress, FetchProgress, TypeOK, GetSection, SetSection
<1>11. QED
  BY <1>6, <1>7, <1>9, <1>10

LEMMA NextKeeps == IInv /\ [Next]_vars => IInv'
<1>1. SUFFICES ASSUME IInv, [Next]_vars PROVE IInv'
  OBVIOUS
<1>2. CASE UNCHANGED vars
  <2>1. Reading' = Reading /\ Writing' = Writing
    BY <1>2 DEF vars, Reading, Writing
  <2>2. TypeOK' /\ LockAccounted' /\ WriterAlone'
    BY <1>1, <1>2, <2>1 DEF vars, IInv, TypeOK, LockAccounted, WriterAlone
  <2>3. PointsWhole' /\ CallsReady' /\ StoreProgress' /\ FetchProgress'
    BY <1>1, <1>2, <2>1 DEF vars, IInv, PointsWhole, Whole, CallsReady, StoreProgress, FetchProgress
  <2>4. QED
    BY <2>2, <2>3 DEF IInv
<1>3. ASSUME NEW t \in Threads, Begin(t) \/ Continue(t) PROVE IInv'
  BY <1>1, <1>3, BeginKeeps, ReadLockKeeps, SetLockKeeps, StoreKeeps, LoadKeeps,
     ReadUnlockKeeps, SetUnlockKeeps DEF Continue
<1>4. QED
  BY <1>1, <1>2, <1>3 DEF Next

------------------------------------------------------------------------------
\* IInv holds in every reachable state.
THEOREM Invariance == Spec => []IInv
<1>1. QED
  BY InitIInv, NextKeeps, PTL DEF Spec

\* Every variable keeps its type, and no unlock takes the reader count below
\* zero.
THEOREM TypeCorrect == Spec => []TypeOK
<1>1. IInv => TypeOK
  BY DEF IInv
<1>2. QED
  BY <1>1, Invariance, PTL

\* The lock record agrees with where the threads are: no path of a plain
\* accessor leaks the lock or releases what it does not hold.
THEOREM LockIsAccounted == Spec => []LockAccounted
<1>1. IInv => LockAccounted
  BY DEF IInv
<1>2. QED
  BY <1>1, Invariance, PTL

\* While a thread stores a point no other thread is inside the pool.
THEOREM WriterIsAlone == Spec => []WriterAlone
<1>1. IInv => WriterAlone
  BY DEF IInv
<1>2. QED
  BY <1>1, Invariance, PTL

------------------------------------------------------------------------------
(* The refinement: SetValue is the abstract Store, GetUnlock the abstract  *)
(* Fetch, and every other step a stutter.                                  *)

LEMMA InitRefines == Init => Atomic!Init
  BY DEF Init, Zero, Atomic!Init, Atomic!Whole

LEMMA StepRefines == IInv /\ [Next]_vars => [Atomic!Next]_Atomic!vars
<1>1. SUFFICES ASSUME IInv, [Next]_vars PROVE [Atomic!Next]_Atomic!vars
  OBVIOUS
<1> USE DEF IInv
<1>2. CASE UNCHANGED <<values, view>>
  BY <1>2 DEF Atomic!vars
<1>3. ASSUME NEW t \in Threads, SetValue(t) PROVE Atomic!Next
  <2>1. op[t].point \in Points /\ op[t].sample \in Samples
    BY <1>1, <1>3 DEF SetValue, Goto, CallsReady, SetSection
  <2>2. Atomic!Store(op[t].point, op[t].sample)
    BY <1>3 DEF SetValue, Atomic!Store
  <2>3. QED
    BY <2>1, <2>2 DEF Atomic!Next
<1>4. ASSUME NEW t \in Threads, GetUnlock(t) PROVE Atomic!Next
  <2>1. pc[t] = "get_unlock" /\ op[t].point \in Points /\ t \in Reading
    BY <1>1, <1>4 DEF GetUnlock, Goto, CallsReady, Reading, GetSection
  <2>2. Whole(op[t].point)
    BY <1>1, <2>1 DEF WriterAlone, PointsWhole
  <2>3. out[t] = Atomic!Whole(values[op[t].point])
    BY <1>1, <2>1, <2>2 DEF FetchProgress, Whole, TypeOK, Triples, Atomic!Whole
  <2>4. Atomic!Fetch(t, op[t].point)
    BY <1>4, <2>3 DEF GetUnlock, Atomic!Fetch
  <2>5. QED
    BY <2>1, <2>4 DEF Atomic!Next
<1>5. ASSUME NEW t \in Threads, Begin(t) PROVE UNCHANGED <<values, view>>
  BY <1>5 DEF Begin, Call, GetByIndex, SetByIndex, GetByKey, SetByKey
<1>6. ASSUME NEW t \in Threads, Continue(t), ~SetValue(t), ~GetUnlock(t)
      PROVE  UNCHANGED <<values, view>>
  BY <1>6 DEF Continue, FindLock, FindWalk, FindUnlock, SetLock, SetTimestamp, SetQuality,
     SetUnlock, GetLock, GetValue, GetTimestamp, GetQuality, ReadLock, WriteLock
<1>7. QED
  BY <1>1, <1>2, <1>3, <1>4, <1>5, <1>6 DEF Next, vars

\* The pool's get and set, with their lock and their three separate arrays,
\* behave as atomic points: no thread ever sees a point half written.
THEOREM Refinement == Spec => AtomicSpec
<1>1. QED
  BY InitRefines, StepRefines, Invariance, PTL DEF Spec, AtomicSpec, Atomic!Spec

------------------------------------------------------------------------------
(* Batches.                                                                *)

BatchPCs == {"batch_lock", "batch_next", "batch_find", "batch_walk", "batch_unlock", "batch_val",
             "batch_stamp", "batch_end"}

BatchKeys == UNION {{b[i] : i \in DOMAIN b} : b \in Batches}

BatchTypes ==
  /\ lock \in Locks
  /\ values \in [Points -> Contents] /\ timestamps \in [Points -> Contents]
  /\ qualities \in [Points -> Contents]
  /\ pc \in [Threads -> PCs \cup BatchPCs]
  /\ op \in [Threads -> Calls]
  /\ rest \in [Threads -> Seq(Keys)]

\* Whoever is in a plain store has the write lock.
StoreHeld == \A t \in Threads : pc[t] \in SetSection => lock.writer = t

\* What a thread still has to do for its batch is of the batch.
OfTheBatch ==
  \A t \in Threads :
    /\ \A i \in 1..Len(rest[t]) : rest[t][i] \in BatchKeys
    /\ pc[t] \in {"batch_find", "batch_walk"} => op[t].key \in BatchKeys
    /\ pc[t] = "batch_unlock" => op[t].point \in BatchPoints
    /\ pc[t] \in {"batch_val", "batch_stamp"} => op[t].point \in BatchPoints \cap Points

\* A plain store has its arguments, and has filled the arrays as far as it came, if no
\* batch names its point.
PlainStores ==
  \A t \in Threads :
    /\ pc[t] \in {"find_lock", "find_walk"} => op[t].key \in Keys
    /\ pc[t] \in SetSection \cup {"set_lock"} => op[t].point \in Points
    /\ op[t].point \notin BatchPoints =>
         /\ pc[t] \in {"set_stamp", "set_qual", "set_unlock"} => values[op[t].point] = op[t].sample
         /\ pc[t] \in {"set_qual", "set_unlock"} => timestamps[op[t].point] = op[t].sample
         /\ pc[t] = "set_unlock" => qualities[op[t].point] = op[t].sample

BatchInv ==
  BatchTypes /\ StoreHeld /\ OfTheBatch /\ PlainStores /\ OtherPointsWhole

------------------------------------------------------------------------------
LEMMA BatchKeysAreKeys ==
  BatchKeys \subseteq Keys /\ BatchPoints = {PointOf[k] : k \in BatchKeys}
  <1>1. \A b \in Batches : \A i \in DOMAIN b : b[i] \in Keys
    BY BatchAssumption
  <1> QED
    BY <1>1 DEF BatchKeys, BatchPoints

LEMMA InitBatchInv == BInit => BatchInv
  <1> SUFFICES ASSUME BInit PROVE BatchInv
    OBVIOUS
  <1> USE DEF BInit, Init
  <1>1. BatchTypes
    BY DEF BatchTypes, Locks, FreeLock, PCs, Calls, NoCall, Contents
  <1>2. StoreHeld /\ OfTheBatch /\ PlainStores
    BY DEF StoreHeld, OfTheBatch, PlainStores, SetSection
  <1>3. OtherPointsWhole
    BY DEF OtherPointsWhole, Whole
  <1> QED
    BY <1>1, <1>2, <1>3 DEF BatchInv

\* A thread's lock request or unlock takes no other thread's write lock away.
LEMMA HolderKept ==
  ASSUME lock \in Locks, NEW t \in Threads,
         \/ lock' = lock
         \/ CanReadLock(lock, t) /\ lock' = AfterReadLock(lock, t)
         \/ CanWriteLock(lock, t) /\ lock' = AfterWriteLock(lock, t)
         \/ lock' = AfterUnlock(lock, t)
  PROVE  /\ lock' \in Locks
         /\ \A u \in Threads \ {t} : lock.writer = u => lock'.writer = u
         /\ lock' = AfterWriteLock(lock, t) => lock'.writer = t
  <1>1. AfterWriteLock(lock, t) \in Locks /\ AfterWriteLock(lock, t).writer = t
    BY DEF AfterWriteLock, Locks
  <1>2. CASE lock' = lock
    BY <1>1, <1>2
  <1>3. CASE CanReadLock(lock, t) /\ lock' = AfterReadLock(lock, t)
    <2> DEFINE granted == [lock EXCEPT !.readers = @ + 1, !.phase = "read"]
    <2>1. granted \in Locks /\ granted.writer = lock.writer
      <3>1. lock.readers + 1 \in Int
        BY DEF Locks
      <3>2. \A n \in Int : LET l == [lock EXCEPT !.readers = n, !.phase = "read"]
                          IN  l \in Locks /\ l.writer = lock.writer
        BY DEF Locks
      <3> QED
        BY <3>1, <3>2
    <2>2. lock' = lock \/ lock' = granted
      BY <1>3 DEF AfterReadLock
    <2> QED
      BY <1>1, <2>1, <2>2
  <1>4. CASE CanWriteLock(lock, t) /\ lock' = AfterWriteLock(lock, t)
    BY <1>1, <1>4, ThreadAssumption DEF CanWriteLock
  <1>5. CASE lock' = AfterUnlock(lock, t)
    BY <1>1, <1>5, UnlockShape
  <1> QED
    BY <1>2, <1>3, <1>4, <1>5

\* A step of a thread that is in no plain store, and writes no point but a batch's.
LEMMA BesidesStores ==
  ASSUME BatchInv, NEW t \in Threads, NEW to \in (PCs \cup BatchPCs) \ SetSection,
         pc' = [pc EXCEPT ![t] = to], pc[t] \notin SetSection,
         \/ lock' = lock
         \/ CanReadLock(lock, t) /\ lock' = AfterReadLock(lock, t)
         \/ CanWriteLock(lock, t) /\ lock' = AfterWriteLock(lock, t)
         \/ lock' = AfterUnlock(lock, t),
         \A u \in Threads \ {t} : op'[u] = op[u],
         to \in {"find_lock", "find_walk"} => op'[t].key \in Keys,
         to = "set_lock" => op'[t].point \in Points,
         \A p \in Points \ BatchPoints :
           values'[p] = values[p] /\ timestamps'[p] = timestamps[p] /\ qualities'[p] = qualities[p]
  PROVE  lock' \in Locks /\ StoreHeld' /\ PlainStores' /\ OtherPointsWhole'
  <1>1. /\ lock \in Locks /\ pc \in [Threads -> PCs \cup BatchPCs]
        /\ pc'[t] = to /\ \A u \in Threads \ {t} : pc'[u] = pc[u]
    BY DEF BatchInv, BatchTypes
  <1>2. lock' \in Locks /\ \A u \in Threads \ {t} : lock.writer = u => lock'.writer = u
    BY <1>1, HolderKept
  <1>3. StoreHeld'
    BY <1>1, <1>2 DEF BatchInv, StoreHeld
  <1>4. PlainStores'
    BY <1>1 DEF BatchInv, PlainStores, SetSection
  <1>5. OtherPointsWhole'
    <2>1. Writing' = Writing /\ t \notin Writing /\ Writing \subseteq Threads
      BY <1>1 DEF Writing
    <2> QED
      BY <2>1 DEF BatchInv, OtherPointsWhole, Whole
  <1> QED
    BY <1>2, <1>3, <1>4, <1>5

------------------------------------------------------------------------------
(* The plain calls.                                                        *)

LEMMA PlainCalls ==
  ASSUME BatchInv, NEW t \in Threads, Begin(t), UNCHANGED rest
  PROVE  BatchInv'
  <1> DEFINE start == pc'[t]
             call == op'[t]
             Begun == /\ pc[t] = "idle" /\ start \in Waiting /\ pc' = [pc EXCEPT ![t] = start]
                      /\ call \in Calls /\ op' = [op EXCEPT ![t] = call]
                      /\ start \in {"get_lock", "set_lock"} => call.point \in Points
                      /\ start = "find_lock" => call.key \in Keys
                      /\ UNCHANGED <<lock, values, timestamps, qualities>>
  <1>1. Begun
    <2>1. pc \in [Threads -> PCs \cup BatchPCs] /\ op \in [Threads -> Calls]
      BY DEF BatchInv, BatchTypes
    <2>2. ASSUME NEW p \in Points, GetByIndex(t, p) PROVE Begun
      BY <2>1, <2>2 DEF GetByIndex, Call, Goto, Calls, Contents, Waiting
    <2>3. ASSUME NEW p \in Points, NEW s \in Samples, SetByIndex(t, p, s) PROVE Begun
      BY <2>1, <2>3 DEF SetByIndex, Call, Goto, Calls, Contents, Waiting
    <2>4. ASSUME NEW k \in Keys, GetByKey(t, k) PROVE Begun
      BY <2>1, <2>4 DEF GetByKey, Call, Goto, Calls, Contents, Waiting
    <2>5. ASSUME NEW k \in Keys, NEW s \in Samples, SetByKey(t, k, s) PROVE Begun
      BY <2>1, <2>5 DEF SetByKey, Call, Goto, Calls, Contents, Waiting
    <2> QED
      BY <2>2, <2>3, <2>4, <2>5 DEF Begin
  <1>2. BatchTypes'
    BY <1>1 DEF BatchInv, BatchTypes, PCs
  <1>3. OfTheBatch'
    BY <1>1 DEF BatchInv, BatchTypes, OfTheBatch, Waiting
  <1>4. StoreHeld' /\ PlainStores' /\ OtherPointsWhole'
    <2>1. start \in (PCs \cup BatchPCs) \ SetSection /\ pc[t] \notin SetSection /\ start # "find_walk"
      BY <1>1 DEF PCs, Waiting, SetSection
    <2>2. \A u \in Threads \ {t} : op'[u] = op[u]
      BY <1>1 DEF BatchInv, BatchTypes
    <2> QED
      BY <1>1, <2>1, <2>2, BesidesStores
  <1> QED
    BY <1>2, <1>3, <1>4 DEF BatchInv

\* The fetches, the lookups, and the store up to its lock.
LEMMA PlainOutside ==
  ASSUME BatchInv, NEW t \in Threads, UNCHANGED rest,
         \/ FindLock(t) \/ FindWalk(t) \/ FindUnlock(t)
         \/ GetLock(t) \/ GetValue(t) \/ GetTimestamp(t) \/ GetQuality(t) \/ GetUnlock(t)
  PROVE  BatchInv'
  <1> DEFINE to == pc'[t]
  <1> USE DEF ReadLock, Goto
  <1>1. pc \in [Threads -> PCs \cup BatchPCs] /\ op \in [Threads -> Calls]
    BY DEF BatchInv, BatchTypes
  <1>2. /\ pc' = [pc EXCEPT ![t] = to] /\ pc[t] \in FindSection \cup GetSection \cup Waiting
        /\ to \in {"idle", "set_lock", "get_lock"} \cup FindSection \cup GetSection
        /\ UNCHANGED <<values, timestamps, qualities>>
    BY <1>1
       DEF FindLock, FindWalk, FindUnlock, GetLock, GetValue, GetTimestamp, GetQuality, GetUnlock,
           FindSection, GetSection, Waiting
  <1>3. \/ lock' = lock
        \/ CanReadLock(lock, t) /\ lock' = AfterReadLock(lock, t)
        \/ lock' = AfterUnlock(lock, t)
    BY DEF FindLock, FindWalk, FindUnlock, GetLock, GetValue, GetTimestamp, GetQuality, GetUnlock
  <1>4. /\ op' \in [Threads -> Calls] /\ \A u \in Threads \ {t} : op'[u] = op[u]
        /\ to = "find_walk" => op'[t].key \in Keys
        /\ to = "set_lock" => op'[t].point \in Points
    <2>1. CASE FindWalk(t)
      <3>1. op[t] \in Calls /\ op[t].key \in Keys /\ PointOf[op[t].key] \in Points \cup {NoPoint}
        BY <1>1, <2>1, PointAssumption DEF FindWalk, BatchInv, PlainStores
      <3>2. [op[t] EXCEPT !.point = PointOf[op[t].key]] \in Calls
        BY <3>1 DEF Calls
      <3> QED
        BY <1>1, <2>1, <3>2 DEF FindWalk
    <2>2. CASE FindUnlock(t)
      <3>1. NoCall \in Calls /\ op[t].point \in Points \cup {NoPoint}
        BY <1>1 DEF Calls, NoCall, Contents
      <3> QED
        BY <1>1, <2>2, <3>1 DEF FindUnlock
    <2>3. CASE GetUnlock(t)
      <3>1. NoCall \in Calls
        BY DEF Calls, NoCall, Contents
      <3> QED
        BY <1>1, <2>3, <3>1 DEF GetUnlock
    <2>4. CASE FindLock(t)
      BY <1>1, <2>4 DEF FindLock, BatchInv, PlainStores
    <2>5. CASE GetLock(t) \/ GetValue(t) \/ GetTimestamp(t) \/ GetQuality(t)
      BY <1>1, <2>5 DEF GetLock, GetValue, GetTimestamp, GetQuality
    <2> QED
      BY <2>1, <2>2, <2>3, <2>4, <2>5
  <1>5. lock' \in Locks /\ StoreHeld' /\ PlainStores' /\ OtherPointsWhole'
    <2>1. /\ to \in (PCs \cup BatchPCs) \ SetSection /\ pc[t] \notin SetSection
          /\ to # "find_lock"
      BY <1>2 DEF PCs, Waiting, SetSection, GetSection, FindSection
    <2> QED
      BY <1>2, <1>3, <1>4, <2>1, BesidesStores
  <1>6. BatchTypes'
    BY <1>2, <1>4, <1>5 DEF BatchInv, BatchTypes, PCs, Waiting
  <1>7. OfTheBatch'
    BY <1>1, <1>2, <1>4 DEF BatchInv, OfTheBatch, FindSection, GetSection
  <1> QED
    BY <1>5, <1>6, <1>7 DEF BatchInv

LEMMA PlainLock ==
  ASSUME BatchInv, NEW t \in Threads, SetLock(t), UNCHANGED rest
  PROVE  BatchInv'
  <1> USE DEF SetLock, WriteLock, Goto
  <1>1. /\ pc \in [Threads -> PCs \cup BatchPCs] /\ lock \in Locks
        /\ \A u \in Threads \ {t} : pc'[u] = pc[u]
    BY DEF BatchInv, BatchTypes
  <1>2. /\ lock' \in Locks /\ lock'.writer = t
        /\ \A u \in Threads \ {t} : lock.writer = u => lock'.writer = u
    BY <1>1, HolderKept
  <1>3. BatchTypes' /\ OfTheBatch'
    BY <1>1, <1>2 DEF BatchInv, BatchTypes, OfTheBatch, PCs, SetSection
  <1>4. StoreHeld'
    BY <1>1, <1>2 DEF BatchInv, StoreHeld
  <1>5. PlainStores'
    BY <1>1 DEF BatchInv, PlainStores, SetSection
  <1>6. OtherPointsWhole'
    BY <1>1 DEF BatchInv, OtherPointsWhole, Whole, Writing, SetSection
  <1> QED
    BY <1>3, <1>4, <1>5, <1>6 DEF BatchInv

\* No two plain stores run beside each other.
LEMMA OneStore ==
  ASSUME BatchInv, NEW t \in Threads, pc[t] \in SetSection
  PROVE  lock.writer = t /\ \A u \in Threads \ {t} : pc[u] \notin SetSection
  BY DEF BatchInv, StoreHeld

LEMMA PlainStore ==
  ASSUME BatchInv, NEW t \in Threads, SetValue(t) \/ SetTimestamp(t) \/ SetQuality(t), UNCHANGED rest
  PROVE  BatchInv'
  <1> USE DEF Goto
  <1>1. /\ pc \in [Threads -> PCs \cup BatchPCs] /\ op \in [Threads -> Calls]
        /\ values \in [Points -> Contents] /\ timestamps \in [Points -> Contents]
        /\ qualities \in [Points -> Contents]
    BY DEF BatchInv, BatchTypes
  <1>2. /\ pc[t] \in {"set_val", "set_stamp", "set_qual"} /\ pc[t] \in SetSection
        /\ pc'[t] \in SetSection /\ \A u \in Threads \ {t} : pc'[u] = pc[u]
        /\ UNCHANGED <<lock, op>>
    BY <1>1 DEF SetValue, SetTimestamp, SetQuality, SetSection
  <1>3. op[t].point \in Points /\ op[t].sample \in Contents
    BY <1>1, <1>2 DEF BatchInv, PlainStores, Calls
  <1>4. BatchTypes'
    BY <1>1, <1>2, <1>3
       DEF BatchInv, BatchTypes, SetValue, SetTimestamp, SetQuality, PCs, SetSection
  <1>5. StoreHeld'
    BY <1>1, <1>2 DEF BatchInv, StoreHeld
  <1>6. OfTheBatch'
    BY <1>1, <1>2 DEF BatchInv, OfTheBatch, SetSection
  <1>7. PlainStores'
    BY <1>1, <1>2, <1>3, OneStore
       DEF BatchInv, PlainStores, SetSection, SetValue, SetTimestamp, SetQuality
  <1>8. OtherPointsWhole'
    <2>1. Writing' = Writing /\ t \in Writing
      BY <1>2 DEF Writing
    <2>2. \A p \in Points : p # op[t].point =>
            values'[p] = values[p] /\ timestamps'[p] = timestamps[p] /\ qualities'[p] = qualities[p]
      BY <1>1, <1>3 DEF SetValue, SetTimestamp, SetQuality
    <2> QED
      BY <1>2, <2>1, <2>2 DEF BatchInv, OtherPointsWhole, Whole
  <1> QED
    BY <1>4, <1>5, <1>6, <1>7, <1>8 DEF BatchInv

LEMMA PlainUnlock ==
  ASSUME BatchInv, NEW t \in Threads, SetUnlock(t), UNCHANGED rest
  PROVE  BatchInv'
  <1> USE DEF SetUnlock, Goto
  <1>1. /\ pc \in [Threads -> PCs \cup BatchPCs] /\ op \in [Threads -> Calls] /\ lock \in Locks
        /\ pc[t] \in SetSection /\ pc'[t] = "idle" /\ \A u \in Threads \ {t} : pc'[u] = pc[u]
        /\ NoCall \in Calls
    BY DEF BatchInv, BatchTypes, SetSection, Calls, NoCall, Contents
  <1>2. lock' \in Locks
    BY <1>1, HolderKept
  <1>3. BatchTypes' /\ OfTheBatch'
    BY <1>1, <1>2 DEF BatchInv, BatchTypes, OfTheBatch, PCs, SetSection
  <1>4. StoreHeld' /\ PlainStores'
    BY <1>1, OneStore DEF BatchInv, StoreHeld, PlainStores, SetSection
  <1>5. OtherPointsWhole'
    <2>1. \A u \in Writing : u = t
      BY <1>1, OneStore DEF Writing
    <2>2. op[t].point \notin BatchPoints => Whole(op[t].point)
      BY <1>1 DEF BatchInv, PlainStores, Whole
    <2> QED
      BY <2>1, <2>2 DEF BatchInv, OtherPointsWhole, Whole
  <1> QED
    BY <1>3, <1>4, <1>5 DEF BatchInv

------------------------------------------------------------------------------
(* The batches.                                                            *)

\* A step of a batch that writes no point.
LEMMA BatchOutside ==
  ASSUME BatchInv, NEW t \in Threads,
         \/ \E keys \in Batches, s \in Samples : BatchCall(t, keys, s)
         \/ BatchLock(t) \/ BatchNext(t) \/ BatchFindLock(t) \/ BatchFindWalk(t)
         \/ BatchFindUnlock(t) \/ BatchUnlock(t)
  PROVE  BatchInv'
  <1> DEFINE to == pc'[t]
  <1> USE DEF ReadLock, WriteLock, Goto, LockStays, Call
  <1>1. /\ pc \in [Threads -> PCs \cup BatchPCs] /\ op \in [Threads -> Calls]
        /\ rest \in [Threads -> Seq(Keys)]
    BY DEF BatchInv, BatchTypes
  <1>2. /\ pc' = [pc EXCEPT ![t] = to] /\ pc[t] \in {"idle"} \cup BatchPCs
        /\ to \in {"idle"} \cup BatchPCs
        /\ UNCHANGED <<values, timestamps, qualities>>
    BY <1>1
       DEF BatchCall, BatchLock, BatchNext, BatchFindLock, BatchFindWalk, BatchFindUnlock,
           BatchUnlock, BatchPCs
  <1>3. \/ lock' = lock
        \/ CanReadLock(lock, t) /\ lock' = AfterReadLock(lock, t)
        \/ CanWriteLock(lock, t) /\ lock' = AfterWriteLock(lock, t)
        \/ lock' = AfterUnlock(lock, t)
    BY DEF BatchCall, BatchLock, BatchNext, BatchFindLock, BatchFindWalk, BatchFindUnlock,
           BatchUnlock
  <1> DEFINE Ready == /\ op' \in [Threads -> Calls] /\ rest' \in [Threads -> Seq(Keys)]
                      /\ \A u \in Threads \ {t} : op'[u] = op[u] /\ rest'[u] = rest[u]
                      /\ \A i \in 1..Len(rest'[t]) : rest'[t][i] \in BatchKeys
                      /\ to \in {"batch_find", "batch_walk"} => op'[t].key \in BatchKeys
                      /\ to = "batch_unlock" => op'[t].point \in BatchPoints
                      /\ to \in {"batch_val", "batch_stamp"} => op'[t].point \in BatchPoints \cap Points
  <1>4. Ready
    <2>1. ASSUME NEW keys \in Batches, NEW s \in Samples, BatchCall(t, keys, s) PROVE Ready
      <3>1. keys \in Seq(Keys) /\ \A i \in 1..Len(keys) : keys[i] \in BatchKeys
        BY BatchAssumption DEF BatchKeys
      <3>2. [kind |-> "set", key |-> NoPoint, point |-> NoPoint, sample |-> s] \in Calls
        BY DEF Calls, Contents
      <3> QED
        BY <1>1, <2>1, <3>1, <3>2 DEF BatchCall
    <2>2. CASE BatchNext(t)
      <3>1. op[t] \in Calls /\ rest[t] \in Seq(Keys)
        BY <1>1
      <3>2. CASE rest[t] = <<>>
        <4>1. [op[t] EXCEPT !.key = NoPoint] \in Calls
          BY <3>1 DEF Calls
        <4> QED
          BY <1>1, <2>2, <3>2, <4>1 DEF BatchNext
      <3>3. CASE rest[t] # <<>>
        <4>1. /\ Head(rest[t]) \in Keys /\ Head(rest[t]) \in BatchKeys
              /\ Tail(rest[t]) \in Seq(Keys)
              /\ \A i \in 1..Len(Tail(rest[t])) : Tail(rest[t])[i] \in BatchKeys
          BY <3>1, <3>3 DEF BatchInv, OfTheBatch
        <4>2. /\ [op[t] EXCEPT !.key = Head(rest[t])] \in Calls
              /\ [op[t] EXCEPT !.key = Head(rest[t])].key = Head(rest[t])
          BY <3>1, <4>1 DEF Calls
        <4>3. /\ op' = [op EXCEPT ![t] = [op[t] EXCEPT !.key = Head(rest[t])]]
              /\ rest' = [rest EXCEPT ![t] = Tail(rest[t])] /\ to = "batch_find"
          BY <1>1, <2>2, <3>3 DEF BatchNext
        <4> QED
          BY <1>1, <4>1, <4>2, <4>3
      <3> QED
        BY <3>2, <3>3
    <2>3. CASE BatchFindWalk(t)
      <3>1. op[t] \in Calls /\ op[t].key \in BatchKeys
        BY <1>1, <2>3 DEF BatchFindWalk, BatchInv, OfTheBatch
      <3>2. PointOf[op[t].key] \in Points \cup {NoPoint} /\ PointOf[op[t].key] \in BatchPoints
        BY <3>1, BatchKeysAreKeys, PointAssumption
      <3>3. /\ [op[t] EXCEPT !.point = PointOf[op[t].key]] \in Calls
            /\ [op[t] EXCEPT !.point = PointOf[op[t].key]].point = PointOf[op[t].key]
        BY <3>1, <3>2 DEF Calls
      <3>4. UNCHANGED rest /\ to = "batch_unlock"
            /\ op' = [op EXCEPT ![t] = [op[t] EXCEPT !.point = PointOf[op[t].key]]]
        BY <1>1, <2>3 DEF BatchFindWalk
      <3> QED
        BY <1>1, <3>2, <3>3, <3>4 DEF BatchInv, OfTheBatch
    <2>4. CASE BatchFindUnlock(t)
      <3>1. op[t].point \in Points \cup {NoPoint}
        BY <1>1 DEF Calls
      <3> QED
        BY <1>1, <2>4, <3>1 DEF BatchFindUnlock, BatchInv, OfTheBatch
    <2>5. CASE BatchUnlock(t)
      <3>1. NoCall \in Calls
        BY DEF Calls, NoCall, Contents
      <3> QED
        BY <1>1, <2>5, <3>1 DEF BatchUnlock, BatchInv, OfTheBatch
    <2>6. CASE BatchLock(t) \/ BatchFindLock(t)
      BY <1>1, <2>6 DEF BatchLock, BatchFindLock, BatchInv, OfTheBatch
    <2> QED
      BY <2>1, <2>2, <2>3, <2>4, <2>5, <2>6
  <1>5. lock' \in Locks /\ StoreHeld' /\ PlainStores' /\ OtherPointsWhole'
    <2>1. /\ to \in (PCs \cup BatchPCs) \ SetSection /\ pc[t] \notin SetSection
          /\ to \notin {"find_lock", "find_walk", "set_lock"}
      BY <1>2 DEF PCs, BatchPCs, SetSection
    <2> QED
      BY <1>2, <1>3, <1>4, <2>1, BesidesStores
  <1>6. BatchTypes'
    BY <1>2, <1>4, <1>5 DEF BatchInv, BatchTypes, PCs
  <1>7. OfTheBatch'
    BY <1>1, <1>2, <1>4 DEF BatchInv, OfTheBatch
  <1> QED
    BY <1>5, <1>6, <1>7 DEF BatchInv

\* The stores of a batch.
LEMMA BatchWrites ==
  ASSUME BatchInv, NEW t \in Threads, BatchValue(t) \/ BatchTimestamp(t)
  PROVE  BatchInv'
  <1> USE DEF Goto
  <1>1. /\ pc \in [Threads -> PCs \cup BatchPCs] /\ op \in [Threads -> Calls]
        /\ values \in [Points -> Contents] /\ timestamps \in [Points -> Contents]
    BY DEF BatchInv, BatchTypes
  <1>2. /\ pc[t] \in {"batch_val", "batch_stamp"} /\ pc'[t] \in {"batch_stamp", "batch_next"}
        /\ pc' = [pc EXCEPT ![t] = pc'[t]]
        /\ UNCHANGED <<lock, qualities, op, rest>>
    BY <1>1 DEF BatchValue, BatchTimestamp
  <1>3. op[t].point \in BatchPoints \cap Points /\ op[t].sample \in Contents
    BY <1>1, <1>2 DEF BatchInv, OfTheBatch, Calls
  <1>4. BatchTypes'
    BY <1>1, <1>2, <1>3 DEF BatchInv, BatchTypes, BatchValue, BatchTimestamp, BatchPCs
  <1>5. OfTheBatch'
    BY <1>1, <1>2, <1>3 DEF BatchInv, OfTheBatch
  <1>6. StoreHeld' /\ PlainStores' /\ OtherPointsWhole'
    <2>1. /\ pc'[t] \in (PCs \cup BatchPCs) \ SetSection /\ pc[t] \notin SetSection
          /\ pc'[t] \notin {"find_lock", "find_walk", "set_lock"}
      BY <1>2 DEF PCs, BatchPCs, SetSection
    <2>2. \A p \in Points \ BatchPoints : values'[p] = values[p] /\ timestamps'[p] = timestamps[p]
      BY <1>1, <1>3 DEF BatchValue, BatchTimestamp
    <2> QED
      BY <1>2, <2>1, <2>2, BesidesStores
  <1> QED
    BY <1>4, <1>5, <1>6 DEF BatchInv

------------------------------------------------------------------------------
LEMMA StepBatchInv == BatchInv /\ [BNext]_bvars => BatchInv'
  <1> SUFFICES ASSUME BatchInv, [BNext]_bvars PROVE BatchInv'
    OBVIOUS
  <1>1. CASE UNCHANGED bvars
    BY <1>1
       DEF BatchInv, BatchTypes, StoreHeld, OfTheBatch, PlainStores, OtherPointsWhole, Whole, Writing,
           bvars, vars
  <1>2. ASSUME NEW t \in Threads, BBegin(t) PROVE BatchInv'
    BY <1>2, PlainCalls, BatchOutside DEF BBegin
  <1>3. ASSUME NEW t \in Threads, Continue(t), UNCHANGED rest PROVE BatchInv'
    BY <1>3, PlainOutside, PlainLock, PlainStore, PlainUnlock DEF Continue
  <1>4. ASSUME NEW t \in Threads, BatchContinue(t) PROVE BatchInv'
    BY <1>4, BatchOutside, BatchWrites DEF BatchContinue
  <1> QED
    BY <1>1, <1>2, <1>3, <1>4 DEF BNext

\* BatchInv holds in every state of the pool with batches.
THEOREM BatchInvariance == BSpec => []BatchInv
  BY InitBatchInv, StepBatchInv, PTL DEF BSpec

\* Whatever batches do to the lock, a plain store has it alone among plain stores.
THEOREM StoresStayExclusive == BSpec => []StoresExclusive
  <1>1. BatchInv => StoresExclusive
    BY OneStore DEF StoresExclusive, Writing
  <1> QED
    BY <1>1, BatchInvariance, PTL

\* Whatever batches do, a point that none of them names is whole when nobody stores it.
THEOREM OtherPointsStayWhole == BSpec => []OtherPointsWhole
  <1>1. BatchInv => OtherPointsWhole
    BY DEF BatchInv
  <1> QED
    BY <1>1, BatchInvariance, PTL

==============================================================================
