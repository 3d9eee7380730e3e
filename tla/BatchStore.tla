----------------------------- MODULE BatchStore ------------------------------
(***************************************************************************)
(* The accessors of PointStore together with batchSetYX / batchSetYC.      *)
(*                                                                         *)
(* A batch takes the write lock once and calls findKey for every key of    *)
(* the batch.  findKey takes the read lock and lets it go again, on the    *)
(* lock its own thread already holds for writing: the read request is      *)
(* refused (EDEADLK, ignored), and the unlock that follows releases the    *)
(* write lock.  The rest of the batch runs without it, and its last unlock *)
(* takes one reader off the count that it never added.  ProcessRWLock.tla  *)
(* says what the lock does then.                                           *)
(***************************************************************************)
EXTENDS PointStore, Sequences

CONSTANTS
  Batches,   \* the key lists a caller may pass
  MaxDebt    \* bound: no call starts while the reader count is below -MaxDebt

ASSUME BatchAssumption ==
  /\ Batches \subseteq Seq(Keys)
  /\ MaxDebt \in Nat

VARIABLE rest   \* the keys a thread's batch has not reached yet

bvars == <<vars, rest>>

BInit == Init /\ rest = [t \in Threads |-> <<>>]

LockStays == UNCHANGED <<values, timestamps, qualities, out, view>>

BatchCall(t, keys, s) ==
  /\ Call(t, [kind |-> "set", key |-> NoPoint, point |-> NoPoint, sample |-> s], "batch_lock")
  /\ rest' = [rest EXCEPT ![t] = keys]

BatchLock(t) == WriteLock(t, "batch_lock", "batch_next") /\ UNCHANGED rest

\* The loop head: the next key, or the end of the batch.
BatchNext(t) ==
  /\ pc[t] = "batch_next"
  /\ pc' = [pc EXCEPT ![t] = IF rest[t] = <<>> THEN "batch_end" ELSE "batch_find"]
  /\ op' = [op EXCEPT ![t].key = IF rest[t] = <<>> THEN NoPoint ELSE Head(rest[t])]
  /\ rest' = [rest EXCEPT ![t] = IF @ = <<>> THEN @ ELSE Tail(@)]
  /\ UNCHANGED lock
  /\ LockStays

\* findKey inside the loop: lockRead, the walk, unlockRead.
BatchFindLock(t) == ReadLock(t, "batch_find", "batch_walk") /\ UNCHANGED rest

BatchFindWalk(t) ==
  /\ Goto(t, "batch_walk", "batch_unlock")
  /\ op' = [op EXCEPT ![t].point = PointOf[op[t].key]]
  /\ UNCHANGED <<lock, rest>>
  /\ LockStays

BatchFindUnlock(t) ==
  /\ pc[t] = "batch_unlock"
  /\ pc' = [pc EXCEPT ![t] = IF op[t].point = NoPoint THEN "batch_next" ELSE "batch_val"]
  /\ lock' = AfterUnlock(lock, t)
  /\ UNCHANGED <<op, rest>>
  /\ LockStays

BatchValue(t) ==
  /\ Goto(t, "batch_val", "batch_stamp")
  /\ values' = [values EXCEPT ![op[t].point] = op[t].sample]
  /\ UNCHANGED <<lock, timestamps, qualities, op, out, view, rest>>

\* The quality array is not written: the batch calls have no quality argument.
BatchTimestamp(t) ==
  /\ Goto(t, "batch_stamp", "batch_next")
  /\ timestamps' = [timestamps EXCEPT ![op[t].point] = op[t].sample]
  /\ UNCHANGED <<lock, values, qualities, op, out, view, rest>>

\* lastUpdateTime and the final unlockWrite.
BatchUnlock(t) ==
  /\ Goto(t, "batch_end", "idle")
  /\ lock' = AfterUnlock(lock, t)
  /\ op' = [op EXCEPT ![t] = NoCall]
  /\ UNCHANGED rest
  /\ LockStays

BatchContinue(t) ==
  \/ BatchLock(t) \/ BatchNext(t)
  \/ BatchFindLock(t) \/ BatchFindWalk(t) \/ BatchFindUnlock(t)
  \/ BatchValue(t) \/ BatchTimestamp(t) \/ BatchUnlock(t)

BBegin(t) ==
  /\ lock.readers >= -MaxDebt
  /\ \/ Begin(t) /\ UNCHANGED rest
     \/ \E keys \in Batches, s \in Samples : BatchCall(t, keys, s)

BNext ==
  \E t \in Threads :
    \/ BBegin(t)
    \/ Continue(t) /\ UNCHANGED rest
    \/ BatchContinue(t)

BSpec == BInit /\ [][BNext]_bvars

BFairSpec == BSpec /\ \A t \in Threads : WF_bvars((Continue(t) /\ UNCHANGED rest) \/ BatchContinue(t))
------------------------------------------------------------------------------
BatchPoints == {PointOf[k] : k \in UNION {{b[i] : i \in DOMAIN b} : b \in Batches}}

\* Beside batches, plain stores still exclude each other: a store holds the
\* write lock until its own unlock, however the reader count is damaged.
StoresExclusive ==
  \A t \in Writing : lock.writer = t /\ Writing = {t}

\* A point that no batch names is never left half written: the damage a batch
\* does to the lock lets readers in too early, not a second plain store.
OtherPointsWhole ==
  \A p \in Points \ BatchPoints : Whole(p) \/ \E t \in Writing : op[t].point = p

\* Every plain store returns.  Stated of a single thread, which competes with
\* nobody: after a batch of its own it waits for itself for ever.
SetsReturn == \A t \in Threads : pc[t] = "set_lock" ~> pc[t] = "idle"

==============================================================================
