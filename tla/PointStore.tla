----------------------------- MODULE PointStore ------------------------------
(***************************************************************************)
(* The point accessors of SharedDataPool: set and get, by key and by       *)
(* index, one step per access to shared memory or to the lock.  A point is *)
(* spread over three arrays (values, timestamps, qualities), so a thread   *)
(* that is not excluded by the lock can meet a point half written.         *)
(*                                                                         *)
(* One type of point stands for the four (YX, YC, DZ, YK): the accessors   *)
(* of all four are the same code over different arrays.  A sample stands   *)
(* for the value, timestamp and quality one caller passes together; each   *)
(* array cell remembers which sample its content came from.                *)
(*                                                                         *)
(* Keys are registered beforehand (KeyIndex models the registration):      *)
(* PointOf is what findKey finds, NoPoint when it finds nothing, a key of  *)
(* another type or an index out of range, which all end the call.          *)
(***************************************************************************)
EXTENDS ProcessRWLock

CONSTANTS
  Points,     \* the cells of one type's arrays
  Keys,
  PointOf,    \* the registered keys' points
  NoPoint,
  Samples,
  NoSample    \* the zeroed content of a fresh segment

ASSUME PointAssumption ==
  /\ PointOf \in [Keys -> Points \cup {NoPoint}]
  /\ NoPoint \notin Points
  /\ NoSample \notin Samples

VARIABLES
  lock,       \* ShmHeader.lock
  values, timestamps, qualities,  \* the three arrays of YXData / YCData
  pc,         \* where each thread is inside a call
  op,         \* the arguments of the call in progress
  out,        \* the caller's output parameters, as far as they are filled in
  view        \* the output parameters of the last get that returned

vars == <<lock, values, timestamps, qualities, pc, op, out, view>>

Contents == Samples \cup {NoSample}
Triples == [val : Contents, stamp : Contents, qual : Contents]
Zero == [val |-> NoSample, stamp |-> NoSample, qual |-> NoSample]

FindSection == {"find_walk", "find_unlock"}
GetSection  == {"get_val", "get_stamp", "get_qual", "get_unlock"}
SetSection  == {"set_val", "set_stamp", "set_qual", "set_unlock"}
Waiting     == {"find_lock", "get_lock", "set_lock"}

Calls == [kind : {"get", "set"},
          key : Keys \cup {NoPoint},
          point : Points \cup {NoPoint},
          sample : Contents]

NoCall == [kind |-> "get", key |-> NoPoint, point |-> NoPoint, sample |-> NoSample]

Init ==
  /\ lock = FreeLock
  /\ values = [p \in Points |-> NoSample]
  /\ timestamps = [p \in Points |-> NoSample]
  /\ qualities = [p \in Points |-> NoSample]
  /\ pc = [t \in Threads |-> "idle"]
  /\ op = [t \in Threads |-> NoCall]
  /\ out = [t \in Threads |-> Zero]
  /\ view = [t \in Threads |-> Zero]

------------------------------------------------------------------------------
Goto(t, from, to) ==
  /\ pc[t] = from
  /\ pc' = [pc EXCEPT ![t] = to]

Call(t, call, start) ==
  /\ Goto(t, "idle", start)
  /\ op' = [op EXCEPT ![t] = call]
  /\ UNCHANGED <<lock, values, timestamps, qualities, out, view>>

\* setYXByIndex, getYXByIndex and their YC twins check the index against the
\* immutable count before they lock, so only valid points come this far.
SetByIndex(t, p, s) ==
  Call(t, [kind |-> "set", key |-> NoPoint, point |-> p, sample |-> s], "set_lock")

GetByIndex(t, p) ==
  Call(t, [kind |-> "get", key |-> NoPoint, point |-> p, sample |-> NoSample], "get_lock")

SetByKey(t, k, s) ==
  Call(t, [kind |-> "set", key |-> k, point |-> NoPoint, sample |-> s], "find_lock")

GetByKey(t, k) ==
  Call(t, [kind |-> "get", key |-> k, point |-> NoPoint, sample |-> NoSample], "find_lock")

\* lockRead and lockWrite: block until granted.
ReadLock(t, from, to) ==
  /\ Goto(t, from, to)
  /\ CanReadLock(lock, t)
  /\ lock' = AfterReadLock(lock, t)
  /\ UNCHANGED <<values, timestamps, qualities, op, out, view>>

WriteLock(t, from, to) ==
  /\ Goto(t, from, to)
  /\ CanWriteLock(lock, t)
  /\ lock' = AfterWriteLock(lock, t)
  /\ UNCHANGED <<values, timestamps, qualities, op, out, view>>

\* findKey, called by every accessor that takes a key.
FindLock(t) == ReadLock(t, "find_lock", "find_walk")

FindWalk(t) ==
  /\ Goto(t, "find_walk", "find_unlock")
  /\ op' = [op EXCEPT ![t].point = PointOf[op[t].key]]
  /\ UNCHANGED <<lock, values, timestamps, qualities, out, view>>

\* The lock is let go here and taken again for the access itself.  Mutant: the
\* return for an unknown key forgets the unlock.
FindUnlockLeaks(t) ==
  /\ pc[t] = "find_unlock"
  /\ lock' = IF op[t].point = NoPoint THEN lock ELSE AfterUnlock(lock, t)
  /\ pc' = [pc EXCEPT ![t] = IF op[t].point = NoPoint THEN "idle"
                             ELSE IF op[t].kind = "set" THEN "set_lock"
                             ELSE "get_lock"]
  /\ op' = [op EXCEPT ![t] = IF op[t].point = NoPoint THEN NoCall ELSE @]
  /\ UNCHANGED <<values, timestamps, qualities, out, view>>

FindUnlock(t) ==
  /\ pc[t] = "find_unlock"
  /\ lock' = AfterUnlock(lock, t)
  /\ pc' = [pc EXCEPT ![t] = IF op[t].point = NoPoint THEN "idle"
                             ELSE IF op[t].kind = "set" THEN "set_lock"
                             ELSE "get_lock"]
  /\ op' = [op EXCEPT ![t] = IF op[t].point = NoPoint THEN NoCall ELSE @]
  /\ UNCHANGED <<values, timestamps, qualities, out, view>>

\* set...ByIndex, and the second half of setDZ and setYK.
\* Mutant: the store locks for reading.
SetLockShared(t) == ReadLock(t, "set_lock", "set_val")
SetLock(t) == WriteLock(t, "set_lock", "set_val")

SetValue(t) ==
  /\ Goto(t, "set_val", "set_stamp")
  /\ values' = [values EXCEPT ![op[t].point] = op[t].sample]
  /\ UNCHANGED <<lock, timestamps, qualities, op, out, view>>

SetTimestamp(t) ==
  /\ Goto(t, "set_stamp", "set_qual")
  /\ timestamps' = [timestamps EXCEPT ![op[t].point] = op[t].sample]
  /\ UNCHANGED <<lock, values, qualities, op, out, view>>

\* Mutant: the quality is not stored.
SetQualitySkipped(t) ==
  /\ Goto(t, "set_qual", "set_unlock")
  /\ UNCHANGED <<lock, values, timestamps, qualities, op, out, view>>

SetQuality(t) ==
  /\ Goto(t, "set_qual", "set_unlock")
  /\ qualities' = [qualities EXCEPT ![op[t].point] = op[t].sample]
  /\ UNCHANGED <<lock, values, timestamps, op, out, view>>

\* Mutant: the store returns with the lock held.
SetUnlockForgotten(t) ==
  /\ Goto(t, "set_unlock", "idle")
  /\ op' = [op EXCEPT ![t] = NoCall]
  /\ UNCHANGED <<lock, values, timestamps, qualities, out, view>>

SetUnlock(t) ==
  /\ Goto(t, "set_unlock", "idle")
  /\ lock' = AfterUnlock(lock, t)
  /\ op' = [op EXCEPT ![t] = NoCall]
  /\ UNCHANGED <<values, timestamps, qualities, out, view>>

\* get...ByIndex, and the second half of getDZ and getYK.
\* Mutant: the fetch does not lock.
GetLockSkipped(t) ==
  /\ Goto(t, "get_lock", "get_val")
  /\ UNCHANGED <<lock, values, timestamps, qualities, op, out, view>>
GetLock(t) == ReadLock(t, "get_lock", "get_val")

GetValue(t) ==
  /\ Goto(t, "get_val", "get_stamp")
  /\ out' = [out EXCEPT ![t].val = values[op[t].point]]
  /\ UNCHANGED <<lock, values, timestamps, qualities, op, view>>

GetTimestamp(t) ==
  /\ Goto(t, "get_stamp", "get_qual")
  /\ out' = [out EXCEPT ![t].stamp = timestamps[op[t].point]]
  /\ UNCHANGED <<lock, values, timestamps, qualities, op, view>>

GetQuality(t) ==
  /\ Goto(t, "get_qual", "get_unlock")
  /\ out' = [out EXCEPT ![t].qual = qualities[op[t].point]]
  /\ UNCHANGED <<lock, values, timestamps, qualities, op, view>>

GetUnlock(t) ==
  /\ Goto(t, "get_unlock", "idle")
  /\ lock' = AfterUnlock(lock, t)
  /\ view' = [view EXCEPT ![t] = out[t]]
  /\ op' = [op EXCEPT ![t] = NoCall]
  /\ out' = [out EXCEPT ![t] = Zero]
  /\ UNCHANGED <<values, timestamps, qualities>>

------------------------------------------------------------------------------
Begin(t) ==
  \/ \E p \in Points : GetByIndex(t, p) \/ (\E s \in Samples : SetByIndex(t, p, s))
  \/ \E k \in Keys : GetByKey(t, k) \/ (\E s \in Samples : SetByKey(t, k, s))

Continue(t) ==
  \/ FindLock(t) \/ FindWalk(t) \/ FindUnlock(t)
  \/ SetLock(t) \/ SetValue(t) \/ SetTimestamp(t) \/ SetQuality(t) \/ SetUnlock(t)
  \/ GetLock(t) \/ GetValue(t) \/ GetTimestamp(t) \/ GetQuality(t) \/ GetUnlock(t)

Next == \E t \in Threads : Begin(t) \/ Continue(t)

Spec == Init /\ [][Next]_vars

(***************************************************************************)
(* A thread inside a call keeps running.  A blocked reader is served in    *)
(* the end (strong fairness): a leaving writer hands the lock to waiting   *)
(* readers.  A blocked writer gets weak fairness only: the lock prefers    *)
(* readers, so a stream of readers may keep it out for ever.               *)
(***************************************************************************)
Fairness ==
  \A t \in Threads :
    /\ WF_vars(Continue(t))
    /\ SF_vars(FindLock(t))
    /\ SF_vars(GetLock(t))

FairSpec == Spec /\ Fairness
------------------------------------------------------------------------------
PCs == {"idle"} \cup Waiting \cup FindSection \cup GetSection \cup SetSection

\* Every variable keeps its type, and the reader count never goes negative.
TypeOK ==
  /\ lock \in Locks
  /\ lock.readers >= 0
  /\ values \in [Points -> Contents]
  /\ timestamps \in [Points -> Contents]
  /\ qualities \in [Points -> Contents]
  /\ pc \in [Threads -> PCs]
  /\ op \in [Threads -> Calls]
  /\ out \in [Threads -> Triples]
  /\ view \in [Threads -> Triples]

Reading == {t \in Threads : pc[t] \in FindSection \cup GetSection}
Writing == {t \in Threads : pc[t] \in SetSection}

\* The lock's own record agrees with where the threads are: every path of every
\* call (key not found included) hands back exactly what it took.
LockAccounted ==
  /\ \A t \in Threads : lock.writer = t <=> t \in Writing
  /\ lock.readers = Cardinality(Reading)
  /\ lock.phase = "write" => lock.readers = 0

\* A thread that stores a point shares the pool with nobody: no other thread
\* stores, looks up a key or fetches while it is inside its section.
WriterAlone ==
  \A t \in Writing : Reading = {} /\ Writing = {t}

\* Every call to get a point returns: whatever the other threads do inside
\* the pool, the lock they hand back lets the reader in.
GetsReturn ==
  \A t \in Threads :
    (pc[t] \in {"find_lock", "get_lock"} /\ op[t].kind = "get") ~> pc[t] = "idle"

\* The pool implements atomic points: a store takes effect when it writes the
\* values array, a fetch when it lets the lock go.  In particular what a get
\* returns was passed together by one caller.
Atomic == INSTANCE AtomicPoints WITH store <- values
AtomicSpec == Atomic!Spec

------------------------------------------------------------------------------
\* The parts of the inductive invariant that explain why the refinement holds.
Whole(p) == values[p] = timestamps[p] /\ timestamps[p] = qualities[p]

\* A point that no thread is storing holds one sample in all three arrays.
PointsWhole ==
  \A p \in Points : Whole(p) \/ \E t \in Writing : op[t].point = p

\* The arguments a step relies on are there: a key while it is looked up, a
\* point once it is found, a sample in every call that stores.
CallsReady ==
  \A t \in Threads :
    /\ pc[t] \in {"find_lock", "find_walk"} => op[t].key \in Keys
    /\ pc[t] \in GetSection \cup SetSection \cup {"get_lock", "set_lock"} => op[t].point \in Points
    /\ pc[t] \in SetSection \cup {"set_lock"} => op[t].kind = "set"
    /\ pc[t] # "idle" /\ op[t].kind = "set" => op[t].sample \in Samples

\* A storing thread's sample fills the arrays one after the other.
StoreProgress ==
  \A t \in Threads : LET p == op[t].point IN
    /\ pc[t] \in {"set_stamp", "set_qual", "set_unlock"} => values[p] = op[t].sample
    /\ pc[t] \in {"set_qual", "set_unlock"} => timestamps[p] = op[t].sample
    /\ pc[t] = "set_unlock" => qualities[p] = op[t].sample

\* What a fetching thread has copied so far is still what the arrays hold.
FetchProgress ==
  \A t \in Threads : LET p == op[t].point IN
    /\ pc[t] \in {"get_stamp", "get_qual", "get_unlock"} => out[t].val = values[p]
    /\ pc[t] \in {"get_qual", "get_unlock"} => out[t].stamp = timestamps[p]
    /\ pc[t] = "get_unlock" => out[t].qual = qualities[p]

IInv ==
  /\ TypeOK
  /\ LockAccounted
  /\ WriterAlone
  /\ PointsWhole
  /\ CallsReady
  /\ StoreProgress
  /\ FetchProgress

==============================================================================
