---------------------------- MODULE ProcessRWLock ----------------------------
(***************************************************************************)
(* The process-shared read/write lock that guards the data pool.           *)
(*                                                                         *)
(* ProcessRWLock.h forwards to pthread_rwlock_*, so what a call does is    *)
(* what the C library does: the default, reader-preferring, non-robust     *)
(* lock of glibc.  A lock is a record:                                     *)
(*   writer   the thread that holds it for writing (glibc __cur_writer);   *)
(*   readers  the reader count; it is decremented without a check, so one  *)
(*            unlock too many makes it negative;                           *)
(*   phase    who owns an unheld lock (the WRPHASE bit): in the write      *)
(*            phase a writer enters without looking at the reader count.   *)
(*                                                                         *)
(* The result codes (ERROR for EDEADLK and EAGAIN) are not part of the     *)
(* model: lockRead, lockWrite and unlock are void in SharedDataPool.h, so  *)
(* every caller goes on as if the call had succeeded.                      *)
(***************************************************************************)
EXTENDS Integers, FiniteSets

CONSTANTS
  Threads,    \* the threads, of any process, that use the pool
  NoThread    \* "nobody holds the lock for writing"

ASSUME ThreadAssumption ==
  /\ IsFiniteSet(Threads)
  /\ NoThread \notin Threads

Locks == [writer : Threads \cup {NoThread},
          readers : Int,
          phase : {"read", "write"}]

\* pthread_rwlock_init: nobody inside, read phase.
FreeLock == [writer |-> NoThread, readers |-> 0, phase |-> "read"]

\* A read request returns at once with EDEADLK to the writer itself, and
\* waits for any other writer.  It never waits for a waiting writer.
\* Mutant: it does not wait at all.
CanReadLockAlways(l, t) == TRUE
CanReadLock(l, t) == l.writer \in {t, NoThread}

\* EDEADLK leaves the lock alone; so does EAGAIN, which the library reports
\* when the incremented count would still be negative.
\* Mutant: the reader is let in and not counted.
AfterReadLockUncounted(l, t) == l
AfterReadLock(l, t) ==
  IF l.writer = t \/ l.readers + 1 < 0
  THEN l
  ELSE [l EXCEPT !.readers = @ + 1, !.phase = "read"]

CanWriteLock(l, t) ==
  \/ l.writer = t
  \/ l.writer = NoThread /\ (l.readers = 0 \/ l.phase = "write")

AfterWriteLock(l, t) ==
  IF l.writer = t THEN l ELSE [l EXCEPT !.writer = t, !.phase = "write"]

\* One unlock call serves both kinds: it releases the write lock if the
\* caller is the writer and otherwise takes one off the reader count,
\* whether or not the caller is a reader.
AfterUnlock(l, t) ==
  IF l.writer = t
  THEN [l EXCEPT !.writer = NoThread,
                 !.phase = IF l.readers = 0 THEN "write" ELSE "read"]
  ELSE [l EXCEPT !.readers = @ - 1]

==============================================================================
