# IPCSharedDataPool in TLA+

Specifications of the IPC data pool: a C++ library over POSIX shared memory in
which processes share measured points (YX, YC, DZ, YK), exchange events and keep
a sequence-of-events record. This directory models the library's core, checks
the models with TLC and proves theorems about them with TLAPS.

`PROJECT.json` lists the components, the runs, the lines of code every
definition stands for, the hazards and the findings.

## 1. The system

| Part | Code | State | Operations |
|---|---|---|---|
| Read/write lock | `include/ProcessRWLock.h` | one `pthread_rwlock_t` in the segment | initialize, readLock, writeLock, unlock, try and timed variants |
| Data pool: points | `src/SharedDataPool.cpp` | per type three arrays: values, timestamps, qualities | set and get by key and by index, batch writes |
| Data pool: key directory | same | hash table, entry table, one counter per point type | registerKey, findKey |
| Data pool: process table | same | 32 slots with pid, heartbeat, active; `processCount` | registerProcess, unregisterProcess, updateHeartbeat, cleanupDeadProcesses, health checks |
| Data pool: life cycle | same | the segment | create, connect, destroy, disconnect |
| Data pool: snapshots | same | a file | saveSnapshot (temporary file and rename), loadSnapshot, validateSnapshot |
| Event ring | `include/ShmRingBuffer.h` | writeIndex, readIndex, slots, one semaphore, base address | write, read, wait |
| Event center | `src/IPCEventCenter.cpp` | the ring, two counters, the subscribers of the connection | publish, subscribe, unsubscribe, poll, process, wait |
| SOE recorder | `src/SOERecorder.cpp` | ring of records, two counters | record, query, getLatest, clear |
| Persistent storage | `src/PersistentStorage.cpp` | snapshot and backup files, autosave thread | initialize, restore, save, backup |
| Voting engine | `src/VotingEngine.cpp` | voting groups, alarms | add, remove, update, perform voting, acknowledge |
| Client facade | `src/DataPoolClient.cpp` | the parts above, heartbeat and monitor threads | forwards; heartbeat and health loops |
| IEC 61850 mapper, server, adapters | `src/IEC61850*.cpp`, `src/Goose*.cpp`, `src/SV*.cpp`, `src/Report*.cpp` | mappings, data sets, sequence counters | configuration, publishing |
| Log service, process monitor | `src/LogService.cpp`, `include/ProcessMonitor.h` | bounded log; nothing | logEvent, query; sampling of /proc |

**How they interact.** Everything in the segment is shared by any number of
threads and processes, with no process in charge. The points, the key directory
and the process table stand under the one lock of the pool header, except for
updateHeartbeat, which is a lone store. A setter or getter by key takes the lock twice,
once inside findKey and once for the access. The event ring uses atomics and a
semaphore and no lock; only the counters of the event center do. The SOE
recorder calls a lock that is never initialized. The client facade combines
these without a lock of its own, and calls back into the application.

**What is hard.** A point is spread over three arrays. findKey is called
inside and outside of a write section. The ring makes a slot visible before
it is filled. Pollers and waiters share a semaphore that only waiters take
from. A process may die anywhere, a file may be cut off anywhere. Votes go on with the slot of a group
that others remove. The last entry of the key directory lies over
the first slot of the process table. `PROJECT.json` gives each of these hazards
at its line, with the properties that cover it or the reason why none does.

**What makes each part correct.**

| Part | Correct means |
|---|---|
| Points | every point is an atomic register: no get mixes two sets, and every call hands back the lock |
| Key directory | findKey answers for ever what registerKey answered; no two keys share a point |
| Events | one log of accepted events, which every subscriber goes through in order; no sleeper misses one |
| SOE | the ring keeps the newest records without gaps; reads come in order |
| Process table | a slot has one owner until somebody takes it; the count differs from the active slots by no more than restores and second unregistrations explain; deaths are reported, slots come back |
| Snapshots | what is restored is what was saved, all of it at one time; the file saved by name never is cut short; autosaving goes on |
| Life cycle | the name finds the segment of the youngest create, ready for use; nothing is zeroed under those who use it; a type starts with what the last restore brought, or with defaults set after it |
| Voting | two agreeing, valid sources decide; deviations in a row are counted per group, and at the limit the group has by then the alarm is raised |
| Points with events | the last event about a point tells its value |

## 2. The modules

| Module | Models | Refines |
|---|---|---|
| `ProcessRWLock` | what one lock call does, glibc's behaviour in the irregular cases included | |
| `PointStore` | set and get of points, one step per memory access | `AtomicPoints` |
| `BatchStore` | `PointStore` with batchSetYX and batchSetYC beside it | |
| `EventCenter` | ring and event center, one step per atomic access, with a publisher's death | `EventLog` |
| `SOERecorder` | recorder and readers, one step per access | `RecentRecords` |
| `KeyIndex` | key directory, and the process calls that share its last entry; restarts and restores | |
| `Snapshot` | the files of PersistentStorage and saveSnapshot, restoring, autosaving, with crashes and power cuts | |
| `Startup` | create, connect, destroy, disconnect; the start from a snapshot by initialization modes | |
| `VotingRules` | how three sources are decided on and how far they are apart | |
| `Voting` | votes of the client over changing points and groups; setYXWithEvent and setYCWithEvent | |
| `ProcessTable` | process table with the heartbeat and health monitor threads of the client | |
| `PointStoreProofs` | the theorems about `PointStore` and `BatchStore` | |
| `EventCenterProofs` | those about `EventCenter`, and that it implements `EventLog` | |
| `SOERecorderProofs` | those about `SOERecorder`, and that it implements `RecentRecords` | |
| `KeyIndexProofs`, `SnapshotProofs`, `StartupProofs`, `VotingProofs`, `ProcessTableProofs` | the theorems about the module of that name | |

`MC*.tla` with their `.cfg` files give the constants their values.

### ProcessRWLock

The lock is a record of writer, reader count and phase. The code ignores every
result of the lock calls, so a refused call (EDEADLK for a read request by the writer itself)
is a step that changes nothing. `unlock` does not ask who calls: it releases the
write lock if the caller is the writer and takes one off the reader count
otherwise. These cases do not arise in `PointStore`, where `LockAccounted` shows that the
calls are paired, and they are the heart of `BatchStore`.

### PointStore

`values`, `timestamps`, `qualities` are the three arrays of `YXData`; `pc` says
where each thread is in the call. One type of point stands for the four, whose
accessors are the same code. A *sample* stands for the three arguments a caller
passes together, and each cell remembers the sample it came from: a point is torn
when its cells come from different samples. `FindLock`, `FindWalk` and `FindUnlock`
are findKey, `SetLock` to `SetUnlock` the setters, `GetLock` to `GetUnlock` the
getters. The statistics counters and `lastUpdateTime` are left out: nothing reads
them but the statistics calls.

`AtomicPoints` is the promise: registers with atomic stores and fetches. The
mapping takes `values` for the registers, so a store takes effect at its first
write, which no reader can see before the last one.

### BatchStore

A batch takes the write lock and calls findKey for each key. The read request is
refused, and the unlock that ends findKey *releases the write lock*: the batch runs
on without it, and its last unlock takes the reader count to -1. The module
carries this on through the lock's behaviour and asks what is left: plain stores still
exclude each other, and points no batch names stay whole.

### EventCenter

`WriteLoad`, `WriteFull`/`WriteRoom`, `WriteClaim`, `WriteFill`, `WritePost` are the
steps of ShmRingBuffer::write, `CountEvent` the end of publish. `PollFound` and
`PollCopy` are poll (process is repeated polls); `WaitSleep`, `WaitWake`,
`WaitPoll`, `WaitTimeout` are wait. A poll that finds nothing changes nothing
and is no step. `base` is `m_shmBase`, which lies in the segment; `Attach` is
connect, and `wild` says that an actor computed its data address from
an address its own process has not mapped. `Die` ends a publisher's process inside publish.

`EventLog` is the promise: one log, and a position in it for every subscriber. The
log is the slots behind `writeIndex`, with a slot that is being filled read as
the event its publisher holds. A delivery may hand out an unfilled slot instead
of the event, which the code does; `EmptyOnlyInWindow` says exactly when.

### SOERecorder

The steps are the loads and stores of record, clear, query and getLatest. Storing a record
takes two steps with `Torn` between them. The filters of query are a free
choice per record. The reversal at the end of query does not touch shared state
and is left out. `met` is an auxiliary variable that counts the changes a read
has met. `RecentRecords` is the promise: the newest records, oldest dropped first.

### KeyIndex

One step per call, since registerKey and findKey run under the pool's lock.
`Walk` is the chain walk with its bounds. The entries are numbered from 1 to the
number of points, as the code numbers them, and entry `Total` is also written by
the calls on process slot 0: `Shared` is that overlap, computed from the layouts
of `IndexEntry` and `ProcessInfo`. The heartbeat is a 64-bit time whose
halves fall on `index` and `next`. `SaveSnapshot`, `Create` and `LoadSnapshot` are what
the life of the pool does to the directory: a snapshot takes the tables and the process slots, a
restore brings them back *under the header of the running session*, with its
counters. `foreign` remembers that such a restore brought other registrations than this session's.

### Snapshot

A file is what its header was made of and what follows the header, so that a checksum
is the content it was computed from. `Save` is lockRead and the header, `SaveOpen` the
opening, which empties the file, `SaveBody` the segment and the end of the lock,
`SaveRename` the rename of `SharedDataPool::saveSnapshot`; the other files are written in place. The
pool's content is the number of the last set and the number of changes that
take no write lock (`Beat`). `RestoreHead`, `RestoreBody` and `RestoreFallsBack`
are restore, which tries the newest backup if the snapshot is no good, but not if it is not
there; `Apply` is the copy under the write lock. `SaveNotOpened` and `SaveBodyFails` are the
errors, `Crash` kills a process where it is and leaves its lock behind, `PowerCut`
cuts off what was not synced and starts with an empty pool.

Assumed: a rename survives a power cut; a checksum tells contents apart; one backup
and one save by name at a time (there is one temporary file per name, and nothing
in the code keeps two processes from sharing it).

Known of the code and carried by the model: a full disk makes PersistentStorage return OK with a file cut
short; after autosaving was turned off and on the thread may be gone for good, since an
ended thread is still joinable and is not started again.

### Startup

A name finds a segment, and segments live on under those who map them. `CreateAnew`,
`CreateMagic`, `CreateDone` are create: from the magic number on, connect lets others in.
`DestroyLock` and `DestroyName` are destroy, which unlinks *by name*, so that an older
creator takes the name away from a younger segment (`replaced`). `InitRestore`,
`InitFails`, `InitDefaults`, `InitOther` are one type's turn in
PersistentStorage::initialize; a value is told by where it comes from. A restore brings
back all types, over the defaults of those before. restoreDefaults works by index for YX
and YC and by key 0, which nobody registers, for DZ and YK. WAIT_FOR_FRESH and INVALIDATE do nothing, so
`LastRestoreWins` says what the types have in the end, not what their modes promise. An empty snapshot
file, of which hasValidSnapshot reads an uninitialized header, is left out of it.

### VotingRules and Voting

The two decisions and the two deviation levels are operators over three sources. Analog
values are whole, and decisions are six times the value, so that no average is
rounded. In `Voting`, `VoteStart`, three times `VoteRead`, `VoteFind`, `VoteDecide`, `VoteStore`
are performVotingYX and performVotingYC of the client with voteYX and voteYC: the
sources are read under the pool's lock one at a time, and the engine has no lock. `AddCount`,
`AddConfig`, `AddOutput` and `Remove`, `RemoveMove`, `RemoveCount` are the stores of addVotingGroup
and removeVotingGroup in their order. `Update` is updateVotingGroup, which replaces the whole configuration:
strategy, source keys, both limits and the group's name. `ReportSet` and `ReportPublish` are
setYXWithEvent and setYCWithEvent, which join the pool and the event center; the code ignores what becomes of
the publish, so `ReportRefused` (the ring is full, for good) and `ReportDies` (the thread is killed in between)
leave the event out. `run` and `alarmed` record the votes in a row that were severe and the alarm
callback, `reached` that one of them made the run as long as the limit of that moment; `mixed` that a vote
used a slot or a count changed meanwhile or that an update renamed a group, `crossed` that two calls set a
point at the same time, and `untold` that the last one's event was left out. The properties hold but for
these cases, in which the code has no defence. Deviation detection is on, and the groups of one behaviour are
all of one type.

### ProcessTable

`active`, `pid`, `age` are the slots of `ProcessInfo`, with the time since the last
heartbeat for `lastHeartbeat`; `slot` is the client's `m_processId`. A client is
init to shutdown: `Register` and `Shutdown` are what these do to the table (a creator's
shutdown also destroys the segment, which belongs to the life cycle and is left out).
`MonitorList`, `MonitorCheck`, `MonitorDeath` and the cleanup steps are a round of
healthMonitorThreadFunc. `UpdateHeartbeat` takes no lock and may come between any two of
them; cleanup holds the write lock from `CleanupStart` to `CleanupEnd`, and the other calls wait.
unregisterProcess never asks who owns the slot, so `Shutdown` releases the
client's old slot whoever has it by then.

Two more calls write into the table. `Restore` is loadSnapshot or PersistentStorage::restore, which copy
the whole table and leave `processCount`, in the header, as it is; it is one step, under the write lock, and the
table it brings may be any that is sound (`IsTable`), with heartbeats of any age or ahead of the
clock, as after a reboot. A process number used again by another process is not modelled. `RegisterLastKey` is the registration that fills the key
directory, whose entry lies over slot 0: it turns pid and heartbeat into parts of the entry, which
are nobody's number and a time far in the past or ahead; that findKey suffers in turn is in `KeyIndex`.

Time passes only between rounds, which is the assumption that a round is short against
`HEARTBEAT_TIMEOUT_MS`. Ages stop at `2 * Timeout + 1`, beyond every threshold. With
`Timeout = 1` the ages fall into the classes the code tells apart: ahead of the clock,
healthy, warning, dead, to be cleaned up.

`takenBy` records who took a client's slot (another client, a restore or the last key), `gap` by how much the
count exceeds the slots in use, `disturbed` that a table was restored or a running client lost its slot to a cleanup,
`told` the deaths a monitor reported. They are auxiliary: no action depends on them.

## 3. What the runs check

| Run | Expect | Shows |
|---|---|---|
| `point_store` | pass | two threads, two points: atomic points, paired lock calls, getters return |
| `batch_store` | pass | with batches: plain stores exclude each other, other points stay whole |
| `batch_stuck` | violation | one thread that sets a point after its own batch waits for ever |
| `event_center` | pass | order, completeness, wake-ups and counters of events, with a dying publisher |
| `event_address` | violation | with two processes, a publisher uses the other's address |
| `soe_recorder` | pass | the ring keeps the newest records; what reads may rely on without a lock |
| `soe_two_recorders` | violation | two recorders lose a record that counts as recorded |
| `key_index` | pass | findKey answers what registerKey answered; points stay distinct; after restores of other keys no key finds another's place |
| `process_table` | pass | slots have one owner until one is taken, the count differs as restores and second unregistrations say, deaths are reported, slots come back |
| `snapshot` | pass | restored is what was saved; the named file is never cut short; autosaving goes on |
| `startup` | pass | the name finds the youngest pool; nobody's pool is zeroed; each type starts with what the last restore brought or with later defaults |
| `voting` | pass | agreeing sources decide, counts and alarms follow their group through changing limits, the last event tells the value unless it was refused |

Every property of a passing run has a mutant: an operator with a plausible bug
that, put in the place of a definition, makes TLC find that property violated.

**Bounds.** *point_store*: two threads and two points suffice for every pair of
conflicting accesses; the calls are repeated without a bound, one key is known
and one is not. *batch_store*: `MaxDebt` stops new calls once the reader count is
below -2, which takes three batches; `VIEW` hides what getters returned,
which no property of that run reads. *event_center*: three slots take two events,
one from each publisher or two from one; since the ring never has room
again, that is the whole life of the ring, and no further bound is needed. Two
publishers give every race for a slot. *soe_recorder*: a ring of three slots and
five records wraps nearly twice. *process_table*: two clients, one of which is a monitor and the other a cleaner that may crash,
for two slots; slots are freed, taken over and unregistered again by who lost them, and clients go on
after that. One restore (`MaxRestores = 1`) of one table, with the cleaner in slot 0 and a heartbeat one
unit ahead of the clock (`Ahead = 1`), at any moment; `Wrap = 3` for 2^32, so that the count wraps. The theorems need none of these
bounds. *key_index*: a type with two points and one
with one, four keys, three of them in one bucket, so that chains of three, types that
run out and a full table all occur (`MaxKeys` is the number of points); two sessions and one
snapshot give every case of a restore into the same, a grown or a new session. The two
heartbeat times differ in the half that falls on `next`. *snapshot*: the autosave
thread and one other client; one set and one beat make two contents of either kind, and
`MaxEvents = 3` faults, calls, crashes or power cuts in any order reach each restore of each
damaged file. *startup*: three processes are a creator, a second creator and a user; two
segments are an old one and a new one; YC and DZ stand for the types with working and without
working defaults; every mode of both and every state of the files is an initial state. *voting*: two
voters on two groups with the same sources and two reporters share `MaxCalls = 3` calls, with
`CountWidth = 3` for 256, so that three votes in a row wrap the count; the binary configurations differ in
strategy (one of them unknown), order of sources and count limit (1 and 2); every vote of three
sources from four values (good and zero, two that are good and not zero, bad) occurs.

**Deadlock** is checked except in the batch runs, where threads do
get stuck (that is `batch_stuck`), and in `soe_two_recorders`, whose recorders stop at `MaxRecords`;
in `snapshot`, where all may be dead and their lock stays taken; in `startup`, where segments are
bounded and a creator may end with its initialization failed; in `voting`, where calls are bounded.

**Fairness.** *PointStore*: weak fairness for a thread inside a call, since the scheduler runs
it; strong fairness for read requests only, since glibc's lock
prefers readers and hands over to waiting readers when a writer leaves. No fairness beyond
weak for writers: readers may keep them out, so no property says that a set returns.
*EventCenter*: a publisher past its claim goes on (unless dead) and a woken waiter runs; nobody is
obliged to publish or poll, and a sleeping wait may have no timeout.
*ProcessTable*: time goes on (strong, since it waits for rounds to end), cleanup
ends, and a monitor that is not stopped makes its rounds (strong, since it competes for the
lock). Nobody is obliged to register, to beat or to shut down.
*Snapshot*: the autosave thread, while its process lives, goes on with a save, ends when told to, and
its interval passes (weak). It only reads, so a lock left behind by a dead reader does not stop it.
*BatchStore* (`batch_stuck`): weak fairness for a call begun, with a single thread, so
that nothing but the code can keep it waiting.

## 4. What is proved

Every invariant and every action property of a passing run is a theorem for all values of the
constants, and so are the three refinements; what some say of a restricted case only
(`OneAddress`, `OneWaiter`, `OneRecorder`) is told with them. Hardly any property is inductive
by itself: each proof has an invariant of its own.

`PointStoreProofs` proves, for any finite set of threads and any points, keys and samples:

| Theorem | Statement |
|---|---|
| `Invariance` | `Spec => []IInv` |
| `TypeCorrect` | `Spec => []TypeOK` |
| `LockIsAccounted` | `Spec => []LockAccounted` |
| `WriterIsAlone` | `Spec => []WriterAlone` |
| `Refinement` | `Spec => AtomicSpec` |

The assumptions are `ThreadAssumption` (the threads are finitely many, `NoThread`
is none of them) and `PointAssumption`. None of the properties is inductive
alone. Mutual exclusion needs the lock's record to agree with where the threads are
(`LockAccounted`), and the reader count is a cardinality, so the proof counts
threads entering and leaving. The refinement needs more: a fetch maps to one atomic
step at its unlock, so what it has copied must still be what the arrays
hold (`FetchProgress`), which holds since no writer is in (`WriterAlone`); and the three cells
must come from one sample, which is `PointsWhole` with `StoreProgress` for the
writer's half-done work. `CallsReady` keeps the arguments in range. `IInv` is
their conjunction; each action has its own step in the proof.

`ProcessTableProofs` proves, for any processes, monitors, slots, timeouts, restored tables and numbers of
restores:

| Theorem | Statement |
|---|---|
| `Invariance` | `Spec => []IInv` |
| `TypeCorrect` | `Spec => []TypeOK` |
| `SlotsHaveOneOwner` | `Spec => []OwnersKept` |
| `CountIsRight` | `Spec => []CountIsActive` |

They rest on `ProcessTableAssumption`, in which the slots are finitely many naturals and
fewer than `Wrap`, and the restored tables are sound. `OwnersKept` needs that a slot in a client's name is in use (`NamedInUse`)
and that the accounts of crashed clients are right too
(`TakenAccounted`). The count needs to know what a release takes from the slots in use:
a cleanup's slot is in use, because it alone has the lock (`OneCleanup`,
`TodoReady`); a shutdown's may not be, which is what `gap` counts, but it is until somebody is expelled or a
table restored (`NoneExpelled`).

`PointStoreProofs` proves of `BatchStore`, for any threads, points, batches and damage to the reader count:

| Theorem | Statement |
|---|---|
| `BatchInvariance` | `BSpec => []BatchInv` |
| `StoresStayExclusive` | `BSpec => []StoresExclusive` |
| `OtherPointsStayWhole` | `BSpec => []OtherPointsWhole` |

The argument leaves the reader count out: an unlock by somebody else never ends a
write lock, and a plain store has no unlock before its last (`StoreHeld`). What a batch writes
must be points it names, so the keys it has left, the key it looks up and the point it found
are followed through its loop (`OfTheBatch`). `BatchAssumption` says that batches are
sequences of keys.

`EventCenterProofs` proves, for any finite sets of publishers and subscribers, any capacity of at
least 2 and any addresses, with publishers dying:

| Theorem | Statement |
|---|---|
| `Invariance` | `Spec => []IInv` |
| `TypeCorrect` | `Spec => []TypeOK` |
| `ClaimedOnce` | `Spec => []SlotsClaimedOnce` |
| `TotalsAreRight` | `Spec => []TotalsAgree` |
| `RingIsSpent` | `Spec => SpentForGood` |

Everything follows from one fact: `readIndex` never moves, so the check for a full ring stops
`writeIndex` at `Capacity - 1` and it never comes round. What a publisher has loaded is behind
`writeIndex` (`LoadedBehind`), and beyond it nothing was written (`Untouched`).

On top of the same invariant it proves:

| Theorem | Assuming | Statement |
|---|---|---|
| `EmptyInWindow` | `OneAddress` | `Spec => EmptyOnlyInWindow` |
| `Refinement` | `OneAddress` | `Spec => LogSpec` |
| `NobodySleepsOn` | `OneWaiter` | `Spec => []NoLostWakeup` |

`OneAddress` says that every process finds the segment at the addresses in use; `event_address`
shows what happens else. `OneWaiter` says that one subscriber at most calls wait, the condition under which
the run checks the property too. The refinement maps the claim to the acceptance
of an event, before the slot is filled: the log holds, for such a slot, the event that its publisher
is about to store. That this is one publisher at most is `SlotsClaimedOnce`; that a slot below
`writeIndex` is empty only then is `Window`.

`StartupProofs` proves, for any processes, types of points and number of segments:

| Theorem | Statement |
|---|---|
| `Invariance` | `Spec => []IInv` |
| `TypeCorrect` | `Spec => []TypeOK` |
| `YoungestIsFound` | `Spec => []NameFindsYoungest` |
| `RestoresWin` | `Spec => []LastRestoreWins` |
| `NothingIsWiped` | `Spec => NeverWiped` |

A segment has one creator (`CreatorsApart`), so its stage says where the creator is
(`StagesFollow`), and who connects meets no empty one. The name is the youngest segment's or nobody's, and
stays while its creator works with it (`NameKept`). `InitProgress` says what every type has when initialize has
come to type n, and `LastRestoreWins` is its end. `NothingIsWiped` is about zeroing only: restores and
defaults do overwrite what a connected process stored.

`KeyIndexProofs` proves, for any keys, types, counts of points, hash function, chains and
snapshots:

| Theorem | Statement |
|---|---|
| `PointsAreDistinct` | `Spec => []PointsDistinct` |
| `FindsWhatWasGiven` | `Spec => []FindAgrees` |
| `PlacesStayOwn` | `Spec => []FindsOwnPlaces` |

A point given lies below its type's counter (`GivenBelow`), which only registration
moves and only create resets; so points are distinct (`IInv`). What findKey answers rests on
the tables (`DirInv`). Each entry is chained to the last older one of its bucket, each bucket's
head is its youngest entry (`OwnTables`), and a saved snapshot is such a directory as well
(`SavedTables`). After a restore of other registrations the table is the saved one with younger entries in
front (`Grown`), which is less, but enough for `FindsOwnPlaces`. `Counted` says that there are
as many entries as points handed out, so that a free entry is there whenever a point is; entry
`Total` is exempt, since the process calls write into it. The walk and the sum are recursive
functions. What is proved of them goes by an induction over a set of numbers (`Counting`),
obtained from the least counterexample, because the library's induction theorems cannot be used.

`SOERecorderProofs` proves `Spec => []TypeOK` for any recorders, and for one recorder
(`OneRecorder`), any readers and any capacity of at least 2:

| Theorem | Statement |
|---|---|
| `RingInvariance` | `Spec => []RingInv` |
| `InOrder` | `Spec => []ReadsInOrder` |
| `NewestFirst` | `Spec => []LatestIsNewest` |
| `NewestKept` | `Spec => KeepsNewest` (the refinement) |

With two recorders records get lost (`soe_two_recorders`), so the run that checks these properties
has one, too. The invariant follows the slots backwards from
`head` (`RingHolds`): the ring holds the last records in their order, and during a clear a descending
sequence. A read that at most one record has met is at most one slot behind (`Near`), the slot
that this record overwrites is the free one, and what the read has still to visit
lies before it, in order (`View`).

`SnapshotProofs` proves, for any threads and backups, through crashes, full disks and power cuts:

| Theorem | Statement |
|---|---|
| `Invariance` | `Spec => []IInv` |
| `TypeCorrect` | `Spec => []TypeOK` |
| `RestoresAreSaved` | `Spec => []RestoredWasSaved` |
| `TargetStaysWhole` | `Spec => []TargetWhole` |
| `HeadersTellPoints` | `Spec => []OnlyBeatsSpoil` |

A thread that saves keeps the read lock, so while it saves, the points stay what its header says
(`SavingHolds`, `FilledBehindHeader`): a file never has a segment behind a header made of other
points (`FilesWereCaptured`), even when two threads write one file. Of the temporary file one thread has
the use at a time, and it renames it only when it is whole and synced (`TempIsOwned`); this is where the
assumption of section 2 is used, that one thread at a time saves by name. `SnapshotAssumption` adds that the files
have different names.

`VotingProofs` proves, for any points, values, callers, groups and limits:

| Theorem | Statement |
|---|---|
| `LastEventIsRight` | `Spec => []LastEventAgrees` |
| `CountsFollowGroups` | `Spec => []CountFollowsGroup` |
| `AlarmsTellRuns` | `Spec => []RunsAreNoticed` |
| `SteadyPairsWin` | `Spec => []SteadyPairWins` |

*Events*: of the calls about a point that were not crossed, one at most still owes its event,
and the pool holds the value it stored (`OneOwes`); one that lost its event marks the point until the next. *Counts and alarms*: output, count and alarm of a
slot are of the group in it, where the last slot is exempt while it is filled or given up and a
slot that becomes free is about to get the last one's output (`SlotsTell`); a vote that nothing disturbed since
it found its slot still has the slot and the count of its group (`Holds`); and a byte's count is the
rest of the run's length (`OneRest`, `BytesCount`); a limit fits in a byte as well, so a run that is as long as
a limit was noticed before its count wrapped. *Pairs*: what a vote has read of the
points that nothing set meanwhile is what they are (`Reads`), and a decision that nothing
disturbed is the one on what was read, by the configuration its slot still has
(`Follows`). The rest is about three sources: with two that agree, the decision is theirs
(`PairIsBinary`), and for analog values the third is left out or near enough (`PairIsAnalog`). This last
uses `ConfigAssumption`: no configuration has a negative deviation limit. The code's default is 0 and
nothing refuses another, but with a negative limit no value is near to any.

The assumptions on the constants are named in each module and TLC evaluates them in its runs.
Some say no more than that a marker is no proper value: `Unfilled` is no event, `None` no report.

Only model-checked: the liveness properties (`GetsReturn`, `SleeperWakes`, `DeathsReported`,
`SlotsReclaimed`, `AutosaveGoesOn`), since the proof system does not cover fairness and ENABLED
here; and what the violation runs refute (`SetsReturn`, `OwnAddresses`, `RecordsAccounted`).

## 5. Findings

The code does not do what its documents say in these cases (details and quotes in `PROJECT.json`). Violation
runs show three: a batch write gives its lock away and
leaves it damaged; the base address of the ring is shared by processes that map it elsewhere; the
SOE recorder's lock is never initialized. Properties that hold show three more:

- the event ring takes capacity - 1 events and is then full for good (`SpentForGood`), where `src/README.md:451` says
  that a full ring overwrites its oldest events and `src/USER_MANUAL.md:1571-1588` advises to enlarge it and to process more often;
- voting strategy 0 decides with two good sources, as strategy 1 does (`SteadyPairWins`), where `src/USER_MANUAL.md:892` says
  that it needs all three;
- initialize gives a type what the last restore of any type brought, and WAIT_FOR_FRESH and INVALIDATE do nothing
  (`LastRestoreWins`), where `src/include/PersistentStorage.h:132-136` promises each type its mode. The default configuration (YC
  with LOAD_DEFAULT before DZ with LOAD_LAST_VALUE) is such a case.

Other facts are stated by properties that hold, or by the cases these leave out:

- the entry of the last key lies over process slot 0 (`FindAgrees` leaves out the bucket it heads);
- the last key also makes the process in slot 0 nobody's, and a restored table may hand a running process's slot to another
  (`OwnersKept`);
- a process whose slot was cleaned up counts itself out a second time, and a restore does not restore the count
  (`gap` in `CountIsActive`);
- a restore brings back keys only to a session that has registered the same keys at the same
  places (`FindAgrees`), and init with a failing event center leaves the pool's name behind (`Disconnect` in `Startup`);
- an older creator's shutdown takes the name from a younger pool (`NameFindsYoungest`);
- two binary sources with the values 1 and 3 disagree, yet do not deviate (`LevelYX`);
- a group removed while a vote on another goes on may get that vote's output (`CountFollowsGroup`);
- two calls of setYXWithEvent beside each other may leave the older value in the last event, and an event the ring refuses is never made up for (`LastEventAgrees`).

## 6. What is not modelled

- *The lock*: a process dying inside it. The lock is not robust and no code recovers from it.
  `Snapshot` keeps such a dead holder; elsewhere processes die outside of the lock only.
- *Pool*: sizes and offsets of the segment, statistics, and two creates racing for one name between
  shm_unlink and shm_open.
- *Persistent storage*: the list of point configurations, which nothing reads, and two processes
  saving to one name, whose shared temporary file is listed as a hazard.
- *Voting engine*: its segment, which create zeroes under those who use it; statistics, queries and
  quickVote; acknowledgeAlarm and getActiveAlarms, which find nothing, since nothing sets
  `m_alarmFlags`; a configuration read half copied, and a search for a group that meets a removal half way.
- *IEC 61850 mapper, server, Goose, SV and report adapters*: they wrap a library of which the
  repository has headers and binaries only, so what its threads and callbacks do when is not to be read
  there. What they keep of their own (mappings, bindings, subscriptions, the values and counters of a frame)
  belongs to one object of one process; the adapters guard theirs with a mutex. Their data sets and
  counters are left for later (section 7).
- *Log service, process monitor*: formatting, and sampling of /proc.
- *Applications and vendored code* (qcustomplot, pugixml, easylogging): not this project's logic.

## 7. Plan

1. Done: lock, points, batches, events, SOE, key directory with restarts, process table, snapshots
   and autosaving, life cycle and start, voting, points with events.
2. Done: the proofs of all invariants, action properties and refinements.
3. The mapper's data sets with their reports, the log service's bounded list, the adapters' counters.
4. Two saves to one name, with what the shared temporary file can then hold.
