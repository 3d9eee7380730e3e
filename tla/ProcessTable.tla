----------------------------- MODULE ProcessTable ----------------------------
(***************************************************************************)
(* The process table of SharedDataPool and the two threads of              *)
(* DataPoolClient that live on it: the heartbeat, which keeps a client's   *)
(* slot, and the health monitor, which reports the silent ones and frees   *)
(* their slots.                                                            *)
(*                                                                         *)
(* Registration, unregistration and cleanup run under the pool's write     *)
(* lock.  A heartbeat is a lone store that asks neither for the lock nor   *)
(* for the owner of the slot.  A cleanup therefore is several steps here,  *)
(* two for each slot it frees, and a heartbeat may come in between; the    *)
(* other calls are one step each, and wait while a cleanup is under way.   *)
(*                                                                         *)
(* Two more calls write to the table without meaning it.  A restored       *)
(* snapshot brings the whole table back, but not the count of processes,   *)
(* which is in the header.  The last key of a full index is registered one *)
(* entry behind the index, over the first process slot.                    *)
(*                                                                         *)
(* Time is the age of each slot's last heartbeat, which stops counting     *)
(* when it is past every threshold.  A restored heartbeat may be one of    *)
(* before a reboot and lie ahead of the clock, so that its age is          *)
(* negative.  A round of the monitor is short against the timeouts: time   *)
(* passes only between rounds.                                             *)
(*                                                                         *)
(* What nothing reads is set back to its first value, to keep the states   *)
(* few: the age of a slot that is not active, the cache of a monitor that  *)
(* does not run.                                                           *)
(***************************************************************************)
EXTENDS Integers, FiniteSets, FiniteSetsExt

CONSTANTS
  Clients,     \* the processes, each with one DataPoolClient
  Monitors,    \* those that run the health monitor thread
  Cleaners,    \* those that call cleanupDeadProcesses on their own
  Mortal,      \* those that may crash
  Slots,       \* 0 .. MAX_PROCESS_COUNT - 1
  Timeout,     \* HEARTBEAT_TIMEOUT_MS
  Wrap,        \* 2^32: processCount is unsigned
  Ahead,       \* bound: how far a restored heartbeat lies ahead of the clock
  Snapshots,   \* bound: the tables that may be restored
  MaxRestores, \* bound on restores
  NoClient,    \* 0, or the number of no client: a stranger's, a part of a key
  NoSlot,
  Overwritten  \* in takenBy: a restore, or the last key

Oldest == 2 * Timeout + 1
Ages == (-Ahead)..Oldest

\* A table such as may have been saved, in this session or an earlier one, with its
\* heartbeats as old as they are by now: a slot in a client's name is in use.
IsTable(t) ==
  /\ t.active \in [Slots -> BOOLEAN]
  /\ t.pid \in [Slots -> Clients \cup {NoClient}]
  /\ t.age \in [Slots -> Ages]
  /\ \A s \in Slots : ~t.active[s] => t.pid[s] = NoClient /\ t.age[s] = Oldest

ASSUME ProcessTableAssumption ==
  /\ NoClient \notin Clients
  /\ Overwritten \notin Clients /\ Overwritten # NoClient
  /\ Mortal \subseteq Clients
  /\ Monitors \subseteq Clients /\ Cleaners \subseteq Clients \ Monitors
  /\ Slots \subseteq Nat /\ 0 \in Slots /\ IsFiniteSet(Slots) /\ NoSlot \notin Slots
  /\ Timeout \in Nat \ {0}
  /\ Wrap \in Nat /\ Wrap > Cardinality(Slots)
  /\ Ahead \in Nat /\ MaxRestores \in Nat
  /\ \A t \in Snapshots : IsTable(t)

VARIABLES
  active, pid, age,   \* the slots: ProcessInfo
  processCount,
  state,              \* clients: "out", "in" or "crashed"
  slot,               \* clients: m_processId
  tpc, todo,          \* clients: control point of monitor or cleanup, slots to visit
  cache,              \* m_processHealthCache
  told,               \* crashed clients a monitor's death callback was called for
  lastKey,            \* the key index is full
  takenBy,            \* clients: who took their slot from them
  gap,                \* what the count has, modulo Wrap, and the slots in use have not
  disturbed,          \* a cleanup took a running client's slot, or a table was restored
  restores            \* how many there have been

slots == <<active, pid, age, processCount>>
threads == <<tpc, todo, cache, told>>
writers == <<lastKey, restores>>
account == <<takenBy, gap, disturbed>>
vars == <<slots, state, slot, threads, writers, account>>

Used == Cardinality({s \in Slots : active[s]})
Healths == {"UNKNOWN", "HEALTHY", "WARNING", "DEAD"}

Init ==
  /\ active = [s \in Slots |-> FALSE]
  /\ pid = [s \in Slots |-> NoClient]
  /\ age = [s \in Slots |-> Oldest]  \* lastHeartbeat is 0
  /\ processCount = 0
  /\ state = [c \in Clients |-> "out"]
  /\ slot = [c \in Clients |-> NoSlot]
  /\ tpc = [c \in Clients |-> "off"]
  /\ todo = [c \in Clients |-> {}]
  /\ cache = [m \in Monitors |-> [s \in Slots |-> "UNKNOWN"]]
  /\ told = [m \in Monitors |-> {}]
  /\ lastKey = FALSE
  /\ takenBy = [c \in Clients |-> NoClient]
  /\ gap = 0
  /\ disturbed = FALSE
  /\ restores = 0

Locked == \E c \in Clients : tpc[c] \in {"sweep", "free"}

\* Time goes on, and the slots that get no heartbeat grow older.
Tick ==
  /\ \A c \in Clients : tpc[c] \in {"off", "rest"}
  /\ age' = [s \in Slots |-> IF age[s] = Oldest THEN Oldest ELSE age[s] + 1]
  /\ UNCHANGED <<active, pid, processCount, state, slot, threads, writers, account>>

StopsMonitor(c) ==
  /\ cache' = [m \in Monitors |-> IF m = c THEN [s \in Slots |-> "UNKNOWN"] ELSE cache[m]]
  /\ told' = [m \in Monitors |-> IF m = c THEN {} ELSE told[m]]

------------------------------------------------------------------------------
(* A client's life.                                                        *)

\* Mutants: one slot too many; slots in use.
FreeSlotsOneMore == {s \in Slots : ~active[s]} \cup {Max(Slots) + 1}
FreeSlotsAll == Slots
FreeSlots == {s \in Slots : ~active[s]}

\* init takes the first free slot; without one the client runs unregistered.
Register(c) ==
  /\ state[c] = "out" /\ ~Locked
  /\ state' = [state EXCEPT ![c] = "in"]
  /\ IF FreeSlots = {}
     THEN /\ slot' = [slot EXCEPT ![c] = NoSlot]
          /\ UNCHANGED slots
     ELSE LET s == Min(FreeSlots) IN
            /\ slot' = [slot EXCEPT ![c] = s]
            /\ active' = [active EXCEPT ![s] = TRUE]
            /\ pid' = [pid EXCEPT ![s] = c]
            /\ age' = [age EXCEPT ![s] = 0]
            /\ processCount' = (processCount + 1) % Wrap
  /\ UNCHANGED <<threads, writers, account>>

\* updateHeartbeat, by the heartbeat thread or by the application.
UpdateHeartbeat(c) ==
  /\ state[c] = "in" /\ slot[c] # NoSlot
  /\ age' = [age EXCEPT ![slot[c]] = IF active[slot[c]] THEN 0 ELSE Oldest]
  /\ UNCHANGED <<active, pid, processCount, state, slot, threads, writers, account>>

\* The slot a client was given, and whether the table says it is the client's.
Holds(c, s) == slot[c] = s /\ pid[s] = c
Owns(c) == slot[c] # NoSlot /\ pid[slot[c]] = c

\* What unregisterProcess and cleanupDeadProcesses do to a slot.  Mutant: the
\* count is forgotten.
ReleaseUncounted(s) ==
  /\ active' = [active EXCEPT ![s] = FALSE]
  /\ pid' = [pid EXCEPT ![s] = NoClient]
  /\ age' = [age EXCEPT ![s] = Oldest]
  /\ UNCHANGED processCount

Release(s) ==
  /\ active' = [active EXCEPT ![s] = FALSE]
  /\ pid' = [pid EXCEPT ![s] = NoClient]
  /\ age' = [age EXCEPT ![s] = Oldest]
  /\ processCount' = (processCount + Wrap - 1) % Wrap

\* shutdown waits for the threads to end their rounds, then unregisters the slot
\* it was given, whoever has it now.
Shutdown(c) ==
  /\ state[c] = "in" /\ tpc[c] \in {"off", "rest"} /\ ~Locked
  /\ state' = [state EXCEPT ![c] = "out"]
  /\ slot' = [slot EXCEPT ![c] = NoSlot]
  /\ tpc' = [tpc EXCEPT ![c] = "off"]
  /\ IF slot[c] = NoSlot
     THEN UNCHANGED <<slots, takenBy, gap>>
     ELSE /\ Release(slot[c])
          /\ takenBy' = [x \in Clients |->
                           IF x = c THEN NoClient ELSE IF Holds(x, slot[c]) THEN c ELSE takenBy[x]]
          /\ gap' = IF active[slot[c]] THEN gap ELSE (gap + Wrap - 1) % Wrap
  /\ StopsMonitor(c)
  /\ UNCHANGED <<todo, writers, disturbed>>

\* The process dies, though not inside the lock.
Crash(c) ==
  /\ c \in Mortal
  /\ state[c] = "in" /\ tpc[c] \notin {"sweep", "free"}
  /\ state' = [state EXCEPT ![c] = "crashed"]
  /\ tpc' = [tpc EXCEPT ![c] = "off"]
  /\ todo' = [todo EXCEPT ![c] = {}]
  /\ StopsMonitor(c)
  /\ UNCHANGED <<slots, slot, writers, account>>

------------------------------------------------------------------------------
(* The writers that do not mean the table.                                 *)

\* loadSnapshot and readSnapshotFile: everything behind the header is copied over,
\* the count in the header is not.
Restore(c) ==
  /\ state[c] = "in" /\ ~Locked
  /\ restores < MaxRestores
  /\ restores' = restores + 1
  /\ \E t \in Snapshots : active' = t.active /\ pid' = t.pid /\ age' = t.age
  /\ takenBy' = [x \in Clients |->
       IF slot[x] = NoSlot \/ pid'[slot[x]] = x THEN NoClient
       ELSE IF Owns(x) THEN Overwritten ELSE takenBy[x]]
  /\ gap' = (gap + Wrap + Used - Used') % Wrap
  /\ disturbed' = TRUE
  /\ UNCHANGED <<processCount, state, slot, threads, lastKey>>

\* registerKey fills the index: its last entry lies over the first process slot,
\* the key over pid, index and next over lastHeartbeat.  active lies behind it.
RegisterLastKey(c) ==
  /\ state[c] = "in" /\ ~Locked
  /\ ~lastKey
  /\ lastKey' = TRUE
  /\ pid' = [pid EXCEPT ![0] = NoClient]
  /\ \E n \in {-Ahead, Oldest} : age' = [age EXCEPT ![0] = IF active[0] THEN n ELSE Oldest]
  /\ takenBy' = [x \in Clients |-> IF Holds(x, 0) THEN Overwritten ELSE takenBy[x]]
  /\ UNCHANGED <<active, processCount, state, slot, threads, restores, gap, disturbed>>

------------------------------------------------------------------------------
(* The health monitor.                                                     *)

Goto(c, from, to) ==
  /\ tpc[c] = from
  /\ tpc' = [tpc EXCEPT ![c] = to]

\* checkProcessHealth.
Elapsed(s) == IF age[s] > 0 THEN age[s] ELSE 0

Health(s) ==
  IF ~active[s] THEN "UNKNOWN"
  ELSE IF Elapsed(s) > Timeout THEN "DEAD"
  ELSE IF Elapsed(s) > Timeout \div 2 THEN "WARNING"
  ELSE "HEALTHY"

StartMonitor(m) ==
  /\ state[m] = "in"
  /\ Goto(m, "off", "rest")
  /\ UNCHANGED <<slots, state, slot, todo, cache, told, writers, account>>

StopMonitor(m) ==
  /\ Goto(m, "rest", "off")
  /\ StopsMonitor(m)
  /\ UNCHANGED <<slots, state, slot, todo, writers, account>>

\* getActiveProcessList.  Every slot is looked at on its own afterwards, so
\* nothing depends on the list being taken at one moment.
MonitorList(m) ==
  /\ Goto(m, "rest", "check")
  /\ todo' = [todo EXCEPT ![m] = {s \in Slots : active[s]}]
  /\ UNCHANGED <<slots, state, slot, cache, told, writers, account>>

\* Mutant: a death is reported only of a process that was well before.
ReportsSudden(old, new) == old = "HEALTHY" /\ new = "DEAD"
Reports(old, new) == new = "DEAD"

\* The next slot of the list.  The monitor passes over its own; if another one's
\* health has changed, the change callback is called, and for a death the death
\* callback comes next.
MonitorCheck(m) ==
  /\ todo[m] # {}
  /\ LET s == Min(todo[m])
         changed == s # slot[m] /\ Health(s) # cache[m][s]
         dead == changed /\ Reports(cache[m][s], Health(s))
     IN  /\ Goto(m, "check", IF dead THEN "info" ELSE "check")
         /\ cache' = IF changed THEN [cache EXCEPT ![m][s] = Health(s)] ELSE cache
         /\ todo' = IF dead THEN todo ELSE [todo EXCEPT ![m] = @ \ {s}]
  /\ UNCHANGED <<slots, state, slot, told, writers, account>>

\* getProcessInfo and the death callback, for whoever has the slot by now.
MonitorDeath(m) ==
  /\ ~Locked
  /\ Goto(m, "info", "check")
  /\ LET s == Min(todo[m]) IN
       /\ told' = [told EXCEPT ![m] = @ \cup ({pid[s]} \cap {c \in Clients : state[c] = "crashed"})]
       /\ todo' = [todo EXCEPT ![m] = @ \ {s}]
  /\ UNCHANGED <<slots, state, slot, cache, writers, account>>

------------------------------------------------------------------------------
(* cleanupDeadProcesses: the last part of a round, or a call of its own.   *)

CleanupStart(c) ==
  /\ ~Locked
  /\ \/ Goto(c, "check", "sweep") /\ todo[c] = {}
     \/ Goto(c, "off", "sweep") /\ c \in Cleaners /\ state[c] = "in"
  /\ todo' = [todo EXCEPT ![c] = Slots]
  /\ UNCHANGED <<slots, state, slot, cache, told, writers, account>>

\* Mutant: the test of active is turned round.
StaleTurned(s) == ~active[s] /\ age[s] > 2 * Timeout
Stale(s) == active[s] /\ age[s] > 0 /\ age[s] > 2 * Timeout

\* The next stale slot; those before it are passed over.
CleanupLook(c) ==
  LET stale == {s \in todo[c] : Stale(s)} IN
  /\ stale # {}
  /\ Goto(c, "sweep", "free")
  /\ todo' = [todo EXCEPT ![c] = {s \in @ : s >= Min(stale)}]
  /\ UNCHANGED <<slots, state, slot, cache, told, writers, account>>

CleanupFree(c) ==
  /\ Goto(c, "free", "sweep")
  /\ LET s == Min(todo[c])
     IN  /\ Release(s)
         /\ todo' = [todo EXCEPT ![c] = @ \ {s}]
         /\ takenBy' = [x \in Clients |-> IF Holds(x, s) THEN c ELSE takenBy[x]]
         /\ disturbed' = (disturbed \/ \E x \in Clients : state[x] = "in" /\ slot[x] = s)
  /\ UNCHANGED <<state, slot, cache, told, writers, gap>>

CleanupEnd(c) ==
  /\ \A s \in todo[c] : ~Stale(s)
  /\ Goto(c, "sweep", IF c \in Monitors THEN "rest" ELSE "off")
  /\ todo' = [todo EXCEPT ![c] = {}]
  /\ UNCHANGED <<slots, state, slot, cache, told, writers, account>>

------------------------------------------------------------------------------
Round(m) ==
  MonitorList(m) \/ MonitorCheck(m) \/ MonitorDeath(m)

Cleanup(c) == CleanupLook(c) \/ CleanupFree(c) \/ CleanupEnd(c)

Client(c) ==
  \/ Register(c) \/ UpdateHeartbeat(c) \/ Shutdown(c) \/ Crash(c)
  \/ c \in Monitors /\ (StartMonitor(c) \/ StopMonitor(c))

Overwrite(c) ==
  RegisterLastKey(c) \/ Restore(c)

Next ==
  \/ Tick
  \/ \E c \in Clients : Client(c) \/ Overwrite(c) \/ CleanupStart(c) \/ Cleanup(c)
  \/ \E m \in Monitors : Round(m)

Spec == Init /\ [][Next]_vars

\* Time goes on between the rounds of the monitor, which sleeps longer than it
\* works; whoever cleans up finishes; and a monitor that is not stopped makes its
\* rounds, though it may have to try more than once for the lock.
FairSpec ==
  /\ Spec
  /\ SF_vars(Tick)
  /\ WF_vars(\E c \in Clients : Cleanup(c))
  /\ \A m \in Monitors : SF_vars(Round(m) \/ (tpc[m] = "check" /\ CleanupStart(m)))

------------------------------------------------------------------------------
Running == {c \in Clients : state[c] = "in"}

\* The variables keep their types; the count of processes stays a 32-bit number.
TypeOK ==
  /\ active \in [Slots -> BOOLEAN]
  /\ pid \in [Slots -> Clients \cup {NoClient}]
  /\ age \in [Slots -> Ages]
  /\ processCount \in 0..(Wrap - 1)
  /\ state \in [Clients -> {"out", "in", "crashed"}]
  /\ slot \in [Clients -> Slots \cup {NoSlot}]
  /\ tpc \in [Clients -> {"off", "rest", "check", "info", "sweep", "free"}]
  /\ todo \in [Clients -> SUBSET Slots]
  /\ cache \in [Monitors -> [Slots -> Healths]]
  /\ told \in [Monitors -> SUBSET Clients]
  /\ lastKey \in BOOLEAN
  /\ restores \in 0..MaxRestores
  /\ takenBy \in [Clients -> Clients \cup {NoClient, Overwritten}]
  /\ gap \in 0..(Wrap - 1)
  /\ disturbed \in BOOLEAN

\* A running process has the slot it was given to itself, in use and in its name,
\* unless another process freed it, a restored table or the last key was written
\* over it; registering, unregistering and heartbeats lead to no second owner.
OwnersKept ==
  \A c \in Running : slot[c] # NoSlot =>
    (active[slot[c]] /\ Owns(c) <=> takenBy[c] = NoClient)

\* The count of processes is the number of slots in use, but for what restores put
\* into use or out of it and what was unregistered twice.  Nothing is unregistered
\* twice until a cleanup takes a running process's slot, or a table is restored.
CountIsActive ==
  /\ processCount = (Used + gap) % Wrap
  /\ ~disturbed => gap = 0

\* The slot of a client is another running one's, too.
Shared(c) == \E x \in Running : slot[x] = slot[c]

\* A process that dies after the monitor has seen it alive is reported dead,
\* unless somebody else took its slot first, the monitor was stopped, a table was
\* restored, or a process that lost its slot keeps beating on this one.
DeathsReported ==
  \A m \in Monitors, c \in Mortal :
    (/\ state[c] = "crashed" /\ Owns(c) /\ restores = 0
     /\ tpc[m] # "off" /\ cache[m][slot[c]] \in {"HEALTHY", "WARNING"})
      ~> (\/ c \in told[m] \/ takenBy[c] \notin {m, NoClient}
          \/ tpc[m] = "off" \/ restores > 0 \/ Shared(c))

\* The slot of a process that died is taken from it in the end, unless the monitor
\* is stopped or a process that lost its slot keeps beating on this one.
SlotsReclaimed ==
  \A m \in Monitors, c \in Mortal :
    (state[c] = "crashed" /\ Owns(c) /\ tpc[m] # "off")
      ~> (~Owns(c) \/ tpc[m] = "off" \/ Shared(c))

------------------------------------------------------------------------------
(* The inductive invariant, for ProcessTableProofs.                        *)

\* Who reports or frees a slot has one in hand, which is in use while it is freed.
TodoReady ==
  \A c \in Clients :
    /\ tpc[c] \in {"info", "free"} => todo[c] # {}
    /\ tpc[c] = "free" => active[Min(todo[c])]

\* One cleanup at a time.
OneCleanup ==
  \A c, d \in Clients : tpc[c] \in {"sweep", "free"} /\ tpc[d] \in {"sweep", "free"} => c = d

\* A slot in a client's name is in use.
NamedInUse == \A s \in Slots : pid[s] \in Clients => active[s]

\* A client, running or crashed, owns its slot unless somebody took it.
TakenAccounted ==
  \A c \in Clients :
    /\ state[c] = "out" => slot[c] = NoSlot
    /\ slot[c] = NoSlot => takenBy[c] = NoClient
    /\ slot[c] # NoSlot => (Owns(c) <=> takenBy[c] = NoClient)

\* Before the first restore and the first expulsion the running clients have slots
\* in use, each one of its own.
NoneExpelled ==
  ~disturbed =>
    \A c \in Running : slot[c] # NoSlot =>
      /\ active[slot[c]]
      /\ \A d \in Running : slot[d] = slot[c] => d = c

IInv ==
  /\ TypeOK
  /\ TodoReady
  /\ OneCleanup
  /\ NamedInUse
  /\ TakenAccounted
  /\ NoneExpelled
  /\ CountIsActive

==============================================================================
