------------------------------- MODULE Snapshot ------------------------------
(***************************************************************************)
(* The snapshots of the pool, of both kinds, and the crashes they are for. *)
(*                                                                         *)
(* PersistentStorage writes its snapshot file and its backups in place.    *)
(* SharedDataPool::saveSnapshot writes a temporary file, syncs it and      *)
(* renames it.  Both hold the pool's read lock while they sum up and write *)
(* the segment, which keeps out the setters but not what changes without   *)
(* the write lock: the heartbeats and, in the header that only             *)
(* SharedDataPool sums up, the lock itself.                                *)
(*                                                                         *)
(* The points of the pool are the number of the last set that reached      *)
(* them, and `beats' numbers the changes made without the write lock.  A   *)
(* checksum is the content it was made of: it tells any two contents       *)
(* apart.  A file is the content its header was made of and the content    *)
(* that follows the header, None when that is missing or cut short.        *)
(***************************************************************************)
EXTENDS Naturals, FiniteSets, FiniteSetsExt

CONSTANTS
  Autosaver,    \* the autosave thread of one process
  Callers,      \* threads of other processes, which call the storage
  Backups,      \* 1 .. : the backup files, in the order of their making
  Snap, Target, Temp,  \* m_config.snapshotPath; the file of
                       \* SharedDataPool::saveSnapshot and its ".tmp"
  MaxSets, MaxBeats, MaxEvents,  \* bounds on what happens
  None, Absent

\* The paths are apart from each other, and from what is in no file.
ASSUME SnapshotAssumption ==
  /\ Autosaver \notin Callers
  /\ Backups \subseteq Nat \ {0} /\ IsFiniteSet(Backups)
  /\ {MaxSets, MaxBeats, MaxEvents} \subseteq Nat
  /\ Snap # Target /\ Snap # Temp /\ Target # Temp
  /\ {Snap, Target, Temp} \cap Backups = {}
  /\ None \notin {Snap, Target, Temp} \cup Backups
  /\ None \notin [points : 0..MaxSets, beats : 0..MaxBeats]

VARIABLES
  points, last,     \* the pool's points; the number of the last set
  beats,
  holders,          \* who holds the read lock, the dead included
  files,            \* what is on the disk
  pc, path, sum,    \* threads: where in a call, on which file, with what header
  autoOn, running, thread,   \* m_autoSnapshot, m_running, m_snapshotThread
  events,           \* the calls, faults and crashes so far
  steered,          \* autosaving was turned on or off since the process started
  captured          \* the points at every lockRead of a save

pool == <<points, last, beats>>
calls == <<pc, path, sum>>
auto == <<autoOn, running, thread, steered>>
vars == <<pool, holders, files, calls, auto, events, captured>>

Threads == {Autosaver} \cup Callers
Content == [points : 0..MaxSets, beats : 0..MaxBeats]
Now == [points |-> points, beats |-> beats]
Paths == {Snap, Target, Temp} \cup Backups
File == [head : Content \cup {None}, body : Content \cup {None}, synced : BOOLEAN]
Header(c) == [head |-> c, body |-> None, synced |-> FALSE]
Whole(f) == f # Absent /\ f.head # None /\ f.body # None

Made == {b \in Backups : files[b] # Absent}

Old == [head |-> Now, body |-> Now, synced |-> TRUE]

\* The pool is new.  An earlier run may have left a backup of such a pool.
Init ==
  /\ points = 0 /\ last = 0 /\ beats = 0
  /\ holders = {}
  /\ pc = [t \in Threads |-> "idle"]
  /\ path = [t \in Threads |-> None]
  /\ sum = [t \in Threads |-> None]
  /\ autoOn = TRUE /\ running = TRUE /\ thread = "waits"
  /\ events = 0 /\ steered = FALSE
  /\ \/ files = [p \in Paths |-> Absent] /\ captured = {}
     \/ files = [p \in Paths |-> IF p = 1 THEN Old ELSE Absent] /\ captured = {0}

\* A setter of any process: the write lock waits for every reader.
SetPoint ==
  /\ holders = {} /\ last < MaxSets
  /\ last' = last + 1 /\ points' = last'
  /\ UNCHANGED <<beats, holders, files, calls, auto, events, captured>>

\* A heartbeat, or another reader that takes or leaves the lock.
Beat ==
  /\ beats < MaxBeats /\ beats' = beats + 1
  /\ UNCHANGED <<points, last, holders, files, calls, auto, events, captured>>

Goto(t, label, file, content) ==
  /\ pc' = [pc EXCEPT ![t] = label]
  /\ path' = [path EXCEPT ![t] = file]
  /\ sum' = [sum EXCEPT ![t] = content]

Return(t) == Goto(t, "idle", None, None)

Event == events < MaxEvents /\ events' = events + 1
Call(t) == pc[t] = "idle" /\ Event

------------------------------------------------------------------------------
(* Saving.                                                                 *)

\* lockRead and the header with its checksum.  Mutant: without the lock.
SaveUnlocked(t, file) ==
  /\ pc[t] = "idle"
  /\ Goto(t, "open", file, Now)
  /\ captured' = captured \cup {points}
  /\ UNCHANGED <<pool, holders, files, auto>>
Save(t, file) ==
  /\ pc[t] = "idle"
  /\ Goto(t, "open", file, Now)
  /\ holders' = holders \cup {t}
  /\ captured' = captured \cup {points}
  /\ UNCHANGED <<pool, files, auto>>

\* The file a thread is writing becomes f.
Writes(t, f) == files' = [files EXCEPT ![path[t]] = f]

\* Opening empties the file.  The header is written at once.  Mutant: the lock is
\* given back here, before the segment is written.
SaveOpenUnlocks(t) ==
  /\ pc[t] = "open"
  /\ Writes(t, Header(sum[t]))
  /\ Goto(t, "body", path[t], sum[t])
  /\ holders' = holders \ {t}
  /\ UNCHANGED <<pool, auto, events, captured>>
SaveOpen(t) ==
  /\ pc[t] = "open"
  /\ Writes(t, Header(sum[t]))
  /\ Goto(t, "body", path[t], sum[t])
  /\ UNCHANGED <<pool, holders, auto, events, captured>>

\* The file cannot be opened: the save gives the lock back and fails.  Mutant: the
\* autosave thread then ends.
SaveNotOpenedEnds(t) ==
  /\ pc[t] = "open" /\ Event
  /\ holders' = holders \ {t}
  /\ Return(t)
  /\ thread' = IF t = Autosaver THEN "ended" ELSE thread
  /\ UNCHANGED <<pool, files, autoOn, running, steered, captured>>
SaveNotOpened(t) ==
  /\ pc[t] = "open" /\ Event
  /\ holders' = holders \ {t}
  /\ Return(t)
  /\ UNCHANGED <<pool, files, auto, captured>>

\* The segment is written behind the header and the lock given back; the temporary
\* file is synced first.  A file removed in the meantime stays removed.  Mutant:
\* without fsync.
Filled(t, synced) ==
  IF files[path[t]] = Absent THEN UNCHANGED files
  ELSE Writes(t, [files[path[t]] EXCEPT !.body = Now, !.synced = synced])

Finishes(t) ==
  /\ holders' = holders \ {t}
  /\ IF path[t] = Temp THEN Goto(t, "rename", Temp, None) ELSE Return(t)
  /\ UNCHANGED <<pool, auto, events, captured>>

SaveBodyUnsynced(t) == pc[t] = "body" /\ Filled(t, FALSE) /\ Finishes(t)
SaveBody(t) == pc[t] = "body" /\ Filled(t, path[t] = Temp) /\ Finishes(t)

\* The disk is full.  saveSnapshot of the pool removes the temporary file and
\* fails; PersistentStorage does not look and returns OK.
SaveBodyFails(t) ==
  /\ pc[t] = "body" /\ Event
  /\ IF path[t] = Temp THEN Writes(t, Absent) ELSE UNCHANGED files
  /\ holders' = holders \ {t}
  /\ Return(t)
  /\ UNCHANGED <<pool, auto, captured>>

SaveRename(t) ==
  /\ pc[t] = "rename"
  /\ files' = [files EXCEPT ![Target] = files[Temp], ![Temp] = Absent]
  /\ Return(t)
  /\ UNCHANGED <<pool, holders, auto, events, captured>>

\* cleanupOldBackups.
CleanupOldBackups(keep) ==
  LET old == {b \in Made : Cardinality({n \in Made : n > b}) >= keep} IN
  /\ old # {} /\ Event
  /\ files' = [p \in Paths |-> IF p \in old THEN Absent ELSE files[p]]
  /\ UNCHANGED <<pool, holders, calls, auto, captured>>

\* The calls of a client that save.  One thread at a time makes a backup, and one
\* saves by name: there is one temporary file.
CallerSaves(t) ==
  /\ Call(t)
  /\ \/ Save(t, Snap)
     \/ /\ \A o \in Threads : path[o] # Temp
        /\ Save(t, Temp)
     \/ /\ \A o \in Threads : path[o] \notin Backups
        /\ LET later == {b \in Backups : \A n \in Made : n < b}
           IN  later # {} /\ Save(t, Min(later))

------------------------------------------------------------------------------
(* Restoring.                                                              *)

\* readSnapshotFile up to the header.  A file that is not there ends the call,
\* and for the snapshot no backup is tried then.
RestoreHead(t) ==
  /\ Call(t)
  /\ \E p \in {Snap} \cup Backups :
       files[p] # Absent /\ Goto(t, "read", p, files[p].head)
  /\ UNCHANGED <<pool, holders, files, auto, captured>>

\* The data and its checksum.  Mutant: the checksum is not looked at.
SumAgreesUnchecked(t) == files[path[t]] # Absent
SumAgrees(t) ==
  files[path[t]] # Absent /\ sum[t] # None /\ files[path[t]].body = sum[t]

RestoreBody(t) ==
  /\ pc[t] = "read" /\ SumAgrees(t)
  /\ Goto(t, "apply", None, files[path[t]].body)
  /\ UNCHANGED <<pool, holders, files, auto, events, captured>>

\* The file is no good: in place of the snapshot the newest backup is tried, and
\* no other.
RestoreFallsBack(t) ==
  /\ pc[t] = "read" /\ ~SumAgrees(t)
  /\ IF path[t] = Snap /\ Made # {}
     THEN Goto(t, "read", Max(Made), files[Max(Made)].head)
     ELSE Return(t)
  /\ UNCHANGED <<pool, holders, files, auto, events, captured>>

\* loadSnapshot of the pool reads the file that was there when it opened it.
LoadSnapshot(t) ==
  /\ Call(t) /\ Whole(files[Target]) /\ files[Target].head = files[Target].body
  /\ Goto(t, "apply", None, files[Target].body)
  /\ UNCHANGED <<pool, holders, files, auto, captured>>

\* The write lock and the copy into the segment.
Apply(t) ==
  /\ pc[t] = "apply" /\ holders = {}
  /\ points' = IF sum[t] = None THEN 0 ELSE sum[t].points
  /\ Return(t)
  /\ UNCHANGED <<last, beats, holders, files, auto, events, captured>>

------------------------------------------------------------------------------
(* The autosave thread and what turns it on and off.                       *)

AutosaverAlive == pc[Autosaver] # "dead"
Steer == Event /\ AutosaverAlive /\ steered' = TRUE

\* enableAutoSnapshot(true).  A thread that has ended still is joinable: no new
\* one is started.
EnableAutoSnapshot ==
  /\ Steer /\ ~autoOn /\ autoOn' = TRUE
  /\ running' = TRUE
  /\ thread' = IF ~running /\ thread = "none" THEN "waits" ELSE thread
  /\ UNCHANGED <<pool, holders, files, calls, captured>>

\* enableAutoSnapshot(false).
DisableAutoSnapshot ==
  /\ Steer /\ autoOn /\ autoOn' = FALSE
  /\ running' = FALSE
  /\ UNCHANGED <<pool, holders, files, calls, thread, captured>>

\* updateConfig sets the flag and leaves the thread alone.
UpdateConfig ==
  /\ Steer /\ autoOn' = ~autoOn
  /\ UNCHANGED <<pool, holders, files, calls, running, thread, captured>>

ThreadEnds ==
  /\ thread = "waits" /\ ~running /\ pc[Autosaver] = "idle"
  /\ thread' = "ended"
  /\ UNCHANGED <<pool, holders, files, calls, autoOn, running, steered, events, captured>>

\* The interval has passed.
AutoSave ==
  /\ thread = "waits" /\ running /\ autoOn
  /\ Save(Autosaver, Snap)
  /\ UNCHANGED events

------------------------------------------------------------------------------
(* Crashes.                                                                *)

\* A process is killed.  Nobody takes its lock back.
Crash(t) ==
  /\ pc[t] # "dead" /\ Event
  /\ Goto(t, "dead", None, None)
  /\ UNCHANGED <<pool, holders, files, auto, captured>>

\* The autosave thread as the constructor starts it, by the configuration.
Constructed ==
  /\ autoOn' \in BOOLEAN /\ running' = autoOn'
  /\ thread' = IF autoOn' THEN "waits" ELSE "none"
  /\ steered' = FALSE

\* A process comes back and connects to the pool.
Restart(t) ==
  /\ pc[t] = "dead" /\ Return(t)
  /\ IF t = Autosaver THEN Constructed ELSE UNCHANGED auto
  /\ UNCHANGED <<pool, holders, files, events, captured>>

\* What a power cut makes of a file: what was not synced may be lost.
Survives(f) ==
  IF f = Absent THEN {f}
  ELSE {[f EXCEPT !.synced = TRUE]} \cup
       (IF f.synced THEN {} ELSE {[head |-> None, body |-> None, synced |-> TRUE]})

\* The machine goes down and comes back with an empty pool.
PowerCut ==
  /\ Event
  /\ files' \in [Paths -> UNION {Survives(files[p]) : p \in Paths}]
  /\ \A p \in Paths : files'[p] \in Survives(files[p])
  /\ points' = 0 /\ holders' = {}
  /\ pc' = [t \in Threads |-> "idle"]
  /\ path' = [t \in Threads |-> None] /\ sum' = [t \in Threads |-> None]
  /\ Constructed
  /\ UNCHANGED <<last, beats, captured>>

------------------------------------------------------------------------------
SaveSteps(t) == SaveOpen(t) \/ SaveBody(t)

Next ==
  \/ SetPoint \/ Beat
  \/ \E t \in Threads :
       \/ SaveSteps(t) \/ SaveNotOpened(t) \/ SaveBodyFails(t)
       \/ Crash(t) \/ Restart(t)
  \/ \E t \in Callers :
       \/ CallerSaves(t) \/ SaveRename(t)
       \/ RestoreHead(t) \/ RestoreBody(t) \/ RestoreFallsBack(t)
       \/ LoadSnapshot(t) \/ Apply(t)
  \/ \E keep \in 0..1 : CleanupOldBackups(keep)
  \/ EnableAutoSnapshot \/ DisableAutoSnapshot \/ UpdateConfig
  \/ ThreadEnds \/ AutoSave
  \/ PowerCut

\* The autosave thread goes on while its process runs, and its interval passes.
Fairness ==
  /\ WF_vars(AutoSave) /\ WF_vars(ThreadEnds)
  /\ WF_vars(SaveSteps(Autosaver))

Spec == Init /\ [][Next]_vars /\ Fairness

------------------------------------------------------------------------------
\* The variables keep their types, and who writes a file holds the lock.
TypeOK ==
  /\ last \in 0..MaxSets /\ points \in 0..last /\ beats \in 0..MaxBeats
  /\ holders \subseteq Threads
  /\ files \in [Paths -> File \cup {Absent}]
  /\ pc \in [Threads -> {"idle", "open", "body", "rename", "read", "apply", "dead"}]
  /\ path \in [Threads -> {None} \cup Paths]
  /\ sum \in [Threads -> Content \cup {None}]
  /\ \A t \in Threads : pc[t] \in {"open", "body"} => t \in holders
  /\ thread \in {"none", "waits", "ended"}

\* A restore is about to bring back the points as they were, all together, while some save
\* held the lock: never a mixture, never a file that was cut short.
RestoredWasSaved ==
  \A t \in Threads : pc[t] = "apply" => sum[t] # None /\ sum[t].points \in captured

\* The file saved by name never is cut short, whatever crashes and whenever.
TargetWhole == files[Target] # Absent => Whole(files[Target])

\* A file in which header and data are both there, which two processes may have
\* written at the same time, disagrees with its checksum only by the bytes that change
\* without the write lock: the points are those the header was made of.
OnlyBeatsSpoil ==
  \A p \in Paths : Whole(files[p]) => files[p].head.points = files[p].body.points

\* Autosaving goes on for ever, unless somebody turned it off or on: then the
\* thread may be gone while the flag says that it runs.
AutosaveGoesOn ==
  []<>(\/ pc[Autosaver] \in {"open", "dead"} \/ ~autoOn
       \/ steered /\ thread # "waits")

==============================================================================
