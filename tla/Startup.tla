------------------------------- MODULE Startup -------------------------------
(***************************************************************************)
(* How a pool comes into being and goes: create, connect, destroy and      *)
(* disconnect of SharedDataPool, with the steps of create in which the     *)
(* name already finds a segment that is not ready, and the start from a    *)
(* snapshot, PersistentStorage::initialize, which goes through the types   *)
(* of points one by one while others may be connected already.             *)
(*                                                                         *)
(* Segments are numbered in the order of their creation.  A name finds a   *)
(* segment until it is unlinked; a segment lasts as long as a process maps *)
(* it.  Nobody keeps a second process from creating or destroying.         *)
(*                                                                         *)
(* The values of a type of points are told apart by where they come from:  *)
(* the zeroed segment, the default, the snapshot, the backup, or a setter. *)
(***************************************************************************)
EXTENDS Naturals, FiniteSets, Sequences

CONSTANTS
  Procs,
  Types,        \* the sequence YX, YC, DZ, YK, in which initialize takes them
  Indexed,      \* those whose defaults are set by index: YX and YC
  MaxSegments,  \* bound: segments created
  MayFail,      \* those that may crash
  None

ASSUME StartupAssumption ==
  /\ IsFiniteSet(Procs) /\ MayFail \subseteq Procs
  /\ Len(Types) \in Nat /\ Indexed \subseteq 1..Len(Types)
  /\ MaxSegments \in Nat
  /\ None \notin Procs \cup Nat

VARIABLES
  name,         \* the segment that shm_open finds
  made,         \* segments created so far
  stage,        \* segments: "empty", "magic", "ready", "closed"
  values,       \* segments: where the values of each type come from
  pc, at,       \* processes: control point, the segment they map
  next,         \* processes: the type initialize comes to
  mode,         \* the initialization mode of each type
  snapshot, backup,  \* the state of the snapshot file and the newest backup
  replaced      \* a destroy has unlinked the name of a younger segment

segments == <<made, stage>>
config == <<mode, snapshot, backup>>
vars == <<name, segments, values, pc, at, next, config, replaced>>

Numbers == 1..Len(Types)
Segments == 1..made
Modes == {"LOAD_LAST_VALUE", "LOAD_DEFAULT", "OTHER"}

\* The snapshot file is missing, whole, cut off behind its header, or empty; with
\* the newest backup it matters only whether it is whole.
SnapshotStates == {"none", "whole", "cut", "empty"}
BackupStates == {"none", "whole"}

Init ==
  /\ name = None /\ made = 0
  /\ stage = <<>> /\ values = <<>>
  /\ pc = [p \in Procs |-> "out"] /\ at = [p \in Procs |-> None]
  /\ next = [p \in Procs |-> 1]
  /\ mode \in [Numbers -> Modes]
  /\ snapshot \in SnapshotStates /\ backup \in BackupStates
  /\ replaced = FALSE

Goto(p, label) == pc' = [pc EXCEPT ![p] = label]

------------------------------------------------------------------------------
(* The segment.                                                            *)

\* shm_open, after shm_unlink when the name is taken.  Mutant, which is what
\* VotingEngine::create does: the segment that is there is opened and used again.
CreateReuses(p) ==
  /\ pc[p] = "out" /\ name # None
  /\ stage' = [stage EXCEPT ![name] = "empty"]
  /\ at' = [at EXCEPT ![p] = name]
  /\ Goto(p, "sized")
  /\ UNCHANGED <<name, made, values, next, config, replaced>>

CreateAnew(p) ==
  /\ pc[p] = "out" /\ made < MaxSegments
  /\ made' = made + 1 /\ name' = made'
  /\ stage' = Append(stage, "empty")
  /\ values' = Append(values, [i \in Numbers |-> "zero"])
  /\ at' = [at EXCEPT ![p] = made']
  /\ Goto(p, "sized")
  /\ UNCHANGED <<next, config, replaced>>

CreateAnewOrReuses(p) == IF name = None THEN CreateAnew(p) ELSE CreateReuses(p)
Create(p) == CreateAnew(p)

\* The segment is zeroed and its magic number is written.
CreateMagic(p) ==
  /\ pc[p] = "sized"
  /\ stage' = [stage EXCEPT ![at[p]] = "magic"]
  /\ values' = [values EXCEPT ![at[p]] = [i \in Numbers |-> "zero"]]
  /\ Goto(p, "magic")
  /\ UNCHANGED <<name, made, at, next, config, replaced>>

\* Counts, offsets and the lock.
CreateDone(p) ==
  /\ pc[p] = "magic"
  /\ stage' = [stage EXCEPT ![at[p]] = "ready"]
  /\ Goto(p, "created")
  /\ UNCHANGED <<name, made, values, at, next, config, replaced>>

\* connect asks for the magic number only.
Connect(p) ==
  /\ pc[p] = "out" /\ name # None
  /\ stage[name] \in {"magic", "ready", "closed"}
  /\ at' = [at EXCEPT ![p] = name]
  /\ Goto(p, "connected")
  /\ UNCHANGED <<name, segments, values, next, config, replaced>>

\* Mutant: the pointer to the segment that is unmapped is kept.
LeavesMapped(p) == UNCHANGED at /\ next' = [next EXCEPT ![p] = 1] /\ Goto(p, "out")
Leaves(p) == at' = [at EXCEPT ![p] = None] /\ next' = [next EXCEPT ![p] = 1] /\ Goto(p, "out")

\* destroy by the creator: the lock first, and the name last.
DestroyLock(p) ==
  /\ pc[p] = "created"
  /\ stage' = [stage EXCEPT ![at[p]] = "closed"]
  /\ Goto(p, "closing")
  /\ UNCHANGED <<name, made, values, at, next, config, replaced>>

\* shm_unlink goes by the name: it may be another segment's by now.
DestroyName(p) ==
  /\ pc[p] = "closing"
  /\ name' = None
  /\ replaced' = (replaced \/ (name # None /\ name # at[p]))
  /\ Leaves(p)
  /\ UNCHANGED <<segments, values, config>>

\* disconnect, and what init does with a pool whose event center it cannot get: a
\* created pool is left behind with its name.  Mutant: everybody unlinks.
DisconnectUnlinks(p) ==
  /\ pc[p] \in {"created", "connected"}
  /\ name' = None
  /\ Leaves(p)
  /\ UNCHANGED <<segments, values, config, replaced>>
Disconnect(p) ==
  /\ pc[p] \in {"created", "connected"}
  /\ Leaves(p)
  /\ UNCHANGED <<name, segments, values, config, replaced>>

\* A process is killed.
Crash(p) ==
  /\ p \in MayFail /\ pc[p] # "out"
  /\ Leaves(p)
  /\ UNCHANGED <<name, segments, values, config, replaced>>

------------------------------------------------------------------------------
(* The values.                                                             *)

SetPoint(p, i) ==
  /\ pc[p] \in {"created", "connected"}
  /\ values[at[p]][i] # "set"
  /\ values' = [values EXCEPT ![at[p]][i] = "set"]
  /\ UNCHANGED <<name, segments, pc, at, next, config, replaced>>

\* hasValidSnapshot looks at the magic number, which is whatever the memory holds
\* when the file is empty.
HasValidSnapshot ==
  CASE snapshot = "none" -> {FALSE}
    [] snapshot = "empty" -> BOOLEAN
    [] OTHER -> {TRUE}

\* What restore brings back: the snapshot or the newest backup.
Restored ==
  IF snapshot = "whole" THEN "snapshot" ELSE IF backup = "whole" THEN "backup" ELSE None

\* restoreDefaults.  For DZ and YK it goes by key 0, which nobody registers, and
\* sets nothing.  Mutant: it sets the values of every type.
DefaultsAll(v, i) == [j \in Numbers |-> "default"]
Defaults(v, i) == IF i \in Indexed THEN [v EXCEPT ![i] = "default"] ELSE v

Initializes(p) == pc[p] = "created" /\ next[p] \in Numbers

InitNext(p, v) ==
  /\ values' = [values EXCEPT ![at[p]] = v]
  /\ next' = [next EXCEPT ![p] = @ + 1]
  /\ UNCHANGED <<name, segments, pc, at, config, replaced>>

\* A type that takes its last values, and a snapshot to take them from: the whole
\* segment is restored, whatever the other types ask for.
InitRestore(p) ==
  /\ Initializes(p) /\ mode[next[p]] = "LOAD_LAST_VALUE"
  /\ TRUE \in HasValidSnapshot /\ Restored # None
  /\ InitNext(p, [j \in Numbers |-> Restored])

\* Nothing to restore: initialize ends with an error.
InitFails(p) ==
  /\ Initializes(p) /\ mode[next[p]] = "LOAD_LAST_VALUE"
  /\ TRUE \in HasValidSnapshot /\ Restored = None
  /\ next' = [next EXCEPT ![p] = Len(Types) + 2]
  /\ UNCHANGED <<name, segments, values, pc, at, config, replaced>>

InitDefaults(p) ==
  /\ Initializes(p)
  /\ \/ mode[next[p]] = "LOAD_DEFAULT"
     \/ mode[next[p]] = "LOAD_LAST_VALUE" /\ FALSE \in HasValidSnapshot
  /\ InitNext(p, Defaults(values[at[p]], next[p]))

\* WAIT_FOR_FRESH and INVALIDATE leave the points as they are.
InitOther(p) ==
  /\ Initializes(p) /\ mode[next[p]] = "OTHER"
  /\ InitNext(p, values[at[p]])

------------------------------------------------------------------------------
Next ==
  \E p \in Procs :
    \/ Create(p) \/ CreateMagic(p) \/ CreateDone(p) \/ Connect(p)
    \/ DestroyLock(p) \/ DestroyName(p) \/ Disconnect(p) \/ Crash(p)
    \/ \E i \in Numbers : SetPoint(p, i)
    \/ InitRestore(p) \/ InitFails(p) \/ InitDefaults(p) \/ InitOther(p)

Spec == Init /\ [][Next]_vars

------------------------------------------------------------------------------
\* The variables keep their types, and a process that is in a call or connected
\* maps a segment.
TypeOK ==
  /\ name \in Segments \cup {None}
  /\ stage \in [Segments -> {"empty", "magic", "ready", "closed"}]
  /\ values \in [Segments -> [Numbers -> {"zero", "default", "snapshot", "backup", "set"}]]
  /\ at \in [Procs -> Segments \cup {None}]
  /\ \A p \in Procs : at[p] = None <=> pc[p] = "out"
  /\ next \in [Procs -> 1..(Len(Types) + 2)]

\* What connected processes have is never zeroed under them: not by a create that
\* finds a segment left over from a crash that others still use, and not by the end
\* of the create whose magic number let them in early.  (Restores and defaults do
\* overwrite what they have stored.)
NeverWiped ==
  [][\A p \in Procs : pc[p] = "connected" =>
       /\ stage'[at[p]] # "empty"
       /\ \A i \in Numbers : values'[at[p]][i] = "zero" => values[at[p]][i] = "zero"]_vars

\* While the creator of the youngest segment works with it, connect finds this
\* segment, and with a lock that works, unless an older creator was shut down
\* meanwhile and took the name away.
NameFindsYoungest ==
  \A p \in Procs :
    pc[p] = "created" /\ at[p] = made /\ ~replaced => name = made /\ stage[name] = "ready"

\* The types for which initialize restores the segment.
Restoring ==
  IF snapshot \in {"whole", "cut"} THEN {i \in Numbers : mode[i] = "LOAD_LAST_VALUE"} ELSE {}

\* When initialize has ended well, a type has its defaults only if they are set by
\* index, its mode is not one of those that leave the points alone, and every type
\* that restores came before it.  Any other type has what the last restore brought,
\* whatever its own mode asks for, or zeros when none was made; a value set by a
\* connected process since then stays.  (What a mode promises to its type is not
\* kept: a type of LOAD_DEFAULT before one of LOAD_LAST_VALUE has its last values.)
LastRestoreWins ==
  \A p \in Procs : pc[p] = "created" /\ next[p] = Len(Types) + 1 /\ snapshot # "empty" =>
    \A i \in Numbers :
      LET byDefault == i \in Indexed /\ mode[i] # "OTHER" /\ \A j \in Restoring : j < i
      IN  values[at[p]][i] \in
            {IF byDefault THEN "default" ELSE IF Restoring = {} THEN "zero" ELSE Restored, "set"}

==============================================================================
