---------------------------- MODULE SnapshotProofs ----------------------------
(***************************************************************************)
(* Theorems about Snapshot, for any threads, backups and bounds, through   *)
(* every crash, failed write and power cut of the model.                   *)
(*                                                                         *)
(* The invariant ties what is in a file to the lock: while a thread saves  *)
(* it keeps the read lock, so that the points stay what the header says,   *)
(* and a file never has a segment behind a header made of other points.    *)
(***************************************************************************)
EXTENDS Snapshot, FiniteSetTheorems, WellFoundedInduction, TLAPS

\* Where the storage itself reads and writes.
OwnPaths == {Snap} \cup Backups

\* What was captured was set at some time.
CapturedWasSet == captured \subseteq 0..last

\* While a thread saves, it keeps the lock, and the points stay what its header says.
SavingHolds ==
  \A t \in Threads : pc[t] \in {"open", "body"} =>
    /\ t \in holders
    /\ path[t] \in OwnPaths \cup {Temp}
    /\ sum[t] \in Content /\ sum[t].points = points /\ points \in captured

\* The file that a thread is about to fill has a header made of these points.
FilledBehindHeader ==
  \A t \in Threads : pc[t] = "body" /\ files[path[t]] # Absent =>
    files[path[t]].head # None /\ files[path[t]].head.points = points

\* What is in a file was captured, and behind a header are the points of the header.
FilesWereCaptured ==
  \A p \in Paths : files[p] # Absent =>
    /\ files[p].head # None => files[p].head.points \in captured
    /\ files[p].body # None => files[p].head # None /\ files[p].body.points = files[p].head.points

\* What a restore holds was captured.
RestoringKnows ==
  \A t \in Threads :
    /\ pc[t] = "read" => path[t] \in OwnPaths
    /\ pc[t] = "apply" => path[t] = None /\ sum[t] # None
    /\ pc[t] \in {"read", "apply"} /\ sum[t] # None => sum[t].points \in captured

\* One thread at most is busy with the temporary file, and what it renames is whole
\* and on the disk.
Durable(f) == f # Absent => Whole(f) /\ f.synced
TempIsOwned ==
  /\ \A t, u \in Threads : path[t] = Temp /\ path[u] = Temp => t = u
  /\ \A t \in Threads : pc[t] = "rename" => path[t] = Temp /\ Durable(files[Temp])
  /\ \A t \in Threads : pc[t] \in {"idle", "dead"} => path[t] = None

IInv ==
  /\ TypeOK /\ CapturedWasSet
  /\ SavingHolds /\ FilledBehindHeader /\ FilesWereCaptured
  /\ RestoringKnows /\ TempIsOwned /\ Durable(files[Target])

Labels == {"idle", "open", "body", "rename", "read", "apply", "dead"}

------------------------------------------------------------------------------
(* Facts about the operators.                                              *)

\* A nonempty finite set of numbers has a greatest one, and one of numbers a least one.
LEMMA LeastOf ==
  ASSUME NEW S \in SUBSET Nat, S # {}
  PROVE  \E x \in S : \A y \in S : x <= y
  <1> DEFINE R == OpToRel(<, Nat)
  <1>1. \A x, y \in Nat : y < x => <<y, x>> \in R
    BY DEF OpToRel
  <1>2. IsWellFoundedOn(R, Nat)
    BY NatLessThanWellFounded
  <1> HIDE DEF R
  <1>3. PICK x \in S : \A y \in S : ~ (<<y, x>> \in R)
    BY <1>2, WFMin
  <1>4. ASSUME NEW y \in S PROVE x <= y
    <2>1. x \in Nat /\ y \in Nat /\ ~ (y < x)
      BY <1>1, <1>3
    <2> QED
      BY <2>1
  <1> QED
    BY <1>4

LEMMA MinIsMember ==
  ASSUME NEW S \in SUBSET Nat, S # {}
  PROVE  Min(S) \in S
  BY LeastOf DEF Min

\* Fewest are above the greatest.
LEMMA MaxIsMember ==
  ASSUME NEW S \in SUBSET Nat, S # {}, IsFiniteSet(S)
  PROVE  Max(S) \in S
  <1> DEFINE Above(b) == {n \in S : n > b}
             Counts == {Cardinality(Above(b)) : b \in S}
  <1>1. ASSUME NEW b \in S
        PROVE  IsFiniteSet(Above(b)) /\ Cardinality(Above(b)) \in Nat
    <2>1. Above(b) \in SUBSET S
      OBVIOUS
    <2> HIDE DEF Above
    <2>2. IsFiniteSet(Above(b))
      BY <2>1, FS_Subset
    <2> QED
      BY <2>2, FS_CardinalityType
  <1>2. ASSUME NEW b \in S, NEW c \in S, c > b
        PROVE  Cardinality(Above(c)) < Cardinality(Above(b))
    <2>1. b \in Nat /\ c \in Nat
      OBVIOUS
    <2>2. Above(c) \in SUBSET Above(b)
      <3> SUFFICES ASSUME NEW n \in S, n > c PROVE n > b
        OBVIOUS
      <3>1. n \in Nat
        OBVIOUS
      <3> QED
        BY <1>2, <2>1, <3>1
    <2>3. c \in Above(b) /\ c \notin Above(c)
      BY <2>1, <1>2
    <2>4. /\ IsFiniteSet(Above(b)) /\ Cardinality(Above(b)) \in Nat
          /\ Cardinality(Above(c)) \in Nat
      BY <1>1
    <2> HIDE DEF Above
    <2>5. /\ Cardinality(Above(c)) <= Cardinality(Above(b))
          /\ Cardinality(Above(b)) = Cardinality(Above(c)) => Above(b) = Above(c)
      BY <2>2, <2>4, FS_Subset
    <2>6. Cardinality(Above(b)) # Cardinality(Above(c))
      BY <2>3, <2>5
    <2> QED
      BY <2>4, <2>5, <2>6
  <1>3. Counts \in SUBSET Nat /\ Counts # {}
    BY <1>1
  <1> HIDE DEF Above
  <1>4. PICK b \in S : \A c \in S : Cardinality(Above(b)) <= Cardinality(Above(c))
    <2> HIDE DEF Counts
    <2>1. \E x \in Counts : \A y \in Counts : x <= y
      BY <1>3, LeastOf
    <2> QED
      BY <2>1 DEF Counts
  <1>5. ASSUME NEW c \in S PROVE b >= c
    <2>1. b \in Nat /\ c \in Nat /\ Cardinality(Above(b)) \in Nat /\ Cardinality(Above(c)) \in Nat
      BY <1>1
    <2>2. Cardinality(Above(b)) <= Cardinality(Above(c))
      BY <1>4
    <2>3. ~ (c > b)
      BY <1>2, <2>1, <2>2
    <2> QED
      BY <2>1, <2>3
  <1> QED
    BY <1>5 DEF Max

\* The newest backup is one, and so is the one to be made next.
LEMMA NewestIsMade ==
  ASSUME Made # {}
  PROVE  Max(Made) \in Backups /\ files[Max(Made)] # Absent
  <1>1. Made \in SUBSET Nat /\ IsFiniteSet(Made)
    BY SnapshotAssumption, FS_Subset DEF Made
  <1> QED
    BY <1>1, MaxIsMember DEF Made

LEMMA NextIsBackup ==
  \A later \in SUBSET Backups : later # {} => Min(later) \in Backups
  <1> TAKE later \in SUBSET Backups
  <1>1. later \in SUBSET Nat
    BY SnapshotAssumption
  <1> QED
    BY <1>1, MinIsMember

\* A step of one thread leaves the others where they are.
LEMMA GotoShape ==
  ASSUME TypeOK, NEW t \in Threads, NEW label \in Labels, NEW p \in {None} \cup Paths,
         NEW c \in Content \cup {None}, Goto(t, label, p, c)
  PROVE  /\ pc' \in [Threads -> Labels] /\ path' \in [Threads -> {None} \cup Paths]
         /\ sum' \in [Threads -> Content \cup {None}]
         /\ pc'[t] = label /\ path'[t] = p /\ sum'[t] = c
         /\ \A o \in Threads \ {t} : pc'[o] = pc[o] /\ path'[o] = path[o] /\ sum'[o] = sum[o]
  BY DEF TypeOK, Goto, Labels

\* Threads that save are busy with a file that is there on the disk, or was.
LEMMA PathsApart ==
  /\ Target \notin OwnPaths \cup {Temp} /\ Temp \notin OwnPaths
  /\ OwnPaths \cup {Temp} \subseteq Paths /\ None \notin Paths
  /\ Now \in Content <=> points \in 0..MaxSets /\ beats \in 0..MaxBeats
  <1>1. Now \in Content <=> points \in 0..MaxSets /\ beats \in 0..MaxBeats
    BY DEF Now, Content
  <1> QED
    BY <1>1, SnapshotAssumption DEF OwnPaths, Paths

\* What fills a file is a file.
LEMMA HeaderShape ==
  ASSUME NEW c \in Content \cup {None}
  PROVE  Header(c) \in File
  BY DEF File, Header

------------------------------------------------------------------------------
(* The invariant.                                                          *)

LEMMA InitIInv == Init => IInv
  <1> SUFFICES ASSUME Init PROVE IInv
    OBVIOUS
  <1>1. Old \in File /\ Old.head = Now /\ Old.body = Now /\ Old.synced /\ Now.points = 0 /\ Now # None
    BY SnapshotAssumption DEF Init, Old, File, Content, Now
  <1>2. \A p \in Paths : files[p] # Absent => files[p] = Old /\ captured = {0}
    BY DEF Init
  <1>3. TypeOK
    <2>1. files \in [Paths -> File \cup {Absent}]
      BY <1>1 DEF Init
    <2> QED
      BY <2>1, SnapshotAssumption DEF Init, TypeOK, Labels
  <1>4. CapturedWasSet
    BY DEF CapturedWasSet, Init
  <1>5. FilesWereCaptured
    BY <1>1, <1>2 DEF FilesWereCaptured
  <1>6. Durable(files[Target])
    BY <1>1, <1>2 DEF Durable, Whole, Paths
  <1>7. SavingHolds /\ FilledBehindHeader /\ RestoringKnows
    BY DEF Init, SavingHolds, FilledBehindHeader, RestoringKnows
  <1>8. TempIsOwned
    BY PathsApart DEF Init, TempIsOwned, Paths
  <1> QED
    BY <1>3, <1>4, <1>5, <1>6, <1>7, <1>8 DEF IInv

\* What neither moves a thread nor touches a file: a set, a beat, a lock holder's change of
\* the autosave flags.
LEMMA PoolSteps ==
  ASSUME IInv, SetPoint \/ Beat \/ EnableAutoSnapshot \/ DisableAutoSnapshot \/ UpdateConfig \/ ThreadEnds
  PROVE  IInv'
  <1> USE DEF IInv
  <1>1. UNCHANGED <<files, calls, holders, captured>> /\ thread' \in {"none", "waits", "ended"}
    BY DEF TypeOK, SetPoint, Beat, EnableAutoSnapshot, DisableAutoSnapshot, UpdateConfig, ThreadEnds, Steer, auto, calls
  <1>2. /\ last' \in 0..MaxSets /\ last <= last' /\ points' \in 0..last' /\ beats' \in 0..MaxBeats
        /\ holders # {} => points' = points
    BY SnapshotAssumption DEF TypeOK, pool,
       SetPoint, Beat, EnableAutoSnapshot, DisableAutoSnapshot, UpdateConfig, ThreadEnds
  <1>3. TypeOK'
    BY <1>1, <1>2 DEF TypeOK, calls
  <1>4. CapturedWasSet'
    BY <1>1, <1>2 DEF CapturedWasSet, TypeOK
  <1>5. SavingHolds'
    BY <1>1, <1>2 DEF SavingHolds, calls
  <1>6. FilledBehindHeader'
    BY <1>1, <1>2 DEF FilledBehindHeader, SavingHolds, calls
  <1>7. FilesWereCaptured' /\ Durable(files[Target])' /\ RestoringKnows' /\ TempIsOwned'
    BY <1>1 DEF FilesWereCaptured, Durable, Whole, RestoringKnows, TempIsOwned, calls
  <1> QED
    BY <1>3, <1>4, <1>5, <1>6, <1>7

\* A thread returns, fails, dies or comes back: it lets go of its file, perhaps of the lock,
\* and may remove files.
LEMMA LeavingSteps ==
  ASSUME IInv, NEW t \in Threads, NEW label \in {"idle", "dead"}, Goto(t, label, None, None),
         holders' \in {holders, holders \ {t}}, thread' \in {"none", "waits", "ended"},
         UNCHANGED <<pool, captured>>,
         files' \in [Paths -> File \cup {Absent}], \A p \in Paths : files'[p] \in {files[p], Absent}
  PROVE  IInv'
  <1> USE DEF IInv
  <1>1. /\ pc' \in [Threads -> Labels] /\ path' \in [Threads -> {None} \cup Paths]
        /\ sum' \in [Threads -> Content \cup {None}]
        /\ pc'[t] = label /\ path'[t] = None /\ sum'[t] = None
        /\ \A o \in Threads \ {t} : pc'[o] = pc[o] /\ path'[o] = path[o] /\ sum'[o] = sum[o]
    BY GotoShape DEF Labels
  <1>2. UNCHANGED <<points, last, beats>>
    BY DEF pool
  <1>3. TypeOK'
    BY <1>1, <1>2 DEF TypeOK, Labels
  <1>4. CapturedWasSet' /\ FilesWereCaptured' /\ Durable(files[Target])'
    BY <1>2 DEF CapturedWasSet, FilesWereCaptured, Durable, Whole, Paths
  <1>5. SavingHolds'
    BY <1>1, <1>2 DEF SavingHolds
  <1>6. FilledBehindHeader'
    BY <1>1, <1>2, PathsApart DEF FilledBehindHeader, SavingHolds
  <1>7. RestoringKnows'
    BY <1>1 DEF RestoringKnows
  <1>8. TempIsOwned'
    BY <1>1, PathsApart DEF TempIsOwned, Durable, Whole, Paths
  <1> QED
    BY <1>3, <1>4, <1>5, <1>6, <1>7, <1>8

\* A save begins.
LEMMA SaveStep ==
  ASSUME IInv, NEW t \in Threads, NEW p \in OwnPaths \cup {Temp}, Save(t, p),
         p = Temp => \A o \in Threads : path[o] # Temp
  PROVE  IInv'
  <1> USE DEF IInv
  <1>1. Now \in Content /\ Now.points = points
    BY PathsApart, SnapshotAssumption DEF TypeOK, Now
  <1>2. /\ pc' \in [Threads -> Labels] /\ path' \in [Threads -> {None} \cup Paths]
        /\ sum' \in [Threads -> Content \cup {None}]
        /\ pc'[t] = "open" /\ path'[t] = p /\ sum'[t] = Now
        /\ \A o \in Threads \ {t} : pc'[o] = pc[o] /\ path'[o] = path[o] /\ sum'[o] = sum[o]
    BY <1>1, GotoShape, PathsApart DEF Labels, Save
  <1>3. /\ UNCHANGED <<points, last, beats, files, thread>> /\ pc[t] = "idle"
        /\ holders' = holders \cup {t} /\ captured' = captured \cup {points}
    BY DEF Save, pool, auto
  <1>4. TypeOK'
    BY <1>2, <1>3 DEF TypeOK, Labels
  <1>5. CapturedWasSet' /\ FilesWereCaptured' /\ Durable(files[Target])'
    BY <1>3 DEF CapturedWasSet, FilesWereCaptured, Durable, Whole, TypeOK
  <1>6. SavingHolds'
    BY <1>1, <1>2, <1>3 DEF SavingHolds
  <1>7. FilledBehindHeader'
    BY <1>2, <1>3 DEF FilledBehindHeader
  <1>8. RestoringKnows'
    BY <1>2, <1>3 DEF RestoringKnows
  <1>9. TempIsOwned'
    BY <1>2, <1>3 DEF TempIsOwned, Durable, Whole
  <1> QED
    BY <1>4, <1>5, <1>6, <1>7, <1>8, <1>9

\* The file is opened and its header written.
LEMMA SaveOpenStep ==
  ASSUME IInv, NEW t \in Threads, SaveOpen(t)
  PROVE  IInv'
  <1> USE DEF IInv
  <1>1. /\ pc[t] = "open" /\ path[t] \in OwnPaths \cup {Temp} /\ path[t] \in Paths /\ sum[t] \in Content
        /\ sum[t].points = points /\ points \in captured /\ t \in holders /\ sum[t] # None
    BY PathsApart, SnapshotAssumption DEF SaveOpen, SavingHolds, Content
  <1>2. /\ pc' \in [Threads -> Labels] /\ path' \in [Threads -> {None} \cup Paths]
        /\ sum' \in [Threads -> Content \cup {None}]
        /\ pc'[t] = "body" /\ path'[t] = path[t] /\ sum'[t] = sum[t]
        /\ \A o \in Threads \ {t} : pc'[o] = pc[o] /\ path'[o] = path[o] /\ sum'[o] = sum[o]
    BY <1>1, GotoShape DEF Labels, SaveOpen
  <1>3. UNCHANGED <<points, last, beats, holders, captured, thread>>
    BY DEF SaveOpen, pool, auto
  <1>4. Header(sum[t]).head = sum[t] /\ Header(sum[t]).body = None
    BY DEF Header
  <1>5. /\ files' \in [Paths -> File \cup {Absent}]
        /\ files'[path[t]] = Header(sum[t])
        /\ \A p \in Paths \ {path[t]} : files'[p] = files[p]
    BY <1>1, HeaderShape DEF SaveOpen, Writes, TypeOK
  <1>6. TypeOK'
    BY <1>1, <1>2, <1>3, <1>5 DEF TypeOK, Labels
  <1>7. CapturedWasSet'
    BY <1>3 DEF CapturedWasSet
  <1>8. SavingHolds'
    BY <1>1, <1>2, <1>3 DEF SavingHolds
  <1>9. FilledBehindHeader'
    BY <1>1, <1>2, <1>3, <1>4, <1>5, PathsApart DEF FilledBehindHeader, SavingHolds
  <1>10. FilesWereCaptured'
    BY <1>1, <1>3, <1>4, <1>5 DEF FilesWereCaptured
  <1>11. RestoringKnows'
    BY <1>2, <1>3 DEF RestoringKnows
  <1>12. TempIsOwned'
    BY <1>1, <1>2, <1>5, PathsApart DEF TempIsOwned, Durable, Whole
  <1>13. Durable(files[Target])'
    BY <1>1, <1>5, PathsApart DEF Durable, Whole, Paths
  <1> QED
    BY <1>6, <1>7, <1>8, <1>9, <1>10, <1>11, <1>12, <1>13

\* The segment is written behind the header.
LEMMA SaveBodyStep ==
  ASSUME IInv, NEW t \in Threads, SaveBody(t)
  PROVE  IInv'
  <1> USE DEF IInv
  <1> DEFINE Full == [files[path[t]] EXCEPT !.body = Now, !.synced = (path[t] = Temp)]
  <1>1. /\ pc[t] = "body" /\ path[t] \in OwnPaths \cup {Temp} /\ path[t] \in Paths
        /\ points \in captured /\ t \in holders
    BY PathsApart DEF SaveBody, SavingHolds
  <1>2. Now \in Content /\ Now # None /\ Now.points = points
    BY PathsApart, SnapshotAssumption DEF TypeOK, Now, Content
  <1>3. /\ pc' \in [Threads -> Labels] /\ path' \in [Threads -> {None} \cup Paths]
        /\ sum' \in [Threads -> Content \cup {None}]
        /\ IF path[t] = Temp THEN pc'[t] = "rename" /\ path'[t] = Temp
                             ELSE pc'[t] = "idle" /\ path'[t] = None
        /\ sum'[t] = None
        /\ \A o \in Threads \ {t} : pc'[o] = pc[o] /\ path'[o] = path[o] /\ sum'[o] = sum[o]
    BY <1>1, GotoShape, PathsApart DEF Labels, SaveBody, Finishes, Return
  <1>4. UNCHANGED <<points, last, beats, captured, thread>> /\ holders' = holders \ {t}
    BY DEF SaveBody, Finishes, pool, auto
  <1>5. files[path[t]] # Absent =>
          /\ Full \in File /\ Full.head = files[path[t]].head /\ Full.body = Now
          /\ path[t] = Temp => Full.synced
    <2> SUFFICES ASSUME files[path[t]] # Absent
                 PROVE  /\ Full \in File /\ Full.head = files[path[t]].head /\ Full.body = Now
                        /\ path[t] = Temp => Full.synced
      OBVIOUS
    <2> DEFINE f == files[path[t]]
               done == path[t] = Temp
    <2>1. f \in File /\ done \in BOOLEAN /\ Now \in Content
      BY <1>1, <1>2 DEF TypeOK
    <2>2. Full = [f EXCEPT !.body = Now, !.synced = done]
      OBVIOUS
    <2> HIDE DEF f, done, Full
    <2>3. /\ [f EXCEPT !.body = Now, !.synced = done] \in File
          /\ [f EXCEPT !.body = Now, !.synced = done].head = f.head
          /\ [f EXCEPT !.body = Now, !.synced = done].body = Now
          /\ [f EXCEPT !.body = Now, !.synced = done].synced = done
      BY <2>1 DEF File
    <2> QED
      BY <2>2, <2>3 DEF f, done
  <1>6. /\ files' \in [Paths -> File \cup {Absent}]
        /\ files'[path[t]] = IF files[path[t]] = Absent THEN Absent ELSE Full
        /\ \A p \in Paths \ {path[t]} : files'[p] = files[p]
    BY <1>1, <1>5 DEF SaveBody, Filled, Writes, TypeOK
  <1> HIDE DEF Full
  <1>7. TypeOK'
    BY <1>3, <1>4, <1>6 DEF TypeOK, Labels
  <1>8. CapturedWasSet'
    BY <1>4 DEF CapturedWasSet
  <1>9. SavingHolds'
    BY <1>3, <1>4 DEF SavingHolds
  <1>10. FilledBehindHeader'
    BY <1>1, <1>3, <1>4, <1>5, <1>6, PathsApart DEF FilledBehindHeader, SavingHolds
  <1>11. FilesWereCaptured'
    BY <1>1, <1>2, <1>4, <1>5, <1>6 DEF FilesWereCaptured, FilledBehindHeader
  <1>12. RestoringKnows'
    BY <1>3, <1>4 DEF RestoringKnows
  <1>13. TempIsOwned'
    <2>1. path[t] = Temp => Durable(files'[Temp])
      <3> SUFFICES ASSUME path[t] = Temp, files'[Temp] # Absent PROVE Whole(files'[Temp]) /\ files'[Temp].synced
        BY DEF Durable, Whole
      <3>1. files[Temp] # Absent /\ files'[Temp] = Full
        BY <1>6
      <3>2. files[Temp].head # None
        BY <1>1, <3>1 DEF FilledBehindHeader
      <3> QED
        BY <1>2, <1>5, <3>1, <3>2 DEF Whole
    <2>2. \A u \in Threads : pc[u] = "rename" => path[u] = Temp /\ Durable(files[Temp]) /\ u # t
      BY <1>1 DEF TempIsOwned
    <2>3. \A u \in Threads : pc'[u] = "rename" => path'[u] = Temp /\ Durable(files'[Temp])
      BY <1>1, <1>3, <1>6, <2>1, <2>2, PathsApart
    <2>4. \A u \in Threads : path'[u] = Temp => path[u] = Temp
      BY <1>3, PathsApart
    <2>5. \A u \in Threads : pc'[u] \in {"idle", "dead"} => path'[u] = None
      BY <1>3 DEF TempIsOwned
    <2> QED
      BY <2>3, <2>4, <2>5 DEF TempIsOwned, Durable, Whole
  <1>14. Durable(files[Target])'
    BY <1>1, <1>6, PathsApart DEF Durable, Whole, Paths
  <1> QED
    BY <1>7, <1>8, <1>9, <1>10, <1>11, <1>12, <1>13, <1>14

\* The synced temporary file takes the place of the target.
LEMMA SaveRenameStep ==
  ASSUME IInv, NEW t \in Threads, SaveRename(t)
  PROVE  IInv'
  <1> USE DEF IInv
  <1>1. pc[t] = "rename" /\ path[t] = Temp /\ Durable(files[Temp])
    BY DEF SaveRename, TempIsOwned
  <1>2. /\ pc' \in [Threads -> Labels] /\ path' \in [Threads -> {None} \cup Paths]
        /\ sum' \in [Threads -> Content \cup {None}]
        /\ pc'[t] = "idle" /\ path'[t] = None /\ sum'[t] = None
        /\ \A o \in Threads \ {t} : pc'[o] = pc[o] /\ path'[o] = path[o] /\ sum'[o] = sum[o]
    BY GotoShape DEF Labels, SaveRename, Return
  <1>3. UNCHANGED <<points, last, beats, holders, captured, thread>>
    BY DEF SaveRename, pool, auto
  <1>4. /\ files' \in [Paths -> File \cup {Absent}]
        /\ files'[Target] = files[Temp] /\ files'[Temp] = Absent
        /\ \A p \in Paths \ {Target, Temp} : files'[p] = files[p]
    BY PathsApart, SnapshotAssumption DEF SaveRename, TypeOK, Paths
  <1>5. TypeOK'
    BY <1>2, <1>3, <1>4 DEF TypeOK, Labels
  <1>6. CapturedWasSet'
    BY <1>3 DEF CapturedWasSet
  <1>7. SavingHolds'
    BY <1>2, <1>3 DEF SavingHolds
  <1>8. FilledBehindHeader'
    BY <1>2, <1>3, <1>4, PathsApart DEF FilledBehindHeader, SavingHolds
  <1>9. FilesWereCaptured'
    BY <1>3, <1>4, PathsApart DEF FilesWereCaptured, Paths
  <1>10. RestoringKnows'
    BY <1>2, <1>3 DEF RestoringKnows
  <1>11. TempIsOwned'
    BY <1>1, <1>2, <1>4, PathsApart DEF TempIsOwned, Durable, Paths
  <1>12. Durable(files[Target])'
    BY <1>1, <1>4 DEF Durable, Whole
  <1> QED
    BY <1>5, <1>6, <1>7, <1>8, <1>9, <1>10, <1>11, <1>12

\* Old backups are removed.
LEMMA CleanupStep ==
  ASSUME IInv, NEW keep \in 0..1, CleanupOldBackups(keep)
  PROVE  IInv'
  <1> USE DEF IInv
  <1>1. UNCHANGED <<points, last, beats, holders, captured, thread, pc, path, sum>>
    BY DEF CleanupOldBackups, pool, auto, calls
  <1>2. /\ files' \in [Paths -> File \cup {Absent}]
        /\ \A p \in Paths : files'[p] \in {files[p], Absent}
        /\ \A p \in Paths \ Backups : files'[p] = files[p]
    BY DEF CleanupOldBackups, TypeOK, Made
  <1>3. TypeOK' /\ CapturedWasSet' /\ RestoringKnows' /\ SavingHolds'
    BY <1>1, <1>2 DEF TypeOK, CapturedWasSet, RestoringKnows, SavingHolds
  <1>4. FilledBehindHeader'
    BY <1>1, <1>2, PathsApart DEF FilledBehindHeader, SavingHolds
  <1>5. FilesWereCaptured'
    BY <1>1, <1>2 DEF FilesWereCaptured
  <1>6. TempIsOwned' /\ Durable(files[Target])'
    BY <1>1, <1>2, SnapshotAssumption DEF TempIsOwned, Durable, Whole, Paths
  <1> QED
    BY <1>3, <1>4, <1>5, <1>6

\* What a restore may take along: nothing, or what was captured.
LEMMA RestoringShape ==
  ASSUME IInv, NEW t \in Threads, NEW label \in {"read", "apply"}, NEW p \in {None} \cup OwnPaths,
         NEW c \in Content \cup {None}, Goto(t, label, p, c),
         c # None => c.points \in captured,
         IF label = "read" THEN p \in OwnPaths ELSE p = None /\ c # None,
         UNCHANGED <<pool, holders, files, auto, captured>>
  PROVE  IInv'
  <1> USE DEF IInv
  <1>1. /\ pc' \in [Threads -> Labels] /\ path' \in [Threads -> {None} \cup Paths]
        /\ sum' \in [Threads -> Content \cup {None}]
        /\ pc'[t] = label /\ path'[t] = p /\ sum'[t] = c
        /\ \A o \in Threads \ {t} : pc'[o] = pc[o] /\ path'[o] = path[o] /\ sum'[o] = sum[o]
    BY GotoShape, PathsApart DEF Labels
  <1>2. UNCHANGED <<points, last, beats, thread>>
    BY DEF pool, auto
  <1>3. TypeOK'
    BY <1>1, <1>2 DEF TypeOK, Labels
  <1>4. CapturedWasSet' /\ FilesWereCaptured' /\ Durable(files[Target])'
    BY <1>2 DEF CapturedWasSet, FilesWereCaptured, Durable, Whole
  <1>5. SavingHolds' /\ FilledBehindHeader'
    BY <1>1, <1>2 DEF SavingHolds, FilledBehindHeader
  <1>6. RestoringKnows'
    BY <1>1 DEF RestoringKnows
  <1>7. TempIsOwned'
    BY <1>1, PathsApart DEF TempIsOwned, Durable, Whole
  <1> QED
    BY <1>3, <1>4, <1>5, <1>6, <1>7

\* The header is read, then the data, from the snapshot or a backup, or all at once from the
\* file of the pool's own snapshot.
LEMMA RestoreSteps ==
  ASSUME IInv, NEW t \in Threads,
         RestoreHead(t) \/ RestoreBody(t) \/ RestoreFallsBack(t) \/ LoadSnapshot(t)
  PROVE  IInv'
  <1> USE DEF IInv
  <1>1. UNCHANGED <<pool, holders, files, auto, captured>>
    BY DEF RestoreHead, RestoreBody, RestoreFallsBack, LoadSnapshot
  <1>2. \A p \in OwnPaths : files[p] # Absent =>
          /\ files[p].head \in Content \cup {None}
          /\ files[p].head # None => files[p].head.points \in captured
    BY PathsApart DEF TypeOK, File, FilesWereCaptured
  <1>3. CASE RestoreHead(t)
    <2>1. PICK p \in OwnPaths : files[p] # Absent /\ Goto(t, "read", p, files[p].head)
      BY <1>3 DEF RestoreHead, OwnPaths
    <2> QED
      BY <1>1, <1>2, <2>1, RestoringShape
  <1>4. CASE RestoreBody(t)
    <2>1. sum[t] # None /\ sum[t] \in Content /\ sum[t].points \in captured
      BY <1>4 DEF RestoreBody, SumAgrees, RestoringKnows, TypeOK
    <2>2. Goto(t, "apply", None, sum[t])
      BY <1>4 DEF RestoreBody, SumAgrees
    <2> QED
      BY <1>1, <2>1, <2>2, RestoringShape
  <1>5. CASE RestoreFallsBack(t)
    <2>1. CASE path[t] = Snap /\ Made # {}
      <3> DEFINE p == Max(Made)
      <3>1. Goto(t, "read", p, files[p].head)
        BY <1>5, <2>1 DEF RestoreFallsBack
      <3>2. p \in OwnPaths /\ files[p] # Absent
        BY <2>1, NewestIsMade DEF OwnPaths
      <3> HIDE DEF p
      <3> QED
        BY <1>1, <1>2, <3>1, <3>2, RestoringShape
    <2>2. CASE ~(path[t] = Snap /\ Made # {})
      <3>1. Goto(t, "idle", None, None)
        BY <1>5, <2>2 DEF RestoreFallsBack, Return
      <3>2. files' \in [Paths -> File \cup {Absent}] /\ \A p \in Paths : files'[p] \in {files[p], Absent}
        BY <1>1 DEF TypeOK
      <3>3. thread' \in {"none", "waits", "ended"}
        BY <1>1 DEF TypeOK, auto
      <3> QED
        BY <1>1, <3>1, <3>2, <3>3, LeavingSteps
    <2> QED
      BY <2>1, <2>2
  <1>6. CASE LoadSnapshot(t)
    <2> DEFINE c == files[Target].body
    <2>1. c \in Content /\ c # None /\ c.points \in captured /\ Goto(t, "apply", None, c)
      BY <1>6 DEF LoadSnapshot, Whole, TypeOK, File, FilesWereCaptured, Paths
    <2> HIDE DEF c
    <2> QED
      BY <1>1, <2>1, RestoringShape
  <1> QED
    BY <1>3, <1>4, <1>5, <1>6

\* Nobody saves while the restored points are copied into the pool.
LEMMA ApplyStep ==
  ASSUME IInv, NEW t \in Threads, Apply(t)
  PROVE  IInv'
  <1> USE DEF IInv
  <1>1. pc[t] = "apply" /\ holders = {} /\ sum[t] \in Content /\ sum[t].points \in captured
        /\ points' = sum[t].points
    BY DEF Apply, RestoringKnows, TypeOK
  <1>2. /\ pc' \in [Threads -> Labels] /\ path' \in [Threads -> {None} \cup Paths]
        /\ sum' \in [Threads -> Content \cup {None}]
        /\ pc'[t] = "idle" /\ path'[t] = None /\ sum'[t] = None
        /\ \A o \in Threads \ {t} : pc'[o] = pc[o] /\ path'[o] = path[o] /\ sum'[o] = sum[o]
    BY GotoShape DEF Labels, Apply, Return
  <1>3. UNCHANGED <<last, beats, holders, files, captured, thread>>
    BY DEF Apply, auto
  <1>4. points' \in 0..last
    BY <1>1 DEF CapturedWasSet
  <1>5. \A o \in Threads : pc'[o] \notin {"open", "body"}
    BY <1>1, <1>2 DEF SavingHolds
  <1>6. TypeOK'
    BY <1>2, <1>3, <1>4, <1>5 DEF TypeOK, Labels
  <1>7. CapturedWasSet' /\ FilesWereCaptured' /\ Durable(files[Target])'
    BY <1>3 DEF CapturedWasSet, FilesWereCaptured, Durable, Whole
  <1>8. SavingHolds' /\ FilledBehindHeader'
    BY <1>5 DEF SavingHolds, FilledBehindHeader
  <1>9. RestoringKnows'
    BY <1>2, <1>3 DEF RestoringKnows
  <1>10. TempIsOwned'
    BY <1>2, <1>3, PathsApart DEF TempIsOwned, Durable, Whole
  <1> QED
    BY <1>6, <1>7, <1>8, <1>9, <1>10

\* What a power cut leaves of a file is what was there, or an empty file in place of one
\* that was not synced.
LEMMA SurvivesShape ==
  ASSUME NEW f \in File \cup {Absent}, NEW g \in Survives(f)
  PROVE  /\ g \in File \cup {Absent}
         /\ f = Absent => g = Absent
         /\ f # Absent => g.synced /\ \/ g.head = f.head /\ g.body = f.body
                                      \/ ~f.synced /\ g.head = None /\ g.body = None
  <1> DEFINE Emptied == [head |-> None, body |-> None, synced |-> TRUE]
             Kept == [f EXCEPT !.synced = TRUE]
  <1>1. CASE f = Absent
    BY <1>1 DEF Survives
  <1>2. CASE f # Absent
    <2>1. f \in File
      BY <1>2
    <2>2. Kept \in File /\ Kept.head = f.head /\ Kept.body = f.body /\ Kept.synced
      BY <2>1 DEF File
    <2>3. Emptied \in File /\ Emptied.head = None /\ Emptied.body = None /\ Emptied.synced
      BY DEF File
    <2>4. g = Kept \/ (g = Emptied /\ ~f.synced)
      BY <1>2 DEF Survives
    <2> HIDE DEF Kept, Emptied
    <2> QED
      BY <1>2, <2>2, <2>3, <2>4
  <1> QED
    BY <1>1, <1>2

LEMMA PowerCutStep ==
  ASSUME IInv, PowerCut
  PROVE  IInv'
  <1> USE DEF IInv
  <1>1. /\ UNCHANGED <<last, beats, captured>> /\ points' = 0 /\ holders' = {}
        /\ \A t \in Threads : pc'[t] = "idle" /\ path'[t] = None /\ sum'[t] = None
    BY DEF PowerCut
  <1>2. \A p \in Paths :
          /\ files'[p] \in File \cup {Absent}
          /\ files[p] = Absent => files'[p] = Absent
          /\ files[p] # Absent =>
               /\ files'[p].synced
               /\ \/ files'[p].head = files[p].head /\ files'[p].body = files[p].body
                  \/ ~files[p].synced /\ files'[p].head = None /\ files'[p].body = None
    BY SurvivesShape DEF PowerCut, TypeOK
  <1>3. files' \in [Paths -> File \cup {Absent}]
    BY <1>2 DEF PowerCut
  <1>4. TypeOK'
    BY <1>1, <1>3, SnapshotAssumption DEF TypeOK, PowerCut, Constructed
  <1>5. CapturedWasSet' /\ SavingHolds' /\ FilledBehindHeader' /\ RestoringKnows'
    BY <1>1 DEF CapturedWasSet, SavingHolds, FilledBehindHeader, RestoringKnows
  <1>6. FilesWereCaptured'
    BY <1>1, <1>2 DEF FilesWereCaptured
  <1>7. TempIsOwned'
    BY <1>1, PathsApart DEF TempIsOwned, Paths
  <1>8. Durable(files[Target])'
    BY <1>2 DEF Durable, Whole, Paths
  <1> QED
    BY <1>4, <1>5, <1>6, <1>7, <1>8

LEMMA StepIInv == IInv /\ [Next]_vars => IInv'
  <1> SUFFICES ASSUME IInv, [Next]_vars PROVE IInv'
    OBVIOUS
  <1> DEFINE InTypes == thread' \in {"none", "waits", "ended"}
  <1>1. files \in [Paths -> File \cup {Absent}] /\ thread \in {"none", "waits", "ended"}
    BY DEF IInv, TypeOK
  <1>2. ASSUME NEW t \in Threads, SaveSteps(t) PROVE IInv'
    BY <1>2, SaveOpenStep, SaveBodyStep DEF SaveSteps
  <1>3. ASSUME NEW t \in Threads, SaveNotOpened(t) PROVE IInv'
    <2>1. /\ Goto(t, "idle", None, None) /\ holders' = holders \ {t}
          /\ UNCHANGED <<pool, files, auto, captured>>
      BY <1>3 DEF SaveNotOpened, Return
    <2> QED
      BY <1>1, <2>1, LeavingSteps DEF auto
  <1>4. ASSUME NEW t \in Threads, SaveBodyFails(t) PROVE IInv'
    <2>1. /\ Goto(t, "idle", None, None) /\ holders' = holders \ {t}
          /\ UNCHANGED <<pool, auto, captured>>
      BY <1>4 DEF SaveBodyFails, Return
    <2>2. /\ files' \in [Paths -> File \cup {Absent}]
          /\ \A p \in Paths : files'[p] \in {files[p], Absent}
      BY <1>1, <1>4 DEF SaveBodyFails, Writes
    <2> QED
      BY <1>1, <2>1, <2>2, LeavingSteps DEF auto
  <1>5. ASSUME NEW t \in Threads, Crash(t) PROVE IInv'
    <2>1. /\ Goto(t, "dead", None, None) /\ UNCHANGED <<pool, holders, files, auto, captured>>
      BY <1>5 DEF Crash
    <2> QED
      BY <1>1, <2>1, LeavingSteps DEF auto
  <1>6. ASSUME NEW t \in Threads, Restart(t) PROVE IInv'
    <2>1. /\ Goto(t, "idle", None, None) /\ UNCHANGED <<pool, holders, files, captured>>
      BY <1>6 DEF Restart, Return
    <2>2. InTypes
      BY <1>1, <1>6 DEF Restart, Constructed, auto
    <2> QED
      BY <1>1, <2>1, <2>2, LeavingSteps
  <1>7. ASSUME NEW t \in Callers, CallerSaves(t) PROVE IInv'
    <2> DEFINE Saves(p) == Save(t, p) /\ (p = Temp => \A o \in Threads : path[o] # Temp)
    <2>1. PICK p \in OwnPaths \cup {Temp} : Saves(p)
      <3>1. Save(t, Snap) => Saves(Snap)
        BY PathsApart DEF OwnPaths
      <3>2. \A later \in SUBSET Backups : later # {} /\ Save(t, Min(later)) =>
              Min(later) \in OwnPaths /\ Saves(Min(later))
        BY NextIsBackup, PathsApart DEF OwnPaths
      <3> QED
        BY <1>7, <3>1, <3>2 DEF CallerSaves, OwnPaths
    <2> QED
      BY <2>1, SaveStep DEF Threads
  <1>8. ASSUME NEW t \in Callers, SaveRename(t) PROVE IInv'
    BY <1>8, SaveRenameStep DEF Threads
  <1>9. ASSUME NEW t \in Callers,
               RestoreHead(t) \/ RestoreBody(t) \/ RestoreFallsBack(t) \/ LoadSnapshot(t)
        PROVE  IInv'
    BY <1>9, RestoreSteps DEF Threads
  <1>10. ASSUME NEW t \in Callers, Apply(t) PROVE IInv'
    BY <1>10, ApplyStep DEF Threads
  <1>11. CASE AutoSave
    BY <1>11, SaveStep, PathsApart DEF AutoSave, Threads, OwnPaths
  <1>12. CASE UNCHANGED vars
    BY <1>12 DEF vars, pool, calls, auto, IInv, TypeOK, CapturedWasSet, SavingHolds,
                 FilledBehindHeader, FilesWereCaptured, RestoringKnows, TempIsOwned, Durable, Whole
  <1> QED
    BY <1>2, <1>3, <1>4, <1>5, <1>6, <1>7, <1>8, <1>9, <1>10, <1>11, <1>12,
       PoolSteps, CleanupStep, PowerCutStep DEF Next

\* The inductive invariant holds for any callers, backups, files and bounds.
THEOREM Invariance == Spec => []IInv
  BY InitIInv, StepIInv, PTL DEF Spec

\* The variables keep their types, and who writes a file holds the lock.
THEOREM TypeCorrect == Spec => []TypeOK
  <1>1. IInv => TypeOK
    BY DEF IInv
  <1> QED
    BY <1>1, Invariance, PTL

\* Whatever is interrupted, a restore brings back the points as they were under some save's
\* lock: initFromSnapshot and loadSnapshot apply no mixture and no part.
THEOREM RestoresAreSaved == Spec => []RestoredWasSaved
  <1>1. IInv => RestoredWasSaved
    BY DEF IInv, RestoredWasSaved, RestoringKnows
  <1> QED
    BY <1>1, Invariance, PTL

\* saveSnapshot's file is whole whenever it is there, whatever crashes and whenever, as long
\* as one thread at a time saves by that name: it comes into being by renaming what was
\* written and synced.
THEOREM TargetStaysWhole == Spec => []TargetWhole
  <1>1. IInv => TargetWhole
    BY DEF IInv, Durable, TargetWhole
  <1> QED
    BY <1>1, Invariance, PTL

\* A header is followed by the points it was made of, also where two threads have written
\* one file at the same time.
THEOREM HeadersTellPoints == Spec => []OnlyBeatsSpoil
  <1>1. IInv => OnlyBeatsSpoil
    BY DEF IInv, FilesWereCaptured, OnlyBeatsSpoil, Whole
  <1> QED
    BY <1>1, Invariance, PTL

=============================================================================
