----------------------------- MODULE StartupProofs ----------------------------
(***************************************************************************)
(* Theorems about Startup, for any processes, types of points and number   *)
(* of segments.  A process that creates a segment is its only creator, and *)
(* the stage of the segment follows where its creator is; the name is that *)
(* of the youngest segment or nobody's; and as far as initialize has come,  *)
(* each type has what the last restore brought, or defaults set since.     *)
(***************************************************************************)
EXTENDS Startup, SequenceTheorems, TLAPS

Labels == {"out", "sized", "magic", "created", "closing", "connected"}
Stages == {"empty", "magic", "ready", "closed"}
Origins == {"zero", "default", "snapshot", "backup", "set"}

Creator(p) == pc[p] \in {"sized", "magic", "created", "closing"}

\* The control points, where initialize stands before a pool is made, and the file.
PcOK ==
  /\ snapshot \in SnapshotStates
  /\ made \in Nat
  /\ pc \in [Procs -> Labels]
  /\ \A p \in Procs : pc[p] # "created" /\ pc[p] # "closing" => next[p] = 1

CreatorsApart ==
  \A p, q \in Procs : Creator(p) /\ Creator(q) /\ p # q => at[p] # at[q]

StagesFollow ==
  \A p \in Procs :
    /\ pc[p] = "sized" => stage[at[p]] = "empty"
    /\ pc[p] = "magic" => stage[at[p]] = "magic"
    /\ pc[p] = "created" => stage[at[p]] = "ready"
    /\ pc[p] = "connected" => stage[at[p]] # "empty"

NameIsYoungest == name = None \/ name = made

NameKept ==
  \A p \in Procs : Creator(p) /\ at[p] = made /\ ~replaced => name = made

\* What a type has when initialize has come to type n: the types before n that
\* restored, the types that were given defaults after that, and the others.
RestoringTo(n) == {j \in Restoring : j < n}
DefaultAt(i, n) ==
  i \in Indexed /\ mode[i] # "OTHER" /\ i < n /\ \A j \in RestoringTo(n) : j < i
Origin(i, n) ==
  IF DefaultAt(i, n) THEN "default" ELSE IF RestoringTo(n) = {} THEN "zero" ELSE Restored
Kept(v, n) == snapshot # "empty" => \A i \in Numbers : v[i] \in {Origin(i, n), "set"}

InitProgress ==
  \A p \in Procs : pc[p] \in {"magic", "created"} /\ next[p] \in 1..(Len(Types) + 1) =>
    Kept(values[at[p]], next[p])

IInv ==
  /\ TypeOK /\ PcOK /\ CreatorsApart /\ StagesFollow
  /\ NameIsYoungest /\ NameKept /\ InitProgress

------------------------------------------------------------------------------
\* Appending adds an element at the end and keeps the others.
LEMMA AppendAtEnd ==
  ASSUME NEW S, NEW n \in Nat, NEW s \in [1..n -> S], NEW e \in S
  PROVE  /\ Append(s, e) \in [1..(n + 1) -> S]
         /\ Append(s, e)[n + 1] = e
         /\ \A i \in 1..n : Append(s, e)[i] = s[i]
  <1>1. s \in Seq(S) /\ Len(s) = n
    OBVIOUS
  <1>2. /\ Append(s, e) \in Seq(S) /\ Len(Append(s, e)) = n + 1
        /\ \A i \in 1..n : Append(s, e)[i] = s[i]
        /\ Append(s, e)[n + 1] = e
    BY <1>1, AppendProperties
  <1>3. Append(s, e) \in [1..(n + 1) -> S]
    BY <1>2, LenProperties
  <1> QED
    BY <1>2, <1>3

\* Nothing has been made at first.
LEMMA InitIInv == Init => IInv
  <1> SUFFICES ASSUME Init PROVE IInv
    OBVIOUS
  <1> USE StartupAssumption DEF Init
  <1>1. TypeOK
    BY DEF TypeOK, Segments, Numbers
  <1>2. PcOK /\ CreatorsApart /\ StagesFollow
    BY DEF PcOK, CreatorsApart, StagesFollow, Creator, Labels
  <1>3. NameIsYoungest /\ NameKept /\ InitProgress
    BY DEF NameIsYoungest, NameKept, InitProgress, Creator
  <1> QED
    BY <1>1, <1>2, <1>3 DEF IInv

------------------------------------------------------------------------------
(* Every action keeps IInv.                                                *)

\* create adds a segment and leaves the others as they are.
LEMMA CreateAdds ==
  ASSUME IInv, NEW p \in Procs, Create(p)
  PROVE  /\ stage' \in [1..made' -> Stages]
         /\ stage'[made'] = "empty"
         /\ \A s \in 1..made : stage'[s] = stage[s]
         /\ values' \in [1..made' -> [Numbers -> Origins]]
         /\ \A s \in 1..made : values'[s] = values[s]
  <1> USE DEF Create, CreateAnew
  <1>0. made \in Nat
    BY DEF IInv, PcOK
  <1>1. made' = made + 1 /\ made \in Nat /\ None \notin Nat
    BY StartupAssumption DEF IInv, PcOK
  <1>3. /\ stage' \in [1..made' -> Stages]
        /\ stage'[made'] = "empty"
        /\ \A s \in 1..made : stage'[s] = stage[s]
    <2>1. stage \in [1..made -> Stages]
      BY DEF IInv, TypeOK, Segments, Stages
    <2>2. "empty" \in Stages
      BY DEF Stages
    <2>3. Append(stage, "empty") \in [1..(made + 1) -> Stages]
      BY <1>0, <2>1, <2>2, AppendAtEnd
    <2>4. Append(stage, "empty")[made + 1] = "empty"
      BY <1>0, <2>1, <2>2, AppendAtEnd
    <2>5. \A s \in 1..made : Append(stage, "empty")[s] = stage[s]
      BY <1>0, <2>1, <2>2, AppendAtEnd
    <2> QED
      BY <1>1, <2>3, <2>4, <2>5
  <1>4. /\ values' \in [1..made' -> [Numbers -> Origins]]
        /\ \A s \in 1..made : values'[s] = values[s]
    <2>1. values \in [1..made -> [Numbers -> Origins]]
      BY DEF IInv, TypeOK, Segments, Origins
    <2> DEFINE zeros == [i \in Numbers |-> "zero"]
    <2>2. zeros \in [Numbers -> Origins]
      BY DEF Origins
    <2>4. values' = Append(values, zeros)
      OBVIOUS
    <2> HIDE DEF zeros
    <2>3. Append(values, zeros) \in [1..(made + 1) -> [Numbers -> Origins]]
      BY <1>0, <2>1, <2>2, AppendAtEnd
    <2>5. \A s \in 1..made : Append(values, zeros)[s] = values[s]
      BY <1>0, <2>1, <2>2, AppendAtEnd
    <2> QED
      BY <1>1, <2>3, <2>4, <2>5
  <1> QED
    BY <1>3, <1>4

\* create makes a segment that nobody else maps.
LEMMA CreateKeeps == ASSUME IInv, NEW p \in Procs, Create(p) PROVE IInv'
  <1> USE DEF Create, CreateAnew
  <1>0. made \in Nat
    BY DEF IInv, PcOK
  <1>1. made' = made + 1 /\ made \in Nat /\ None \notin Nat
    BY StartupAssumption DEF IInv, PcOK
  <1>2. \A q \in Procs : at[q] # None => at[q] \in 1..made
    BY DEF IInv, TypeOK, Segments
  <1>3. /\ stage' \in [1..made' -> Stages]
        /\ stage'[made'] = "empty"
        /\ \A s \in 1..made : stage'[s] = stage[s]
    BY CreateAdds
  <1>4. /\ values' \in [1..made' -> [Numbers -> Origins]]
        /\ \A s \in 1..made : values'[s] = values[s]
    BY CreateAdds
  <1>5. /\ at' = [at EXCEPT ![p] = made'] /\ pc' = [pc EXCEPT ![p] = "sized"]
        /\ at \in [Procs -> 1..made \cup {None}] /\ pc \in [Procs -> Labels]
        /\ pc[p] = "out" /\ next[p] = 1
    BY DEF Goto, IInv, TypeOK, PcOK, Segments
  <1>6. \A q \in Procs : at[q] = None <=> pc[q] = "out"
    BY DEF IInv, TypeOK
  <1>7. TypeOK'
    <2>1. name' \in (Segments \cup {None})'
      BY <1>1 DEF Segments
    <2>2. stage' \in [1..made' -> {"empty", "magic", "ready", "closed"}]
      BY <1>3 DEF Stages
    <2>3. values' \in [1..made' -> [Numbers -> {"zero", "default", "snapshot", "backup", "set"}]]
      BY <1>4 DEF Origins
    <2>4. at' \in [Procs -> 1..made' \cup {None}]
      BY <1>1, <1>5
    <2>5. \A q \in Procs : at'[q] = None <=> pc'[q] = "out"
      BY <1>1, <1>5, <1>6
    <2>6. next' \in [Procs -> 1..(Len(Types) + 2)]
      BY DEF IInv, TypeOK
    <2> QED
      BY <2>1, <2>2, <2>3, <2>4, <2>5, <2>6 DEF TypeOK, Segments, Numbers
  <1>8. PcOK'
    BY <1>1, <1>5 DEF IInv, PcOK, Labels, config
  <1>9. CreatorsApart'
    BY <1>1, <1>2, <1>5, <1>6 DEF IInv, CreatorsApart, Creator
  <1>10. StagesFollow'
    BY <1>1, <1>2, <1>3, <1>5, <1>6 DEF IInv, StagesFollow
  <1>11. NameIsYoungest' /\ NameKept'
    BY DEF NameIsYoungest, NameKept
  <1>12. InitProgress'
    <2> SUFFICES ASSUME NEW q \in Procs, pc'[q] \in {"magic", "created"}, next'[q] \in 1..(Len(Types) + 1)
                 PROVE  Kept(values[at[q]], next[q])'
      BY DEF InitProgress
    <2>1. pc[q] \in {"magic", "created"} /\ at'[q] = at[q] /\ next'[q] = next[q]
      BY <1>5
    <2>2. values'[at[q]] = values[at[q]]
      BY <1>2, <1>4, <1>6, <2>1
    <2>3. Kept(values'[at'[q]], next'[q])
      BY <2>1, <2>2 DEF IInv, InitProgress
    <2> QED
      BY <2>3 DEF Kept, Origin, DefaultAt, RestoringTo, Restoring, Restored, config
  <1> QED
    BY <1>7, <1>8, <1>9, <1>10, <1>11, <1>12 DEF IInv

\* The segment is still its creator's alone.
LEMMA CreateMagicKeeps == ASSUME IInv, NEW p \in Procs, CreateMagic(p) PROVE IInv'
  <1> USE StartupAssumption DEF CreateMagic, Goto, config
  <1>1. TypeOK'
    BY DEF IInv, TypeOK, PcOK, Segments, Numbers, Labels
  <1>2. PcOK'
    BY DEF IInv, TypeOK, PcOK, Labels
  <1>3. CreatorsApart'
    BY DEF IInv, TypeOK, PcOK, CreatorsApart, Creator, Labels
  <1>4. StagesFollow'
    BY DEF IInv, TypeOK, PcOK, CreatorsApart, StagesFollow, Creator, Segments, Labels
  <1>5. NameIsYoungest'
    BY DEF IInv, NameIsYoungest
  <1>6. NameKept'
    BY DEF IInv, TypeOK, PcOK, CreatorsApart, NameIsYoungest, NameKept, Creator, Labels
  <1>7. InitProgress'
    <2> SUFFICES ASSUME NEW q \in Procs, pc'[q] \in {"magic", "created"}, next'[q] \in 1..(Len(Types) + 1)
                 PROVE  Kept(values[at[q]], next[q])'
      BY DEF InitProgress
    <2>1. CASE q = p
      <3>1. next'[q] = 1 /\ at'[q] = at[p] /\ at[p] \in 1..made
        BY <2>1 DEF IInv, TypeOK, PcOK, Segments
      <3>2. \A i \in Numbers : values'[at[p]][i] = "zero"
        BY <3>1 DEF IInv, TypeOK, Segments
      <3>3. \A j \in Numbers : ~(j < 1)
        BY DEF Numbers
      <3> QED
        BY <3>1, <3>2, <3>3 DEF Kept, Origin, DefaultAt, RestoringTo, Restoring
    <2>2. CASE q # p
      <3>1. pc[q] \in {"magic", "created"} /\ at[q] # at[p] /\ at[q] \in 1..made /\ at[p] \in 1..made
        BY <2>2 DEF IInv, TypeOK, PcOK, CreatorsApart, Creator, Segments
      <3>2. values'[at[q]] = values[at[q]] /\ next'[q] = next[q] /\ at'[q] = at[q]
        BY <3>1 DEF IInv, TypeOK, Segments
      <3> QED
        BY <3>1, <3>2 DEF IInv, InitProgress, Kept, Origin, DefaultAt, RestoringTo, Restoring, Restored
    <2> QED
      BY <2>1, <2>2
  <1> QED
    BY <1>1, <1>2, <1>3, <1>4, <1>5, <1>6, <1>7 DEF IInv

\* What connected processes have set meanwhile is kept.
LEMMA CreateDoneKeeps == ASSUME IInv, NEW p \in Procs, CreateDone(p) PROVE IInv'
  <1> USE StartupAssumption DEF CreateDone, Goto, config
  <1>1. TypeOK'
    BY DEF IInv, TypeOK, PcOK, Segments, Numbers, Labels
  <1>2. PcOK'
    BY DEF IInv, TypeOK, PcOK, Labels
  <1>3. CreatorsApart'
    BY DEF IInv, TypeOK, PcOK, CreatorsApart, Creator, Labels
  <1>4. StagesFollow'
    BY DEF IInv, TypeOK, PcOK, CreatorsApart, StagesFollow, Creator, Segments, Labels
  <1>5. NameIsYoungest'
    BY DEF IInv, NameIsYoungest
  <1>6. NameKept'
    BY DEF IInv, TypeOK, PcOK, CreatorsApart, NameIsYoungest, NameKept, Creator, Labels
  <1>7. InitProgress'
    <2> SUFFICES ASSUME NEW q \in Procs, pc'[q] \in {"magic", "created"}, next'[q] \in 1..(Len(Types) + 1)
                 PROVE  Kept(values[at[q]], next[q])'
      BY DEF InitProgress
    <2>1. pc[q] \in {"magic", "created"}
      BY DEF IInv, PcOK
    <2> QED
      BY <2>1 DEF IInv, InitProgress, Kept, Origin, DefaultAt, RestoringTo, Restoring, Restored
  <1> QED
    BY <1>1, <1>2, <1>3, <1>4, <1>5, <1>6, <1>7 DEF IInv

\* Who connects finds a stage that is not empty.
LEMMA ConnectKeeps == ASSUME IInv, NEW p \in Procs, Connect(p) PROVE IInv'
  <1> USE StartupAssumption DEF Connect, Goto, config, segments
  <1>1. TypeOK'
    BY DEF IInv, TypeOK, PcOK, Segments, Numbers, Labels
  <1>2. PcOK'
    BY DEF IInv, TypeOK, PcOK, Labels
  <1>3. CreatorsApart'
    BY DEF IInv, TypeOK, PcOK, CreatorsApart, Creator, Labels
  <1>4. StagesFollow'
    BY DEF IInv, TypeOK, PcOK, CreatorsApart, StagesFollow, Creator, Segments, Labels
  <1>5. NameIsYoungest'
    BY DEF IInv, NameIsYoungest
  <1>6. NameKept'
    BY DEF IInv, TypeOK, PcOK, CreatorsApart, NameIsYoungest, NameKept, Creator, Labels
  <1>7. InitProgress'
    BY DEF IInv, TypeOK, PcOK, CreatorsApart, Creator, InitProgress, Kept, Origin, DefaultAt, RestoringTo, Restoring, Restored, Numbers, Segments, Labels
  <1> QED
    BY <1>1, <1>2, <1>3, <1>4, <1>5, <1>6, <1>7 DEF IInv

\* The lock of a segment goes with its creator.
LEMMA DestroyLockKeeps == ASSUME IInv, NEW p \in Procs, DestroyLock(p) PROVE IInv'
  <1> USE StartupAssumption DEF DestroyLock, Goto, config
  <1>1. TypeOK'
    BY DEF IInv, TypeOK, PcOK, Segments, Numbers, Labels
  <1>2. PcOK'
    BY DEF IInv, TypeOK, PcOK, Labels
  <1>3. CreatorsApart'
    BY DEF IInv, TypeOK, PcOK, CreatorsApart, Creator, Labels
  <1>4. StagesFollow'
    BY DEF IInv, TypeOK, PcOK, CreatorsApart, StagesFollow, Creator, Segments, Labels
  <1>5. NameIsYoungest'
    BY DEF IInv, NameIsYoungest
  <1>6. NameKept'
    BY DEF IInv, TypeOK, PcOK, CreatorsApart, NameIsYoungest, NameKept, Creator, Labels
  <1>7. InitProgress'
    <2> SUFFICES ASSUME NEW q \in Procs, pc'[q] \in {"magic", "created"}, next'[q] \in 1..(Len(Types) + 1)
                 PROVE  Kept(values[at[q]], next[q])'
      BY DEF InitProgress
    <2>1. pc[q] = pc'[q] /\ at'[q] = at[q] /\ next'[q] = next[q]
      BY DEF IInv, TypeOK, PcOK
    <2>2. Kept(values[at[q]], next[q])
      BY <2>1 DEF IInv, InitProgress
    <2> QED
      BY <2>1, <2>2 DEF Kept, Origin, DefaultAt, RestoringTo, Restoring, Restored
  <1> QED
    BY <1>1, <1>2, <1>3, <1>4, <1>5, <1>6, <1>7 DEF IInv

\* Another segment's name is taken away, or the creator's own.
LEMMA DestroyNameKeeps == ASSUME IInv, NEW p \in Procs, DestroyName(p) PROVE IInv'
  <1> USE StartupAssumption DEF DestroyName, Goto, config, segments, Leaves
  <1>1. TypeOK'
    BY DEF IInv, TypeOK, PcOK, Segments, Numbers, Labels
  <1>2. PcOK'
    BY DEF IInv, TypeOK, PcOK, Labels
  <1>3. CreatorsApart'
    BY DEF IInv, TypeOK, PcOK, CreatorsApart, Creator, Labels
  <1>4. StagesFollow'
    BY DEF IInv, TypeOK, PcOK, CreatorsApart, StagesFollow, Creator, Segments, Labels
  <1>5. NameIsYoungest'
    BY DEF IInv, NameIsYoungest
  <1>6. NameKept'
    BY DEF IInv, TypeOK, PcOK, CreatorsApart, NameIsYoungest, NameKept, Creator, Labels
  <1>7. InitProgress'
    <2> SUFFICES ASSUME NEW q \in Procs, pc'[q] \in {"magic", "created"}, next'[q] \in 1..(Len(Types) + 1)
                 PROVE  Kept(values[at[q]], next[q])'
      BY DEF InitProgress
    <2>1. pc[q] = pc'[q] /\ at'[q] = at[q] /\ next'[q] = next[q]
      BY DEF IInv, TypeOK, PcOK
    <2>2. Kept(values[at[q]], next[q])
      BY <2>1 DEF IInv, InitProgress
    <2> QED
      BY <2>1, <2>2 DEF Kept, Origin, DefaultAt, RestoringTo, Restoring, Restored
  <1> QED
    BY <1>1, <1>2, <1>3, <1>4, <1>5, <1>6, <1>7 DEF IInv

\* Who leaves leaves everything else as it is.
LEMMA DisconnectKeeps == ASSUME IInv, NEW p \in Procs, Disconnect(p) PROVE IInv'
  <1> USE StartupAssumption DEF Disconnect, Goto, config, segments, Leaves
  <1>1. TypeOK'
    BY DEF IInv, TypeOK, PcOK, Segments, Numbers, Labels
  <1>2. PcOK'
    BY DEF IInv, TypeOK, PcOK, Labels
  <1>3. CreatorsApart'
    BY DEF IInv, TypeOK, PcOK, CreatorsApart, Creator, Labels
  <1>4. StagesFollow'
    BY DEF IInv, TypeOK, PcOK, CreatorsApart, StagesFollow, Creator, Segments, Labels
  <1>5. NameIsYoungest'
    BY DEF IInv, NameIsYoungest
  <1>6. NameKept'
    BY DEF IInv, TypeOK, PcOK, CreatorsApart, NameIsYoungest, NameKept, Creator, Labels
  <1>7. InitProgress'
    <2> SUFFICES ASSUME NEW q \in Procs, pc'[q] \in {"magic", "created"}, next'[q] \in 1..(Len(Types) + 1)
                 PROVE  Kept(values[at[q]], next[q])'
      BY DEF InitProgress
    <2>1. pc[q] = pc'[q] /\ at'[q] = at[q] /\ next'[q] = next[q]
      BY DEF IInv, TypeOK, PcOK
    <2>2. Kept(values[at[q]], next[q])
      BY <2>1 DEF IInv, InitProgress
    <2> QED
      BY <2>1, <2>2 DEF Kept, Origin, DefaultAt, RestoringTo, Restoring, Restored
  <1> QED
    BY <1>1, <1>2, <1>3, <1>4, <1>5, <1>6, <1>7 DEF IInv

\* So does who is killed.
LEMMA CrashKeeps == ASSUME IInv, NEW p \in Procs, Crash(p) PROVE IInv'
  <1> USE StartupAssumption DEF Crash, Goto, config, segments, Leaves
  <1>1. TypeOK'
    BY DEF IInv, TypeOK, PcOK, Segments, Numbers, Labels
  <1>2. PcOK'
    BY DEF IInv, TypeOK, PcOK, Labels
  <1>3. CreatorsApart'
    BY DEF IInv, TypeOK, PcOK, CreatorsApart, Creator, Labels
  <1>4. StagesFollow'
    BY DEF IInv, TypeOK, PcOK, CreatorsApart, StagesFollow, Creator, Segments, Labels
  <1>5. NameIsYoungest'
    BY DEF IInv, NameIsYoungest
  <1>6. NameKept'
    BY DEF IInv, TypeOK, PcOK, CreatorsApart, NameIsYoungest, NameKept, Creator, Labels
  <1>7. InitProgress'
    <2> SUFFICES ASSUME NEW q \in Procs, pc'[q] \in {"magic", "created"}, next'[q] \in 1..(Len(Types) + 1)
                 PROVE  Kept(values[at[q]], next[q])'
      BY DEF InitProgress
    <2>1. pc[q] = pc'[q] /\ at'[q] = at[q] /\ next'[q] = next[q]
      BY DEF IInv, TypeOK, PcOK
    <2>2. Kept(values[at[q]], next[q])
      BY <2>1 DEF IInv, InitProgress
    <2> QED
      BY <2>1, <2>2 DEF Kept, Origin, DefaultAt, RestoringTo, Restoring, Restored
  <1> QED
    BY <1>1, <1>2, <1>3, <1>4, <1>5, <1>6, <1>7 DEF IInv


------------------------------------------------------------------------------
(* The values.                                                             *)

\* A set adds an origin that every mode allows.
LEMMA SetPointKeeps == ASSUME IInv, NEW p \in Procs, NEW i \in Numbers, SetPoint(p, i) PROVE IInv'
  <1> USE StartupAssumption DEF SetPoint, config, segments
  <1>1. TypeOK'
    BY DEF IInv, TypeOK, Segments, Numbers
  <1>2. PcOK'
    BY DEF IInv, TypeOK, PcOK, Labels
  <1>3. CreatorsApart'
    BY DEF IInv, CreatorsApart, Creator
  <1>4. StagesFollow'
    BY DEF IInv, StagesFollow
  <1>5. NameIsYoungest' /\ NameKept'
    BY DEF IInv, NameIsYoungest, NameKept, Creator
  <1>6. InitProgress'
    <2> SUFFICES ASSUME NEW q \in Procs, pc[q] \in {"magic", "created"}, next'[q] \in 1..(Len(Types) + 1)
                 PROVE  Kept(values[at[q]], next[q])'
      BY DEF InitProgress
    <2>1. at[p] \in 1..made /\ at[q] \in 1..made
      BY DEF IInv, TypeOK, Segments
    <2>2. \A j \in 1..Len(Types) : values'[at[q]][j] \in {values[at[q]][j], "set"}
      BY <2>1 DEF IInv, TypeOK, Segments, Numbers
    <2>3. next'[q] = next[q] /\ Kept(values[at[q]], next[q])
      BY DEF IInv, InitProgress
    <2> QED
      BY <2>2, <2>3 DEF Kept, Origin, DefaultAt, RestoringTo, Restoring, Restored
  <1> QED
    BY <1>1, <1>2, <1>3, <1>4, <1>5, <1>6 DEF IInv

\* The type that asks for the restore is the last that restored so far, and every type
\* has what it brought.
LEMMA InitRestoreKeeps == ASSUME IInv, NEW p \in Procs, InitRestore(p) PROVE IInv'
  <1> USE StartupAssumption DEF InitRestore, config, segments, Initializes, InitNext, Restored
  <1>1. TypeOK'
    <2>1. at[p] \in 1..made
      BY DEF IInv, TypeOK, Segments
    <2> QED
      BY <2>1 DEF IInv, TypeOK, Segments, Numbers
  <1>2. PcOK'
    BY DEF IInv, TypeOK, PcOK, Labels
  <1>3. CreatorsApart'
    BY DEF IInv, CreatorsApart, Creator
  <1>4. StagesFollow'
    BY DEF IInv, StagesFollow
  <1>5. NameIsYoungest' /\ NameKept'
    BY DEF IInv, NameIsYoungest, NameKept, Creator
  <1>6. InitProgress'
    <2> SUFFICES ASSUME NEW q \in Procs, pc[q] \in {"magic", "created"}, next'[q] \in 1..(Len(Types) + 1)
                 PROVE  Kept(values[at[q]], next[q])'
      BY DEF InitProgress
    <2>1. CASE q # p
      <3>1. at[q] # at[p] /\ at[q] \in 1..made /\ at[p] \in 1..made
        BY <2>1 DEF IInv, TypeOK, CreatorsApart, Creator, Segments
      <3>2. values'[at[q]] = values[at[q]] /\ next'[q] = next[q]
        BY <2>1, <3>1 DEF IInv, TypeOK, Segments
      <3>3. Kept(values[at[q]], next[q])
        BY <3>2 DEF IInv, InitProgress
      <3> QED
        BY <3>2, <3>3 DEF Kept, Origin, DefaultAt, RestoringTo, Restoring
    <2>2. CASE q = p
      <3>1. at[p] \in 1..made /\ next[p] \in 1..Len(Types) /\ next'[p] = next[p] + 1
        BY DEF IInv, TypeOK, Segments, Numbers
      <3>2. Kept(values[at[p]], next[p])
        BY <3>1 DEF IInv, InitProgress
      <3>3. \A j \in 1..Len(Types) : values'[at[p]][j] = Restored
        BY <3>1 DEF IInv, TypeOK, Segments, Numbers
      <3>0. snapshot \in {"whole", "cut", "empty"}
        BY DEF HasValidSnapshot, IInv, PcOK, SnapshotStates
      <3>4. next[p] \in RestoringTo(next[p] + 1) \/ snapshot = "empty"
        BY <3>0, <3>1 DEF RestoringTo, Restoring, Numbers
      <3>5. \A j \in Numbers : Origin(j, next[p] + 1) = Restored \/ snapshot = "empty"
        BY <3>1, <3>4 DEF Origin, DefaultAt, Numbers
      <3>6. Kept(values'[at[p]], next[p] + 1)
        BY <3>3, <3>5 DEF Kept, Numbers
      <3> QED
        BY <2>2, <3>1, <3>6 DEF Kept, Origin, DefaultAt, RestoringTo, Restoring
    <2> QED
      BY <2>1, <2>2
  <1> QED
    BY <1>1, <1>2, <1>3, <1>4, <1>5, <1>6 DEF IInv

\* initialize that fails does not come to its end.
LEMMA InitFailsKeeps == ASSUME IInv, NEW p \in Procs, InitFails(p) PROVE IInv'
  <1> USE StartupAssumption DEF InitFails, config, segments, Initializes
  <1>1. TypeOK'
    BY DEF IInv, TypeOK, Segments, Numbers
  <1>2. PcOK'
    BY DEF IInv, TypeOK, PcOK, Labels
  <1>3. CreatorsApart'
    BY DEF IInv, CreatorsApart, Creator
  <1>4. StagesFollow'
    BY DEF IInv, StagesFollow
  <1>5. NameIsYoungest' /\ NameKept'
    BY DEF IInv, NameIsYoungest, NameKept, Creator
  <1>6. InitProgress'
    <2> SUFFICES ASSUME NEW q \in Procs, pc[q] \in {"magic", "created"}, next'[q] \in 1..(Len(Types) + 1)
                 PROVE  Kept(values[at[q]], next[q])'
      BY DEF InitProgress
    <2>1. q # p
      BY DEF IInv, TypeOK
    <2> QED
      BY <2>1 DEF IInv, InitProgress, Kept, Origin, DefaultAt, RestoringTo, Restoring, Restored, Numbers
  <1> QED
    BY <1>1, <1>2, <1>3, <1>4, <1>5, <1>6 DEF IInv

\* Defaults are for a type that wants them, or that has no snapshot.
LEMMA InitDefaultsKeeps == ASSUME IInv, NEW p \in Procs, InitDefaults(p) PROVE IInv'
  <1> USE StartupAssumption DEF InitDefaults, config, segments, Initializes, InitNext
  <1>1. TypeOK'
    <2>1. at[p] \in 1..made
      BY DEF IInv, TypeOK, Segments
    <2> QED
      BY <2>1 DEF IInv, TypeOK, Segments, Numbers, Defaults
  <1>2. PcOK'
    BY DEF IInv, TypeOK, PcOK, Labels
  <1>3. CreatorsApart'
    BY DEF IInv, CreatorsApart, Creator
  <1>4. StagesFollow'
    BY DEF IInv, StagesFollow
  <1>5. NameIsYoungest' /\ NameKept'
    BY DEF IInv, NameIsYoungest, NameKept, Creator
  <1>6. InitProgress'
    <2> SUFFICES ASSUME NEW q \in Procs, pc[q] \in {"magic", "created"}, next'[q] \in 1..(Len(Types) + 1)
                 PROVE  Kept(values[at[q]], next[q])'
      BY DEF InitProgress
    <2>1. CASE q # p
      <3>1. at[q] # at[p] /\ at[q] \in 1..made /\ at[p] \in 1..made
        BY <2>1 DEF IInv, TypeOK, CreatorsApart, Creator, Segments
      <3>2. values'[at[q]] = values[at[q]] /\ next'[q] = next[q]
        BY <2>1, <3>1 DEF IInv, TypeOK, Segments
      <3> QED
        BY <3>2 DEF IInv, InitProgress, Kept, Origin, DefaultAt, RestoringTo, Restoring, Restored, Numbers
    <2>2. CASE q = p
      <3>1. at[p] \in 1..made /\ next[p] \in 1..Len(Types) /\ next'[p] = next[p] + 1
        BY DEF IInv, TypeOK, Segments, Numbers
      <3>2. Kept(values[at[p]], next[p])
        BY <3>1 DEF IInv, InitProgress
      <3>3. \A j \in Numbers :
              values'[at[p]][j] = IF j = next[p] /\ j \in Indexed THEN "default" ELSE values[at[p]][j]
        BY <3>1 DEF IInv, TypeOK, Segments, Numbers, Defaults
      <3>4. RestoringTo(next[p] + 1) = RestoringTo(next[p]) \/ snapshot = "empty"
        <4>1. CASE mode[next[p]] = "LOAD_LAST_VALUE"
          <5>1. snapshot \notin {"whole", "cut"}
            BY <4>1 DEF HasValidSnapshot
          <5> QED
            BY <5>1 DEF RestoringTo, Restoring
        <4>2. CASE mode[next[p]] # "LOAD_LAST_VALUE"
          BY <3>1, <4>2 DEF RestoringTo, Restoring, Numbers
        <4> QED
          BY <4>1, <4>2
      <3>5. mode[next[p]] # "OTHER"
        OBVIOUS
      <3>6. ASSUME NEW j \in Numbers, snapshot # "empty", ~(j = next[p] /\ j \in Indexed)
            PROVE  Origin(j, next[p] + 1) = Origin(j, next[p])
        <4>1. DefaultAt(j, next[p] + 1) <=> DefaultAt(j, next[p])
          BY <3>1, <3>4, <3>6 DEF DefaultAt, Numbers
        <4> QED
          BY <3>4, <3>6, <4>1 DEF Origin
      <3>7. next[p] \in Indexed /\ snapshot # "empty" => Origin(next[p], next[p] + 1) = "default"
        BY <3>1, <3>4, <3>5 DEF Origin, DefaultAt, RestoringTo, Numbers
      <3>8. Kept(values'[at[p]], next[p] + 1)
        BY <3>1, <3>2, <3>3, <3>6, <3>7 DEF Kept
      <3> QED
        BY <2>2, <3>1, <3>8 DEF Kept, Origin, DefaultAt, RestoringTo, Restoring, Restored
    <2> QED
      BY <2>1, <2>2
  <1> QED
    BY <1>1, <1>2, <1>3, <1>4, <1>5, <1>6 DEF IInv

\* The other modes ask for nothing.
LEMMA InitOtherKeeps == ASSUME IInv, NEW p \in Procs, InitOther(p) PROVE IInv'
  <1> USE StartupAssumption DEF InitOther, config, segments, Initializes, InitNext
  <1>1. TypeOK'
    <2>1. at[p] \in 1..made
      BY DEF IInv, TypeOK, Segments
    <2> QED
      BY <2>1 DEF IInv, TypeOK, Segments, Numbers
  <1>2. PcOK'
    BY DEF IInv, TypeOK, PcOK, Labels
  <1>3. CreatorsApart'
    BY DEF IInv, CreatorsApart, Creator
  <1>4. StagesFollow'
    BY DEF IInv, StagesFollow
  <1>5. NameIsYoungest' /\ NameKept'
    BY DEF IInv, NameIsYoungest, NameKept, Creator
  <1>6. InitProgress'
    <2> SUFFICES ASSUME NEW q \in Procs, pc[q] \in {"magic", "created"}, next'[q] \in 1..(Len(Types) + 1)
                 PROVE  Kept(values[at[q]], next[q])'
      BY DEF InitProgress
    <2>1. CASE q # p
      <3>1. at[q] # at[p] /\ at[q] \in 1..made /\ at[p] \in 1..made
        BY <2>1 DEF IInv, TypeOK, CreatorsApart, Creator, Segments
      <3>2. values'[at[q]] = values[at[q]] /\ next'[q] = next[q]
        BY <2>1, <3>1 DEF IInv, TypeOK, Segments
      <3> QED
        BY <3>2 DEF IInv, InitProgress, Kept, Origin, DefaultAt, RestoringTo, Restoring, Restored, Numbers
    <2>2. CASE q = p
      <3>1. at[p] \in 1..made /\ next[p] \in 1..Len(Types) /\ next'[p] = next[p] + 1
        BY DEF IInv, TypeOK, Segments, Numbers
      <3>2. Kept(values[at[p]], next[p])
        BY <3>1 DEF IInv, InitProgress
      <3>3. values'[at[p]] = values[at[p]]
        BY <3>1 DEF IInv, TypeOK, Segments
      <3>4. RestoringTo(next[p] + 1) = RestoringTo(next[p])
        BY <3>1 DEF RestoringTo, Restoring, Numbers
      <3>5. \A j \in Numbers : DefaultAt(j, next[p] + 1) <=> DefaultAt(j, next[p])
        BY <3>1, <3>4 DEF DefaultAt, Numbers
      <3>6. Kept(values'[at[p]], next[p] + 1)
        BY <3>2, <3>3, <3>4, <3>5 DEF Kept, Origin
      <3> QED
        BY <2>2, <3>1, <3>6 DEF Kept, Origin, DefaultAt, RestoringTo, Restoring, Restored
    <2> QED
      BY <2>1, <2>2
  <1> QED
    BY <1>1, <1>2, <1>3, <1>4, <1>5, <1>6 DEF IInv

\* What nobody does leaves the invariant as it is.
LEMMA StutterKeeps == ASSUME IInv, UNCHANGED vars PROVE IInv'
  <1> USE DEF vars, segments, config
  <1>1. TypeOK' /\ PcOK'
    BY DEF IInv, TypeOK, PcOK, Segments
  <1>2. CreatorsApart' /\ StagesFollow' /\ NameIsYoungest' /\ NameKept'
    BY DEF IInv, CreatorsApart, Creator, StagesFollow, NameIsYoungest, NameKept
  <1>3. InitProgress'
    BY DEF IInv, InitProgress, Kept, Origin, DefaultAt, RestoringTo, Restoring, Restored, Numbers
  <1> QED
    BY <1>1, <1>2, <1>3 DEF IInv

LEMMA StepIInv == IInv /\ [Next]_vars => IInv'
  <1> SUFFICES ASSUME IInv, [Next]_vars PROVE IInv'
    OBVIOUS
  <1>1. CASE Next
    <2> PICK p \in Procs :
          \/ Create(p) \/ CreateMagic(p) \/ CreateDone(p) \/ Connect(p)
          \/ DestroyLock(p) \/ DestroyName(p) \/ Disconnect(p) \/ Crash(p)
          \/ \E i \in Numbers : SetPoint(p, i)
          \/ InitRestore(p) \/ InitFails(p) \/ InitDefaults(p) \/ InitOther(p)
      BY <1>1 DEF Next
    <2>1. CASE Create(p)
      BY <2>1, CreateKeeps
    <2>2. CASE CreateMagic(p)
      BY <2>2, CreateMagicKeeps
    <2>3. CASE CreateDone(p)
      BY <2>3, CreateDoneKeeps
    <2>4. CASE Connect(p)
      BY <2>4, ConnectKeeps
    <2>5. CASE DestroyLock(p)
      BY <2>5, DestroyLockKeeps
    <2>6. CASE DestroyName(p)
      BY <2>6, DestroyNameKeeps
    <2>7. CASE Disconnect(p)
      BY <2>7, DisconnectKeeps
    <2>8. CASE Crash(p)
      BY <2>8, CrashKeeps
    <2>9. CASE \E i \in Numbers : SetPoint(p, i)
      BY <2>9, SetPointKeeps
    <2>10. CASE InitRestore(p)
      BY <2>10, InitRestoreKeeps
    <2>11. CASE InitFails(p)
      BY <2>11, InitFailsKeeps
    <2>12. CASE InitDefaults(p)
      BY <2>12, InitDefaultsKeeps
    <2>13. CASE InitOther(p)
      BY <2>13, InitOtherKeeps
    <2> QED
      BY <2>1, <2>2, <2>3, <2>4, <2>5, <2>6, <2>7, <2>8, <2>9, <2>10, <2>11, <2>12, <2>13
  <1>2. CASE UNCHANGED vars
    BY <1>2, StutterKeeps
  <1> QED
    BY <1>1, <1>2

------------------------------------------------------------------------------
\* IInv holds in every state that create, connect, destroy, disconnect and
\* initialize reach.
THEOREM Invariance == Spec => []IInv
  BY InitIInv, StepIInv, PTL DEF Spec

\* The variables keep their types, and a process maps a segment exactly while it
\* is in a call or connected.
THEOREM TypeCorrect == Spec => []TypeOK
  <1>1. IInv => TypeOK
    BY DEF IInv
  <1> QED
    BY <1>1, Invariance, PTL

\* connect finds the segment of the youngest create, once its creator is done and as
\* long as no older creator has shut down since.
THEOREM YoungestIsFound == Spec => []NameFindsYoungest
  <1>1. IInv => NameFindsYoungest
    BY DEF IInv, NameKept, StagesFollow, NameFindsYoungest, Creator
  <1> QED
    BY <1>1, Invariance, PTL

\* After an initialize that ended well, a type has what the last restore of any type
\* brought, whatever its own mode, unless its defaults were set after that restore or
\* a connected process has set it.
THEOREM RestoresWin == Spec => []LastRestoreWins
  <1>1. IInv => LastRestoreWins
    <2> SUFFICES ASSUME IInv, NEW p \in Procs, pc[p] = "created", next[p] = Len(Types) + 1,
                        snapshot # "empty", NEW i \in Numbers
                 PROVE  LET byDefault == i \in Indexed /\ mode[i] # "OTHER" /\ \A j \in Restoring : j < i
                        IN  values[at[p]][i] \in
                              {IF byDefault THEN "default" ELSE IF Restoring = {} THEN "zero" ELSE Restored, "set"}
      BY DEF LastRestoreWins
    <2>1. Kept(values[at[p]], Len(Types) + 1)
      BY StartupAssumption DEF IInv, InitProgress
    <2>2. RestoringTo(Len(Types) + 1) = Restoring
      BY StartupAssumption DEF Numbers, RestoringTo, Restoring
    <2>3. i < Len(Types) + 1
      BY StartupAssumption DEF Numbers
    <2> QED
      BY <2>1, <2>2, <2>3 DEF Kept, Origin, DefaultAt
  <1> QED
    BY <1>1, Invariance, PTL

\* No step zeroes what a connected process uses, neither a create of the same name nor
\* the rest of the create that let it in; restores and defaults may overwrite it.
THEOREM NothingIsWiped == Spec => NeverWiped
  <1> DEFINE Unwiped(q) == /\ stage'[at[q]] # "empty"
                        /\ \A i \in Numbers : values'[at[q]][i] = "zero" => values[at[q]][i] = "zero"
  <1>1. ASSUME IInv, [Next]_vars, NEW q \in Procs, pc[q] = "connected" PROVE Unwiped(q)
    <2>1. at[q] \in 1..made /\ stage[at[q]] # "empty"
      BY <1>1 DEF IInv, TypeOK, StagesFollow, Segments
    <2>2. CASE UNCHANGED vars
      BY <2>1, <2>2 DEF vars, segments
    <2>3. ASSUME NEW p \in Procs, Create(p) PROVE Unwiped(q)
      BY <1>1, <2>1, <2>3, CreateAdds
    <2>4. ASSUME NEW p \in Procs, CreateMagic(p) PROVE Unwiped(q)
      <3>1. at[p] # at[q] /\ at[p] \in 1..made
        BY <1>1, <2>1, <2>4 DEF IInv, TypeOK, StagesFollow, Segments, CreateMagic
      <3> QED
        BY <1>1, <2>1, <2>4, <3>1 DEF IInv, TypeOK, Segments, CreateMagic
    <2>5. ASSUME NEW p \in Procs, CreateDone(p) \/ DestroyLock(p) PROVE Unwiped(q)
      BY <1>1, <2>1, <2>5 DEF IInv, TypeOK, Segments, CreateDone, DestroyLock
    <2>6. ASSUME NEW p \in Procs,
                 Connect(p) \/ DestroyName(p) \/ Disconnect(p) \/ Crash(p) \/ InitFails(p)
          PROVE  Unwiped(q)
      BY <2>1, <2>6 DEF segments, Connect, DestroyName, Disconnect, Crash, InitFails
    <2>7. ASSUME NEW p \in Procs, NEW i \in Numbers, SetPoint(p, i) PROVE Unwiped(q)
      BY <1>1, <2>1, <2>7 DEF IInv, TypeOK, Segments, segments, SetPoint
    <2>8. ASSUME NEW p \in Procs, InitRestore(p) \/ InitDefaults(p) \/ InitOther(p) PROVE Unwiped(q)
      <3>1. PICK v : InitNext(p, v) /\ \A i \in Numbers : v[i] = "zero" => values[at[p]][i] = "zero"
        <4>1. CASE InitRestore(p)
          BY <4>1 DEF InitRestore, Restored
        <4>2. CASE InitDefaults(p)
          <5>1. values[at[p]] \in [Numbers -> Origins]
            BY <1>1, <4>2 DEF IInv, TypeOK, Segments, Origins, InitDefaults, Initializes
          <5>2. \A i \in Numbers : Defaults(values[at[p]], next[p])[i] = "zero" => values[at[p]][i] = "zero"
            BY <5>1 DEF Defaults
          <5> QED
            BY <4>2, <5>2 DEF InitDefaults
        <4>3. CASE InitOther(p)
          BY <4>3 DEF InitOther
        <4> QED
          BY <2>8, <4>1, <4>2, <4>3
      <3> QED
        BY <1>1, <2>1, <3>1 DEF IInv, TypeOK, Segments, segments, InitNext
    <2> QED
      BY <1>1, <2>2, <2>3, <2>4, <2>5, <2>6, <2>7, <2>8 DEF Next
  <1>2. IInv /\ [Next]_vars =>
          [\A p \in Procs : pc[p] = "connected" =>
             /\ stage'[at[p]] # "empty"
             /\ \A i \in Numbers : values'[at[p]][i] = "zero" => values[at[p]][i] = "zero"]_vars
    BY <1>1
  <1> QED
    BY <1>2, Invariance, PTL DEF Spec, NeverWiped

=============================================================================
