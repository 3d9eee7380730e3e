----------------------------- MODULE VotingProofs -----------------------------
(***************************************************************************)
(* Theorems about Voting, for any points, values, threads, groups and      *)
(* limits.  Whatever votes and changes of groups come between, the event   *)
(* that a call owes is about the value it stored, as long as it has the    *)
(* point to itself; whether it comes is the ring's and the thread's        *)
(* affair.  And however groups are added, removed, moved and configured    *)
(* anew between the steps of votes, outputs, counts and alarms stay with   *)
(* their group, unless a vote goes on with a slot or count that was        *)
(* changed, or a group gets another's name.  Two sources that agree and do *)
(* not change carry a vote whatever the third does, unless the groups      *)
(* change under it.                                                        *)
(***************************************************************************)
EXTENDS Voting, FiniteSetTheorems, TLAPS

------------------------------------------------------------------------------
(* Points and events.                                                      *)

\* A call that stores is under way for r about p.
About(r, p) == report[r] # None /\ report[r].point = p

Reports == {None} \cup [point : Points, value : Nat]

ReportsOK ==
  /\ report \in [Reporters -> Reports]
  /\ points \in [Points -> Values]
  /\ event \in [Points -> Nat]
  /\ crossed \in [Points -> BOOLEAN] /\ untold \in [Points -> BOOLEAN]

\* The calls about a point that has not been crossed are one at most, and it has
\* stored the value it is to report.
OneOwes ==
  \A p \in Points : ~crossed[p] =>
    \A r \in Reporters : About(r, p) =>
      /\ report[r].value = points[p].value
      /\ \A q \in Reporters : About(q, p) => q = r

IInv == ReportsOK /\ OneOwes /\ LastEventAgrees

------------------------------------------------------------------------------
LEMMA InitIInv == Init => IInv
  <1> SUFFICES ASSUME Init PROVE IInv
    OBVIOUS
  <1>1. points \in [Points -> Values]
    BY VotingAssumption DEF Init
  <1>2. \A p \in Points : points[p].value \in Nat
    BY <1>1, VotingAssumption
  <1>3. event = [p \in Points |-> points[p].value] /\ report = [r \in Reporters |-> None]
    BY DEF Init
  <1>4. ReportsOK
    BY <1>1, <1>2, <1>3 DEF ReportsOK, Reports, Init
  <1>5. OneOwes /\ LastEventAgrees
    BY <1>3 DEF OneOwes, About, LastEventAgrees
  <1> QED
    BY <1>4, <1>5 DEF IInv

\* The store: from now on this call owes the event.
LEMMA SetKeeps ==
  ASSUME IInv, NEW r \in Reporters, NEW p \in Points, NEW x \in Values, ReportSet(r, p, x)
  PROVE  IInv'
  <1> DEFINE owed == [point |-> p, value |-> x.value]
  <1>1. /\ points' = [points EXCEPT ![p] = x]
        /\ report' = [report EXCEPT ![r] = owed]
        /\ crossed' = [crossed EXCEPT ![p] = \E q \in Reporters \ {r} : About(q, p)]
        /\ UNCHANGED <<event, untold>> /\ report[r] = None
    BY DEF ReportSet, About
  <1>2. x.value \in Nat /\ owed \in Reports /\ owed.point = p /\ owed.value = x.value /\ owed # None
    BY VotingAssumption DEF Reports
  <1> HIDE DEF owed
  <1>3. ReportsOK'
    BY <1>1, <1>2 DEF IInv, ReportsOK
  <1>4. /\ report'[r] = owed /\ \A q \in Reporters \ {r} : report'[q] = report[q]
        /\ points'[p] = x /\ \A u \in Points \ {p} : points'[u] = points[u] /\ crossed'[u] = crossed[u]
        /\ crossed'[p] <=> \E q \in Reporters \ {r} : About(q, p)
    BY <1>1 DEF IInv, ReportsOK
  <1>5. OneOwes'
    BY <1>1, <1>2, <1>4 DEF IInv, OneOwes, About
  <1>6. LastEventAgrees'
    BY <1>1, <1>2, <1>4 DEF IInv, LastEventAgrees
  <1> QED
    BY <1>3, <1>5, <1>6 DEF IInv

\* The event, or none: nothing is owed about this point any more.
LEMMA OwesNoMore ==
  ASSUME IInv, NEW r \in Reporters, report[r] # None, NEW tells \in BOOLEAN,
         report' = [report EXCEPT ![r] = None],
         event' = IF tells THEN [event EXCEPT ![report[r].point] = report[r].value] ELSE event,
         untold' = [untold EXCEPT ![report[r].point] = ~tells],
         UNCHANGED <<points, crossed>>
  PROVE  IInv'
  <1> DEFINE p == report[r].point
  <1>1. p \in Points /\ report[r].value \in Nat /\ About(r, p)
    BY DEF IInv, ReportsOK, Reports, About
  <1>2. /\ event' = IF tells THEN [event EXCEPT ![p] = report[r].value] ELSE event
        /\ untold' = [untold EXCEPT ![p] = ~tells]
    OBVIOUS
  <1> HIDE DEF p
  <1>3. /\ untold' \in [Points -> BOOLEAN] /\ (untold'[p] <=> ~tells)
        /\ \A u \in Points \ {p} : untold'[u] = untold[u]
    <2>1. untold \in [Points -> BOOLEAN]
      BY DEF IInv, ReportsOK
    <2> QED
      BY <1>1, <1>2, <2>1, Zenon
  <1>4. /\ event' \in [Points -> Nat] /\ (tells => event'[p] = report[r].value)
        /\ \A u \in Points \ {p} : event'[u] = event[u]
    BY <1>1, <1>2 DEF IInv, ReportsOK
  <1>5. report'[r] = None /\ \A q \in Reporters \ {r} : report'[q] = report[q]
    BY DEF IInv, ReportsOK
  <1>6. ReportsOK'
    BY <1>3, <1>4 DEF IInv, ReportsOK, Reports
  <1>7. OneOwes'
    BY <1>5 DEF IInv, OneOwes, About
  <1>8. LastEventAgrees'
    <2> SUFFICES ASSUME NEW u \in Points, ~crossed[u], ~untold'[u],
                        \A q \in Reporters : report'[q] # None => report'[q].point # u
                 PROVE  event'[u] = points[u].value
      BY DEF LastEventAgrees
    <2>1. CASE u = p
      BY <1>1, <1>3, <1>4, <2>1 DEF IInv, OneOwes
    <2>2. CASE u # p
      <3>1. \A q \in Reporters : report[q] # None => report[q].point # u
        BY <1>1, <1>5, <2>2 DEF About
      <3> QED
        BY <1>3, <1>4, <2>2, <3>1 DEF IInv, LastEventAgrees
    <2> QED
      BY <2>1, <2>2
  <1> QED
    BY <1>6, <1>7, <1>8 DEF IInv

LEMMA PublishKeeps ==
  ASSUME IInv, NEW r \in Reporters, ReportPublish(r) \/ ReportRefused(r) \/ ReportDies(r)
  PROVE  IInv'
  <1>1. ASSUME ReportPublish(r) PROVE IInv'
    <2>1. /\ report[r] # None /\ report' = [report EXCEPT ![r] = None]
          /\ event' = [event EXCEPT ![report[r].point] = report[r].value]
          /\ untold' = [untold EXCEPT ![report[r].point] = ~TRUE]
          /\ UNCHANGED <<points, crossed>>
      BY <1>1 DEF ReportPublish
    <2> QED
      BY <2>1, OwesNoMore
  <1>2. ASSUME Unpublished(r) PROVE IInv'
    <2>1. /\ report[r] # None /\ report' = [report EXCEPT ![r] = None]
          /\ untold' = [untold EXCEPT ![report[r].point] = ~FALSE]
          /\ UNCHANGED <<points, event, crossed>>
      BY <1>2 DEF Unpublished
    <2> QED
      BY <2>1, OwesNoMore
  <1> QED
    BY <1>1, <1>2 DEF ReportRefused, ReportDies

\* Votes and changes of groups leave points and events alone.
LEMMA OthersKeep == ASSUME IInv, UNCHANGED pool PROVE IInv'
  BY DEF IInv, ReportsOK, OneOwes, About, LastEventAgrees, pool

LEMMA StepIInv == IInv /\ [Next]_vars => IInv'
  <1> SUFFICES ASSUME IInv, [Next]_vars PROVE IInv'
    OBVIOUS
  <1>1. ASSUME NEW r \in Reporters, NEW p \in Points, NEW x \in Values, ReportSet(r, p, x)
        PROVE  IInv'
    BY <1>1, SetKeeps
  <1>2. ASSUME NEW r \in Reporters, ReportPublish(r) \/ ReportRefused(r) \/ ReportDies(r)
        PROVE  IInv'
    BY <1>2, PublishKeeps
  <1>3. ASSUME NEW v \in Voters,
               \/ \E g \in Groups : VoteStart(v, g)
               \/ VoteRead(v) \/ VoteFind(v) \/ VoteNotFound(v) \/ VoteDecide(v) \/ VoteStore(v)
        PROVE  IInv'
    BY <1>3, OthersKeep DEF VoteStart, VoteRead, VoteFind, VoteNotFound, VoteDecide, VoteStore
  <1>4. ASSUME NEW g \in Groups,
               \/ \E config \in Configs[kind] :
                    AddCount(g, config) \/ \E h \in Groups : Update(g, h, config)
               \/ Remove(g)
        PROVE  IInv'
    BY <1>4, OthersKeep DEF AddCount, Update, Remove
  <1>5. CASE AddConfig \/ AddOutput \/ RemoveMove \/ RemoveCount \/ UNCHANGED vars
    BY <1>5, OthersKeep DEF AddConfig, AddOutput, RemoveMove, RemoveCount, vars
  <1> QED
    BY <1>1, <1>2, <1>3, <1>4, <1>5 DEF Next

------------------------------------------------------------------------------
\* When every call that sets a point has published its event, the last event about
\* the point tells its value, unless the last calls ran beside each other, or the last one's
\* event was refused by the ring or lost with its thread.
THEOREM LastEventIsRight == Spec => []LastEventAgrees
  <1>1. IInv => LastEventAgrees
    BY DEF IInv
  <1> QED
    BY <1>1, InitIInv, StepIInv, PTL DEF Spec

------------------------------------------------------------------------------
(* Runs of severe votes.  The invariant says of every slot whose group is  *)
(* in place that output, count and alarm are of this group, and of every   *)
(* vote that nothing disturbed since it found its slot that slot and count *)
(* still are its group's.                                                  *)

\* Slots whose group and output are in place while groups change: all but the last, which
\* is being filled or given up.  Until it is moved, the output of a slot that becomes free
\* is the last one.
Settled == IF admin.pc = "idle" THEN 1..groupCount ELSE 1..(groupCount - 1)
OutputAt(i) == IF admin.pc = "move" /\ i = admin.slot THEN outputs[groupCount] ELSE outputs[i]

\* The alarm callback has been called in a run exactly if a vote has made it as long as the
\* limit then was; and it has been called before the byte of the count wraps, whatever the
\* limits were, be it for a vote that has still to be stored.
Storing(g) == {v \in Voters : call[v].pc = "store" /\ call[v].group = g}
Undisturbed(g) == \A v \in Storing(g) : ~call[v].stale
Long(n) == n > 0 /\ n >= CountWidth - 1
Alarms(g) ==
  /\ alarmed[g] = reached[g]
  /\ Long(run[g]) => alarmed[g]
  /\ \A v \in Storing(g) : call[v].out.level = "SEVERE" /\ Long(run[g] + 1) => alarmed[g]
AlarmsTell(g) == Undisturbed(g) => Alarms(g)

\* What a decision makes of the count it found.
IsOver(out) == out.level = "NONE" /\ out.result # "INSUFFICIENT"
Decided(out, c) ==
  /\ out.group = c.group
  /\ out.level = "SEVERE" => out.count = (c.prev + 1) % CountWidth
  /\ IsOver(out) => out.count = 0
  /\ out.level # "SEVERE" /\ ~IsOver(out) => out.count = c.prev

SlotTells(i) ==
  /\ configs[i].group \in Groups
  /\ OutputAt(i).group = configs[i].group
  /\ OutputAt(i).count = run[configs[i].group] % CountWidth
  /\ AlarmsTell(configs[i].group)
SlotsTell ==
  /\ \A i \in Settled : SlotTells(i)
  /\ \A i, j \in Settled : configs[i].group = configs[j].group => i = j

AdminAt ==
  /\ admin.pc \in {"idle", "config", "output", "move", "uncount"}
  /\ admin.pc # "idle" => groupCount > 0
  /\ admin.pc \in {"config", "output"} =>
       /\ admin.slot = groupCount /\ admin.group \in Groups
       /\ \A i \in Settled : configs[i].group # admin.group
  /\ admin.pc = "output" => configs[groupCount].group = admin.group
  /\ admin.pc = "move" => admin.slot \in 1..groupCount

\* A vote that nothing disturbed since it found its slot has found its own group's, and the
\* count of this group's run.
Holds(v) ==
  /\ admin.pc = "idle" /\ call[v].slot \in 1..groupCount
  /\ configs[call[v].slot].group = call[v].group
  /\ call[v].prev = run[call[v].group] % CountWidth
VoterAt(v) ==
  /\ call[v].pc # "idle" => call[v].group \in Groups
  /\ Found(v) /\ ~call[v].stale => Holds(v)
  /\ call[v].pc = "store" => Decided(call[v].out, call[v])

\* The variables are the functions and records they are taken for.
CallShaped(c) ==
  c = [pc |-> c.pc, group |-> c.group, keys |-> c.keys, got |-> c.got, slot |-> c.slot,
       prev |-> c.prev, out |-> c.out, moved |-> c.moved, stale |-> c.stale]
EntryShaped(e) == e = [group |-> e.group, config |-> e.config]
Shapes ==
  /\ groupCount \in 0..MaxGroups
  /\ configs = [i \in 1..MaxGroups |-> configs[i]] /\ \A i \in 1..MaxGroups : EntryShaped(configs[i])
  /\ outputs = [i \in 1..MaxGroups |-> outputs[i]]
  /\ admin = [pc |-> admin.pc, group |-> admin.group, config |-> admin.config, slot |-> admin.slot]
  /\ call = [v \in Voters |-> call[v]] /\ \A v \in Voters : CallShaped(call[v])
  /\ run \in [Groups -> Nat] /\ alarmed \in [Groups -> BOOLEAN] /\ reached \in [Groups -> BOOLEAN]

Tells == Shapes /\ AdminAt /\ SlotsTell /\ \A v \in Voters : VoterAt(v)
RunInv == ~mixed => Tells

\* The rest of a division is the only one.
LEMMA OneRest ==
  ASSUME NEW q \in Nat, NEW r \in 0..(CountWidth - 1)
  PROVE  (CountWidth * q + r) % CountWidth = r
  <1> DEFINE n == CountWidth * q + r
             d == n \div CountWidth
             m == n % CountWidth
  <1>1. CountWidth \in Nat \ {0} /\ n \in Nat
    BY VotingAssumption
  <1>2. n = CountWidth * d + m /\ m \in 0..(CountWidth - 1) /\ d \in Int
    BY <1>1
  <1>3. CountWidth * q + r = CountWidth * d + m
    BY <1>2
  <1> HIDE DEF n, d, m
  <1>4. CASE q = d
    <2>1. r = m
      BY <1>1, <1>2, <1>3, <1>4
    <2> QED
      BY <2>1 DEF m, n
  <1>5. CASE q > d
    <2>1. q - d >= 1 /\ q - d \in Nat
      BY <1>2, <1>5
    <2>2. CountWidth * (q - d) = m - r
      BY <1>1, <1>2, <1>3
    <2>3. CountWidth * (q - d) >= CountWidth
      BY <1>1, <2>1
    <2> QED
      BY <1>1, <1>2, <2>2, <2>3
  <1>6. CASE q < d
    <2>1. d - q >= 1 /\ d - q \in Nat
      BY <1>2, <1>6
    <2>2. CountWidth * (d - q) = r - m
      BY <1>1, <1>2, <1>3
    <2>3. CountWidth * (d - q) >= CountWidth
      BY <1>1, <2>1
    <2> QED
      BY <1>1, <1>2, <2>2, <2>3
  <1> QED
    BY <1>2, <1>4, <1>5, <1>6

\* What a byte holds of a number, and of the next.
LEMMA BytesCount ==
  ASSUME NEW n \in Nat
  PROVE  /\ n % CountWidth \in Nat /\ n % CountWidth <= n
         /\ n < CountWidth => n % CountWidth = n
         /\ ((n % CountWidth) + 1) % CountWidth = (n + 1) % CountWidth
  <1> DEFINE q == n \div CountWidth
             m == n % CountWidth
  <1>1. CountWidth \in Nat \ {0}
    BY VotingAssumption
  <1>2. n = CountWidth * q + m /\ m \in 0..(CountWidth - 1) /\ q \in Int
    BY <1>1
  <1>3. q \in Nat
    <2>1. q < 0 => CountWidth * q <= - CountWidth
      BY <1>1, <1>2
    <2> HIDE DEF q, m
    <2> QED
      BY <1>1, <1>2, <2>1
  <1> HIDE DEF q, m
  <1>4. m \in Nat /\ m <= n
    <2>1. CountWidth * q \in Nat
      BY <1>1, <1>3
    <2> QED
      BY <1>1, <1>2, <2>1
  <1>5. n < CountWidth => m = n
    <2> SUFFICES ASSUME n < CountWidth PROVE m = n
      OBVIOUS
    <2>1. (CountWidth * 0 + n) % CountWidth = n
      BY <1>1, OneRest
    <2>2. CountWidth * 0 + n = n
      BY <1>1
    <2> QED
      BY <2>1, <2>2 DEF m
  <1>6. (m + 1) % CountWidth = (n + 1) % CountWidth
    <2>1. CASE m + 1 < CountWidth
      <3>1. m + 1 \in 0..(CountWidth - 1)
        BY <1>1, <1>2, <2>1
      <3>2. (CountWidth * q + (m + 1)) % CountWidth = m + 1
        BY <1>3, <3>1, OneRest
      <3>3. (CountWidth * 0 + (m + 1)) % CountWidth = m + 1
        BY <3>1, OneRest
      <3>4. CountWidth * q + (m + 1) = n + 1 /\ CountWidth * 0 + (m + 1) = m + 1
        BY <1>1, <1>2, <1>3
      <3> QED
        BY <3>2, <3>3, <3>4
    <2>2. CASE m + 1 = CountWidth
      <3>1. (CountWidth * (q + 1) + 0) % CountWidth = 0 /\ (CountWidth * 1 + 0) % CountWidth = 0
        BY <1>1, <1>3, OneRest
      <3>2. CountWidth * (q + 1) + 0 = n + 1 /\ CountWidth * 1 + 0 = m + 1
        BY <1>1, <1>2, <1>3, <2>2
      <3> QED
        BY <3>1, <3>2
    <2> QED
      BY <1>1, <1>2, <2>1, <2>2
  <1> QED
    BY <1>4, <1>5, <1>6 DEF m

\* A byte holds nothing of nothing.
LEMMA ZeroHeld == 0 % CountWidth = 0
  BY BytesCount, VotingAssumption

\* A vote is where it was: what it found and decided, and whether it was disturbed.
Same(v) ==
  /\ call'[v].pc = call[v].pc /\ call'[v].group = call[v].group /\ call'[v].slot = call[v].slot
  /\ call'[v].prev = call[v].prev /\ call'[v].out = call[v].out /\ call'[v].stale = call[v].stale

\* The group that has been added at first has an empty run.
LEMMA InitRunInv == Init => RunInv
  <1> SUFFICES ASSUME Init PROVE Tells
    BY DEF RunInv
  <1>1. PICK g \in Groups, config \in Configs[kind] :
          /\ configs = [i \in 1..MaxGroups |->
                          IF i = 1 THEN [group |-> g, config |-> config] ELSE NoConfig]
          /\ outputs = [i \in 1..MaxGroups |-> NoOutput(IF i = 1 THEN g ELSE None)]
    BY DEF Init
  <1>2. /\ groupCount = 1 /\ 1 \in 1..MaxGroups /\ admin = Unchanging
        /\ call = [v \in Voters |-> Idle]
        /\ run = [h \in Groups |-> 0] /\ alarmed = [h \in Groups |-> FALSE]
        /\ reached = [h \in Groups |-> FALSE]
    BY VotingAssumption DEF Init
  <1>3. configs[1].group = g /\ outputs[1].group = g /\ outputs[1].count = 0
    BY <1>1, <1>2 DEF NoOutput
  <1>4. CallShaped(Idle) /\ Idle.pc = "idle"
    BY DEF CallShaped, Idle
  <1>5. Shapes
    <2>1. configs = [i \in 1..MaxGroups |-> configs[i]] /\ \A i \in 1..MaxGroups : EntryShaped(configs[i])
      BY <1>1 DEF NoConfig, EntryShaped
    <2>2. admin = [pc |-> admin.pc, group |-> admin.group, config |-> admin.config, slot |-> admin.slot]
      BY <1>2 DEF Unchanging
    <2> QED
      BY <1>1, <1>2, <1>4, <2>1, <2>2 DEF Shapes
  <1>6. AdminAt /\ Settled = {1}
    BY <1>2 DEF AdminAt, Unchanging, Settled
  <1>7. AlarmsTell(g)
    BY <1>2, <1>4 DEF AlarmsTell, Alarms, Storing, Long
  <1>8. SlotsTell
    BY <1>2, <1>3, <1>6, <1>7, ZeroHeld DEF SlotsTell, SlotTells, OutputAt, Unchanging
  <1>9. \A v \in Voters : VoterAt(v)
    BY <1>2, <1>4 DEF VoterAt, Found
  <1> QED
    BY <1>5, <1>6, <1>8, <1>9 DEF Tells

------------------------------------------------------------------------------
\* Votes that have not decided yet do not touch what is told of the slots.
LEMMA StillTells ==
  ASSUME Tells, Shapes', UNCHANGED <<engine, admin, run, reached, alarmed>>,
         \A w \in Voters : \/ Same(w)
                           \/ call[w].pc # "store" /\ call'[w].pc # "store" /\ VoterAt(w)'
  PROVE  Tells'
  <1>1. UNCHANGED <<groupCount, configs, outputs, admin, run, reached, alarmed>>
    BY DEF engine
  <1>2. AdminAt' /\ Settled' = Settled
    BY <1>1 DEF Tells, AdminAt, Settled
  <1>3. \A w \in Voters : VoterAt(w)'
    BY <1>1 DEF Tells, VoterAt, Found, Holds, Decided, IsOver, Same
  <1>4. \A g \in Groups : Storing(g)' = Storing(g) /\ \A w \in Storing(g) : Same(w)
    BY DEF Storing, Same
  <1>5. \A g \in Groups : AlarmsTell(g) => AlarmsTell(g)'
    BY <1>1, <1>4 DEF AlarmsTell, Alarms, Undisturbed, Same, Storing
  <1>6. SlotsTell'
    BY <1>1, <1>2, <1>5 DEF Tells, SlotsTell, SlotTells, OutputAt
  <1> QED
    BY <1>2, <1>3, <1>6 DEF Tells

\* A report that is stored is noted in the votes that go on meanwhile.
LEMMA ReportTells ==
  ASSUME Tells, NEW r \in Reporters, NEW p \in Points, NEW x \in Values, ReportSet(r, p, x)
  PROVE  Tells'
  <1>1. /\ call' = [v \in Voters |-> IF call[v].pc = "idle" THEN call[v]
                                     ELSE [call[v] EXCEPT !.moved = @ \cup {p}]]
        /\ UNCHANGED <<engine, admin, ghosts>>
    BY DEF ReportSet
  <1>2. ASSUME NEW v \in Voters PROVE Same(v) /\ CallShaped(call'[v])
    <2>1. CallShaped(call[v])
      BY DEF Tells, Shapes
    <2>2. CASE call[v].pc = "idle"
      BY <1>1, <2>1, <2>2 DEF Same
    <2>3. CASE call[v].pc # "idle"
      BY <1>1, <2>1, <2>3 DEF Same, CallShaped
    <2> QED
      BY <2>2, <2>3
  <1>3. Shapes'
    BY <1>1, <1>2 DEF Tells, Shapes, engine, ghosts
  <1> QED
    BY <1>1, <1>2, <1>3, StillTells DEF ghosts

\* The steps of a vote up to its decision.
LEMMA VoteGoes ==
  ASSUME Tells, NEW v \in Voters, NEW c, Goes(v, c), CallShaped(c),
         UNCHANGED <<engine, admin, ghosts>>, call[v].pc # "store", c.pc # "store",
         c.pc # "idle" => c.group \in Groups,
         c.pc = "vote" /\ ~c.stale =>
           /\ admin.pc = "idle" /\ c.slot \in 1..groupCount
           /\ configs[c.slot].group = c.group /\ c.prev = run[c.group] % CountWidth
  PROVE  Tells'
  <1>1. /\ call' = [w \in Voters |-> IF w = v THEN c ELSE call[w]]
        /\ UNCHANGED <<groupCount, configs, outputs, admin, run, reached, alarmed>>
    BY DEF Tells, Shapes, Goes, engine, ghosts
  <1>2. Shapes'
    BY <1>1 DEF Tells, Shapes
  <1>3. call'[v] = c /\ \A w \in Voters \ {v} : Same(w)
    BY <1>1 DEF Same
  <1>4. VoterAt(v)'
    BY <1>1, <1>3 DEF VoterAt, Found, Holds
  <1> QED
    BY <1>2, <1>3, <1>4, StillTells DEF ghosts

\* Looking the group up, reading a source, giving up.
LEMMA EarlyVoteTells ==
  ASSUME Tells, NEW v \in Voters,
         (\E g \in Groups : VoteStart(v, g)) \/ VoteRead(v) \/ VoteNotFound(v)
  PROVE  Tells'
  <1>1. CallShaped(call[v]) /\ VoterAt(v)
    BY DEF Tells, Shapes
  <1>2. CASE \E g \in Groups : VoteStart(v, g)
    <2>1. PICK g \in Groups : VoteStart(v, g)
      BY <1>2
    <2> DEFINE keys == configs[SlotOf(g)].config.keys
               a == [Idle EXCEPT !.pc = "read"]
               b == [a EXCEPT !.group = g]
               c == [b EXCEPT !.keys = keys]
    <2>2. Goes(v, c) /\ UNCHANGED <<engine, admin, ghosts>> /\ call[v].pc = "idle"
      BY <2>1 DEF VoteStart
    <2> HIDE DEF keys
    <2>3. CallShaped(c) /\ c.pc = "read" /\ c.group = g
      <3>0. CallShaped(a) /\ a.pc = "read"
        <4>1. CallShaped(Idle)
          BY DEF CallShaped, Idle
        <4> QED
          BY <4>1 DEF CallShaped
      <3> HIDE DEF a
      <3>1. CallShaped(b) /\ b.pc = "read" /\ b.group = g
        BY <3>0 DEF CallShaped
      <3> HIDE DEF b
      <3> QED
        BY <3>1 DEF CallShaped
    <2> HIDE DEF c
    <2> QED
      BY <2>2, <2>3, VoteGoes
  <1>3. CASE VoteRead(v)
    <2> DEFINE i == Len(call[v].got) + 1
               x == points[call[v].keys[i]]
               got == Append(call[v].got, x)
               b == [call[v] EXCEPT !.got = got]
               c == [b EXCEPT !.pc = IF i = 3 THEN "find" ELSE @]
    <2>1. Goes(v, c) /\ UNCHANGED <<engine, admin, ghosts>> /\ call[v].pc = "read"
      BY <1>3 DEF VoteRead
    <2> HIDE DEF i, x, got
    <2>2. CallShaped(c) /\ c.pc \in {"read", "find"} /\ c.group = call[v].group
      <3>1. CallShaped(b) /\ b.pc = "read" /\ b.group = call[v].group
        BY <1>1, <2>1 DEF CallShaped
      <3> HIDE DEF b
      <3> QED
        BY <3>1 DEF CallShaped
    <2>3. c.group \in Groups
      BY <1>1, <2>1, <2>2 DEF VoterAt
    <2> HIDE DEF c
    <2> QED
      BY <2>1, <2>2, <2>3, VoteGoes
  <1>4. CASE VoteNotFound(v)
    <2>1. CallShaped(Idle) /\ Idle.pc = "idle"
      BY DEF CallShaped, Idle
    <2>2. Goes(v, Idle) /\ UNCHANGED <<engine, admin, ghosts>> /\ call[v].pc = "find"
      BY <1>4 DEF VoteNotFound
    <2> QED
      BY <2>1, <2>2, VoteGoes
  <1> QED
    BY <1>2, <1>3, <1>4

\* While no group is being changed, a group is in one slot only, and there it is found.
LEMMA SlotIsIts ==
  ASSUME Tells, admin.pc = "idle", NEW g \in Groups, Has(g)
  PROVE  SlotOf(g) \in 1..groupCount /\ configs[SlotOf(g)].group = g
  <1> DEFINE At == {i \in 1..groupCount : configs[i].group = g}
  <1>1. PICK j \in 1..groupCount : configs[j].group = g
    BY DEF Has
  <1>2. At = {j}
    BY <1>1 DEF Tells, SlotsTell, Settled
  <1>3. Min({j}) = j
    <2>1. \E x \in {j} : \A y \in {j} : x <= y
      BY DEF Tells, Shapes
    <2> QED
      BY <2>1 DEF Min
  <1> QED
    BY <1>1, <1>2, <1>3 DEF SlotOf

\* A vote that finds its slot while no group is being changed finds its group's count.
LEMMA FindTells ==
  ASSUME Tells, NEW v \in Voters, VoteFind(v)
  PROVE  Tells'
  <1> DEFINE i == SlotOf(call[v].group)
             a == [call[v] EXCEPT !.pc = "vote"]
             b == [a EXCEPT !.slot = i]
             d == [b EXCEPT !.prev = outputs[i].count]
             stale == admin.pc # "idle"
             c == [d EXCEPT !.stale = stale]
  <1>1. /\ Goes(v, c) /\ UNCHANGED <<engine, admin, ghosts>> /\ call[v].pc = "find"
        /\ Has(call[v].group)
    BY DEF VoteFind
  <1>2. CallShaped(call[v]) /\ call[v].group \in Groups
    BY <1>1 DEF Tells, Shapes, VoterAt
  <1>3. admin.pc = "idle" =>
          /\ i \in 1..groupCount /\ configs[i].group = call[v].group
          /\ outputs[i].count = run[call[v].group] % CountWidth
    <2> SUFFICES ASSUME admin.pc = "idle"
                 PROVE  /\ i \in 1..groupCount /\ configs[i].group = call[v].group
                        /\ outputs[i].count = run[call[v].group] % CountWidth
      OBVIOUS
    <2>1. i \in 1..groupCount /\ configs[i].group = call[v].group
      BY <1>1, <1>2, SlotIsIts
    <2> HIDE DEF i
    <2>2. SlotTells(i) /\ OutputAt(i) = outputs[i]
      BY <2>1 DEF Tells, SlotsTell, Settled, OutputAt
    <2> QED
      BY <2>1, <2>2 DEF SlotTells
  <1> HIDE DEF i
  <1>4. /\ CallShaped(c) /\ c.pc = "vote" /\ c.group = call[v].group /\ c.slot = i
        /\ c.prev = outputs[i].count /\ (~c.stale => admin.pc = "idle")
    <2>1. CallShaped(a) /\ a.pc = "vote" /\ a.group = call[v].group
      BY <1>2 DEF CallShaped
    <2> HIDE DEF a
    <2>2. CallShaped(b) /\ b.pc = "vote" /\ b.group = call[v].group /\ b.slot = i
      BY <2>1 DEF CallShaped
    <2> HIDE DEF b
    <2>3. /\ CallShaped(d) /\ d.pc = "vote" /\ d.group = call[v].group /\ d.slot = i
          /\ d.prev = outputs[i].count
      BY <2>2 DEF CallShaped
    <2>4. ~stale => admin.pc = "idle"
      OBVIOUS
    <2> HIDE DEF d, stale
    <2> QED
      BY <2>3, <2>4 DEF CallShaped
  <1> HIDE DEF c
  <1> QED
    BY <1>1, <1>2, <1>3, <1>4, VoteGoes

\* The sources are three, so those that are good can be counted.
LEMMA GoodIsCounted == \A s : Cardinality(Good(s)) \in Nat
  <1> TAKE s
  <1>1. IsFiniteSet(Sources)
    <2>1. 1 \in Int /\ 3 \in Int
      OBVIOUS
    <2> QED
      BY <2>1, FS_Interval DEF Sources
  <1>2. Good(s) \in SUBSET Sources
    BY DEF Good
  <1>3. IsFiniteSet(Good(s))
    BY <1>1, <1>2, FS_Subset
  <1> QED
    BY <1>3, FS_CardinalityType

\* An output follows the count that the vote found, and tells a vote that decides from one
\* with too few good sources.
LEMMA OutputIsDecided ==
  ASSUME NEW c, NEW config
  PROVE  Decided(Output(c, config), c)
  <1> DEFINE two == Cardinality(Good(c.got)) >= 2
             level == IF two THEN Deviation(c.got, config) ELSE "NONE"
             decision == IF kind = "YX" THEN VoteYX(c.got, config) ELSE VoteYC(c.got, config)
             out == [group |-> c.group, result |-> decision.result, value |-> decision.value,
                     level |-> level, count |-> IF two THEN CountAfter(c.prev, level) ELSE c.prev]
  <1>1. Cardinality(Good(c.got)) < 2 <=> ~two
    BY GoodIsCounted
  <1>2. decision.result = "INSUFFICIENT" <=> ~two
    <2>1. VoteYX(c.got, config).result = "INSUFFICIENT" <=> ~two
      BY <1>1 DEF VoteYX, Insufficient, Failed, Priority, TwoOfThree
    <2>2. VoteYC(c.got, config).result = "INSUFFICIENT" <=> ~two
      BY <1>1 DEF VoteYC, Insufficient
    <2> QED
      BY <2>1, <2>2
  <1>3. Output(c, config) = out
    BY DEF Output
  <1>4. ~two => level = "NONE"
    OBVIOUS
  <1> HIDE DEF two, decision, level
  <1>5. /\ out.group = c.group /\ out.result = decision.result /\ out.level = level
        /\ out.count = IF two THEN CountAfter(c.prev, level) ELSE c.prev
    OBVIOUS
  <1> HIDE DEF out
  <1>6. /\ level = "SEVERE" => CountAfter(c.prev, level) = (c.prev + 1) % CountWidth
        /\ level = "NONE" => CountAfter(c.prev, level) = 0
        /\ level \notin {"SEVERE", "NONE"} => CountAfter(c.prev, level) = c.prev
    BY DEF CountAfter
  <1>7. Decided(out, c)
    BY <1>2, <1>4, <1>5, <1>6 DEF Decided, IsOver
  <1> QED
    BY <1>3, <1>7

\* Whether a run of n votes and one more is as long as a limit, and whether the byte of its
\* count is, is one question as long as the alarm has not been called.
LEMMA ByteIsEnough ==
  ASSUME NEW n \in Nat, NEW limit \in 0..(CountWidth - 1), NEW a \in BOOLEAN, Long(n) => a
  PROVE  /\ (a \/ (n + 1) % CountWidth >= limit) <=> (a \/ n + 1 >= limit)
         /\ Long(n + 1) => a \/ n + 1 >= limit
  <1> DEFINE k == (n + 1) % CountWidth
  <1>1. k \in Nat /\ k <= n + 1 /\ (n + 1 < CountWidth => k = n + 1)
    <2>1. n + 1 \in Nat
      OBVIOUS
    <2> QED
      BY <2>1, BytesCount
  <1>2. CountWidth \in Nat \ {0} /\ limit \in Nat /\ limit <= CountWidth - 1
    BY VotingAssumption
  <1> HIDE DEF k
  <1>3. CASE n + 1 < CountWidth
    BY <1>1, <1>2, <1>3 DEF Long, k
  <1>4. CASE ~(n + 1 < CountWidth)
    <2>1. CASE n > 0
      <3>1. Long(n)
        BY <1>2, <1>4, <2>1 DEF Long
      <3> QED
        BY <3>1
    <2>2. CASE n = 0
      BY <1>1, <1>2, <1>4, <2>2 DEF k
    <2> QED
      BY <2>1, <2>2
  <1> QED
    BY <1>3, <1>4

\* Limits of counts are bytes.
LimitIsByte(v) == configs[call[v].slot].config.count \in 0..(CountWidth - 1)

\* The decision: the alarm callback is called before the output is stored.
LEMMA DecideTells ==
  ASSUME Tells, NEW v \in Voters, VoteDecide(v), ~call[v].stale => LimitIsByte(v)
  PROVE  Tells'
  <1>0. PICK g, limit : g = call[v].group /\ limit = configs[call[v].slot].config.count
    OBVIOUS
  <1> USE <1>0
  <1> DEFINE out == Output(call[v], configs[call[v].slot].config)
             severe == out.level = "SEVERE"
             due == severe /\ Triggers(out.count, limit)
             long == severe /\ run[g] + 1 >= limit
             b == [call[v] EXCEPT !.pc = "store"]
             c == [b EXCEPT !.out = out]
  <1>1. /\ call[v].pc = "vote" /\ g \in Groups /\ CallShaped(call[v]) /\ VoterAt(v)
        /\ UNCHANGED <<groupCount, configs, outputs, admin, run>>
        /\ call' = [w \in Voters |-> IF w = v THEN c ELSE call[w]]
    BY DEF VoteDecide, Tells, Shapes, VoterAt, Goes, engine
  <1>2. out.group = g /\ Decided(out, call[v])
    BY OutputIsDecided DEF Decided
  <1>3. /\ alarmed' = [alarmed EXCEPT ![g] = @ \/ due]
        /\ reached' = [reached EXCEPT ![g] = @ \/ long]
    BY DEF VoteDecide
  <1>4. /\ severe \in BOOLEAN /\ (severe <=> out.level = "SEVERE")
        /\ (due <=> severe /\ out.count >= limit) /\ (long <=> severe /\ run[g] + 1 >= limit)
    BY DEF Triggers
  <1> HIDE DEF out, severe, due, long
  <1>5. /\ CallShaped(c) /\ c.pc = "store" /\ c.group = g /\ c.slot = call[v].slot
        /\ c.prev = call[v].prev /\ c.out = out /\ c.stale = call[v].stale
    <2>1. /\ CallShaped(b) /\ b.pc = "store" /\ b.group = g /\ b.slot = call[v].slot
          /\ b.prev = call[v].prev /\ b.stale = call[v].stale
      BY <1>1 DEF CallShaped
    <2> HIDE DEF b
    <2> QED
      BY <2>1 DEF CallShaped
  <1> HIDE DEF b, c
  <1>6. call'[v] = c /\ \A w \in Voters \ {v} : call'[w] = call[w]
    BY <1>1
  <1>7. /\ alarmed' \in [Groups -> BOOLEAN] /\ (alarmed'[g] <=> alarmed[g] \/ due)
        /\ reached' \in [Groups -> BOOLEAN] /\ (reached'[g] <=> reached[g] \/ long)
        /\ \A h \in Groups \ {g} : alarmed'[h] = alarmed[h] /\ reached'[h] = reached[h]
    BY <1>1, <1>3 DEF Tells, Shapes
  <1>8. Shapes'
    BY <1>1, <1>5, <1>7 DEF Tells, Shapes
  <1>9. AdminAt' /\ Settled' = Settled
    BY <1>1 DEF Tells, AdminAt, Settled
  <1>10. \A w \in Voters : VoterAt(w)'
    <2>1. VoterAt(v)'
      BY <1>1, <1>2, <1>5, <1>6 DEF VoterAt, Found, Holds, Decided
    <2>2. \A w \in Voters \ {v} : VoterAt(w)'
      BY <1>1, <1>6 DEF Tells, VoterAt, Found, Holds, Decided
    <2> QED
      BY <2>1, <2>2
  <1>11. ASSUME NEW h \in Groups, AlarmsTell(h) PROVE AlarmsTell(h)'
    <2>1. CASE h = g
      <3> SUFFICES ASSUME Undisturbed(g)' PROVE Alarms(g)'
        BY <2>1 DEF AlarmsTell
      <3>1. Storing(g)' = Storing(g) \cup {v}
        BY <1>5, <1>6 DEF Storing
      <3>2. v \notin Storing(g) /\ Storing(g) \subseteq Voters
        BY <1>1 DEF Storing
      <3>3. Alarms(g) /\ ~call[v].stale
        BY <1>5, <1>6, <1>11, <2>1, <3>1, <3>2 DEF AlarmsTell, Undisturbed
      <3> DEFINE n == run[g]
                 a == alarmed[g]
      <3>4. n \in Nat /\ a \in BOOLEAN /\ reached[g] = a /\ (Long(n) => a)
        BY <1>1, <3>3 DEF Tells, Shapes, Alarms
      <3>5. limit \in 0..(CountWidth - 1) /\ call[v].prev = n % CountWidth
        BY <1>1, <3>3 DEF LimitIsByte, VoterAt, Holds, Found
      <3> HIDE DEF n, a
      <3>6. /\ (a \/ (n + 1) % CountWidth >= limit) <=> (a \/ n + 1 >= limit)
            /\ Long(n + 1) => a \/ n + 1 >= limit
        BY <3>4, <3>5, ByteIsEnough
      <3>7. severe => out.count = (n + 1) % CountWidth
        <4>1. (((n % CountWidth) + 1)) % CountWidth = (n + 1) % CountWidth
          BY <3>4, BytesCount
        <4> QED
          BY <1>2, <1>4, <3>5, <4>1 DEF Decided
      <3>8. /\ (a \/ due) <=> (a \/ long)
            /\ severe /\ Long(n + 1) => a \/ long
        BY <1>4, <3>6, <3>7 DEF n
      <3>9. alarmed'[g] = reached'[g]
        <4>1. alarmed'[g] \in BOOLEAN /\ reached'[g] \in BOOLEAN
          BY <1>1, <1>7
        <4>2. (alarmed'[g] <=> a \/ due) /\ (reached'[g] <=> a \/ long)
          BY <1>7, <3>4 DEF a
        <4> QED
          BY <3>8, <4>1, <4>2
      <3>10. run'[g] = n /\ (a => alarmed'[g]) /\ (severe /\ Long(n + 1) => alarmed'[g])
        BY <1>1, <1>7, <3>8 DEF n, a
      <3>11. ASSUME NEW w \in Storing(g)', call'[w].out.level = "SEVERE", Long(n + 1)
             PROVE  alarmed'[g]
        <4>1. CASE w = v
          BY <1>4, <1>5, <1>6, <3>10, <3>11, <4>1
        <4>2. CASE w # v
          <5>1. w \in Storing(g) /\ call[w].out.level = "SEVERE"
            BY <1>6, <3>1, <3>2, <3>11, <4>2
          <5>2. a
            BY <3>3, <3>11, <5>1 DEF Alarms, n, a
          <5> QED
            BY <3>10, <5>2
        <4> QED
          BY <4>1, <4>2
      <3> QED
        BY <3>4, <3>9, <3>10, <3>11 DEF Alarms, Long
    <2>2. CASE h # g
      <3>1. Storing(h)' = Storing(h) /\ v \notin Storing(h)
        BY <1>5, <1>6, <1>1, <2>2 DEF Storing
      <3>2. /\ alarmed'[h] = alarmed[h] /\ reached'[h] = reached[h]
            /\ \A w \in Storing(h) : call'[w] = call[w]
        BY <1>6, <1>7, <2>2, <3>1 DEF Storing
      <3> QED
        BY <1>1, <1>11, <3>1, <3>2 DEF AlarmsTell, Alarms, Undisturbed, Long
    <2> QED
      BY <2>1, <2>2
  <1>12. SlotsTell'
    BY <1>1, <1>9, <1>11 DEF Tells, SlotsTell, SlotTells, OutputAt
  <1> QED
    BY <1>8, <1>9, <1>10, <1>12 DEF Tells

\* What a stored vote makes of the run, and of the count beside it.
LEMMA RunsOn ==
  ASSUME NEW n \in Nat, NEW m \in Nat, NEW out, NEW c, Decided(out, c), c.prev = n % CountWidth,
         m = IF out.level = "SEVERE" THEN n + 1 ELSE IF IsOver(out) THEN 0 ELSE n
  PROVE  out.count = m % CountWidth
  <1>1. CASE out.level = "SEVERE"
    BY <1>1, BytesCount DEF Decided, IsOver
  <1>2. CASE IsOver(out)
    BY <1>2, ZeroHeld DEF Decided, IsOver
  <1>3. CASE out.level # "SEVERE" /\ ~IsOver(out)
    BY <1>3 DEF Decided
  <1> QED
    BY <1>1, <1>2, <1>3

\* The output is stored.  The votes of the same group that go on are disturbed by it, and
\* only those.
LEMMA StoreTells ==
  ASSUME Tells, NEW v \in Voters, VoteStore(v), ~call[v].stale
  PROVE  Tells'
  <1>0. PICK g, s, out :
        /\ g \in Groups /\ s \in 1..groupCount
        /\ g = call[v].group /\ s = call[v].slot /\ out = call[v].out
        /\ call[v].pc = "store" /\ admin.pc = "idle" /\ configs[s].group = g
        /\ call[v].prev = run[g] % CountWidth /\ Decided(out, call[v])
    BY DEF VoteStore, Tells, VoterAt, Found, Holds
  <1> USE <1>0
  <1>1. /\ UNCHANGED <<groupCount, configs, admin>>
        /\ outputs' = [outputs EXCEPT ![s] = out]
        /\ run' = [run EXCEPT ![g] = IF out.level = "SEVERE" THEN @ + 1
                                     ELSE IF IsOver(out) THEN 0 ELSE @]
        /\ alarmed' = [alarmed EXCEPT ![g] = @ /\ ~IsOver(out)]
        /\ reached' = [reached EXCEPT ![g] = @ /\ ~IsOver(out)]
        /\ call' = [w \in Voters |->
                      IF w = v THEN Idle
                      ELSE IF Found(w) /\ call[w].group = g
                           THEN [call[w] EXCEPT !.stale = TRUE] ELSE call[w]]
    BY DEF VoteStore, IsOver
  <1>2. /\ groupCount \in 0..MaxGroups /\ s \in 1..MaxGroups /\ run[g] \in Nat
        /\ Settled = 1..groupCount /\ \A i \in 1..groupCount : OutputAt(i) = outputs[i]
    BY VotingAssumption DEF Tells, Shapes, Settled, OutputAt
  <1>3. /\ run' \in [Groups -> Nat] /\ alarmed' \in [Groups -> BOOLEAN] /\ reached' \in [Groups -> BOOLEAN]
        /\ \A h \in Groups \ {g} :
             run'[h] = run[h] /\ alarmed'[h] = alarmed[h] /\ reached'[h] = reached[h]
        /\ run'[g] = IF out.level = "SEVERE" THEN run[g] + 1 ELSE IF IsOver(out) THEN 0 ELSE run[g]
        /\ alarmed'[g] = (alarmed[g] /\ ~IsOver(out)) /\ reached'[g] = (reached[g] /\ ~IsOver(out))
    <2>1. run \in [Groups -> Nat] /\ alarmed \in [Groups -> BOOLEAN] /\ reached \in [Groups -> BOOLEAN]
      BY DEF Tells, Shapes
    <2>2. /\ run' \in [Groups -> Nat] /\ \A h \in Groups \ {g} : run'[h] = run[h]
          /\ run'[g] = IF out.level = "SEVERE" THEN run[g] + 1 ELSE IF IsOver(out) THEN 0 ELSE run[g]
      BY <1>1, <1>2, <2>1
    <2> DEFINE on == alarmed[g] /\ ~IsOver(out)
               far == reached[g] /\ ~IsOver(out)
    <2>3. /\ alarmed' = [alarmed EXCEPT ![g] = on] /\ on \in BOOLEAN
          /\ reached' = [reached EXCEPT ![g] = far] /\ far \in BOOLEAN
      BY <1>1
    <2>4. on = (alarmed[g] /\ ~IsOver(out)) /\ far = (reached[g] /\ ~IsOver(out))
      OBVIOUS
    <2> HIDE DEF on, far
    <2>5. /\ alarmed' \in [Groups -> BOOLEAN] /\ \A h \in Groups \ {g} : alarmed'[h] = alarmed[h]
          /\ alarmed'[g] = on
      BY <2>1, <2>3
    <2>6. /\ reached' \in [Groups -> BOOLEAN] /\ \A h \in Groups \ {g} : reached'[h] = reached[h]
          /\ reached'[g] = far
      BY <2>1, <2>3
    <2> QED
      BY <2>2, <2>4, <2>5, <2>6
  <1>4. /\ outputs' = [i \in 1..MaxGroups |-> outputs'[i]]
        /\ outputs'[s] = out /\ \A i \in (1..groupCount) \ {s} : outputs'[i] = outputs[i]
    <2>1. outputs = [i \in 1..MaxGroups |-> outputs[i]]
      BY DEF Tells, Shapes
    <2>2. 1..groupCount \subseteq 1..MaxGroups
      BY <1>2, VotingAssumption
    <2> QED
      BY <1>1, <1>2, <2>1, <2>2
  <1>5. CallShaped(Idle) /\ Idle.pc = "idle"
    BY DEF CallShaped, Idle
  <1>6. ASSUME NEW w \in Voters \ {v}
        PROVE  /\ CallShaped(call'[w])
               /\ call'[w].pc = call[w].pc /\ call'[w].group = call[w].group
               /\ call'[w].slot = call[w].slot /\ call'[w].prev = call[w].prev
               /\ call'[w].out = call[w].out
               /\ IF Found(w) /\ call[w].group = g THEN call'[w].stale
                  ELSE call'[w].stale = call[w].stale
    <2>1. CallShaped(call[w])
      BY DEF Tells, Shapes
    <2>2. CASE Found(w) /\ call[w].group = g
      BY <1>1, <2>1, <2>2 DEF CallShaped
    <2>3. CASE ~(Found(w) /\ call[w].group = g)
      BY <1>1, <2>1, <2>3
    <2> QED
      BY <2>2, <2>3
  <1>7. call'[v] = Idle /\ call' = [w \in Voters |-> call'[w]]
    BY <1>1
  <1>8. Shapes'
    <2>1. \A w \in Voters : CallShaped(call'[w])
      BY <1>5, <1>6, <1>7
    <2>2. /\ groupCount' \in 0..MaxGroups
          /\ configs' = [i \in 1..MaxGroups |-> configs'[i]] /\ \A i \in 1..MaxGroups : EntryShaped(configs'[i])
          /\ admin' = [pc |-> admin'.pc, group |-> admin'.group, config |-> admin'.config,
                       slot |-> admin'.slot]
      BY <1>1 DEF Tells, Shapes
    <2> QED
      BY <1>3, <1>4, <1>7, <2>1, <2>2 DEF Shapes
  <1>9. AdminAt' /\ Settled' = Settled /\ \A i \in 1..groupCount : OutputAt(i)' = outputs'[i]
    BY <1>1 DEF Tells, AdminAt, Settled, OutputAt
  <1>10. \A w \in Voters : VoterAt(w)'
    <2>1. VoterAt(v)'
      BY <1>5, <1>7 DEF VoterAt, Found
    <2>2. ASSUME NEW w \in Voters \ {v} PROVE VoterAt(w)'
      <3>1. VoterAt(w)
        BY DEF Tells
      <3>2. Found(w)' <=> Found(w)
        BY <1>6 DEF Found
      <3>3. Found(w)' /\ ~call'[w].stale => Holds(w)'
        BY <1>1, <1>3, <1>6, <3>1, <3>2 DEF VoterAt, Holds, Found
      <3>4. call'[w].pc = "store" => Decided(call'[w].out, call'[w])
        BY <1>6, <3>1 DEF VoterAt, Decided
      <3> QED
        BY <1>6, <3>1, <3>3, <3>4 DEF VoterAt, Decided, IsOver
    <2> QED
      BY <2>1, <2>2
  <1>11. AlarmsTell(g)'
    <2> SUFFICES ASSUME Undisturbed(g)' PROVE Alarms(g)'
      BY DEF AlarmsTell
    <2>1. Storing(g)' = {}
      BY <1>5, <1>6, <1>7 DEF Storing, Undisturbed, Found
    <2>2. Storing(g) = {v}
      BY <1>6, <2>1 DEF Storing
    <2>3. Alarms(g)
      <3>1. AlarmsTell(g)
        BY <1>2 DEF Tells, SlotsTell, SlotTells
      <3> QED
        BY <2>2, <3>1 DEF AlarmsTell, Undisturbed
    <2>4. CASE IsOver(out)
      <3>1. run'[g] = 0 /\ ~alarmed'[g] /\ ~reached'[g] /\ ~Long(0)
        BY <1>3, <2>4 DEF IsOver, Long
      <3>2. alarmed'[g] = reached'[g]
        BY <1>3, <3>1
      <3> QED
        BY <2>1, <3>1, <3>2 DEF Alarms, Long
    <2>5. CASE ~IsOver(out)
      <3>1. alarmed'[g] = alarmed[g] /\ reached'[g] = reached[g]
        BY <1>2, <1>3, <2>5 DEF Tells, Shapes
      <3>2. /\ alarmed[g] = reached[g] /\ (Long(run[g]) => alarmed[g])
            /\ out.level = "SEVERE" /\ Long(run[g] + 1) => alarmed[g]
        BY <2>2, <2>3 DEF Alarms
      <3>3. Long(run'[g]) => alarmed[g]
        BY <1>3, <2>5, <3>2
      <3> QED
        BY <2>1, <3>1, <3>2, <3>3 DEF Alarms, Long
    <2> QED
      BY <2>4, <2>5
  <1>12. ASSUME NEW i \in 1..groupCount PROVE SlotTells(i)'
    <2>1. /\ SlotTells(i) /\ configs[i].group \in Groups
          /\ configs[i].group = g => i = s
      BY <1>2 DEF Tells, SlotsTell, SlotTells
    <2>2. CASE i = s
      <3>1. out.count = run'[g] % CountWidth
        <4>1. run'[g] \in Nat
          BY <1>3
        <4> QED
          BY <1>2, <1>3, <4>1, RunsOn
      <3>2. out.group = g
        BY DEF Decided
      <3> QED
        BY <1>1, <1>4, <1>9, <1>11, <2>2, <3>1, <3>2 DEF SlotTells
    <2>3. CASE i # s
      <3> PICK h \in Groups : h = configs[i].group
        BY <2>1
      <3>1. /\ h # g /\ run'[h] = run[h] /\ alarmed'[h] = alarmed[h] /\ reached'[h] = reached[h]
            /\ outputs'[i] = outputs[i]
        BY <1>3, <1>4, <2>1, <2>3
      <3>2. v \notin Storing(h) /\ Storing(h)' = Storing(h)
        BY <1>5, <1>6, <1>7, <3>1 DEF Storing
      <3>3. \A w \in Storing(h) : call'[w].stale = call[w].stale /\ call'[w].out = call[w].out
        BY <1>6, <3>1, <3>2 DEF Storing
      <3>4. AlarmsTell(h)'
        BY <2>1, <3>1, <3>2, <3>3 DEF SlotTells, AlarmsTell, Alarms, Undisturbed, Long
      <3> QED
        BY <1>1, <1>2, <1>9, <2>1, <3>1, <3>4 DEF SlotTells
    <2> QED
      BY <2>2, <2>3
  <1>13. SlotsTell'
    BY <1>1, <1>2, <1>9, <1>12 DEF Tells, SlotsTell
  <1> QED
    BY <1>8, <1>9, <1>10, <1>13 DEF Tells

------------------------------------------------------------------------------
\* The slots in use are slots, and so is the last of them.
LEMMA SlotsInUse ==
  ASSUME Tells
  PROVE  /\ groupCount \in Nat
         /\ 1..groupCount \subseteq 1..MaxGroups
         /\ \A i \in 1..(groupCount - 1) : i \in 1..groupCount /\ i # groupCount
         /\ groupCount > 0 => groupCount \in 1..groupCount
  BY VotingAssumption DEF Tells, Shapes

\* A change of the groups disturbs every vote that has found its slot.
LEMMA DisturbedVotes ==
  ASSUME Tells, Disturbs
  PROVE  /\ call' = [v \in Voters |-> call'[v]] /\ \A v \in Voters : CallShaped(call'[v])
         /\ \A v \in Voters : VoterAt(v)'
         /\ \A g : Undisturbed(g)' => Storing(g)' = {} /\ Storing(g) = {}
  <1>1. call' = [v \in Voters |-> IF Found(v) THEN [call[v] EXCEPT !.stale = TRUE] ELSE call[v]]
    BY DEF Disturbs
  <1>2. ASSUME NEW v \in Voters
        PROVE  /\ CallShaped(call'[v])
               /\ call'[v].pc = call[v].pc /\ call'[v].group = call[v].group
               /\ call'[v].prev = call[v].prev /\ call'[v].out = call[v].out
               /\ Found(v) => call'[v].stale
    <2>1. CallShaped(call[v])
      BY DEF Tells, Shapes
    <2>2. CASE Found(v)
      BY <1>1, <2>1, <2>2 DEF CallShaped
    <2>3. CASE ~Found(v)
      BY <1>1, <2>1, <2>3
    <2> QED
      BY <2>2, <2>3
  <1>3. ASSUME NEW v \in Voters PROVE VoterAt(v)'
    <2>1. VoterAt(v)
      BY DEF Tells
    <2> QED
      BY <1>2, <2>1 DEF VoterAt, Found, Decided, IsOver
  <1>4. ASSUME NEW g, Undisturbed(g)' PROVE Storing(g)' = {} /\ Storing(g) = {}
    BY <1>2, <1>4 DEF Undisturbed, Storing, Found
  <1> QED
    BY <1>1, <1>2, <1>3, <1>4

\* The alarm still tells of the runs that a change does not touch.
LEMMA AlarmsGoOn ==
  ASSUME Tells, Disturbs, UNCHANGED <<run, reached, alarmed>>, NEW g, AlarmsTell(g)
  PROVE  AlarmsTell(g)'
  <1> SUFFICES ASSUME Undisturbed(g)' PROVE Alarms(g)'
    BY DEF AlarmsTell
  <1>1. Storing(g)' = {} /\ Storing(g) = {}
    BY DisturbedVotes
  <1> QED
    BY <1>1 DEF AlarmsTell, Alarms, Undisturbed, Long

\* A slot is counted for a group that has none.
LEMMA AddCountTells ==
  ASSUME Tells, NEW g \in Groups, NEW config, AddCount(g, config)
  PROVE  Tells'
  <1>1. /\ UNCHANGED <<configs, outputs, run, reached, alarmed>> /\ Disturbs
        /\ admin.pc = "idle" /\ groupCount < MaxGroups /\ ~Has(g) /\ groupCount' = groupCount + 1
        /\ admin' = [pc |-> "config", group |-> g, config |-> config, slot |-> groupCount']
    BY DEF AddCount, Changes, ghosts
  <1>2. groupCount \in Nat /\ groupCount' \in 1..MaxGroups
    BY <1>1, VotingAssumption DEF Tells, Shapes
  <1>3. Settled = 1..groupCount /\ Settled' = Settled
    BY <1>1, <1>2 DEF Settled
  <1>4. Shapes'
    BY <1>1, <1>2, DisturbedVotes DEF Tells, Shapes
  <1>5. AdminAt'
    BY <1>1, <1>2, <1>3 DEF AdminAt, Has
  <1>6. SlotsTell'
    BY <1>1, <1>3, AlarmsGoOn DEF Tells, SlotsTell, SlotTells, OutputAt
  <1> QED
    BY <1>1, <1>4, <1>5, <1>6, DisturbedVotes DEF Tells

\* It gets the group's configuration.
LEMMA AddConfigTells ==
  ASSUME Tells, AddConfig
  PROVE  Tells'
  <1> DEFINE entry == [group |-> admin.group, config |-> admin.config]
  <1>1. /\ UNCHANGED <<groupCount, outputs, run, reached, alarmed>> /\ Disturbs
        /\ admin.pc = "config" /\ admin' = [admin EXCEPT !.pc = "output"]
        /\ configs' = [configs EXCEPT ![groupCount] = entry] /\ groupCount \in 1..MaxGroups
        /\ admin.group \in Groups /\ admin.slot = groupCount
    <2>1. admin.pc = "config" /\ groupCount > 0 /\ admin.slot = groupCount /\ admin.group \in Groups
      BY DEF AddConfig, Tells, AdminAt
    <2>2. groupCount \in 1..MaxGroups
      BY <2>1, SlotsInUse
    <2> QED
      BY <2>1, <2>2 DEF AddConfig, ghosts
  <1>2. /\ admin'.pc = "output" /\ admin'.group = admin.group /\ admin'.slot = admin.slot
        /\ admin' = [pc |-> admin'.pc, group |-> admin'.group, config |-> admin'.config,
                     slot |-> admin'.slot]
    BY <1>1 DEF Tells, Shapes
  <1>3. /\ configs' = [i \in 1..MaxGroups |-> configs'[i]] /\ \A i \in 1..MaxGroups : EntryShaped(configs'[i])
        /\ configs'[groupCount].group = admin.group
        /\ \A i \in 1..(groupCount - 1) : configs'[i] = configs[i]
    <2>1. configs = [i \in 1..MaxGroups |-> configs[i]] /\ \A i \in 1..MaxGroups : EntryShaped(configs[i])
      BY DEF Tells, Shapes
    <2>2. configs' = [i \in 1..MaxGroups |-> IF i = groupCount THEN entry ELSE configs[i]]
      BY <1>1, <2>1
    <2>3. \A i \in 1..(groupCount - 1) : i \in 1..MaxGroups /\ i # groupCount
      BY SlotsInUse
    <2>4. EntryShaped(entry) /\ entry.group = admin.group
      BY DEF EntryShaped
    <2> HIDE DEF entry
    <2> QED
      BY <1>1, <2>1, <2>2, <2>3, <2>4
  <1>4. Settled = 1..(groupCount - 1) /\ Settled' = Settled
    BY <1>1, <1>2 DEF Settled
  <1>5. Shapes'
    BY <1>1, <1>2, <1>3, DisturbedVotes DEF Tells, Shapes
  <1>6. AdminAt'
    BY <1>1, <1>2, <1>3, <1>4 DEF Tells, AdminAt
  <1>7. SlotsTell'
    BY <1>1, <1>2, <1>3, <1>4, AlarmsGoOn DEF Tells, SlotsTell, SlotTells, OutputAt
  <1> QED
    BY <1>1, <1>5, <1>6, <1>7, DisturbedVotes DEF Tells

\* From now on the group that was added has a run of its own, which is empty.
LEMMA AddOutputTells ==
  ASSUME Tells, AddOutput
  PROVE  Tells'
  <1>0. PICK g \in Groups : g = admin.group
    BY DEF AddOutput, Tells, AdminAt
  <1> USE <1>0
  <1>1. /\ UNCHANGED <<groupCount, configs>> /\ Disturbs
        /\ admin.pc = "output" /\ admin' = Unchanging /\ groupCount \in 1..MaxGroups
        /\ outputs' = [outputs EXCEPT ![groupCount] = NoOutput(g)]
        /\ run' = [run EXCEPT ![g] = 0] /\ alarmed' = [alarmed EXCEPT ![g] = FALSE]
        /\ reached' = [reached EXCEPT ![g] = FALSE]
        /\ configs[groupCount].group = g
    <2>1. /\ admin.pc = "output" /\ groupCount > 0 /\ admin.slot = groupCount
          /\ configs[groupCount].group = g
      BY DEF AddOutput, Tells, AdminAt
    <2>2. groupCount \in 1..MaxGroups
      BY <2>1, SlotsInUse
    <2> QED
      BY <2>1, <2>2 DEF AddOutput
  <1>2. /\ admin'.pc = "idle"
        /\ admin' = [pc |-> admin'.pc, group |-> admin'.group, config |-> admin'.config,
                     slot |-> admin'.slot]
    BY <1>1 DEF Unchanging
  <1>3. /\ outputs' = [i \in 1..MaxGroups |-> outputs'[i]]
        /\ outputs'[groupCount] = NoOutput(g)
        /\ \A i \in 1..(groupCount - 1) : outputs'[i] = outputs[i]
    <2>1. outputs = [i \in 1..MaxGroups |-> outputs[i]]
      BY DEF Tells, Shapes
    <2>2. \A i \in 1..(groupCount - 1) : i \in 1..MaxGroups /\ i # groupCount
      BY SlotsInUse
    <2> QED
      BY <1>1, <2>1, <2>2
  <1>4. /\ run' \in [Groups -> Nat] /\ alarmed' \in [Groups -> BOOLEAN] /\ reached' \in [Groups -> BOOLEAN]
        /\ run'[g] = 0 /\ alarmed'[g] = FALSE /\ reached'[g] = FALSE
        /\ \A h \in Groups \ {g} :
             run'[h] = run[h] /\ alarmed'[h] = alarmed[h] /\ reached'[h] = reached[h]
    BY <1>1 DEF Tells, Shapes
  <1>5. /\ Settled = 1..(groupCount - 1) /\ Settled' = 1..groupCount
        /\ \A i \in Settled' : i \in Settled \/ i = groupCount
    BY <1>1, <1>2, VotingAssumption DEF Settled
  <1>6. Shapes'
    BY <1>1, <1>2, <1>3, <1>4, DisturbedVotes DEF Tells, Shapes
  <1>7. AdminAt'
    BY <1>2 DEF AdminAt
  <1>8. AlarmsTell(g)'
    <2> SUFFICES ASSUME Undisturbed(g)' PROVE Alarms(g)'
      BY DEF AlarmsTell
    <2>1. Storing(g)' = {}
      BY <1>1, DisturbedVotes
    <2> QED
      BY <1>4, <2>1 DEF Alarms, Long
  <1>9. ASSUME NEW i \in Settled PROVE SlotTells(i)' /\ configs[i].group # g
    <2>1. SlotTells(i) /\ configs[i].group # g /\ OutputAt(i) = outputs[i]
      BY <1>1 DEF Tells, SlotsTell, AdminAt, OutputAt
    <2>0. PICK h \in Groups : h = configs[i].group
      BY <2>1 DEF SlotTells
    <2>2. /\ h # g /\ run'[h] = run[h] /\ alarmed'[h] = alarmed[h] /\ reached'[h] = reached[h]
          /\ AlarmsTell(h)
      BY <1>4, <2>0, <2>1 DEF SlotTells
    <2>3. AlarmsTell(h)'
      <3> SUFFICES ASSUME Undisturbed(h)' PROVE Alarms(h)'
        BY DEF AlarmsTell
      <3>1. Storing(h)' = {} /\ Storing(h) = {}
        BY <1>1, DisturbedVotes
      <3> QED
        BY <2>2, <3>1 DEF AlarmsTell, Alarms, Undisturbed, Long
    <2>4. OutputAt(i)' = outputs[i]
      BY <1>2, <1>3, <1>5 DEF OutputAt
    <2> QED
      BY <1>1, <2>0, <2>1, <2>2, <2>3, <2>4 DEF SlotTells
  <1>10. SlotTells(groupCount)'
    <2>1. OutputAt(groupCount)' = NoOutput(g)
      BY <1>1, <1>2, <1>3 DEF OutputAt
    <2>2. NoOutput(g).group = g /\ NoOutput(g).count = 0
      BY DEF NoOutput
    <2> QED
      BY <1>1, <1>4, <1>8, <2>1, <2>2, ZeroHeld DEF SlotTells
  <1>11. SlotsTell'
    <2>1. \A i \in Settled' : SlotTells(i)'
      BY <1>1, <1>5, <1>9, <1>10
    <2>2. \A i, j \in Settled' : configs[i].group = configs[j].group => i = j
      BY <1>1, <1>5, <1>9 DEF Tells, SlotsTell
    <2> QED
      BY <1>1, <2>1, <2>2 DEF SlotsTell
  <1> QED
    BY <1>1, <1>6, <1>7, <1>11, DisturbedVotes DEF Tells

\* The last group's configuration is moved into the slot that becomes free.
LEMMA RemoveTells ==
  ASSUME Tells, NEW g \in Groups, Remove(g)
  PROVE  Tells'
  <1>0. PICK s : s = SlotOf(g)
    OBVIOUS
  <1>1. /\ UNCHANGED <<groupCount, outputs, run, reached, alarmed>> /\ Disturbs
        /\ admin.pc = "idle" /\ admin' = [Unchanging EXCEPT !.pc = "move", !.slot = s]
        /\ configs' = [configs EXCEPT ![s] = configs[groupCount]] /\ s \in 1..groupCount
    BY <1>0, SlotIsIts DEF Remove, Changes, ghosts
  <1>2. /\ admin'.pc = "move" /\ admin'.slot = s
        /\ admin' = [pc |-> admin'.pc, group |-> admin'.group, config |-> admin'.config,
                     slot |-> admin'.slot]
    <2> DEFINE moving == [pc |-> "move", group |-> None, config |-> None, slot |-> s]
    <2>1. admin' = moving
      BY <1>1 DEF Unchanging
    <2> QED
      BY <2>1
  <1>3. /\ configs' = [i \in 1..MaxGroups |-> configs'[i]] /\ \A i \in 1..MaxGroups : EntryShaped(configs'[i])
        /\ \A i \in 1..(groupCount - 1) : configs'[i] = configs[IF i = s THEN groupCount ELSE i]
    <2>1. configs = [i \in 1..MaxGroups |-> configs[i]] /\ \A i \in 1..MaxGroups : EntryShaped(configs[i])
      BY DEF Tells, Shapes
    <2>2. configs' = [i \in 1..MaxGroups |-> IF i = s THEN configs[groupCount] ELSE configs[i]]
      BY <1>1, <2>1
    <2>3. \A i \in 1..(groupCount - 1) : i \in 1..MaxGroups
      BY SlotsInUse
    <2>4. groupCount \in 1..MaxGroups
      BY <1>1, SlotsInUse
    <2> QED
      BY <1>1, <2>1, <2>2, <2>3, <2>4
  <1>4. /\ Settled = 1..groupCount /\ Settled' = 1..(groupCount - 1)
        /\ groupCount > 0 /\ groupCount \in Settled /\ \A i \in Settled' : i \in Settled /\ i # groupCount
    BY <1>1, <1>2, SlotsInUse DEF Settled
  <1>5. Shapes'
    BY <1>1, <1>2, <1>3, DisturbedVotes DEF Tells, Shapes
  <1>6. AdminAt'
    BY <1>1, <1>2, <1>4 DEF AdminAt
  <1>7. ASSUME NEW i \in Settled'
        PROVE  \E j \in Settled : /\ j = IF i = s THEN groupCount ELSE i
                                  /\ configs'[i] = configs[j] /\ OutputAt(i)' = OutputAt(j)
    BY <1>1, <1>2, <1>3, <1>4 DEF OutputAt
  <1>8. ASSUME NEW i \in Settled' PROVE SlotTells(i)'
    <2>1. PICK j \in Settled : configs'[i] = configs[j] /\ OutputAt(i)' = OutputAt(j)
      BY <1>7
    <2>2. SlotTells(j)
      BY DEF Tells, SlotsTell
    <2>3. PICK h \in Groups : h = configs[j].group
      BY <2>2 DEF SlotTells
    <2>4. AlarmsTell(h)'
      BY <1>1, <2>2, <2>3, AlarmsGoOn DEF SlotTells
    <2> QED
      BY <1>1, <2>1, <2>2, <2>3, <2>4 DEF SlotTells
  <1>9. ASSUME NEW i \in Settled', NEW k \in Settled', configs'[i].group = configs'[k].group PROVE i = k
    BY <1>4, <1>7, <1>9 DEF Tells, SlotsTell
  <1>10. SlotsTell'
    BY <1>8, <1>9 DEF SlotsTell
  <1> QED
    BY <1>1, <1>5, <1>6, <1>10, DisturbedVotes DEF Tells

\* Its output follows.
LEMMA RemoveMoveTells ==
  ASSUME Tells, RemoveMove
  PROVE  Tells'
  <1>1. /\ UNCHANGED <<groupCount, configs, run, reached, alarmed>> /\ Disturbs
        /\ admin.pc = "move" /\ admin' = [admin EXCEPT !.pc = "uncount"]
        /\ outputs' = [outputs EXCEPT ![admin.slot] = outputs[groupCount]]
    BY DEF RemoveMove, ghosts
  <1>2. /\ admin'.pc = "uncount" /\ groupCount > 0
        /\ admin' = [pc |-> admin'.pc, group |-> admin'.group, config |-> admin'.config,
                     slot |-> admin'.slot]
    BY <1>1 DEF Tells, Shapes, AdminAt
  <1>3. outputs' = [i \in 1..MaxGroups |-> IF i = admin.slot THEN outputs[groupCount] ELSE outputs[i]]
    BY <1>1 DEF Tells, Shapes
  <1>4. Settled' = Settled /\ \A i \in Settled : i \in 1..MaxGroups /\ OutputAt(i)' = OutputAt(i)
    <2>1. Settled = 1..(groupCount - 1) /\ Settled' = Settled
      BY <1>1, <1>2 DEF Settled
    <2>2. \A i \in Settled : i \in 1..MaxGroups
      BY <2>1, SlotsInUse
    <2> QED
      BY <1>1, <1>2, <1>3, <2>1, <2>2 DEF OutputAt
  <1>5. Shapes'
    BY <1>1, <1>2, <1>3, DisturbedVotes DEF Tells, Shapes
  <1>6. AdminAt'
    BY <1>1, <1>2 DEF AdminAt
  <1>7. SlotsTell'
    BY <1>1, <1>4, AlarmsGoOn DEF Tells, SlotsTell, SlotTells
  <1> QED
    BY <1>1, <1>5, <1>6, <1>7, DisturbedVotes DEF Tells

\* The last slot is no longer counted.
LEMMA RemoveCountTells ==
  ASSUME Tells, RemoveCount
  PROVE  Tells'
  <1>1. /\ UNCHANGED <<configs, outputs, run, reached, alarmed>> /\ Disturbs
        /\ admin.pc = "uncount" /\ admin' = Unchanging /\ groupCount' = groupCount - 1
    BY DEF RemoveCount, ghosts
  <1>2. /\ admin'.pc = "idle" /\ groupCount > 0
        /\ admin' = [pc |-> admin'.pc, group |-> admin'.group, config |-> admin'.config,
                     slot |-> admin'.slot]
    BY <1>1 DEF Tells, AdminAt, Unchanging
  <1>3. Settled' = Settled /\ \A i \in Settled : OutputAt(i)' = OutputAt(i)
    BY <1>1, <1>2 DEF Settled, OutputAt
  <1>4. groupCount' \in 0..MaxGroups
    BY <1>1, <1>2, VotingAssumption DEF Tells, Shapes
  <1>5. Shapes'
    BY <1>1, <1>2, <1>4, DisturbedVotes DEF Tells, Shapes
  <1>6. AdminAt'
    BY <1>2 DEF AdminAt
  <1>7. SlotsTell'
    BY <1>1, <1>3, AlarmsGoOn DEF Tells, SlotsTell, SlotTells
  <1> QED
    BY <1>1, <1>5, <1>6, <1>7, DisturbedVotes DEF Tells

\* Another configuration for the same group.
LEMMA UpdateTells ==
  ASSUME Tells, NEW g \in Groups, NEW config, Update(g, g, config)
  PROVE  Tells'
  <1>0. PICK s : s = SlotOf(g)
    OBVIOUS
  <1> DEFINE entry == [group |-> g, config |-> config]
  <1>1. /\ UNCHANGED <<groupCount, outputs, admin, run, reached, alarmed>> /\ Disturbs
        /\ admin.pc = "idle" /\ configs' = [configs EXCEPT ![s] = entry]
        /\ s \in 1..groupCount /\ configs[s].group = g
    BY <1>0, SlotIsIts DEF Update, Changes
  <1>2. /\ configs' = [i \in 1..MaxGroups |-> configs'[i]] /\ \A i \in 1..MaxGroups : EntryShaped(configs'[i])
        /\ \A i \in 1..MaxGroups : configs'[i].group = configs[i].group
    <2>1. configs = [i \in 1..MaxGroups |-> configs[i]] /\ \A i \in 1..MaxGroups : EntryShaped(configs[i])
      BY DEF Tells, Shapes
    <2>2. s \in 1..MaxGroups
      BY <1>1, SlotsInUse
    <2>3. EntryShaped(entry) /\ entry.group = configs[s].group
      BY <1>1 DEF EntryShaped
    <2> HIDE DEF entry
    <2>4. configs' = [i \in 1..MaxGroups |-> IF i = s THEN entry ELSE configs[i]]
      BY <1>1, <2>1, <2>2
    <2> QED
      BY <2>1, <2>3, <2>4
  <1>3. Settled' = Settled /\ \A i \in Settled : OutputAt(i)' = OutputAt(i) /\ i \in 1..MaxGroups
    BY <1>1, SlotsInUse DEF Settled, OutputAt
  <1>4. Shapes'
    BY <1>1, <1>2, DisturbedVotes DEF Tells, Shapes
  <1>5. AdminAt'
    BY <1>1 DEF AdminAt
  <1>6. ASSUME NEW i \in Settled PROVE SlotTells(i)'
    <2>1. SlotTells(i)
      BY DEF Tells, SlotsTell
    <2>2. PICK h \in Groups : h = configs[i].group
      BY <2>1 DEF SlotTells
    <2>3. AlarmsTell(h)'
      BY <1>1, <2>1, <2>2, AlarmsGoOn DEF SlotTells
    <2> QED
      BY <1>1, <1>2, <1>3, <2>1, <2>2, <2>3 DEF SlotTells
  <1>7. SlotsTell'
    BY <1>2, <1>3, <1>6 DEF Tells, SlotsTell
  <1> QED
    BY <1>1, <1>4, <1>5, <1>7, DisturbedVotes DEF Tells

\* Every step keeps the invariant, unless it mixes votes.
LEMMA StepRunInv ==
  ASSUME RunInv, [Next]_vars,
         \A v \in Voters : call[v].pc = "vote" /\ ~call[v].stale => LimitIsByte(v)
  PROVE  RunInv'
  <1> SUFFICES ASSUME ~mixed' PROVE Tells'
    BY DEF RunInv
  <1>1. ASSUME NEW v \in Voters, VoteStore(v) PROVE Tells'
    <2>1. ~mixed /\ ~call[v].stale
      BY <1>1 DEF VoteStore
    <2> QED
      BY <1>1, <2>1, StoreTells DEF RunInv
  <1>2. ASSUME ~mixed \/ UNCHANGED mixed, Tells => Tells' PROVE Tells'
    BY <1>2 DEF RunInv
  <1>3. ASSUME NEW r \in Reporters, NEW p \in Points, NEW x \in Values, ReportSet(r, p, x)
        PROVE  Tells'
    <2>1. UNCHANGED mixed
      BY <1>3 DEF ReportSet, ghosts
    <2> QED
      BY <1>2, <1>3, <2>1, ReportTells
  <1>4. CASE \/ \E r \in Reporters : ReportPublish(r) \/ ReportRefused(r) \/ ReportDies(r)
             \/ UNCHANGED vars
    <2>1. UNCHANGED <<engine, admin, call, ghosts>>
      BY <1>4 DEF ReportPublish, ReportRefused, ReportDies, Unpublished, vars
    <2>2. ASSUME Tells PROVE Shapes' /\ \A w \in Voters : Same(w)
      BY <2>1, <2>2 DEF Tells, Shapes, Same, engine, ghosts
    <2> QED
      BY <1>2, <2>1, <2>2, StillTells DEF ghosts
  <1>5. ASSUME NEW v \in Voters,
               (\E g \in Groups : VoteStart(v, g)) \/ VoteRead(v) \/ VoteNotFound(v)
        PROVE  Tells'
    <2>1. UNCHANGED mixed
      BY <1>5 DEF VoteStart, VoteRead, VoteNotFound, ghosts
    <2> QED
      BY <1>2, <1>5, <2>1, EarlyVoteTells
  <1>6. ASSUME NEW v \in Voters, VoteFind(v) \/ VoteDecide(v) PROVE Tells'
    <2>1. UNCHANGED mixed
      BY <1>6 DEF VoteFind, VoteDecide, ghosts
    <2>2. VoteDecide(v) => call[v].pc = "vote"
      BY DEF VoteDecide
    <2> QED
      BY <1>2, <1>6, <2>1, <2>2, FindTells, DecideTells
  <1>7. ASSUME NEW g \in Groups, NEW config, NEW h \in Groups,
               AddCount(g, config) \/ Update(g, h, config)
        PROVE  Tells'
    <2>1. CASE AddCount(g, config)
      <3>1. UNCHANGED mixed
        BY <2>1 DEF AddCount, ghosts
      <3> QED
        BY <1>2, <2>1, <3>1, AddCountTells
    <2>2. CASE Update(g, h, config)
      <3>1. mixed' = (mixed \/ h # g)
        BY <2>2 DEF Update
      <3>2. ~mixed /\ h = g
        BY <3>1
      <3> QED
        BY <1>2, <2>2, <3>2, UpdateTells
    <2> QED
      BY <1>7, <2>1, <2>2
  <1>8. ASSUME NEW g \in Groups, Remove(g) PROVE Tells'
    <2>1. UNCHANGED mixed
      BY <1>8 DEF Remove, ghosts
    <2> QED
      BY <1>2, <1>8, <2>1, RemoveTells
  <1>9. CASE AddConfig \/ AddOutput \/ RemoveMove \/ RemoveCount
    <2>1. UNCHANGED mixed
      BY <1>9 DEF AddConfig, AddOutput, RemoveMove, RemoveCount, ghosts
    <2> QED
      BY <1>2, <1>9, <2>1, AddConfigTells, AddOutputTells, RemoveMoveTells, RemoveCountTells
  <1> QED
    BY <1>1, <1>3, <1>4, <1>5, <1>6, <1>7, <1>8, <1>9 DEF Next

------------------------------------------------------------------------------
(* How two sources that agree carry a vote.                                *)

LEMMA LeastIs ==
  ASSUME NEW S, S \subseteq Nat, S # {}
  PROVE  Min(S) \in S /\ \A y \in S : Min(S) <= y
  <1>1. PICK m \in S : \A n \in S : ~ (<<n, m>> \in OpToRel(<, Nat))
    BY WFMin, NatLessThanWellFounded
  <1>2. ASSUME NEW n \in S PROVE m <= n
    <2>1. ~(n < m)
      BY <1>1 DEF OpToRel
    <2> QED
      BY <2>1
  <1>3. \E x \in S : \A y \in S : x <= y
    BY <1>2
  <1> QED
    BY <1>3 DEF Min

LEMMA LeastOfOne == \A x : Min({x}) = x
  <1> TAKE x
  <1>1. \E y \in {x} : \A z \in {x} : y <= z => y = x
    OBVIOUS
  <1> QED
    BY <1>1 DEF Min

LEMMA TwoAndThree ==
  ASSUME NEW a, NEW b, NEW c, a # b, a # c, b # c
  PROVE  Cardinality({a}) = 1 /\ Cardinality({a, b}) = 2 /\ Cardinality({a, b, c}) = 3
  <1>1. IsFiniteSet({a}) /\ Cardinality({a}) = 1
    BY FS_Singleton
  <1>2. {a, b} = {a} \cup {b} /\ {a, b, c} = {a, b} \cup {c} /\ b \notin {a} /\ c \notin {a, b}
    OBVIOUS
  <1>3. IsFiniteSet({a, b}) /\ Cardinality({a, b}) = 2
    BY <1>1, <1>2, FS_AddElement
  <1>4. Cardinality({a, b, c}) = 3
    BY <1>2, <1>3, FS_AddElement
  <1> QED
    BY <1>1, <1>3, <1>4

\* The sum that an average is made of.
SumOf(s, I) == MapThenSumSet(LAMBDA i : s[i].value, I)
Any(t) == CHOOSE x \in t : TRUE
Adds(f, s, D) == f = [t \in D |-> IF t = {} THEN 0 ELSE s[Any(t)].value + f[t \ {Any(t)}]]

LEMMA SumIs ==
  ASSUME NEW s, NEW I, \E f : Adds(f, s, SUBSET I)
  PROVE  \E f : Adds(f, s, SUBSET I) /\ SumOf(s, I) = f[I]
  <1> DEFINE f == CHOOSE f : Adds(f, s, SUBSET I)
  <1>1. SumOf(s, I) = f[I]
    BY Zenon DEF SumOf, MapThenSumSet, MapThenFoldSet, Adds, Any
  <1>2. Adds(f, s, SUBSET I)
    BY Zenon
  <1> HIDE DEF f
  <1> QED
    BY <1>1, <1>2

\* A sum over some of three sources.
Sum3(x, y, z) == x + y + z

LEMMA SumsAre ==
  ASSUME NEW s, NEW a, NEW b, NEW c, a # b, a # c, b # c,
         s[a].value \in Nat, s[b].value \in Nat, s[c].value \in Nat
  PROVE  /\ SumOf(s, {a, b}) = s[a].value + s[b].value
         /\ SumOf(s, {a, b, c}) = Sum3(s[a].value, s[b].value, s[c].value)
  <1> DEFINE x == s[a].value
             y == s[b].value
             z == s[c].value
             W(t) == (IF a \in t THEN x ELSE 0) + (IF b \in t THEN y ELSE 0)
                     + (IF c \in t THEN z ELSE 0)
  <1>1. ASSUME NEW t \in SUBSET {a, b, c}, t # {}
        PROVE  Any(t) \in t /\ W(t) = s[Any(t)].value + W(t \ {Any(t)})
    <2> DEFINE m == Any(t)
    <2>1. m \in t
      BY <1>1 DEF Any
    <2>2. m = a \/ m = b \/ m = c
      BY <2>1
    <2> DEFINE r == t \ {m}
    <2>3. \A n : n \in r <=> n \in t /\ n # m
      OBVIOUS
    <2>4. x \in Nat /\ y \in Nat /\ z \in Nat
      OBVIOUS
    <2> HIDE DEF m, r
    <2>5. ASSUME m = a PROVE W(t) = s[m].value + W(r)
      <3>1. /\ a \in t /\ a \notin r /\ s[m].value = x
            /\ (b \in r <=> b \in t) /\ (c \in r <=> c \in t)
        BY <2>1, <2>3, <2>5
      <3> HIDE DEF x, y, z
      <3>2. W(t) = x + W(r)
        BY <2>4, <3>1
      <3> QED
        BY <3>1, <3>2
    <2>6. ASSUME m = b PROVE W(t) = s[m].value + W(r)
      <3>1. /\ b \in t /\ b \notin r /\ s[m].value = y
            /\ (a \in r <=> a \in t) /\ (c \in r <=> c \in t)
        BY <2>1, <2>3, <2>6
      <3> HIDE DEF x, y, z
      <3>2. W(t) = y + W(r)
        BY <2>4, <3>1
      <3> QED
        BY <3>1, <3>2
    <2>7. ASSUME m = c PROVE W(t) = s[m].value + W(r)
      <3>1. /\ c \in t /\ c \notin r /\ s[m].value = z
            /\ (a \in r <=> a \in t) /\ (b \in r <=> b \in t)
        BY <2>1, <2>3, <2>7
      <3> HIDE DEF x, y, z
      <3>2. W(t) = z + W(r)
        BY <2>4, <3>1
      <3> QED
        BY <3>1, <3>2
    <2>8. W(t) = s[m].value + W(r)
      BY <2>2, <2>5, <2>6, <2>7
    <2> QED
      BY <2>1, <2>8 DEF m, r
  <1>2. W({}) = 0 /\ W({a, b}) = x + y /\ W({a, b, c}) = x + y + z
    OBVIOUS
  <1> HIDE DEF W
  <1>3. ASSUME NEW I \in SUBSET {a, b, c} PROVE \E f : Adds(f, s, SUBSET I)
    <2> DEFINE f == [t \in SUBSET I |-> W(t)]
    <2>1. ASSUME NEW t \in SUBSET I, t # {}
          PROVE  W(t) = s[Any(t)].value + f[t \ {Any(t)}]
      <3>1. t \in SUBSET {a, b, c} /\ t \ {Any(t)} \in SUBSET I
        OBVIOUS
      <3> QED
        BY <1>1, <2>1, <3>1
    <2>2. f = [t \in SUBSET I |-> IF t = {} THEN 0 ELSE s[Any(t)].value + f[t \ {Any(t)}]]
      BY <1>2, <2>1
    <2>3. Adds(f, s, SUBSET I)
      BY <2>2 DEF Adds
    <2> QED
      BY <2>3
  <1>4. ASSUME NEW I \in SUBSET {a, b, c}, NEW f, Adds(f, s, SUBSET I)
        PROVE  /\ f[{}] = W({})
               /\ \A t \in SUBSET I : t # {} /\ f[t \ {Any(t)}] = W(t \ {Any(t)}) => f[t] = W(t)
    <2>1. \A t \in SUBSET I : f[t] = IF t = {} THEN 0 ELSE s[Any(t)].value + f[t \ {Any(t)}]
      BY <1>4, Zenon DEF Adds
    <2>2. f[{}] = W({})
      BY <1>2, <2>1
    <2>3. ASSUME NEW t \in SUBSET I, t # {}, f[t \ {Any(t)}] = W(t \ {Any(t)}) PROVE f[t] = W(t)
      <3>1. t \in SUBSET {a, b, c}
        OBVIOUS
      <3>2. W(t) = s[Any(t)].value + W(t \ {Any(t)})
        BY <1>1, <2>3, <3>1
      <3> QED
        BY <2>1, <2>3, <3>2
    <2> QED
      BY <2>2, <2>3
  <1>5. \A p, q : {p} \ {Any({p})} = {} /\ {p, q} \ {Any({p, q})} \in {{}, {p}, {q}}
    BY DEF Any
  <1>6. {a, b, c} \ {Any({a, b, c})} \in {{a, b}, {a, c}, {b, c}}
    <2>1. Any({a, b, c}) \in {a, b, c}
      BY DEF Any
    <2> QED
      BY <2>1
  <1>7. SumOf(s, {a, b}) = W({a, b})
    <2> DEFINE I == {a, b}
    <2>1. I \in SUBSET {a, b, c} /\ {a} \in SUBSET I /\ {b} \in SUBSET I /\ I \in SUBSET I
      OBVIOUS
    <2>2. PICK f : Adds(f, s, SUBSET I) /\ SumOf(s, I) = f[I]
      BY <1>3, <2>1, SumIs
    <2>3. /\ f[{}] = W({})
          /\ \A t \in SUBSET I : t # {} /\ f[t \ {Any(t)}] = W(t \ {Any(t)}) => f[t] = W(t)
      BY <1>4, <2>1, <2>2
    <2>4. f[{a}] = W({a}) /\ f[{b}] = W({b})
      BY <1>5, <2>1, <2>3
    <2>5. f[{a, b}] = W({a, b})
      BY <1>5, <2>1, <2>3, <2>4
    <2> QED
      BY <2>2, <2>5
  <1>8. SumOf(s, {a, b, c}) = W({a, b, c})
    <2> DEFINE I == {a, b, c}
    <2>1. /\ I \in SUBSET {a, b, c} /\ {a} \in SUBSET I /\ {b} \in SUBSET I /\ {c} \in SUBSET I
          /\ {a, b} \in SUBSET I /\ {a, c} \in SUBSET I /\ {b, c} \in SUBSET I /\ I \in SUBSET I
      OBVIOUS
    <2>2. PICK f : Adds(f, s, SUBSET I) /\ SumOf(s, I) = f[I]
      BY <1>3, <2>1, SumIs
    <2>3. /\ f[{}] = W({})
          /\ \A t \in SUBSET I : t # {} /\ f[t \ {Any(t)}] = W(t \ {Any(t)}) => f[t] = W(t)
      BY <1>4, <2>1, <2>2
    <2>4. f[{a}] = W({a}) /\ f[{b}] = W({b}) /\ f[{c}] = W({c})
      BY <1>5, <2>1, <2>3
    <2>5. f[{a, b}] = W({a, b}) /\ f[{a, c}] = W({a, c}) /\ f[{b, c}] = W({b, c})
      <3>1. ASSUME NEW p, NEW q, {p, q} \in SUBSET I, f[{p}] = W({p}), f[{q}] = W({q})
            PROVE  f[{p, q}] = W({p, q})
        <4> DEFINE t == {p, q}
                   r == t \ {Any(t)}
        <4>1. r \in {{}, {p}, {q}} /\ t \in SUBSET I /\ t # {}
          BY <1>5, <3>1, Zenon
        <4> HIDE DEF r, t
        <4>2. f[r] = W(r)
          BY <2>3, <3>1, <4>1
        <4>3. f[t] = W(t)
          BY <2>3, <4>1, <4>2 DEF r
        <4> QED
          BY <4>3 DEF t
      <3> QED
        BY <2>1, <2>4, <3>1
    <2>6. f[I] = W(I)
      BY <1>6, <2>1, <2>3, <2>5
    <2> QED
      BY <2>2, <2>6
  <1> QED
    BY <1>2, <1>7, <1>8 DEF Sum3

AgreedOn(s, n) ==
  {x \in {s[m].value : m \in Good(s)} : Cardinality({m \in Good(s) : s[m].value = x}) = n}

LEMMA Thirds ==
  \A i, j \in Sources : i # j =>
    \E k \in Sources :
      /\ k # i /\ k # j /\ Sources = {i, j, k}
      /\ Cardinality({i}) = 1 /\ Cardinality({k}) = 1
      /\ Cardinality({i, j}) = 2 /\ Cardinality({i, j, k}) = 3
  <1> SUFFICES ASSUME NEW i \in Sources, NEW j \in Sources, i # j
               PROVE  \E k \in Sources :
                        /\ k # i /\ k # j /\ Sources = {i, j, k}
                        /\ Cardinality({i}) = 1 /\ Cardinality({k}) = 1
                        /\ Cardinality({i, j}) = 2 /\ Cardinality({i, j, k}) = 3
    OBVIOUS
  <1> DEFINE k == 6 - i - j
  <1>1. k \in Sources /\ k # i /\ k # j /\ Sources = {i, j, k}
    BY DEF Sources
  <1> HIDE DEF k
  <1>2. Cardinality({i, j}) = 2 /\ Cardinality({i, j, k}) = 3 /\ Cardinality({i}) = 1
    BY <1>1, TwoAndThree
  <1>3. Cardinality({k}) = 1
    BY <1>1, TwoAndThree
  <1> QED
    BY <1>1, <1>2, <1>3

\* The third beside two good sources, and which are good.
Third(s, i, j, k) ==
  /\ k # i /\ k # j /\ Sources = {i, j, k}
  /\ Good(s) = IF s[k].good THEN {i, j, k} ELSE {i, j}
  /\ Cardinality({i}) = 1 /\ Cardinality({k}) = 1
  /\ Cardinality({i, j}) = 2 /\ Cardinality({i, j, k}) = 3

LEMMA Three ==
  \A s : \A i, j \in Sources : i # j /\ {i, j} \subseteq Good(s) =>
    \E k \in Sources : Third(s, i, j, k)
  <1> SUFFICES ASSUME NEW s, NEW i \in Sources, NEW j \in Sources, i # j, {i, j} \subseteq Good(s)
               PROVE  \E k \in Sources : Third(s, i, j, k)
    OBVIOUS
  <1>1. PICK k \in Sources :
          /\ k # i /\ k # j /\ Sources = {i, j, k}
          /\ Cardinality({i}) = 1 /\ Cardinality({k}) = 1
          /\ Cardinality({i, j}) = 2 /\ Cardinality({i, j, k}) = 3
    BY Thirds
  <1>2. Good(s) = IF s[k].good THEN {i, j, k} ELSE {i, j}
    BY <1>1 DEF Good
  <1>3. Third(s, i, j, k)
    BY <1>1, <1>2 DEF Third
  <1> QED
    BY <1>3

\* The averages, in sixths.
LEMMA Averages ==
  ASSUME NEW s, \A m \in Sources : s[m].value \in Nat,
         NEW i \in Sources, NEW j \in Sources, NEW k \in Sources, i # j, i # k, j # k
  PROVE  /\ Average(s, {i, j}) = 3 * (s[i].value + s[j].value)
         /\ Average(s, {i, j, k}) = 2 * (s[i].value + s[j].value + s[k].value)
  <1>1. Cardinality({i, j}) = 2 /\ Cardinality({i, j, k}) = 3
    BY TwoAndThree
  <1>2. s[i].value \in Nat /\ s[j].value \in Nat /\ s[k].value \in Nat
    OBVIOUS
  <1>3. /\ SumOf(s, {i, j}) = s[i].value + s[j].value
        /\ SumOf(s, {i, j, k}) = Sum3(s[i].value, s[j].value, s[k].value)
    BY <1>2, SumsAre
  <1>4. /\ Average(s, {i, j}) = (6 \div 2) * SumOf(s, {i, j})
        /\ Average(s, {i, j, k}) = (6 \div 3) * SumOf(s, {i, j, k})
    BY <1>1 DEF Average, SumOf
  <1>5. 6 \div 2 = 3 /\ 6 \div 3 = 2
    OBVIOUS
  <1> QED
    BY <1>2, <1>3, <1>4, <1>5 DEF Sum3

LEMMA PairIsBinary ==
  ASSUME NEW s, NEW config, NEW i \in Sources, NEW j \in Sources, i # j,
         {i, j} \subseteq Good(s)
  PROVE  /\ config.strategy = "priority" /\ config.source = i
              => VoteYX(s, config).value = s[i].value
         /\ config.strategy = "twoOfThree" /\ s[i].value = s[j].value
              => /\ VoteYX(s, config).value = s[i].value
                 /\ VoteYX(s, config).result \in {"UNANIMOUS", "MAJORITY"}
  <1>1. PICK k \in Sources : Third(s, i, j, k)
    BY Three, Zenon
  <1>0. /\ k # i /\ k # j /\ Sources = {i, j, k}
        /\ Good(s) = IF s[k].good THEN {i, j, k} ELSE {i, j}
        /\ Cardinality({i}) = 1 /\ Cardinality({k}) = 1
        /\ Cardinality({i, j}) = 2 /\ Cardinality({i, j, k}) = 3
    BY <1>1 DEF Third
  <1>2. ~(Cardinality(Good(s)) < 2) /\ s[i].good /\ s[j].good
    <2>1. Cardinality(Good(s)) \in {2, 3}
      BY <1>0
    <2>2. s[i].good /\ s[j].good
      BY DEF Good
    <2> QED
      BY <2>1, <2>2
  <1>3. ASSUME config.strategy = "priority", config.source = i
        PROVE  VoteYX(s, config).value = s[i].value
    <2>1. VoteYX(s, config) = Priority(s, i)
      BY <1>2, <1>3 DEF VoteYX
    <2> QED
      BY <1>2, <2>1 DEF Priority
  <1>4. ASSUME config.strategy = "twoOfThree", s[i].value = s[j].value
        PROVE  /\ VoteYX(s, config).value = s[i].value
               /\ VoteYX(s, config).result \in {"UNANIMOUS", "MAJORITY"}
    <2> DEFINE x == s[i].value
               With(y) == {m \in Good(s) : s[m].value = y}
    <2>1. VoteYX(s, config) =
            IF AgreedOn(s, 3) # {} THEN [result |-> "UNANIMOUS", value |-> Min(AgreedOn(s, 3))]
            ELSE IF AgreedOn(s, 2) # {} THEN [result |-> "MAJORITY", value |-> Min(AgreedOn(s, 2))]
            ELSE [result |-> "DISAGREE", value |-> 0]
      BY <1>2, <1>4 DEF VoteYX, TwoOfThree, AgreedOn
    <2>2. \A y : y \in {s[m].value : m \in Good(s)} <=> y = x \/ (s[k].good /\ y = s[k].value)
      BY <1>0, <1>4
    <2>3. \A y : Min({y}) = y /\ {y} # {}
      BY LeastOfOne
    <2>4. CASE s[k].good /\ s[k].value = x
      <3>1. With(x) = {i, j, k}
        BY <1>0, <1>4, <2>4
      <3>2. AgreedOn(s, 3) = {x}
        BY <1>0, <2>2, <2>4, <3>1 DEF AgreedOn
      <3> HIDE DEF x
      <3>3. VoteYX(s, config) = [result |-> "UNANIMOUS", value |-> x]
        BY <2>1, <2>3, <3>2
      <3> QED
        BY <3>3 DEF x
    <2>5. CASE ~(s[k].good /\ s[k].value = x)
      <3>1. Cardinality(With(x)) = 2
        <4>1. With(x) = {i, j}
          BY <1>0, <1>4, <2>5
        <4> QED
          BY <1>0, <4>1
      <3>2. s[k].good => Cardinality(With(s[k].value)) = 1
        <4>1. s[k].good => With(s[k].value) = {k}
          BY <1>0, <1>4, <2>5
        <4> QED
          BY <1>0, <4>1
      <3>3. \A n : AgreedOn(s, n) = {y \in {s[m].value : m \in Good(s)} : Cardinality(With(y)) = n}
        BY DEF AgreedOn
      <3> HIDE DEF With, x
      <3>4. AgreedOn(s, 3) = {}
        BY <2>2, <3>1, <3>2, <3>3
      <3>5. AgreedOn(s, 2) = {x}
        BY <2>2, <3>1, <3>2, <3>3
      <3>6. VoteYX(s, config) = [result |-> "MAJORITY", value |-> x]
        BY <2>1, <2>3, <3>4, <3>5
      <3> QED
        BY <3>6 DEF x
    <2> QED
      BY <2>4, <2>5
  <1> QED
    BY <1>3, <1>4

LEMMA PairIsAnalog ==
  ASSUME NEW s, NEW config, config.limit \in Nat, \A m \in Sources : s[m].value \in Nat,
         NEW i \in Sources, NEW j \in Sources, i # j, {i, j} \subseteq Good(s),
         s[i].value = s[j].value
  PROVE  2 * Distance(VoteYC(s, config).value, 6 * s[i].value) <= 6 * config.limit
  <1> DEFINE x == s[i].value
             limit == config.limit
             all == Average(s, Good(s))
  <1>1. PICK k \in Sources : Third(s, i, j, k)
    BY Three, Zenon
  <1>0. /\ k # i /\ k # j /\ Sources = {i, j, k}
        /\ Good(s) = IF s[k].good THEN {i, j, k} ELSE {i, j}
        /\ Cardinality({i, j}) = 2 /\ Cardinality({i, j, k}) = 3
    BY <1>1 DEF Third
  <1> DEFINE z == s[k].value
  <1>2. i # k /\ j # k
    BY <1>0
  <1>3. x \in Nat /\ z \in Nat /\ limit \in Nat /\ s[j].value = x
    BY <1>0
  <1>4. /\ Average(s, {i, j}) = 3 * (s[i].value + s[j].value)
        /\ Average(s, {i, j, k}) = 2 * (s[i].value + s[j].value + s[k].value)
    BY <1>2, Averages
  <1>7. Average(s, {i, j}) = 6 * x /\ Average(s, {i, j, k}) = 4 * x + 2 * z
    BY <1>3, <1>4
  <1>8. CASE ~s[k].good
    <2>1. Good(s) = {i, j}
      BY <1>0, <1>8
    <2>2. VoteYC(s, config).value = 6 * x
      <3>1. Cardinality(Good(s)) = 2
        BY <1>0, <2>1
      <3>2. VoteYC(s, config).value = all
        BY <3>1 DEF VoteYC
      <3> QED
        BY <1>7, <2>1, <3>2
    <2>3. Distance(6 * x, 6 * x) = 0
      BY <1>3 DEF Distance
    <2> QED
      BY <1>3, <2>2, <2>3
  <1>9. CASE s[k].good
    <2> DEFINE off(m) == Off(s, m, all)
               near == \A m \in Good(s) : off(m) <= 6 * limit
               F == {m \in Good(s) : \A n \in Good(s) : off(n) <= off(m)}
    <2>1. Good(s) = {i, j, k} /\ all = 4 * x + 2 * z
      BY <1>0, <1>7, <1>9
    <2>2. VoteYC(s, config).value = IF near THEN all ELSE Average(s, Good(s) \ {Min(F)})
      <3>1. Cardinality(Good(s)) = 3
        BY <1>0, <2>1
      <3> QED
        BY <3>1 DEF VoteYC
    <2>3. /\ off(i) = Distance(6 * x, 4 * x + 2 * z) /\ off(j) = Distance(6 * x, 4 * x + 2 * z)
          /\ off(k) = Distance(6 * z, 4 * x + 2 * z)
      BY <1>3, <2>1 DEF Off
    <2>4. /\ Distance(6 * x, 4 * x + 2 * z) \in Nat /\ Distance(6 * z, 4 * x + 2 * z) \in Nat
          /\ Distance(6 * z, 4 * x + 2 * z) = 2 * Distance(6 * x, 4 * x + 2 * z)
          /\ Distance(4 * x + 2 * z, 6 * x) = Distance(6 * x, 4 * x + 2 * z)
          /\ Distance(6 * x, 6 * x) = 0
      BY <1>3 DEF Distance
    <2> HIDE DEF all, off
    <2>5. CASE near
      <3>1. off(k) <= 6 * limit
        BY <2>1, <2>5
      <3> QED
        BY <1>3, <2>1, <2>2, <2>3, <2>4, <2>5, <3>1
    <2>6. CASE ~near
      <3>1. off(i) # 0
        <4> SUFFICES ASSUME off(i) = 0 PROVE near
          BY <2>6
        <4>1. off(j) = 0 /\ off(k) = 0
          BY <2>3, <2>4
        <4> QED
          BY <1>3, <2>1, <4>1
      <3>2. F = {k}
        <4>1. off(i) < off(k) /\ off(j) < off(k) /\ off(i) \in Nat /\ off(j) \in Nat /\ off(k) \in Nat
          BY <2>3, <2>4, <3>1
        <4> QED
          BY <2>1, <4>1
      <3>3. Min(F) = k
        BY <3>2, LeastOfOne
      <3>4. Good(s) \ {k} = {i, j}
        BY <1>0, <2>1
      <3>5. VoteYC(s, config).value = 6 * x
        BY <1>7, <2>2, <2>6, <3>3, <3>4
      <3> QED
        BY <1>3, <2>4, <3>5
    <2> QED
      BY <2>5, <2>6
  <1> QED
    BY <1>8, <1>9

------------------------------------------------------------------------------
(* What votes see.  The invariant says, whether or not votes were mixed,   *)
(* that what a vote has read of the points that did not change meanwhile   *)
(* is what they are, and that a decision which nothing disturbed is the    *)
(* one on what was read, by the configuration that the slot still has.     *)

VoteOf(s, config) == IF kind = "YX" THEN VoteYX(s, config) ELSE VoteYC(s, config)

ConfigsSound ==
  /\ kind \in {"YX", "YC"}
  /\ groupCount \in Int /\ groupCount <= MaxGroups
  /\ configs = [i \in 1..MaxGroups |-> configs[i]]
  /\ \A i \in 1..MaxGroups :
       EntryShaped(configs[i]) /\ (configs[i].group # None => configs[i].config \in Configs[kind])
  /\ admin = [pc |-> admin.pc, group |-> admin.group, config |-> admin.config, slot |-> admin.slot]
  /\ admin.pc = "config" => admin.config \in Configs[kind]

\* What was read of points that nothing set since the vote began.
Reads(c) ==
  /\ c.group \in Groups /\ c.keys \in [Sources -> Points] /\ c.got \in Seq(Values)
  /\ Len(c.got) \in IF c.pc = "read" THEN 0..2 ELSE {3}
  /\ \A i \in 1..Len(c.got) :
       c.keys[i] \notin c.moved => c.got[i] = points[c.keys[i]]
Follows(c) ==
  /\ configs[c.slot].config \in Configs[kind]
  /\ c.pc = "store" =>
       /\ c.out.value = VoteOf(c.got, configs[c.slot].config).value
       /\ c.out.result = VoteOf(c.got, configs[c.slot].config).result
VoteSees(v) ==
  /\ CallShaped(call[v]) /\ call[v].pc \in {"idle", "read", "find", "vote", "store"}
  /\ call[v].pc # "idle" => Reads(call[v])
  /\ Found(v) /\ ~call[v].stale => Follows(call[v])

SeesInv ==
  /\ ConfigsSound
  /\ call = [v \in Voters |-> call[v]] /\ \A v \in Voters : VoteSees(v)

------------------------------------------------------------------------------
LEMMA InitSees == Init => SeesInv
  <1> SUFFICES ASSUME Init PROVE SeesInv
    OBVIOUS
  <1>1. PICK g \in Groups, config \in Configs[kind] :
          configs = [i \in 1..MaxGroups |->
                       IF i = 1 THEN [group |-> g, config |-> config] ELSE NoConfig]
    BY DEF Init
  <1>2. /\ kind \in {"YX", "YC"} /\ groupCount = 1 /\ admin = Unchanging
        /\ call = [v \in Voters |-> Idle]
    BY DEF Init
  <1>3. groupCount \in Int /\ groupCount <= MaxGroups
    BY <1>2, VotingAssumption
  <1>4. /\ configs = [i \in 1..MaxGroups |-> configs[i]]
        /\ \A i \in 1..MaxGroups :
             EntryShaped(configs[i]) /\ (configs[i].group # None => configs[i].config \in Configs[kind])
    BY <1>1 DEF NoConfig, EntryShaped
  <1>5. ConfigsSound
    BY <1>2, <1>3, <1>4 DEF ConfigsSound, Unchanging
  <1>6. CallShaped(Idle) /\ Idle.pc = "idle"
    BY DEF CallShaped, Idle
  <1>7. \A v \in Voters : VoteSees(v)
    BY <1>2, <1>6 DEF VoteSees, Found
  <1> QED
    BY <1>2, <1>5, <1>7 DEF SeesInv

\* A point that is set is noted in the votes that go on meanwhile.
LEMMA ReportSees ==
  ASSUME SeesInv, IInv, NEW r \in Reporters, NEW p \in Points, NEW x \in Values, ReportSet(r, p, x)
  PROVE  SeesInv'
  <1>1. /\ call' = [v \in Voters |-> IF call[v].pc = "idle" THEN call[v]
                                     ELSE [call[v] EXCEPT !.moved = @ \cup {p}]]
        /\ points' = [points EXCEPT ![p] = x]
        /\ UNCHANGED <<kind, groupCount, configs, admin>>
    BY DEF ReportSet, engine
  <1>2. ConfigsSound'
    BY <1>1 DEF SeesInv, ConfigsSound
  <1>3. \A u \in Points : u # p => points'[u] = points[u]
    BY <1>1 DEF IInv, ReportsOK
  <1>4. ASSUME NEW v \in Voters PROVE VoteSees(v)'
    <2>1. CASE call[v].pc = "idle"
      BY <1>1, <2>1 DEF SeesInv, VoteSees, Found
    <2>2. CASE call[v].pc # "idle"
      <3> DEFINE c == call[v]
                 moved == c.moved \cup {p}
                 d == [c EXCEPT !.moved = moved]
      <3>1. call'[v] = d /\ VoteSees(v) /\ CallShaped(c)
        BY <1>1, <2>2 DEF SeesInv, VoteSees
      <3>2. p \in moved /\ \A u : u \notin moved => u \notin c.moved
        OBVIOUS
      <3> HIDE DEF moved
      <3>3. /\ CallShaped(d) /\ d.pc = c.pc /\ d.group = c.group /\ d.keys = c.keys /\ d.got = c.got
            /\ d.slot = c.slot /\ d.out = c.out /\ d.moved = moved /\ d.stale = c.stale
        BY <3>1 DEF CallShaped
      <3> HIDE DEF d
      <3>4. Reads(call[v])'
        <4>1. Reads(c)
          BY <2>2, <3>1 DEF VoteSees
        <4>2. \A i \in 1..Len(c.got) : i \in Sources
          BY <4>1 DEF Reads, Sources
        <4>3. ASSUME NEW i \in 1..Len(c.got), c.keys[i] \notin moved
              PROVE  c.got[i] = points'[c.keys[i]]
          <5>1. c.keys[i] \in Points
            BY <4>1, <4>2 DEF Reads
          <5> QED
            BY <1>3, <3>2, <4>1, <4>3, <5>1 DEF Reads
        <4> QED
          BY <3>1, <3>3, <4>1, <4>3 DEF Reads
      <3>5. ASSUME (Found(v) /\ ~call[v].stale)' PROVE Follows(call[v])'
        <4>1. Follows(c)
          BY <3>1, <3>3, <3>5 DEF VoteSees, Found
        <4> QED
          BY <1>1, <3>1, <3>3, <4>1 DEF Follows, VoteOf
      <3> QED
        BY <3>1, <3>3, <3>4, <3>5 DEF VoteSees
    <2> QED
      BY <2>1, <2>2
  <1>5. call' = [v \in Voters |-> call'[v]]
    BY <1>1
  <1> QED
    BY <1>2, <1>4, <1>5 DEF SeesInv

\* A vote that is over, or goes on as it was unless its slot changed, or is disturbed.
LEMMA OneSees ==
  ASSUME SeesInv, NEW w \in Voters, UNCHANGED <<kind, points>>,
         \/ call'[w] = Idle
         \/ call'[w] = call[w] /\ (Found(w) => UNCHANGED configs)
         \/ call'[w] = [call[w] EXCEPT !.stale = TRUE]
  PROVE  VoteSees(w)'
  <1>1. VoteSees(w) /\ CallShaped(call[w])
    BY DEF SeesInv, VoteSees
  <1>2. CASE call'[w] = Idle
    <2>1. CallShaped(Idle) /\ Idle.pc = "idle"
      BY DEF CallShaped, Idle
    <2> QED
      BY <1>2, <2>1 DEF VoteSees, Found
  <1>3. CASE call'[w] = call[w] /\ (Found(w) => UNCHANGED configs)
    <2>1. Reads(call[w]) => Reads(call[w])'
      BY <1>3 DEF Reads
    <2>2. Found(w)' <=> Found(w)
      BY <1>3 DEF Found
    <2>3. Found(w) /\ Follows(call[w]) => Follows(call[w])'
      BY <1>3 DEF Follows, VoteOf
    <2> QED
      BY <1>1, <1>3, <2>1, <2>2, <2>3 DEF VoteSees
  <1>4. CASE call'[w] = [call[w] EXCEPT !.stale = TRUE]
    <2> DEFINE c == call[w]
               yes == TRUE
               d == [c EXCEPT !.stale = yes]
    <2>1. call'[w] = d /\ yes
      BY <1>4
    <2> HIDE DEF yes
    <2>2. /\ CallShaped(d) /\ d.pc = c.pc /\ d.group = c.group /\ d.keys = c.keys /\ d.got = c.got
          /\ d.moved = c.moved /\ d.stale = yes
      BY <1>1 DEF CallShaped
    <2> HIDE DEF d
    <2>3. c.pc # "idle" => Reads(call[w])'
      BY <1>1, <2>1, <2>2 DEF VoteSees, Reads
    <2> QED
      BY <1>1, <2>1, <2>2, <2>3 DEF VoteSees
  <1> QED
    BY <1>2, <1>3, <1>4

\* A vote that goes on.
LEMMA GoesSees ==
  ASSUME SeesInv, NEW v \in Voters, NEW c, Goes(v, c),
         UNCHANGED <<kind, points, groupCount, configs, admin>>,
         CallShaped(c), c.pc \in {"idle", "read", "find", "vote", "store"},
         c.pc # "idle" => Reads(c),
         c.pc \in {"vote", "store"} /\ ~c.stale => Follows(c)
  PROVE  SeesInv'
  <1>1. call' = [w \in Voters |-> IF w = v THEN c ELSE call[w]]
    BY DEF SeesInv, Goes
  <1>2. ConfigsSound' /\ call' = [w \in Voters |-> call'[w]]
    BY <1>1 DEF SeesInv, ConfigsSound
  <1>3. ASSUME NEW w \in Voters, w # v PROVE VoteSees(w)'
    BY <1>1, <1>3, OneSees
  <1>4. VoteSees(v)'
    <2>1. call'[v] = c
      BY <1>1
    <2>2. c.pc # "idle" => Reads(call[v])'
      BY <2>1 DEF Reads
    <2>3. c.pc \in {"vote", "store"} /\ ~c.stale => Follows(call[v])'
      BY <2>1 DEF Follows, VoteOf
    <2> QED
      BY <2>1, <2>2, <2>3 DEF VoteSees, Found
  <1> QED
    BY <1>2, <1>3, <1>4 DEF SeesInv

\* The first slot that has the group.
LEMMA SlotHasIt ==
  ASSUME ConfigsSound, NEW g \in Groups, Has(g)
  PROVE  SlotOf(g) \in 1..MaxGroups /\ SlotOf(g) <= groupCount /\ configs[SlotOf(g)].group = g
  <1> DEFINE At == {i \in 1..groupCount : configs[i].group = g}
  <1>1. At # {} /\ At \subseteq Nat
    <2>1. PICK i \in 1..groupCount : configs[i].group = g
      BY DEF Has
    <2>2. 1..groupCount \subseteq Nat
      BY DEF ConfigsSound
    <2> QED
      BY <2>1, <2>2
  <1>2. Min(At) \in At
    BY <1>1, LeastIs
  <1>3. SlotOf(g) = Min(At)
    BY DEF SlotOf
  <1> QED
    BY <1>2, <1>3, VotingAssumption DEF ConfigsSound

\* What the configuration of a group that was found is like.
LEMMA FoundConfig ==
  ASSUME ConfigsSound, NEW g \in Groups, Has(g)
  PROVE  configs[SlotOf(g)].config \in Configs[kind]
  <1> DEFINE i == SlotOf(g)
  <1>1. i \in 1..MaxGroups /\ configs[i].group = g
    BY SlotHasIt
  <1> HIDE DEF i
  <1>2. configs[i].config \in Configs[kind]
    BY <1>1, VotingAssumption DEF ConfigsSound
  <1> QED
    BY <1>2 DEF i

\* The group has been found: nothing is read yet.
LEMMA StartSees ==
  ASSUME SeesInv, NEW v \in Voters, NEW g \in Groups, VoteStart(v, g)
  PROVE  SeesInv'
  <1> DEFINE keys == configs[SlotOf(g)].config.keys
             a == [Idle EXCEPT !.pc = "read"]
             b == [a EXCEPT !.group = g]
             c == [b EXCEPT !.keys = keys]
  <1>1. Goes(v, c) /\ UNCHANGED <<kind, points, groupCount, configs, admin>> /\ Has(g)
    BY DEF VoteStart, pool, engine
  <1>2. keys \in [Sources -> Points]
    <2>1. configs[SlotOf(g)].config \in Configs[kind] /\ kind \in {"YX", "YC"}
      BY <1>1, FoundConfig DEF SeesInv, ConfigsSound
    <2> QED
      BY <2>1, ConfigAssumption
  <1> HIDE DEF keys
  <1>3. CallShaped(c) /\ c.pc = "read" /\ c.group = g /\ c.keys = keys /\ c.got = <<>>
    <2>1. CallShaped(Idle) /\ Idle.got = <<>>
      BY DEF CallShaped, Idle
    <2>2. CallShaped(a) /\ a.pc = "read" /\ a.got = <<>>
      BY <2>1 DEF CallShaped
    <2> HIDE DEF a
    <2>3. CallShaped(b) /\ b.pc = "read" /\ b.group = g /\ b.got = <<>>
      BY <2>2 DEF CallShaped
    <2> HIDE DEF b
    <2> QED
      BY <2>3 DEF CallShaped
  <1> HIDE DEF c
  <1>4. Reads(c)
    BY <1>2, <1>3 DEF Reads
  <1> QED
    BY <1>1, <1>3, <1>4, GoesSees

\* One more source is read.
LEMMA ReadSees ==
  ASSUME SeesInv, IInv, NEW v \in Voters, VoteRead(v)
  PROVE  SeesInv'
  <1> DEFINE i == Len(call[v].got) + 1
             x == points[call[v].keys[i]]
             got == Append(call[v].got, x)
             pc == IF i = 3 THEN "find" ELSE call[v].pc
             b == [call[v] EXCEPT !.got = got]
             c == [b EXCEPT !.pc = pc]
  <1>1. CallShaped(call[v]) /\ call[v].pc = "read" /\ Reads(call[v])
    BY DEF SeesInv, VoteSees, VoteRead
  <1>2. Goes(v, c) /\ UNCHANGED <<kind, points, groupCount, configs, admin>>
    <2>1. Goes(v, [call[v] EXCEPT !.got = got, !.pc = pc])
      BY DEF VoteRead
    <2>2. UNCHANGED <<kind, points, groupCount, configs, admin>>
      BY DEF VoteRead, pool, engine
    <2> QED
      BY <2>1, <2>2
  <1>3. i \in Sources /\ i = Len(call[v].got) + 1 /\ call[v].group \in Groups /\ call[v].got \in Seq(Values)
    BY <1>1 DEF Reads, Sources
  <1>4. x \in Values /\ x = points[call[v].keys[i]]
    <2>1. call[v].keys[i] \in Points
      BY <1>1, <1>3 DEF Reads
    <2> QED
      BY <2>1 DEF IInv, ReportsOK
  <1>5. pc = IF i = 3 THEN "find" ELSE "read"
    BY <1>1
  <1> HIDE DEF i, x
  <1>6. /\ got \in Seq(Values) /\ Len(got) = i /\ got[i] = x
        /\ \A j \in 1..Len(got) : j # i => j \in 1..Len(call[v].got) /\ got[j] = call[v].got[j]
    BY <1>3, <1>4
  <1> HIDE DEF got, pc
  <1>7. /\ CallShaped(c) /\ c.pc = pc /\ c.group = call[v].group /\ c.keys = call[v].keys
        /\ c.got = got /\ c.moved = call[v].moved
    <2>1. /\ CallShaped(b) /\ b.group = call[v].group /\ b.keys = call[v].keys
          /\ b.got = got /\ b.moved = call[v].moved
      BY <1>1 DEF CallShaped
    <2> HIDE DEF b
    <2> QED
      BY <2>1 DEF CallShaped
  <1> HIDE DEF c
  <1>8. Reads(c)
    <2>1. Len(c.got) \in IF c.pc = "read" THEN 0..2 ELSE {3}
      <3>1. Len(c.got) = i /\ i \in 1..3 /\ c.pc = IF i = 3 THEN "find" ELSE "read"
        BY <1>3, <1>5, <1>6, <1>7 DEF Sources
      <3>2. i = 3 \/ i \in 0..2
        BY <3>1
      <3> QED
        BY <3>1, <3>2
    <2>2. ASSUME NEW j \in 1..Len(c.got), c.keys[j] \notin c.moved
          PROVE  c.got[j] = points[c.keys[j]]
      BY <1>1, <1>4, <1>6, <1>7, <2>2 DEF Reads
    <2> QED
      BY <1>1, <1>3, <1>6, <1>7, <2>1, <2>2 DEF Reads
  <1> QED
    BY <1>2, <1>5, <1>7, <1>8, GoesSees

\* A vote finds a slot with a configuration for its type.
LEMMA FindSees ==
  ASSUME SeesInv, NEW v \in Voters, VoteFind(v)
  PROVE  SeesInv'
  <1> DEFINE i == SlotOf(call[v].group)
             prev == outputs[i].count
             stale == admin.pc # "idle"
             a == [call[v] EXCEPT !.pc = "vote"]
             b == [a EXCEPT !.slot = i]
             d == [b EXCEPT !.prev = prev]
             c == [d EXCEPT !.stale = stale]
  <1>1. CallShaped(call[v]) /\ call[v].pc = "find" /\ Reads(call[v]) /\ Has(call[v].group)
    BY DEF SeesInv, VoteSees, VoteFind
  <1>2. Goes(v, c) /\ UNCHANGED <<kind, points, groupCount, configs, admin>>
    BY DEF VoteFind, pool, engine
  <1>3. configs[i].config \in Configs[kind]
    BY <1>1, FoundConfig DEF SeesInv, Reads
  <1> HIDE DEF i, prev, stale
  <1>4. /\ CallShaped(c) /\ c.pc = "vote" /\ c.group = call[v].group
        /\ c.keys = call[v].keys /\ c.got = call[v].got
        /\ c.slot = i /\ c.moved = call[v].moved
    <2>1. /\ CallShaped(a) /\ a.pc = "vote" /\ a.group = call[v].group
          /\ a.keys = call[v].keys /\ a.got = call[v].got
          /\ a.moved = call[v].moved
      BY <1>1 DEF CallShaped
    <2> HIDE DEF a
    <2>2. /\ CallShaped(b) /\ b.pc = "vote" /\ b.group = call[v].group
          /\ b.keys = call[v].keys /\ b.got = call[v].got
          /\ b.moved = call[v].moved /\ b.slot = i
      BY <2>1 DEF CallShaped
    <2> HIDE DEF b
    <2>3. /\ CallShaped(d) /\ d.pc = "vote" /\ d.group = call[v].group
          /\ d.keys = call[v].keys /\ d.got = call[v].got
          /\ d.moved = call[v].moved /\ d.slot = i
      BY <2>2 DEF CallShaped
    <2> HIDE DEF d
    <2> QED
      BY <2>3 DEF CallShaped
  <1> HIDE DEF c
  <1>5. Reads(c) /\ Follows(c)
    BY <1>1, <1>3, <1>4 DEF Reads, Follows
  <1> QED
    BY <1>2, <1>4, <1>5, GoesSees

\* The decision is the one on what was read.
LEMMA DecideSees ==
  ASSUME SeesInv, NEW v \in Voters, VoteDecide(v)
  PROVE  SeesInv'
  <1> DEFINE config == configs[call[v].slot].config
             out == Output(call[v], config)
             b == [call[v] EXCEPT !.pc = "store"]
             c == [b EXCEPT !.out = out]
  <1>1. CallShaped(call[v]) /\ call[v].pc = "vote" /\ VoteSees(v) /\ Reads(call[v])
    BY DEF SeesInv, VoteSees, VoteDecide
  <1>2. Goes(v, c) /\ UNCHANGED <<kind, points, groupCount, configs, admin>>
    BY DEF VoteDecide, pool, engine
  <1>3. out.value = VoteOf(call[v].got, config).value /\ out.result = VoteOf(call[v].got, config).result
    BY DEF Output, VoteOf
  <1> HIDE DEF out
  <1>4. /\ CallShaped(c) /\ c.pc = "store" /\ c.group = call[v].group
        /\ c.keys = call[v].keys /\ c.got = call[v].got
        /\ c.slot = call[v].slot /\ c.moved = call[v].moved /\ c.out = out /\ c.stale = call[v].stale
    <2>1. /\ CallShaped(b) /\ b.pc = "store" /\ b.group = call[v].group
          /\ b.keys = call[v].keys /\ b.got = call[v].got
          /\ b.slot = call[v].slot /\ b.moved = call[v].moved /\ b.stale = call[v].stale
      BY <1>1 DEF CallShaped
    <2> HIDE DEF b
    <2> QED
      BY <2>1 DEF CallShaped
  <1> HIDE DEF c
  <1>5. Reads(c)
    BY <1>1, <1>4 DEF Reads
  <1>6. ~c.stale => Follows(c)
    <2>1. ~c.stale => config \in Configs[kind]
      BY <1>1, <1>4 DEF VoteSees, Found, Follows
    <2> QED
      BY <1>3, <1>4, <2>1 DEF Follows
  <1> QED
    BY <1>2, <1>4, <1>5, <1>6, GoesSees

\* The output is stored: the vote is over, and others of its group are disturbed.
LEMMA StoreSees ==
  ASSUME SeesInv, NEW v \in Voters, VoteStore(v)
  PROVE  SeesInv'
  <1>1. /\ UNCHANGED <<kind, points, groupCount, configs, admin>>
        /\ call' = [w \in Voters |->
                      IF w = v THEN Idle
                      ELSE IF Found(w) /\ call[w].group = call[v].group
                           THEN [call[w] EXCEPT !.stale = TRUE] ELSE call[w]]
    BY DEF VoteStore, pool
  <1>2. ConfigsSound' /\ call' = [w \in Voters |-> call'[w]]
    BY <1>1 DEF SeesInv, ConfigsSound
  <1>3. ASSUME NEW w \in Voters PROVE VoteSees(w)'
    BY <1>1, OneSees
  <1> QED
    BY <1>2, <1>3 DEF SeesInv

\* Groups change: votes that have found their slot are disturbed.
LEMMA ChangeSees ==
  ASSUME SeesInv, ConfigsSound', Disturbs, UNCHANGED <<kind, points>>
  PROVE  SeesInv'
  <1>1. call' = [w \in Voters |-> IF Found(w) THEN [call[w] EXCEPT !.stale = TRUE] ELSE call[w]]
    BY DEF Disturbs
  <1>2. ASSUME NEW w \in Voters PROVE VoteSees(w)'
    BY <1>1, OneSees
  <1> QED
    BY <1>1, <1>2 DEF SeesInv

\* A configuration that comes into a slot is one for the type of the groups.
LEMMA ConfigsStaySound ==
  ASSUME ConfigsSound, NEW i, NEW e, EntryShaped(e), e.group # None => e.config \in Configs[kind],
         configs' = [configs EXCEPT ![i] = e], UNCHANGED kind
  PROVE  /\ configs' = [j \in 1..MaxGroups |-> configs'[j]]
         /\ \A j \in 1..MaxGroups :
              EntryShaped(configs'[j]) /\ (configs'[j].group # None => configs'[j].config \in Configs[kind])
  <1>1. configs' = [j \in 1..MaxGroups |-> IF j = i THEN e ELSE configs[j]]
    BY DEF ConfigsSound
  <1> QED
    BY <1>1 DEF ConfigsSound

\* The first steps of the calls that change groups.
LEMMA ChangesAreSound ==
  ASSUME SeesInv, NEW g \in Groups,
         \/ \E config \in Configs[kind] :
              AddCount(g, config) \/ \E h \in Groups : Update(g, h, config)
         \/ Remove(g)
  PROVE  ConfigsSound'
  <1>1. ConfigsSound
    BY DEF SeesInv
  <1>2. ASSUME NEW config \in Configs[kind], AddCount(g, config) PROVE ConfigsSound'
    <2>1. /\ groupCount < MaxGroups /\ groupCount' = groupCount + 1 /\ UNCHANGED <<kind, configs>>
          /\ admin' = [pc |-> "config", group |-> g, config |-> config, slot |-> groupCount']
      BY <1>2 DEF AddCount, pool
    <2>2. groupCount' \in Int /\ groupCount' <= MaxGroups
      BY <1>1, <2>1, VotingAssumption DEF ConfigsSound
    <2> QED
      BY <1>1, <2>1, <2>2 DEF ConfigsSound
  <1>3. ASSUME NEW config \in Configs[kind], NEW h \in Groups, Update(g, h, config)
        PROVE  ConfigsSound'
    <2> DEFINE i == SlotOf(g)
               e == [group |-> h, config |-> config]
    <2>1. configs' = [configs EXCEPT ![i] = e] /\ UNCHANGED <<kind, groupCount, admin>>
      BY <1>3 DEF Update, pool
    <2>2. EntryShaped(e) /\ e.config = config
      BY DEF EntryShaped
    <2> HIDE DEF i, e
    <2> QED
      BY <1>1, <2>1, <2>2, ConfigsStaySound DEF ConfigsSound
  <1>4. CASE Remove(g)
    <2> DEFINE i == SlotOf(g)
               e == configs[groupCount]
               moving == [pc |-> "move", group |-> None, config |-> None, slot |-> i]
    <2>1. configs' = [configs EXCEPT ![i] = e] /\ UNCHANGED <<kind, groupCount>> /\ Has(g)
      BY <1>4 DEF Remove, pool
    <2>2. admin' = [Unchanging EXCEPT !.pc = "move", !.slot = i]
      BY <1>4 DEF Remove
    <2>3. i \in 1..MaxGroups /\ i <= groupCount
      BY <1>1, <2>1, SlotHasIt
    <2> HIDE DEF i
    <2>4. admin' = moving
      BY <2>2 DEF Unchanging
    <2>5. groupCount \in 1..MaxGroups
      BY <1>1, <2>3, VotingAssumption DEF ConfigsSound
    <2>6. EntryShaped(e) /\ (e.group # None => e.config \in Configs[kind])
      BY <1>1, <2>5 DEF ConfigsSound
    <2> HIDE DEF e
    <2> QED
      BY <1>1, <2>1, <2>4, <2>6, ConfigsStaySound DEF ConfigsSound
  <1> QED
    BY <1>2, <1>3, <1>4

\* Their other steps.
LEMMA AdminIsSound ==
  ASSUME SeesInv, AddConfig \/ AddOutput \/ RemoveMove \/ RemoveCount
  PROVE  ConfigsSound'
  <1>1. ConfigsSound
    BY DEF SeesInv
  <1>2. CASE AddConfig
    <2> DEFINE e == [group |-> admin.group, config |-> admin.config]
    <2>1. /\ configs' = [configs EXCEPT ![admin.slot] = e] /\ UNCHANGED <<kind, groupCount>>
          /\ admin' = [admin EXCEPT !.pc = "output"] /\ admin.pc = "config"
      BY <1>2 DEF AddConfig, pool
    <2>2. EntryShaped(e) /\ e.config \in Configs[kind]
      BY <1>1, <2>1 DEF ConfigsSound, EntryShaped
    <2> HIDE DEF e
    <2>3. /\ admin' = [pc |-> admin'.pc, group |-> admin'.group, config |-> admin'.config, slot |-> admin'.slot]
          /\ admin'.pc = "output"
      BY <1>1, <2>1 DEF ConfigsSound
    <2> QED
      BY <1>1, <2>1, <2>2, <2>3, ConfigsStaySound DEF ConfigsSound
  <1>3. CASE AddOutput \/ RemoveCount
    <2>1. UNCHANGED <<kind, configs>> /\ admin' = Unchanging /\ groupCount' \in {groupCount, groupCount - 1}
      BY <1>3 DEF AddOutput, RemoveCount, pool
    <2>2. groupCount' \in Int /\ groupCount' <= MaxGroups
      BY <1>1, <2>1, VotingAssumption DEF ConfigsSound
    <2> QED
      BY <1>1, <2>1, <2>2 DEF ConfigsSound, Unchanging
  <1>4. CASE RemoveMove
    <2>1. UNCHANGED <<kind, configs, groupCount>> /\ admin' = [admin EXCEPT !.pc = "uncount"]
      BY <1>4 DEF RemoveMove, pool
    <2>2. /\ admin' = [pc |-> admin'.pc, group |-> admin'.group, config |-> admin'.config, slot |-> admin'.slot]
          /\ admin'.pc = "uncount"
      BY <1>1, <2>1 DEF ConfigsSound
    <2> QED
      BY <1>1, <2>1, <2>2 DEF ConfigsSound
  <1> QED
    BY <1>2, <1>3, <1>4

LEMMA StepSees == SeesInv /\ IInv /\ [Next]_vars => SeesInv'
  <1> SUFFICES ASSUME SeesInv, IInv, [Next]_vars PROVE SeesInv'
    OBVIOUS
  <1>1. ASSUME NEW r \in Reporters, NEW p \in Points, NEW x \in Values, ReportSet(r, p, x)
        PROVE  SeesInv'
    BY <1>1, ReportSees
  <1>2. CASE \/ \E r \in Reporters : ReportPublish(r) \/ ReportRefused(r) \/ ReportDies(r)
             \/ (\E v \in Voters : VoteNotFound(v)) \/ UNCHANGED vars
    <2>1. /\ UNCHANGED <<kind, points, groupCount, configs, admin>>
          /\ call' = call \/ \E v \in Voters : Goes(v, Idle)
      BY <1>2 DEF ReportPublish, ReportRefused, ReportDies, Unpublished, VoteNotFound, vars, pool, engine
    <2>2. ConfigsSound'
      BY <2>1 DEF SeesInv, ConfigsSound
    <2>3. call' = [w \in Voters |-> call'[w]] /\ \A w \in Voters : call'[w] \in {Idle, call[w]}
      BY <2>1 DEF SeesInv, Goes
    <2>4. ASSUME NEW w \in Voters PROVE VoteSees(w)'
      BY <2>1, <2>3, OneSees
    <2> QED
      BY <2>2, <2>3, <2>4 DEF SeesInv
  <1>3. ASSUME NEW v \in Voters,
               \/ \E g \in Groups : VoteStart(v, g)
               \/ VoteRead(v) \/ VoteFind(v) \/ VoteDecide(v) \/ VoteStore(v)
        PROVE  SeesInv'
    BY <1>3, StartSees, ReadSees, FindSees, DecideSees, StoreSees
  <1>4. ASSUME NEW g \in Groups,
               \/ \E config \in Configs[kind] :
                    AddCount(g, config) \/ \E h \in Groups : Update(g, h, config)
               \/ Remove(g)
        PROVE  SeesInv'
    <2>1. Disturbs /\ UNCHANGED <<kind, points>>
      BY <1>4 DEF AddCount, Update, Remove, pool
    <2> QED
      BY <1>4, <2>1, ChangesAreSound, ChangeSees
  <1>5. CASE AddConfig \/ AddOutput \/ RemoveMove \/ RemoveCount
    <2>1. Disturbs /\ UNCHANGED <<kind, points>>
      BY <1>5 DEF AddConfig, AddOutput, RemoveMove, RemoveCount, pool
    <2> QED
      BY <1>5, <2>1, AdminIsSound, ChangeSees
  <1> QED
    BY <1>1, <1>2, <1>3, <1>4, <1>5 DEF Next

\* What a decision on what was read makes of two sources that kept to their values.
LEMMA SeenPairWins == SeesInv /\ IInv => SteadyPairWins
  <1> SUFFICES ASSUME SeesInv, IInv, NEW v \in Voters, call[v].pc = "store", ~call[v].stale,
                      NEW i \in Sources, NEW j \in Sources, i # j,
                      call[v].keys[i] \notin call[v].moved, points[call[v].keys[i]].good,
                      call[v].keys[j] \notin call[v].moved, points[call[v].keys[j]].good
               PROVE  LET c == call[v]
                          config == configs[c.slot].config
                          At(m) == points[c.keys[m]]
                      IN  /\ kind = "YC" /\ At(i).value = At(j).value =>
                               2 * Distance(c.out.value, 6 * At(i).value) <= 6 * config.limit
                          /\ kind = "YX" /\ config.strategy = "priority" /\ config.source = i =>
                               c.out.value = At(i).value
                          /\ kind = "YX" /\ config.strategy = "twoOfThree"
                             /\ At(i).value = At(j).value =>
                               c.out.value = At(i).value /\ c.out.result \in {"UNANIMOUS", "MAJORITY"}
    BY DEF SteadyPairWins
  <1> DEFINE c == call[v]
             config == configs[c.slot].config
             At(m) == points[c.keys[m]]
             s == c.got
  <1>1. Reads(c) /\ Follows(c) /\ kind \in {"YX", "YC"}
    BY DEF SeesInv, VoteSees, Found, ConfigsSound
  <1>2. s \in Seq(Values) /\ Len(s) = 3
    BY <1>1 DEF Reads
  <1>3. \A m \in Sources : s[m] \in Values /\ s[m].value \in Nat
    BY <1>2, VotingAssumption DEF Sources
  <1>4. s[i] = At(i) /\ s[j] = At(j)
    BY <1>1, <1>2 DEF Reads, Sources
  <1>5. {i, j} \subseteq Good(s)
    BY <1>4 DEF Good
  <1>6. /\ config \in Configs[kind]
        /\ c.out.value = VoteOf(s, config).value /\ c.out.result = VoteOf(s, config).result
    BY <1>1 DEF Follows
  <1>7. config.limit \in Nat
    BY <1>1, <1>6, ConfigAssumption
  <1> HIDE DEF s, At, config
  <1>8. CASE kind = "YC"
    <2>1. VoteOf(s, config) = VoteYC(s, config)
      BY <1>8 DEF VoteOf
    <2>2. s[i].value = s[j].value =>
            2 * Distance(VoteYC(s, config).value, 6 * s[i].value) <= 6 * config.limit
      BY <1>3, <1>5, <1>7, PairIsAnalog
    <2>3. At(i).value = At(j).value => 2 * Distance(c.out.value, 6 * At(i).value) <= 6 * config.limit
      BY <1>4, <1>6, <2>1, <2>2, Zenon
    <2> QED
      BY <1>8, <2>3, Zenon DEF At, config
  <1>9. CASE kind # "YC"
    <2>1. VoteOf(s, config) = VoteYX(s, config)
      BY <1>1, <1>9 DEF VoteOf
    <2>2. /\ config.strategy = "priority" /\ config.source = i => VoteYX(s, config).value = s[i].value
          /\ config.strategy = "twoOfThree" /\ s[i].value = s[j].value
               => VoteYX(s, config).value = s[i].value /\ VoteYX(s, config).result \in {"UNANIMOUS", "MAJORITY"}
      BY <1>5, PairIsBinary
    <2>3. /\ config.strategy = "priority" /\ config.source = i => c.out.value = At(i).value
          /\ config.strategy = "twoOfThree" /\ At(i).value = At(j).value
               => c.out.value = At(i).value /\ c.out.result \in {"UNANIMOUS", "MAJORITY"}
      BY <1>4, <1>6, <2>1, <2>2, Zenon
    <2> QED
      BY <1>9, <2>3, Zenon DEF At, config
  <1> QED
    BY <1>8, <1>9

------------------------------------------------------------------------------
\* Under a strategy the engine knows, two good sources that keep to the same value while a
\* vote goes on carry it, whatever other threads set the third to between the vote's reads,
\* unless groups are being changed, or change, from when the vote has found its slot, or
\* another vote of its group is stored then.
THEOREM SteadyPairsWin == Spec => []SteadyPairWins
  <1>1. Init => SeesInv /\ IInv
    BY InitSees, InitIInv
  <1>2. SeesInv /\ IInv /\ [Next]_vars => SeesInv' /\ IInv'
    BY StepSees, StepIInv
  <1>3. SeesInv /\ IInv => SteadyPairWins
    BY SeenPairWins
  <1> QED
    BY <1>1, <1>2, <1>3, PTL DEF Spec

\* A vote that nothing disturbed decides by a limit that is a byte.
LEMMA LimitsAreBytes ==
  ASSUME SeesInv, NEW v \in Voters, call[v].pc = "vote", ~call[v].stale
  PROVE  LimitIsByte(v)
  <1>1. configs[call[v].slot].config \in Configs[kind] /\ kind \in {"YX", "YC"}
    BY DEF SeesInv, VoteSees, Follows, Found, ConfigsSound
  <1> QED
    BY <1>1, ConfigAssumption DEF LimitIsByte

AllInv == SeesInv /\ IInv /\ RunInv

LEMMA StepAllInv == AllInv /\ [Next]_vars => AllInv'
  BY StepSees, StepIInv, StepRunInv, LimitsAreBytes DEF AllInv

\* removeVotingGroup and addVotingGroup move outputs and counts along with the groups, and
\* a count is that of its group's severe votes in a row, unless a vote went on with what it
\* had found after it was changed, or updateVotingGroup gave a group another's name.
THEOREM CountsFollowGroups == Spec => []CountFollowsGroup
  <1>1. Init => AllInv
    BY InitSees, InitIInv, InitRunInv DEF AllInv
  <1>2. AllInv => CountFollowsGroup
    BY DEF AllInv, RunInv, CountFollowsGroup, Tells, SlotsTell, SlotTells, Settled, OutputAt
  <1> QED
    BY <1>1, <1>2, StepAllInv, PTL DEF Spec

\* The alarm callback has been called in a run exactly if one of its votes made the run as
\* long as the limit that its group had at that vote, though limits are changed within a run
\* and the count wraps.
THEOREM AlarmsTellRuns == Spec => []RunsAreNoticed
  <1>1. Init => AllInv
    BY InitSees, InitIInv, InitRunInv DEF AllInv
  <1>2. ASSUME AllInv PROVE RunsAreNoticed
    <2> SUFFICES ASSUME ~mixed, admin.pc = "idle", NEW i \in 1..groupCount,
                        \A v \in Voters : call[v].pc = "store" => call[v].group # configs[i].group
                 PROVE  alarmed[configs[i].group] <=> reached[configs[i].group]
      BY DEF RunsAreNoticed
    <2>1. AlarmsTell(configs[i].group)
      BY <1>2 DEF AllInv, RunInv, Tells, SlotsTell, SlotTells, Settled
    <2>2. Storing(configs[i].group) = {}
      BY DEF Storing
    <2>3. alarmed[configs[i].group] = reached[configs[i].group]
      BY <2>1, <2>2 DEF AlarmsTell, Alarms, Undisturbed
    <2> QED
      BY <2>3
  <1> QED
    BY <1>1, <1>2, StepAllInv, PTL DEF Spec

==============================================================================
