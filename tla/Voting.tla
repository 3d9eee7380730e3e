-------------------------------- MODULE Voting --------------------------------
(***************************************************************************)
(* Votes over points that change meanwhile: the client's performVotingYX   *)
(* and performVotingYC, which read their three sources one by one from the *)
(* pool, the groups in VotingEngine's segment, which no lock guards, and   *)
(* the client's setYXWithEvent and setYCWithEvent, which store a point and *)
(* publish its event in two steps, whatever becomes of the second: the     *)
(* event ring is full for good one day (EventCenter's SpentForGood), and a *)
(* thread may die between them.                                            *)
(*                                                                         *)
(* A vote looks its group up, decides, calls the alarm callback and stores *)
(* its output by the slot it found.  removeVotingGroup moves the last      *)
(* group into the slot that becomes free, and addVotingGroup counts a slot *)
(* before it fills it; one process at a time does this.                    *)
(***************************************************************************)
EXTENDS VotingRules, Sequences

CONSTANTS
  Points,       \* the pool's points that are voted on
  Values,       \* what a point can be: records of a value and whether it is good
  FirstValues,  \* those among them that are there at first
  Reporters,    \* the threads that set points
  Voters,       \* the threads that vote
  Groups,
  Configs,      \* what a group of either type can be configured to
  CountWidth,   \* 2^8, the range of deviationCount
  MaxGroups,
  MaxCalls,     \* bound: calls that set points, vote, or change groups
  None

ASSUME VotingAssumption ==
  /\ FirstValues \subseteq Values
  /\ \A v \in Values : v.value \in Nat /\ v.good \in BOOLEAN
  /\ CountWidth \in Nat \ {0}
  /\ MaxGroups \in Nat \ {0} /\ MaxCalls \in Nat
  /\ None \notin Groups \cup Points
  /\ None \notin [point : Points, value : Nat]

\* sourceKeyA, B and C, deviationLimit, which nobody makes negative, and
\* deviationCountLimit, which is a byte as the count is.
ASSUME ConfigAssumption ==
  \A t \in {"YX", "YC"} : \A config \in Configs[t] :
    /\ config.keys \in [Sources -> Points]
    /\ config.limit \in Nat
    /\ config.count \in 0..(CountWidth - 1)

VARIABLES
  kind,         \* "YX" or "YC": the type of the points and groups
  points,
  event,        \* the value in the last event about each point
  full,         \* the event ring takes no more
  report,       \* reporters: the point set and not yet published
  crossed,      \* points: the last calls that set it ran beside each other
  untold,       \* points: the last call that ended did not publish its event
  groupCount, configs, outputs,
  admin,        \* the call that changes groups
  call,         \* voters: the call they are in
  run,          \* groups: severe votes in a row
  reached,      \* groups: a vote of this run made it as long as the limit then was
  alarmed,      \* groups: the alarm callback was called in this run
  mixed,        \* a vote went on with what it found although it was changed, or a group's
                \* configuration was replaced by one with another's name
  calls         \* calls made

pool == <<kind, points, event, full, report, crossed, untold>>
engine == <<groupCount, configs, outputs>>
ghosts == <<run, reached, alarmed, mixed>>
vars == <<pool, engine, admin, call, ghosts, calls>>

NoConfig == [group |-> None, config |-> None]
NoOutput(g) == [group |-> g, result |-> "UNANIMOUS", value |-> 0, level |-> "NONE", count |-> 0]
Idle == [pc |-> "idle", group |-> None, keys |-> None, got |-> <<>>, slot |-> 0,
         prev |-> 0, out |-> None, moved |-> {}, stale |-> FALSE]
Unchanging == [pc |-> "idle", group |-> None, config |-> None, slot |-> 0]

\* One group has been added.
Init ==
  /\ kind \in {"YX", "YC"}
  /\ points \in [Points -> FirstValues]
  /\ event = [p \in Points |-> points[p].value]
  /\ report = [r \in Reporters |-> None]
  /\ full = FALSE
  /\ crossed = [p \in Points |-> FALSE] /\ untold = [p \in Points |-> FALSE]
  /\ groupCount = 1
  /\ \E g \in Groups, config \in Configs[kind] :
       /\ configs = [i \in 1..MaxGroups |->
                       IF i = 1 THEN [group |-> g, config |-> config] ELSE NoConfig]
       /\ outputs = [i \in 1..MaxGroups |-> NoOutput(IF i = 1 THEN g ELSE None)]
  /\ admin = Unchanging
  /\ call = [v \in Voters |-> Idle]
  /\ run = [g \in Groups |-> 0] /\ reached = [g \in Groups |-> FALSE]
  /\ alarmed = [g \in Groups |-> FALSE] /\ mixed = FALSE
  /\ calls = 0

Calls == calls < MaxCalls /\ calls' = calls + 1

Has(g) == \E i \in 1..groupCount : configs[i].group = g
SlotOf(g) == Min({i \in 1..groupCount : configs[i].group = g})

\* Calls past the look-up of their group's slot.
Found(v) == call[v].pc \in {"vote", "store"}

------------------------------------------------------------------------------
(* setYXWithEvent and setYCWithEvent.                                      *)

\* The store.  Mutant: setYX failing is not noticed.
ReportSetIgnored(r, p, x) ==
  /\ report[r] = None /\ Calls
  /\ report' = [report EXCEPT ![r] = [point |-> p, value |-> x.value]]
  /\ crossed' = [crossed EXCEPT ![p] = \E q \in Reporters \ {r} :
                                         report[q] # None /\ report[q].point = p]
  /\ UNCHANGED <<kind, points, event, full, untold, engine, admin, call, ghosts>>
ReportSet(r, p, x) ==
  /\ report[r] = None /\ Calls
  /\ points' = [points EXCEPT ![p] = x]
  /\ report' = [report EXCEPT ![r] = [point |-> p, value |-> x.value]]
  /\ crossed' = [crossed EXCEPT ![p] = \E q \in Reporters \ {r} :
                                         report[q] # None /\ report[q].point = p]
  /\ call' = [v \in Voters |-> IF call[v].pc = "idle" THEN call[v]
                               ELSE [call[v] EXCEPT !.moved = @ \cup {p}]]
  /\ UNCHANGED <<kind, event, full, untold, engine, admin, ghosts>>

\* The event.
ReportPublish(r) ==
  /\ report[r] # None /\ ~full
  /\ event' = [event EXCEPT ![report[r].point] = report[r].value]
  /\ untold' = [untold EXCEPT ![report[r].point] = FALSE]
  /\ report' = [report EXCEPT ![r] = None]
  /\ UNCHANGED <<kind, points, full, crossed, engine, admin, call, ghosts, calls>>

Unpublished(r) ==
  /\ report[r] # None
  /\ untold' = [untold EXCEPT ![report[r].point] = TRUE]
  /\ report' = [report EXCEPT ![r] = None]
  /\ UNCHANGED <<kind, points, event, crossed, engine, admin, call, ghosts, calls>>

\* The ring refuses it, now and from now on, and the call succeeds none the less.
ReportRefused(r) == Unpublished(r) /\ full' = TRUE

\* The thread dies between the store and the event; another takes its place.
ReportDies(r) == Unpublished(r) /\ UNCHANGED full

------------------------------------------------------------------------------
(* performVotingYX and performVotingYC of the client.                      *)

Goes(v, c) == call' = [call EXCEPT ![v] = c]

\* getVotingGroupConfig, for the keys of the sources.
VoteStart(v, g) ==
  /\ call[v].pc = "idle" /\ Calls
  /\ Has(g)
  /\ Goes(v, [Idle EXCEPT !.pc = "read", !.group = g, !.keys = configs[SlotOf(g)].config.keys])
  /\ UNCHANGED <<pool, engine, admin, ghosts>>

\* One source, under the pool's lock.
VoteRead(v) ==
  /\ call[v].pc = "read"
  /\ LET i == Len(call[v].got) + 1
         x == points[call[v].keys[i]]
     IN  Goes(v, [call[v] EXCEPT !.got = Append(@, x), !.pc = IF i = 3 THEN "find" ELSE @])
  /\ UNCHANGED <<pool, engine, admin, ghosts, calls>>

\* voteYX or voteYC looks for the group once more and takes the count beside it.
VoteFind(v) ==
  /\ call[v].pc = "find" /\ Has(call[v].group)
  /\ LET i == SlotOf(call[v].group)
     IN  Goes(v, [call[v] EXCEPT !.pc = "vote", !.slot = i, !.prev = outputs[i].count,
                                 !.stale = admin.pc # "idle"])
  /\ UNCHANGED <<pool, engine, admin, ghosts, calls>>

VoteNotFound(v) ==
  /\ call[v].pc = "find" /\ ~Has(call[v].group)
  /\ Goes(v, Idle)
  /\ UNCHANGED <<pool, engine, admin, ghosts, calls>>

\* The decision, the deviation and its count.  With fewer than two good sources
\* the count stays, as it does for analog values that are not severely apart.
\* Mutant: the alarm needs more than the limit.
Deviation(s, config) == IF kind = "YX" THEN LevelYX(s) ELSE LevelYC(s, config.limit)
CountAfter(prev, level) ==
  CASE level = "SEVERE" -> (prev + 1) % CountWidth
    [] level = "NONE" -> 0
    [] OTHER -> prev
TriggersAbove(count, limit) == count > limit
Triggers(count, limit) == count >= limit

Output(c, config) ==
  LET two == Cardinality(Good(c.got)) >= 2
      level == IF two THEN Deviation(c.got, config) ELSE "NONE"
      decision == IF kind = "YX" THEN VoteYX(c.got, config) ELSE VoteYC(c.got, config)
  IN  [group |-> c.group, result |-> decision.result, value |-> decision.value,
       level |-> level, count |-> IF two THEN CountAfter(c.prev, level) ELSE c.prev]

\* The configuration is read by the slot.
VoteDecide(v) ==
  /\ call[v].pc = "vote"
  /\ LET config == configs[call[v].slot].config
         g == call[v].group
         out == Output(call[v], config)
         severe == out.level = "SEVERE"
     IN  /\ Goes(v, [call[v] EXCEPT !.pc = "store", !.out = out])
         /\ alarmed' = [alarmed EXCEPT ![g] = @ \/ (severe /\ Triggers(out.count, config.count))]
         /\ reached' = [reached EXCEPT ![g] = @ \/ (severe /\ run[g] + 1 >= config.count)]
  /\ UNCHANGED <<pool, engine, admin, run, mixed, calls>>

\* The output is stored by the slot.
VoteStore(v) ==
  /\ call[v].pc = "store"
  /\ LET c == call[v]
         g == c.group
         over == c.out.level = "NONE" /\ c.out.result # "INSUFFICIENT"
     IN  /\ outputs' = [outputs EXCEPT ![c.slot] = c.out]
         /\ run' = [run EXCEPT ![g] = IF c.out.level = "SEVERE" THEN @ + 1
                                      ELSE IF over THEN 0 ELSE @]
         /\ reached' = [reached EXCEPT ![g] = @ /\ ~over]
         /\ alarmed' = [alarmed EXCEPT ![g] = @ /\ ~over]
         /\ mixed' = (mixed \/ c.stale)
         /\ call' = [w \in Voters |->
                       IF w = v THEN Idle
                       ELSE IF Found(w) /\ call[w].group = g
                            THEN [call[w] EXCEPT !.stale = TRUE] ELSE call[w]]
  /\ UNCHANGED <<pool, groupCount, configs, admin, calls>>

------------------------------------------------------------------------------
(* addVotingGroup, removeVotingGroup and updateVotingGroup.                *)

\* Votes that have found their slot go on with it.
Disturbs ==
  call' = [v \in Voters |-> IF Found(v) THEN [call[v] EXCEPT !.stale = TRUE] ELSE call[v]]

Changes == admin.pc = "idle" /\ Calls

\* The slot is counted, then its configuration is filled in, then the rest.
AddCount(g, config) ==
  /\ Changes
  /\ groupCount < MaxGroups /\ ~Has(g)
  /\ groupCount' = groupCount + 1
  /\ admin' = [pc |-> "config", group |-> g, config |-> config, slot |-> groupCount']
  /\ Disturbs
  /\ UNCHANGED <<pool, configs, outputs, ghosts>>

AddConfig ==
  /\ admin.pc = "config"
  /\ configs' = [configs EXCEPT ![admin.slot] = [group |-> admin.group, config |-> admin.config]]
  /\ admin' = [admin EXCEPT !.pc = "output"]
  /\ Disturbs
  /\ UNCHANGED <<pool, groupCount, outputs, ghosts, calls>>

\* Mutant: the output of the group that was in this slot before is kept.
AddOutputKept ==
  /\ admin.pc = "output"
  /\ admin' = Unchanging
  /\ run' = [run EXCEPT ![admin.group] = 0]
  /\ reached' = [reached EXCEPT ![admin.group] = FALSE]
  /\ alarmed' = [alarmed EXCEPT ![admin.group] = FALSE]
  /\ Disturbs
  /\ UNCHANGED <<pool, engine, mixed, calls>>
AddOutput ==
  /\ admin.pc = "output"
  /\ outputs' = [outputs EXCEPT ![admin.slot] = NoOutput(admin.group)]
  /\ admin' = Unchanging
  /\ run' = [run EXCEPT ![admin.group] = 0]
  /\ reached' = [reached EXCEPT ![admin.group] = FALSE]
  /\ alarmed' = [alarmed EXCEPT ![admin.group] = FALSE]
  /\ Disturbs
  /\ UNCHANGED <<pool, groupCount, configs, mixed, calls>>

\* The configuration of the last group is moved, then its output, unless it is the
\* last group itself, then it is no longer counted.
Remove(g) ==
  /\ Changes
  /\ Has(g)
  /\ LET i == SlotOf(g)
     IN  /\ configs' = [configs EXCEPT ![i] = configs[groupCount]]
         /\ admin' = [Unchanging EXCEPT !.pc = "move", !.slot = i]
  /\ Disturbs
  /\ UNCHANGED <<pool, groupCount, outputs, ghosts>>

RemoveMove ==
  /\ admin.pc = "move"
  /\ outputs' = [outputs EXCEPT ![admin.slot] = outputs[groupCount]]
  /\ admin' = [admin EXCEPT !.pc = "uncount"]
  /\ Disturbs
  /\ UNCHANGED <<pool, groupCount, configs, ghosts, calls>>

RemoveCount ==
  /\ admin.pc = "uncount"
  /\ groupCount' = groupCount - 1
  /\ admin' = Unchanging
  /\ Disturbs
  /\ UNCHANGED <<pool, configs, outputs, ghosts, calls>>

\* The whole configuration is replaced, the name in it included.
Update(g, h, config) ==
  /\ Changes
  /\ Has(g)
  /\ configs' = [configs EXCEPT ![SlotOf(g)] = [group |-> h, config |-> config]]
  /\ mixed' = (mixed \/ h # g)
  /\ Disturbs
  /\ UNCHANGED <<pool, groupCount, outputs, admin, run, reached, alarmed>>

------------------------------------------------------------------------------
Next ==
  \/ \E r \in Reporters :
       \/ \E p \in Points, x \in Values : ReportSet(r, p, x)
       \/ ReportPublish(r) \/ ReportRefused(r) \/ ReportDies(r)
  \/ \E v \in Voters :
       \/ \E g \in Groups : VoteStart(v, g)
       \/ VoteRead(v) \/ VoteFind(v) \/ VoteNotFound(v) \/ VoteDecide(v) \/ VoteStore(v)
  \/ \E g \in Groups :
       \/ \E config \in Configs[kind] :
            AddCount(g, config) \/ \E h \in Groups : Update(g, h, config)
       \/ Remove(g)
  \/ AddConfig \/ AddOutput \/ RemoveMove \/ RemoveCount

Spec == Init /\ [][Next]_vars

------------------------------------------------------------------------------
\* Under a strategy the engine knows, two good sources that keep to the same value while
\* a vote goes on carry it, whatever the third does between the reads, also under strategy
\* 0, which the manual says needs all three; and so does the priority source beside another
\* good one that stays good; analog votes stay within half the limit of it.
SteadyPairWins ==
  \A v \in Voters : call[v].pc = "store" /\ ~call[v].stale =>
    LET c == call[v]
        config == configs[c.slot].config
        At(i) == points[c.keys[i]]
        Steady(i) == c.keys[i] \notin c.moved /\ At(i).good
    IN  \A i, j \in Sources : i # j /\ Steady(i) /\ Steady(j) =>
          /\ kind = "YC" /\ At(i).value = At(j).value =>
               2 * Distance(c.out.value, 6 * At(i).value) <= 6 * config.limit
          /\ kind = "YX" /\ config.strategy = "priority" /\ config.source = i =>
               c.out.value = At(i).value
          /\ kind = "YX" /\ config.strategy = "twoOfThree" /\ At(i).value = At(j).value =>
               c.out.value = At(i).value /\ c.out.result \in {"UNANIMOUS", "MAJORITY"}

\* While no group is being changed, and unless a vote went on with a slot or a count
\* that was changed since it found it, or a group was given another name, every group has
\* its own output and its own count, of its severe votes in a row since it was added, as
\* far as a byte holds it.
CountFollowsGroup ==
  ~mixed /\ admin.pc = "idle" =>
    \A i \in 1..groupCount :
      LET g == configs[i].group
      IN  outputs[i].group = g /\ outputs[i].count = run[g] % CountWidth

\* The alarm callback has been called in a run if one of its votes made it as long as the
\* limit configured at that vote, and in no other, even though limits change within a run,
\* groups move, and the count that is compared wraps.
RunsAreNoticed ==
  ~mixed /\ admin.pc = "idle" =>
    \A i \in 1..groupCount :
      LET g == configs[i].group
      IN  (\A v \in Voters : call[v].pc = "store" => call[v].group # g)
          => (alarmed[g] <=> reached[g])

\* When no call that sets a point is under way, the last event about it tells its value,
\* unless the last calls ran beside each other, or the ring refused the last one's event or
\* its thread died.  The next call alone makes this good, as long as the ring takes events.
LastEventAgrees ==
  \A p \in Points :
    /\ ~crossed[p] /\ ~untold[p]
    /\ \A r \in Reporters : report[r] # None => report[r].point # p
    => event[p] = points[p].value

==============================================================================
