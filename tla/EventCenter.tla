----------------------------- MODULE EventCenter -----------------------------
(***************************************************************************)
(* IPCEventCenter over its ShmRingBuffer: publishers of any process write  *)
(* into one ring in shared memory, subscribers read it with positions of   *)
(* their own.  One step per atomic access to the ring.                     *)
(*                                                                         *)
(* publish claims a slot by moving writeIndex (CAS), fills the slot after  *)
(* that, posts the semaphore and counts the event under the header lock.   *)
(* poll reads with updateGlobal = false, so no step of the event center    *)
(* moves readIndex: it keeps the value initialize gave it.                 *)
(*                                                                         *)
(* An event is named after its publisher and its number, which is all the  *)
(* properties need of its 64 bytes.  Filling a slot and copying it are     *)
(* plain memory accesses: a copy that meets a fill in progress may also    *)
(* return a mix of both, counted here as Unfilled.                         *)
(*                                                                         *)
(* The address of the data area is computed from m_shmBase, which is kept  *)
(* in the segment itself: whoever connects last sets it for everybody to   *)
(* the address the segment has in its own process.  An access through an   *)
(* address that is not mapped in the accessing process misses the ring     *)
(* (the process faults, or meets other memory of its own).                 *)
(***************************************************************************)
EXTENDS Naturals, FiniteSets

CONSTANTS
  Publishers,
  Subscribers,
  Waiters,    \* the subscribers that call wait; the others only poll
  Mortal,     \* the publishers whose process may die
  Capacity,   \* slots of the ring
  Addresses,  \* where mmap puts the segment in some process
  Mapped,     \* for each actor, its addresses in the actor's process
  Unfilled, Nothing

ASSUME EventCenterAssumption ==
  /\ IsFiniteSet(Publishers) /\ IsFiniteSet(Subscribers)
  /\ Waiters \subseteq Subscribers
  /\ Mortal \subseteq Publishers
  /\ Capacity \in Nat /\ Capacity >= 2
  /\ Addresses # {}
  /\ Mapped \in [Publishers \cup Subscribers -> SUBSET Addresses]
  /\ Unfilled \notin [by : Publishers, no : 1..(Capacity - 1)]

VARIABLES
  writeIndex, readIndex,  \* the ring's atomics
  slots,                  \* its data area
  tokens,                 \* the value of its semaphore
  base,                   \* its m_shmBase
  totalEvents,            \* counters of EventCenterHeader
  subscriberCount,
  ppc, loaded, sent,      \* publishers: control point, loaded writeIndex, events so far
  dead,                   \* publishers whose process is gone
  active, cursor,         \* m_subscribers[..].active and .readIndex
  spc,                    \* subscribers: control point
  event,                  \* subscribers: the Event filled in by the last read
  wild                    \* actors: the data address in use is not mapped here

ring == <<writeIndex, readIndex, slots, tokens>>
counters == <<totalEvents, subscriberCount>>
pubs == <<ppc, loaded, sent, dead>>
subs == <<active, cursor, spc, event>>
vars == <<ring, base, counters, pubs, subs, wild>>

Indices == 0..(Capacity - 1)
FollowingUnwrapped(i) == i + 1  \* mutant: the index does not wrap
Following(i) == (i + 1) % Capacity
Events == [by : Publishers, no : 1..(Capacity - 1)]
Current(p) == [by |-> p, no |-> sent[p] + 1]

Init ==
  /\ writeIndex = 0 /\ readIndex = 0 /\ tokens = 0
  /\ slots = [i \in Indices |-> Unfilled]
  /\ totalEvents = 0 /\ subscriberCount = 0
  /\ ppc = [p \in Publishers |-> "idle"]
  /\ loaded = [p \in Publishers |-> 0]
  /\ sent = [p \in Publishers |-> 0]
  /\ dead = {}
  /\ active = [s \in Subscribers |-> FALSE]
  /\ cursor = [s \in Subscribers |-> 0]
  /\ spc = [s \in Subscribers |-> "idle"]
  /\ event = [s \in Subscribers |-> Nothing]
  /\ base \in Addresses  \* all are connected; base is the last one's address
  /\ wild = [x \in Publishers \cup Subscribers |-> FALSE]

\* connect, in any process: the ring's base becomes this process's address.
Attach(a) ==
  /\ base' = a
  /\ UNCHANGED <<ring, counters, pubs, subs, wild>>

\* getDataPtr, once at the start of every write and read.
LoadAddress(x) == wild' = [wild EXCEPT ![x] = base \notin Mapped[x]]

------------------------------------------------------------------------------
(* publish: ShmRingBuffer::write, then the counters.                       *)

GotoP(p, from, to) ==
  /\ p \notin dead
  /\ ppc[p] = from
  /\ ppc' = [ppc EXCEPT ![p] = to]

\* The data address is loaded once, the index at the head of every CAS round.
WriteLoad(p) ==
  /\ \/ GotoP(p, "idle", "check") /\ LoadAddress(p)
     \/ GotoP(p, "retry", "check") /\ UNCHANGED wild
  /\ loaded' = [loaded EXCEPT ![p] = writeIndex]
  /\ UNCHANGED <<ring, base, counters, sent, dead, subs>>

\* BUFFER_FULL.  Mutants: one slot early; a refused event is counted.
WriteFullEarly(p) ==
  /\ Following(Following(loaded[p])) = readIndex
  /\ GotoP(p, "check", "idle")
  /\ loaded' = [loaded EXCEPT ![p] = 0]
  /\ UNCHANGED <<ring, base, counters, sent, dead, subs, wild>>

WriteFullCounted(p) ==
  /\ Following(loaded[p]) = readIndex
  /\ GotoP(p, "check", "idle")
  /\ loaded' = [loaded EXCEPT ![p] = 0]
  /\ totalEvents' = totalEvents + 1
  /\ UNCHANGED <<ring, base, subscriberCount, sent, dead, subs, wild>>

WriteFull(p) ==
  /\ Following(loaded[p]) = readIndex
  /\ GotoP(p, "check", "idle")
  /\ loaded' = [loaded EXCEPT ![p] = 0]
  /\ UNCHANGED <<ring, base, counters, sent, dead, subs, wild>>

WriteRoom(p) ==
  /\ Following(loaded[p]) # readIndex
  /\ GotoP(p, "check", "claim")
  /\ UNCHANGED <<ring, base, counters, loaded, sent, dead, subs, wild>>

\* compare_exchange_weak: it may also fail without a cause.  Mutant: a plain
\* store of the loaded index's successor.
WriteClaimStores(p) ==
  /\ GotoP(p, "claim", "fill")
  /\ writeIndex' = Following(loaded[p])
  /\ UNCHANGED <<readIndex, slots, tokens, base, counters, loaded, sent, dead, subs, wild>>

WriteClaim(p) ==
  /\ \/ /\ writeIndex = loaded[p]
        /\ GotoP(p, "claim", "fill")
        /\ writeIndex' = Following(loaded[p])
     \/ /\ GotoP(p, "claim", "retry")
        /\ UNCHANGED writeIndex
  /\ UNCHANGED <<readIndex, slots, tokens, base, counters, loaded, sent, dead, subs, wild>>

WriteFill(p) ==
  /\ GotoP(p, "fill", "post")
  /\ slots' = IF wild[p] THEN slots ELSE [slots EXCEPT ![loaded[p]] = Current(p)]
  /\ UNCHANGED <<writeIndex, readIndex, tokens, base, counters, loaded, sent, dead, subs, wild>>

\* Mutant: the semaphore is not posted.
WritePostSkipped(p) ==
  /\ GotoP(p, "post", "count")
  /\ UNCHANGED <<ring, base, counters, loaded, sent, dead, subs, wild>>

WritePost(p) ==
  /\ GotoP(p, "post", "count")
  /\ tokens' = tokens + 1
  /\ UNCHANGED <<writeIndex, readIndex, slots, base, counters, loaded, sent, dead, subs, wild>>

\* The header lock makes the counting one step; publish returns OK.
CountEvent(p) ==
  /\ GotoP(p, "count", "idle")
  /\ totalEvents' = totalEvents + 1
  /\ sent' = [sent EXCEPT ![p] = @ + 1]
  /\ loaded' = [loaded EXCEPT ![p] = 0]
  /\ UNCHANGED <<ring, base, subscriberCount, dead, subs, wild>>

\* A publisher's process dies between the claim and the return of publish.
\* Nothing cleans up after it.  (Elsewhere dying is no more than not going on.)
Die(p) ==
  /\ p \in Mortal \ dead
  /\ ppc[p] \in {"fill", "post", "count"}
  /\ dead' = dead \cup {p}
  /\ UNCHANGED <<ring, base, counters, ppc, loaded, sent, subs, wild>>

------------------------------------------------------------------------------
(* subscribe, unsubscribe, poll, process (polls until it finds nothing),   *)
(* wait.  A NOT_FOUND poll changes nothing and is no step.                 *)

GotoS(s, from, to) ==
  /\ spc[s] = from
  /\ spc' = [spc EXCEPT ![s] = to]

Subscribe(s) ==
  /\ spc[s] = "idle" /\ ~active[s]
  /\ active' = [active EXCEPT ![s] = TRUE]
  /\ cursor' = [cursor EXCEPT ![s] = writeIndex]
  /\ subscriberCount' = subscriberCount + 1
  /\ UNCHANGED <<ring, base, totalEvents, pubs, spc, event, wild>>

Unsubscribe(s) ==
  /\ spc[s] = "idle" /\ active[s]
  /\ active' = [active EXCEPT ![s] = FALSE]
  /\ subscriberCount' = subscriberCount - 1
  /\ UNCHANGED <<ring, base, totalEvents, pubs, cursor, spc, event, wild>>

\* poll, and the first poll of wait: something to read.  Mutants: one event too
\* far; every poll takes a token with its event.
PollFoundTooFar(s) ==
  /\ active[s] /\ cursor[s] # Following(writeIndex)
  /\ GotoS(s, "idle", "copy") /\ LoadAddress(s)
  /\ UNCHANGED <<ring, base, counters, pubs, active, cursor, event>>

PollFoundTakesToken(s) ==
  /\ active[s] /\ cursor[s] # writeIndex
  /\ GotoS(s, "idle", "copy") /\ LoadAddress(s)
  /\ tokens' = IF tokens > 0 THEN tokens - 1 ELSE 0
  /\ UNCHANGED <<writeIndex, readIndex, slots, base, counters, pubs, active, cursor, event>>

PollFound(s) ==
  /\ active[s] /\ cursor[s] # writeIndex
  /\ GotoS(s, "idle", "copy") /\ LoadAddress(s)
  /\ UNCHANGED <<ring, base, counters, pubs, active, cursor, event>>

\* read copies the slot and moves on, and leaves readIndex alone.  Mutant: it
\* jumps to the newest event.
PollCopySkips(s) ==
  /\ GotoS(s, "copy", "idle")
  /\ event' = [event EXCEPT ![s] = IF wild[s] THEN Unfilled ELSE slots[cursor[s]]]
  /\ cursor' = [cursor EXCEPT ![s] = writeIndex]
  /\ UNCHANGED <<ring, base, counters, pubs, active, wild>>

PollCopy(s) ==
  /\ GotoS(s, "copy", "idle")
  /\ event' = [event EXCEPT ![s] = IF wild[s] THEN Unfilled ELSE slots[cursor[s]]]
  /\ cursor' = [cursor EXCEPT ![s] = Following(@)]
  /\ UNCHANGED <<ring, base, counters, pubs, active, wild>>

\* wait found nothing and goes to sleep on the ring's one semaphore.
WaitSleep(s) ==
  /\ s \in Waiters /\ active[s] /\ cursor[s] = writeIndex
  /\ GotoS(s, "idle", "blocked")
  /\ UNCHANGED <<ring, base, counters, pubs, active, cursor, event, wild>>

WaitWake(s) ==
  /\ tokens > 0
  /\ GotoS(s, "blocked", "woken")
  /\ tokens' = tokens - 1
  /\ UNCHANGED <<writeIndex, readIndex, slots, base, counters, pubs, active, cursor, event, wild>>

\* The second and last poll of wait.
WaitPoll(s) ==
  /\ GotoS(s, "woken", IF cursor[s] # writeIndex THEN "copy" ELSE "idle")
  /\ LoadAddress(s)
  /\ UNCHANGED <<ring, base, counters, pubs, active, cursor, event>>

\* sem_timedwait gives up; a negative timeout never does.
WaitTimeout(s) ==
  /\ GotoS(s, "blocked", "idle")
  /\ UNCHANGED <<ring, base, counters, pubs, active, cursor, event, wild>>

------------------------------------------------------------------------------
Publish(p) ==
  \/ WriteLoad(p) \/ WriteFull(p) \/ WriteRoom(p) \/ WriteClaim(p)
  \/ WriteFill(p) \/ WritePost(p) \/ CountEvent(p)

Consume(s) ==
  \/ PollFound(s) \/ PollCopy(s)
  \/ WaitSleep(s) \/ WaitWake(s) \/ WaitPoll(s) \/ WaitTimeout(s)

Next ==
  \/ \E a \in Addresses : Attach(a)
  \/ \E p \in Publishers : Publish(p) \/ Die(p)
  \/ \E s \in Subscribers : Subscribe(s) \/ Unsubscribe(s) \/ Consume(s)

Spec == Init /\ [][Next]_vars

\* A publisher that claimed a slot goes on to post; a thread that was woken
\* runs.  Nobody is obliged to publish or to poll, and a wait with a negative
\* timeout stays asleep without a token.
FairSpec ==
  /\ Spec
  /\ \A p \in Publishers : WF_vars(WriteFill(p)) /\ WF_vars(WritePost(p))
  /\ \A s \in Subscribers : WF_vars(WaitWake(s)) /\ WF_vars(WaitPoll(s)) /\ WF_vars(PollCopy(s))

------------------------------------------------------------------------------
Filling == {p \in Publishers : ppc[p] = "fill"}
InFlight == {p \in Publishers : ppc[p] \in {"fill", "post"}}
Uncounted == {p \in Publishers : ppc[p] \in {"fill", "post", "count"}}
Pending(s) == writeIndex - cursor[s]

\* The variables keep their types.
TypeOK ==
  /\ writeIndex \in Indices /\ readIndex \in Indices
  /\ slots \in [Indices -> Events \cup {Unfilled}]
  /\ tokens \in Nat /\ totalEvents \in Nat /\ subscriberCount \in Nat
  /\ ppc \in [Publishers -> {"idle", "retry", "check", "claim", "fill", "post", "count"}]
  /\ loaded \in [Publishers -> Indices]
  /\ sent \in [Publishers -> Nat]
  /\ dead \subseteq Publishers
  /\ active \in [Subscribers -> BOOLEAN]
  /\ cursor \in [Subscribers -> Indices]
  /\ spc \in [Subscribers -> {"idle", "copy", "blocked", "woken"}]
  /\ event \in [Subscribers -> Events \cup {Unfilled, Nothing}]
  /\ base \in Addresses
  /\ wild \in [Publishers \cup Subscribers -> BOOLEAN]

\* The log of accepted events as the ring holds it: a slot behind writeIndex is
\* filled or its publisher is about to fill it.
Log == [i \in 1..writeIndex |->
          IF \E p \in Filling : loaded[p] = i - 1
          THEN Current(CHOOSE p \in Filling : loaded[p] = i - 1)
          ELSE slots[i - 1]]

\* Every subscriber goes through the accepted events in order, one by one and
\* without repeats; a slot claimed and not yet filled comes out empty.
OneLog == INSTANCE EventLog WITH
  Limit <- Capacity - 1, log <- Log, pos <- cursor, last <- event
LogSpec == OneLog!Spec

\* No two publishers fill one slot, and no slot is filled twice.
SlotsClaimedOnce ==
  \A p \in Filling :
    /\ loaded[p] < writeIndex
    /\ slots[loaded[p]] = Unfilled
    /\ \A q \in Filling \ {p} : loaded[q] # loaded[p]

\* A subscriber is handed an empty slot only while, or after, the publisher
\* that claimed it has not filled it: the window between claim and fill is the
\* only way to lose an event.
EmptyOnlyInWindow ==
  [][\A s \in Subscribers :
       (spc[s] = "copy" /\ spc'[s] = "idle" /\ event'[s] = Unfilled)
         => \E p \in Filling : loaded[p] = cursor[s]]_vars

\* The header's counter trails the accepted events by the publishers that have
\* claimed a slot and not come to count it, dead ones included.
TotalsAgree == totalEvents + Cardinality(Uncounted) = writeIndex

\* publish refuses an event only when Capacity - 1 events were accepted in the
\* life of the event center, and from then on it accepts none: reading makes no
\* room, and no event is overwritten, as the README has it of a full ring.
Refuses(p) == ppc[p] = "check" /\ ppc'[p] = "idle"
SpentForGood ==
  [][/\ \A p \in Publishers : Refuses(p) => writeIndex = Capacity - 1
     /\ writeIndex = Capacity - 1 => writeIndex' = writeIndex]_vars

\* As long as one subscriber alone uses wait, each event it has not read is
\* matched by a token or by a publisher about to post one: it does not sleep
\* through an event, though the others take events without taking tokens.
NoLostWakeup ==
  \A s \in Waiters : spc[s] = "blocked" => Pending(s) <= tokens + Cardinality(InFlight)

\* A subscriber asleep in wait while an event is ready for it wakes up, unless a
\* publisher died between claiming a slot and posting.
SleeperWakes ==
  \A s \in Waiters :
    (spc[s] = "blocked" /\ Pending(s) > 0) ~> (spc[s] # "blocked" \/ dead \cap InFlight # {})

\* Whoever is about to touch a slot holds an address of its own process.
OwnAddresses ==
  /\ \A p \in Publishers : ppc[p] = "fill" => ~wild[p]
  /\ \A s \in Subscribers : spc[s] = "copy" => ~wild[s]

==============================================================================
