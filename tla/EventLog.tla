------------------------------ MODULE EventLog -------------------------------
(***************************************************************************)
(* What the event center promises its subscribers: one log of accepted     *)
(* events, and for every subscriber a position in it that moves forward    *)
(* one event at a time, so that no accepted event is skipped, repeated or  *)
(* reordered.  A delivery may hand out an unfilled slot in place of the    *)
(* event (the ring makes a slot visible before it is filled).              *)
(***************************************************************************)
EXTENDS Naturals, Sequences

CONSTANTS
  Subscribers,
  Events,
  Unfilled,   \* what a slot holds that was claimed and not yet filled
  Nothing,    \* "no event delivered yet"
  Limit       \* how many events the log takes in its life

VARIABLES
  log,        \* the accepted events, in the order their slots were claimed
  pos,        \* per subscriber, how many of them are behind it
  last        \* per subscriber, the event it was handed last

vars == <<log, pos, last>>

Init ==
  /\ log = <<>>
  /\ pos = [s \in Subscribers |-> 0]
  /\ last = [s \in Subscribers |-> Nothing]

Accept(e) ==
  /\ Len(log) < Limit
  /\ log' = Append(log, e)
  /\ UNCHANGED <<pos, last>>

\* A new subscription starts behind everything accepted so far.
Subscribe(s) ==
  /\ pos' = [pos EXCEPT ![s] = Len(log)]
  /\ UNCHANGED <<log, last>>

Deliver(s) ==
  /\ pos[s] < Len(log)
  /\ pos' = [pos EXCEPT ![s] = @ + 1]
  /\ \E e \in {log[pos[s] + 1], Unfilled} : last' = [last EXCEPT ![s] = e]
  /\ UNCHANGED log

Next ==
  \/ \E e \in Events : Accept(e)
  \/ \E s \in Subscribers : Subscribe(s) \/ Deliver(s)

Spec == Init /\ [][Next]_vars

==============================================================================
