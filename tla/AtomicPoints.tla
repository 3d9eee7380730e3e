---------------------------- MODULE AtomicPoints -----------------------------
(***************************************************************************)
(* What the data pool promises about its points: every point is a register *)
(* that holds one sample, and a sample (value, timestamp and quality) is   *)
(* stored and fetched whole.                                               *)
(***************************************************************************)
CONSTANTS Threads, Points, Samples, NoSample

VARIABLES
  store,  \* the sample each point holds
  view    \* what the last fetch of each thread returned

vars == <<store, view>>

Whole(s) == [val |-> s, stamp |-> s, qual |-> s]

Init ==
  /\ store = [p \in Points |-> NoSample]
  /\ view = [t \in Threads |-> Whole(NoSample)]

Store(p, s) ==
  /\ store' = [store EXCEPT ![p] = s]
  /\ UNCHANGED view

Fetch(t, p) ==
  /\ view' = [view EXCEPT ![t] = Whole(store[p])]
  /\ UNCHANGED store

Next ==
  \/ \E p \in Points, s \in Samples : Store(p, s)
  \/ \E t \in Threads, p \in Points : Fetch(t, p)

Spec == Init /\ [][Next]_vars

==============================================================================
