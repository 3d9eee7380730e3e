---------------------------- MODULE RecentRecords ----------------------------
(***************************************************************************)
(* What a sequence-of-events recorder promises: it keeps the newest        *)
(* records, Depth of them at most, in the order they were recorded and     *)
(* without gaps.  A record gives way only when the recorder is full.       *)
(***************************************************************************)
EXTENDS Naturals, Sequences

CONSTANT Depth

VARIABLES
  kept,     \* numbers of the records kept, oldest first
  newest    \* number of the record kept last

vars == <<kept, newest>>

Init == kept = <<>> /\ newest = 0

Drop ==
  /\ Len(kept) = Depth
  /\ kept' = Tail(kept)
  /\ UNCHANGED newest

Add ==
  /\ Len(kept) < Depth
  /\ newest' = newest + 1
  /\ kept' = Append(kept, newest')

Clear == kept' = <<>> /\ UNCHANGED newest

Next == Drop \/ Add \/ Clear

Spec == Init /\ [][Next]_vars

==============================================================================
