--------------------------- MODULE MCEventCenter -----------------------------
(* Two publishers, one of which may die, a subscriber that waits and one   *)
(* that only polls.  A ring of Capacity slots takes Capacity - 1 events in *)
(* its life, so the model is finite without further bounds.  In the        *)
(* passing run all are threads of one process, with two connections to the *)
(* segment; MCTwoProcesses puts p1 in a process of its own.                *)
EXTENDS EventCenter

CONSTANTS p1, p2, s1, s2, a1, a2

MCPublishers == {p1, p2}
MCSubscribers == {s1, s2}
MCWaiters == {s1}
MCMortal == {p2}
MCNoMortal == {}
MCAddresses == {a1, a2}
MCOneProcess == [x \in MCPublishers \cup MCSubscribers |-> MCAddresses]
MCTwoProcesses == [x \in MCPublishers \cup MCSubscribers |-> IF x = p1 THEN {a1} ELSE {a2}]

==============================================================================
