--------------------------- MODULE MCProcessTable ----------------------------
(***************************************************************************)
(* Two processes for two slots: one runs the health monitor, one calls     *)
(* cleanupDeadProcesses and may crash.  The table that may be restored has *)
(* the latter in slot 0, with a heartbeat ahead of the clock.              *)
(***************************************************************************)
EXTENDS ProcessTable

CONSTANTS c1, c2

MCClients == {c1, c2}
MCMonitors == {c1}
MCCleaners == {c2}
MCMortal == {c2}
MCSlots == {0, 1}
MCSnapshots ==
  {[active |-> [s \in MCSlots |-> s = 0],
    pid |-> [s \in MCSlots |-> IF s = 0 THEN c2 ELSE NoClient],
    age |-> [s \in MCSlots |-> IF s = 0 THEN -1 ELSE 3]]}

==============================================================================
