----------------------------- MODULE MCSnapshot ------------------------------
(* The autosave thread of one process beside one client of another.        *)
EXTENDS Snapshot, TLC

CONSTANTS auto1, caller

MCCallers == {caller}
MCBackups == 1..2

==============================================================================
