---------------------------- MODULE MCSOERecorder ----------------------------
(* One recorder and one reader in the passing run, two recorders in the    *)
(* run that shows why the recorder needs the lock it does not get.         *)
EXTENDS SOERecorder

CONSTANTS w1, w2, r1

MCOneRecorder == {w1}
MCTwoRecorders == {w1, w2}
MCReaders == {r1}
MCNoReaders == {}

==============================================================================
