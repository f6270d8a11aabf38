------------------------ MODULE MCRecordingManager ------------------------
(* Instances of RecordingManager for TLC.                                  *)
EXTENDS RecordingManager, TLC

CONSTANTS c1, c2, u1, u2

\* Both urls are VODs of the first channel, which is also captured live.
MCUrlChannel == [u \in Urls |-> c1]

MCSymmetry == Permutations(Jobs)
=============================================================================
