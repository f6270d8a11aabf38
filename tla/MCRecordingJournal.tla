------------------------ MODULE MCRecordingJournal ------------------------
(* Instances of RecordingJournal for TLC.                                  *)
EXTENDS RecordingJournal, TLC

CONSTANTS c1, u1

\* The VOD belongs to the channel that is also captured.
MCUrlChannel == [u \in Urls |-> c1]
=============================================================================
