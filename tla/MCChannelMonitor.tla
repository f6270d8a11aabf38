-------------------------- MODULE MCChannelMonitor --------------------------
(* Instances of ChannelMonitor for TLC.                                    *)
EXTENDS ChannelMonitor, TLC

CONSTANTS a, b

MCSymmetry == Permutations(Channels)
=============================================================================
