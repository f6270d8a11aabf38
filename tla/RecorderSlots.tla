--------------------------- MODULE RecorderSlots ---------------------------
(***************************************************************************)
(* What the recording manager promises about max_concurrent_recordings,    *)
(* with no recorder, resolver or file in sight: a job takes a slot when it *)
(* is admitted, keeps it across its gap resumes, gives it back once, and   *)
(* never holds one again.  RecordingManager implements this.               *)
(***************************************************************************)
EXTENDS Naturals, FiniteSets

CONSTANTS Jobs, Cap

VARIABLE phase   \* phase[j]: "new", "holding" a slot, or "over"

Holders == {j \in Jobs : phase[j] = "holding"}

Init == phase = [j \in Jobs |-> "new"]

\* A slot is free, or the cap is 0 and there is no limit.
Admit(j) ==
    /\ phase[j] = "new"
    /\ Cap = 0 \/ Cardinality(Holders) < Cap
    /\ phase' = [phase EXCEPT ![j] = "holding"]

\* StopAll and a shutdown release every slot at once.
Release(S) ==
    /\ S \subseteq Holders
    /\ phase' = [j \in Jobs |-> IF j \in S THEN "over" ELSE phase[j]]

Next ==
    \/ \E j \in Jobs : Admit(j)
    \/ \E S \in SUBSET Jobs : Release(S)

Spec == Init /\ [][Next]_phase
=============================================================================
