---------------------------- MODULE JobLifecycle ----------------------------
(***************************************************************************)
(* The states a unit of work may go through, whoever runs it: the table    *)
(* TRANSITIONS of crates/research/src/creator/jobs.rs, which its module    *)
(* comment presents as the durable spelling of the daemon's pipeline       *)
(* stages.  One step may move many jobs, each along one edge (recovery     *)
(* moves all running ones, a spent stage its siblings).                    *)
(***************************************************************************)
CONSTANTS Job

VARIABLE state      \* job -> its state, "none" before it is submitted

\* TRANSITIONS: every state with the states that may follow it.
Successors ==
  [ pending   |-> {"running", "cancelled", "skipped"},
    running   |-> {"done", "failed", "exhausted", "cancelled", "pending"},
    done      |-> {},
    failed    |-> {"running", "pending", "cancelled", "skipped"},
    exhausted |-> {"pending", "skipped"},
    cancelled |-> {"pending"},
    skipped   |-> {"pending"} ]

JobState == DOMAIN Successors

IsLegal(from, to) == to \in Successors[from]

Init == state = [j \in Job |-> "none"]

Submitted(j) == state[j] = "none" /\ state'[j] = "pending"
Moved(j)     == state[j] \in JobState /\ IsLegal(state[j], state'[j])

Next == /\ state' \in [Job -> JobState \union {"none"}]
        /\ \A j \in Job : state'[j] = state[j] \/ Submitted(j) \/ Moved(j)

Spec == Init /\ [][Next]_state
=============================================================================
