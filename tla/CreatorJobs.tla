---------------------------- MODULE CreatorJobs ----------------------------
(***************************************************************************)
(* The durable jobs of the Creator workspace                               *)
(* (crates/research/src/creator/store_jobs.rs over the table of jobs.rs).  *)
(* Every operation is one IMMEDIATE transaction that reads the row,        *)
(* consults the table and writes the row and its log entry, so every       *)
(* operation is one step here.  A refused operation changes nothing.       *)
(***************************************************************************)
EXTENDS Integers

CONSTANTS
    Jobs,          \* job identities
    NoKey,         \* the cache key of a job nobody submitted
    MaxAttempts,   \* the retry budget every job is submitted with
    AttemptLimit   \* what the attempt counter saturates at (a u8: 255)

ASSUME JobsAssumption ==
  /\ MaxAttempts \in Nat \ {0}
  /\ AttemptLimit \in Nat
  /\ MaxAttempts <= AttemptLimit

VARIABLES
    jobState,   \* job -> its state, "none" before it is submitted
    attempt,    \* job -> its failed attempts
    key         \* job -> the identity of its inputs

jobVars == <<jobState, attempt, key>>

Lifecycle == INSTANCE JobLifecycle WITH Job <- Jobs, state <- jobState

Settled == {"done", "exhausted", "cancelled", "skipped"}
Unsettled == {"pending", "running", "failed"}

\* The unique index idx_creator_jobs_one_unsettled: apart from the jobs in
\* `others`, no unsettled job has key k.
KeyFree(k, others) == \A j \in Jobs \ others : jobState[j] \in Unsettled => key[j] # k

\* Mutant: the write is not guarded by the table.
UnguardedMove(j, to) ==
  /\ jobState[j] # "none"
  /\ to \in Unsettled => KeyFree(key[j], {j})

\* guard, and the index for a job that becomes unsettled
MayMove(j, to) ==
  /\ jobState[j] # "none"
  /\ Lifecycle!IsLegal(jobState[j], to)
  /\ to \in Unsettled => KeyFree(key[j], {j})

JobsInit ==
  /\ jobState = [j \in Jobs |-> "none"]
  /\ attempt = [j \in Jobs |-> 0]
  /\ key = [j \in Jobs |-> NoKey]

SubmitJob(j, k) ==
  /\ jobState[j] = "none"
  /\ KeyFree(k, {})
  /\ jobState' = [jobState EXCEPT ![j] = "pending"]
  /\ key' = [key EXCEPT ![j] = k]
  /\ UNCHANGED attempt

\* move_job leaves the counter alone; its callers ask to run, cancel or skip.
MoveJob(j, to) ==
  /\ MayMove(j, to)
  /\ jobState' = [jobState EXCEPT ![j] = to]
  /\ UNCHANGED <<attempt, key>>

\* saturating_add of an u8
Increment(n) == IF n < AttemptLimit THEN n + 1 ELSE n

\* Mutant: the budget allows one attempt too many.
GenerousAfterFailure(n) == IF n > MaxAttempts THEN "exhausted" ELSE "failed"

AfterFailure(n) == IF n >= MaxAttempts THEN "exhausted" ELSE "failed"

FailJob(j) ==
  LET n == Increment(attempt[j])
  IN  /\ MayMove(j, AfterFailure(n))
      /\ jobState' = [jobState EXCEPT ![j] = AfterFailure(n)]
      /\ attempt' = [attempt EXCEPT ![j] = n]
      /\ UNCHANGED key

\* A spent job gets its whole budget again, any other keeps its counter.
RetryJob(j) ==
  /\ MayMove(j, "pending")
  /\ jobState' = [jobState EXCEPT ![j] = "pending"]
  /\ attempt' = [attempt EXCEPT ![j] = IF jobState[j] = "exhausted" THEN 0 ELSE @]
  /\ UNCHANGED key

Complete(j) ==
  /\ MayMove(j, "done")
  /\ jobState' = [jobState EXCEPT ![j] = "done"]
  /\ UNCHANGED <<attempt, key>>

RecoverJobs ==
  /\ jobState' = [j \in Jobs |-> IF jobState[j] = "running" THEN "pending" ELSE jobState[j]]
  /\ UNCHANGED <<attempt, key>>

\* What the store offers beside submission and completion.
Operator ==
  \/ \E j \in Jobs : FailJob(j) \/ RetryJob(j)
  \/ \E j \in Jobs, to \in {"running", "cancelled", "skipped"} : MoveJob(j, to)
  \/ RecoverJobs

-----------------------------------------------------------------------------
JobsTypeOK ==
  /\ jobState \in [Jobs -> Lifecycle!JobState \union {"none"}]
  /\ attempt \in [Jobs -> 0 .. AttemptLimit]

\* The counter and the state agree whatever is skipped, retried and recovered:
\* a failed job has an attempt left, a spent one none (fail_job is the only
\* writer of either state, retry_job resets the counter of a spent job only).
AttemptsMatchTheState ==
  \A j \in Jobs : /\ jobState[j] = "failed"    => attempt[j] \in 1 .. MaxAttempts - 1
                  /\ jobState[j] = "exhausted" => attempt[j] >= MaxAttempts

\* Every change of a job's state is an edge of the table.
FollowsTheLifecycle == Lifecycle!Spec
=============================================================================
