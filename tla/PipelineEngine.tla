--------------------------- MODULE PipelineEngine ---------------------------
(***************************************************************************)
(* The pipeline engine of the StriVo daemon: the registry of pipelines     *)
(* (src/src/pipeline/executor.rs), the dispatcher loop of PipelineRuntime, *)
(* the executor tasks and the backoff timers it spawns                     *)
(* (pipeline/runtime.rs), and the clients that submit, cancel and retry.   *)
(*                                                                         *)
(* Every registry method runs under one mutex and writes the snapshot file *)
(* before it lets go, so each is one step and the file holds what memory   *)
(* does.  Dispatcher, tasks, timers and clients interleave between them.   *)
(*                                                                         *)
(* Left out: failing snapshot writes, which are logged; the eviction of    *)
(* old runs; artifacts, errors and PipelineUpdated events; update_stage,   *)
(* which no plugin of the repository asks for; skip_stage, mark_stage_done *)
(* and remove, which the daemon never calls.                               *)
(***************************************************************************)
EXTENDS Naturals, Sequences, FiniteSets

CONSTANTS
    Pipelines,    \* the ids of the pipelines that clients may submit, once each
    Stages,       \* stage ids
    Graph,        \* Graph[p]: the stages of pipeline p
    Inputs,       \* Inputs[s]: the stages that s waits for
    Subject,      \* Subject[p]: the name and subject that make runs equivalent
    Locks,        \* resources: a GPU, a CPU or disk share, an API, a file
    Rank,         \* Rank[l]: the place of l when locks are sorted by their text
    Requires,     \* Requires[s]: the locks of stage s, as declared; one may be repeated
    Capacity,     \* Capacity[l]: permits of the semaphore of l
    Disk,         \* the disk lock, refused when it would eat into the reserve
    MaxAttempts,  \* MaxAttempts[s]: max_attempts of stage s, 3 by default
    MaxTimers,    \* bound on sleeping retries of a stage, for TLC only
    MaxTasks      \* bound on tasks of a stage, for TLC only

\* Capacities and retry budgets are not zero, or validate refuses the pipeline.
ASSUME PipelineAssumption ==
    /\ IsFiniteSet(Pipelines) /\ IsFiniteSet(Stages) /\ IsFiniteSet(Locks)
    /\ Graph \in [Pipelines -> SUBSET Stages]
    /\ Inputs \in [Stages -> SUBSET Stages]
    /\ Subject \in [Pipelines -> Pipelines]
    /\ Rank \in [Locks -> Nat]
    /\ \A k, l \in Locks : Rank[k] = Rank[l] => k = l
    /\ Requires \in [Stages -> Seq(Locks)]
    /\ Capacity \in [Locks -> Nat \ {0}]
    /\ MaxAttempts \in [Stages -> Nat \ {0}]
    /\ MaxTimers \in Nat \ {0}
    /\ MaxTasks \in Nat \ {0}

VARIABLES
    pipe,      \* pipe[p]: the state of pipeline p, "absent" until submitted
    stage,     \* stage[p][s]: the state of a stage
    attempts,  \* attempts[p][s]: its failed attempts
    tasks,     \* the executor tasks, from mark_stage_running to their report
    timers,    \* timers[s]: sleeping retries of stage id s
    ready,     \* what the dispatcher has yet to visit of its ready list
    wake       \* the permit of the Notify

vars == <<pipe, stage, attempts, tasks, timers, ready, wake>>

PipelineStates == {"absent", "Pending", "Running", "Done", "Failed", "Cancelled"}
StageStates    == {"Pending", "Running", "Done", "Failed", "Exhausted", "Cancelled",
                   "Skipped"}
Phases         == {"launching", "locking", "executing", "succeeded", "erred"}

\* A task knows its pipeline and stage, the entries of Requires it has a permit
\* for, and its clone of the stage's cancellation token.  n tells apart the
\* tasks of one stage.
Tasks ==
    [pipeline : Pipelines, stage : Stages, n : 1 .. MaxTasks, phase : Phases,
     held : SUBSET Nat, cancelled : BOOLEAN]

\* The type invariant of the engine.
TypeOK ==
    /\ pipe \in [Pipelines -> PipelineStates]
    /\ stage \in [Pipelines -> [Stages -> StageStates]]
    /\ attempts \in [Pipelines -> [Stages -> Nat]]
    /\ \A p \in Pipelines, s \in Stages : attempts[p][s] <= MaxAttempts[s]
    /\ tasks \subseteq Tasks
    /\ timers \in [Stages -> 0 .. MaxTimers]
    /\ ready \subseteq Pipelines \X Stages
    /\ wake \in BOOLEAN

-----------------------------------------------------------------------------
(* Helpers.                                                                *)

Active(p) == pipe[p] \in {"Pending", "Running"}

\* The registry finds a stage by its id in whichever pipeline it meets first
\* in a hash map.
Owners(s) == {p \in Pipelines : pipe[p] # "absent" /\ s \in Graph[p]}

\* Another run in the registry has a stage of this id: the same graph, run again.
Shared(p, s) == \E q \in Owners(s) : q # p

TasksOf(p, s) == {t \in tasks : t.pipeline = p /\ t.stage = s}
Launching     == {t \in tasks : t.phase = "launching"}

\* Mutant: inputs that do not run are ready.
ReadyBesideInputs(p, s) ==
    Active(p) /\ s \in Graph[p] /\ stage[p][s] = "Pending"
        /\ \A i \in Inputs[s] : stage[p][i] # "Running"

\* ready_stages
Ready(p, s) ==
    /\ Active(p)
    /\ s \in Graph[p]
    /\ stage[p][s] = "Pending"
    /\ \A i \in Inputs[s] : stage[p][i] \in {"Done", "Skipped"}

ReadyStages == {ps \in Pipelines \X Stages : Ready(ps[1], ps[2])}

\* Mutant: exhausted stages are terminal, and looked for too late.
RecomputedTooEarly(p, st) ==
    IF \A s \in Graph[p] : st[s] \in {"Done", "Exhausted", "Cancelled", "Skipped"} THEN "Done"
    ELSE IF \E s \in Graph[p] : st[s] = "Exhausted" THEN "Failed"
    ELSE "Running"

\* recompute_pipeline, for the stage states st of p
Recomputed(p, st) ==
    IF \E s \in Graph[p] : st[s] = "Exhausted" THEN "Failed"
    ELSE IF \A s \in Graph[p] : st[s] \in {"Done", "Cancelled", "Skipped"} THEN "Done"
    ELSE IF \E s \in Graph[p] : st[s] = "Running" THEN "Running"
    ELSE pipe[p]

\* Stage s of p is out of attempts; stop_siblings skips what has not started.
Exhaust(p, s) ==
    /\ pipe' = [pipe EXCEPT ![p] = "Failed"]
    /\ stage' = [stage EXCEPT ![p] = [x \in Stages |->
           IF x = s THEN "Exhausted"
           ELSE IF x \in Graph[p] /\ stage[p][x] \in {"Pending", "Failed"} THEN "Skipped"
           ELSE stage[p][x]]]
    /\ attempts' = [attempts EXCEPT ![p][s] = MaxAttempts[s]]

\* Mutant: attempts are counted but never run out.
FailForever(p, s) ==
    /\ stage' = [stage EXCEPT ![p][s] = "Failed"]
    /\ attempts' = [attempts EXCEPT ![p][s] = @ + 1]
    /\ pipe' = pipe

\* mark_stage_failed, of a running stage
MarkFailed(p, s) ==
    IF attempts[p][s] + 1 >= MaxAttempts[s] THEN Exhaust(p, s)
    ELSE /\ stage' = [stage EXCEPT ![p][s] = "Failed"]
         /\ attempts' = [attempts EXCEPT ![p][s] = @ + 1]
         /\ pipe' = pipe

\* The entries a task has no permit for yet, and the lock of entry i.
Missing(t) == DOMAIN Requires[t.stage] \ t.held
Lock(t, i) == Requires[t.stage][i]

\* Mutant: locks are taken as they are declared.
NextDeclared(t) == CHOOSE i \in Missing(t) : \A k \in Missing(t) : i <= k

\* Every task takes its locks in the order of their text, and a repeated one as
\* often as it is declared.
NextEntry(t) == CHOOSE i \in Missing(t) : \A k \in Missing(t) : Rank[Lock(t, i)] <= Rank[Lock(t, k)]

NextLock(t) == Lock(t, NextEntry(t))

\* The permits of l that the tasks T have, one for each entry.
PermitsOf(T, l) == UNION {{t} \X {i \in t.held : Lock(t, i) = l} : t \in T}

Holds(t, l) == \E i \in t.held : Lock(t, i) = l

\* Mutant: a cancelled run gives its permits back at once.
FreeOfCancelled(l) == Cardinality(PermitsOf({t \in tasks : ~t.cancelled}, l)) < Capacity[l]

Free(l) == Cardinality(PermitsOf(tasks, l)) < Capacity[l]

Moved(t, u) == tasks' = (tasks \ {t}) \cup {u}

-----------------------------------------------------------------------------
Init ==
    /\ pipe = [p \in Pipelines |-> "absent"]
    /\ stage = [p \in Pipelines |-> [s \in Stages |-> "Pending"]]
    /\ attempts = [p \in Pipelines |-> [s \in Stages |-> 0]]
    /\ tasks = {}
    /\ timers = [s \in Stages |-> 0]
    /\ ready = {}
    /\ wake = TRUE

-----------------------------------------------------------------------------
(* Clients.                                                                *)

\* Mutant: inputs may dangle.
ValidButDangling(p) ==
    /\ Graph[p] # {}
    /\ \A S \in SUBSET Graph[p] : S # {} => \E s \in S : Inputs[s] \cap S = {}

\* validate: a pipeline has stages, they wait for stages of their own
\* pipeline, and there is no cycle: of any stages one waits for none of them.
Valid(p) ==
    /\ Graph[p] # {}
    /\ \A s \in Graph[p] : Inputs[s] \subseteq Graph[p]
    /\ \A S \in SUBSET Graph[p] : S # {} => \E s \in S : Inputs[s] \cap S = {}

\* Coalesced with an equivalent run that is still active.
Submit(p) ==
    /\ pipe[p] = "absent"
    /\ Valid(p)
    /\ \A q \in Pipelines : Active(q) => Subject[q] # Subject[p]
    /\ pipe' = [pipe EXCEPT ![p] = "Pending"]
    /\ wake' = TRUE
    /\ UNCHANGED <<stage, attempts, tasks, timers, ready>>

\* Settles the run at once, whatever its state; tasks learn of it through
\* their token.
Cancel(p) ==
    /\ pipe[p] # "absent"
    /\ LET unsettled == {s \in Graph[p] : stage[p][s] \in {"Pending", "Running", "Failed"}}
       IN  /\ stage' = [stage EXCEPT ![p] = [s \in Stages |->
                  IF s \in unsettled THEN "Cancelled" ELSE stage[p][s]]]
           /\ tasks' = {[t EXCEPT !.cancelled =
                           @ \/ (t.pipeline = p /\ t.stage \in unsettled)] : t \in tasks}
    /\ pipe' = [pipe EXCEPT ![p] = "Cancelled"]
    /\ UNCHANGED <<attempts, timers, ready, wake>>

\* Mutant: the run is left as it is.
NotReopened(p) == pipe[p]

\* A failed run goes on; a cancelled or finished one stays what it is.
Reopened(p) == IF pipe[p] = "Failed" THEN "Running" ELSE pipe[p]

\* retry_stage: the retry of an exhausted stage takes its siblings along.
Retry(s) ==
    /\ \E p \in Owners(s) :
         /\ stage[p][s] \in {"Failed", "Exhausted"}
         /\ LET reset == {s} \cup
                  {x \in Graph[p] : /\ stage[p][s] = "Exhausted"
                                    /\ stage[p][x] \in {"Failed", "Exhausted", "Cancelled",
                                                        "Skipped"}}
                fresh == IF stage[p][s] = "Exhausted" THEN reset ELSE {}
            IN  /\ stage' = [stage EXCEPT ![p] = [x \in Stages |->
                       IF x \in reset THEN "Pending" ELSE stage[p][x]]]
                /\ attempts' = [attempts EXCEPT ![p] = [x \in Stages |->
                       IF x \in fresh THEN 0 ELSE attempts[p][x]]]
         /\ pipe' = [pipe EXCEPT ![p] = Reopened(p)]
    /\ wake' = TRUE
    /\ UNCHANGED <<tasks, timers, ready>>

-----------------------------------------------------------------------------
(* The dispatcher.  It reads the ready list in one step and marks each     *)
(* stage in a later one; the order of the list does not matter, for no     *)
(* stage in it waits for another.                                          *)

Idle == ready = {} /\ Launching = {}

ReadReady ==
    /\ wake /\ Idle
    /\ wake' = FALSE
    /\ ready' = ReadyStages
    /\ UNCHANGED <<pipe, stage, attempts, tasks, timers>>

\* mark_stage_running does not look at the pipeline's state.
Mark(p, s) ==
    /\ <<p, s>> \in ready
    /\ Launching = {}
    /\ ready' = ready \ {<<p, s>>}
    /\ IF stage[p][s] \in {"Pending", "Failed"}
       THEN /\ stage' = [stage EXCEPT ![p][s] = "Running"]
            /\ pipe' = [pipe EXCEPT ![p] = "Running"]
            /\ \E n \in 1 .. MaxTasks :
                 /\ \A t \in TasksOf(p, s) : t.n # n
                 /\ \A m \in 1 .. n - 1 : \E t \in TasksOf(p, s) : t.n = m
                 /\ tasks' = tasks \cup
                        {[pipeline |-> p, stage |-> s, n |-> n, phase |-> "launching",
                          held |-> {}, cancelled |-> FALSE]}
       ELSE UNCHANGED <<pipe, stage, tasks>>
    /\ UNCHANGED <<attempts, timers, wake>>

\* Mutant: the stage is passed over.
NoExecutorIgnored(t) ==
    /\ t.phase = "launching"
    /\ tasks' = tasks \ {t}
    /\ UNCHANGED <<pipe, stage, attempts, timers, ready, wake>>

\* No dispatch target, or no plugin that is ready to execute it.
NoExecutor(t) ==
    /\ t.phase = "launching"
    /\ tasks' = tasks \ {t}
    /\ \E p \in Owners(t.stage) :
         IF stage[p][t.stage] = "Running"
         THEN Exhaust(p, t.stage)
         ELSE UNCHANGED <<pipe, stage, attempts>>
    /\ UNCHANGED <<timers, ready, wake>>

\* The task starts; without locks it goes on to execute without another look
\* at its token.
Spawn(t) ==
    /\ t.phase = "launching"
    /\ Moved(t, [t EXCEPT !.phase = IF Len(Requires[t.stage]) = 0 THEN "executing" ELSE "locking"])
    /\ UNCHANGED <<pipe, stage, attempts, timers, ready, wake>>

-----------------------------------------------------------------------------
(* Executor tasks.                                                         *)

\* One permit more; with the last one the work starts.  The select! between
\* a cancelled token and a free permit may go either way.
Acquire(t) ==
    /\ t.phase = "locking"
    /\ Free(NextLock(t))
    /\ Moved(t, [t EXCEPT !.held = @ \cup {NextEntry(t)},
                          !.phase = IF Missing(t) = {NextEntry(t)} THEN "executing"
                                    ELSE "locking"])
    /\ UNCHANGED <<pipe, stage, attempts, timers, ready, wake>>

\* A task that waits for a lock leaves when it is cancelled.
Leave(t) ==
    /\ t.phase = "locking" /\ t.cancelled
    /\ tasks' = tasks \ {t}
    /\ UNCHANGED <<pipe, stage, attempts, timers, ready, wake>>

\* mark_stage_failed, and the retry that finish_failure then schedules if it
\* finds the stage of the task Failed.
FinishFailure(t) ==
    /\ \E p \in Owners(t.stage) :
         IF stage[p][t.stage] # "Running" THEN UNCHANGED <<pipe, stage, attempts>>
         ELSE MarkFailed(p, t.stage)
    /\ timers' = IF stage'[t.pipeline][t.stage] = "Failed"
                 THEN [timers EXCEPT ![t.stage] = @ + 1] ELSE timers
    /\ timers[t.stage] < MaxTimers
    /\ tasks' = tasks \ {t}
    /\ UNCHANGED <<ready, wake>>

\* The wait for a lock times out, or the disk lock is refused.
LockFails(t) ==
    /\ t.phase = "locking"
    /\ NextLock(t) = Disk \/ ~Free(NextLock(t))
    /\ FinishFailure(t)

\* The executor returns; a cancelled one is not interrupted.  The permits are
\* dropped before the registry hears of the result.
ExecutorReturns(t) ==
    /\ t.phase = "executing"
    /\ \E result \in {"succeeded", "erred"} :
         Moved(t, [t EXCEPT !.phase = result, !.held = {}])
    /\ UNCHANGED <<pipe, stage, attempts, timers, ready, wake>>

\* Mutant: any result is taken.
AcceptsLate(t) == stage[t.pipeline][t.stage] # "Done"

\* The guard of complete_stage.
Accepts(t) == stage[t.pipeline][t.stage] = "Running"

\* Mutant: a result wakes nobody.
CompleteAsleep(t) ==
    /\ t.phase = "succeeded"
    /\ tasks' = tasks \ {t}
    /\ IF Accepts(t)
       THEN LET st == [stage[t.pipeline] EXCEPT ![t.stage] = "Done"]
            IN  /\ stage' = [stage EXCEPT ![t.pipeline] = st]
                /\ pipe' = [pipe EXCEPT ![t.pipeline] = Recomputed(t.pipeline, st)]
       ELSE UNCHANGED <<pipe, stage>>
    /\ UNCHANGED <<attempts, timers, ready, wake>>

\* complete_stage looks in the pipeline of the task.  A result for a stage
\* that does not run is dropped, the wake-up is not.
Complete(t) ==
    /\ t.phase = "succeeded"
    /\ tasks' = tasks \ {t}
    /\ wake' = TRUE
    /\ IF Accepts(t)
       THEN LET st == [stage[t.pipeline] EXCEPT ![t.stage] = "Done"]
            IN  /\ stage' = [stage EXCEPT ![t.pipeline] = st]
                /\ pipe' = [pipe EXCEPT ![t.pipeline] = Recomputed(t.pipeline, st)]
       ELSE UNCHANGED <<pipe, stage>>
    /\ UNCHANGED <<attempts, timers, ready>>

Fail(t) ==
    /\ t.phase = "erred"
    /\ FinishFailure(t)

\* retry_failed_stage, which passes over pipelines that are not active.
TimerFires(s) ==
    /\ timers[s] > 0
    /\ timers' = [timers EXCEPT ![s] = @ - 1]
    /\ LET candidates == {p \in Owners(s) : Active(p)}
       IN  \/ \E p \in candidates :
                /\ stage[p][s] = "Failed"
                /\ stage' = [stage EXCEPT ![p][s] = "Pending"]
                /\ wake' = TRUE
          \/ /\ candidates = {} \/ \E p \in candidates : stage[p][s] # "Failed"
             /\ UNCHANGED <<stage, wake>>
    /\ UNCHANGED <<pipe, attempts, tasks, ready>>

-----------------------------------------------------------------------------
\* The daemon dies and comes back: tasks, timers and the dispatcher's list
\* are gone, `open` queues the running stages again, the runtime is woken.
Restart ==
    /\ tasks' = {}
    /\ timers' = [s \in Stages |-> 0]
    /\ ready' = {}
    /\ wake' = TRUE
    /\ stage' = [p \in Pipelines |-> [s \in Stages |->
           IF stage[p][s] = "Running" THEN "Pending" ELSE stage[p][s]]]
    /\ pipe' = [p \in Pipelines |-> IF pipe[p] = "Running" THEN "Pending" ELSE pipe[p]]
    /\ UNCHANGED attempts

-----------------------------------------------------------------------------
Client ==
    \/ \E p \in Pipelines : Submit(p) \/ Cancel(p)
    \/ \E s \in Stages : Retry(s)

Dispatcher ==
    \/ ReadReady
    \/ \E p \in Pipelines, s \in Stages : Mark(p, s)
    \/ \E t \in tasks : NoExecutor(t) \/ Spawn(t)

TaskStep(t) ==
    \/ Acquire(t) \/ Leave(t) \/ LockFails(t)
    \/ ExecutorReturns(t) \/ Complete(t) \/ Fail(t)

Next ==
    \/ Client \/ Dispatcher \/ Restart
    \/ \E t \in tasks : TaskStep(t)
    \/ \E s \in Stages : TimerFires(s)

Spec == Init /\ [][Next]_vars

(***************************************************************************)
(* Fairness.  tokio runs the dispatcher, the tasks and the timers.  A wait *)
(* for a lock ends by itself, with the permit or with the timeout; that an *)
(* executor returns is the plugins' part of the contract.  Clients and the *)
(* daemon's death get no fairness.                                         *)
(***************************************************************************)
Fairness ==
    /\ WF_vars(Dispatcher)
    /\ \A p \in Pipelines : \A s \in Graph[p] :
         WF_vars(\E t \in TasksOf(p, s) : TaskStep(t))
    /\ \A s \in Stages : WF_vars(TimerFires(s))

FairSpec == Spec /\ Fairness

-----------------------------------------------------------------------------
(* Safety.                                                                 *)

\* No resource is ever used beyond its permits, where an executor uses it as
\* often as its stage declares it, and those of cancelled runs, which drain
\* while a retry may want their file, are counted.
Uses(t, l) == {t} \X {i \in DOMAIN Requires[t.stage] : Lock(t, i) = l}
WorkersFitTheLocks ==
    \A l \in Locks :
        Cardinality(UNION {Uses(t, l) : t \in {u \in tasks : u.phase = "executing"}})
            <= Capacity[l]

\* Tasks that wait for one another in a circle are stuck until their timeouts.
\* Only a stage that declares a lock twice can close one: of any set of waiting
\* tasks, one waits for a free lock, for a task outside the set, or for more of
\* a lock it has a permit of.
Waiting == {t \in tasks : t.phase = "locking"}
NoLockDeadlock ==
    \A S \in SUBSET Waiting : S # {} =>
        \E t \in S : \/ Free(NextLock(t))
                     \/ \E u \in tasks \ S : Holds(u, NextLock(t))
                     \/ Holds(t, NextLock(t))

\* A stage that shows Running is being worked on: a task that was not told to
\* stop will report on it.  Without one it would run for ever, as it may where
\* another run has its id.
RunningHasAWorker ==
    \A p \in Pipelines : \A s \in Graph[p] :
        stage[p][s] = "Running" => Shared(p, s) \/ \E t \in TasksOf(p, s) : ~t.cancelled

\* A stage runs, or has run, only on finished inputs: cancels, retries and
\* stale ready lists never let it start beside or without one.
InputsAreDone ==
    \A p \in Pipelines : \A s \in Graph[p] :
        stage[p][s] \in {"Running", "Done"} => \A i \in Inputs[s] : stage[p][i] = "Done"

\* A run that shows Done has done all its stages, although skipped and
\* cancelled stages count as settled when it is computed.
DoneIsComplete ==
    \A p \in Pipelines : pipe[p] = "Done" => \A s \in Graph[p] : stage[p][s] = "Done"

\* A failed run can be retried: it has a stage that retry_stage accepts and
\* that takes its siblings along.
FailedCanBeRetried ==
    \A p \in Pipelines : pipe[p] = "Failed" => \E s \in Graph[p] : stage[p][s] = "Exhausted"

\* No wake-up is lost: a dispatcher that sleeps has nothing to dispatch.
NoWakeupIsLost == ~wake /\ Idle => ReadyStages = {}

\* Once a run is cancelled, late results, failures, timers and a restart leave
\* it and its stages alone; only a user's retry touches it again.
LateResultsDoNotResurrect ==
    [][\A p \in Pipelines :
         pipe[p] = "Cancelled" /\ (\A s \in Graph[p] : stage[p][s] # "Pending")
             => /\ pipe'[p] = "Cancelled"
                /\ stage'[p] = stage[p] \/ \E s \in Graph[p] :
                       stage[p][s] = "Exhausted" /\ stage'[p][s] = "Pending"]_vars

-----------------------------------------------------------------------------
(* Refinement.                                                             *)

\* The durable spelling of a stage's state.
AsJobState ==
    [Pending |-> "pending", Running |-> "running", Done |-> "done", Failed |-> "failed",
     Exhausted |-> "exhausted", Cancelled |-> "cancelled", Skipped |-> "skipped"]

JobStates ==
    [ps \in Pipelines \X Stages |->
        IF pipe[ps[1]] = "absent" THEN "none" ELSE AsJobState[stage[ps[1]][ps[2]]]]

Durable == INSTANCE JobLifecycle WITH Job <- Pipelines \X Stages, state <- JobStates

\* Every stage goes through the states of the Creator workspace's job table and
\* along its edges only, through retries, cancels, late results and restarts:
\* "the states here are the durable encoding of that machine"
\* (crates/research/src/creator/jobs.rs:4-15).
StagesFollowTheLifecycle == Durable!Spec

-----------------------------------------------------------------------------
(* Liveness.                                                               *)

\* Every submitted run ends, unless the daemon dies again and again, has died
\* during a backoff and lost the retry of a stage, or has looked the failure of
\* a stage up in another run that shares its id.
RetryIsLost(p)  == \E s \in Graph[p] : stage[p][s] = "Failed" /\ timers[s] = 0
ReportIsLost(p) == \E s \in Graph[p] : Shared(p, s) /\ stage[p][s] = "Running" /\ TasksOf(p, s) = {}
RunsEnd ==
    <>[][~Restart]_vars =>
        \A p \in Pipelines : Active(p) ~> (~Active(p) \/ RetryIsLost(p) \/ ReportIsLost(p))
=============================================================================
