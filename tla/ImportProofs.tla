---------------------------- MODULE ImportProofs ----------------------------
(***************************************************************************)
(* Theorems about CreatorJobs and Import, for every set of jobs, requests  *)
(* and contents, every attempt budget and every number of identities.      *)
(***************************************************************************)
EXTENDS Import, FiniteSetTheorems, TLAPS

USE JobsAssumption, ImportAssumption

-----------------------------------------------------------------------------
(* The durable jobs.                                                       *)

JobsInv == JobsTypeOK /\ AttemptsMatchTheState

\* What a step of an import or of an operator does to the jobs.
JobStep ==
    \/ UNCHANGED jobVars
    \/ \E j \in Jobs : \/ \E r \in Requests : SubmitJob(j, KeyOf(r))
                       \/ \E to \in {"running", "cancelled", "skipped"} : MoveJob(j, to)
                       \/ FailJob(j) \/ RetryJob(j) \/ Complete(j)
    \/ RecoverJobs

\* The states are the ones the table lists.
LEMMA JobStates ==
    Lifecycle!JobState = {"pending", "running", "done", "failed", "exhausted",
                          "cancelled", "skipped"}
BY DEF Lifecycle!JobState, Lifecycle!Successors

\* Moving one job to a state its counter allows keeps the invariant.
LEMMA OneJobMoves ==
    ASSUME JobsInv, NEW j \in Jobs, NEW to \in Lifecycle!JobState, NEW n \in 0 .. AttemptLimit,
           jobState' = [jobState EXCEPT ![j] = to], attempt' = [attempt EXCEPT ![j] = n],
           to = "failed" => n \in 1 .. MaxAttempts - 1,
           to = "exhausted" => n >= MaxAttempts
    PROVE  JobsInv'
<1>1. JobsTypeOK'
  BY DEF JobsInv, JobsTypeOK
<1>2. \A i \in Jobs : /\ jobState'[i] = IF i = j THEN to ELSE jobState[i]
                      /\ attempt'[i] = IF i = j THEN n ELSE attempt[i]
  BY DEF JobsInv, JobsTypeOK
<1>3. AttemptsMatchTheState'
  BY <1>2 DEF JobsInv, AttemptsMatchTheState
<1> QED BY <1>1, <1>3 DEF JobsInv

\* A move along the table is a step of the lifecycle.
LEMMA OneEdge ==
    ASSUME JobsInv, JobsInv', NEW j \in Jobs, NEW to,
           jobState' = [jobState EXCEPT ![j] = to],
           \/ jobState[j] = "none" /\ to = "pending"
           \/ jobState[j] # "none" /\ Lifecycle!IsLegal(jobState[j], to)
    PROVE  Lifecycle!Next
<1>1. jobState \in [Jobs -> Lifecycle!JobState \union {"none"}]
  BY DEF JobsInv, JobsTypeOK
<1>2. jobState' \in [Jobs -> Lifecycle!JobState \union {"none"}]
  BY DEF JobsInv, JobsTypeOK
<1>3. \A i \in Jobs : jobState'[i] = IF i = j THEN to ELSE jobState[i]
  BY <1>1
<1>4. Lifecycle!Submitted(j) \/ Lifecycle!Moved(j)
  BY <1>1, <1>3 DEF Lifecycle!Submitted, Lifecycle!Moved
<1> QED BY <1>2, <1>3, <1>4 DEF Lifecycle!Next

\* Every operation on the jobs keeps the counters with the states and follows
\* the table.
LEMMA JobStepIsSound ==
    ASSUME JobsInv, JobStep
    PROVE  JobsInv' /\ [Lifecycle!Next]_jobState
<1>1. /\ jobState \in [Jobs -> Lifecycle!JobState \union {"none"}]
      /\ attempt \in [Jobs -> 0 .. AttemptLimit]
  BY DEF JobsInv, JobsTypeOK
<1>2. ASSUME NEW j \in Jobs, UNCHANGED attempt
      PROVE  attempt' = [attempt EXCEPT ![j] = attempt[j]] /\ attempt[j] \in 0 .. AttemptLimit
  BY <1>1, <1>2
<1>3. CASE UNCHANGED jobVars
  BY <1>3 DEF JobsInv, JobsTypeOK, AttemptsMatchTheState, jobVars
<1>4. ASSUME NEW j \in Jobs, NEW r \in Requests, SubmitJob(j, KeyOf(r))
      PROVE  JobsInv' /\ [Lifecycle!Next]_jobState
  <2>1. jobState[j] = "none" /\ jobState' = [jobState EXCEPT ![j] = "pending"] /\ UNCHANGED attempt
    BY <1>4 DEF SubmitJob
  <2>2. "pending" \in Lifecycle!JobState
    BY JobStates
  <2>3. JobsInv'
    BY <1>2, <2>1, <2>2, OneJobMoves
  <2> QED BY <2>1, <2>3, OneEdge
<1>5. ASSUME NEW j \in Jobs, NEW to \in {"running", "cancelled", "skipped"}, MoveJob(j, to)
      PROVE  JobsInv' /\ [Lifecycle!Next]_jobState
  <2>1. /\ jobState[j] # "none" /\ Lifecycle!IsLegal(jobState[j], to)
        /\ jobState' = [jobState EXCEPT ![j] = to] /\ UNCHANGED attempt
    BY <1>5 DEF MoveJob, MayMove
  <2>2. to \in Lifecycle!JobState
    BY JobStates
  <2>3. JobsInv'
    BY <1>2, <2>1, <2>2, OneJobMoves
  <2> QED BY <2>1, <2>3, OneEdge
<1>6. ASSUME NEW j \in Jobs, FailJob(j)
      PROVE  JobsInv' /\ [Lifecycle!Next]_jobState
  <2> DEFINE n == Increment(attempt[j])
             to == AfterFailure(n)
  <2>1. /\ jobState[j] # "none" /\ Lifecycle!IsLegal(jobState[j], to)
        /\ jobState' = [jobState EXCEPT ![j] = to] /\ attempt' = [attempt EXCEPT ![j] = n]
    BY <1>6 DEF FailJob, MayMove
  <2>2. attempt[j] \in 0 .. AttemptLimit
    BY <1>1
  <2>3. n \in 0 .. AttemptLimit /\ (n >= MaxAttempts \/ n \in 1 .. MaxAttempts - 1)
    BY <2>2 DEF Increment
  <2>4. /\ to \in {"failed", "exhausted"}
        /\ to = "failed" => n \in 1 .. MaxAttempts - 1
        /\ to = "exhausted" => n >= MaxAttempts
    BY <2>3 DEF AfterFailure
  <2>5. to \in Lifecycle!JobState
    BY <2>4, JobStates
  <2> HIDE DEF n, to
  <2>6. JobsInv'
    BY <2>1, <2>3, <2>4, <2>5, OneJobMoves
  <2> QED BY <2>1, <2>6, OneEdge
<1>7. ASSUME NEW j \in Jobs, RetryJob(j)
      PROVE  JobsInv' /\ [Lifecycle!Next]_jobState
  <2> DEFINE n == IF jobState[j] = "exhausted" THEN 0 ELSE attempt[j]
  <2>1. /\ jobState[j] # "none" /\ Lifecycle!IsLegal(jobState[j], "pending")
        /\ jobState' = [jobState EXCEPT ![j] = "pending"] /\ attempt' = [attempt EXCEPT ![j] = n]
    BY <1>1, <1>7 DEF RetryJob, MayMove
  <2>2. n \in 0 .. AttemptLimit
    BY <1>1
  <2>3. "pending" \in Lifecycle!JobState
    BY JobStates
  <2> HIDE DEF n
  <2>4. JobsInv'
    BY <2>1, <2>2, <2>3, OneJobMoves
  <2> QED BY <2>1, <2>4, OneEdge
<1>8. ASSUME NEW j \in Jobs, Complete(j)
      PROVE  JobsInv' /\ [Lifecycle!Next]_jobState
  <2>1. /\ jobState[j] # "none" /\ Lifecycle!IsLegal(jobState[j], "done")
        /\ jobState' = [jobState EXCEPT ![j] = "done"] /\ UNCHANGED attempt
    BY <1>8 DEF Complete, MayMove
  <2>2. "done" \in Lifecycle!JobState
    BY JobStates
  <2>3. JobsInv'
    BY <1>2, <2>1, <2>2, OneJobMoves
  <2> QED BY <2>1, <2>3, OneEdge
<1>9. CASE RecoverJobs
  <2>1. /\ jobState' = [j \in Jobs |-> IF jobState[j] = "running" THEN "pending" ELSE jobState[j]]
        /\ UNCHANGED attempt
    BY <1>9 DEF RecoverJobs
  <2>2. jobState' \in [Jobs -> Lifecycle!JobState \union {"none"}]
    BY <1>1, <2>1, JobStates
  <2>3. \A j \in Jobs : jobState'[j] = IF jobState[j] = "running" THEN "pending" ELSE jobState[j]
    BY <2>1
  <2>4. JobsInv'
    BY <2>1, <2>2, <2>3 DEF JobsInv, JobsTypeOK, AttemptsMatchTheState
  <2>5. Lifecycle!IsLegal("running", "pending")
    BY DEF Lifecycle!IsLegal, Lifecycle!Successors
  <2>6. "running" \in Lifecycle!JobState
    BY JobStates
  <2>7. \A j \in Jobs : jobState'[j] = jobState[j] \/ Lifecycle!Moved(j)
    BY <2>3, <2>5, <2>6 DEF Lifecycle!Moved
  <2> QED BY <2>2, <2>4, <2>7 DEF Lifecycle!Next
<1> QED BY <1>3, <1>4, <1>5, <1>6, <1>7, <1>8, <1>9 DEF JobStep

-----------------------------------------------------------------------------
(* Requests and their jobs.                                                *)

Busy == {"submitted", "running"}

\* A request that has submitted works on a job of its own, with its own key.
OwnsItsJob ==
    \A r \in Requests : pc[r] \in Busy => /\ job[r] \in Jobs
                                          /\ jobState[job[r]] # "none"
                                          /\ key[job[r]] = KeyOf(r)

Ids == {s.id : s \in rows}

\* A settled or waiting job keeps its key, and stays submitted.
LEMMA JobsAreKept ==
    ASSUME JobsInv, key \in [Jobs -> {NoKey} \union SUBSET (1 .. MaxIds)], JobStep, NEW i \in Jobs
    PROVE  /\ jobState[i] # "none" => key'[i] = key[i] /\ jobState'[i] # "none"
           /\ jobState'[i] = "done" => jobState[i] = "done" \/ Complete(i)
<1>1. /\ jobState \in [Jobs -> Lifecycle!JobState \union {"none"}]
      /\ key \in [Jobs -> {NoKey} \union SUBSET (1 .. MaxIds)]
  BY DEF JobsInv, JobsTypeOK
<1>2. CASE UNCHANGED jobVars
  BY <1>2 DEF jobVars
<1>3. ASSUME NEW j \in Jobs, NEW r \in Requests, SubmitJob(j, KeyOf(r))
      PROVE  /\ jobState[i] # "none" => key'[i] = key[i] /\ jobState'[i] # "none"
             /\ jobState'[i] = "done" => jobState[i] = "done" \/ Complete(i)
  <2> DEFINE k == KeyOf(r)
  <2>1. /\ jobState[j] = "none" /\ jobState' = [jobState EXCEPT ![j] = "pending"]
        /\ key' = [key EXCEPT ![j] = k]
    BY <1>3 DEF SubmitJob
  <2> HIDE DEF k
  <2> QED BY <1>1, <2>1
<1>4. ASSUME NEW j \in Jobs, NEW to \in {"running", "cancelled", "skipped"}, MoveJob(j, to)
      PROVE  /\ jobState[i] # "none" => key'[i] = key[i] /\ jobState'[i] # "none"
             /\ jobState'[i] = "done" => jobState[i] = "done" \/ Complete(i)
  BY <1>1, <1>4 DEF MoveJob
<1>5. ASSUME NEW j \in Jobs, FailJob(j)
      PROVE  /\ jobState[i] # "none" => key'[i] = key[i] /\ jobState'[i] # "none"
             /\ jobState'[i] = "done" => jobState[i] = "done" \/ Complete(i)
  <2> DEFINE to == AfterFailure(Increment(attempt[j]))
  <2>1. jobState' = [jobState EXCEPT ![j] = to] /\ key' = key
    BY <1>5 DEF FailJob
  <2>2. to \in {"failed", "exhausted"}
    BY DEF AfterFailure
  <2> HIDE DEF to
  <2> QED BY <1>1, <2>1, <2>2
<1>6. ASSUME NEW j \in Jobs, RetryJob(j)
      PROVE  /\ jobState[i] # "none" => key'[i] = key[i] /\ jobState'[i] # "none"
             /\ jobState'[i] = "done" => jobState[i] = "done" \/ Complete(i)
  <2>1. jobState' = [jobState EXCEPT ![j] = "pending"] /\ key' = key
    BY <1>6 DEF RetryJob
  <2> QED BY <1>1, <2>1
<1>7. ASSUME NEW j \in Jobs, Complete(j)
      PROVE  /\ jobState[i] # "none" => key'[i] = key[i] /\ jobState'[i] # "none"
             /\ jobState'[i] = "done" => jobState[i] = "done" \/ Complete(i)
  <2>1. jobState' = [jobState EXCEPT ![j] = "done"] /\ key' = key
    BY <1>7 DEF Complete
  <2>2. CASE i = j
    BY <1>1, <1>7, <2>1, <2>2
  <2>3. CASE i # j
    BY <1>1, <2>1, <2>3
  <2> QED BY <2>2, <2>3
<1>8. CASE RecoverJobs
  BY <1>1, <1>8 DEF RecoverJobs
<1> QED BY <1>2, <1>3, <1>4, <1>5, <1>6, <1>7, <1>8 DEF JobStep

\* An operator's step leaves the imports alone and completes nothing.
LEMMA OperatorStep ==
    ASSUME Operator
    PROVE  JobStep
BY DEF Operator, JobStep

\* Every step of the specification is a step of the jobs.
LEMMA EveryStepIsAJobStep ==
    ASSUME OwnsItsJob, TypeOK, [Next]_vars
    PROVE  JobStep
<1>1. ASSUME NEW r \in Requests, Step(r) PROVE JobStep
  <2>1. ASSUME NEW j \in Jobs, Submit(r, j) PROVE JobStep
    BY <2>1 DEF Submit, JobStep
  <2>2. CASE Run(r)
    <3>1. job[r] \in Jobs /\ MoveJob(job[r], "running")
      BY <2>2 DEF Run, OwnsItsJob, Busy
    <3> QED BY <3>1 DEF JobStep
  <2>3. ASSUME NEW f \in Contents, InsertSource(r, f) PROVE JobStep
    BY <2>3 DEF InsertSource, JobStep
  <2>4. CASE Finish(r)
    <3>1. job[r] \in Jobs /\ Complete(job[r])
      BY <2>4 DEF Finish, OwnsItsJob, Busy
    <3> QED BY <3>1 DEF JobStep
  <2>5. CASE Stop(r)
    BY <2>5 DEF Stop, JobStep
  <2> QED BY <1>1, <2>1, <2>2, <2>3, <2>4, <2>5 DEF Step
<1>2. ASSUME NEW r \in Requests, NEW F \in SUBSET Contents, Plan(r, F) PROVE JobStep
  BY <1>2 DEF Plan, JobStep
<1>3. CASE Operator
  BY <1>3, OperatorStep
<1>4. CASE UNCHANGED vars
  BY <1>4 DEF vars, JobStep
<1> QED BY <1>1, <1>2, <1>3, <1>4 DEF Next

-----------------------------------------------------------------------------
(* Plans and rows.                                                         *)

\* What phase one decides: the plan maps every content to an identity, a known
\* one to that of a row that has it.
LEMMA WhatIsPlanned ==
    ASSUME TypeOK, NEW r \in Requests, NEW F \in SUBSET Contents, Plan(r, F)
    PROVE  \E p \in [F -> 1 .. MaxIds] :
             /\ plan' = [plan EXCEPT ![r] = p]
             /\ \A f \in F \cap KnownContents : [id |-> p[f], content |-> f] \in rows
             /\ generated' \in 0 .. MaxIds
<1> DEFINE new == F \ KnownContents
           n == Cardinality(new)
<1>1. n \in Nat
  <2>1. IsFiniteSet(new)
    BY FS_Subset
  <2> QED BY <2>1, FS_CardinalityType
<1> HIDE DEF n
<1>2. generated \in 0 .. MaxIds /\ generated + n <= MaxIds /\ generated' = generated + n
  BY DEF Plan, TypeOK, n
<1>3. PICK known \in [F \ new -> {s.id : s \in rows}], fresh \in [new -> generated + 1 .. generated + n] :
        /\ \A f \in F \ new : [id |-> known[f], content |-> f] \in rows
        /\ plan' = [plan EXCEPT ![r] = [f \in F |-> IF f \in new THEN fresh[f] ELSE known[f]]]
  BY DEF Plan, n
<1> DEFINE p == [f \in F |-> IF f \in new THEN fresh[f] ELSE known[f]]
<1>4. ASSUME NEW s \in rows PROVE s.id \in 1 .. MaxIds
  BY DEF TypeOK, Source
<1>5. ASSUME NEW f \in F PROVE (IF f \in new THEN fresh[f] ELSE known[f]) \in 1 .. MaxIds
  <2>1. CASE f \in new
    <3>1. fresh[f] \in generated + 1 .. generated + n
      BY <1>3, <2>1
    <3> QED BY <1>1, <1>2, <2>1, <3>1
  <2>2. CASE f \notin new
    <3>1. known[f] \in {s.id : s \in rows}
      BY <1>3, <2>2
    <3> QED BY <1>4, <2>2, <3>1
  <2> QED BY <2>1, <2>2
<1>6. p \in [F -> 1 .. MaxIds]
  BY <1>5
<1>7. \A f \in F \cap KnownContents : p[f] = known[f] /\ f \in F \ new
  OBVIOUS
<1>8. generated' \in 0 .. MaxIds
  BY <1>1, <1>2
<1>9. plan' = [plan EXCEPT ![r] = p]
  BY <1>3
<1>10. \A f \in F \cap KnownContents : [id |-> p[f], content |-> f] \in rows
  BY <1>3, <1>7
<1> HIDE DEF p
<1> QED BY <1>6, <1>8, <1>9, <1>10

\* A plan of one request.
LEMMA PlansAreTyped ==
    ASSUME TypeOK, NEW r \in Requests
    PROVE  /\ DOMAIN plan[r] \subseteq Contents
           /\ \A f \in DOMAIN plan[r] : plan[r][f] \in 1 .. MaxIds
           /\ KeyOf(r) \subseteq 1 .. MaxIds
<1>1. plan[r] \in Plans
  BY DEF TypeOK
<1>2. PICK F \in SUBSET Contents : plan[r] \in [F -> 1 .. MaxIds]
  BY <1>1 DEF Plans
<1> QED BY <1>2 DEF KeyOf

\* Every variable keeps the values of its type.
LEMMA ImportStaysTyped ==
    ASSUME TypeOK, JobsTypeOK', [Next]_vars
    PROVE  TypeOK'
<1>1. /\ key \in [Jobs -> {NoKey} \union SUBSET (1 .. MaxIds)]
      /\ rows \subseteq Source /\ generated \in 0 .. MaxIds
      /\ pc \in [Requests -> {"idle", "planned", "submitted", "running"}]
      /\ plan \in [Requests -> Plans]
      /\ job \in [Requests -> Jobs \union {NoJob}]
      /\ overlapped \in BOOLEAN
  BY DEF TypeOK
<1>2. << >> \in Plans
  <2>1. << >> \in [{} -> 1 .. MaxIds]
    OBVIOUS
  <2> QED BY <2>1 DEF Plans
<1>3. ASSUME NEW r \in Requests, NEW F \in SUBSET Contents, Plan(r, F) PROVE TypeOK'
  <2>1. PICK p \in [F -> 1 .. MaxIds] :
          plan' = [plan EXCEPT ![r] = p] /\ generated' \in 0 .. MaxIds
    BY <1>3, WhatIsPlanned
  <2>2. p \in Plans
    BY DEF Plans
  <2>3. /\ pc' = [pc EXCEPT ![r] = "planned"] /\ overlapped' \in BOOLEAN
        /\ UNCHANGED <<key, rows, job>>
    BY <1>3 DEF Plan, jobVars
  <2>4. plan' \in [Requests -> Plans]
    BY <1>1, <2>1, <2>2
  <2>5. pc' \in [Requests -> {"idle", "planned", "submitted", "running"}]
    BY <1>1, <2>3
  <2> QED BY <1>1, <2>1, <2>3, <2>4, <2>5 DEF TypeOK
<1>4. ASSUME NEW r \in Requests, NEW j \in Jobs, Submit(r, j) PROVE TypeOK'
  <2> DEFINE k == KeyOf(r)
  <2>1. k \in SUBSET (1 .. MaxIds)
    BY PlansAreTyped
  <2>2. /\ key' = [key EXCEPT ![j] = k] /\ pc' = [pc EXCEPT ![r] = "submitted"]
        /\ job' = [job EXCEPT ![r] = j] /\ UNCHANGED <<rows, generated, plan, overlapped>>
    BY <1>4 DEF Submit, SubmitJob
  <2> HIDE DEF k
  <2>3. key' \in [Jobs -> {NoKey} \union SUBSET (1 .. MaxIds)]
    BY <1>1, <2>1, <2>2
  <2>4. /\ pc' \in [Requests -> {"idle", "planned", "submitted", "running"}]
        /\ job' \in [Requests -> Jobs \union {NoJob}]
    BY <1>1, <2>2
  <2> QED BY <1>1, <2>2, <2>3, <2>4 DEF TypeOK
<1>5. ASSUME NEW r \in Requests, Run(r) PROVE TypeOK'
  <2>1. pc' = [pc EXCEPT ![r] = "running"] /\ UNCHANGED <<key, rows, generated, plan, job, overlapped>>
    BY <1>5 DEF Run, MoveJob
  <2>2. pc' \in [Requests -> {"idle", "planned", "submitted", "running"}]
    BY <1>1, <2>1
  <2> QED BY <1>1, <2>1, <2>2 DEF TypeOK
<1>6. ASSUME NEW r \in Requests, NEW f \in Contents, InsertSource(r, f) PROVE TypeOK'
  <2>1. /\ f \in DOMAIN plan[r] /\ rows' = rows \union {[id |-> plan[r][f], content |-> f]}
        /\ UNCHANGED <<key, generated, pc, plan, job, overlapped>>
    BY <1>6 DEF InsertSource, Missing, jobVars
  <2>2. plan[r][f] \in 1 .. MaxIds
    BY <2>1, PlansAreTyped
  <2>3. rows' \subseteq Source
    BY <1>1, <2>1, <2>2 DEF Source
  <2> QED BY <1>1, <2>1, <2>3 DEF TypeOK
<1>7. ASSUME NEW r \in Requests, Ends(r), UNCHANGED key PROVE TypeOK'
  <2>1. /\ pc' = [pc EXCEPT ![r] = "idle"] /\ plan' = [plan EXCEPT ![r] = << >>]
        /\ job' = [job EXCEPT ![r] = NoJob] /\ UNCHANGED <<rows, generated, overlapped>>
    BY <1>7 DEF Ends
  <2>2. pc' \in [Requests -> {"idle", "planned", "submitted", "running"}]
    BY <1>1, <2>1
  <2>3. plan' \in [Requests -> Plans]
    BY <1>1, <1>2, <2>1
  <2>4. job' \in [Requests -> Jobs \union {NoJob}]
    BY <1>1, <2>1
  <2> QED BY <1>1, <1>7, <2>1, <2>2, <2>3, <2>4 DEF TypeOK
<1>8. ASSUME NEW r \in Requests, Step(r) PROVE TypeOK'
  BY <1>4, <1>5, <1>6, <1>7, <1>8 DEF Step, Finish, Stop, Complete, jobVars
<1>9. CASE Operator /\ UNCHANGED importVars
  <2>1. key' = key
    BY <1>9 DEF Operator, FailJob, RetryJob, MoveJob, RecoverJobs
  <2> QED BY <1>1, <1>9, <2>1 DEF TypeOK, importVars
<1>10. CASE UNCHANGED vars
  BY <1>1, <1>10 DEF TypeOK, vars, jobVars, importVars
<1> QED BY <1>3, <1>8, <1>9, <1>10 DEF Next

-----------------------------------------------------------------------------
(* Done jobs.                                                              *)

JobsAndRows == JobsInv /\ TypeOK /\ OwnsItsJob /\ DoneMeansRegistered

\* A step of one request leaves the others as they are.
LEMMA OthersAreUntouched ==
    ASSUME TypeOK, NEW q \in Requests,
           Step(q) \/ \E F \in SUBSET Contents : Plan(q, F),
           NEW r \in Requests \ {q}
    PROVE  pc'[r] = pc[r] /\ plan'[r] = plan[r] /\ job'[r] = job[r]
<1>1. /\ plan \in [Requests -> Plans] /\ job \in [Requests -> Jobs \union {NoJob}]
      /\ pc \in [Requests -> {"idle", "planned", "submitted", "running"}]
  BY DEF TypeOK
<1>2. ASSUME NEW F \in SUBSET Contents, Plan(q, F)
      PROVE  pc'[r] = pc[r] /\ plan'[r] = plan[r] /\ job'[r] = job[r]
  <2>1. PICK p \in [F -> 1 .. MaxIds] : plan' = [plan EXCEPT ![q] = p]
    BY <1>2, WhatIsPlanned
  <2>2. pc' = [pc EXCEPT ![q] = "planned"] /\ job' = job
    BY <1>2 DEF Plan
  <2> QED BY <1>1, <2>1, <2>2
<1>3. CASE Ends(q)
  BY <1>1, <1>3 DEF Ends
<1>4. ASSUME NEW j \in Jobs, Submit(q, j)
      PROVE  pc'[r] = pc[r] /\ plan'[r] = plan[r] /\ job'[r] = job[r]
  BY <1>1, <1>4 DEF Submit
<1>5. CASE Run(q)
  BY <1>1, <1>5 DEF Run
<1>6. ASSUME NEW f \in Contents, InsertSource(q, f)
      PROVE  pc'[r] = pc[r] /\ plan'[r] = plan[r] /\ job'[r] = job[r]
  BY <1>1, <1>6 DEF InsertSource
<1> QED BY <1>2, <1>3, <1>4, <1>5, <1>6 DEF Step, Finish, Stop

\* A request that goes on with the same plan and job still owns that job.
LEMMA OwnedJobsStayOwned ==
    ASSUME JobsAndRows, JobStep, NEW r \in Requests, pc[r] \in Busy,
           plan'[r] = plan[r], job'[r] = job[r]
    PROVE  job'[r] \in Jobs /\ jobState'[job'[r]] # "none" /\ key'[job'[r]] = KeyOf(r)'
<1>1. job[r] \in Jobs /\ jobState[job[r]] # "none" /\ key[job[r]] = KeyOf(r)
  BY DEF JobsAndRows, OwnsItsJob
<1>2. key'[job[r]] = key[job[r]] /\ jobState'[job[r]] # "none"
  BY <1>1, JobsAreKept DEF JobsAndRows, TypeOK
<1>3. KeyOf(r)' = KeyOf(r)
  BY DEF KeyOf
<1> QED BY <1>1, <1>2, <1>3

\* Whatever a step does, requests own their jobs.
LEMMA OwnershipStays ==
    ASSUME JobsAndRows, JobStep, [Next]_vars
    PROVE  OwnsItsJob'
<1>0. /\ key \in [Jobs -> {NoKey} \union SUBSET (1 .. MaxIds)]
      /\ job \in [Requests -> Jobs \union {NoJob}]
      /\ pc \in [Requests -> {"idle", "planned", "submitted", "running"}]
      /\ jobState \in [Jobs -> Lifecycle!JobState \union {"none"}]
  BY DEF JobsAndRows, TypeOK, JobsTypeOK
<1>1. CASE UNCHANGED <<pc, plan, job>>
  BY <1>1, OwnedJobsStayOwned DEF OwnsItsJob
<1>2. ASSUME NEW q \in Requests, Step(q) \/ \E F \in SUBSET Contents : Plan(q, F)
      PROVE  OwnsItsJob'
  <2> SUFFICES ASSUME NEW r \in Requests, pc'[r] \in Busy
               PROVE  job'[r] \in Jobs /\ jobState'[job'[r]] # "none" /\ key'[job'[r]] = KeyOf(r)'
    BY DEF OwnsItsJob, Busy
  <2>1. CASE r # q
    <3>1. pc'[r] = pc[r] /\ plan'[r] = plan[r] /\ job'[r] = job[r]
      BY <1>2, <2>1, OthersAreUntouched DEF JobsAndRows
    <3> QED BY <3>1, OwnedJobsStayOwned
  <2>2. CASE r = q
    <3>1. ASSUME NEW F \in SUBSET Contents, Plan(q, F) PROVE FALSE
      BY <1>0, <2>2, <3>1 DEF Plan, Busy
    <3>2. ASSUME NEW j \in Jobs, Submit(q, j)
          PROVE  job'[r] \in Jobs /\ jobState'[job'[r]] # "none" /\ key'[job'[r]] = KeyOf(r)'
      <4> DEFINE k == KeyOf(q)
      <4>1. /\ key' = [key EXCEPT ![j] = k] /\ job' = [job EXCEPT ![q] = j] /\ plan' = plan
            /\ jobState' = [jobState EXCEPT ![j] = "pending"]
        BY <3>2 DEF Submit, SubmitJob
      <4>2. KeyOf(r)' = k
        BY <2>2, <4>1 DEF KeyOf
      <4> HIDE DEF k
      <4> QED BY <1>0, <2>2, <4>1, <4>2
    <3>3. CASE Run(q)
      <4>1. pc[r] \in Busy /\ plan' = plan /\ job' = job
        BY <2>2, <3>3 DEF Run, Busy
      <4> QED BY <4>1, OwnedJobsStayOwned
    <3>4. ASSUME NEW f \in Contents, InsertSource(q, f)
          PROVE  job'[r] \in Jobs /\ jobState'[job'[r]] # "none" /\ key'[job'[r]] = KeyOf(r)'
      <4>1. pc[r] \in Busy /\ plan' = plan /\ job' = job
        BY <2>2, <3>4 DEF InsertSource, Busy
      <4> QED BY <4>1, OwnedJobsStayOwned
    <3>5. CASE Ends(q)
      BY <1>0, <2>2, <3>5 DEF Ends, Busy
    <3> QED BY <1>2, <3>1, <3>2, <3>3, <3>4, <3>5 DEF Step, Finish, Stop
  <2> QED BY <2>1, <2>2
<1>3. CASE Operator /\ UNCHANGED importVars
  BY <1>1, <1>3 DEF importVars
<1>4. CASE UNCHANGED vars
  BY <1>1, <1>4 DEF vars, importVars
<1> QED BY <1>2, <1>3, <1>4 DEF Next

\* Sources are only added.
LEMMA RowsGrow ==
    ASSUME [Next]_vars
    PROVE  rows \subseteq rows'
<1>1. ASSUME NEW r \in Requests, Step(r) PROVE rows \subseteq rows'
  BY <1>1 DEF Step, Submit, Run, InsertSource, Finish, Stop, Ends
<1>2. ASSUME NEW r \in Requests, NEW F \in SUBSET Contents, Plan(r, F) PROVE rows \subseteq rows'
  BY <1>2 DEF Plan
<1>3. CASE (Operator /\ UNCHANGED importVars) \/ UNCHANGED vars
  BY <1>3 DEF importVars, vars
<1> QED BY <1>1, <1>2, <1>3 DEF Next

\* Only a request that inserted everything completes a job: its own.
LEMMA OnlyFinishCompletes ==
    ASSUME JobsAndRows, [Next]_vars, NEW j \in Jobs, Complete(j)
    PROVE  \E r \in Requests : Finish(r) /\ job[r] = j
<1>1. /\ jobState \in [Jobs -> Lifecycle!JobState \union {"none"}]
      /\ key \in [Jobs -> {NoKey} \union SUBSET (1 .. MaxIds)]
  BY DEF JobsAndRows, TypeOK, JobsTypeOK
<1>2. ~Lifecycle!IsLegal("done", "done")
  BY DEF Lifecycle!IsLegal, Lifecycle!Successors
<1>3. jobState[j] # "done" /\ jobState'[j] = "done"
  BY <1>1, <1>2 DEF Complete, MayMove
<1>4. jobState' # jobState
  BY <1>3
<1>5. ASSUME NEW r \in Requests, Step(r) PROVE Finish(r) /\ job[r] = j
  <2>1. ASSUME NEW i \in Jobs, Submit(r, i) PROVE FALSE
    BY <1>1, <1>3, <2>1 DEF Submit, SubmitJob
  <2>2. CASE Run(r)
    <3>1. jobState' = [jobState EXCEPT ![job[r]] = "running"]
      BY <2>2 DEF Run, MoveJob
    <3> QED BY <1>1, <1>3, <3>1
  <2>3. ASSUME NEW f \in Contents, InsertSource(r, f) PROVE FALSE
    BY <1>4, <2>3 DEF InsertSource, jobVars
  <2>4. CASE Stop(r)
    BY <1>4, <2>4 DEF Stop, jobVars
  <2>5. CASE Finish(r)
    <3>1. jobState' = [jobState EXCEPT ![job[r]] = "done"]
      BY <2>5 DEF Finish, Complete
    <3> QED BY <1>1, <1>3, <2>5, <3>1
  <2> QED BY <1>5, <2>1, <2>2, <2>3, <2>4, <2>5 DEF Step
<1>6. ASSUME NEW r \in Requests, NEW F \in SUBSET Contents, Plan(r, F) PROVE FALSE
  BY <1>4, <1>6 DEF Plan, jobVars
<1>7. CASE Operator
  <2>1. ASSUME NEW i \in Jobs, FailJob(i) PROVE FALSE
    <3> DEFINE to == AfterFailure(Increment(attempt[i]))
    <3>1. jobState' = [jobState EXCEPT ![i] = to] /\ to # "done"
      BY <2>1 DEF FailJob, AfterFailure
    <3> HIDE DEF to
    <3> QED BY <1>1, <1>3, <3>1
  <2>2. ASSUME NEW i \in Jobs, RetryJob(i) PROVE FALSE
    BY <1>1, <1>3, <2>2 DEF RetryJob
  <2>3. ASSUME NEW i \in Jobs, NEW to \in {"running", "cancelled", "skipped"}, MoveJob(i, to) PROVE FALSE
    BY <1>1, <1>3, <2>3 DEF MoveJob
  <2>4. CASE RecoverJobs
    BY <1>1, <1>3, <2>4 DEF RecoverJobs
  <2> QED BY <1>7, <2>1, <2>2, <2>3, <2>4 DEF Operator
<1>8. CASE UNCHANGED vars
  BY <1>4, <1>8 DEF vars, jobVars
<1> QED BY <1>5, <1>6, <1>7, <1>8 DEF Next

\* The inputs of a job that is done stay registered.
LEMMA DoneStaysRegistered ==
    ASSUME JobsAndRows, JobStep, [Next]_vars
    PROVE  DoneMeansRegistered'
<1> SUFFICES ASSUME NEW j \in Jobs, jobState'[j] = "done"
             PROVE  key'[j] \subseteq {s.id : s \in rows'}
  BY DEF DoneMeansRegistered
<1>1. {s.id : s \in rows} \subseteq {s.id : s \in rows'}
  BY RowsGrow
<1>2. CASE jobState[j] = "done"
  <2>1. key'[j] = key[j]
    BY <1>2, JobsAreKept DEF JobsAndRows, TypeOK
  <2>2. key[j] \subseteq {s.id : s \in rows}
    BY <1>2 DEF JobsAndRows, DoneMeansRegistered
  <2> QED BY <1>1, <2>1, <2>2
<1>3. CASE jobState[j] # "done"
  <2>1. Complete(j)
    BY <1>3, JobsAreKept DEF JobsAndRows, TypeOK
  <2>2. PICK r \in Requests : Finish(r) /\ job[r] = j
    BY <2>1, OnlyFinishCompletes
  <2>3. Missing(r) = {} /\ pc[r] \in Busy
    BY <2>2 DEF Finish, Busy
  <2>4. key[j] = KeyOf(r) /\ key'[j] = key[j]
    BY <2>1, <2>2, <2>3 DEF JobsAndRows, OwnsItsJob, Complete
  <2>5. KeyOf(r) \subseteq {s.id : s \in rows}
    BY <2>3 DEF KeyOf, Missing
  <2> QED BY <1>1, <2>4, <2>5
<1> QED BY <1>2, <1>3

\* Jobs, requests and rows fit together in every reachable state.
LEMMA JobsAndRowsHold == Spec => []JobsAndRows
<1>1. ASSUME Init PROVE JobsAndRows
  <2>1. JobsTypeOK /\ AttemptsMatchTheState
    BY <1>1 DEF Init, JobsInit, JobsTypeOK, AttemptsMatchTheState
  <2>2. << >> \in Plans
    <3>1. << >> \in [{} -> 1 .. MaxIds]
      OBVIOUS
    <3> QED BY <3>1 DEF Plans
  <2>3. plan \in [Requests -> Plans]
    <3> DEFINE nothing == << >>
    <3>1. plan = [r \in Requests |-> nothing] /\ nothing \in Plans
      BY <1>1, <2>2 DEF Init
    <3> HIDE DEF nothing
    <3> QED BY <3>1
  <2>4. TypeOK
    <3>1. key \in [Jobs -> {NoKey} \union SUBSET (1 .. MaxIds)]
      BY <1>1 DEF Init, JobsInit
    <3>2. rows \subseteq Source
      BY <1>1 DEF Init
    <3>3. generated \in 0 .. MaxIds
      BY <1>1 DEF Init
    <3>4. overlapped \in BOOLEAN
      BY <1>1 DEF Init
    <3>5. pc \in [Requests -> {"idle", "planned", "submitted", "running"}]
      BY <1>1 DEF Init
    <3>6. job \in [Requests -> Jobs \union {NoJob}]
      BY <1>1 DEF Init
    <3> QED BY <2>1, <2>3, <3>1, <3>2, <3>3, <3>4, <3>5, <3>6 DEF TypeOK
  <2> QED BY <1>1, <2>1, <2>4 DEF Init, JobsInit, JobsAndRows, JobsInv, OwnsItsJob, Busy, DoneMeansRegistered
<1>2. ASSUME JobsAndRows, [Next]_vars PROVE JobsAndRows'
  <2>1. JobStep
    BY <1>2, EveryStepIsAJobStep DEF JobsAndRows
  <2>2. JobsInv'
    BY <1>2, <2>1, JobStepIsSound DEF JobsAndRows
  <2>3. TypeOK'
    BY <1>2, <2>2, ImportStaysTyped DEF JobsAndRows, JobsInv
  <2>4. OwnsItsJob' /\ DoneMeansRegistered'
    BY <1>2, <2>1, OwnershipStays, DoneStaysRegistered
  <2> QED BY <2>2, <2>3, <2>4 DEF JobsAndRows
<1> QED BY <1>1, <1>2, PTL DEF Spec

\* Every variable holds a value of its type.
THEOREM ImportIsTyped == Spec => []TypeOK
<1>1. JobsAndRows => TypeOK
  BY DEF JobsAndRows
<1> QED BY <1>1, JobsAndRowsHold, PTL

\* A failed job has an attempt left and an exhausted one none, through every
\* retry, skip and recovery (fail_job, retry_job).
THEOREM CountersMatch == Spec => []AttemptsMatchTheState
<1>1. JobsAndRows => AttemptsMatchTheState
  BY DEF JobsAndRows, JobsInv
<1> QED BY <1>1, JobsAndRowsHold, PTL

\* An import whose job is done has all its inputs among the sources, whatever
\* stopped or ran beside it (import_files).
THEOREM DoneImportsAreComplete == Spec => []DoneMeansRegistered
<1>1. JobsAndRows => DoneMeansRegistered
  BY DEF JobsAndRows
<1> QED BY <1>1, JobsAndRowsHold, PTL

\* The jobs of the Creator implement the lifecycle: every change of a job's
\* state, by any operation of the store, is an edge of TRANSITIONS.
THEOREM JobsImplementTheLifecycle == Spec => FollowsTheLifecycle
<1>1. Init => Lifecycle!Init
  BY DEF Init, JobsInit, Lifecycle!Init
<1>2. ASSUME JobsAndRows, [Next]_vars PROVE [Lifecycle!Next]_jobState
  <2>1. JobStep
    BY <1>2, EveryStepIsAJobStep DEF JobsAndRows
  <2> QED BY <1>2, <2>1, JobStepIsSound DEF JobsAndRows
<1> QED BY <1>1, <1>2, JobsAndRowsHold, PTL DEF Spec, FollowsTheLifecycle, Lifecycle!Spec

-----------------------------------------------------------------------------
(* One source per content.                                                 *)

\* While no requests have overlapped: at most one is under way, the rows of a
\* content it plans carry the identity it planned, and no content has two rows.
AloneInv ==
    ~overlapped =>
      /\ \A q, r \in Requests : pc[q] # "idle" /\ pc[r] # "idle" => q = r
      /\ \A r \in Requests : pc[r] # "idle" =>
           \A f \in DOMAIN plan[r], s \in rows : s.content = f => s.id = plan[r][f]
      /\ \A s, t \in rows : s.content = t.content => s = t

\* Two rows of a content with the same identity are one row.
LEMMA RowsAreRecords ==
    ASSUME TypeOK, NEW s \in rows
    PROVE  s = [id |-> s.id, content |-> s.content]
<1>1. s \in Source
  BY DEF TypeOK
<1> QED BY <1>1 DEF Source

\* Requests that do not overlap keep one row per content.
LEMMA AloneStays ==
    ASSUME TypeOK, TypeOK', AloneInv, [Next]_vars
    PROVE  AloneInv'
<1>0. /\ pc \in [Requests -> {"idle", "planned", "submitted", "running"}]
      /\ plan \in [Requests -> Plans]
  BY DEF TypeOK
<1>1. ASSUME UNCHANGED <<rows, plan, overlapped>>,
             \A r \in Requests : pc'[r] # "idle" => pc[r] # "idle"
      PROVE  AloneInv'
  BY <1>1 DEF AloneInv
<1>2. ASSUME NEW r \in Requests, NEW F \in SUBSET Contents, Plan(r, F) PROVE AloneInv'
  <2>1. PICK p \in [F -> 1 .. MaxIds] :
          /\ plan' = [plan EXCEPT ![r] = p]
          /\ \A f \in F \cap KnownContents : [id |-> p[f], content |-> f] \in rows
    BY <1>2, WhatIsPlanned
  <2>2. /\ pc' = [pc EXCEPT ![r] = "planned"] /\ rows' = rows
        /\ overlapped' = (overlapped \/ \E q \in Requests : pc[q] # "idle")
    BY <1>2 DEF Plan
  <2> SUFFICES ASSUME ~overlapped' PROVE
        /\ \A q, t \in Requests : pc'[q] # "idle" /\ pc'[t] # "idle" => q = t
        /\ \A q \in Requests : pc'[q] # "idle" =>
             \A f \in DOMAIN plan'[q], s \in rows' : s.content = f => s.id = plan'[q][f]
        /\ \A s, t \in rows' : s.content = t.content => s = t
    BY DEF AloneInv
  <2>3. ~overlapped /\ \A q \in Requests : pc[q] = "idle"
    BY <2>2
  <2>4. \A q \in Requests : pc'[q] # "idle" => q = r
    BY <1>0, <2>2, <2>3
  <2>5. \A s, t \in rows : s.content = t.content => s = t
    BY <2>3 DEF AloneInv
  <2>6. plan'[r] = p
    BY <1>0, <2>1
  <2>7. ASSUME NEW f \in F, NEW s \in rows, s.content = f PROVE s.id = p[f]
    <3>1. f \in KnownContents
      BY <2>7 DEF KnownContents
    <3>2. [id |-> p[f], content |-> f] \in rows
      BY <2>1, <3>1
    <3>3. s = [id |-> p[f], content |-> f]
      BY <2>5, <2>7, <3>2
    <3> QED BY <3>3
  <2> QED BY <2>2, <2>4, <2>5, <2>6, <2>7
<1>3. ASSUME NEW r \in Requests, NEW f \in Contents, InsertSource(r, f) PROVE AloneInv'
  <2> DEFINE new == [id |-> plan[r][f], content |-> f]
  <2>1. /\ pc[r] = "running" /\ f \in DOMAIN plan[r] /\ rows' = rows \union {new}
        /\ UNCHANGED <<pc, plan, overlapped>>
    BY <1>3 DEF InsertSource, Missing
  <2> SUFFICES ASSUME ~overlapped PROVE
        /\ \A q, t \in Requests : pc[q] # "idle" /\ pc[t] # "idle" => q = t
        /\ \A q \in Requests : pc[q] # "idle" =>
             \A g \in DOMAIN plan[q], s \in rows' : s.content = g => s.id = plan[q][g]
        /\ \A s, t \in rows' : s.content = t.content => s = t
    BY <2>1 DEF AloneInv
  <2>2. \A q, t \in Requests : pc[q] # "idle" /\ pc[t] # "idle" => q = t
    BY DEF AloneInv
  <2>3. \A q \in Requests : pc[q] # "idle" => q = r
    BY <2>1, <2>2
  <2>4. \A g \in DOMAIN plan[r], s \in rows : s.content = g => s.id = plan[r][g]
    BY <2>1 DEF AloneInv
  <2>5. \A s, t \in rows : s.content = t.content => s = t
    BY DEF AloneInv
  <2>6. new.id = plan[r][f] /\ new.content = f
    OBVIOUS
  <2>7. \A s \in rows : s.content = f => s = new
    BY <2>1, <2>4, RowsAreRecords
  <2> HIDE DEF new
  <2>8. \A s, t \in rows' : s.content = t.content => s = t
    BY <2>1, <2>5, <2>6, <2>7
  <2>9. \A g \in DOMAIN plan[r], s \in rows' : s.content = g => s.id = plan[r][g]
    BY <2>1, <2>4, <2>6
  <2> QED BY <2>2, <2>3, <2>8, <2>9
<1>4. ASSUME NEW r \in Requests, Ends(r) PROVE AloneInv'
  <2>1. /\ pc' = [pc EXCEPT ![r] = "idle"] /\ UNCHANGED <<rows, overlapped>>
        /\ \A q \in Requests \ {r} : plan'[q] = plan[q]
    BY <1>0, <1>4 DEF Ends
  <2>2. \A q \in Requests : pc'[q] # "idle" => q # r /\ pc'[q] = pc[q] /\ plan'[q] = plan[q]
    BY <1>0, <2>1
  <2> QED BY <2>1, <2>2 DEF AloneInv
<1>5. ASSUME NEW r \in Requests, NEW j \in Jobs, Submit(r, j) PROVE AloneInv'
  <2>1. \A q \in Requests : pc'[q] # "idle" => pc[q] # "idle"
    BY <1>0, <1>5 DEF Submit
  <2> QED BY <1>1, <1>5, <2>1 DEF Submit
<1>6. ASSUME NEW r \in Requests, Run(r) PROVE AloneInv'
  <2>1. \A q \in Requests : pc'[q] # "idle" => pc[q] # "idle"
    BY <1>0, <1>6 DEF Run
  <2> QED BY <1>1, <1>6, <2>1 DEF Run
<1>7. ASSUME NEW r \in Requests, Step(r) PROVE AloneInv'
  BY <1>3, <1>4, <1>5, <1>6, <1>7 DEF Step, Finish, Stop
<1>8. CASE (Operator /\ UNCHANGED importVars) \/ UNCHANGED vars
  BY <1>1, <1>8 DEF vars, importVars
<1> QED BY <1>2, <1>7, <1>8 DEF Next

\* As long as no two requests overlap, a project has one source per content,
\* whatever was interrupted between two inserts and run again
\* (existing_by_content).
THEOREM ImportsAreRepeatable == Spec => []OneIdentityPerContent
<1>1. Init => AloneInv
  BY DEF Init, AloneInv
<1>2. TypeOK /\ TypeOK' /\ AloneInv /\ [Next]_vars => AloneInv'
  BY AloneStays
<1>3. AloneInv => OneIdentityPerContent
  BY DEF AloneInv, OneIdentityPerContent
<1> QED BY <1>1, <1>2, <1>3, ImportIsTyped, PTL DEF Spec
=============================================================================
