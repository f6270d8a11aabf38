------------------------------- MODULE Import -------------------------------
(***************************************************************************)
(* Importing local files into a project                                    *)
(* (crates/research/src/creator/import.rs) on top of the durable jobs.     *)
(*                                                                         *)
(* import_files hashes every file and looks each content up among the      *)
(* project's sources before it writes anything; then it submits a job,     *)
(* marks it running, inserts the missing sources one by one, stores the    *)
(* manifest and completes the job.  Every write is a transaction of its    *)
(* own, requests run beside each other, and a request may stop between any *)
(* two writes because the store failed or the process died.                *)
(*                                                                         *)
(* A request is the set of the contents it names; two files of equal bytes *)
(* in one request are one content.                                         *)
(***************************************************************************)
EXTENDS CreatorJobs, FiniteSets, Functions

CONSTANTS
    Requests,   \* import requests that can be in flight
    Contents,   \* distinct file contents
    NoJob,      \* a request that has not submitted a job
    MaxIds      \* bound on the source identities generated

ASSUME ImportAssumption == /\ NoJob \notin Jobs
                           /\ MaxIds \in Nat
                           /\ IsFiniteSet(Contents)

VARIABLES
    rows,        \* the sources: records of an id and a content
    generated,   \* the ids 1 .. generated were handed out
    pc,          \* request -> how far it is
    plan,        \* request -> content -> the id decided for it
    job,         \* request -> its job
    overlapped   \* history: a request was planned while another was under way

importVars == <<rows, generated, pc, plan, job, overlapped>>
vars == <<jobVars, importVars>>

Source == [id : 1 .. MaxIds, content : Contents]
Plans  == UNION {[F -> 1 .. MaxIds] : F \in SUBSET Contents}

\* Mutant: an earlier import is not looked up.
NothingKnown == {}

KnownContents == {r.content : r \in rows}

\* The cache key of an import: the identities of its inputs.
KeyOf(r) == {plan[r][f] : f \in DOMAIN plan[r]}

Missing(r) == {f \in DOMAIN plan[r] : plan[r][f] \notin {s.id : s \in rows}}

Init ==
  /\ JobsInit
  /\ rows = {}
  /\ generated = 0
  /\ pc = [r \in Requests |-> "idle"]
  /\ plan = [r \in Requests |-> << >>]
  /\ job = [r \in Requests |-> NoJob]
  /\ overlapped = FALSE

\* Phase one: a known content keeps the identity of a row that has it, every
\* other one is given an identity of its own.
Plan(r, F) ==
  LET new == F \ KnownContents
      n   == Cardinality(new)
  IN  /\ pc[r] = "idle"
      /\ generated + n <= MaxIds
      /\ \E known \in [F \ new -> {s.id : s \in rows}],
            fresh \in [new -> generated + 1 .. generated + n] :
           /\ \A f \in F \ new : [id |-> known[f], content |-> f] \in rows
           /\ IsInjective(fresh)
           /\ plan' = [plan EXCEPT ![r] = [f \in F |-> IF f \in new THEN fresh[f]
                                                       ELSE known[f]]]
      /\ generated' = generated + n
      /\ pc' = [pc EXCEPT ![r] = "planned"]
      /\ overlapped' = (overlapped \/ \E q \in Requests : pc[q] # "idle")
      /\ UNCHANGED <<jobVars, rows, job>>

Submit(r, j) ==
  /\ pc[r] = "planned"
  /\ SubmitJob(j, KeyOf(r))
  /\ pc' = [pc EXCEPT ![r] = "submitted"]
  /\ job' = [job EXCEPT ![r] = j]
  /\ UNCHANGED <<rows, generated, plan, overlapped>>

Run(r) ==
  /\ pc[r] = "submitted"
  /\ MoveJob(job[r], "running")
  /\ pc' = [pc EXCEPT ![r] = "running"]
  /\ UNCHANGED <<rows, generated, plan, job, overlapped>>

InsertSource(r, f) ==
  /\ pc[r] = "running"
  /\ f \in Missing(r)
  /\ rows' = rows \union {[id |-> plan[r][f], content |-> f]}
  /\ UNCHANGED <<jobVars, generated, pc, plan, job, overlapped>>

\* The request is over and forgets what it planned.
Ends(r) ==
  /\ pc' = [pc EXCEPT ![r] = "idle"]
  /\ plan' = [plan EXCEPT ![r] = << >>]
  /\ job' = [job EXCEPT ![r] = NoJob]
  /\ UNCHANGED <<rows, generated, overlapped>>

\* Mutant: the job is completed before the last insert.
FinishEarly(r) ==
  /\ pc[r] = "running"
  /\ Complete(job[r])
  /\ Ends(r)

\* The manifest is an artifact without bytes that nothing else reads.
Finish(r) ==
  /\ pc[r] = "running"
  /\ Missing(r) = {}
  /\ Complete(job[r])
  /\ Ends(r)

\* The store refuses or fails, or the process dies: the request is gone, and
\* its job stays in the state it has.
Stop(r) ==
  /\ pc[r] # "idle"
  /\ Ends(r)
  /\ UNCHANGED jobVars

Step(r) ==
  \/ \E j \in Jobs : Submit(r, j)
  \/ Run(r)
  \/ \E f \in Contents : InsertSource(r, f)
  \/ Finish(r)
  \/ Stop(r)

Next ==
  \/ \E r \in Requests, F \in SUBSET Contents \ {{}} : Plan(r, F)
  \/ \E r \in Requests : Step(r)
  \/ Operator /\ UNCHANGED importVars

Spec == Init /\ [][Next]_vars

-----------------------------------------------------------------------------
(* Properties                                                              *)

\* Every variable holds a value of its type.
TypeOK ==
  /\ JobsTypeOK
  /\ key \in [Jobs -> {NoKey} \union SUBSET (1 .. MaxIds)]
  /\ rows \subseteq Source
  /\ generated \in 0 .. MaxIds
  /\ pc \in [Requests -> {"idle", "planned", "submitted", "running"}]
  /\ plan \in [Requests -> Plans]
  /\ job \in [Requests -> Jobs \union {NoJob}]
  /\ overlapped \in BOOLEAN

\* The inputs of an import that is done are all among the sources, whatever
\* stopped, was recovered, retried or run beside it (import_files completes
\* its job after the last insert).
DoneMeansRegistered ==
  \A j \in Jobs : jobState[j] = "done" => key[j] \subseteq {s.id : s \in rows}

\* As long as no two requests overlap, a project has one source per content,
\* whatever was interrupted between two inserts and run again: the lookup of
\* existing_by_content is what makes an import repeatable.
OneIdentityPerContent ==
  ~overlapped => \A s, t \in rows : s.content = t.content => s = t
=============================================================================
