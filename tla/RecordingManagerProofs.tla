----------------------- MODULE RecordingManagerProofs -----------------------
(***************************************************************************)
(* Theorems about RecordingManager, for every set of jobs, requests and    *)
(* every cap, and for every MaxRetries and MaxEvents.                      *)
(***************************************************************************)
EXTENDS RecordingManager, FiniteSetTheorems, TLAPS

USE ConstantsAssumption, NoRequestAssumption

-----------------------------------------------------------------------------
(* Type correctness.                                                       *)

\* A function stays in its set when one value is replaced: used for every
\* map the manager updates at one job.
LEMMA ExceptIsTyped ==
    ASSUME NEW D, NEW R, NEW f \in [D -> R], NEW d \in D, NEW e \in R
    PROVE  [f EXCEPT ![d] = e] \in [D -> R]
  OBVIOUS

\* Sending one event on event_tx keeps the queue typed.
LEMMA AppendIsTyped ==
    ASSUME NEW S, NEW s \in Seq(S), NEW e \in S
    PROVE  Append(s, e) \in Seq(S)
  OBVIOUS

\* So does sending two, as a poll does that gives a recording up.
LEMMA AppendTwoIsTyped ==
    ASSUME NEW S, NEW s \in Seq(S), NEW a \in S, NEW b \in S
    PROVE  s \o <<a, b>> \in Seq(S)
  OBVIOUS

\* The part a job is on is one of the parts, and has a path.
LEMMA PartIsAPart ==
    ASSUME TypeOK, NEW j \in Jobs
    PROVE  /\ Part(j) \in Parts
           /\ Part(j) = rec[j].retry_count + 1
           /\ \A t \in Titles : PathOf(Part(j), t) \in Paths
  BY DEF TypeOK, Part, ActiveRecordings, Parts, PathOf, Paths, Files

\* The RecordingStarted the manager sends is an event.
LEMMA StartedIsTyped ==
    ASSUME NEW j \in Jobs, NEW s \in RecordingStates, NEW f \in Paths
    PROVE  Started(j, s, f) \in Events
  BY DEF Started, Events

\* The RecordingProgress of a poll is an event.
LEMMA ProgressIsTyped == \A j \in Jobs : Progress(j) \in Events
  BY DEF Progress, Events, RecordingStates

\* The RecordingFinished of each sender is an event.
LEMMA FinishedIsTyped ==
    ASSUME NEW j \in Jobs, NEW s \in Terminal, NEW f \in Paths \cup {NoFile}
    PROVE  Finished(j, s, f) \in Events
  BY DEF Finished, Events, RecordingStates, Terminal

\* Stopping recorders leaves process states, starts none, and ends those
\* it is asked to stop.
LEMMA StoppedIsTyped ==
    ASSUME TypeOK, NEW j \in Jobs, NEW S
    PROVE  /\ Stopped(j, S) \in [Parts -> ProcStates]
           /\ \A p \in Parts : /\ Stopped(j, S)[p] \in Alive => proc[j][p] \in Alive
                               /\ p \in S => Stopped(j, S)[p] \notin Alive
  BY DEF TypeOK, Stopped, ProcStates, Alive

\* Changing the state of an ActiveRecording yields an ActiveRecording.
LEMMA RecordingWithState ==
    ASSUME NEW a \in ActiveRecordings, NEW s \in RecordingStates
    PROVE  [a EXCEPT !.state = s] \in ActiveRecordings
  BY DEF ActiveRecordings

\* run_manager starts with typed state.
THEOREM InitIsTyped == Init => TypeOK
  BY DEF Init, TypeOK, Requests, ActiveRecordings, LiveCaptures, RecordingStates, Titles,
         ResolverPhases, Parts, Files, Base, ProcStates, FinalizerStages, Events

\* Every action leaves the state typed, one action at a time and under it one
\* variable at a time.
THEOREM StepIsTyped == TypeOK /\ [Next]_vars => TypeOK'
<1> SUFFICES ASSUME TypeOK, [Next]_vars PROVE TypeOK'
  OBVIOUS
<1> USE DEF TypeOK
<1>1. ASSUME NEW j \in Jobs, NEW r \in Requests, Start(j, r) \/ DownloadVod(j, r)
      PROVE  TypeOK'
  <2>1. Insert(j, r)
    BY <1>1 DEF Start, DownloadVod
  <2>2. Base \in Paths /\ "ResolvingUrl" \in RecordingStates
    BY DEF Base, Paths, Files, Parts, RecordingStates
  <2>3. Started(j, "ResolvingUrl", Base) \in Events
    BY <2>2, StartedIsTyped
  <2>4. events' \in Seq(Events)
    BY <2>1, <2>3 DEF Insert
  <2>5. resolver' \in [Jobs -> [phase : ResolverPhases, part : Parts, title : Titles]]
    BY <2>1 DEF Insert, ResolverPhases
  <2>6. req' \in [Jobs -> Requests \cup {NoRequest}] /\ active' \subseteq Jobs
    BY <2>1 DEF Insert
  <2> QED BY <2>1, <2>4, <2>5, <2>6 DEF Insert
<1>2. ASSUME NEW S \in SUBSET Jobs, NEW T \in SUBSET Jobs, Remove(S, T),
             UNCHANGED <<running, req, tail, resolver, disk, events>>
      PROVE  TypeOK'
  <2>1. active' \subseteq Jobs
    BY <1>2 DEF Remove
  <2>2. rec' \in [Jobs -> ActiveRecordings]
    <3>1. ASSUME NEW j \in Jobs
          PROVE  [rec[j] EXCEPT !.state = "Finished"] \in ActiveRecordings
      <4>1. rec[j] \in ActiveRecordings /\ "Finished" \in RecordingStates
        BY DEF RecordingStates
      <4> QED BY <4>1, RecordingWithState
    <3> QED BY <1>2, <3>1 DEF Remove
  <2>3. proc' \in [Jobs -> [Parts -> ProcStates]]
    BY <1>2, StoppedIsTyped DEF Remove
  <2>4. finalizer' \in [Jobs -> FinalizerStages]
    BY <1>2 DEF Remove, StartFinalizer, FinalizerStages
  <2> QED BY <1>2, <2>1, <2>2, <2>3, <2>4
<1>3. ASSUME NEW j \in Jobs, Stop(j) PROVE TypeOK'
  BY <1>2, <1>3 DEF Stop
<1>4. CASE StopAll
  BY <1>2, <1>4 DEF StopAll, SlotHolders
<1>5. CASE Cancel
  <2>1. proc' \in [Jobs -> [Parts -> ProcStates]]
    BY <1>5, StoppedIsTyped DEF Cancel
  <2> QED BY <1>5, <2>1 DEF Cancel
<1>6. ASSUME NEW j \in Jobs, ResolverSpawns(j) PROVE TypeOK'
  <2>1. PICK t \in Titles : resolver' = [resolver EXCEPT ![j].phase = "spawned", ![j].title = t]
    BY <1>6 DEF ResolverSpawns
  <2>2. resolver' \in [Jobs -> [phase : ResolverPhases, part : Parts, title : Titles]]
    BY <2>1 DEF ResolverPhases
  <2>3. proc' \in [Jobs -> [Parts -> ProcStates]]
    BY <1>6 DEF ResolverSpawns, ProcStates
  <2> QED BY <1>6, <2>2, <2>3 DEF ResolverSpawns
<1>7. ASSUME NEW j \in Jobs, ResolverRefuses(j) PROVE TypeOK'
  BY <1>7 DEF ResolverRefuses, ResolverPhases
<1>8. ASSUME NEW j \in Jobs, ReceiveRecorder(j) PROVE TypeOK'
  <2>1. resolver' \in [Jobs -> [phase : ResolverPhases, part : Parts, title : Titles]]
    BY <1>8 DEF ReceiveRecorder, ResolverPhases
  <2>2. rec' \in [Jobs -> ActiveRecordings]
    <3>1. rec[j] \in ActiveRecordings /\ resolver[j].title \in Titles
      OBVIOUS
    <3>2. [rec[j] EXCEPT !.state = "Recording", !.process = TRUE, !.title = resolver[j].title]
              \in ActiveRecordings
      BY <3>1 DEF ActiveRecordings, RecordingStates
    <3> QED BY <1>8, <3>2 DEF ReceiveRecorder
  <2>3. Started(j, "Recording", PathOf(Part(j), resolver[j].title)) \in Events
    <3>1. resolver[j].title \in Titles
      OBVIOUS
    <3>2. PathOf(Part(j), resolver[j].title) \in Paths
      BY <3>1, PartIsAPart
    <3> QED BY <3>2, StartedIsTyped DEF RecordingStates
  <2>4. events' \in Seq(Events)
    BY <1>8, <2>3, AppendIsTyped DEF ReceiveRecorder
  <2> QED BY <1>8, <2>1, <2>2, <2>4 DEF ReceiveRecorder
<1>9. ASSUME NEW j \in Jobs, ReceiveRefusal(j) PROVE TypeOK'
  <2>1. resolver' \in [Jobs -> [phase : ResolverPhases, part : Parts, title : Titles]]
    BY <1>9 DEF ReceiveRefusal, ResolverPhases
  <2>2. rec' \in [Jobs -> ActiveRecordings]
    <3>1. rec[j] \in ActiveRecordings /\ "Failed" \in RecordingStates
      BY DEF RecordingStates
    <3>2. [rec[j] EXCEPT !.state = "Failed"] \in ActiveRecordings
      BY <3>1, RecordingWithState
    <3> QED BY <1>9, <3>2 DEF ReceiveRefusal
  <2>3. Finished(j, "Failed", NoFile) \in Events
    BY FinishedIsTyped DEF Terminal
  <2>4. events' \in Seq(Events)
    BY <1>9, <2>3, AppendIsTyped DEF ReceiveRefusal
  <2> QED BY <1>9, <2>1, <2>2, <2>4 DEF ReceiveRefusal
<1>10. ASSUME NEW j \in Jobs, DropAnswer(j) PROVE TypeOK'
  <2>1. proc' \in [Jobs -> [Parts -> ProcStates]]
    BY <1>10, StoppedIsTyped DEF DropAnswer
  <2> QED BY <1>10, <2>1 DEF DropAnswer, ResolverPhases
<1>11. ASSUME NEW j \in Jobs, NEW p \in Parts, Recorder(j, p) PROVE TypeOK'
  <2>1. proc' \in [Jobs -> [Parts -> ProcStates]]
    <3>1. \/ proc' = proc
          \/ \E status \in {"hung", "ok", "failed"} : proc' = [proc EXCEPT ![j][p] = status]
      BY <1>11 DEF Recorder, RecorderWrites, RecorderFreezes, RecorderExits
    <3>2. ASSUME NEW status \in {"hung", "ok", "failed"}
          PROVE  [proc EXCEPT ![j][p] = status] \in [Jobs -> [Parts -> ProcStates]]
      <4>1. [proc[j] EXCEPT ![p] = status] \in [Parts -> ProcStates]
        BY DEF ProcStates
      <4> QED BY <4>1, ExceptIsTyped
    <3>3. CASE proc' # proc
      <4>1. PICK status \in {"hung", "ok", "failed"} : proc' = [proc EXCEPT ![j][p] = status]
        BY <3>1, <3>3
      <4> QED BY <3>2, <4>1
    <3> QED BY <3>3
  <2>2. disk' \in [Jobs -> [Files -> SUBSET Parts]]
    <3>1. p \in Files /\ disk[j][p] \cup {p} \in SUBSET Parts
      BY DEF Files
    <3>2. disk' = disk \/ disk' = [disk EXCEPT ![j][p] = disk[j][p] \cup {p}]
      BY <1>11 DEF Recorder, RecorderWrites, RecorderFreezes, RecorderExits
    <3> DEFINE d == [disk[j] EXCEPT ![p] = disk[j][p] \cup {p}]
    <3>3. d \in [Files -> SUBSET Parts]
      BY <3>1
    <3>4. [disk EXCEPT ![j] = d] \in [Jobs -> [Files -> SUBSET Parts]]
      BY <3>3, ExceptIsTyped
    <3> QED BY <3>2, <3>4
  <2> QED
    BY <1>11, <2>1, <2>2 DEF Recorder, RecorderWrites, RecorderFreezes, RecorderExits
<1>12. ASSUME NEW j \in Jobs, PollAlive(j) \/ PollStalled(j) PROVE TypeOK'
  <2>1. Part(j) \in Parts /\ Progress(j) \in Events
    BY PartIsAPart, ProgressIsTyped
  <2>2. CASE PollAlive(j)
    BY <2>1, <2>2 DEF PollAlive
  <2>3. CASE PollStalled(j)
    <3>1. PICK status \in {"ok", "failed"} : proc' = [proc EXCEPT ![j][Part(j)] = status]
      BY <2>3 DEF PollStalled
    <3>2. proc' \in [Jobs -> [Parts -> ProcStates]]
      BY <3>1, <2>1 DEF ProcStates
    <3>3. events' = Append(events, Progress(j))
      BY <2>3 DEF PollStalled
    <3>4. events' \in Seq(Events)
      BY <2>1, <3>3
    <3> QED BY <2>3, <3>2, <3>4 DEF PollStalled
  <2> QED BY <1>12, <2>2, <2>3
<1>13. ASSUME NEW j \in Jobs, PollSucceeded(j) PROVE TypeOK'
  <2>1. Part(j) \in Parts /\ Progress(j) \in Events
    BY PartIsAPart, ProgressIsTyped
  <2>2. tail' \in [Jobs -> LiveCaptures]
    <3>1. tail[j] \in LiveCaptures
      OBVIOUS
    <3> DEFINE t == [tail[j] EXCEPT !.open = tail[j].open \ {Part(j)},
                                    !.finalized = tail[j].finalized \cup {Part(j)}]
    <3>2. t \in LiveCaptures
      BY <3>1, <2>1 DEF LiveCaptures
    <3>3. tail' = [tail EXCEPT ![j] = t]
      BY <1>13 DEF PollSucceeded
    <3> QED BY <3>2, <3>3, ExceptIsTyped
  <2>3. rec' \in [Jobs -> ActiveRecordings]
    <3>1. rec[j] \in ActiveRecordings /\ "Finished" \in RecordingStates
      BY DEF RecordingStates
    <3>2. [rec[j] EXCEPT !.state = "Finished"] \in ActiveRecordings
      BY <3>1, RecordingWithState
    <3> QED BY <1>13, <3>2 DEF PollSucceeded
  <2>4. finalizer' \in [Jobs -> FinalizerStages]
    BY <1>13 DEF PollSucceeded, StartFinalizer, FinalizerStages
  <2>5. events' \in Seq(Events)
    BY <1>13, <2>1 DEF PollSucceeded
  <2> QED BY <1>13, <2>2, <2>3, <2>4, <2>5 DEF PollSucceeded
<1>14. ASSUME NEW j \in Jobs, PollRetries(j) PROVE TypeOK'
  <2>1. Progress(j) \in Events
    BY ProgressIsTyped
  <2>2. Part(j) + 1 \in Parts
    BY <1>14, PartIsAPart DEF PollRetries, Parts, ActiveRecordings
  <2>3. tail' \in [Jobs -> LiveCaptures]
    <3>1. tail[j] \in LiveCaptures
      OBVIOUS
    <3>2. [tail[j] EXCEPT !.open = tail[j].open \cup {Part(j) + 1}] \in LiveCaptures
      BY <3>1, <2>2 DEF LiveCaptures
    <3> QED BY <1>14, <3>2 DEF PollRetries
  <2>4. rec' \in [Jobs -> ActiveRecordings]
    <3>1. rec[j] \in ActiveRecordings /\ rec[j].retry_count < MaxRetries
      BY <1>14 DEF PollRetries
    <3>2. "ResolvingUrl" \in RecordingStates /\ rec[j].retry_count + 1 \in 0 .. MaxRetries
      BY <3>1 DEF ActiveRecordings, RecordingStates
    <3> DEFINE r == [rec[j] EXCEPT !.state = "ResolvingUrl", !.process = FALSE,
                                   !.retry_count = rec[j].retry_count + 1]
    <3>3. r \in ActiveRecordings
      BY <3>1, <3>2 DEF ActiveRecordings
    <3>4. rec' = [rec EXCEPT ![j] = r]
      BY <1>14 DEF PollRetries
    <3> QED BY <3>3, <3>4, ExceptIsTyped
  <2>5. resolver' \in [Jobs -> [phase : ResolverPhases, part : Parts, title : Titles]]
    <3>1. rec[j].title \in Titles
      BY DEF ActiveRecordings
    <3> QED BY <1>14, <3>1, <2>2 DEF PollRetries, ResolverPhases
  <2>6. events' \in Seq(Events)
    BY <1>14, <2>1 DEF PollRetries
  <2> QED BY <1>14, <2>3, <2>4, <2>5, <2>6 DEF PollRetries
<1>15. ASSUME NEW j \in Jobs, PollGivesUp(j) PROVE TypeOK'
  <2>1. Progress(j) \in Events /\ Finished(j, "Failed", NoFile) \in Events
    BY ProgressIsTyped, FinishedIsTyped DEF Terminal
  <2>2. rec' \in [Jobs -> ActiveRecordings]
    <3>1. rec[j] \in ActiveRecordings /\ "Failed" \in RecordingStates
      BY DEF RecordingStates
    <3>2. [rec[j] EXCEPT !.state = "Failed"] \in ActiveRecordings
      BY <3>1, RecordingWithState
    <3> QED BY <1>15, <3>2 DEF PollGivesUp
  <2>3. events' \in Seq(Events)
    <3>1. events' = events \o <<Progress(j), Finished(j, "Failed", NoFile)>>
      BY <1>15 DEF PollGivesUp
    <3> QED BY <2>1, <3>1, AppendTwoIsTyped
  <2> QED BY <1>15, <2>2, <2>3 DEF PollGivesUp
<1>16. ASSUME NEW j \in Jobs, Finalizer(j) PROVE TypeOK'
  <2>1. finalizer' \in [Jobs -> FinalizerStages]
    BY <1>16 DEF Finalizer, FinalizerStep, FinalizerStages, Merge, MergeFails, RenameMerged,
                 RenameMergedFails, DeleteParts, CorrectExtension, KeepExtension, Announce
  <2>2. disk' \in [Jobs -> [Files -> SUBSET Parts]]
    <3>1. Merging \in Files /\ Base \in Files /\ Corrected \in Files
      BY DEF Merging, Base, Corrected, Files, Parts
    <3>2. CASE Merge(j)
      <4>1. Segments(j) \subseteq Files
        <5>1. Part(j) \in 1 .. (MaxRetries + 1)
          BY PartIsAPart DEF Parts
        <5> QED BY <5>1 DEF Segments, Files, Parts
      <4>2. UNION {disk[j][p] : p \in Segments(j)} \in SUBSET Parts
        BY <4>1
      <4> QED BY <3>1, <3>2, <4>2 DEF Merge
    <3>3. CASE RenameMerged(j)
      BY <3>1, <3>3 DEF RenameMerged
    <3>6. CASE RenameMergedFails(j)
      BY <3>1, <3>6 DEF RenameMergedFails
    <3>7. CASE CorrectExtension(j)
      BY <3>1, <3>7 DEF CorrectExtension
    <3>4. CASE DeleteParts(j)
      BY <3>1, <3>4 DEF DeleteParts
    <3>5. CASE MergeFails(j) \/ KeepExtension(j) \/ Announce(j)
      BY <3>5 DEF MergeFails, KeepExtension, Announce
    <3> QED BY <1>16, <3>2, <3>3, <3>4, <3>5, <3>6, <3>7 DEF Finalizer
  <2>3. events' \in Seq(Events)
    <3>1. Finished(j, "Finished", NoFile) \in Events
      BY FinishedIsTyped DEF Terminal
    <3>2. Finished(j, "Finished", Corrected) \in Events
      BY FinishedIsTyped DEF Terminal, Paths, Files
    <3>3. \/ events' = events
          \/ \E e \in {Finished(j, "Finished", NoFile), Finished(j, "Finished", Corrected)} :
                events' = Append(events, e)
      BY <1>16
      DEF Finalizer, Merge, MergeFails, RenameMerged, RenameMergedFails, DeleteParts,
          CorrectExtension, KeepExtension, Announce
    <3>4. ASSUME NEW e \in Events PROVE Append(events, e) \in Seq(Events)
      BY <3>4, AppendIsTyped
    <3> QED BY <3>1, <3>2, <3>3, <3>4
  <2> QED
    BY <1>16, <2>1, <2>2, <2>3
    DEF Finalizer, Merge, MergeFails, RenameMerged, RenameMergedFails, DeleteParts,
        CorrectExtension, KeepExtension, Announce
<1>17. CASE TakeEvent
  BY <1>17 DEF TakeEvent
<1>18. CASE UNCHANGED vars
  BY <1>18 DEF vars
<1> QED
  BY <1>1, <1>3, <1>4, <1>5, <1>6, <1>7, <1>8, <1>9, <1>10, <1>11, <1>12, <1>13, <1>14,
     <1>15, <1>16, <1>17, <1>18
  DEF Next, ManagerNext, Command, Resolver, Receive, PollExit

\* The manager's state has its types in every reachable state.
THEOREM TypeIsCorrect == Spec => []TypeOK
  BY InitIsTyped, StepIsTyped, PTL DEF Spec

-----------------------------------------------------------------------------
(* The inductive invariant.  None of the safety properties is inductive:   *)
(* each of them relies on what a job that is unused, waiting or recording  *)
(* looks like.                                                             *)

Quiet(j) == \A p \in Parts : proc[j][p] \notin Alive

\* An id that was not used yet has left no trace.
UnusedIsBlank ==
    \A j \in Jobs : req[j] = NoRequest =>
        /\ j \notin active
        /\ resolver[j].phase = "idle" /\ resolver[j].part = Base
        /\ rec[j].state = "ResolvingUrl" /\ ~rec[j].process /\ Part(j) = Base
        /\ tail[j].finalized = {}
        /\ Quiet(j)

\* A cancelled manager has dropped its recordings.
CancelledIsEmpty == ~running => active = {}

\* Every answer is for the part its job waits for, stopped or not.
AnswersFitTheirJob ==
    \A j \in Jobs : resolver[j].phase # "idle" => resolver[j].part = Part(j)

\* A recording of the map has a task or an answer just while it resolves,
\* and a process only while it records.
ActiveIsConsistent ==
    \A j \in active :
        /\ rec[j].state = "ResolvingUrl" <=> resolver[j].phase # "idle"
        /\ rec[j].process => rec[j].state = "Recording"

\* Only the newest part has a live recorder, and none while a task is about
\* to spawn one.
NewestPartIsWritten ==
    \A j \in Jobs, p \in Parts : proc[j][p] \in Alive =>
        p = Part(j) /\ resolver[j].phase # "working"

\* A tail with a finalized part belongs to a recording that is over.
FinalizedIsOver ==
    \A j \in Jobs : tail[j].finalized # {} =>
        /\ j \notin active
        /\ resolver[j].phase = "idle"
        /\ Quiet(j)

\* What holds even beside the recorders of an earlier daemon, and all of it.
Core ==
    /\ TypeOK
    /\ UnusedIsBlank
    /\ CancelledIsEmpty
    /\ AnswersFitTheirJob
    /\ ActiveIsConsistent
    /\ NewestPartIsWritten
    /\ FinalizedIsOver

IInv == Core /\ FfmpegIsOwned

\* A step keeps Core, and beside it that every ffmpeg has an owner.
CoreStays == Core' /\ (FfmpegIsOwned => FfmpegIsOwned')

\* run_manager starts in the inductive invariant.
THEOREM InitIsInvariant == Init => IInv
<1> SUFFICES ASSUME Init PROVE IInv
  OBVIOUS
<1>1. TypeOK
  BY InitIsTyped
<1>2. \A j \in Jobs : Quiet(j)
  BY DEF Init, Quiet, Alive
<1>3. UnusedIsBlank /\ FinalizedIsOver
  BY <1>2 DEF Init, UnusedIsBlank, FinalizedIsOver, Part, Base
<1>4. CancelledIsEmpty /\ ActiveIsConsistent
  BY DEF Init, CancelledIsEmpty, ActiveIsConsistent
<1>5. AnswersFitTheirJob
  BY DEF Init, AnswersFitTheirJob
<1>6. NewestPartIsWritten /\ FfmpegIsOwned
  BY <1>2 DEF Quiet, NewestPartIsWritten, FfmpegIsOwned
<1> QED BY <1>1, <1>3, <1>4, <1>5, <1>6 DEF IInv, Core

\* Actions on files and events alone keep it.
LEMMA FrameKeepsCore ==
    ASSUME Core, TypeOK', UNCHANGED <<running, active, req, rec, tail, resolver, proc>>
    PROVE  CoreStays
  BY DEF Core, UnusedIsBlank, Quiet, CancelledIsEmpty, AnswersFitTheirJob, Part,
         ActiveIsConsistent, NewestPartIsWritten, FfmpegIsOwned, Held, FinalizedIsOver,
         CoreStays

\* Start and DownloadVod insert a blank id whose resolver works on part 1.
LEMMA InsertKeepsCore ==
    ASSUME Core, TypeOK', NEW j \in Jobs, NEW r \in Requests, running, Insert(j, r)
    PROVE  CoreStays
<1> USE DEF Insert
<1>1. /\ req[j] = NoRequest /\ r # NoRequest
      /\ resolver'[j].phase = "working" /\ resolver'[j].part = resolver[j].part
      /\ req'[j] = r
      /\ \A k \in Jobs \ {j} : resolver'[k] = resolver[k] /\ req'[k] = req[k]
  BY DEF Core, TypeOK
<1>2. \A k \in Jobs : Part(k)' = Part(k) /\ Quiet(k)' = Quiet(k)
  BY DEF Part, Quiet
<1>3. UnusedIsBlank'
  BY <1>1, <1>2 DEF Core, UnusedIsBlank
<1>4. CancelledIsEmpty'
  BY DEF CancelledIsEmpty
<1>5. AnswersFitTheirJob'
  BY <1>1, <1>2 DEF Core, AnswersFitTheirJob, UnusedIsBlank
<1>6. ActiveIsConsistent'
  BY <1>1 DEF Core, TypeOK, ActiveIsConsistent, UnusedIsBlank
<1>7. NewestPartIsWritten'
  BY <1>1, <1>2 DEF Core, NewestPartIsWritten, UnusedIsBlank, Quiet
<1>8. FfmpegIsOwned => FfmpegIsOwned'
  BY <1>1, <1>2 DEF Core, FfmpegIsOwned, UnusedIsBlank, Quiet, Held
<1>9. FinalizedIsOver'
  BY <1>1, <1>2 DEF Core, FinalizedIsOver, UnusedIsBlank
<1> QED BY <1>3, <1>4, <1>5, <1>6, <1>7, <1>8, <1>9 DEF Core, CoreStays

\* Recordings leave the map, and their processes are stopped: Stop, StopAll
\* and Cancel.
LEMMA LeavingKeepsCore ==
    ASSUME Core, TypeOK',
           active' \subseteq active,
           ~running' => active' = {},
           UNCHANGED <<req, tail, resolver>>,
           \A j \in Jobs : rec'[j].retry_count = rec[j].retry_count,
           \A j \in Jobs : j \in active' \/ j \notin active => rec'[j] = rec[j],
           \A j \in Jobs, p \in Parts : proc'[j][p] \in Alive =>
               /\ proc[j][p] \in Alive
               /\ p \in Held(j) => j \in active'
    PROVE  CoreStays
<1>1. \A k \in Jobs : Part(k)' = Part(k) /\ (Quiet(k) => Quiet(k)')
  BY DEF Part, Quiet
<1>2. UnusedIsBlank'
  BY <1>1 DEF Core, UnusedIsBlank
<1>3. CancelledIsEmpty'
  BY DEF CancelledIsEmpty
<1>4. AnswersFitTheirJob'
  BY <1>1 DEF Core, AnswersFitTheirJob
<1>5. ActiveIsConsistent'
  BY DEF Core, TypeOK, ActiveIsConsistent
<1>6. NewestPartIsWritten'
  BY <1>1 DEF Core, NewestPartIsWritten
<1>7. FfmpegIsOwned => FfmpegIsOwned'
  BY <1>1 DEF Core, TypeOK, FfmpegIsOwned, Held
<1>8. FinalizedIsOver'
  BY <1>1 DEF Core, FinalizedIsOver
<1> QED BY <1>2, <1>3, <1>4, <1>5, <1>6, <1>7, <1>8 DEF Core, CoreStays

\* Stop and StopAll stop the recorders they hold before they forget the
\* recordings.
LEMMA RemoveKeepsCore ==
    ASSUME Core, TypeOK', NEW S \in SUBSET active, NEW T \in SUBSET S,
           \A j \in S \ T : Held(j) = {},
           running, Remove(S, T), UNCHANGED <<running, req, tail, resolver>>
    PROVE  CoreStays
<1>1. TypeOK
  BY DEF Core
<1>2. \A j \in Jobs : /\ rec'[j].retry_count = rec[j].retry_count
                      /\ j \notin T => rec'[j] = rec[j]
  BY <1>1 DEF Remove, TypeOK, ActiveRecordings
<1>3. ASSUME NEW j \in Jobs, NEW p \in Parts, proc'[j][p] \in Alive
      PROVE  proc[j][p] \in Alive /\ (p \in Held(j) => j \in active')
  <2>1. CASE j \in T
    <3>1. proc'[j] = Stopped(j, Held(j))
      BY <2>1 DEF Remove
    <3> QED BY <1>1, <1>3, <3>1, StoppedIsTyped
  <2>2. CASE j \notin T
    BY <1>3, <2>2 DEF Remove, Held
  <2> QED BY <2>1, <2>2
<1>4. active' \subseteq active /\ \A j \in Jobs : j \in active' \/ j \notin active => j \notin T
  BY DEF Remove
<1> QED BY <1>2, <1>3, <1>4, LeavingKeepsCore

\* The shutdown stops every recorder the manager holds.
LEMMA CancelKeepsCore ==
    ASSUME Core, TypeOK', Cancel
    PROVE  CoreStays
<1>1. ASSUME NEW j \in Jobs, NEW p \in Parts, proc'[j][p] \in Alive
      PROVE  proc[j][p] \in Alive /\ (p \in Held(j) => j \in active')
  <2>1. proc'[j] = Stopped(j, Held(j)) /\ TypeOK
    BY DEF Cancel, Core
  <2> QED BY <1>1, <2>1, StoppedIsTyped
<1> QED BY <1>1, LeavingKeepsCore DEF Cancel

\* A resolver spawns a recorder for a part that nobody writes yet.
LEMMA SpawnKeepsCore ==
    ASSUME Core, TypeOK', NEW j \in Jobs, ResolverSpawns(j)
    PROVE  CoreStays
<1> USE DEF ResolverSpawns
<1>1. /\ resolver[j].phase = "working" /\ resolver[j].part = Part(j) /\ Part(j) \in Parts
      /\ Quiet(j)
      /\ req[j] # NoRequest /\ tail[j].finalized = {}
  BY PartIsAPart DEF Core, AnswersFitTheirJob, UnusedIsBlank, FinalizedIsOver,
                     NewestPartIsWritten, Quiet
<1>2. /\ resolver'[j].phase = "spawned" /\ resolver'[j].part = resolver[j].part
      /\ \A k \in Jobs \ {j} : resolver'[k] = resolver[k]
  BY DEF Core, TypeOK
<1>3. /\ \A p \in Parts \ {Part(j)} : proc'[j][p] = proc[j][p]
      /\ \A k \in Jobs \ {j} : proc'[k] = proc[k]
  BY <1>1 DEF Core, TypeOK
<1>4. \A k \in Jobs : Part(k)' = Part(k) /\ (k # j => Quiet(k)' = Quiet(k))
  BY <1>3 DEF Part, Quiet
<1>5. UnusedIsBlank'
  BY <1>1, <1>2, <1>4 DEF Core, UnusedIsBlank
<1>6. CancelledIsEmpty'
  BY DEF Core, CancelledIsEmpty
<1>7. AnswersFitTheirJob'
  BY <1>2, <1>4 DEF Core, AnswersFitTheirJob
<1>8. ActiveIsConsistent'
  <2>1. active \subseteq Jobs /\ ActiveIsConsistent
    BY DEF Core, TypeOK
  <2> QED BY <1>1, <1>2, <2>1 DEF ActiveIsConsistent
<1>9. NewestPartIsWritten'
  <2> SUFFICES ASSUME NEW k \in Jobs, NEW p \in Parts, proc'[k][p] \in Alive
               PROVE  p = Part(k)' /\ resolver'[k].phase # "working"
    BY DEF NewestPartIsWritten
  <2>1. CASE k = j
    BY <1>1, <1>2, <1>3, <1>4, <2>1 DEF Quiet
  <2>2. CASE k # j
    BY <1>2, <1>3, <1>4, <2>2 DEF Core, NewestPartIsWritten
  <2> QED BY <2>1, <2>2
<1>10. FfmpegIsOwned => FfmpegIsOwned'
  <2> SUFFICES ASSUME FfmpegIsOwned, NEW k \in Jobs, NEW p \in Parts,
                      proc'[k][p] \in Alive, Tool(req[k]) = "ffmpeg"
               PROVE  \/ p \in Held(k)'
                      \/ resolver'[k].phase = "spawned" /\ resolver'[k].part = p
    BY DEF FfmpegIsOwned, Tool
  <2>1. CASE k = j
    BY <1>1, <1>2, <1>3, <2>1 DEF Quiet
  <2>2. CASE k # j
    <3>1. Held(k)' = Held(k) /\ proc'[k] = proc[k] /\ resolver'[k] = resolver[k]
      BY <1>2, <1>3, <1>4, <2>2 DEF Held
    <3> QED BY <3>1 DEF Core, FfmpegIsOwned
  <2> QED BY <2>1, <2>2
<1>11. FinalizedIsOver'
  BY <1>1, <1>2, <1>4 DEF Core, FinalizedIsOver
<1> QED BY <1>5, <1>6, <1>7, <1>8, <1>9, <1>10, <1>11 DEF Core, CoreStays

\* A resolver that fails leaves an answer and no recorder.
LEMMA RefuseKeepsCore ==
    ASSUME Core, TypeOK', NEW j \in Jobs, ResolverRefuses(j)
    PROVE  CoreStays
<1> USE DEF ResolverRefuses
<1>1. /\ resolver[j].phase = "working" /\ Quiet(j) /\ active \subseteq Jobs
      /\ req[j] # NoRequest /\ tail[j].finalized = {}
  BY DEF Core, TypeOK, UnusedIsBlank, FinalizedIsOver, NewestPartIsWritten, Quiet
<1>2. /\ resolver'[j].phase = "refused" /\ resolver'[j].part = resolver[j].part
      /\ \A k \in Jobs \ {j} : resolver'[k] = resolver[k]
  BY DEF Core, TypeOK
<1>3. \A k \in Jobs : Part(k)' = Part(k) /\ Quiet(k)' = Quiet(k)
  BY DEF Part, Quiet
<1>4. UnusedIsBlank'
  BY <1>1, <1>2, <1>3 DEF Core, UnusedIsBlank
<1>5. CancelledIsEmpty'
  BY DEF Core, CancelledIsEmpty
<1>6. AnswersFitTheirJob'
  BY <1>2, <1>3 DEF Core, AnswersFitTheirJob
<1>7. ActiveIsConsistent'
  BY <1>1, <1>2 DEF Core, ActiveIsConsistent
<1>8. NewestPartIsWritten'
  BY <1>1, <1>2, <1>3 DEF Core, NewestPartIsWritten, Quiet
<1>9. FfmpegIsOwned => FfmpegIsOwned'
  BY <1>1, <1>2, <1>3 DEF Core, FfmpegIsOwned, Held, Quiet
<1>10. FinalizedIsOver'
  BY <1>1, <1>2, <1>3 DEF Core, FinalizedIsOver
<1> QED BY <1>4, <1>5, <1>6, <1>7, <1>8, <1>9, <1>10 DEF Core, CoreStays

\* An answer is taken: the recording gets its recorder or fails.
LEMMA ReceiveKeepsCore ==
    ASSUME Core, TypeOK', NEW j \in Jobs, ReceiveRecorder(j) \/ ReceiveRefusal(j)
    PROVE  CoreStays
<1>1. /\ running /\ j \in active /\ resolver[j].phase \in {"spawned", "refused"}
      /\ UNCHANGED <<running, active, req, tail, proc>>
      /\ active \subseteq Jobs
  BY DEF Core, TypeOK, ReceiveRecorder, ReceiveRefusal
<1>0. rec[j] \in ActiveRecordings /\ resolver[j].title \in Titles /\ TypeOK
  BY DEF Core, TypeOK
<1>2. /\ resolver'[j].phase = "idle" /\ resolver'[j].part = resolver[j].part
      /\ \A k \in Jobs \ {j} : resolver'[k] = resolver[k]
  <2>1. resolver' = [resolver EXCEPT ![j].phase = "idle"]
    BY DEF ReceiveRecorder, ReceiveRefusal
  <2> QED BY <1>0, <2>1 DEF TypeOK
<1>3. /\ \A k \in Jobs \ {j} : rec'[k] = rec[k]
      /\ rec'[j].retry_count = rec[j].retry_count
      /\ \/ rec'[j].state = "Recording" /\ rec'[j].process /\ resolver[j].phase = "spawned"
         \/ /\ rec'[j].state = "Failed" /\ rec'[j].process = rec[j].process
            /\ resolver[j].phase = "refused"
  <2>1. CASE ReceiveRecorder(j)
    <3>1. rec' = [rec EXCEPT ![j] = [rec[j] EXCEPT !.state = "Recording", !.process = TRUE,
                                                   !.title = resolver[j].title]]
      BY <2>1 DEF ReceiveRecorder
    <3> QED BY <1>0, <2>1, <3>1 DEF TypeOK, ActiveRecordings, ReceiveRecorder
  <2>2. CASE ReceiveRefusal(j)
    <3>1. rec' = [rec EXCEPT ![j] = [rec[j] EXCEPT !.state = "Failed"]]
      BY <2>2 DEF ReceiveRefusal
    <3> QED BY <1>0, <2>2, <3>1 DEF TypeOK, ActiveRecordings, ReceiveRefusal
  <2> QED BY <2>1, <2>2
<1>4. /\ rec[j].state = "ResolvingUrl" /\ ~rec[j].process
      /\ req[j] # NoRequest /\ tail[j].finalized = {}
  BY <1>1 DEF Core, ActiveIsConsistent, UnusedIsBlank, FinalizedIsOver
<1>5. \A k \in Jobs : Part(k)' = Part(k) /\ Quiet(k)' = Quiet(k)
  BY <1>1, <1>3 DEF Part, Quiet
<1>6. UnusedIsBlank'
  BY <1>1, <1>2, <1>3, <1>4, <1>5 DEF Core, UnusedIsBlank
<1>7. CancelledIsEmpty'
  BY <1>1 DEF Core, CancelledIsEmpty
<1>8. AnswersFitTheirJob'
  BY <1>2, <1>5 DEF Core, AnswersFitTheirJob
<1>9. ActiveIsConsistent'
  BY <1>1, <1>2, <1>3, <1>4 DEF Core, ActiveIsConsistent
<1>10. NewestPartIsWritten'
  BY <1>1, <1>2, <1>5 DEF Core, NewestPartIsWritten
<1>11. FfmpegIsOwned => FfmpegIsOwned'
  BY <1>1, <1>2, <1>3, <1>4, <1>5
  DEF Core, FfmpegIsOwned, Held, AnswersFitTheirJob
<1>12. FinalizedIsOver'
  BY <1>1, <1>2, <1>4, <1>5 DEF Core, FinalizedIsOver
<1> QED BY <1>6, <1>7, <1>8, <1>9, <1>10, <1>11, <1>12 DEF Core, CoreStays

\* Dropping an answer kills the ffmpeg it carries.
LEMMA DropKeepsCore ==
    ASSUME Core, TypeOK', NEW j \in Jobs, DropAnswer(j)
    PROVE  CoreStays
<1> USE DEF DropAnswer
<1>1. j \notin active /\ active \subseteq Jobs /\ resolver[j].part = Part(j)
  BY DEF Core, TypeOK, CancelledIsEmpty, AnswersFitTheirJob
<1>2. /\ resolver'[j].phase = "idle" /\ resolver'[j].part = resolver[j].part
      /\ \A k \in Jobs \ {j} : resolver'[k] = resolver[k] /\ proc'[k] = proc[k]
  BY DEF Core, TypeOK
<1>3. /\ \A p \in Parts : proc'[j][p] \in Alive => proc[j][p] \in Alive
      /\ resolver[j].phase = "spawned" /\ Tool(req[j]) = "ffmpeg"
             => proc'[j][Part(j)] \notin Alive
  <2>1. TypeOK
    BY DEF Core
  <2>2. CASE resolver[j].phase = "spawned" /\ Tool(req[j]) = "ffmpeg"
    <3>1. proc'[j] = Stopped(j, {Part(j)}) /\ Part(j) \in Parts
      BY <1>1, <2>1, <2>2, PartIsAPart DEF TypeOK
    <3> QED BY <2>1, <3>1, StoppedIsTyped
  <2>3. CASE ~(resolver[j].phase = "spawned" /\ Tool(req[j]) = "ffmpeg")
    BY <2>3
  <2> QED BY <2>2, <2>3
<1>4. \A k \in Jobs : Part(k)' = Part(k) /\ (Quiet(k) => Quiet(k)')
  BY <1>2, <1>3 DEF Part, Quiet
<1>5. UnusedIsBlank'
  BY <1>1, <1>2, <1>4 DEF Core, UnusedIsBlank
<1>6. CancelledIsEmpty'
  BY DEF Core, CancelledIsEmpty
<1>7. AnswersFitTheirJob'
  BY <1>2, <1>4 DEF Core, AnswersFitTheirJob
<1>8. ActiveIsConsistent'
  BY <1>1, <1>2 DEF Core, ActiveIsConsistent
<1>9. NewestPartIsWritten'
  BY <1>2, <1>3, <1>4 DEF Core, NewestPartIsWritten
<1>10. FfmpegIsOwned => FfmpegIsOwned'
  <2> SUFFICES ASSUME FfmpegIsOwned, NEW k \in Jobs, NEW p \in Parts,
                      proc'[k][p] \in Alive, Tool(req[k]) = "ffmpeg"
               PROVE  \/ p \in Held(k)'
                      \/ resolver'[k].phase = "spawned" /\ resolver'[k].part = p
    BY DEF FfmpegIsOwned, Tool
  <2>1. CASE k = j
    <3>1. proc[j][p] \in Alive /\ p = Part(j) /\ resolver[j].phase # "spawned"
      BY <1>3, <2>1 DEF Core, NewestPartIsWritten
    <3> QED BY <1>1, <2>1, <3>1 DEF Core, FfmpegIsOwned, Held
  <2>2. CASE k # j
    <3>1. Held(k)' = Held(k) /\ proc'[k] = proc[k] /\ resolver'[k] = resolver[k]
      BY <1>2, <1>4, <2>2 DEF Held
    <3> QED BY <3>1 DEF Core, FfmpegIsOwned
  <2> QED BY <2>1, <2>2
<1>11. FinalizedIsOver'
  BY <1>1, <1>2, <1>4 DEF Core, FinalizedIsOver
<1> QED BY <1>5, <1>6, <1>7, <1>8, <1>9, <1>10, <1>11 DEF Core, CoreStays

\* A recorder writes, freezes, exits or is stopped by the stall check: no
\* process comes alive that was not.
LEMMA FadingKeepsCore ==
    ASSUME Core, TypeOK', UNCHANGED <<running, active, req, rec, tail, resolver>>,
           \A j \in Jobs, p \in Parts : proc'[j][p] \in Alive => proc[j][p] \in Alive
    PROVE  CoreStays
<1>1. active \subseteq Jobs
  BY DEF Core, TypeOK
<1>2. \A k \in Jobs : Part(k)' = Part(k) /\ Held(k)' = Held(k) /\ (Quiet(k) => Quiet(k)')
  BY DEF Part, Held, Quiet
<1>3. UnusedIsBlank' /\ FinalizedIsOver'
  BY <1>2 DEF Core, UnusedIsBlank, FinalizedIsOver
<1>4. CancelledIsEmpty' /\ AnswersFitTheirJob' /\ ActiveIsConsistent'
  BY <1>1, <1>2 DEF Core, CancelledIsEmpty, AnswersFitTheirJob, ActiveIsConsistent
<1>5. NewestPartIsWritten' /\ (FfmpegIsOwned => FfmpegIsOwned')
  BY <1>2 DEF Core, NewestPartIsWritten, FfmpegIsOwned
<1> QED BY <1>3, <1>4, <1>5 DEF Core, CoreStays

\* What recorders do on their own keeps the invariant.
LEMMA RecorderKeepsCore ==
    ASSUME Core, TypeOK', NEW j \in Jobs, NEW p \in Parts, Recorder(j, p)
    PROVE  CoreStays
<1>1. ASSUME NEW k \in Jobs, NEW q \in Parts, proc'[k][q] \in Alive
      PROVE  proc[k][q] \in Alive
  <2>1. proc \in [Jobs -> [Parts -> ProcStates]]
    BY DEF Core, TypeOK
  <2>2. \/ proc' = proc
        \/ /\ proc[j][p] \in Alive
           /\ \E status \in {"hung", "ok", "failed"} :
                 proc' = [proc EXCEPT ![j][p] = status]
    BY DEF Recorder, RecorderWrites, RecorderFreezes, RecorderExits, Alive
  <2> QED BY <1>1, <2>1, <2>2
<1> QED BY <1>1, FadingKeepsCore DEF Recorder, RecorderWrites, RecorderFreezes, RecorderExits

\* The stall check ends the recorder it finds frozen.
LEMMA StallKeepsCore ==
    ASSUME Core, TypeOK', NEW j \in Jobs, PollStalled(j)
    PROVE  CoreStays
<1>1. ASSUME NEW k \in Jobs, NEW q \in Parts, proc'[k][q] \in Alive
      PROVE  proc[k][q] \in Alive
  <2>1. proc \in [Jobs -> [Parts -> ProcStates]] /\ Part(j) \in Parts
    BY PartIsAPart DEF Core, TypeOK
  <2>2. PICK status \in {"ok", "failed"} : proc' = [proc EXCEPT ![j][Part(j)] = status]
    BY DEF PollStalled
  <2> QED BY <1>1, <2>1, <2>2 DEF Alive
<1> QED BY <1>1, FadingKeepsCore DEF PollStalled

\* The recorder of j has ended and j leaves the map.
LEMMA EndingKeepsCore ==
    ASSUME Core, TypeOK', NEW j \in Jobs, PollSucceeded(j) \/ PollGivesUp(j)
    PROVE  CoreStays
<1>1. /\ running /\ j \in active /\ active' = active \ {j}
      /\ rec[j].state = "Recording" /\ proc[j][Part(j)] \notin Alive
      /\ UNCHANGED <<running, req, resolver, proc>>
  BY DEF PollSucceeded, PollGivesUp, Polled, Alive
<1>2. /\ \A k \in Jobs \ {j} : rec'[k] = rec[k] /\ tail'[k] = tail[k]
      /\ rec'[j].retry_count = rec[j].retry_count
  <2>1. TypeOK /\ rec[j] \in ActiveRecordings
    BY DEF Core, TypeOK
  <2>2. PICK s \in Terminal : rec' = [rec EXCEPT ![j].state = s]
    BY DEF PollSucceeded, PollGivesUp, Terminal
  <2>3. rec'[j].retry_count = rec[j].retry_count /\ \A k \in Jobs \ {j} : rec'[k] = rec[k]
    BY <2>1, <2>2 DEF TypeOK, ActiveRecordings
  <2>4. \A k \in Jobs \ {j} : tail'[k] = tail[k]
    BY <2>1 DEF TypeOK, PollSucceeded, PollGivesUp
  <2> QED BY <2>3, <2>4
<1>3. /\ Quiet(j) /\ resolver[j].phase = "idle"
      /\ req[j] # NoRequest /\ active \subseteq Jobs
  BY <1>1 DEF Core, TypeOK, Quiet, NewestPartIsWritten, ActiveIsConsistent, UnusedIsBlank
<1>4. \A k \in Jobs : Part(k)' = Part(k) /\ Quiet(k)' = Quiet(k)
  BY <1>1, <1>2 DEF Part, Quiet
<1>5. UnusedIsBlank'
  BY <1>1, <1>2, <1>3, <1>4 DEF Core, UnusedIsBlank
<1>6. CancelledIsEmpty'
  BY <1>1 DEF Core, CancelledIsEmpty
<1>7. AnswersFitTheirJob'
  BY <1>1, <1>4 DEF Core, AnswersFitTheirJob
<1>8. ActiveIsConsistent'
  BY <1>1, <1>2, <1>3 DEF Core, ActiveIsConsistent
<1>9. NewestPartIsWritten'
  BY <1>1, <1>4 DEF Core, NewestPartIsWritten
<1>10. FfmpegIsOwned => FfmpegIsOwned'
  <2> SUFFICES ASSUME FfmpegIsOwned, NEW k \in Jobs, NEW p \in Parts,
                      proc[k][p] \in Alive, Tool(req[k]) = "ffmpeg"
               PROVE  \/ p \in Held(k)'
                      \/ resolver[k].phase = "spawned" /\ resolver[k].part = p
    BY <1>1 DEF FfmpegIsOwned, Tool
  <2>1. k # j
    BY <1>3 DEF Quiet
  <2>2. Held(k)' = Held(k)
    BY <1>1, <1>2, <1>4, <2>1 DEF Held
  <2> QED BY <2>2 DEF Core, FfmpegIsOwned
<1>11. FinalizedIsOver'
  BY <1>1, <1>2, <1>3, <1>4 DEF Core, FinalizedIsOver
<1> QED BY <1>5, <1>6, <1>7, <1>8, <1>9, <1>10, <1>11 DEF Core, CoreStays

\* A gap resume gives the recorder up only after it has exited, and asks for
\* the next part.
LEMMA RetryKeepsCore ==
    ASSUME Core, TypeOK', NEW j \in Jobs, PollRetries(j)
    PROVE  CoreStays
<1>1. /\ running /\ j \in active /\ rec[j].state = "Recording"
      /\ proc[j][Part(j)] \notin Alive
      /\ UNCHANGED <<running, active, req, proc>>
  BY DEF PollRetries, Polled, Alive
<1>2. TypeOK /\ rec[j] \in ActiveRecordings /\ active \subseteq Jobs
  BY DEF Core, TypeOK
<1>3. /\ rec'[j].state = "ResolvingUrl" /\ ~rec'[j].process
      /\ rec'[j].retry_count = rec[j].retry_count + 1
      /\ \A k \in Jobs \ {j} : rec'[k] = rec[k]
  BY <1>2 DEF PollRetries, TypeOK, ActiveRecordings
<1>4. /\ resolver'[j].phase = "working" /\ resolver'[j].part = Part(j) + 1
      /\ \A k \in Jobs \ {j} : resolver'[k] = resolver[k]
  BY <1>2 DEF PollRetries, TypeOK
<1>5. \A k \in Jobs : tail'[k].finalized = tail[k].finalized
  BY <1>2 DEF PollRetries, TypeOK, LiveCaptures
<1>6. Quiet(j) /\ req[j] # NoRequest /\ tail[j].finalized = {}
  BY <1>1 DEF Core, Quiet, NewestPartIsWritten, UnusedIsBlank, FinalizedIsOver
<1>7. /\ Part(j)' = Part(j) + 1
      /\ \A k \in Jobs : Quiet(k)' = Quiet(k) /\ (k # j => Part(k)' = Part(k))
  BY <1>1, <1>3 DEF Part, Quiet
<1>8. UnusedIsBlank'
  BY <1>1, <1>3, <1>4, <1>5, <1>6, <1>7 DEF Core, UnusedIsBlank
<1>9. CancelledIsEmpty'
  BY <1>1 DEF Core, CancelledIsEmpty
<1>10. AnswersFitTheirJob'
  BY <1>4, <1>7 DEF Core, AnswersFitTheirJob
<1>11. ActiveIsConsistent'
  BY <1>1, <1>2, <1>3, <1>4 DEF Core, ActiveIsConsistent
<1>12. NewestPartIsWritten'
  BY <1>1, <1>4, <1>6, <1>7 DEF Core, NewestPartIsWritten, Quiet
<1>13. FfmpegIsOwned => FfmpegIsOwned'
  <2> SUFFICES ASSUME FfmpegIsOwned, NEW k \in Jobs, NEW p \in Parts,
                      proc[k][p] \in Alive, Tool(req[k]) = "ffmpeg"
               PROVE  \/ p \in Held(k)'
                      \/ resolver'[k].phase = "spawned" /\ resolver'[k].part = p
    BY <1>1 DEF FfmpegIsOwned, Tool
  <2>1. k # j
    BY <1>6 DEF Quiet
  <2>2. Held(k)' = Held(k) /\ resolver'[k] = resolver[k]
    BY <1>1, <1>3, <1>4, <1>7, <2>1 DEF Held
  <2> QED BY <2>2 DEF Core, FfmpegIsOwned
<1>14. FinalizedIsOver'
  BY <1>1, <1>4, <1>5, <1>6, <1>7 DEF Core, FinalizedIsOver
<1> QED BY <1>8, <1>9, <1>10, <1>11, <1>12, <1>13, <1>14 DEF Core, CoreStays

\* Every step of the manager, of its tasks and of its recorders keeps the
\* invariant.
LEMMA StepKeepsCore == Core /\ [Next]_vars => CoreStays
<1> SUFFICES ASSUME Core, [Next]_vars PROVE CoreStays
  OBVIOUS
<1>1. TypeOK /\ TypeOK'
  BY StepIsTyped DEF Core
<1>2. ASSUME NEW j \in Jobs, NEW r \in Requests, Start(j, r) \/ DownloadVod(j, r)
      PROVE  CoreStays
  BY <1>1, <1>2, InsertKeepsCore DEF Start, DownloadVod
<1>3. ASSUME NEW j \in Jobs, Stop(j) PROVE CoreStays
  <2>1. {j} \in SUBSET active /\ {j} \in SUBSET {j}
    BY <1>3 DEF Stop
  <2>2. \A k \in {j} \ {j} : Held(k) = {}
    OBVIOUS
  <2> QED BY <1>1, <1>3, <2>1, <2>2, RemoveKeepsCore DEF Stop
<1>4. CASE StopAll
  <2>1. SlotHolders \in SUBSET active /\ active \in SUBSET active
    BY DEF SlotHolders
  <2>2. \A k \in active \ SlotHolders : Held(k) = {}
    BY DEF Core, ActiveIsConsistent, SlotHolders, Held, Terminal
  <2> QED BY <1>1, <1>4, <2>1, <2>2, RemoveKeepsCore DEF StopAll
<1>5. CASE Cancel
  BY <1>1, <1>5, CancelKeepsCore
<1>6. ASSUME NEW j \in Jobs, Resolver(j) PROVE CoreStays
  BY <1>1, <1>6, SpawnKeepsCore, RefuseKeepsCore DEF Resolver
<1>7. ASSUME NEW j \in Jobs, Receive(j) PROVE CoreStays
  BY <1>1, <1>7, ReceiveKeepsCore, DropKeepsCore DEF Receive
<1>8. ASSUME NEW j \in Jobs, NEW p \in Parts, Recorder(j, p) PROVE CoreStays
  BY <1>1, <1>8, RecorderKeepsCore
<1>9. ASSUME NEW j \in Jobs, PollAlive(j) PROVE CoreStays
  BY <1>1, <1>9, FrameKeepsCore DEF PollAlive
<1>10. ASSUME NEW j \in Jobs, PollStalled(j) PROVE CoreStays
  BY <1>1, <1>10, StallKeepsCore
<1>11. ASSUME NEW j \in Jobs, PollExit(j) PROVE CoreStays
  BY <1>1, <1>11, EndingKeepsCore, RetryKeepsCore DEF PollExit
<1>12. ASSUME NEW j \in Jobs, Finalizer(j) PROVE CoreStays
  BY <1>1, <1>12, FrameKeepsCore
  DEF Finalizer, Merge, MergeFails, RenameMerged, RenameMergedFails, DeleteParts,
      CorrectExtension, KeepExtension, Announce
<1>13. CASE TakeEvent
  BY <1>1, <1>13, FrameKeepsCore DEF TakeEvent
<1>14. CASE UNCHANGED vars
  BY <1>1, <1>14, FrameKeepsCore DEF vars
<1> QED
  BY <1>2, <1>3, <1>4, <1>5, <1>6, <1>7, <1>8, <1>9, <1>10, <1>11, <1>12, <1>13, <1>14
  DEF Next, ManagerNext, Command

\* The inductive invariant holds in every reachable state.
THEOREM InvariantHolds == Spec => []IInv
<1>1. IInv /\ [Next]_vars => IInv'
  BY StepKeepsCore DEF IInv, CoreStays
<1> QED BY <1>1, InitIsInvariant, PTL DEF Spec

\* What Core says of the recorders and of those who wait for them.
LEMMA RecordersFit ==
    Core => ResolvingIsAnswered /\ OneRecorderPerJob /\ FinalizedPartsAreWhole
<1> SUFFICES ASSUME Core
             PROVE  ResolvingIsAnswered /\ OneRecorderPerJob /\ FinalizedPartsAreWhole
  OBVIOUS
<1>1. ResolvingIsAnswered
  BY DEF Core, TypeOK, ActiveIsConsistent, AnswersFitTheirJob, ResolvingIsAnswered
<1>2. OneRecorderPerJob
  BY DEF Core, NewestPartIsWritten, OneRecorderPerJob
<1>3. ASSUME NEW j \in Jobs, NEW p \in tail[j].finalized PROVE proc[j][p] \notin Alive
  <2>1. tail[j] \in LiveCaptures
    BY DEF Core, TypeOK
  <2>2. p \in Parts
    BY <2>1 DEF LiveCaptures
  <2> QED BY <2>2 DEF Core, FinalizedIsOver, Quiet
<1> QED BY <1>1, <1>2, <1>3 DEF FinalizedPartsAreWhole

\* A recording never waits for an answer that nobody will send.
THEOREM AnswersCome == Spec => []ResolvingIsAnswered
  BY RecordersFit, InvariantHolds, PTL DEF IInv

\* Two recorders never write for the same job.
THEOREM RecorderIsAlone == Spec => []OneRecorderPerJob
  BY RecordersFit, InvariantHolds, PTL DEF IInv

\* A part that live clips may be cut from never grows.
THEOREM FinalizedIsWhole == Spec => []FinalizedPartsAreWhole
  BY RecordersFit, InvariantHolds, PTL DEF IInv

\* Every live ffmpeg is held by the manager or by an answer on its way to it.
THEOREM FfmpegHasAnOwner == Spec => []FfmpegIsOwned
  BY InvariantHolds, PTL DEF IInv

-----------------------------------------------------------------------------
(* Slots and what frees them.                                              *)

\* A spawned recorder was started, a recording is polled and has one, and
\* no recording of the map is Finished.
AttendedInv ==
    /\ \A j \in Jobs :
         resolver[j].phase = "spawned" => proc[j][resolver[j].part] # "none"
    /\ \A j \in active :
         /\ rec[j].state # "Finished"
         /\ rec[j].state = "Recording" => rec[j].process /\ proc[j][Part(j)] # "none"

\* Whoever holds a slot is attended: an answer is on its way to it, or the poll
\* visits it and finds a process whose exit it can take.
NoSlotIsLost ==
    \A j \in SlotHolders :
        \/ rec[j].state = "ResolvingUrl" /\ resolver[j].phase # "idle"
        \/ rec[j].state = "Recording" /\ rec[j].process /\ proc[j][Part(j)] # "none"

\* A recorder that was started stays one that was.
LEMMA SpawnedStaysSpawned ==
    ASSUME TypeOK, [Next]_vars, NEW j \in Jobs, NEW p \in Parts, proc[j][p] # "none"
    PROVE  proc'[j][p] # "none"
<1>1. CASE proc' = proc
  BY <1>1
<1>2. ASSUME NEW S \in [Jobs -> SUBSET Parts],
             \A k \in Jobs : proc'[k] = Stopped(k, S[k]) \/ proc'[k] = proc[k]
      PROVE  proc'[j][p] # "none"
  BY <1>2 DEF Stopped
<1>3. ASSUME NEW k \in Jobs, NEW q \in Parts, NEW s,
             proc' = [proc EXCEPT ![k][q] = s], s # "none"
      PROVE  proc'[j][p] # "none"
  BY <1>3 DEF TypeOK
<1>4. ASSUME NEW k \in Jobs, NEW q \in Parts, Recorder(k, q) PROVE proc'[j][p] # "none"
  BY <1>1, <1>3, <1>4 DEF Recorder, RecorderWrites, RecorderFreezes, RecorderExits
<1>5. ASSUME NEW k \in Jobs, Resolver(k) PROVE proc'[j][p] # "none"
  <2>1. resolver[k].part \in Parts
    BY DEF TypeOK
  <2>2. proc' = proc \/ proc' = [proc EXCEPT ![k][resolver[k].part] = "running"]
    BY <1>5 DEF Resolver, ResolverSpawns, ResolverRefuses
  <2> QED BY <1>1, <1>3, <2>1, <2>2
<1>6. ASSUME NEW k \in Jobs, PollStalled(k) PROVE proc'[j][p] # "none"
  <2>1. Part(k) \in Parts
    BY PartIsAPart
  <2> QED BY <1>3, <1>6, <2>1 DEF PollStalled
<1>7. ASSUME NEW k \in Jobs, Receive(k) PROVE proc'[j][p] # "none"
  <2>1. proc' = proc \/ proc' = [proc EXCEPT ![k] = Stopped(k, {resolver[k].part})]
    BY <1>7 DEF Receive, ReceiveRecorder, ReceiveRefusal, DropAnswer
  <2>2. \A i \in Jobs : proc'[i] = Stopped(i, {resolver[k].part}) \/ proc'[i] = proc[i]
    BY <2>1 DEF TypeOK
  <2> QED BY <2>2 DEF Stopped
<1>8. ASSUME \A k \in Jobs : proc'[k] = Stopped(k, Held(k)) \/ proc'[k] = proc[k]
      PROVE  proc'[j][p] # "none"
  BY <1>8 DEF Stopped
<1>9. ASSUME Command \/ Cancel PROVE proc'[j][p] # "none"
  <2>1. ASSUME NEW S, NEW T, Remove(S, T) PROVE proc'[j][p] # "none"
    BY <1>8, <2>1 DEF Remove
  <2>2. CASE Cancel
    BY <1>8, <2>2 DEF Cancel
  <2>3. CASE \E k \in Jobs, r \in Requests : Start(k, r) \/ DownloadVod(k, r)
    BY <1>1, <2>3 DEF Start, DownloadVod, Insert
  <2> QED BY <1>9, <2>1, <2>2, <2>3 DEF Command, Stop, StopAll
<1>10. ASSUME NEW k \in Jobs, PollAlive(k) \/ PollExit(k) \/ Finalizer(k)
       PROVE  proc'[j][p] # "none"
  BY <1>1, <1>10
     DEF PollAlive, PollExit, PollSucceeded, PollRetries, PollGivesUp, Finalizer, Merge,
         MergeFails, RenameMerged, RenameMergedFails, DeleteParts, CorrectExtension,
         KeepExtension, Announce
<1>11. CASE TakeEvent \/ UNCHANGED vars
  BY <1>1, <1>11 DEF TakeEvent, vars
<1> QED BY <1>4, <1>5, <1>6, <1>7, <1>9, <1>10, <1>11 DEF Next, ManagerNext

\* Recordings of the map and answers stay as they are, or leave.
LEMMA FewerKeepAttended ==
    ASSUME TypeOK, AttendedInv, [Next]_vars, active' \subseteq active,
           \A j \in Jobs : j \in active' => rec'[j] = rec[j],
           \A j \in Jobs : resolver'[j].phase = "spawned" => resolver'[j] = resolver[j]
    PROVE  AttendedInv'
<1>1. ASSUME NEW j \in Jobs, resolver'[j].phase = "spawned"
      PROVE  proc'[j][resolver'[j].part] # "none"
  <2>1. resolver'[j] = resolver[j] /\ resolver[j].part \in Parts
    BY <1>1 DEF TypeOK
  <2> QED BY <1>1, <2>1, SpawnedStaysSpawned DEF AttendedInv
<1>2. ASSUME NEW j \in active'
      PROVE  /\ rec'[j].state # "Finished"
             /\ rec'[j].state = "Recording" => rec'[j].process /\ proc'[j][Part(j)'] # "none"
  <2>1. j \in Jobs /\ j \in active /\ rec'[j] = rec[j]
    BY <1>2 DEF TypeOK
  <2>2. Part(j) \in Parts /\ Part(j)' = Part(j)
    BY <2>1, PartIsAPart DEF Part
  <2> QED BY <2>1, <2>2, SpawnedStaysSpawned DEF AttendedInv
<1> QED BY <1>1, <1>2 DEF AttendedInv

\* Job j alone is changed by the loop, and comes out attended.
LEMMA OneIsAttended ==
    ASSUME TypeOK, AttendedInv, [Next]_vars, NEW j \in Jobs,
           active' \subseteq active \cup {j},
           \A k \in Jobs \ {j} : rec'[k] = rec[k] /\ resolver'[k] = resolver[k],
           resolver'[j].phase = "spawned" => proc'[j][resolver'[j].part] # "none",
           j \in active' =>
               /\ rec'[j].state # "Finished"
               /\ rec'[j].state = "Recording" => rec'[j].process /\ proc'[j][Part(j)'] # "none"
    PROVE  AttendedInv'
<1>1. ASSUME NEW k \in Jobs, k # j, resolver'[k].phase = "spawned"
      PROVE  proc'[k][resolver'[k].part] # "none"
  <2>1. resolver'[k] = resolver[k] /\ resolver[k].part \in Parts
    BY <1>1 DEF TypeOK
  <2> QED BY <1>1, <2>1, SpawnedStaysSpawned DEF AttendedInv
<1>2. ASSUME NEW k \in active', k # j
      PROVE  /\ rec'[k].state # "Finished"
             /\ rec'[k].state = "Recording" => rec'[k].process /\ proc'[k][Part(k)'] # "none"
  <2>1. k \in Jobs /\ k \in active /\ rec'[k] = rec[k]
    BY <1>2 DEF TypeOK
  <2>2. Part(k) \in Parts /\ Part(k)' = Part(k)
    BY <2>1, PartIsAPart DEF Part
  <2> QED BY <2>1, <2>2, SpawnedStaysSpawned DEF AttendedInv
<1> QED BY <1>1, <1>2 DEF AttendedInv

\* Every step of the loop and of the tasks beside it keeps it.
LEMMA StepKeepsAttended ==
    ASSUME Core, AttendedInv, [Next]_vars
    PROVE  AttendedInv'
<1>1. TypeOK
  BY DEF Core
<1>2. ASSUME UNCHANGED <<active, rec, resolver>> PROVE AttendedInv'
  BY <1>1, <1>2, FewerKeepAttended
<1>3. ASSUME NEW j \in Jobs, NEW r \in Requests, Insert(j, r) PROVE AttendedInv'
  <2>1. rec[j].state = "ResolvingUrl"
    BY <1>3 DEF Insert, Core, UnusedIsBlank
  <2>2. resolver'[j].phase = "working"
        /\ \A k \in Jobs \ {j} : resolver'[k] = resolver[k]
    BY <1>1, <1>3 DEF Insert, TypeOK
  <2> QED BY <1>1, <1>3, <2>1, <2>2, OneIsAttended DEF Insert
<1>4. ASSUME NEW S, NEW T \in SUBSET S, Remove(S, T), resolver' = resolver
      PROVE  AttendedInv'
  BY <1>1, <1>4, FewerKeepAttended DEF Remove
<1>5. ASSUME Command \/ Cancel PROVE AttendedInv'
  <2>1. CASE \E j \in Jobs, r \in Requests : Start(j, r) \/ DownloadVod(j, r)
    BY <1>3, <2>1 DEF Start, DownloadVod
  <2>2. CASE \E j \in Jobs : Stop(j)
    BY <1>4, <2>2 DEF Stop
  <2>3. CASE StopAll
    <3>1. SlotHolders \in SUBSET active
      BY DEF SlotHolders
    <3> QED BY <1>4, <2>3, <3>1 DEF StopAll
  <2>4. CASE Cancel
    BY <1>1, <2>4, FewerKeepAttended DEF Cancel
  <2> QED BY <1>5, <2>1, <2>2, <2>3, <2>4 DEF Command
<1>6. ASSUME NEW j \in Jobs, ResolverSpawns(j) PROVE AttendedInv'
  <2>1. resolver[j].part \in Parts
    BY <1>1 DEF TypeOK
  <2>2. /\ resolver'[j].part = resolver[j].part
        /\ \A k \in Jobs \ {j} : resolver'[k] = resolver[k]
    BY <1>1, <1>6 DEF ResolverSpawns, TypeOK
  <2>3. proc'[j][resolver'[j].part] # "none"
    BY <1>1, <1>6, <2>1, <2>2 DEF ResolverSpawns, TypeOK
  <2>4. Part(j) \in Parts /\ Part(j)' = Part(j)
    BY <1>1, <1>6, PartIsAPart DEF ResolverSpawns, Part
  <2>5. active' = active /\ rec' = rec
    BY <1>6 DEF ResolverSpawns
  <2>6. j \in active' =>
            /\ rec'[j].state # "Finished"
            /\ rec'[j].state = "Recording" => rec'[j].process /\ proc'[j][Part(j)'] # "none"
    BY <1>1, <2>4, <2>5, SpawnedStaysSpawned DEF AttendedInv
  <2> QED BY <1>1, <2>2, <2>3, <2>5, <2>6, OneIsAttended
<1>7. ASSUME NEW j \in Jobs, ResolverRefuses(j) PROVE AttendedInv'
  <2>1. \A k \in Jobs : resolver'[k].phase = "spawned" => resolver'[k] = resolver[k]
    BY <1>1, <1>7 DEF ResolverRefuses, TypeOK
  <2> QED BY <1>1, <1>7, <2>1, FewerKeepAttended DEF ResolverRefuses
<1>8. ASSUME NEW j \in Jobs, ReceiveRecorder(j) PROVE AttendedInv'
  <2>1. /\ resolver'[j].phase = "idle"
        /\ \A k \in Jobs \ {j} : resolver'[k] = resolver[k] /\ rec'[k] = rec[k]
        /\ active' = active /\ proc' = proc
    BY <1>1, <1>8 DEF ReceiveRecorder, TypeOK
  <2>2. rec'[j].state = "Recording" /\ rec'[j].process = TRUE /\ Part(j)' = Part(j)
    BY <1>1, <1>8 DEF ReceiveRecorder, TypeOK, ActiveRecordings, Part
  <2>3. proc[j][Part(j)] # "none"
    BY <1>8 DEF ReceiveRecorder, AttendedInv, Core, AnswersFitTheirJob
  <2> QED BY <1>1, <2>1, <2>2, <2>3, OneIsAttended
<1>9. ASSUME NEW j \in Jobs, ReceiveRefusal(j) PROVE AttendedInv'
  <2>1. /\ resolver'[j].phase = "idle"
        /\ \A k \in Jobs \ {j} : resolver'[k] = resolver[k] /\ rec'[k] = rec[k]
        /\ active' = active
    BY <1>1, <1>9 DEF ReceiveRefusal, TypeOK
  <2>2. rec'[j].state = "Failed"
    BY <1>1, <1>9 DEF ReceiveRefusal, TypeOK, ActiveRecordings
  <2> QED BY <1>1, <2>1, <2>2, OneIsAttended
<1>10. ASSUME NEW j \in Jobs, DropAnswer(j) PROVE AttendedInv'
  <2>1. \A k \in Jobs : resolver'[k].phase = "spawned" => resolver'[k] = resolver[k]
    BY <1>1, <1>10 DEF DropAnswer, TypeOK
  <2> QED BY <1>1, <1>10, <2>1, FewerKeepAttended DEF DropAnswer
<1>11. ASSUME NEW j \in Jobs, PollSucceeded(j) \/ PollGivesUp(j) PROVE AttendedInv'
  <2>1. /\ active' = active \ {j} /\ resolver' = resolver
        /\ \A k \in Jobs \ {j} : rec'[k] = rec[k]
    BY <1>1, <1>11 DEF PollSucceeded, PollGivesUp, TypeOK
  <2> QED BY <1>1, <2>1, FewerKeepAttended
<1>12. ASSUME NEW j \in Jobs, PollRetries(j) PROVE AttendedInv'
  <2>1. /\ \A k \in Jobs \ {j} : resolver'[k] = resolver[k] /\ rec'[k] = rec[k]
        /\ active' = active
    BY <1>1, <1>12 DEF PollRetries, TypeOK
  <2>2. resolver'[j].phase = "working"
    BY <1>1, <1>12 DEF PollRetries, TypeOK
  <2>3. rec'[j].state = "ResolvingUrl"
    BY <1>1, <1>12 DEF PollRetries, TypeOK, ActiveRecordings
  <2> QED BY <1>1, <2>1, <2>2, <2>3, OneIsAttended
<1>13. ASSUME NEW j \in Jobs, PollAlive(j) \/ PollStalled(j) \/ Finalizer(j) PROVE AttendedInv'
  BY <1>2, <1>13
     DEF PollAlive, PollStalled, Finalizer, Merge, MergeFails, RenameMerged,
         RenameMergedFails, DeleteParts, CorrectExtension, KeepExtension, Announce
<1>14. ASSUME NEW j \in Jobs, NEW p \in Parts, Recorder(j, p) PROVE AttendedInv'
  BY <1>2, <1>14 DEF Recorder, RecorderWrites, RecorderFreezes, RecorderExits
<1>15. CASE TakeEvent \/ UNCHANGED vars
  BY <1>2, <1>15 DEF TakeEvent, vars
<1> QED
  BY <1>5, <1>6, <1>7, <1>8, <1>9, <1>10, <1>11, <1>12, <1>13, <1>14, <1>15
  DEF Next, ManagerNext, Resolver, Receive, PollExit

\* Nothing is recorded at first.
LEMMA InitIsAttended == Init => AttendedInv
  BY DEF Init, AttendedInv

\* A job that holds a slot resolves or records.
LEMMA AttendedHolders == Core /\ AttendedInv => NoSlotIsLost
<1> SUFFICES ASSUME Core, AttendedInv, NEW j \in SlotHolders
    PROVE  \/ rec[j].state = "ResolvingUrl" /\ resolver[j].phase # "idle"
           \/ rec[j].state = "Recording" /\ rec[j].process /\ proc[j][Part(j)] # "none"
  BY DEF NoSlotIsLost
<1>1. j \in active /\ j \in Jobs /\ rec[j].state \notin Terminal
  BY DEF SlotHolders, Core, TypeOK
<1>2. rec[j].state \in RecordingStates
  BY <1>1 DEF Core, TypeOK, ActiveRecordings
<1>3. rec[j].state \in {"ResolvingUrl", "Recording"}
  BY <1>1, <1>2 DEF RecordingStates, Terminal
<1> QED BY <1>1, <1>3 DEF AttendedInv, Core, ActiveIsConsistent

\* No slot is lost to a recording that nothing will move again: whatever stops,
\* refusals, stalls and gap resumes come, its holder has an answer on the way or
\* a process that the poll will find exited, running or hung.  That it then moves
\* is ExitsAreHandled and StallsEnd (run_manager, recording/mod.rs).
THEOREM SlotsAreAttended == Spec => []NoSlotIsLost
<1>1. Core /\ AttendedInv /\ [Next]_vars => AttendedInv'
  BY StepKeepsAttended
<1>2. IInv => Core
  BY DEF IInv
<1> QED BY <1>1, <1>2, InitIsAttended, AttendedHolders, InvariantHolds, PTL DEF Spec

-----------------------------------------------------------------------------
(* Slots.  A step admits one job, or it admits none and takes no slot.     *)

Admits(j, r) == Start(j, r) \/ DownloadVod(j, r)

\* Start and DownloadVod add one slot holder, and only below the cap.
LEMMA AdmissionTakesASlot ==
    ASSUME Core, NEW j \in Jobs, NEW r \in Requests, Admits(j, r)
    PROVE  /\ HasRoom
           /\ j \notin active /\ req[j] = NoRequest
           /\ req' = [req EXCEPT ![j] = r]
           /\ SlotHolders' = SlotHolders \cup {j}
<1>1. HasRoom /\ Insert(j, r)
  BY DEF Admits, Start, DownloadVod
<1>2. req[j] = NoRequest /\ rec[j].state = "ResolvingUrl" /\ j \notin active
  BY <1>1 DEF Insert, Core, UnusedIsBlank
<1> QED BY <1>1, <1>2 DEF Insert, SlotHolders, Terminal

\* No other step adds a slot holder: a gap resume keeps the slot it has.
LEMMA OthersTakeNone ==
    ASSUME Core, [Next]_vars, \A j \in Jobs, r \in Requests : ~Admits(j, r)
    PROVE  req' = req /\ SlotHolders' \subseteq SlotHolders
<1>1. TypeOK /\ active \subseteq Jobs
  BY DEF Core, TypeOK
<1>2. ASSUME NEW j \in Jobs, Stop(j) PROVE req' = req /\ SlotHolders' \subseteq SlotHolders
  BY <1>1, <1>2 DEF Stop, Remove, SlotHolders
<1>3. CASE StopAll \/ Cancel
  BY <1>3 DEF StopAll, Cancel, Remove, SlotHolders
<1>4. ASSUME NEW j \in Jobs, ReceiveRecorder(j) \/ ReceiveRefusal(j)
      PROVE  req' = req /\ SlotHolders' \subseteq SlotHolders
  <2>1. rec[j].state = "ResolvingUrl" /\ j \in active
    BY <1>1, <1>4 DEF ReceiveRecorder, ReceiveRefusal, Core, ActiveIsConsistent
  <2>2. \A k \in Jobs \ {j} : rec'[k] = rec[k]
    BY <1>1, <1>4 DEF TypeOK, ReceiveRecorder, ReceiveRefusal
  <2>3. req' = req /\ active' = active
    BY <1>4 DEF ReceiveRecorder, ReceiveRefusal
  <2> QED BY <1>1, <2>1, <2>2, <2>3 DEF SlotHolders, Terminal
<1>5. ASSUME NEW j \in Jobs, PollExit(j)
      PROVE  req' = req /\ SlotHolders' \subseteq SlotHolders
  <2>1. rec[j].state = "Recording" /\ j \in active /\ req' = req /\ active' \subseteq active
    BY <1>5 DEF PollExit, PollSucceeded, PollRetries, PollGivesUp, Polled
  <2>2. \A k \in Jobs \ {j} : rec'[k] = rec[k]
    BY <1>1, <1>5 DEF TypeOK, PollExit, PollSucceeded, PollRetries, PollGivesUp
  <2> QED BY <1>1, <2>1, <2>2 DEF SlotHolders, Terminal
<1>6. CASE UNCHANGED <<active, req, rec>>
  BY <1>6 DEF SlotHolders
<1> QED
  <2>1. ASSUME NEW j \in Jobs, Resolver(j) \/ DropAnswer(j) \/ PollAlive(j) \/ PollStalled(j)
        PROVE  UNCHANGED <<active, req, rec>>
    BY <2>1 DEF Resolver, ResolverSpawns, ResolverRefuses, DropAnswer, PollAlive, PollStalled
  <2>2. ASSUME NEW j \in Jobs, NEW p \in Parts, Recorder(j, p)
        PROVE  UNCHANGED <<active, req, rec>>
    BY <2>2 DEF Recorder, RecorderWrites, RecorderFreezes, RecorderExits
  <2>3. ASSUME NEW j \in Jobs, Finalizer(j) PROVE UNCHANGED <<active, req, rec>>
    BY <2>3
    DEF Finalizer, Merge, MergeFails, RenameMerged, RenameMergedFails, DeleteParts,
        CorrectExtension, KeepExtension, Announce
  <2>4. ASSUME TakeEvent \/ UNCHANGED vars PROVE UNCHANGED <<active, req, rec>>
    BY <2>4 DEF TakeEvent, vars
  <2> QED
    BY <1>2, <1>3, <1>4, <1>5, <1>6, <2>1, <2>2, <2>3, <2>4
    DEF Next, ManagerNext, Command, Admits, Receive

\* There are finitely many slot holders, so they can be counted.
LEMMA SlotHoldersAreFinite ==
    ASSUME TypeOK
    PROVE  IsFiniteSet(SlotHolders) /\ Cardinality(SlotHolders) \in Nat
<1>1. SlotHolders \subseteq Jobs
  BY DEF TypeOK, SlotHolders
<1> QED BY <1>1, FS_Subset, FS_CardinalityType

\* No step of the manager breaks the cap.
LEMMA CapStays == Core /\ SlotsWithinCap /\ [Next]_vars => SlotsWithinCap'
<1> SUFFICES ASSUME Core, SlotsWithinCap, [Next]_vars, Cap > 0
             PROVE  Cardinality(SlotHolders') <= Cap
  BY DEF SlotsWithinCap
<1>1. IsFiniteSet(SlotHolders) /\ Cardinality(SlotHolders) \in Nat
  BY SlotHoldersAreFinite DEF Core
<1>2. ASSUME NEW j \in Jobs, NEW r \in Requests, Admits(j, r)
      PROVE  Cardinality(SlotHolders') <= Cap
  <2>1. /\ Cardinality(SlotHolders) < Cap
        /\ j \notin SlotHolders
        /\ SlotHolders' = SlotHolders \cup {j}
    BY <1>2, AdmissionTakesASlot DEF HasRoom, SlotHolders
  <2>2. Cardinality(SlotHolders') = Cardinality(SlotHolders) + 1
    BY <1>1, <2>1, FS_AddElement
  <2> QED BY <1>1, <2>1, <2>2
<1>3. CASE \A j \in Jobs, r \in Requests : ~Admits(j, r)
  <2>1. SlotHolders' \subseteq SlotHolders
    BY <1>3, OthersTakeNone
  <2>2. Cardinality(SlotHolders') <= Cardinality(SlotHolders)
           /\ Cardinality(SlotHolders') \in Nat
    BY <1>1, <2>1, FS_Subset, FS_CardinalityType
  <2> QED BY <1>1, <2>2 DEF SlotsWithinCap
<1> QED BY <1>2, <1>3

\* No step of the manager gives two recordings one target.
LEMMA TargetsStay == Core /\ OnePerTarget /\ [Next]_vars => OnePerTarget'
<1> SUFFICES ASSUME Core, OnePerTarget, [Next]_vars PROVE OnePerTarget'
  OBVIOUS
<1>1. TypeOK /\ SlotHolders \subseteq Jobs
  BY DEF Core, TypeOK, SlotHolders
<1>2. ASSUME NEW j \in Jobs, NEW r \in Requests, Admits(j, r)
      PROVE  OnePerTarget'
  <2>1. /\ SlotHolders' = SlotHolders \cup {j} /\ j \notin SlotHolders
        /\ req'[j] = r
        /\ \A k \in SlotHolders : req'[k] = req[k]
    BY <1>1, <1>2, AdmissionTakesASlot DEF TypeOK, SlotHolders
  <2>2. ASSUME NEW k \in SlotHolders
        PROVE  /\ r.kind # "vod" => req[k].channel # r.channel
               /\ r.kind = "vod" => req[k].url # r.url
    BY <1>2 DEF Admits, Start, DownloadVod, HoldsSlot, SlotHolders
  <2> QED BY <2>1, <2>2 DEF OnePerTarget
<1>3. CASE \A j \in Jobs, r \in Requests : ~Admits(j, r)
  BY <1>3, OthersTakeNone DEF OnePerTarget
<1> QED BY <1>2, <1>3

\* The cap holds on every path by which a recording can start.
THEOREM CapHolds == Spec => []SlotsWithinCap
<1>1. Init => SlotsWithinCap
  BY FS_EmptySet DEF Init, SlotsWithinCap, SlotHolders
<1> QED BY <1>1, CapStays, InvariantHolds, PTL DEF Spec, IInv

\* No channel is captured twice and no url downloaded twice.
THEOREM TargetsAreExclusive == Spec => []OnePerTarget
<1>1. Init => OnePerTarget
  BY DEF Init, OnePerTarget, SlotHolders
<1> QED BY <1>1, TargetsStay, InvariantHolds, PTL DEF Spec, IInv

\* The manager implements the slot discipline: every step admits a job, or
\* releases the slots of some jobs, or leaves all slots alone.
THEOREM ManagerImplementsSlots == Spec => SlotsSpec
<1>1. Init => Slots!Init
  BY DEF Init, Slots!Init, SlotPhase
<1>2. IInv /\ [Next]_vars => [Slots!Next]_SlotPhase
  <2> SUFFICES ASSUME Core, [Next]_vars PROVE [Slots!Next]_SlotPhase
    BY DEF IInv
  <2>1. TypeOK /\ SlotHolders \subseteq Jobs
    BY DEF Core, TypeOK, SlotHolders
  <2>2. \A k \in SlotHolders : req[k] # NoRequest
    BY <2>1 DEF Core, UnusedIsBlank, SlotHolders
  <2>3. Slots!Holders = SlotHolders
    BY <2>1, <2>2 DEF Slots!Holders, SlotPhase
  <2>4. ASSUME NEW j \in Jobs, NEW r \in Requests, Admits(j, r)
        PROVE  Slots!Admit(j)
    <3>1. /\ HasRoom /\ j \notin SlotHolders /\ req[j] = NoRequest /\ r # NoRequest
          /\ req' = [req EXCEPT ![j] = r]
          /\ SlotHolders' = SlotHolders \cup {j}
      BY <2>4, AdmissionTakesASlot DEF SlotHolders
    <3>2. SlotPhase' = [SlotPhase EXCEPT ![j] = "holding"]
      BY <2>1, <3>1 DEF TypeOK, SlotPhase
    <3>3. Slots!Cardinality(SlotHolders) = Cardinality(SlotHolders)
      BY DEF Slots!Cardinality, Cardinality
    <3> QED BY <2>3, <3>1, <3>2, <3>3 DEF Slots!Admit, HasRoom, SlotPhase
  <2>5. CASE \A j \in Jobs, r \in Requests : ~Admits(j, r)
    <3> DEFINE S == SlotHolders \ SlotHolders'
    <3>1. req' = req /\ SlotHolders' \subseteq SlotHolders
      BY <2>5, OthersTakeNone
    <3>2. S \subseteq SlotHolders /\ S \in SUBSET Jobs
      BY <2>1
    <3>3. SlotPhase' = [j \in Jobs |-> IF j \in S THEN "over" ELSE SlotPhase[j]]
      BY <2>2, <3>1 DEF SlotPhase
    <3>4. Slots!Release(S)
      BY <2>3, <3>2, <3>3 DEF Slots!Release
    <3> QED BY <3>2, <3>4 DEF Slots!Next
  <2> QED BY <2>4, <2>5 DEF Slots!Next
<1> QED BY <1>1, <1>2, InvariantHolds, PTL DEF Spec, SlotsSpec, Slots!Spec
-----------------------------------------------------------------------------
(* The order of the events.                                                *)

\* The recordings that are over: they left the map, or failed and stay there.
Over == {j \in Jobs : req[j] # NoRequest /\ (j \notin active \/ rec[j].state \in Terminal)}

\* In a queue s, nothing but another end follows the end of a recording.
EndsLast(s) ==
    \A a, b \in DOMAIN s :
        a < b /\ s[a].type = "finished" /\ s[a].job = s[b].job => s[b].type = "finished"

\* What the order of the events needs of the map: it holds even when the
\* recorders of an earlier daemon are still about.
FreshIsBlank ==
    \A j \in Jobs : req[j] = NoRequest =>
        /\ j \notin active
        /\ resolver[j].phase = "idle"
        /\ rec[j].state = "ResolvingUrl" /\ ~rec[j].process

MapInv == TypeOK /\ FreshIsBlank /\ CancelledIsEmpty /\ ActiveIsConsistent

LEMMA CoreKnowsTheMap == Core => MapInv
  BY DEF Core, MapInv, UnusedIsBlank, FreshIsBlank

EndInv ==
    /\ \A j \in Jobs : finalizer[j] # "idle" => j \in Over
    /\ \A a \in DOMAIN events : events[a].type = "finished" => events[a].job \in Over
    /\ EndsLast(events)

\* A queue goes on with one event more.
LEMMA AppendKeepsOrder ==
    ASSUME NEW s \in Seq(Events), EndsLast(s), NEW e \in Events,
           \/ e.type = "finished"
           \/ \A a \in DOMAIN s : s[a].type = "finished" => s[a].job # e.job
    PROVE  EndsLast(Append(s, e))
<1> DEFINE t == Append(s, e)
<1>1. /\ DOMAIN t = 1 .. Len(s) + 1 /\ DOMAIN s = 1 .. Len(s) /\ Len(s) \in Nat
      /\ t[Len(s) + 1] = e /\ \A i \in 1 .. Len(s) : t[i] = s[i]
  OBVIOUS
<1> HIDE DEF t
<1>2. EndsLast(t)
  BY <1>1 DEF EndsLast
<1> QED BY <1>2 DEF t

\* It has lost its first one.
LEMMA TailKeepsOrder ==
    ASSUME NEW s \in Seq(Events), s # <<>>, EndsLast(s)
    PROVE  /\ EndsLast(Tail(s))
           /\ \A a \in DOMAIN Tail(s) : \E b \in DOMAIN s : Tail(s)[a] = s[b]
<1> DEFINE t == Tail(s)
<1>1. /\ DOMAIN s = 1 .. Len(s) /\ Len(s) \in Nat \ {0} /\ DOMAIN t = 1 .. Len(s) - 1
      /\ \A i \in DOMAIN t : t[i] = s[i + 1]
  OBVIOUS
<1> HIDE DEF t
<1>2. EndsLast(t) /\ \A a \in DOMAIN t : \E b \in DOMAIN s : t[a] = s[b]
  BY <1>1 DEF EndsLast
<1> QED BY <1>2 DEF t

\* What is over stays over, and what is finalized is.
LEMMA OverStays ==
    ASSUME MapInv, EndInv, [Next]_vars, NEW j \in Jobs
    PROVE  /\ j \in Over => j \in Over'
           /\ finalizer'[j] # "idle" => j \in Over'
<1> USE DEF Over
<1> DEFINE Kept == (j \in Over => j \in Over') /\ (finalizer'[j] # "idle" => j \in Over')
<1>0. /\ TypeOK /\ FreshIsBlank /\ ActiveIsConsistent
      /\ finalizer[j] # "idle" => j \in Over
  BY DEF MapInv, EndInv
<1>1. ASSUME UNCHANGED <<active, req, rec>>,
             \A k \in Jobs : finalizer'[k] # "idle" => finalizer[k] # "idle"
      PROVE  Kept
  BY <1>0, <1>1
<1>2. ASSUME NEW k \in Jobs, NEW r \in Requests, Start(k, r) \/ DownloadVod(k, r)
      PROVE  Kept
  <2>1. /\ req[k] = NoRequest /\ req' = [req EXCEPT ![k] = r] /\ active' = active \cup {k}
        /\ rec' = rec /\ finalizer' = finalizer
    BY <1>2 DEF Start, DownloadVod, Insert
  <2> QED BY <1>0, <2>1 DEF TypeOK
<1>3. ASSUME NEW S \in SUBSET active, NEW T \in SUBSET S, Remove(S, T), req' = req
      PROVE  Kept
  <2>1. /\ active' = active \ S
        /\ j \notin S => rec'[j] = rec[j]
        /\ j \notin T => finalizer'[j] = finalizer[j]
    BY <1>3 DEF Remove, StartFinalizer
  <2>2. j \in active => req[j] # NoRequest
    BY <1>0 DEF FreshIsBlank
  <2> QED BY <1>0, <1>3, <2>1, <2>2
<1>4. ASSUME NEW k \in Jobs, Stop(k)
      PROVE  Kept
  BY <1>3, <1>4 DEF Stop
<1>5. ASSUME StopAll
      PROVE  Kept
  BY <1>3, <1>5 DEF StopAll, SlotHolders
<1>6. ASSUME Cancel
      PROVE  Kept
  BY <1>0, <1>6 DEF Cancel
<1>7. ASSUME NEW k \in Jobs, Resolver(k) \/ DropAnswer(k) \/ PollAlive(k) \/ PollStalled(k)
      PROVE  Kept
  BY <1>1, <1>7 DEF Resolver, ResolverSpawns, ResolverRefuses, DropAnswer, PollAlive, PollStalled
<1>8. ASSUME NEW k \in Jobs, NEW p \in Parts, Recorder(k, p)
      PROVE  Kept
  BY <1>1, <1>8 DEF Recorder, RecorderWrites, RecorderFreezes, RecorderExits
<1>9. ASSUME NEW k \in Jobs, ReceiveRecorder(k)
      PROVE  Kept
  <2>1. /\ k \in active /\ rec[k].state = "ResolvingUrl"
        /\ UNCHANGED <<active, req, finalizer>> /\ (j # k => rec'[j] = rec[j])
    BY <1>0, <1>9 DEF ReceiveRecorder, ActiveIsConsistent, TypeOK
  <2> QED BY <1>0, <2>1 DEF Terminal
<1>10. ASSUME NEW k \in Jobs, ReceiveRefusal(k)
       PROVE  Kept
  <2>1. /\ UNCHANGED <<active, req, finalizer>> /\ (j # k => rec'[j] = rec[j])
        /\ rec'[k].state = "Failed"
    BY <1>0, <1>10 DEF ReceiveRefusal, TypeOK, ActiveRecordings
  <2> QED BY <1>0, <2>1 DEF Terminal
<1>11. ASSUME NEW k \in Jobs, PollSucceeded(k) \/ PollGivesUp(k)
       PROVE  Kept
  <2>1. /\ active' = active \ {k} /\ req' = req /\ (j # k => rec'[j] = rec[j])
        /\ j # k => finalizer'[j] = finalizer[j]
        /\ k \in active
    BY <1>0, <1>11 DEF PollSucceeded, PollGivesUp, Polled, StartFinalizer, TypeOK
  <2>2. req[k] # NoRequest
    BY <1>0, <2>1 DEF FreshIsBlank
  <2> QED BY <1>0, <2>1, <2>2
<1>12. ASSUME NEW k \in Jobs, PollRetries(k)
       PROVE  Kept
  <2>1. /\ UNCHANGED <<active, req, finalizer>> /\ (j # k => rec'[j] = rec[j])
        /\ k \in active /\ rec[k].state = "Recording"
    BY <1>0, <1>12 DEF PollRetries, Polled, TypeOK
  <2> QED BY <1>0, <2>1 DEF Terminal
<1>13. ASSUME NEW k \in Jobs, Finalizer(k)
       PROVE  Kept
  <2>1. /\ UNCHANGED <<active, req, rec>>
        /\ \E from, to : from # "idle" /\ FinalizerStep(k, from, to)
    BY <1>13 DEF Finalizer, FinalizerStep, Merge, MergeFails, RenameMerged, RenameMergedFails,
                 DeleteParts, CorrectExtension, KeepExtension, Announce
  <2>2. finalizer[k] # "idle" /\ (j # k => finalizer'[j] = finalizer[j])
    BY <1>0, <2>1 DEF FinalizerStep, TypeOK
  <2> QED BY <1>0, <2>1, <2>2
<1>14. ASSUME TakeEvent \/ UNCHANGED vars
       PROVE  Kept
  BY <1>1, <1>14 DEF TakeEvent, vars
<1> QED
  BY <1>2, <1>4, <1>5, <1>6, <1>7, <1>8, <1>9, <1>10, <1>11, <1>12, <1>13, <1>14
  DEF Next, ManagerNext, Command, Receive, PollExit

\* What is sent: the start or the progress of a recording that is not over, or
\* the end of one that is.
LEMMA WhatIsSent ==
    ASSUME MapInv, EndInv, [Next]_vars
    PROVE  \/ events' = events
           \/ events # <<>> /\ events' = Tail(events)
           \/ \E e \in Events : /\ events' = Append(events, e)
                                /\ e.type = "finished" => e.job \in Over'
                                /\ e.type # "finished" => e.job \notin Over
           \/ \E j \in Jobs : PollGivesUp(j)
<1> DEFINE Sends(e) == /\ events' = Append(events, e)
                       /\ e.type = "finished" => e.job \in Over'
                       /\ e.type # "finished" => e.job \notin Over
<1>0. TypeOK /\ ActiveIsConsistent /\ \A j \in Jobs : finalizer[j] # "idle" => j \in Over'
  <2>1. \A j \in Jobs : finalizer[j] # "idle" => j \in Over
    BY DEF EndInv
  <2> QED BY <2>1, OverStays DEF MapInv
<1>1. ASSUME NEW j \in Jobs, NEW r \in Requests, Start(j, r) \/ DownloadVod(j, r)
      PROVE  \E e \in Events : Sends(e)
  <2> DEFINE e == Started(j, "ResolvingUrl", Base)
  <2>1. e \in Events
    BY StartedIsTyped DEF Base, Paths, Files, Parts, RecordingStates
  <2>2. e.type = "started" /\ e.job = j
    BY DEF Started
  <2>3. events' = Append(events, e) /\ j \notin Over
    BY <1>1 DEF Start, DownloadVod, Insert, Over
  <2> HIDE DEF e
  <2> QED BY <2>1, <2>2, <2>3
<1>2. ASSUME NEW j \in Jobs, ReceiveRecorder(j) PROVE \E e \in Events : Sends(e)
  <2> DEFINE e == Started(j, "Recording", PathOf(Part(j), resolver[j].title))
  <2>1. e \in Events
    <3>1. resolver[j].title \in Titles
      BY <1>0 DEF TypeOK
    <3>2. PathOf(Part(j), resolver[j].title) \in Paths
      BY <1>0, <3>1, PartIsAPart
    <3> QED BY <3>2, StartedIsTyped DEF RecordingStates
  <2>2. e.type = "started" /\ e.job = j
    BY DEF Started
  <2>3. events' = Append(events, e) /\ j \notin Over
    BY <1>0, <1>2 DEF ReceiveRecorder, ActiveIsConsistent, Over, Terminal
  <2> HIDE DEF e
  <2> QED BY <2>1, <2>2, <2>3
<1>3. ASSUME NEW j \in Jobs, PollAlive(j) \/ PollStalled(j) \/ PollSucceeded(j) \/ PollRetries(j)
      PROVE  \E e \in Events : Sends(e)
  <2>1. Progress(j) \in Events
    BY ProgressIsTyped
  <2>2. Progress(j).type = "progress" /\ Progress(j).job = j
    BY DEF Progress
  <2>3. events' = Append(events, Progress(j)) /\ j \notin Over
    BY <1>3 DEF PollAlive, PollStalled, PollSucceeded, PollRetries, Polled, Over, Terminal
  <2> QED BY <2>1, <2>2, <2>3
<1>4. ASSUME NEW j \in Jobs, ReceiveRefusal(j) PROVE \E e \in Events : Sends(e)
  <2> DEFINE e == Finished(j, "Failed", NoFile)
  <2>1. e \in Events
    BY FinishedIsTyped DEF Terminal
  <2>2. e.type = "finished" /\ e.job = j
    BY DEF Finished
  <2>3. req[j] # NoRequest
    BY <1>4 DEF ReceiveRefusal, MapInv, FreshIsBlank
  <2>4. events' = Append(events, e) /\ j \in Over'
    BY <1>0, <1>4, <2>3 DEF ReceiveRefusal, Over, Terminal, TypeOK, ActiveRecordings
  <2> HIDE DEF e
  <2> QED BY <2>1, <2>2, <2>4
<1>5. ASSUME NEW j \in Jobs, Finalizer(j), events' # events PROVE \E e \in Events : Sends(e)
  <2>1. finalizer[j] # "idle" /\ \E f \in {NoFile, Corrected} :
            events' = Append(events, Finished(j, "Finished", f))
    BY <1>5 DEF Finalizer, FinalizerStep, Merge, MergeFails, RenameMerged, RenameMergedFails,
                DeleteParts, CorrectExtension, KeepExtension, Announce
  <2>2. PICK f \in {NoFile, Corrected} : events' = Append(events, Finished(j, "Finished", f))
    BY <2>1
  <2>3. Finished(j, "Finished", f) \in Events
    BY FinishedIsTyped DEF Terminal, Paths, Files
  <2>4. Finished(j, "Finished", f).type = "finished" /\ Finished(j, "Finished", f).job = j
    BY DEF Finished
  <2> QED BY <1>0, <2>1, <2>2, <2>3, <2>4
<1>6. ASSUME \/ \E j \in Jobs : \/ Stop(j) \/ Resolver(j) \/ DropAnswer(j)
                               \/ \E p \in Parts : Recorder(j, p)
             \/ StopAll \/ Cancel \/ UNCHANGED vars
      PROVE  events' = events
  BY <1>6 DEF Stop, StopAll, Cancel, vars, Resolver, ResolverSpawns, ResolverRefuses,
              DropAnswer, Recorder, RecorderWrites, RecorderFreezes, RecorderExits
<1>7. ASSUME TakeEvent PROVE events # <<>> /\ events' = Tail(events)
  BY <1>7 DEF TakeEvent
<1> HIDE DEF Sends
<1>8. \/ events' = events
      \/ events # <<>> /\ events' = Tail(events)
      \/ \E e \in Events : Sends(e)
      \/ \E j \in Jobs : PollGivesUp(j)
  BY <1>1, <1>2, <1>3, <1>4, <1>5, <1>6, <1>7
  DEF Next, ManagerNext, Command, Receive, PollExit
<1> QED BY <1>8 DEF Sends

\* Every action keeps the order of the events.
LEMMA StepKeepsOrder ==
    ASSUME MapInv, EndInv, [Next]_vars
    PROVE  EndInv'
<1>0. events \in Seq(Events) /\ EndsLast(events)
  BY DEF MapInv, TypeOK, EndInv
<1>1. \A j \in Jobs :
         /\ j \in Over => j \in Over'
         /\ finalizer'[j] # "idle" => j \in Over'
  BY OverStays
<1>2. \A a \in DOMAIN events : events[a].job \in Jobs
  <2>1. \A a \in DOMAIN events : events[a] \in Events
    BY <1>0
  <2>2. \A e \in Events : e.job \in Jobs
    BY DEF Events
  <2> QED BY <2>1, <2>2
<1>3. \A a \in DOMAIN events : events[a].type = "finished" =>
          events[a].job \in Over /\ events[a].job \in Over'
  BY <1>1, <1>2 DEF EndInv
<1> DEFINE Ends == /\ \A a \in DOMAIN events' :
                        events'[a].type = "finished" => events'[a].job \in Over'
                   /\ EndsLast(events')
<1>4. ASSUME events' = events PROVE Ends
  BY <1>0, <1>3, <1>4 DEF EndsLast
<1>5. ASSUME events # <<>>, events' = Tail(events) PROVE Ends
  BY <1>0, <1>3, <1>5, TailKeepsOrder
<1>6. ASSUME NEW e \in Events, events' = Append(events, e),
             e.type = "finished" => e.job \in Over', e.type # "finished" => e.job \notin Over
      PROVE  Ends
  <2>1. EndsLast(events')
    BY <1>0, <1>3, <1>6, AppendKeepsOrder
  <2>2. \A a \in DOMAIN events' : events'[a] = e \/ (a \in DOMAIN events /\ events'[a] = events[a])
    BY <1>0, <1>6
  <2> QED BY <1>3, <1>6, <2>1, <2>2
<1>7. ASSUME NEW j \in Jobs, PollGivesUp(j) PROVE Ends
  <2> DEFINE a == Progress(j)
             b == Finished(j, "Failed", NoFile)
             s == Append(events, a)
  <2>1. a \in Events /\ b \in Events
    BY ProgressIsTyped, FinishedIsTyped DEF Terminal
  <2>2. a.type = "progress" /\ a.job = j /\ b.type = "finished" /\ b.job = j
    BY DEF Progress, Finished
  <2>3. events' = events \o <<a, b>>
    BY <1>7 DEF PollGivesUp
  <2>4. j \notin Over /\ j \in Over'
    <3>1. j \in active /\ rec[j].state = "Recording" /\ active' = active \ {j} /\ req' = req
      BY <1>7 DEF PollGivesUp, Polled
    <3>2. req[j] # NoRequest
      BY <3>1 DEF MapInv, FreshIsBlank
    <3> QED BY <3>1, <3>2 DEF Over, Terminal
  <2> HIDE DEF a, b
  <2>5. s \in Seq(Events) /\ events' = Append(s, b)
    BY <1>0, <2>1, <2>3
  <2>6. EndsLast(s)
    BY <1>0, <1>3, <2>1, <2>2, <2>4, AppendKeepsOrder
  <2>7. EndsLast(Append(s, b))
    <3> HIDE DEF s
    <3> QED BY <2>1, <2>2, <2>5, <2>6, AppendKeepsOrder
  <2>8. \A i \in DOMAIN events' :
           events'[i] \in {a, b} \/ (i \in DOMAIN events /\ events'[i] = events[i])
    BY <1>0, <2>1, <2>3
  <2> QED BY <1>3, <2>2, <2>4, <2>5, <2>7, <2>8
<1>8. Ends
  BY <1>4, <1>5, <1>6, <1>7, WhatIsSent
<1> QED BY <1>1, <1>8 DEF EndInv, EndsLast

\* No start and no progress reaches the clients after the end of a recording,
\* in whatever order stops, answers, polls and finalizing tasks come.
THEOREM EndsComeLast == Spec => []NothingAfterTheEnd
<1>1. Init => EndInv
  BY DEF Init, EndInv, EndsLast
<1>2. IInv /\ EndInv /\ [Next]_vars => EndInv'
  BY CoreKnowsTheMap, StepKeepsOrder DEF IInv
<1>3. EndInv => NothingAfterTheEnd
  BY DEF EndInv, EndsLast, NothingAfterTheEnd
<1> QED BY <1>1, <1>2, <1>3, InvariantHolds, PTL DEF Spec

-----------------------------------------------------------------------------
(* The captured media.                                                     *)

Finalizing == {j \in Jobs : finalizer[j] # "idle"}

\* finalize_completion is called for a recording that has left the map.
FinalizedHasLeft == \A j \in Finalizing : j \notin active

\* File f holds every part, what a recorder may still write to it included.
HoldsParts(j, f) == \A p \in Segments(j) : p \in disk[j][f] /\ disk[j][p] \subseteq disk[j][f]

\* A hidden file that a daemon left when it died is of a recording nobody
\* will merge again.
MayMerge(j) == \/ req[j] = NoRequest \/ j \in active
               \/ finalizer[j] \notin {"idle", "rename"}

\* How far the finalizing task is says where the parts are: a part file holds
\* its own part alone, the base until it is merged onto; the hidden file has
\* all parts before the base is overwritten, the base before parts are deleted.
MediaInv ==
    /\ FinalizedHasLeft
    /\ \A j \in Jobs :
         /\ \A p \in Parts \ {Base} : disk[j][p] \subseteq {p}
         /\ j \in active \/ req[j] = NoRequest \/ finalizer[j] = "merge"
                => disk[j][Base] \subseteq {Base}
         /\ MayMerge(j) => disk[j][Merging] = {}
         /\ finalizer[j] = "rename" =>
                /\ HoldsParts(j, Merging)
                /\ disk[j][Merging] \subseteq UNION {disk[j][p] : p \in Segments(j)}
         /\ finalizer[j] = "cleanup" => HoldsParts(j, Base)

\* The names of files are told apart, and segments are parts.
LEMMA NamesDiffer ==
    ASSUME TypeOK, NEW j \in Jobs
    PROVE  /\ Base \in Parts /\ Merging \notin Parts /\ Corrected \notin Parts
           /\ Merging # Corrected /\ Files = Parts \cup {Merging, Corrected}
           /\ Segments(j) \subseteq Parts /\ Base \in Segments(j)
<1>1. Part(j) \in 1 .. (MaxRetries + 1)
  BY PartIsAPart DEF Parts
<1> QED BY <1>1 DEF Base, Merging, Corrected, Files, Parts, Segments

\* Steps that touch no file: those that leave the map, and those that take
\* recordings out of it, some of them to be finalized.
LEMMA UntouchedMediaStay ==
    ASSUME TypeOK, MediaInv, UNCHANGED disk, active' \subseteq active, UNCHANGED req,
           \A j \in Finalizing : rec'[j].retry_count = rec[j].retry_count,
           \A j \in Jobs : \/ finalizer'[j] = finalizer[j]
                           \/ j \in active \ active' /\ finalizer'[j] \in {"merge", "name"}
    PROVE  MediaInv'
<1>1. \A j \in Jobs : j \in active => finalizer[j] = "idle"
  BY DEF MediaInv, FinalizedHasLeft, Finalizing
<1>2. FinalizedHasLeft'
  BY DEF MediaInv, FinalizedHasLeft, Finalizing
<1>3. \A j \in Finalizing : Segments(j)' = Segments(j)
  BY DEF Segments, Part
<1>4. ASSUME NEW j \in Jobs, NEW f \in Files, finalizer'[j] \in {"rename", "cleanup"}
      PROVE  finalizer'[j] = finalizer[j] /\ (HoldsParts(j, f) <=> HoldsParts(j, f)')
  <2>1. finalizer'[j] = finalizer[j] /\ j \in Finalizing
    BY <1>4 DEF Finalizing
  <2> QED BY <1>3, <2>1 DEF HoldsParts
<1>5. ASSUME NEW j \in Jobs
      PROVE  /\ \A p \in Parts \ {Base} : disk'[j][p] \subseteq {p}
             /\ j \in active' \/ req'[j] = NoRequest \/ finalizer'[j] = "merge"
                    => disk'[j][Base] \subseteq {Base}
             /\ MayMerge(j)' => disk'[j][Merging] = {}
             /\ finalizer'[j] = "rename" =>
                    /\ HoldsParts(j, Merging)'
                    /\ disk'[j][Merging] \subseteq UNION {disk'[j][p] : p \in Segments(j)'}
             /\ finalizer'[j] = "cleanup" => HoldsParts(j, Base)'
  <2>1. Merging \in Files /\ Base \in Files
    BY NamesDiffer
  <2>2. finalizer'[j] = "rename" => Segments(j)' = Segments(j)
    BY <1>3, <1>4, <2>1 DEF Finalizing
  <2>3. finalizer[j] = "rename" => finalizer'[j] = "rename"
    BY <1>1
  <2>4. MayMerge(j)' => MayMerge(j)
    BY <1>1 DEF MayMerge
  <2> QED BY <1>1, <1>4, <2>1, <2>2, <2>3, <2>4 DEF MediaInv
<1> QED BY <1>2, <1>5 DEF MediaInv

\* Inserting a recording touches no file either.
LEMMA InsertKeepsMedia ==
    ASSUME TypeOK, EndInv, MediaInv,
           NEW k \in Jobs, NEW r \in Requests, Start(k, r) \/ DownloadVod(k, r)
    PROVE  MediaInv'
<1>1. /\ req[k] = NoRequest /\ req' = [req EXCEPT ![k] = r] /\ active' = active \cup {k}
      /\ UNCHANGED <<rec, disk, finalizer>>
  BY DEF Start, DownloadVod, Insert
<1>2. finalizer[k] = "idle" /\ r # NoRequest
  BY <1>1 DEF EndInv, Over
<1>3. \A j \in Jobs : Segments(j)' = Segments(j)
  BY <1>1 DEF Segments, Part
<1>4. \A j \in Jobs, f \in Files : HoldsParts(j, f)' <=> HoldsParts(j, f)
  BY <1>1, <1>3 DEF HoldsParts
<1>5. FinalizedHasLeft'
  BY <1>1, <1>2 DEF MediaInv, FinalizedHasLeft, Finalizing
<1>6. Base \in Files /\ Merging \in Files
  BY NamesDiffer
<1>7. \A j \in Jobs : req'[j] = NoRequest => req[j] = NoRequest
  BY <1>1, <1>2 DEF TypeOK
<1>8. ASSUME NEW j \in Jobs
      PROVE  /\ \A p \in Parts \ {Base} : disk'[j][p] \subseteq {p}
             /\ j \in active' \/ req'[j] = NoRequest \/ finalizer'[j] = "merge"
                    => disk'[j][Base] \subseteq {Base}
             /\ MayMerge(j)' => disk'[j][Merging] = {}
             /\ finalizer'[j] = "rename" =>
                    /\ HoldsParts(j, Merging)'
                    /\ disk'[j][Merging] \subseteq UNION {disk'[j][p] : p \in Segments(j)'}
             /\ finalizer'[j] = "cleanup" => HoldsParts(j, Base)'
  <2>1. MayMerge(j)' => MayMerge(j)
    BY <1>1, <1>7 DEF MayMerge
  <2> QED BY <1>1, <1>3, <1>4, <1>6, <1>7, <2>1 DEF MediaInv
<1> QED BY <1>5, <1>8 DEF MediaInv

\* What a recorder writes is its part, into the file of the part.
LEMMA RecorderKeepsMedia ==
    ASSUME TypeOK, MediaInv, NEW k \in Jobs, NEW q \in Parts, Recorder(k, q)
    PROVE  MediaInv' /\ \A j \in Jobs, f \in Files : disk[j][f] \subseteq disk'[j][f]
<1>1. /\ UNCHANGED <<active, req, rec, finalizer>>
      /\ disk' = disk \/ disk' = [disk EXCEPT ![k][q] = disk[k][q] \cup {q}]
  BY DEF Recorder, RecorderWrites, RecorderFreezes, RecorderExits
<1>2. CASE disk' = disk
  <2>1. \A j \in Finalizing : rec'[j].retry_count = rec[j].retry_count
    BY <1>1
  <2>2. MediaInv'
    BY <1>1, <1>2, <2>1, UntouchedMediaStay
  <2> QED BY <1>2, <2>2
<1>3. CASE disk' = [disk EXCEPT ![k][q] = disk[k][q] \cup {q}]
  <2>1. /\ \A j \in Jobs, f \in Files : j # k \/ f # q => disk'[j][f] = disk[j][f]
        /\ disk'[k][q] = disk[k][q] \cup {q}
    BY <1>3, NamesDiffer DEF TypeOK
  <2>2. \A j \in Jobs : Segments(j)' = Segments(j)
    BY <1>1 DEF Segments, Part
  <2>3. FinalizedHasLeft'
    BY <1>1 DEF MediaInv, FinalizedHasLeft, Finalizing
  <2>4. ASSUME NEW j \in Jobs
        PROVE  /\ \A p \in Parts \ {Base} : disk'[j][p] \subseteq {p}
               /\ j \in active' \/ req'[j] = NoRequest \/ finalizer'[j] = "merge"
                      => disk'[j][Base] \subseteq {Base}
               /\ MayMerge(j)' => disk'[j][Merging] = {}
               /\ finalizer'[j] = "rename" =>
                      /\ HoldsParts(j, Merging)'
                      /\ disk'[j][Merging] \subseteq UNION {disk'[j][p] : p \in Segments(j)'}
               /\ finalizer'[j] = "cleanup" => HoldsParts(j, Base)'
    <3>1. /\ Segments(j) \subseteq Parts /\ Base \in Parts /\ Merging \notin Parts
          /\ Parts \subseteq Files /\ Merging \in Files
      BY NamesDiffer
    <3>2. \A p \in Parts : /\ disk[j][p] \subseteq disk'[j][p]
                          /\ disk'[j][p] \subseteq disk[j][p] \cup {p}
      BY <2>1, <3>1
    <3>3. disk'[j][Merging] = disk[j][Merging]
      BY <2>1, <3>1
    <3>4. ASSUME NEW f \in {Base, Merging}, HoldsParts(j, f) PROVE HoldsParts(j, f)'
      BY <2>2, <3>1, <3>2, <3>3, <3>4 DEF HoldsParts
    <3>5. \A p \in Parts \ {Base} : disk'[j][p] \subseteq {p}
      BY <3>2 DEF MediaInv
    <3>6. j \in active' \/ req'[j] = NoRequest \/ finalizer'[j] = "merge"
              => disk'[j][Base] \subseteq {Base}
      BY <1>1, <3>1, <3>2 DEF MediaInv
    <3>7. finalizer'[j] = "rename" =>
              disk'[j][Merging] \subseteq UNION {disk'[j][p] : p \in Segments(j)'}
      BY <1>1, <2>2, <3>1, <3>2, <3>3 DEF MediaInv
    <3>8. MayMerge(j)' => MayMerge(j)
      BY <1>1 DEF MayMerge
    <3> QED BY <1>1, <3>3, <3>4, <3>5, <3>6, <3>7, <3>8 DEF MediaInv
  <2>5. MediaInv'
    BY <2>3, <2>4 DEF MediaInv
  <2> QED BY <2>1, <2>5
<1> QED BY <1>1, <1>2, <1>3

\* The finalizing task: each step loses nothing because the step before it
\* has put the parts where they are safe, and a failure goes back to them.
LEMMA FinalizerKeepsMedia ==
    ASSUME TypeOK, EndInv, MediaInv, NEW k \in Jobs, Finalizer(k)
    PROVE  MediaInv' /\ \A j \in Jobs : Media(j) \subseteq Media(j)'
<1> DEFINE S == Segments(k)
           Safe == \A f \in Files : \A x \in disk[k][f] : \E g \in Files : x \in disk'[k][g]
           Kept(to) ==
               /\ \A p \in Parts \ {Base} : disk'[k][p] \subseteq {p}
               /\ to # "rename" => disk'[k][Merging] = {}
               /\ to = "rename" => /\ \A p \in S : /\ p \in disk'[k][Merging]
                                                   /\ disk'[k][p] \subseteq disk'[k][Merging]
                                   /\ disk'[k][Merging] \subseteq UNION {disk'[k][p] : p \in S}
               /\ to = "cleanup" => \A p \in S : /\ p \in disk'[k][Base]
                                                 /\ disk'[k][p] \subseteq disk'[k][Base]
<1>1. UNCHANGED <<active, req, rec>> /\ finalizer[k] # "idle"
  BY DEF Finalizer, FinalizerStep, Merge, MergeFails, RenameMerged, RenameMergedFails,
         DeleteParts, CorrectExtension, KeepExtension, Announce
<1>2. k \notin active /\ req[k] # NoRequest
  BY <1>1 DEF MediaInv, FinalizedHasLeft, Finalizing, EndInv, Over
<1>3. \A j \in Jobs : Segments(j)' = Segments(j)
  BY <1>1 DEF Segments, Part
<1>4. /\ Base \in Parts /\ Merging \notin Parts /\ Corrected \notin Parts /\ Base # Merging
      /\ Merging # Corrected /\ Base # Corrected /\ Files = Parts \cup {Merging, Corrected}
      /\ S \subseteq Parts /\ Base \in S
  BY NamesDiffer
<1>5. ASSUME NEW to \in FinalizerStages \ {"merge"}, finalizer' = [finalizer EXCEPT ![k] = to],
             \A j \in Jobs \ {k} : disk'[j] = disk[j], Kept(to), Safe
      PROVE  MediaInv' /\ \A j \in Jobs : Media(j) \subseteq Media(j)'
  <2>1. finalizer'[k] = to /\ \A j \in Jobs \ {k} : finalizer'[j] = finalizer[j]
    BY <1>5 DEF TypeOK
  <2>2. FinalizedHasLeft'
    BY <1>1, <1>2, <2>1 DEF MediaInv, FinalizedHasLeft, Finalizing
  <2>3. ASSUME NEW j \in Jobs
        PROVE  /\ \A p \in Parts \ {Base} : disk'[j][p] \subseteq {p}
               /\ j \in active' \/ req'[j] = NoRequest \/ finalizer'[j] = "merge"
                      => disk'[j][Base] \subseteq {Base}
               /\ MayMerge(j)' => disk'[j][Merging] = {}
               /\ finalizer'[j] = "rename" =>
                      /\ HoldsParts(j, Merging)'
                      /\ disk'[j][Merging] \subseteq UNION {disk'[j][p] : p \in Segments(j)'}
               /\ finalizer'[j] = "cleanup" => HoldsParts(j, Base)'
    <3>1. CASE j = k
      BY <1>1, <1>2, <1>3, <1>5, <2>1, <3>1 DEF HoldsParts, MayMerge
    <3>2. CASE j # k
      BY <1>1, <1>3, <1>5, <2>1, <3>2 DEF MediaInv, HoldsParts, MayMerge
    <3> QED BY <3>1, <3>2
  <2>4. MediaInv'
    BY <2>2, <2>3 DEF MediaInv
  <2>5. ASSUME NEW j \in Jobs PROVE Media(j) \subseteq Media(j)'
    BY <1>5 DEF Media
  <2> QED BY <2>4, <2>5
<1>6. \A p \in Parts \ {Base} : disk[k][p] \subseteq {p}
  BY DEF MediaInv
<1>7. disk \in [Jobs -> [Files -> SUBSET Parts]]
  BY DEF TypeOK
<1>8. ASSUME NEW to \in FinalizerStages \ {"rename", "cleanup"}, finalizer[k] # "rename",
             disk' = disk
      PROVE  Kept(to) /\ Safe
  BY <1>1, <1>6, <1>8 DEF MediaInv, MayMerge
<1> HIDE DEF Kept
<1>9. ASSUME Merge(k) PROVE MediaInv' /\ \A j \in Jobs : Media(j) \subseteq Media(j)'
  <2>1. /\ finalizer[k] = "merge" /\ finalizer' = [finalizer EXCEPT ![k] = "rename"]
        /\ \A p \in S : disk[k][p] # {}
        /\ disk' = [disk EXCEPT ![k][Merging] = UNION {disk[k][p] : p \in S}]
    BY <1>9 DEF Merge, FinalizerStep
  <2>2. /\ disk'[k][Merging] = UNION {disk[k][p] : p \in S}
        /\ \A f \in Files \ {Merging} : disk'[k][f] = disk[k][f]
        /\ \A j \in Jobs \ {k} : disk'[j] = disk[j]
    BY <1>4, <1>7, <2>1
  <2>3. disk[k][Base] \subseteq {Base} /\ disk[k][Merging] = {}
    BY <2>1 DEF MediaInv, MayMerge
  <2>4. \A p \in S : disk[k][p] = {p} /\ disk'[k][p] = disk[k][p]
    BY <1>4, <1>6, <2>1, <2>2, <2>3
  <2>5. Kept("rename")
    BY <1>4, <1>6, <2>2, <2>4 DEF Kept
  <2>6. Safe
    BY <2>2, <2>3
  <2> QED BY <1>5, <2>1, <2>2, <2>5, <2>6 DEF FinalizerStages
<1>10. ASSUME RenameMerged(k) PROVE MediaInv' /\ \A j \in Jobs : Media(j) \subseteq Media(j)'
  <2>1. /\ finalizer[k] = "rename" /\ finalizer' = [finalizer EXCEPT ![k] = "cleanup"]
        /\ disk' = [disk EXCEPT ![k] = [disk[k] EXCEPT ![Base] = disk[k][Merging], ![Merging] = {}]]
    BY <1>10 DEF RenameMerged, FinalizerStep
  <2>2. /\ disk'[k][Base] = disk[k][Merging] /\ disk'[k][Merging] = {}
        /\ \A f \in Files \ {Base, Merging} : disk'[k][f] = disk[k][f]
        /\ \A j \in Jobs \ {k} : disk'[j] = disk[j]
    BY <1>4, <1>7, <2>1
  <2>3. \A p \in S : p \in disk[k][Merging] /\ disk[k][p] \subseteq disk[k][Merging]
    BY <2>1 DEF MediaInv, HoldsParts
  <2>4. Kept("cleanup")
    BY <1>4, <1>6, <2>2, <2>3 DEF Kept
  <2>5. Safe
    BY <1>4, <2>2, <2>3
  <2> QED BY <1>5, <2>1, <2>2, <2>4, <2>5 DEF FinalizerStages
<1>11. ASSUME RenameMergedFails(k)
       PROVE  MediaInv' /\ \A j \in Jobs : Media(j) \subseteq Media(j)'
  <2>1. /\ finalizer[k] = "rename" /\ finalizer' = [finalizer EXCEPT ![k] = "idle"]
        /\ disk' = [disk EXCEPT ![k][Merging] = {}]
    BY <1>11 DEF RenameMergedFails, FinalizerStep
  <2>2. /\ disk'[k][Merging] = {}
        /\ \A f \in Files \ {Merging} : disk'[k][f] = disk[k][f]
        /\ \A j \in Jobs \ {k} : disk'[j] = disk[j]
    BY <1>4, <1>7, <2>1
  <2>3. disk[k][Merging] \subseteq UNION {disk[k][p] : p \in S}
    BY <2>1 DEF MediaInv
  <2>4. Kept("idle")
    BY <1>4, <1>6, <2>2 DEF Kept
  <2>5. Safe
    BY <1>4, <2>2, <2>3
  <2> QED BY <1>5, <2>1, <2>2, <2>4, <2>5 DEF FinalizerStages
<1>12. ASSUME DeleteParts(k) PROVE MediaInv' /\ \A j \in Jobs : Media(j) \subseteq Media(j)'
  <2>1. /\ finalizer[k] = "cleanup" /\ finalizer' = [finalizer EXCEPT ![k] = "name"]
        /\ disk' = [disk EXCEPT ![k] = [f \in Files |->
                        IF f \in S \ {Base} THEN {} ELSE disk[k][f]]]
    BY <1>12 DEF DeleteParts, FinalizerStep
  <2>2. /\ \A f \in Files : disk'[k][f] = IF f \in S \ {Base} THEN {} ELSE disk[k][f]
        /\ \A j \in Jobs \ {k} : disk'[j] = disk[j]
    BY <1>7, <2>1
  <2>3. disk[k][Merging] = {} /\ \A p \in S : disk[k][p] \subseteq disk[k][Base]
    BY <2>1 DEF MediaInv, MayMerge, HoldsParts
  <2>4. Kept("name")
    BY <1>4, <1>6, <2>2, <2>3 DEF Kept
  <2>5. Safe
    BY <1>4, <2>2, <2>3
  <2> QED BY <1>5, <2>1, <2>2, <2>4, <2>5 DEF FinalizerStages
<1>13. ASSUME CorrectExtension(k) PROVE MediaInv' /\ \A j \in Jobs : Media(j) \subseteq Media(j)'
  <2>1. /\ finalizer[k] = "name" /\ finalizer' = [finalizer EXCEPT ![k] = "announceCorrected"]
        /\ disk[k][Corrected] = {}
        /\ disk' = [disk EXCEPT ![k] = [disk[k] EXCEPT ![Corrected] = disk[k][Base], ![Base] = {}]]
    BY <1>13 DEF CorrectExtension, FinalizerStep
  <2>2. /\ disk'[k][Corrected] = disk[k][Base] /\ disk'[k][Base] = {}
        /\ \A f \in Files \ {Base, Corrected} : disk'[k][f] = disk[k][f]
        /\ \A j \in Jobs \ {k} : disk'[j] = disk[j]
    BY <1>4, <1>7, <2>1
  <2>3. disk[k][Merging] = {}
    BY <2>1 DEF MediaInv, MayMerge
  <2>4. Kept("announceCorrected")
    BY <1>4, <1>6, <2>2, <2>3 DEF Kept
  <2>5. Safe
    BY <1>4, <2>1, <2>2
  <2> QED BY <1>5, <2>1, <2>2, <2>4, <2>5 DEF FinalizerStages
<1>14. ASSUME MergeFails(k) \/ KeepExtension(k) \/ Announce(k)
       PROVE  MediaInv' /\ \A j \in Jobs : Media(j) \subseteq Media(j)'
  <2>1. /\ disk' = disk /\ finalizer[k] # "rename"
        /\ \E to \in FinalizerStages \ {"merge", "rename", "cleanup"} :
              finalizer' = [finalizer EXCEPT ![k] = to]
    BY <1>14 DEF MergeFails, KeepExtension, Announce, FinalizerStep, FinalizerStages
  <2>2. PICK to \in FinalizerStages \ {"merge", "rename", "cleanup"} :
            finalizer' = [finalizer EXCEPT ![k] = to]
    BY <2>1
  <2>3. Kept(to) /\ Safe
    BY <1>8, <2>1
  <2> QED BY <1>5, <2>1, <2>2, <2>3
<1> QED BY <1>9, <1>10, <1>11, <1>12, <1>13, <1>14 DEF Finalizer

\* No step of the manager, of a recorder or of a finalizing task loses media.
LEMMA StepKeepsMedia ==
    ASSUME TypeOK, EndInv, MediaInv, [Next]_vars
    PROVE  MediaInv' /\ \A j \in Jobs : Media(j) \subseteq Media(j)'
<1>0. TypeOK /\ \A j \in Jobs : j \in active => j \notin Finalizing
  BY DEF MediaInv, FinalizedHasLeft
<1>1. ASSUME disk' = disk PROVE \A j \in Jobs : Media(j) \subseteq Media(j)'
  BY <1>1 DEF Media
<1>2. ASSUME NEW k \in Jobs, NEW r \in Requests, Start(k, r) \/ DownloadVod(k, r)
      PROVE  MediaInv' /\ disk' = disk
  BY <1>0, <1>2, InsertKeepsMedia DEF Start, DownloadVod, Insert
<1>3. ASSUME NEW S \in SUBSET active, NEW T \in SUBSET S, Remove(S, T),
             UNCHANGED <<req, disk>>
      PROVE  MediaInv'
  <2>1. active' = active \ S /\ \A j \in Jobs : rec'[j].retry_count = rec[j].retry_count
    BY <1>0, <1>3 DEF Remove, TypeOK, ActiveRecordings
  <2>2. \A j \in Jobs : \/ finalizer'[j] = finalizer[j]
                        \/ j \in active \ active' /\ finalizer'[j] \in {"merge", "name"}
    BY <1>3, <2>1 DEF Remove, StartFinalizer
  <2>3. \A j \in Finalizing : rec'[j].retry_count = rec[j].retry_count
    BY <2>1 DEF Finalizing
  <2> QED BY <1>0, <1>3, <2>1, <2>2, <2>3, UntouchedMediaStay
<1>4. ASSUME (\E j \in Jobs : Stop(j)) \/ StopAll PROVE MediaInv' /\ disk' = disk
  <2>1. ASSUME NEW j \in Jobs, Stop(j) PROVE MediaInv' /\ disk' = disk
    BY <1>3, <2>1 DEF Stop
  <2>2. ASSUME StopAll PROVE MediaInv' /\ disk' = disk
    BY <1>3, <2>2 DEF StopAll, SlotHolders
  <2> QED BY <1>4, <2>1, <2>2
<1>5. ASSUME NEW k \in Jobs, PollSucceeded(k) \/ PollGivesUp(k) PROVE MediaInv' /\ disk' = disk
  <2>1. /\ UNCHANGED <<req, disk>> /\ k \in active /\ active' = active \ {k}
        /\ \A j \in Jobs \ {k} : rec'[j] = rec[j]
    BY <1>0, <1>5 DEF PollSucceeded, PollGivesUp, Polled, TypeOK
  <2>2. \A j \in Jobs : \/ finalizer'[j] = finalizer[j]
                        \/ j \in active \ active' /\ finalizer'[j] \in {"merge", "name"}
    BY <1>5, <2>1 DEF PollSucceeded, PollGivesUp, StartFinalizer
  <2>3. \A j \in Finalizing : rec'[j].retry_count = rec[j].retry_count
    BY <1>0, <2>1 DEF Finalizing
  <2> QED BY <1>0, <2>1, <2>2, <2>3, UntouchedMediaStay
<1>6. ASSUME NEW k \in Jobs, ReceiveRecorder(k) \/ ReceiveRefusal(k) \/ PollRetries(k)
      PROVE  MediaInv' /\ disk' = disk
  <2>1. /\ UNCHANGED <<active, req, disk, finalizer>> /\ k \in active
        /\ \A j \in Jobs \ {k} : rec'[j] = rec[j]
    BY <1>0, <1>6 DEF ReceiveRecorder, ReceiveRefusal, PollRetries, Polled, TypeOK
  <2>2. \A j \in Finalizing : rec'[j].retry_count = rec[j].retry_count
    BY <1>0, <2>1 DEF Finalizing
  <2> QED BY <1>0, <2>1, <2>2, UntouchedMediaStay
<1>7. ASSUME \/ Cancel \/ TakeEvent \/ UNCHANGED vars
             \/ \E k \in Jobs : \/ Resolver(k) \/ DropAnswer(k)
                                \/ PollAlive(k) \/ PollStalled(k)
      PROVE  MediaInv' /\ disk' = disk
  <2>1. /\ UNCHANGED <<req, rec, disk, finalizer>> /\ active' \subseteq active
    BY <1>7 DEF Cancel, TakeEvent, vars, Resolver, ResolverSpawns, ResolverRefuses, DropAnswer,
                PollAlive, PollStalled
  <2>2. \A j \in Finalizing : rec'[j].retry_count = rec[j].retry_count
    BY <2>1
  <2> QED BY <1>0, <2>1, <2>2, UntouchedMediaStay
<1>8. ASSUME NEW k \in Jobs, NEW p \in Parts, Recorder(k, p)
      PROVE  MediaInv' /\ \A j \in Jobs : Media(j) \subseteq Media(j)'
  <2>1. MediaInv' /\ \A j \in Jobs, f \in Files : disk[j][f] \subseteq disk'[j][f]
    BY <1>0, <1>8, RecorderKeepsMedia
  <2> QED BY <2>1 DEF Media
<1>9. ASSUME NEW k \in Jobs, Finalizer(k)
      PROVE  MediaInv' /\ \A j \in Jobs : Media(j) \subseteq Media(j)'
  BY <1>0, <1>9, FinalizerKeepsMedia
<1> QED
  BY <1>1, <1>2, <1>4, <1>5, <1>6, <1>7, <1>8, <1>9
  DEF Next, ManagerNext, Command, Receive, PollExit

\* There is no media to begin with.
LEMMA InitKeepsMedia == Init => MediaInv
<1> SUFFICES ASSUME Init PROVE MediaInv
  OBVIOUS
<1>1. TypeOK
  BY InitIsTyped
<1>2. \A j \in Jobs, f \in Files : disk[j][f] = {}
  BY DEF Init
<1>3. /\ Finalizing = {} /\ \A j \in Jobs : finalizer[j] = "idle"
  BY DEF Init, Finalizing
<1>4. Merging \in Files /\ Parts \subseteq Files /\ Base \in Files
  BY <1>1, NamesDiffer DEF Files, Parts, Merging, Base
<1> QED BY <1>2, <1>3, <1>4 DEF MediaInv, FinalizedHasLeft

\* Merging, renaming and deleting parts lose no captured byte, whichever of
\* them fails, whatever recorders still write and however often a recording
\* was resumed (finalize_completion, merge_segments).
THEOREM CapturedMediaIsKept == Spec => MediaIsKept
<1>1. Init => EndInv /\ MediaInv
  BY InitKeepsMedia DEF Init, EndInv, EndsLast
<1>2. IInv /\ EndInv /\ MediaInv /\ [Next]_vars => EndInv' /\ MediaInv'
  BY CoreKnowsTheMap, StepKeepsOrder, StepKeepsMedia DEF IInv, Core
<1>3. IInv /\ EndInv /\ MediaInv /\ [Next]_vars =>
          [\A j \in Jobs : Media(j) \subseteq Media(j)']_vars
  BY StepKeepsMedia DEF IInv, Core
<1> QED BY <1>1, <1>2, <1>3, InvariantHolds, PTL DEF Spec, MediaIsKept
=============================================================================
