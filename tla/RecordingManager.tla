-------------------------- MODULE RecordingManager --------------------------
(***************************************************************************)
(* The recording manager of the StriVo daemon: the select! loop of         *)
(* run_manager (src/src/recording/mod.rs), the resolver tasks it spawns,   *)
(* the ffmpeg and yt-dlp processes they hand back, and the task that       *)
(* finalize_completion spawns once a recording is over.                    *)
(*                                                                         *)
(* The loop handles one command, one resolver answer or one poll of a      *)
(* recorder at a time.  Resolver tasks, recorder processes and finalizing  *)
(* tasks run beside it.  A poll tick visits every active recording; the    *)
(* visits touch disjoint state, so a tick is the composition of the Poll   *)
(* steps of its recordings in some order.                                  *)
(*                                                                         *)
(* Left out: refusals (Start, DownloadVod), which only notify the user;    *)
(* thumbnails; the Twitch rewind cache; codecs, sizes and durations.       *)
(***************************************************************************)
EXTENDS Naturals, Sequences, FiniteSets

CONSTANTS
    Jobs,        \* the ids a new RecordingJob may get; each is used once
    Channels,    \* channels a client can ask to capture
    LiveKinds,   \* the live captures asked for: "capture" and "fromStart"
    Urls,        \* VOD urls a client can ask to download
    UrlChannel,  \* [Urls -> channel_id the download is filed under]
    NoUrl,       \* source_url = None
    NoRequest,   \* the request of an id that is still unused
    Cap,         \* monitor_limits.max_concurrent_recordings, 0 = unlimited
    MaxRetries,  \* gap-resume budget, 3 in the code
    MaxEvents    \* bound on undelivered events, for TLC only

\* Ids are finite in number, and the configuration holds a u32.
ASSUME ConstantsAssumption ==
    /\ IsFiniteSet(Jobs)
    /\ LiveKinds \subseteq {"capture", "fromStart"}
    /\ NoUrl \notin Urls
    /\ Cap \in Nat
    /\ MaxRetries \in Nat
    /\ MaxEvents \in Nat


-----------------------------------------------------------------------------
(* What is asked for, and the files a job leaves on disk.                  *)

\* A "capture" is recorded by ffmpeg, a "fromStart" (YouTube live from the
\* start) and a "vod" by yt-dlp.
Requests ==
    [kind : LiveKinds, channel : Channels, url : {NoUrl}]
        \cup {[kind |-> "vod", channel |-> UrlChannel[u], url |-> u] : u \in Urls}

\* The absent request is not a request.
ASSUME NoRequestAssumption == NoRequest \notin Requests

Tool(r) == IF r.kind = "capture" THEN "ffmpeg" ELSE "ytdlp"

\* Part 1 is the recording itself, part n the file <base>_partn of the
\* n-1st gap resume.  Two more names exist: the hidden .merging file, and the
\* recording under the extension its container asks for.
Parts     == 1 .. (MaxRetries + 1)
Base      == 1
Merging   == 0
Corrected == MaxRetries + 2
Files     == Parts \cup {Merging, Corrected}

\* A path is built on the title the request came with, or on the one yt-dlp
\* resolved for a from-start download.  Part 1 has a path under each; the
\* other names come up under one title alone, that of the recorder's answer.
Titles  == {"requested", "resolved"}
Renamed == MaxRetries + 3
Paths   == Files \cup {Renamed}
NoFile  == MaxRetries + 4

PathOf(p, title) == IF p = Base /\ title = "resolved" THEN Renamed ELSE p

-----------------------------------------------------------------------------
VARIABLES
    running,    \* the loop has not been cancelled
    active,     \* the keys of the map `active`
    req,        \* req[j]: what job j was created for
    rec,        \* rec[j]: the ActiveRecording of j, last value once removed
    tail,       \* tail[j]: the LiveCapture of j
    resolver,   \* resolver[j]: the task, or the answer it left in resolve_rx
    proc,       \* proc[j][p]: the recorder process writing part p of j
    disk,       \* disk[j][f]: the parts whose media file f of j holds; the file
                \* Base is where the first recorder writes, see FileAt
    finalizer,  \* finalizer[j]: how far the task of finalize_completion is
    events      \* event_tx: what the daemon loop has yet to take

vars == <<running, active, req, rec, tail, resolver, proc, disk, finalizer, events>>

RecordingStates == {"ResolvingUrl", "Recording", "Finished", "Failed"}
ProcStates      == {"none", "running", "hung", "ok", "failed"}
ResolverPhases  == {"idle", "working", "spawned", "refused"}
FinalizerStages ==
    {"idle", "merge", "rename", "cleanup", "name", "announce", "announceCorrected"}

ActiveRecordings ==
    [state : RecordingStates, process : BOOLEAN, retry_count : 0 .. MaxRetries,
     title : Titles]

LiveCaptures == [title : Titles, open : SUBSET Parts, finalized : SUBSET Parts]

\* A RecordingStarted carries the job (its state and output path), a
\* RecordingFinished the final state and the corrected path if there is one.
Events ==
    [type : {"started", "progress", "finished"}, job : Jobs,
     state : RecordingStates, file : Paths \cup {NoFile}]

\* One type invariant for the manager's whole state.
TypeOK ==
    /\ running \in BOOLEAN
    /\ active \subseteq Jobs
    /\ req \in [Jobs -> Requests \cup {NoRequest}]
    /\ rec \in [Jobs -> ActiveRecordings]
    /\ tail \in [Jobs -> LiveCaptures]
    /\ resolver \in [Jobs -> [phase : ResolverPhases, part : Parts, title : Titles]]
    /\ proc \in [Jobs -> [Parts -> ProcStates]]
    /\ disk \in [Jobs -> [Files -> SUBSET Parts]]
    /\ finalizer \in [Jobs -> FinalizerStages]
    /\ events \in Seq(Events)

-----------------------------------------------------------------------------
(* Helpers.                                                                *)

Terminal == {"Finished", "Failed"}
Alive    == {"running", "hung"}

\* The part job j is on: retries push one segment each, so the length of
\* `segments` is retry_count + 1 and output_path is the last of them.
Part(j)     == rec[j].retry_count + 1
Segments(j) == 1 .. Part(j)

\* What is under a path of j.  The first recorder writes under the title its
\* task resolved, resolver[j].title, whether its answer is taken or not; the
\* job's own path follows with the answer.  Nothing is under the other path.
FileAt(j, path) ==
    IF path \in {Base, Renamed}
    THEN IF path = PathOf(Base, resolver[j].title) THEN disk[j][Base] ELSE {}
    ELSE disk[j][path]
BasePath(j) == PathOf(Base, rec[j].title)

\* A job holds a slot unless it is Finished or Failed.
HoldsSlot(j) == j \in active /\ rec[j].state \notin Terminal
SlotHolders  == {j \in active : rec[j].state \notin Terminal}

HasRoom == Cap = 0 \/ Cardinality(SlotHolders) < Cap

Started(j, state, path) ==
    [type |-> "started", job |-> j, state |-> state, file |-> path]
Progress(j) ==
    [type |-> "progress", job |-> j, state |-> "Recording", file |-> NoFile]
Finished(j, state, file) ==
    [type |-> "finished", job |-> j, state |-> state, file |-> file]

\* Room in the model's event queue; the code's is unbounded.
EventRoom == Len(events) + 2 <= MaxEvents

\* proc.stop(): SIGINT, then SIGKILL; a process that has exited is left alone.
Stopped(j, S) ==
    [p \in Parts |-> IF p \in S /\ proc[j][p] \in Alive THEN "failed" ELSE proc[j][p]]

\* The parts whose recorder the manager holds in rec.process.
Held(j) == IF j \in active /\ rec[j].process THEN {Part(j)} ELSE {}

-----------------------------------------------------------------------------
Init ==
    /\ running = TRUE
    /\ active = {}
    /\ req = [j \in Jobs |-> NoRequest]
    /\ rec = [j \in Jobs |-> [state |-> "ResolvingUrl", process |-> FALSE,
                              retry_count |-> 0, title |-> "requested"]]
    /\ tail = [j \in Jobs |-> [title |-> "requested", open |-> {Base}, finalized |-> {}]]
    /\ resolver = [j \in Jobs |-> [phase |-> "idle", part |-> Base, title |-> "requested"]]
    /\ proc = [j \in Jobs |-> [p \in Parts |-> "none"]]
    /\ disk = [j \in Jobs |-> [f \in Files |-> {}]]
    /\ finalizer = [j \in Jobs |-> "idle"]
    /\ events = <<>>

-----------------------------------------------------------------------------
(* Commands.  The commands refused by a guard leave no trace in the state. *)

\* Insert the job and spawn its resolver; rec, tail and the rest still hold
\* their initial values for an id not used before.
Insert(j, r) ==
    /\ req[j] = NoRequest
    /\ req' = [req EXCEPT ![j] = r]
    /\ active' = active \cup {j}
    /\ resolver' = [resolver EXCEPT ![j].phase = "working"]
    /\ events' = Append(events, Started(j, "ResolvingUrl", Base))
    /\ UNCHANGED <<running, rec, tail, proc, disk, finalizer>>

\* Mutant: a recording that is (again) resolving is not seen as a duplicate.
StartDespiteResolving(j, r) ==
    /\ running /\ EventRoom
    /\ r.kind \in LiveKinds
    /\ \A k \in active : rec[k].state = "Recording" => req[k].channel # r.channel
    /\ HasRoom
    /\ Insert(j, r)

\* RecordingCommand::Start: one recording per channel, within the cap.
Start(j, r) ==
    /\ running /\ EventRoom
    /\ r.kind \in LiveKinds
    /\ \A k \in active : HoldsSlot(k) => req[k].channel # r.channel
    /\ HasRoom
    /\ Insert(j, r)

\* RecordingCommand::DownloadVod: one download per url, within the cap.
DownloadVod(j, r) ==
    /\ running /\ EventRoom
    /\ r.kind = "vod"
    /\ \A k \in active : HoldsSlot(k) => req[k].url # r.url
    /\ HasRoom
    /\ Insert(j, r)

\* finalize_completion of a recording that ended well: every such recording
\* gets at least the container check, so there is always a task.
StartFinalizer(S) ==
    finalizer' = [j \in Jobs |->
        IF j \in S THEN (IF Part(j) > 1 THEN "merge" ELSE "name") ELSE finalizer[j]]

\* Remove the jobs of S, whatever their state, and stop the recorders and
\* start the finalizing tasks of those of T.
Remove(S, T) ==
    /\ active' = active \ S
    /\ rec' = [j \in Jobs |->
           IF j \in T THEN [rec[j] EXCEPT !.state = "Finished"] ELSE rec[j]]
    /\ proc' = [j \in Jobs |-> IF j \in T THEN Stopped(j, Held(j)) ELSE proc[j]]
    /\ StartFinalizer(T)

\* RecordingCommand::Stop does not look at the state of the job.
Stop(j) ==
    /\ running
    /\ j \in active
    /\ Remove({j}, {j})
    /\ UNCHANGED <<running, req, tail, resolver, disk, events>>

\* RecordingCommand::StopAll forgets failed jobs without finalizing them.
StopAll ==
    /\ running
    /\ Remove(active, SlotHolders)
    /\ UNCHANGED <<running, req, tail, resolver, disk, events>>

\* The daemon's shutdown token: recorders are stopped, nothing is announced.
Cancel ==
    /\ running
    /\ running' = FALSE
    /\ active' = {}
    /\ proc' = [j \in Jobs |-> Stopped(j, Held(j))]
    /\ UNCHANGED <<req, rec, tail, resolver, disk, finalizer, events>>

-----------------------------------------------------------------------------
(* Resolver tasks and their answers.                                       *)

\* The task resolves the url and spawns the recorder.  For a YouTube live
\* from the start the first answer may carry a new title for the file.
ResolverSpawns(j) ==
    /\ resolver[j].phase = "working"
    /\ \E t \in Titles :
         /\ (req[j].kind # "fromStart" \/ resolver[j].part > 1) => t = rec[j].title
         /\ resolver' = [resolver EXCEPT ![j].phase = "spawned", ![j].title = t]
    /\ proc' = [proc EXCEPT ![j][resolver[j].part] = "running"]
    /\ UNCHANGED <<running, active, req, rec, tail, disk, finalizer, events>>

ResolverRefuses(j) ==
    /\ resolver[j].phase = "working"
    /\ resolver' = [resolver EXCEPT ![j].phase = "refused"]
    /\ UNCHANGED <<running, active, req, rec, tail, proc, disk, finalizer, events>>

\* Mutant: the answer brings a stopped job back.
ReceiveForStopped(j) ==
    /\ running /\ EventRoom
    /\ resolver[j].phase = "spawned"
    /\ active' = active \cup {j}
    /\ resolver' = [resolver EXCEPT ![j].phase = "idle"]
    /\ rec' = [rec EXCEPT ![j] = [@ EXCEPT !.state = "Recording", !.process = TRUE]]
    /\ events' = Append(events, Started(j, "Recording", Part(j)))
    /\ UNCHANGED <<running, req, tail, proc, disk, finalizer>>

\* The manager adopts the process and the path it writes; the tail keeps the
\* title it started with.
ReceiveRecorder(j) ==
    /\ running /\ EventRoom
    /\ j \in active
    /\ resolver[j].phase = "spawned"
    /\ resolver' = [resolver EXCEPT ![j].phase = "idle"]
    /\ rec' = [rec EXCEPT ![j] = [@ EXCEPT !.state = "Recording", !.process = TRUE,
                                           !.title = resolver[j].title]]
    /\ events' = Append(events, Started(j, "Recording", PathOf(Part(j), resolver[j].title)))
    /\ UNCHANGED <<running, active, req, tail, proc, disk, finalizer>>

\* A failed job is announced and stays in the map.
ReceiveRefusal(j) ==
    /\ running /\ EventRoom
    /\ j \in active
    /\ resolver[j].phase = "refused"
    /\ resolver' = [resolver EXCEPT ![j].phase = "idle"]
    /\ rec' = [rec EXCEPT ![j].state = "Failed"]
    /\ events' = Append(events, Finished(j, "Failed", NoFile))
    /\ UNCHANGED <<running, active, req, tail, proc, disk, finalizer>>

\* Mutant: dropping an answer kills no recorder.
DropWithoutKill(j) ==
    /\ ~running \/ j \notin active
    /\ resolver[j].phase \in {"spawned", "refused"}
    /\ resolver' = [resolver EXCEPT ![j].phase = "idle"]
    /\ UNCHANGED <<running, active, req, rec, tail, proc, disk, finalizer, events>>

\* Nobody wants the answer any more.  Dropping an FfmpegProcess kills it;
\* YtDlpProcess has no Drop, so a yt-dlp goes on.
DropAnswer(j) ==
    /\ ~running \/ j \notin active
    /\ resolver[j].phase \in {"spawned", "refused"}
    /\ resolver' = [resolver EXCEPT ![j].phase = "idle"]
    /\ proc' = IF resolver[j].phase = "spawned" /\ Tool(req[j]) = "ffmpeg"
               THEN [proc EXCEPT ![j] = Stopped(j, {resolver[j].part})]
               ELSE proc
    /\ UNCHANGED <<running, active, req, rec, tail, disk, finalizer, events>>

-----------------------------------------------------------------------------
(* Recorder processes: they write, freeze and exit on their own.           *)

RecorderWrites(j, p) ==
    /\ proc[j][p] = "running"
    /\ p \notin disk[j][p]
    /\ disk' = [disk EXCEPT ![j][p] = @ \cup {p}]
    /\ UNCHANGED <<running, active, req, rec, tail, resolver, proc, finalizer, events>>

RecorderFreezes(j, p) ==
    /\ proc[j][p] = "running"
    /\ proc' = [proc EXCEPT ![j][p] = "hung"]
    /\ UNCHANGED <<running, active, req, rec, tail, resolver, disk, finalizer, events>>

\* Exit status 0 means that the file is complete; a failing recorder may have
\* written it or not.
RecorderExits(j, p) ==
    /\ proc[j][p] \in Alive
    /\ \/ /\ proc[j][p] = "running"
          /\ proc' = [proc EXCEPT ![j][p] = "ok"]
          /\ disk' = [disk EXCEPT ![j][p] = @ \cup {p}]
       \/ /\ proc' = [proc EXCEPT ![j][p] = "failed"]
          /\ disk' = disk
    /\ UNCHANGED <<running, active, req, rec, tail, resolver, finalizer, events>>

-----------------------------------------------------------------------------
(* One recording's share of the two-second poll tick.  Every visit reports *)
(* the progress before it looks at the process.                            *)

Polled(j) ==
    /\ running /\ EventRoom
    /\ j \in active
    /\ rec[j].state = "Recording"
    /\ rec[j].process

PollAlive(j) ==
    /\ Polled(j)
    /\ proc[j][Part(j)] \in Alive
    /\ events' = Append(events, Progress(j))
    /\ UNCHANGED <<running, active, req, rec, tail, resolver, proc, disk, finalizer>>

\* Mutant: the stall is reported, the recorder left alone.
StallLeftAlone(j) ==
    /\ Polled(j)
    /\ proc[j][Part(j)] = "hung"
    /\ events' = Append(events, Progress(j))
    /\ UNCHANGED <<running, active, req, rec, tail, resolver, proc, disk, finalizer>>

\* No byte for STALL_TIMEOUT_SECS.  What status the process exits with after
\* stop() is the recorder's business.
PollStalled(j) ==
    /\ Polled(j)
    /\ proc[j][Part(j)] = "hung"
    /\ \E status \in {"ok", "failed"} :
         proc' = [proc EXCEPT ![j][Part(j)] = status]
    /\ events' = Append(events, Progress(j))
    /\ UNCHANGED <<running, active, req, rec, tail, resolver, disk, finalizer>>

\* Mutant: "has not failed" is taken for "has succeeded".
SucceededUnlessFailed(j) ==
    /\ Polled(j)
    /\ proc[j][Part(j)] # "failed"
    /\ tail' = [tail EXCEPT ![j].finalized = @ \cup {Part(j)}]
    /\ active' = active \ {j}
    /\ rec' = [rec EXCEPT ![j].state = "Finished"]
    /\ StartFinalizer({j})
    /\ events' = Append(events, Progress(j))
    /\ UNCHANGED <<running, req, resolver, proc, disk>>

\* The tail learns that a part is whole here and nowhere else.
PollSucceeded(j) ==
    /\ Polled(j)
    /\ proc[j][Part(j)] = "ok"
    /\ tail' = [tail EXCEPT ![j] =
           [@ EXCEPT !.open = tail[j].open \ {Part(j)},
                     !.finalized = tail[j].finalized \cup {Part(j)}]]
    /\ active' = active \ {j}
    /\ rec' = [rec EXCEPT ![j].state = "Finished"]
    /\ StartFinalizer({j})
    /\ events' = Append(events, Progress(j))
    /\ UNCHANGED <<running, req, resolver, proc, disk>>

\* Mutants of the gap resume below: when it happens, and for which part.
RetryWith(j, guard, answer) ==
    /\ Polled(j)
    /\ guard
    /\ rec' = [rec EXCEPT ![j] = [@ EXCEPT !.state = "ResolvingUrl", !.process = FALSE,
                                           !.retry_count = rec[j].retry_count + 1]]
    /\ tail' = [tail EXCEPT ![j].open = @ \cup {Part(j) + 1}]
    /\ resolver' = [resolver EXCEPT ![j] = answer]
    /\ events' = Append(events, Progress(j))
    /\ UNCHANGED <<running, active, req, proc, disk, finalizer>>

Working(j, part) == [phase |-> "working", part |-> part, title |-> rec[j].title]
Retriable(j)     == proc[j][Part(j)] = "failed" /\ rec[j].retry_count < MaxRetries

RetrySamePart(j)     == RetryWith(j, Retriable(j), Working(j, Part(j)))
RetryUnresolved(j)   == RetryWith(j, Retriable(j), resolver[j])
RetryBeforeExit(j)   ==
    RetryWith(j, proc[j][Part(j)] # "ok" /\ rec[j].retry_count < MaxRetries,
              Working(j, Part(j) + 1))

\* Gap resume: the next part goes to a file of its own.
PollRetries(j) ==
    /\ Polled(j)
    /\ proc[j][Part(j)] = "failed"
    /\ rec[j].retry_count < MaxRetries
    /\ rec' = [rec EXCEPT ![j] = [@ EXCEPT !.state = "ResolvingUrl", !.process = FALSE,
                                           !.retry_count = rec[j].retry_count + 1]]
    /\ tail' = [tail EXCEPT ![j].open = @ \cup {Part(j) + 1}]
    /\ resolver' = [resolver EXCEPT ![j] = [phase |-> "working", part |-> Part(j) + 1,
                                            title |-> rec[j].title]]
    /\ events' = Append(events, Progress(j))
    /\ UNCHANGED <<running, active, req, proc, disk, finalizer>>

\* Mutant: the end is announced before the last progress.
EndBeforeProgress(j) ==
    /\ Polled(j)
    /\ proc[j][Part(j)] = "failed"
    /\ rec[j].retry_count = MaxRetries
    /\ active' = active \ {j}
    /\ rec' = [rec EXCEPT ![j].state = "Failed"]
    /\ events' = events \o <<Finished(j, "Failed", NoFile), Progress(j)>>
    /\ UNCHANGED <<running, req, tail, resolver, proc, disk, finalizer>>

\* Retries are exhausted: announced at once, nothing is merged.
PollGivesUp(j) ==
    /\ Polled(j)
    /\ proc[j][Part(j)] = "failed"
    /\ rec[j].retry_count = MaxRetries
    /\ active' = active \ {j}
    /\ rec' = [rec EXCEPT ![j].state = "Failed"]
    /\ events' = events \o <<Progress(j), Finished(j, "Failed", NoFile)>>
    /\ UNCHANGED <<running, req, tail, resolver, proc, disk, finalizer>>

-----------------------------------------------------------------------------
(* The finalizing task: merge the parts into the hidden file, rename it    *)
(* onto the base, delete the parts, correct the extension, announce.  A    *)
(* second part comes after an answer, so a merge works under the title the *)
(* parts were written under.                                               *)

FinalizerStep(j, from, to) ==
    /\ finalizer[j] = from
    /\ finalizer' = [finalizer EXCEPT ![j] = to]

\* mkvmerge is run only when every segment is there.
Merge(j) ==
    /\ FinalizerStep(j, "merge", "rename")
    /\ \A p \in Segments(j) : disk[j][p] # {}
    /\ disk' = [disk EXCEPT ![j][Merging] = UNION {disk[j][p] : p \in Segments(j)}]
    /\ UNCHANGED <<running, active, req, rec, tail, resolver, proc, events>>

\* Mutant: the parts are deleted although they were not merged.
MergeFailureIgnored(j) ==
    /\ FinalizerStep(j, "merge", "cleanup")
    /\ UNCHANGED <<running, active, req, rec, tail, resolver, proc, disk, events>>

\* A segment is missing, or mkvmerge fails: the segments stay.
MergeFails(j) ==
    /\ FinalizerStep(j, "merge", "name")
    /\ UNCHANGED <<running, active, req, rec, tail, resolver, proc, disk, events>>

RenameMerged(j) ==
    /\ FinalizerStep(j, "rename", "cleanup")
    /\ disk' = [disk EXCEPT ![j] = [@ EXCEPT ![Base] = disk[j][Merging], ![Merging] = {}]]
    /\ UNCHANGED <<running, active, req, rec, tail, resolver, proc, events>>

\* The merged file is removed, and the recording announced; its parts stay.
RenameMergedFails(j) ==
    /\ EventRoom
    /\ FinalizerStep(j, "rename", "idle")
    /\ disk' = [disk EXCEPT ![j][Merging] = {}]
    /\ events' = Append(events, Finished(j, "Finished", NoFile))
    /\ UNCHANGED <<running, active, req, rec, tail, resolver, proc>>

DeleteParts(j) ==
    /\ FinalizerStep(j, "cleanup", "name")
    /\ disk' = [disk EXCEPT ![j] = [f \in Files |->
                    IF f \in Segments(j) \ {Base} THEN {} ELSE disk[j][f]]]
    /\ UNCHANGED <<running, active, req, rec, tail, resolver, proc, events>>

\* Ad trim and remux work in place; the extension may then have to follow
\* the container, unless the corrected name is taken.  A job stopped before its
\* recorder's answer was taken may have nothing under its path.
CorrectExtension(j) ==
    /\ FinalizerStep(j, "name", "announceCorrected")
    /\ FileAt(j, BasePath(j)) # {} /\ disk[j][Corrected] = {}
    /\ disk' = [disk EXCEPT ![j] = [@ EXCEPT ![Corrected] = disk[j][Base], ![Base] = {}]]
    /\ UNCHANGED <<running, active, req, rec, tail, resolver, proc, events>>

KeepExtension(j) ==
    /\ FinalizerStep(j, "name", "announce")
    /\ UNCHANGED <<running, active, req, rec, tail, resolver, proc, disk, events>>

Announce(j) ==
    /\ EventRoom
    /\ \/ /\ FinalizerStep(j, "announce", "idle")
          /\ events' = Append(events, Finished(j, "Finished", NoFile))
       \/ /\ FinalizerStep(j, "announceCorrected", "idle")
          /\ events' = Append(events, Finished(j, "Finished", Corrected))
    /\ UNCHANGED <<running, active, req, rec, tail, resolver, proc, disk>>

-----------------------------------------------------------------------------
\* The loop that receives event_tx is another task of the daemon.
TakeEvent ==
    /\ events # <<>>
    /\ events' = Tail(events)
    /\ UNCHANGED <<running, active, req, rec, tail, resolver, proc, disk, finalizer>>

Command ==
    \/ \E j \in Jobs, r \in Requests : Start(j, r) \/ DownloadVod(j, r)
    \/ \E j \in Jobs : Stop(j)
    \/ StopAll

Resolver(j) == ResolverSpawns(j) \/ ResolverRefuses(j)

Receive(j) == ReceiveRecorder(j) \/ ReceiveRefusal(j) \/ DropAnswer(j)

Recorder(j, p) == RecorderWrites(j, p) \/ RecorderFreezes(j, p) \/ RecorderExits(j, p)

PollExit(j) == PollSucceeded(j) \/ PollRetries(j) \/ PollGivesUp(j)

Finalizer(j) ==
    \/ Merge(j) \/ MergeFails(j) \/ RenameMerged(j) \/ RenameMergedFails(j)
    \/ DeleteParts(j) \/ CorrectExtension(j) \/ KeepExtension(j) \/ Announce(j)

ManagerNext ==
    \/ Command \/ Cancel
    \/ \E j \in Jobs :
         \/ Resolver(j) \/ Receive(j)
         \/ PollAlive(j) \/ PollStalled(j) \/ PollExit(j)
         \/ Finalizer(j)
         \/ \E p \in Parts : Recorder(j, p)

Next == ManagerNext \/ TakeEvent

Spec == Init /\ [][Next]_vars

(***************************************************************************)
(* Fairness.  The loop, the finalizing tasks and the daemon loop are       *)
(* scheduled by tokio; the poll tick fires every two seconds.  EventRoom   *)
(* is a guard of the model alone, so what it delays is strongly fair.      *)
(* Resolvers run external tools: WF says that streamlink and yt-dlp answer,*)
(* which the code does not enforce with a timeout.                         *)
(***************************************************************************)
LoopFairness(j) ==
    /\ SF_vars(Receive(j))
    /\ SF_vars(PollExit(j))
    /\ SF_vars(PollStalled(j))
    /\ SF_vars(Finalizer(j))

FairSpec ==
    /\ Spec
    /\ WF_vars(TakeEvent)
    /\ \A j \in Jobs : LoopFairness(j) /\ WF_vars(Resolver(j))

-----------------------------------------------------------------------------
(* Safety.                                                                 *)

\* Admission holds the cap on every path: Start, DownloadVod, and across the
\* gap resumes, during which a job keeps its slot.
SlotsWithinCap == Cap > 0 => Cardinality(SlotHolders) <= Cap

\* A channel is captured by one recording at a time, and a url downloaded by
\* one, whatever order Start, DownloadVod, retries and stops come in.
OnePerTarget ==
    \A j, k \in SlotHolders : j # k =>
        /\ req[j].kind # "vod" /\ req[k].kind # "vod" => req[j].channel # req[k].channel
        /\ req[j].kind = "vod" /\ req[k].kind = "vod" => req[j].url # req[k].url

\* A recording that waits in ResolvingUrl is waited for: its task runs or its
\* answer is queued, for the very part that comes next.  Without this the
\* recording would keep its slot for ever.
ResolvingIsAnswered ==
    \A j \in active : rec[j].state = "ResolvingUrl" =>
        resolver[j].phase # "idle" /\ resolver[j].part = Part(j)

\* Two recorders never write for the same job, and none is being spawned
\* beside one: a resume starts only after the last recorder has exited, and
\* no late answer of a stopped job joins a new one.
OneRecorderPerJob ==
    \A j \in Jobs :
        /\ \A p, q \in Parts : proc[j][p] \in Alive /\ proc[j][q] \in Alive => p = q
        /\ resolver[j].phase = "working" => \A p \in Parts : proc[j][p] \notin Alive

\* A part the tail calls finalized has no writer: a live clip cut from it
\* never reads a file that still grows.
FinalizedPartsAreWhole ==
    \A j \in Jobs : \A p \in tail[j].finalized : proc[j][p] \notin Alive

\* Nothing follows the end of a recording but a second end (a Stop of a
\* failed one): no progress or start reaches the clients after it.
NothingAfterTheEnd ==
    \A a, b \in DOMAIN events :
        a < b /\ events[a].type = "finished" /\ events[a].job = events[b].job
            => events[b].type = "finished"

\* An ffmpeg always has an owner that will stop or reap it: the manager, or
\* an answer the manager has yet to take or to drop.
FfmpegIsOwned ==
    \A j \in Jobs, p \in Parts :
        proc[j][p] \in Alive /\ Tool(req[j]) = "ffmpeg" =>
            \/ p \in Held(j)
            \/ resolver[j].phase = "spawned" /\ resolver[j].part = p

\* No step loses captured media: merging, renaming and deleting parts, with
\* every failure on the way, leave each part's bytes in some file.
Media(j) == UNION {disk[j][f] : f \in Files}
MediaIsKept == [][\A j \in Jobs : Media(j) \subseteq Media(j)']_vars

-----------------------------------------------------------------------------
(* Liveness.                                                               *)

\* A frozen recorder is stopped by the stall check, unless the manager has
\* been told to shut down first.
Frozen(j) == j \in active /\ rec[j].process /\ proc[j][Part(j)] = "hung"
StallsEnd == \A j \in Jobs : Frozen(j) ~> ~Frozen(j)

\* A recorder's exit is acted upon: the recording resumes with another
\* part, or it is announced as ended.
Ended(j) == \E i \in DOMAIN events : events[i].type = "finished" /\ events[i].job = j
ExitsAreHandled ==
    \A j \in Jobs :
        (j \in active /\ rec[j].process /\ proc[j][Part(j)] \in {"ok", "failed"})
            ~> (Ended(j) \/ resolver[j].phase = "working" \/ ~running)

-----------------------------------------------------------------------------
\* The slots of RecorderSlots: a job is new until it is inserted, and over
\* once it is Failed or no longer in the map.
SlotPhase ==
    [j \in Jobs |-> IF req[j] = NoRequest THEN "new"
                    ELSE IF j \in SlotHolders THEN "holding" ELSE "over"]

Slots == INSTANCE RecorderSlots WITH phase <- SlotPhase

\* The manager implements the slot discipline.
SlotsSpec == Slots!Spec
=============================================================================
