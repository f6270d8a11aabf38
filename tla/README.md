# StriVo: a TLA+ verification project

StriVo is a self-hosted PVR for live streams: a daemon that watches channels,
records the broadcasts its user asks for and keeps a library of them, and a
workspace in which recordings are cut, reviewed and published. This directory
holds TLA+ models of its core, the TLC configurations that check them on small
instances, and theorems about them that TLAPS proves for every value of the
constants. Paths below are relative to the repository root
(`src/recording/mod.rs`); in PROJECT.json they carry one more `src/` in front.
`mod.rs` alone is the recording manager's.

## 1. Inventory

| Part | State it keeps | Operations | What makes it correct |
| --- | --- | --- | --- |
| Recording manager (`src/recording/mod.rs`, `run_manager`) | the map `active` of recordings, one `ActiveRecording` each; the resolver channel `resolve_rx` | commands Start, DownloadVod, Stop, StopAll; a resolver's answer; the two-second poll; shutdown | the cap and the one-recording-per-target rule hold on every path; a gap resume is answered; no recorder is left without an owner |
| Finalization (`finalize_completion`, `segments.rs`, `container.rs`) | a spawned task per finished recording, the media files | merge, rename, delete the parts, correct the extension, announce | no captured byte is lost by any failure on the way; the announced path is the file's |
| Recorder processes (`ffmpeg.rs`, `ytdlp.rs`) | a child process and its output file | start, poll, stop, drop | a dropped process does not go on recording |
| Live-clip tail (`live_clip.rs`) | the open and finalized parts of a running recording | open, finalize, plan a clip | a finalized part is whole |
| Daemon loop (`src/daemon.rs`, `src/events.rs`) | `DaemonState` (recordings, channels, ...), the client list | apply an event, journal it, broadcast it, serve a client | clients see what the manager does, in order |
| Jobs journal (`persist.rs`) | SQLite rows of recordings, bulk pulls, uploads | upsert, recover after a crash, load, prune | only rows of gone media are pruned, and never one of work in flight |
| Client fan-out and IPC (`src/daemon.rs`, `src/ipc.rs`, the web's `ipc_client.rs`) | a broadcast ring, a forwarder, a bounded write queue and a writer per connection | accept, snapshot, forward, overflow, close | a stream continues its snapshot; who misses an event is disconnected |
| Pipeline engine (`src/pipeline/`) | pipelines of stages, resource locks, a durable store | submit, dispatch, complete, retry, cancel, recover | inputs before outputs, at most one run of a stage, every pipeline ends |
| Monitor and upload watcher (`src/monitor/`) | live state per channel, auto-record marks, upload watermarks and a dedupe set | poll, auto-record decision, upload check | events agree with the list; one start per broadcast; no upload twice |
| Creator, rights and publication (`crates/research/src/creator/`) | source notes, release packages, postings | record a note, edit, approve, supersede, advance | what leaves is what was reviewed and cleared |
| Creator, durable jobs (`jobs.rs`, `store_jobs.rs`) | job rows with a state and an attempt counter | submit, start, complete, fail, retry, cancel, skip, recover | every move is in the transition table; one unsettled job per identity of inputs |
| Creator, import (`import.rs`) | source rows | hash, look up, submit a job, insert, complete | a rerun gives nothing a second identity; a finished import has registered its inputs |
| Creator, workspace row (`store_workspace.rs`, the web's `routes/workspace.rs`) | one row per project: revision, views, draft | open, select, PUT, autosave, discard | the unsaved flag tells the truth |
| Creator, edit history (`store_history.rs`, `crates/editor/src/history.rs`) | an append-only table of entries | record, undo, redo, branch, snapshot | the entries stay a forest; a restore is verbatim |
| Creator, other stores | sources, transcripts, compositions, render plans, dossiers | insert, read | rows inserted once |
| Schedule manager (`schedule.rs`) | scheduled recordings and their timers | start, stop at the end time | a scheduled recording stops |
| VOD backfill, bulk pull, catalog (`vod_backfill.rs`, `bulk.rs`, `catalog.rs`) | a task per finished stream or channel | wait, dedupe, DownloadVod, cancel | no loops, one pull per channel |
| Stream resolver, platform clients, playback, search, webhook, tools, config | caches and HTTP state | external programs and requests | I/O with no protocol of their own |
| Licence client (`src/licence/`) | a cached entitlement | verify, refresh, offline grace | an expired entitlement is not honoured |
| Web server, plugins, analysis crates, editor timeline, command line (`crates/`) | front ends and libraries | many | HTTP, formatting and pure functions over media |

How they interact. Clients and the monitor, scheduler and backfill tasks send
`RecordingCommand`s over a channel to `run_manager`. The manager spawns one
resolver task per (re)start, which spawns the recorder and sends it back. Every
two seconds the manager polls its recorders. When a recording is over it spawns
a finalizing task. Manager and finalizing tasks send `DaemonEvent`s to the
daemon loop, which applies them to `DaemonState`, spawns a task that writes the
journal, and broadcasts them; one forwarder per connection copies the broadcast
into that connection's write queue. Pruning runs every minute. The web server is
a client of the daemon and, for the Creator workspace, of SQLite stores that
every request opens anew: the requests share nothing but the tables.

The hard behaviours are: a stop or shutdown while a resolver is spawning a
recorder; gap resumes, during which a recording has a slot but no process;
finalization failing half way; events and journal writes applied in another
order than they were made; the daemon's death with work in flight; a client
slower than its queue; a poll of a platform that fails in one of several ways;
and, in the Creator, calls that decide on rows they read in one transaction and
write in another.
PROJECT.json lists the hazards at their lines, with the properties that cover
them or the reason why none does. It keeps the forty that matter most; section 4
has the rest.

## 2. Modules

| Module | Models | Built on |
| --- | --- | --- |
| `RecorderSlots` | abstract: who holds one of `Cap` recorder slots | - |
| `RecordingManager` | the manager loop, its resolver tasks, recorder processes and finalizing tasks | implements `RecorderSlots` |
| `RecordingJournal` | the manager composed with the daemon loop, the journal writes, pruning, death and restart | extends `RecordingManager` |
| `ClientFanout` | connections of the daemon: forwarder, write queue, writer, read loop, stream and probe clients | - |
| `ChannelMonitor` | the poll of a platform, auto-record, the upload watcher, death and restart | - |
| `JobLifecycle` | abstract: the states of a job and the moves between them (`jobs.rs`) | - |
| `PipelineEngine` | the pipeline registry, the dispatcher, its executor tasks, resource locks, backoff timers and clients | its stages implement `JobLifecycle` |
| `CreatorJobs` | the durable jobs' table | implements `JobLifecycle` |
| `Import` | importing files over durable jobs | extends `CreatorJobs` |
| `SourceRights` | the gate: three axes of a note and eligibility on a day | - |
| `Publication` | packages, postings and the calls of several connections on them | extends `SourceRights` |
| `ProjectWorkspace` | the workspace row | - |
| `EditorHistory` | the edit history, beside the workspace row | extends `ProjectWorkspace` |
| `...Proofs` | theorems about the module of that name: `RecordingManager`, `RecordingJournal`, `PipelineEngine`, `ClientFanout`, `ChannelMonitor`, `EditorHistory`, `Import`, `Publication` | each extends it; `RecordingJournalProofs` also extends `RecordingManagerProofs` |
| `MC...` | instances for TLC | |

### RecordingManager

| Variable | In the code |
| --- | --- |
| `running` | the loop's cancellation token is not cancelled |
| `active` | the keys of the `active` map |
| `req[j]` | what the `RecordingJob` was created for: kind, channel, `source_url` |
| `rec[j]` | the `ActiveRecording`: state, whether it holds a process, `retry_count`, the title its path is built on. `segments` and the part number are functions of `retry_count` (`Segments`, `Part`) |
| `tail[j]` | the `LiveCapture`: open and finalized parts, the title it was created with |
| `resolver[j]` | the resolver task of j, or the answer it left in `resolve_rx`. There is never more than one: `ResolvingIsAnswered` and the inductive invariant say so |
| `proc[j][p]` | the recorder that writes part p |
| `disk[j][f]` | which parts' media file f of job j contains |
| `finalizer[j]` | the next step of the finalizing task |
| `events` | `event_tx`, what the daemon loop has yet to take |

Each arm of the `select!` is an action: `Start`, `DownloadVod`, `Stop`,
`StopAll`, `Cancel` (shutdown), `ReceiveRecorder`, `ReceiveRefusal`,
`DropAnswer` and one `Poll...` action for each outcome of a poll. A poll tick
visits all recordings; the visits touch disjoint state and send their events
one after another, so a tick is the composition of their steps. `stop()` waits
inside the loop, so a stop is one step of the loop. The resolver tasks
(`ResolverSpawns`, `ResolverRefuses`), the recorders (`Recorder...`) and the
finalizing tasks (`Merge` to `Announce`) interleave with the loop freely.
Recorders are external: they write, freeze and exit whenever they like.

A from-start download is spawned under the path with the title yt-dlp resolved
(`resolver[j].title`), which the job learns of with the answer; a title other than
the requested one makes another path of the first part (`PathOf`), and what is at a
path depends on the title the recorder was spawned with (`FileAt`). So a recording
stopped before its answer has a path at which there is nothing.

Abstracted: titles are "requested" or "resolved" and paths are (job, part)
pairs, two of them for the first part; media is the set of parts it contains;
refusals of a command, thumbnails, ad trim and remux in place, sizes, durations
and the Twitch rewind cache are left out. File names are not shared between jobs.

### RecordingJournal

Adds `known` (`DaemonState.recordings`), `journal` (rows), `writes` (the spawned
`persist_event` tasks that have not run), the pruning task (`pruning`, `keep`),
`pruned` (the `RecordingsPruned` event) and `up`. `ApplyEvent` is the manager's
`TakeEvent` joined with `DaemonState::apply` and the spawn of the write, as in
the loop. `DaemonDies` clears all memory; files, rows and recorder processes
stay. `DaemonStarts` runs `recover_orphaned_running`, the startup pruning and
`load_recording_jobs`. Recorders go on while the daemon is down.
A dead daemon's in-flight SQLite writes are lost, as the calls not yet made are.

### PipelineEngine

| Variable | In the code |
| --- | --- |
| `pipe[p]`, `stage[p][s]`, `attempts[p][s]` | the `PipelineRegistry`, and `pipelines.json`, which each method rewrites before it unlocks |
| `tasks` | what `dispatch_ready` has spawned or is about to ("launching"): phase, permits held, and the clone of the stage's cancellation token |
| `timers[s]` | the sleeping tasks of `finish_failure` |
| `ready` | the rest of the dispatcher's ready list |
| `wake` | the permit of the `Notify` |

Each registry method is one step, for it runs under one mutex. What happens
between two methods is not: the dispatcher reads the ready list in one step
(`ReadReady`), marks each stage in another (`Mark`) and then starts its task
(`Spawn`) or gives up (`NoExecutor`); a task drops its permits
(`ExecutorReturns`) before it reports (`Complete`, `Fail`). Clients `Submit`,
`Cancel` and `Retry` in between. `Owners` is the lookup of a stage by its id in
a hash map of pipelines: any pipeline that has the id may be found. `Restart`
is death and `PipelineRegistry::open` in one: nothing else happens between
them. Real time is left out: an acquisition may time out whenever the lock is
taken, a backoff may end at once.

`requires` is a sequence, as in the code: a task acquires every entry in the
order of the locks' text, a repeated entry as often as it is declared
(`NextEntry`, `held` is a set of entries).

Abstracted: capacities are those of the first request, the ready list is a set
(no stage in it waits for another), and a killed daemon's own subprocesses are
taken to end with it.

### ClientFanout

An event is its number; `version` counts the events applied, and a snapshot is
the number of the last event it includes. Per connection: `phase`, the snapshot
captured at the accept, the receiver's `cursor` in the broadcast ring, whether
the forwarder and the writer run, `overflowed` (`conn_cancel`), the write
`queue`, the messages in the socket (`wire`), the progress of `Hello` and what
the client has read (`taken`). `Accept`, `AnswerHello`, `Forward`, `Lag`,
`Overflow`, `ForwarderEnds`, `Write`, `WriteFails`, `ReadEnds` and `ReadFails`
are the branches of the three tasks; a stream client reads on (`events` of
`ipc_client.rs`), a probe leaves after its first message (`fetch_snapshot` of
`ipc.rs`). `lagged` is a history variable: the receiver skipped events.

### ChannelMonitor

The world is chosen freely: who is live, whether there is a session, the two
opt-ins, what is published and what of it the platform lists, in any order. A
poll is skipped, failed, unchecked or checked, and `Poll(outcome)` is one action
that moves `prevLive`, `autoRecorded`, `cached` and the messages together, as
the function does without a wait in between. The upload check is part of the
poll; writing `upload_watermarks.json` is a step of its own (`SaveMarks`), since
the commands have been sent by then. `job` is what the journal shows of a
video's download; it changes when the row arrives, later than the command.
Videos are numbered as published, and the watermark, a time in the code, is the
number of the newest one seen.

### CreatorJobs and Import

Every operation of `store_jobs.rs` is one IMMEDIATE transaction and therefore
one action, guarded by the table and by the unique index on the identity of the
inputs. `Import` runs requests over it: `Plan` is the hashing and the lookup,
then submit, run, one insert per missing source, complete. `Stop` ends a request
between any two writes and leaves its job as it is; the job may then be failed,
retried, cancelled or recovered. `overlapped` is a history variable: a request
was planned while another was under way.

### SourceRights and Publication

A note has three axes and a day its consent ends; `Cleared` is `eligibility` on
a day. The fourteen states and their `Successors` are `publication.rs`. Every
call opens a connection, reads the rows it needs, decides, and writes in a
transaction that repeats none of the reads (`store_publication.rs`), so a call
is two actions and the calls of several connections interleave. History
variables: `reviewed` (what a person approved), `strayed` (postings that have
been failed, unauthorised or unknown), `gated` (the posting and content for
which `ReadAdvance` ran the gate on the way from a local to a remote state and
got a clearance) and `raced` (a commit wrote over rows that no longer say what
it read: an edit of a package that has been locked, an approval of another
content, an advance from a state the posting left or with another stamp).
`raced` does not look at the gate. The event log, titles and formats are left
out.

### ProjectWorkspace and EditorHistory

One row; every store function is one statement. `PUT /workspace` is
`ReadView` and `WriteView`, a read of the view state and a write of all of it. A
history verb is called with a time (`Call`), plans on what it read later
(`Decide`), and inserts later still (`CommitEntry`), or its call fails. Entries are
listed by `(created_at, history_id)`, and `created_at` is the time of the call; the
model names an entry by its place in that order, which is neither the order of the
reads nor that of the inserts. A call gets any free place: callers draw their times
before the verb reads, equal times are ordered by a random id, and clocks step
back. The tables
keep a project's history apart from the workspace row, so the two only share
the project here, as they do in the code.

Some modules define, next to a definition, a variant marked "Mutant": the same
definition with a plausible slip in it. PROJECT.json names for every property of
a run a variant that makes TLC find it violated.

## 3. Runs

| Run | Instance | Shows |
| --- | --- | --- |
| `lifecycle` | one job, capture, from-start or VOD, cap 1, two gap resumes, 3 events, `FairSpec` | the manager and finalization: answers, one recorder per job, whole parts, order of events, owned ffmpeg, media kept; stalls and exits are dealt with |
| `slots` | two jobs, a capture channel and a VOD url, cap 1, one resume, symmetry | the manager implements `RecorderSlots` |
| `targets` | two jobs, one capture channel, one VOD url, no cap, one resume, symmetry | no target twice, also while a recording resolves again after a gap |
| `view` | one job, capture or from-start, one resume, 3 events, daemon and journal | clients follow the manager, ends are final, pruning spares work, and follows the file where no resume and no lost answer leaves a stale path |
| `engine` | a run of two parallel stages and one that needs both, a run of one stage, opposite lock orders, a third lock with two permits that two stages declare twice, two attempts for one stage; a third graph with dangling inputs, which is refused; `FairSpec` | lock exclusion, drained executors included; no circular wait but through a repeated lock; a worker for every running stage; inputs before outputs; Done is complete; Failed can be retried; no lost wake-up; no resurrection; stages follow `JobLifecycle`; every run ends |
| `fanout` | one stream client, one probe, one connection at a time, ring 2, queue 2, socket 1, three events, `FairSpec` | a stream goes on where its snapshot ends, in order and without a gap; a forwarder that stops ends the connection |
| `monitor` | one channel, two videos, one video per fetch | lists and events agree, marks lapse, no upload twice |
| `publish` | one package of two contents, one posting, two connections, one edit, a note that is missing or a consent that ends on day 0 of two | what is stamped was reviewed, what is live can be found, the approved content is carried, a provider has what went through the gate |
| `import` | two jobs, two requests, two contents, three identities, two attempts | jobs follow their table and count right, a done import is complete, a rerun is idempotent |
| `edit` | two editors, four places in the listing, one PUT session, two revisions, one draft, one view, symmetry | every chain ends, restores are verbatim, the unsaved flag tells the truth |
| `handshake` | one stream client, two events | violation of `FirstMessageIsTheSnapshot` |
| `forget` | one channel, one video | violation of `MarksOfOptedInStay` |

Type correctness of `RecordingManager`, `RecordingJournal`, `PipelineEngine`,
`ClientFanout`, `Import`, `Publication` and `EditorHistory` is a theorem
(section 5); the runs spend their time on the other properties.

Why the bounds are enough.

- Manager and journal. `MaxRetries` is 3 in the code; with 2 a resume follows a
  resume, and give-up and success happen after each count. A job id is used
  once, so one job meets every path of its own life; two are needed where
  recordings compete (cap, target) and no rule relates three. The cap compares a
  count with a bound, which 1 exercises on both sides. `MaxEvents` bounds the
  queue: the code's is unbounded, and properties of the order of events look at
  two of them, three leave room for one in between. `EventRoom` is a guard of the
  model only. The symmetry of job ids is used in safety runs only.
- Engine. The first stage has two attempts, so it meets backoff, retry and
  exhaustion, and the others, with one, exhaust next to it; three attempts
  repeat the second. Two locks with one permit each, taken by two stages, are
  the smallest case of a circular wait, and a lock with two permits that two
  stages declare twice the smallest in which each has one and waits for the
  other's. No two runs of the instance share a stage id, so `RunningHasAWorker`
  and `RunsEnd` are checked without their exception; with shared ids they rest
  on the theorems (`RunsEnd` on `RunsHaveAFuture`). `MaxTimers` and `MaxTasks`
  bound what an impatient user can pile up.
- Fan-out. With a ring and a queue of two an event can be first, last and beyond;
  three events overflow either. Two clients compete for the one connection.
- Monitor. Channels do not interact, so one is enough; a fetch of one video
  out of two is a page that hides an older video.
- Publication. An edit, an approval and an advance overlap pairwise over two
  connections; the second content is what an edit changes to, and one content
  needs a source that the other does not. The clearance goes by lapsing; a note
  refused after it is the same to the gate.
- Import and history. Two requests, or two editors, are what it takes to
  overlap; three identities let one content be given a second one; four places
  make edit, undo, undo of the undo and redo.

`CHECK_DEADLOCK` is off: ids run out and the systems may rest.

Fairness (`RecordingManager!FairSpec`). tokio schedules the loop, the finalizing
tasks and the daemon loop; the poll ticks every two seconds. An action that
`EventRoom` may disable again and again is given strong fairness, since in the
code nothing disables it. Weak fairness of the resolvers says that streamlink
and yt-dlp answer: the code sets them no timeout (listed as a hazard).
Recorders, users and clients get no fairness.

Fairness (`PipelineEngine!FairSpec`). tokio runs dispatcher, tasks and timers.
A wait for a lock ends with the permit or the ten-minute timeout. That an
executor returns is assumed; the plugins bound their subprocesses. `RunsEnd`
assumes that restarts stop, and excuses the retry of a stage that was in backoff
when the daemon died (section 4).

Fairness (`ClientFanout!FairSpec`). A forwarder with an event to consume is
polled, and so is a read loop whose token is cancelled. Clients, and the writer,
which waits for them, get none: nothing makes a client read.

## 4. Where the code does not do what it says

Two statements have a run of their own and a finding in PROJECT.json.

- `handshake`. The daemon subscribes a connection to the broadcast when it
  accepts it and queues the snapshot when it has read `Hello`; an event in
  between is forwarded first. "First message is the StateSnapshot"
  (`crates/strivo-web/src/ipc_client.rs:108`): the web takes
  that event for the snapshot and discards it, and `fetch_snapshot`
  (`src/ipc.rs:284`) returns it as the snapshot.
- `forget`. `check_uploads` forgets the watermark of every channel missing from
  this poll's list, and a poll without a session has an empty list. The comment
  has it for "channels that are no longer opted in" (`monitor/mod.rs:580`).
  Uploads published until the next check are never downloaded.

What follows was met while modelling. It is behaviour of the models, which the
properties are stated around, or of code left out; it has no run.

Recording.

- An answer for a stopped recording is dropped. `FfmpegProcess` kills its child
  on drop, `YtDlpProcess` does not: the yt-dlp runs on outside the cap
  (`FfmpegIsOwned` is about ffmpeg).
- Two kinds of rows are pruned while their media is on disk, although
  `daemon.rs:981` speaks of confirmed deletions (`PruningFollowsTheFile` leaves out
  these two and no other). After a gap resume the journal names the last part, which
  the merge deletes. A from-start download stopped before its answer is taken keeps
  the path of the requested title, and yt-dlp goes on under the resolved one
  (`mod.rs:661-674`, `987`).
- Journal writes are independent tasks: a start's may be applied after the
  end's, and the next start marks an ended recording interrupted.
- A stop during a gap resume leaves a last segment nobody wrote, for which the
  merge is refused (`mod.rs:1097`); a from-start capture renamed at its first
  answer keeps its old base path in the live-clip tail (`mod.rs:992`); a failed
  rename removes the merged file and then announces it as preserved
  (`mod.rs:341`, `345`); a part whose recorder failed is never finalized in the
  tail, although `mod.rs:230` says a part is finalized when its recorder exits
  (`1072`).
- A stall stop may hold the manager loop for ten seconds (`mod.rs:1256`), and
  the finished event of a backfill's own download starts another backfill
  (`daemon.rs:1293`).
- Schedules (`schedule.rs`): the stop time is in memory only; back-to-back
  windows of one channel can miss the second; a start may come sixty seconds
  early; `channel_name` is used as `channel_id`.
- `ClientMessage::DeleteRecording` says that active recordings are rejected; the
  handler (`daemon.rs:1662-1721`) does not look.

Pipelines.

- A stage in backoff when the daemon dies stays Failed; its pipeline stays active
  and blocks equivalent ones.
- Failures are looked up by stage id in all pipelines (`executor.rs:670`), and a
  re-run of an authored graph shares its ids with the first run
  (`runtime.rs:637-642`). A failure may be recorded in neither, and the new stage
  stays Running without a task, although `runtime.rs:214-215` has it recorded; and
  the late failure of a cancelled task may fail the re-run's stage, although
  `runtime.rs:180-182` says late results are discarded. `RunningHasAWorker`
  excepts stages that share an id with another run.
- `validate` accepts a stage that declares a lock twice. It may wait for a permit
  that it has itself, or two such stages for each other, until the timeout of ten
  minutes; `NoLockDeadlock` excepts exactly this wait.
- A stale ready list reopens a cancelled pipeline after a retry, and a cancelled
  task's result is taken for the new attempt of its stage, which may then be
  worked on twice.
- A retry reopens a run beside an equivalent active one.
- A stage retried in a cancelled pipeline waits there for ever
  (`executor.rs:583`).

Clients.

- A receiver that lags skips events with a warning, and its client is not told:
  of a lagged stream only the order holds, not that it has no gap or that every
  event is sent.
- A read error leaves `handle_client` by `?` without ending the forwarder and
  the writer, which go on until a write fails.
- The web's cached snapshot may be refilled by a request that read the daemon
  before the event that invalidated it (`crates/strivo-web/src/server.rs:154-177`).

Monitor.

- Auto-record fires on the edge from offline to live: a start that a gate or the
  manager refused is not tried again while the channel stays live. The gate on
  concurrent recordings counts journal rows in a state that is never written
  (`monitor/mod.rs:824`). A failed live check reads as everybody offline.
- The watermark passes uploads whose lookup failed and uploads the platform
  lists after a newer one. A crash between sending a download and the first row
  of its job loses the upload. A channel opted out and in again between two
  checks keeps its old watermark.

Publication.

- A posting that is failed, unauthorised or unknown does not lock its package,
  so the package can be edited and a retry then carries another content than the
  one the posting was authorised with; `publication.rs:28-33` says a scheduled
  package cannot be edited at all. `CarriesWhatWasApproved` is about postings
  that never strayed.
- The gate is asked only on the way from a local to a remote state
  (`store_publication.rs:473`), and `needs_reauthorization` counts as remote: on
  rendering, failed, needs_reauthorization, uploading the step that uploads is not
  gated, whatever became of the note, although `publication.rs:42-44` promises the
  gate "at every transition that hands bytes to a provider".
  `ProviderHasWhatWasCleared` says what is left: no posting is remote without a
  clearance on its way there.
- `is_final` counts `cancelled`, from which `removed` can still be reached. The
  stamp's comment names draft to needs_review; the code stamps at approved.
- Two connections: a commit does not repeat its reads, so a call that was
  overtaken may carry out what it could no longer decide (`raced`).

Import.

- An import that stopped leaves its job running. A rerun whose inputs are the
  same as an unsettled job's is refused by the unique index, and nothing but the
  tests calls `recover_jobs`; `import.rs:272-275` promises a rerun deduplicates.
- Two imports of the same files that overlap both insert them.

History and workspace.

- Two saves on one base are both accepted, since a verb plans and inserts in two
  transactions; the Conflict error's comment (`creator/history.rs:81-85`) says
  the second is refused.
- The listing is ordered by the times of the calls, not of the commits
  (`store_history.rs:42`, against the comment at 37-38). An entry inserted last may
  be listed before its parent, and the tip stays the other entry.
- An undo of an undo changes nothing (both are children of one parent), and the
  redo after it restores the first undo's state (`editor/src/history.rs:231`); a
  second redo in a row reports Diverged.
- `acknowledge_draft` discards whatever draft there is, a newer one included;
  `select_revision` keeps a draft of the revision that was open before.
- `PUT /workspace` writes back all it read: an autosave in between is undone by
  a PUT that named no draft, against the comment at `routes/workspace.rs:231-232`.
- The history verbs, `recover_jobs`, `fail_job`, `retry_job` and `make_current`
  have no callers but tests at this commit.

## 5. Proofs

Every theorem holds for all values of the constants that satisfy the named
assumptions of the module (`ConstantsAssumption`, `NoRequestAssumption`,
`JournalAssumption`, `PipelineAssumption`, `FanoutAssumption`, `MonitorAssumption`,
`NothingAssumption`, `MaxPlaceAssumption`, `JobsAssumption`, `ImportAssumption`,
`RightsAssumption`, `PublicationAssumption`, `OffersAssumption`). They type the
constants and keep the null values apart; TLC evaluates them in every run.

`RecordingManagerProofs`:

- `TypeIsCorrect`: `Spec => []TypeOK`, one step per action.
- `InvariantHolds`: `Spec => []IInv`, which is `Core` and `FfmpegIsOwned`. The
  properties below are not inductive by themselves. For instance
  `OneRecorderPerJob` depends on a resolver never spawning beside a live
  recorder, which depends on the part it spawns being the one the recording is on
  (`AnswersFitTheirJob`), on a retry happening only after an exit
  (`ActiveIsConsistent`), on older parts having no live recorder
  (`NewestPartIsWritten`), and on unused ids being blank (`UnusedIsBlank`).
  After a shutdown nothing is active (`CancelledIsEmpty`), and a finalized part
  belongs to a recording that has left the map (`FinalizedIsOver`).
- from `Core`: `AnswersCome`, `RecorderIsAlone` and `FinalizedIsWhole`; from
  `IInv`: `FfmpegHasAnOwner`.
- `SlotsAreAttended`: whoever holds a slot has an answer on the way, or is polled
  and has a process the poll can judge (`AttendedInv`). It is the safety that the
  liveness of `ExitsAreHandled` and `StallsEnd` rests on: no slot is lost to a
  recording that no action will ever move.
- `CapHolds` and `TargetsAreExclusive`: admission is the only step that adds a
  slot holder (`OthersTakeNone`), and it checks both conditions
  (`AdmissionTakesASlot`).
- `ManagerImplementsSlots`: the manager's initial states map to those of
  `RecorderSlots` under `SlotPhase`, and each step to an `Admit`, a `Release` or
  a stutter.
- `EndsComeLast`: `EndInv` says that an end is in the queue only for a recording
  that is over, that only another end of it may stand behind an end, and that
  what is being finalized is over. `MapInv` is the part of `Core` it needs.
- `CapturedMediaIsKept`: `MediaInv` gives, for each step of the finalizing task,
  the file that holds all parts: the hidden file before the base is overwritten,
  the base before parts are deleted. A part's own file never holds anything but
  that part, so a yt-dlp that still writes cannot bring back what was deleted.

`RecordingJournalProofs` composes the manager with the daemon. `FfmpegIsOwned`
does not survive `DaemonDies`: the recorders of a dead daemon run on and nobody
owns them. All the rest of the manager's invariants does (`CoreSurvives`,
`AttendedSurvives`), beside `MapInv`, `EndInv` and the new conjuncts
(`DaemonIsConsistent`), because no job is taken up again by a later daemon.
`ListingIsTrue` relates listing, queue and work: what is listed as over is over
and no event in the queue says otherwise; what holds a slot is listed or its
start is queued; what is listed as going on is at work or its end is queued.
`EventsAreTrue` and `RowsAreTrue` say that the events and rows of a well-ended
recording are only of one that nothing works on any more. From them
`ListingFollowsTheManager`, `TheEndIsFinal` and `WorkIsSpared`, for queues of
any length. `PrunedIsGone` proves `PruningFollowsTheFile`, for recordings
without a gap whose answer, with the title they are written under, was taken.
Which path was told is `NameInv` (`NamesHold`), of recordings without a gap:
only a started event tells a path of the first part, none tells the requested
title's after the resolved one's, and whoever has taken the resolved title has
told it, or will have (`UpToDate`). With it, `PathInv`: the corrected name is
taken only when the finalizing task says so, and what a user emptied while
nothing worked on it stays empty (`NamedInOrder`); a path that the listing, a
row, a write under way or a queued event has is one of the recording's two
names, the corrected one only if the media is there or was deleted there
(`FileFits`), and a row or event of a good end under the first name excludes
media under the second (`RowFits`, `EventFits`). The step lemma `PathsGoOn`
reduces each action to the recordings it touches.

From the same invariants, deaths and restarts of the daemon at any point
included:

- `RecordersOutliveSafely`: no second recorder joins one that outlived its daemon
  for the same recording, no finalized part grows, whoever resolves is answered.
- `AdmissionSurvivesRestarts`: cap, exclusive targets and attended slots. The cap
  counts the recordings of the running daemon; recorders left over by an earlier
  one hold no slot, so more than `Cap` processes may write.
- `EndsComeLastInEachRun`: `NothingAfterTheEnd` in the queue of every daemon.
- `CrashesLoseNoMedia`: `MediaIsKept` for the daemon, where only `UserDeletes`
  takes bytes away. `MediaInv` allows for it the hidden file that a death between
  merge and rename leaves behind: that recording is never merged again
  (`MayMerge`).
- `FinishedMeansComplete`: what clients or the journal call Finished has left the
  manager, and its finalization is over. Rows may be written in any order and
  late, so a row need not be recent; a row that says finished is true all the same.

`PipelineEngineProofs` (no assumption on stage ids: re-runs share them):

- `EngineIsTyped` and, from the invariant `LocksInv`, `LocksExclude` and
  `NoLocksInACircle`. Type correctness needs the semaphores' invariant too: the
  next lock of a task that waits is a lock only because such a task misses one.
  A task's permits do not come after its next lock in rank (`TakenInOrder`), and are
  of the same lock only where its stage declares that lock twice; of a set of
  waiting tasks, one whose next lock has the fewest locks above it waits for a task
  outside the set or for more of a lock it has, so no maximum over ranks is needed.
- `RegistryIsConsistent`: the invariant `RegistryInv` of the pipelines' and
  their stages' states and of the dispatcher's list. `Ready` takes skipped
  inputs for settled, and `recompute_pipeline` skipped and cancelled stages;
  both are harmless only because a skipped stage stands beside an exhausted one
  and whatever is pending beside that has run before, and because a cancelled
  stage stands beside none that is unsettled (`Consistent`). A stale list stays
  right because done stages stay done (`Keeps`). From it follow
  `InputsComeFirst`, `DoneMeansDone`, `FailedMeansRetryable` and
  `CancelledStaysCancelled`.
- `WakeupsReachTheDispatcher`: `NoWakeupIsLost` is not inductive, for
  `mark_stage_running` makes any pipeline Running, a cancelled one that was
  retried included; `WakeInv` says that such a pipeline is not on the list
  unless a wake-up is under way.
- `RunningIsWorkedOn`, of stages whose id no other run in the registry has
  (`Shared`), however many others share theirs: `WorkerInv` ties each such running
  stage to a task whose token is not cancelled. A stage that is shared stays so
  (`SharedStays`), since no run leaves the registry (old
  runs are evicted in the code, which is left out).
- `RunsHaveAFuture` is the safety half of `RunsEnd`: an active run has a stage
  that is worked on (or is Running under a shared id), one that waits for a
  retry, or one that is ready and is on the dispatcher's list or was announced
  to it. A run that is active has something unsettled (`GoingInv`, which
  `recompute_pipeline` keeps); if none of it runs or has failed, the stage that
  waits for no other pending one is ready, since the graph has no cycle and
  nothing pending stands on a cancelled or exhausted input (`Consistent`); and
  `WakeInv` says that the dispatcher knows of it.
- `StagesImplementTheLifecycle`: the engine's stages, and not only the Creator's
  jobs, are a refinement of `JobLifecycle`.

`ClientFanoutProofs`: `FanoutInv` says of each connection that its stream, from
what the client read to what is queued, has the events in order between snapshot
and cursor (`Rising`), without a gap until the receiver lags (`Gapless`), and all
of them as long as forwarder and writer run (`HoldsTo`). A message that moves from
queue to socket to client leaves the stream as it is (`HeadMovesAfter`), a failed
write or a cut connection takes its end off (`Cut`), which keeps its order. From
it `FanoutIsTyped`, `StreamsAreContinuous`, and `OpenConnectionsAreServed`, the
safety half of `EventsAreSentOrTheConnectionEnds`: an open connection whose client
is there and whose queue did not overflow has both tasks and was sent all its
receiver consumed, unless it lagged.

`ChannelMonitorProofs`: `EdgesAgree` (the monitor compares with what it last
told, shows what it cached, and marks only what it told is live) gives
`EventsAndListsAgree` and `MarksLapse`; `Watched` gives `NoUploadIsSentTwice`.
Its argument is that the watermark alone carries the property: neither the
dedupe set nor the journal's rows are needed, which is why late rows and expired
entries do no harm.

`EditorHistoryProofs`: `WorkspaceInv` for `FlagFollowsDraft`; `HistoryInv` for
`ChainsEnd` and `UndoAndRedoAreExact`: entries and plans alike name entries that
exist, and no set of entries names only itself (`NoCircle`). The second is what
is left without an order: a new entry is named by none before it, so a circle
through it would need a set closed before (`NoCircleSurvives`). That the walk to
the root ends is thereby stated without recursion, and for any times of the
calls. The tip is the last entry because there is one (`HasLast`, a conjunct
that each verb keeps, so no maximum of a set has to be found).
`HistoryOnlyGrows`: no verb, failed commits included, changes or removes an
entry.

`ImportProofs`: `JobsInv` for `CountersMatch`; `OwnsItsJob` (a request's job is
keyed by the identities it planned) for `DoneImportsAreComplete`; `AloneInv` (at
most one request is under way, and the sources of a content it plans carry the
identity it planned) for `ImportsAreRepeatable`; and
`JobsImplementTheLifecycle`.

`PublicationProofs`: `Vouched` (a fingerprint in an approval, in a stamp or in a
call under way was reviewed) for `OnlyReviewedIsStamped`; `Findable` and
`Published` for `LiveIsFound`; `Frozen` (until a commit is overtaken, a posting
before approval has no stamp and a locked package has its content) for
`TheApprovedIsCarried`; and `Gated` for `TheProviderHasTheCleared`: what is
remote, or what a call under way is about to make remote, has a clearance, and
that of the stamped content where the bytes are, or go, to the provider. A state
with the bytes is entered only from another one, from `ready`, which is local
and therefore gated, or by a detour (`EdgesIntoTheProvider`); and `Frozen` ties
content and stamp together.

Only model-checked: liveness (`StallsEnd`, `ExitsAreHandled`, `RunsEnd`,
`EventsAreSentOrTheConnectionEnds`), which with ENABLED is outside what the
prover handles. The safety each of them rests on is proved: `SlotsAreAttended`,
`RunsHaveAFuture`, `OpenConnectionsAreServed`.

## 6. Not modelled, and the plan

The parts that PROJECT.json lists as `not_modelled`, with the reason there:
schedules, VOD backfill, bulk pull and catalog; resolver, platform clients,
plugins, licence client; media, file, search, webhook and configuration helpers;
the web server's routes but for the event relay and PUT /workspace; the
Creator's other stores; the editor's timeline and rendering; the command line.
Most of the repository's lines are of this kind: routes and pages that render a
store's rows, command lines for external tools, and pure functions over media
and text. The models cover the parts that keep state over several steps and
several actors, which are a small share of the lines.

Within the modelled parts: file-name collisions between jobs, real time (the
stall and stop timeouts are events), failing SQLite calls of the journal,
eviction of old terminal jobs, the IPC commands other than Hello, past
broadcasts in the upload watcher, job artifacts.

Next, in this order:

1. VOD backfill, bulk pull and schedule over the manager's command interface.
2. The licence client: cached entitlement, grace, reconnect.
3. Job artifacts (`validate_artifact`, `make_current`).
