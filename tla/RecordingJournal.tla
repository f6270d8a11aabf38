-------------------------- MODULE RecordingJournal --------------------------
(***************************************************************************)
(* The recording manager composed with what the daemon does with its       *)
(* events (src/src/daemon.rs): DaemonState::apply, one task per event that *)
(* writes the jobs journal (persist_event, recording/persist.rs), the      *)
(* task that prunes the journal every minute, and the daemon's death and   *)
(* restart.                                                                *)
(*                                                                         *)
(* The daemon loop takes one event at a time, but the writes it spawns run *)
(* as independent tasks over a pool of connections, in any order.          *)
(*                                                                         *)
(* Left out: failing SQLite calls, which are logged and dropped; the       *)
(* eviction of terminal jobs beyond 200; the copy of `recordings` that     *)
(* routes read; files found by the startup scan, which get ids of their    *)
(* own.                                                                    *)
(***************************************************************************)
EXTENDS RecordingManager

CONSTANTS
    NoJob,   \* a job the daemon does not list
    NoRow    \* a job without a journal row

VARIABLES
    up,       \* the daemon process runs
    known,    \* DaemonState.recordings
    journal,  \* the rows of jobs.db
    writes,   \* the persist_event tasks still to run
    keep,     \* ids the pruning task has read as in flight, while it runs
    pruning,  \* the pruning task is between its snapshot and its deletion
    pruned    \* RecordingsPruned ids the loop has yet to take

daemonVars  == <<up, known, journal, writes, keep, pruning, pruned>>
journalVars == <<vars, daemonVars>>

\* output_path is always one of the recording's own names.
KnownJobs == [state : RecordingStates, file : Paths \ {Merging}]
Rows      == [state : {"running", "finished", "failed", "interrupted"},
              file : Paths \ {Merging}]
Writes    == [job : Jobs, row : Rows]

\* What stands for "none" is neither a listed job nor a row.
ASSUME JournalAssumption == NoJob \notin KnownJobs /\ NoRow \notin Rows

\* The one type invariant of the daemon's part of the state.
JTypeOK ==
    /\ TypeOK
    /\ up \in BOOLEAN
    /\ known \in [Jobs -> KnownJobs \cup {NoJob}]
    /\ journal \in [Jobs -> Rows \cup {NoRow}]
    /\ writes \subseteq Writes
    /\ keep \subseteq Jobs
    /\ pruning \in BOOLEAN
    /\ pruned \subseteq Jobs

JInit ==
    /\ Init
    /\ up = TRUE
    /\ known = [j \in Jobs |-> NoJob]
    /\ journal = [j \in Jobs |-> NoRow]
    /\ writes = {}
    /\ keep = {}
    /\ pruning = FALSE
    /\ pruned = {}

-----------------------------------------------------------------------------
(* The daemon loop.  Each event is applied, then a task is spawned that    *)
(* writes the journal from a clone of the event and of `recordings`.       *)

JournalState(s) == IF s = "Finished" THEN "finished" ELSE "failed"

ApplyStarted(e) ==
    /\ e.type = "started"
    /\ known' = [known EXCEPT ![e.job] = [state |-> e.state, file |-> e.file]]
    /\ writes' = writes \cup
           {[job |-> e.job, row |-> [state |-> "running", file |-> e.file]]}

ApplyProgress(e) ==
    /\ e.type = "progress"
    /\ known' = IF known[e.job] = NoJob THEN known
                ELSE [known EXCEPT ![e.job].state = "Recording"]
    /\ writes' = writes

\* Mutant: a corrected path does not reach the listing.
FinishUnderOldPath(e) ==
    /\ e.type = "finished"
    /\ IF known[e.job] = NoJob
       THEN UNCHANGED <<known, writes>>
       ELSE LET file == known[e.job].file
            IN  /\ known' = [known EXCEPT ![e.job] = [state |-> e.state, file |-> file]]
                /\ writes' = writes \cup
                       {[job |-> e.job,
                         row |-> [state |-> JournalState(e.state), file |-> file]]}

\* A job the daemon does not list is neither updated nor journalled.
ApplyFinished(e) ==
    /\ e.type = "finished"
    /\ IF known[e.job] = NoJob
       THEN UNCHANGED <<known, writes>>
       ELSE LET file == IF e.file = NoFile THEN known[e.job].file ELSE e.file
            IN  /\ known' = [known EXCEPT ![e.job] = [state |-> e.state, file |-> file]]
                /\ writes' = writes \cup
                       {[job |-> e.job,
                         row |-> [state |-> JournalState(e.state), file |-> file]]}

ApplyEvent ==
    /\ up
    /\ TakeEvent
    /\ LET e == Head(events) IN ApplyStarted(e) \/ ApplyProgress(e) \/ ApplyFinished(e)
    /\ UNCHANGED <<up, journal, keep, pruning, pruned>>

ApplyPruned ==
    /\ up
    /\ pruned # {}
    /\ known' = [j \in Jobs |-> IF j \in pruned THEN NoJob ELSE known[j]]
    /\ pruned' = {}
    /\ UNCHANGED <<vars, up, journal, writes, keep, pruning>>

\* upsert_job
Persist(w) ==
    /\ up
    /\ w \in writes
    /\ journal' = [journal EXCEPT ![w.job] = w.row]
    /\ writes' = writes \ {w}
    /\ UNCHANGED <<vars, up, known, keep, pruning, pruned>>

-----------------------------------------------------------------------------
(* The pruning task: it reads which recordings are in flight, then deletes *)
(* the finished rows of the others whose file is gone.                     *)

PruneSnapshot ==
    /\ up /\ ~pruning
    /\ pruning' = TRUE
    /\ keep' = {j \in Jobs : known[j] # NoJob /\ known[j].state \notin Terminal}
    /\ UNCHANGED <<vars, up, known, journal, writes, pruned>>

FileMissing(j) == FileAt(j, journal[j].file) = {}

\* Mutant: rows of every state are pruned.
PrunableInAnyState(kept) == {j \in Jobs \ kept : journal[j] # NoRow /\ FileMissing(j)}

\* prune_missing_recordings: only finished rows have a final file to miss.
Prunable(kept) ==
    {j \in Jobs \ kept : /\ journal[j] # NoRow
                         /\ journal[j].state = "finished"
                         /\ FileMissing(j)}

Prune ==
    /\ up /\ pruning
    /\ pruning' = FALSE
    /\ keep' = {}
    /\ journal' = [j \in Jobs |-> IF j \in Prunable(keep) THEN NoRow ELSE journal[j]]
    /\ pruned' = pruned \cup Prunable(keep)
    /\ UNCHANGED <<vars, up, known, writes>>

\* The user removes, behind the daemon's back, the files of a recording that
\* nothing works on any more.
UserDeletes(j) ==
    /\ Media(j) # {}
    /\ j \notin active /\ finalizer[j] = "idle" /\ resolver[j].phase = "idle"
    /\ \A p \in Parts : proc[j][p] \notin Alive
    /\ disk' = [disk EXCEPT ![j] = [f \in Files |-> {}]]
    /\ UNCHANGED <<running, active, req, rec, tail, resolver, proc, finalizer, events,
                   daemonVars>>

-----------------------------------------------------------------------------
(* The daemon dies, or ends after a shutdown.  Memory goes, files, journal *)
(* and the recorder processes stay.                                        *)

DaemonDies ==
    /\ up
    /\ up' = FALSE
    /\ running' = FALSE
    /\ active' = {}
    /\ resolver' = [j \in Jobs |-> [resolver[j] EXCEPT !.phase = "idle"]]
    /\ finalizer' = [j \in Jobs |-> "idle"]
    /\ events' = <<>>
    /\ known' = [j \in Jobs |-> NoJob]
    /\ writes' = {}
    /\ keep' = {}
    /\ pruning' = FALSE
    /\ pruned' = {}
    /\ UNCHANGED <<req, rec, tail, proc, disk, journal>>

\* Mutant: a restart leaves the rows of the last run alone.
NotRecovered(row) == row

\* recover_orphaned_running
Recovered(row) ==
    IF row # NoRow /\ row.state = "running" THEN [row EXCEPT !.state = "interrupted"] ELSE row

\* load_recording_jobs, with map_journal_state
Loaded(row) ==
    IF row = NoRow THEN NoJob
    ELSE [state |-> CASE row.state = "finished" -> "Finished"
                      [] row.state = "running" -> "Recording"
                      [] OTHER -> "Failed",
          file |-> row.file]

DaemonStarts ==
    /\ ~up
    /\ up' = TRUE
    /\ running' = TRUE
    /\ LET rows == [j \in Jobs |-> IF j \in Prunable({}) THEN NoRow
                                   ELSE Recovered(journal[j])]
       IN  /\ journal' = rows
           /\ known' = [j \in Jobs |-> Loaded(rows[j])]
    /\ UNCHANGED <<active, req, rec, tail, resolver, proc, disk, finalizer, events,
                   writes, keep, pruning, pruned>>

-----------------------------------------------------------------------------
JNext ==
    \/ /\ up
       /\ ManagerNext
       /\ UNCHANGED daemonVars
    \/ \E j \in Jobs, p \in Parts : ~up /\ Recorder(j, p) /\ UNCHANGED daemonVars
    \/ ApplyEvent \/ ApplyPruned
    \/ \E w \in writes : Persist(w)
    \/ PruneSnapshot \/ Prune
    \/ \E j \in Jobs : UserDeletes(j)
    \/ DaemonDies \/ DaemonStarts

JSpec == JInit /\ [][JNext]_journalVars

-----------------------------------------------------------------------------
(* Properties.                                                             *)

\* The clients' picture follows the manager: once no event is under way,
\* a recording holds a slot only if it is listed as going on, and is
\* listed as going on only if it holds a slot or is being finalized, gap
\* resumes, stops and restarts included.
ListedAsGoingOn(j) == known[j] # NoJob /\ known[j].state \notin Terminal
ClientsSeeTheManager ==
    up /\ running /\ events = <<>> =>
        \A j \in Jobs :
            /\ HoldsSlot(j) => ListedAsGoingOn(j)
            /\ ListedAsGoingOn(j) => HoldsSlot(j) \/ finalizer[j] # "idle"

\* A recording the clients saw end is never shown as going on again, by a
\* progress event or a start that was still under way when it ended.
EndIsFinal ==
    [][\A j \in Jobs :
         known[j] # NoJob /\ known[j].state \in Terminal => ~ListedAsGoingOn(j)']_journalVars

\* Pruning never takes the row of a recording that is active or being
\* finalized, however old the snapshot of the ids to keep is.
PruningSparesWork ==
    [][\A j \in Jobs :
         journal[j] # NoRow /\ journal'[j] = NoRow
             => j \notin active /\ finalizer[j] = "idle"]_journalVars

\* A pruned recording is gone, under whatever name it has once it is
\* finalized: the title yt-dlp resolved and what `new_path` corrects both reach
\* the journal, in whatever order starts and ends are written.  Two cases are
\* left out, in which rows are pruned beside their media.  After a gap resume the
\* row names the last part, which the merge deletes.  A from-start download that
\* was stopped before its answer was taken is written under the title yt-dlp
\* resolved, and its row has the path without it.
Gone(j) == disk[j][Base] = {} /\ disk[j][Corrected] = {}
PruningFollowsTheFile ==
    [][\A j \in Jobs :
         (/\ journal[j] # NoRow /\ journal'[j] = NoRow
          /\ rec[j].retry_count = 0 /\ resolver[j].title = rec[j].title)
             => Gone(j)]_journalVars

=============================================================================
