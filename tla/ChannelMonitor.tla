--------------------------- MODULE ChannelMonitor ---------------------------
(***************************************************************************)
(* The channel monitor (src/src/monitor): one task that polls a platform,   *)
(* turns what it sees into went-live and went-offline events, starts the    *)
(* captures of channels on auto-record, and enqueues the downloads of new   *)
(* uploads.                                                                 *)
(*                                                                          *)
(* A poll of the platform ends in one of four ways: skipped (no session),   *)
(* failed (the channel list could not be fetched), unchecked (the list came *)
(* but the live check failed) and checked.  What the poll did is told to    *)
(* the clients as one ChannelsUpdated list.                                 *)
(*                                                                          *)
(* Left out: past broadcasts, which the watcher tells from uploads by the   *)
(* captures in the journal; videos withdrawn from a platform; channels that *)
(* are followed or unfollowed while the daemon runs.                        *)
(***************************************************************************)
EXTENDS Naturals, FiniteSets

CONSTANTS
    Channels,   \* the followed channels of the platform
    MaxVideo,   \* bound: videos a channel publishes, numbered as published
    PageSize    \* videos a fetch returns at most, the newest first

ASSUME MonitorAssumption == MaxVideo \in Nat /\ PageSize \in Nat \ {0}

VARIABLES
    live, session, recordOn, uploadsOn,  \* the world: who is live, is there a
                                         \* platform session, the two opt-ins
    published, listed,                   \* videos out, videos the platform lists
    up, polled,     \* the daemon runs; its monitor is past its first poll
    prevLive, autoRecorded, cached,      \* prev_live, auto_recorded, last_channels
    enqueued, mark,                      \* enqueued_uploads, upload_watermarks
    unsaved,        \* the poll is about to write upload_watermarks.json
    savedMark,      \* upload_watermarks.json
    job,            \* video -> its download job, as the journal shows it
    told, shown, sends                   \* who clients were last told is live, the
                                         \* last list, downloads sent in this run

worldVars == <<live, session, recordOn, uploadsOn, published, listed>>
edgeVars  == <<prevLive, autoRecorded, cached, told, shown>>
watchVars == <<enqueued, mark, unsaved, savedMark, sends>>
vars == <<worldVars, up, polled, edgeVars, watchVars, job>>

Videos == Channels \X (1 .. MaxVideo)
NoMark == MaxVideo + 1          \* no watermark: the next check is the first
Flags == [live : BOOLEAN, rec : BOOLEAN, up : BOOLEAN]

TypeOK ==
    /\ live \subseteq Channels /\ session \in BOOLEAN
    /\ recordOn \subseteq Channels /\ uploadsOn \subseteq Channels
    /\ published \in [Channels -> 0 .. MaxVideo]
    /\ listed \subseteq Videos
    /\ up \in BOOLEAN /\ polled \in BOOLEAN
    /\ prevLive \subseteq Channels /\ autoRecorded \subseteq Channels
    /\ told \subseteq Channels
    /\ DOMAIN cached \subseteq Channels /\ cached \in [DOMAIN cached -> Flags]
    /\ DOMAIN shown \subseteq Channels /\ shown \in [DOMAIN shown -> Flags]
    /\ enqueued \subseteq Videos
    /\ mark \in [Channels -> 0 .. NoMark] /\ savedMark \in [Channels -> 0 .. NoMark]
    /\ unsaved \in BOOLEAN
    /\ job \in [Videos -> {"none", "sent", "running", "ended"}]
    /\ sends \in [Videos -> Nat]

Nobody == [c \in {} |-> 0]

Init ==
    /\ live = {} /\ session = FALSE /\ recordOn = {} /\ uploadsOn = {}
    /\ published = [c \in Channels |-> 0] /\ listed = {}
    /\ up = TRUE /\ polled = FALSE
    /\ prevLive = {} /\ autoRecorded = {} /\ cached = Nobody
    /\ told = {} /\ shown = Nobody
    /\ enqueued = {} /\ mark = [c \in Channels |-> NoMark] /\ unsaved = FALSE
    /\ savedMark = mark
    /\ job = [v \in Videos |-> "none"] /\ sends = [v \in Videos |-> 0]

-----------------------------------------------------------------------------
(* The world.  A session ends when new application credentials are saved;     *)
(* videos need not be listed in the order they were published.                *)
StreamChanges(c) ==
    /\ live' = IF c \in live THEN live \ {c} ELSE live \union {c}
    /\ UNCHANGED <<session, recordOn, uploadsOn, published, listed>>

SessionChanges ==
    /\ session' = ~session
    /\ UNCHANGED <<live, recordOn, uploadsOn, published, listed>>

ToggleRecord(c) ==
    /\ recordOn' = IF c \in recordOn THEN recordOn \ {c} ELSE recordOn \union {c}
    /\ UNCHANGED <<live, session, uploadsOn, published, listed>>

ToggleUploads(c) ==
    /\ uploadsOn' = IF c \in uploadsOn THEN uploadsOn \ {c} ELSE uploadsOn \union {c}
    /\ UNCHANGED <<live, session, recordOn, published, listed>>

Publish(c) ==
    /\ published[c] < MaxVideo
    /\ published' = [published EXCEPT ![c] = @ + 1]
    /\ UNCHANGED <<live, session, recordOn, uploadsOn, listed>>

List(c, v) ==
    /\ v <= published[c]
    /\ <<c, v>> \notin listed
    /\ listed' = listed \union {<<c, v>>}
    /\ UNCHANGED <<live, session, recordOn, uploadsOn, published>>

World ==
    /\ \/ SessionChanges
       \/ \E c \in Channels : \/ StreamChanges(c) \/ ToggleRecord(c) \/ ToggleUploads(c)
                              \/ Publish(c)
                              \/ \E v \in 1 .. MaxVideo : List(c, v)
    /\ UNCHANGED <<up, polled, edgeVars, watchVars, job>>

-----------------------------------------------------------------------------
(* The list a poll works on.  The opt-ins come from the configuration, read   *)
(* afresh; a platform that fails shows what it showed before, opt-ins as they *)
(* were then; one without a session shows nothing.                            *)
Outcomes == {"skipped", "failed", "unchecked", "checked"}

Possible(outcome) == outcome = "skipped" <=> ~session

ListOf(outcome) ==
    CASE outcome = "skipped" -> Nobody
      [] outcome = "failed"  -> cached
      [] OTHER -> [c \in Channels |->
                     [live |-> outcome = "checked" /\ c \in live,
                      rec |-> c \in recordOn, up |-> c \in uploadsOn]]

\* Mutant: a list whose live check failed is not compared.
ComparedIfChecked(outcome) == IF outcome = "checked" THEN Channels ELSE {}

\* Edges are looked for in a list that was fetched, not in a cached one.
Compared(outcome) == IF outcome = "failed" THEN {} ELSE DOMAIN ListOf(outcome)

SeenIn(list) == {c \in DOMAIN list : list[c].live}
SeenLive(outcome) == SeenIn(ListOf(outcome))
WentLive(outcome)    == Compared(outcome) \cap (SeenLive(outcome) \ prevLive)
WentOffline(outcome) == Compared(outcome) \cap (prevLive \ SeenLive(outcome))

\* Mutant: a channel keeps its mark when it goes offline.
MarkedForGood(fired, gone) == autoRecorded \union fired

\* auto_recorded: set when a start is sent, removed on the went-offline edge.
Marked(fired, gone) == (autoRecorded \union fired) \ gone

(* Phase 2 of a poll: edges, events and starts.  gated are the channels that  *)
(* the cutoff, the limit on recordings or the disk budget keeps from starting.*)
Transitions(outcome, gated) ==
    LET list == ListOf(outcome)
        went == WentLive(outcome)
        gone == WentOffline(outcome)
        fired == {c \in went \ gated : list[c].rec /\ c \notin autoRecorded}
    IN  /\ prevLive' = (prevLive \union went) \ gone
        /\ autoRecorded' = Marked(fired, gone)
        /\ told' = (told \union went) \ gone
        /\ cached' = list
        /\ shown' = list

-----------------------------------------------------------------------------
(* The upload check: on its own timer, or forced by PollNow.                  *)
OptedIn(list) == {c \in DOMAIN list : list[c].up \/ list[c].rec}

\* Watermarks of channels that are not opted in on the list are forgotten.
Kept(list) == [c \in Channels |-> IF c \in OptedIn(list) THEN mark[c] ELSE NoMark]

\* fetch_channel_vods: what is newer than the watermark, one page of it.
Fetched(c) ==
    LET newer == {v \in 1 .. MaxVideo : <<c, v>> \in listed /\ (mark[c] = NoMark \/ v > mark[c])}
    IN  {v \in newer : Cardinality({w \in newer : w > v}) < PageSize}

\* The first check picks nothing (select_new_uploads).
Picked(c) == IF mark[c] = NoMark THEN {} ELSE {<<c, v>> : v \in Fetched(c)}

\* Mutant: only the first check sets the watermark.
FirstMarkOnly(c) ==
    IF mark[c] # NoMark THEN mark[c]
    ELSE IF Fetched(c) = {} THEN published[c]
    ELSE CHOOSE v \in Fetched(c) : \A w \in Fetched(c) : w <= v

\* The newest video seen; on a first check that saw none, now.
NextMark(c) ==
    IF Fetched(c) # {} THEN CHOOSE v \in Fetched(c) : \A w \in Fetched(c) : w <= v
    ELSE IF mark[c] = NoMark THEN published[c]
    ELSE mark[c]

(* fetched: the opted-in channels whose fetch succeeded; undecided: videos    *)
(* whose lookup in the catalogue failed; expired: entries of enqueued_uploads *)
(* past their half hour.                                                      *)
CheckUploads(list, fetched, undecided, expired) ==
    IF OptedIn(list) = {}
    THEN /\ mark' = Kept(list)
         /\ unsaved' = (mark' # mark)
         /\ UNCHANGED <<enqueued, sends, job>>
    ELSE LET waiting == {v \in enqueued \ expired : job[v] # "ended"}
             sent == {v \in UNION {Picked(c) : c \in fetched} :
                        job[v] # "running" /\ v \notin waiting \union undecided}
         IN  /\ mark' = [c \in Channels |-> IF c \in fetched THEN NextMark(c)
                                            ELSE Kept(list)[c]]
             /\ unsaved' = (mark' # mark)
             /\ enqueued' = waiting \union sent
             /\ sends' = [v \in Videos |-> IF v \in sent THEN sends[v] + 1 ELSE sends[v]]
             /\ job' = [v \in Videos |-> IF v \in sent THEN "sent" ELSE job[v]]

(* The first poll waits until there is a session.                             *)
Poll(outcome) ==
    /\ up /\ ~unsaved
    /\ Possible(outcome)
    /\ polled \/ session
    /\ polled' = TRUE
    /\ \E gated \in SUBSET WentLive(outcome) : Transitions(outcome, gated)
    /\ \/ UNCHANGED <<enqueued, mark, unsaved, sends, job>>
       \/ \E fetched \in SUBSET OptedIn(ListOf(outcome)), undecided \in SUBSET Videos,
             expired \in SUBSET enqueued :
            CheckUploads(ListOf(outcome), fetched, undecided, expired)
    /\ UNCHANGED <<worldVars, up, savedMark>>

(* The end of check_uploads; a write that fails is logged.                    *)
SaveMarks(written) ==
    /\ up /\ unsaved
    /\ unsaved' = FALSE
    /\ savedMark' = IF written THEN mark ELSE savedMark
    /\ UNCHANGED <<worldVars, up, polled, edgeVars, enqueued, mark, sends, job>>

-----------------------------------------------------------------------------
(* The recording manager and the journal, as far as the watcher sees them.    *)
JobRuns(v) ==
    /\ up /\ job[v] = "sent"
    /\ job' = [job EXCEPT ![v] = "running"]
    /\ UNCHANGED <<worldVars, up, polled, edgeVars, watchVars>>

JobEnds(v) ==
    /\ up /\ job[v] \in {"sent", "running"}
    /\ job' = [job EXCEPT ![v] = "ended"]
    /\ UNCHANGED <<worldVars, up, polled, edgeVars, watchVars>>

(* The daemon dies: commands on their way are lost with its memory.           *)
Crash ==
    /\ up
    /\ up' = FALSE
    /\ job' = [v \in Videos |-> IF job[v] = "sent" THEN "none" ELSE job[v]]
    /\ session' = FALSE
    /\ UNCHANGED <<live, recordOn, uploadsOn, published, listed, polled, edgeVars, watchVars>>

(* A new monitor knows the saved watermarks and nothing else; the journal's   *)
(* running rows are marked interrupted, which reads as failed.                *)
Restart ==
    /\ ~up
    /\ up' = TRUE /\ polled' = FALSE
    /\ prevLive' = {} /\ autoRecorded' = {} /\ told' = {}
    /\ cached' = Nobody /\ shown' = Nobody
    /\ mark' = savedMark /\ enqueued' = {} /\ unsaved' = FALSE
    /\ sends' = [v \in Videos |-> 0]
    /\ job' = [v \in Videos |-> IF job[v] = "running" THEN "ended" ELSE job[v]]
    /\ UNCHANGED <<worldVars, savedMark>>

Next ==
    \/ World
    \/ \E outcome \in Outcomes : Poll(outcome)
    \/ \E written \in BOOLEAN : SaveMarks(written)
    \/ \E v \in Videos : JobRuns(v) \/ JobEnds(v)
    \/ Crash
    \/ Restart

Spec == Init /\ [][Next]_vars

-----------------------------------------------------------------------------
(* A client that follows the went-live and went-offline events and one that   *)
(* reads the ChannelsUpdated lists agree on who is live, whichever polls      *)
(* failed in between (poll_all, phase 2).                                     *)
EventsMatchTheList == SeenIn(shown) = told \cap DOMAIN shown

(* The mark that keeps a capture from being started twice lasts no longer than *)
(* the session it was set in, so it never keeps the next session from being   *)
(* recorded: whatever polls fail, a marked channel is one that clients were   *)
(* last told is live (auto_recorded, poll_all).                               *)
AutoRecordRearms == autoRecorded \subseteq told

(* In one run of the daemon no upload is enqueued twice, however close the    *)
(* forced checks come, however late its job reaches the journal, and through  *)
(* opt-outs and lost sessions that make the watcher start over                *)
(* (check_uploads).                                                           *)
UploadsOnce == \A v \in Videos : sends[v] <= 1

(* "Forget watermarks of channels that are no longer opted in" (check_uploads):*)
(* a watermark goes only when the configuration opts its channel out.         *)
MarksOfOptedInStay ==
    [][\A c \in Channels :
         (up /\ up' /\ mark[c] # NoMark /\ c \in recordOn \union uploadsOn) => mark'[c] # NoMark]_vars
=============================================================================
