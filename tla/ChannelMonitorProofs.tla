------------------------ MODULE ChannelMonitorProofs ------------------------
(***************************************************************************)
(* Theorems about ChannelMonitor, for every set of channels, every number  *)
(* of videos and every page size.                                          *)
(***************************************************************************)
EXTENDS ChannelMonitor, FiniteSetTheorems, WellFoundedInduction, TLAPS

USE MonitorAssumption

-----------------------------------------------------------------------------
(* Who is live.                                                            *)

\* The monitor compares with what it last told, shows what it cached, and
\* marks only channels it told are live.
EdgesAgree ==
    /\ prevLive = told
    /\ cached = shown
    /\ EventsMatchTheList
    /\ AutoRecordRearms

\* A poll that ends in any way keeps the events and the lists together.
LEMMA TransitionsAgree ==
    ASSUME EdgesAgree, NEW outcome \in Outcomes,
           NEW gated \in SUBSET WentLive(outcome), Transitions(outcome, gated)
    PROVE  EdgesAgree'
<1> DEFINE list == ListOf(outcome)
           went == WentLive(outcome)
           gone == WentOffline(outcome)
<1>1. prevLive' = (prevLive \union went) \ gone /\ told' = (told \union went) \ gone
  BY DEF Transitions
<1>2. cached' = list /\ shown' = list
  BY DEF Transitions
<1>3. autoRecorded' \subseteq (autoRecorded \union went) \ gone
  BY DEF Transitions, Marked
<1>4. SeenIn(list) = told' \cap DOMAIN list
  <2>1. CASE outcome = "failed"
    <3>1. went = {} /\ gone = {}
      BY <2>1 DEF WentLive, WentOffline, Compared
    <3>2. list = shown
      BY <2>1 DEF ListOf, EdgesAgree
    <3> QED BY <1>1, <3>1, <3>2 DEF EdgesAgree, EventsMatchTheList
  <2>2. CASE outcome # "failed"
    <3>1. Compared(outcome) = DOMAIN list
      BY <2>2 DEF Compared
    <3>2. SeenIn(list) \subseteq DOMAIN list /\ SeenLive(outcome) = SeenIn(list)
      BY DEF SeenIn, SeenLive
    <3> HIDE DEF list
    <3>3. /\ went = DOMAIN list \cap (SeenIn(list) \ told)
          /\ gone = DOMAIN list \cap (told \ SeenIn(list))
      BY <3>1, <3>2 DEF WentLive, WentOffline, EdgesAgree
    <3> QED BY <1>1, <3>2, <3>3
  <2> QED BY <2>1, <2>2
<1>5. SeenIn(shown)' = told' \cap DOMAIN shown'
  BY <1>2, <1>4 DEF SeenIn
<1> HIDE DEF list, went, gone
<1> QED BY <1>1, <1>2, <1>3, <1>5 DEF EdgesAgree, EventsMatchTheList, AutoRecordRearms

\* Only a poll and a restart change what the monitor knows of who is live.
LEMMA EdgesStayAgreed ==
    ASSUME EdgesAgree, [Next]_vars
    PROVE  EdgesAgree'
<1>1. CASE UNCHANGED edgeVars
  BY <1>1 DEF EdgesAgree, EventsMatchTheList, AutoRecordRearms, SeenIn, edgeVars
<1>2. ASSUME NEW outcome \in Outcomes, Poll(outcome) PROVE EdgesAgree'
  <2>1. PICK gated \in SUBSET WentLive(outcome) : Transitions(outcome, gated)
    BY <1>2 DEF Poll
  <2> QED BY <2>1, TransitionsAgree
<1>3. CASE Restart
  <2>1. /\ prevLive' = {} /\ autoRecorded' = {} /\ told' = {}
        /\ cached' = Nobody /\ shown' = Nobody
    BY <1>3 DEF Restart
  <2>2. SeenIn(shown)' = {}
    BY <2>1 DEF SeenIn, Nobody
  <2> QED BY <2>1, <2>2 DEF EdgesAgree, EventsMatchTheList, AutoRecordRearms
<1>4. CASE World
  BY <1>1, <1>4 DEF World
<1>5. ASSUME NEW written \in BOOLEAN, SaveMarks(written) PROVE EdgesAgree'
  BY <1>1, <1>5 DEF SaveMarks
<1>6. ASSUME NEW v \in Videos, JobRuns(v) \/ JobEnds(v) PROVE EdgesAgree'
  BY <1>1, <1>6 DEF JobRuns, JobEnds
<1>7. CASE Crash
  BY <1>1, <1>7 DEF Crash
<1>8. CASE UNCHANGED vars
  BY <1>1, <1>8 DEF vars
<1> QED BY <1>2, <1>3, <1>4, <1>5, <1>6, <1>7, <1>8 DEF Next

\* In every behaviour the monitor's events and its lists agree.
LEMMA EdgesAlwaysAgree == Spec => []EdgesAgree
<1>1. Init => EdgesAgree
  BY DEF Init, EdgesAgree, EventsMatchTheList, AutoRecordRearms, SeenIn, Nobody
<1>2. EdgesAgree /\ [Next]_vars => EdgesAgree'
  BY EdgesStayAgreed
<1> QED BY <1>1, <1>2, PTL DEF Spec

\* A client of the went-live and went-offline events and a client of the
\* channel lists agree on who is live, whichever polls fail (poll_all).
THEOREM EventsAndListsAgree == Spec => []EventsMatchTheList
<1>1. EdgesAgree => EventsMatchTheList
  BY DEF EdgesAgree
<1> QED BY <1>1, EdgesAlwaysAgree, PTL

\* The mark against a second start lasts no longer than the stream it was set
\* for, so the next stream is recorded again (auto_recorded, poll_all).
THEOREM MarksLapse == Spec => []AutoRecordRearms
<1>1. EdgesAgree => AutoRecordRearms
  BY DEF EdgesAgree
<1> QED BY <1>1, EdgesAlwaysAgree, PTL

-----------------------------------------------------------------------------
(* Uploads.                                                                *)

WatcherTyped ==
    /\ published \in [Channels -> 0 .. MaxVideo]
    /\ mark \in [Channels -> 0 .. NoMark]
    /\ savedMark \in [Channels -> 0 .. NoMark]
    /\ sends \in [Videos -> Nat]

\* A video that was sent is listed, and the watermark of its channel, if there
\* is one, has reached it.
SentIsBehindTheMark ==
    \A c \in Channels, v \in 1 .. MaxVideo :
      sends[<<c, v>>] > 0 => /\ <<c, v>> \in listed
                             /\ mark[c] = NoMark \/ v <= mark[c]

Watched == WatcherTyped /\ SentIsBehindTheMark /\ UploadsOnce

\* What a fetch brings is listed and newer than the watermark.
LEMMA FetchedIsNew ==
    ASSUME NEW c \in Channels, NEW v \in Fetched(c)
    PROVE  v \in 1 .. MaxVideo /\ <<c, v>> \in listed /\ (mark[c] = NoMark \/ v > mark[c])
BY DEF Fetched

\* A nonempty set of positions 1 .. n has a greatest element.
LEMMA LastExists ==
    ASSUME NEW n \in Nat, NEW S \in SUBSET (1 .. n), S # {}
    PROVE  \E e \in S : \A f \in S : f <= e
<1> DEFINE R == {q \in Nat \X Nat : q[1] < q[2]}
           T == {n - x : x \in S}
<1>1. IsWellFoundedOn(R, Nat)
  BY NatLessThanWellFounded DEF OpToRel
<1>2. T \subseteq Nat
  <2>1. ASSUME NEW x \in S PROVE n - x \in Nat
    OBVIOUS
  <2> QED BY <2>1
<1>3. T # {}
  <2>1. PICK x \in S : TRUE
    OBVIOUS
  <2>2. n - x \in T
    OBVIOUS
  <2> QED BY <2>2
<1>4. \A q, r \in Nat : q < r => <<q, r>> \in R
  OBVIOUS
<1> HIDE DEF R
<1>5. PICK m \in T : \A y \in T : <<y, m>> \notin R
  <2> HIDE DEF T
  <2> QED BY <1>1, <1>2, <1>3, WFMin
<1>6. PICK e \in S : m = n - e
  OBVIOUS
<1>7. ASSUME NEW f \in S PROVE f <= e
  <2>1. n - f \in T
    OBVIOUS
  <2>2. ~(n - f < m)
    BY <1>2, <1>4, <1>5, <2>1
  <2> QED BY <1>6, <2>2
<1> QED BY <1>7

\* The newest of the videos a fetch asks for is on the page it gets.
LEMMA NewestIsFetched ==
    ASSUME NEW c \in Channels, NEW w \in 1 .. MaxVideo,
           <<c, w>> \in listed, mark[c] = NoMark \/ w > mark[c]
    PROVE  \E v \in Fetched(c) : w <= v
<1> DEFINE newer == {v \in 1 .. MaxVideo :
                       <<c, v>> \in listed /\ (mark[c] = NoMark \/ v > mark[c])}
<1>1. newer \in SUBSET (1 .. MaxVideo) /\ w \in newer
  OBVIOUS
<1> HIDE DEF newer
<1>2. PICK m \in newer : \A f \in newer : f <= m
  BY <1>1, LastExists
<1>3. {x \in newer : x > m} = {}
  <2>1. ASSUME NEW x \in newer PROVE ~(x > m)
    <3>1. x \in 1 .. MaxVideo /\ m \in 1 .. MaxVideo /\ x <= m
      BY <1>1, <1>2
    <3> QED BY <3>1
  <2> QED BY <2>1
<1>4. Cardinality({x \in newer : x > m}) = 0
  BY <1>3, FS_EmptySet
<1>5. m \in Fetched(c)
  BY <1>2, <1>4 DEF Fetched, newer
<1> QED BY <1>1, <1>2, <1>5

\* The watermark after a fetch is a number that reaches every video listed
\* that it asked for, and never falls.
LEMMA MarkAfterFetch ==
    ASSUME WatcherTyped, NEW c \in Channels
    PROVE  /\ NextMark(c) \in 0 .. NoMark
           /\ mark[c] # NoMark => mark[c] <= NextMark(c)
           /\ \A w \in 1 .. MaxVideo :
                (<<c, w>> \in listed /\ (mark[c] = NoMark \/ w > mark[c])) => w <= NextMark(c)
<1>1. published[c] \in 0 .. MaxVideo /\ mark[c] \in 0 .. NoMark
  BY DEF WatcherTyped
<1>2. CASE Fetched(c) = {}
  <2>1. \A w \in 1 .. MaxVideo : ~(<<c, w>> \in listed /\ (mark[c] = NoMark \/ w > mark[c]))
    BY <1>2, NewestIsFetched
  <2>2. NextMark(c) = IF mark[c] = NoMark THEN published[c] ELSE mark[c]
    BY <1>2 DEF NextMark
  <2> QED BY <1>1, <2>1, <2>2 DEF NoMark
<1>3. CASE Fetched(c) # {}
  <2>1. Fetched(c) \in SUBSET (1 .. MaxVideo)
    BY DEF Fetched
  <2>2. \E v \in Fetched(c) : \A w \in Fetched(c) : w <= v
    BY <1>3, <2>1, LastExists
  <2>3. NextMark(c) = CHOOSE v \in Fetched(c) : \A w \in Fetched(c) : w <= v
    BY <1>3 DEF NextMark
  <2>4. NextMark(c) \in Fetched(c) /\ \A w \in Fetched(c) : w <= NextMark(c)
    BY <2>2, <2>3
  <2>5. NextMark(c) \in 1 .. MaxVideo /\ (mark[c] = NoMark \/ NextMark(c) > mark[c])
    BY <2>4, FetchedIsNew
  <2>6. ASSUME NEW w \in 1 .. MaxVideo, <<c, w>> \in listed, mark[c] = NoMark \/ w > mark[c]
        PROVE  w <= NextMark(c)
    <3>1. PICK v \in Fetched(c) : w <= v
      BY <2>6, NewestIsFetched
    <3>2. v \in 1 .. MaxVideo /\ v <= NextMark(c)
      BY <2>1, <2>4, <3>1
    <3> QED BY <2>5, <3>1, <3>2
  <2> QED BY <1>1, <2>5, <2>6 DEF NoMark
<1> QED BY <1>2, <1>3

\* A video that a check sends was fetched above a watermark.
LEMMA SentWasPicked ==
    ASSUME NEW c, NEW v, NEW fetched,
           <<c, v>> \in UNION {Picked(d) : d \in fetched}
    PROVE  c \in fetched /\ v \in Fetched(c) /\ mark[c] # NoMark
<1>1. PICK d \in fetched : <<c, v>> \in Picked(d)
  OBVIOUS
<1>2. mark[d] # NoMark /\ Picked(d) = {<<d, w>> : w \in Fetched(d)}
  BY <1>1 DEF Picked
<1> QED BY <1>1, <1>2

\* A check sends no video for the second time, and leaves the watermarks at or
\* past everything that was sent.
LEMMA ChecksSendOnce ==
    ASSUME Watched, NEW list, NEW fetched, NEW undecided, NEW expired,
           CheckUploads(list, fetched, undecided, expired),
           UNCHANGED <<listed, published, savedMark>>
    PROVE  Watched'
<1>1. ASSUME NEW c \in Channels
      PROVE  Kept(list)[c] \in {NoMark, mark[c]} /\ mark[c] \in 0 .. NoMark /\ NoMark \in Nat
  BY DEF Kept, Watched, WatcherTyped, NoMark
<1>2. CASE OptedIn(list) = {}
  <2>1. mark' = Kept(list) /\ sends' = sends
    BY <1>2 DEF CheckUploads
  <2>2. mark' \in [Channels -> 0 .. NoMark]
    <3>1. mark' = [c \in Channels |-> IF c \in OptedIn(list) THEN mark[c] ELSE NoMark]
      BY <2>1 DEF Kept
    <3>2. \A c \in Channels : mark'[c] \in 0 .. NoMark
      BY <1>1, <2>1
    <3> QED BY <3>1, <3>2
  <2>3. WatcherTyped'
    BY <2>1, <2>2 DEF Watched, WatcherTyped
  <2>4. SentIsBehindTheMark'
    <3> SUFFICES ASSUME NEW c \in Channels, NEW v \in 1 .. MaxVideo, sends[<<c, v>>] > 0
                 PROVE  <<c, v>> \in listed /\ (mark'[c] = NoMark \/ v <= mark'[c])
      BY <2>1 DEF SentIsBehindTheMark
    <3>1. <<c, v>> \in listed /\ (mark[c] = NoMark \/ v <= mark[c])
      BY DEF Watched, SentIsBehindTheMark
    <3>2. mark'[c] \in {NoMark, mark[c]}
      BY <1>1, <2>1
    <3> QED BY <3>1, <3>2
  <2> QED BY <2>1, <2>3, <2>4 DEF Watched, UploadsOnce
<1>3. CASE OptedIn(list) # {}
  <2> DEFINE waiting == {v \in enqueued \ expired : job[v] # "ended"}
             sent == {v \in UNION {Picked(c) : c \in fetched} :
                        job[v] # "running" /\ v \notin waiting \union undecided}
  <2>1. /\ mark' = [c \in Channels |-> IF c \in fetched THEN NextMark(c) ELSE Kept(list)[c]]
        /\ sends' = [v \in Videos |-> IF v \in sent THEN sends[v] + 1 ELSE sends[v]]
    BY <1>3 DEF CheckUploads
  <2>2. ASSUME NEW c \in Channels, NEW v \in 1 .. MaxVideo, <<c, v>> \in sent
        PROVE  c \in fetched /\ v \in Fetched(c) /\ mark[c] # NoMark
    BY <2>2, SentWasPicked
  <2> HIDE DEF sent, waiting
  <2>3. mark' \in [Channels -> 0 .. NoMark]
    <3>1. ASSUME NEW c \in Channels
          PROVE  (IF c \in fetched THEN NextMark(c) ELSE Kept(list)[c]) \in 0 .. NoMark
      <4>1. NextMark(c) \in 0 .. NoMark
        BY MarkAfterFetch DEF Watched
      <4>2. Kept(list)[c] \in 0 .. NoMark
        BY <1>1
      <4> QED BY <4>1, <4>2
    <3> QED BY <2>1, <3>1
  <2>4. sends' \in [Videos -> Nat]
    <3>1. sends \in [Videos -> Nat]
      BY DEF Watched, WatcherTyped
    <3> QED BY <2>1, <3>1
  <2>5. WatcherTyped'
    BY <2>3, <2>4 DEF Watched, WatcherTyped
  <2>6. ASSUME NEW c \in Channels, NEW v \in 1 .. MaxVideo
        PROVE  /\ sends'[<<c, v>>] <= 1
               /\ sends'[<<c, v>>] > 0 => /\ <<c, v>> \in listed
                                          /\ mark'[c] = NoMark \/ v <= mark'[c]
    <3>1. <<c, v>> \in Videos /\ sends[<<c, v>>] \in Nat /\ sends[<<c, v>>] <= 1
      BY DEF Videos, Watched, WatcherTyped, UploadsOnce
    <3>2. mark'[c] = IF c \in fetched THEN NextMark(c) ELSE Kept(list)[c]
      BY <2>1
    <3>3. /\ NextMark(c) \in 0 .. NoMark
          /\ mark[c] # NoMark => mark[c] <= NextMark(c)
          /\ (<<c, v>> \in listed /\ (mark[c] = NoMark \/ v > mark[c])) => v <= NextMark(c)
      BY MarkAfterFetch DEF Watched
    <3>4. sends[<<c, v>>] > 0 => <<c, v>> \in listed /\ (mark[c] = NoMark \/ v <= mark[c])
      BY DEF Watched, SentIsBehindTheMark
    <3>5. CASE <<c, v>> \in sent
      <4>1. c \in fetched /\ v \in Fetched(c) /\ mark[c] # NoMark
        BY <2>2, <3>5
      <4>2. <<c, v>> \in listed /\ v > mark[c]
        BY <4>1, FetchedIsNew
      <4>3. sends[<<c, v>>] = 0
        BY <1>1, <3>1, <3>4, <4>1, <4>2
      <4>4. sends'[<<c, v>>] = 1
        BY <2>1, <3>1, <3>5, <4>3
      <4>5. v <= mark'[c]
        BY <3>2, <3>3, <4>1, <4>2
      <4> QED BY <4>2, <4>4, <4>5
    <3>6. CASE <<c, v>> \notin sent
      <4>1. sends'[<<c, v>>] = sends[<<c, v>>]
        BY <2>1, <3>1, <3>6
      <4>2. CASE sends[<<c, v>>] > 0
        <5>1. <<c, v>> \in listed /\ (mark[c] = NoMark \/ v <= mark[c])
          BY <3>4, <4>2
        <5>2. CASE c \in fetched
          <6>1. mark'[c] = NextMark(c)
            BY <3>2, <5>2
          <6>2. CASE mark[c] = NoMark
            BY <3>1, <3>3, <4>1, <5>1, <6>1, <6>2
          <6>3. CASE mark[c] # NoMark
            BY <1>1, <3>1, <3>3, <4>1, <5>1, <6>1, <6>3
          <6> QED BY <6>2, <6>3
        <5>3. CASE c \notin fetched
          BY <1>1, <3>1, <3>2, <4>1, <5>1, <5>3
        <5> QED BY <5>2, <5>3
      <4>3. CASE ~(sends[<<c, v>>] > 0)
        BY <3>1, <4>1, <4>3
      <4> QED BY <4>2, <4>3
    <3> QED BY <3>5, <3>6
  <2>7. SentIsBehindTheMark'
    BY <2>6 DEF SentIsBehindTheMark
  <2>8. UploadsOnce'
    <3>1. ASSUME NEW x \in Videos PROVE sends'[x] <= 1
      <4>1. PICK c \in Channels, v \in 1 .. MaxVideo : x = <<c, v>>
        BY DEF Videos
      <4> QED BY <2>6, <4>1
    <3> QED BY <3>1 DEF UploadsOnce
  <2> QED BY <2>5, <2>7, <2>8 DEF Watched
<1> QED BY <1>2, <1>3

\* Videos may be listed, channels may publish; what was sent stays sent.
LEMMA TheWorldSendsNothing ==
    ASSUME Watched, World
    PROVE  Watched'
<1>1. UNCHANGED <<mark, savedMark, sends>>
  BY DEF World, watchVars
<1>2. published' \in [Channels -> 0 .. MaxVideo]
  <2>1. published \in [Channels -> 0 .. MaxVideo]
    BY DEF Watched, WatcherTyped
  <2>2. published' = published \/ \E c \in Channels : Publish(c)
    BY DEF World, SessionChanges, StreamChanges, ToggleRecord, ToggleUploads, List
  <2>3. ASSUME NEW c \in Channels, Publish(c) PROVE published' \in [Channels -> 0 .. MaxVideo]
    <3>1. published[c] < MaxVideo /\ published' = [published EXCEPT ![c] = published[c] + 1]
      BY <2>3 DEF Publish
    <3>2. published[c] + 1 \in 0 .. MaxVideo
      BY <2>1, <3>1
    <3> QED BY <2>1, <3>1, <3>2
  <2> QED BY <2>1, <2>2, <2>3
<1>3. listed \subseteq listed'
  BY DEF World, SessionChanges, StreamChanges, ToggleRecord, ToggleUploads, Publish, List
<1> QED BY <1>1, <1>2, <1>3 DEF Watched, WatcherTyped, SentIsBehindTheMark, UploadsOnce

\* Every step keeps what was sent behind the watermarks.
LEMMA WatchedStays ==
    ASSUME Watched, [Next]_vars
    PROVE  Watched'
<1>1. CASE UNCHANGED <<published, listed, mark, savedMark, sends>>
  BY <1>1 DEF Watched, WatcherTyped, SentIsBehindTheMark, UploadsOnce
<1>2. CASE World
  BY <1>2, TheWorldSendsNothing
<1>3. ASSUME NEW outcome \in Outcomes, Poll(outcome) PROVE Watched'
  <2>1. UNCHANGED <<listed, published, savedMark>>
    BY <1>3 DEF Poll, worldVars
  <2>2. \/ UNCHANGED <<enqueued, mark, unsaved, sends, job>>
        \/ \E fetched \in SUBSET OptedIn(ListOf(outcome)), undecided \in SUBSET Videos,
              expired \in SUBSET enqueued :
             CheckUploads(ListOf(outcome), fetched, undecided, expired)
    BY <1>3 DEF Poll
  <2> QED BY <1>1, <2>1, <2>2, ChecksSendOnce
<1>4. ASSUME NEW written \in BOOLEAN, SaveMarks(written) PROVE Watched'
  <2>1. /\ UNCHANGED <<published, listed, mark, sends>>
        /\ savedMark' = IF written THEN mark ELSE savedMark
    BY <1>4 DEF SaveMarks, worldVars
  <2>2. savedMark' \in [Channels -> 0 .. NoMark]
    BY <2>1 DEF Watched, WatcherTyped
  <2> QED BY <2>1, <2>2 DEF Watched, WatcherTyped, SentIsBehindTheMark, UploadsOnce
<1>5. ASSUME NEW v \in Videos, JobRuns(v) \/ JobEnds(v) PROVE Watched'
  BY <1>1, <1>5 DEF JobRuns, JobEnds, worldVars, watchVars
<1>6. CASE Crash
  BY <1>1, <1>6 DEF Crash, watchVars
<1>7. CASE Restart
  <2>1. /\ UNCHANGED <<published, listed, savedMark>>
        /\ mark' = savedMark /\ sends' = [v \in Videos |-> 0]
    BY <1>7 DEF Restart, worldVars
  <2>2. \A v \in Videos : sends'[v] = 0
    BY <2>1
  <2>3. \A c \in Channels, v \in 1 .. MaxVideo : <<c, v>> \in Videos
    BY DEF Videos
  <2>4. UploadsOnce'
    BY <2>2 DEF UploadsOnce
  <2>5. SentIsBehindTheMark'
    BY <2>2, <2>3 DEF SentIsBehindTheMark
  <2>6. WatcherTyped'
    BY <2>1 DEF Watched, WatcherTyped
  <2> QED BY <2>4, <2>5, <2>6 DEF Watched
<1>8. CASE UNCHANGED vars
  BY <1>1, <1>8 DEF vars, worldVars, watchVars
<1> QED BY <1>2, <1>3, <1>4, <1>5, <1>6, <1>7, <1>8 DEF Next

\* In one run of the daemon no upload is enqueued twice, whatever polls and
\* lookups fail, whatever expires, and however channels are opted out and in
\* (check_uploads).  The watermark alone carries this: enqueued_uploads and
\* the journal, which also keep a video from being sent, are not needed.
THEOREM NoUploadIsSentTwice == Spec => []UploadsOnce
<1>1. Init => Watched
  BY DEF Init, Watched, WatcherTyped, SentIsBehindTheMark, UploadsOnce, Videos, NoMark
<1>2. Watched /\ [Next]_vars => Watched'
  BY WatchedStays
<1>3. Watched => UploadsOnce
  BY DEF Watched
<1> QED BY <1>1, <1>2, <1>3, PTL DEF Spec
=============================================================================
