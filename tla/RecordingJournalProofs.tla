----------------------- MODULE RecordingJournalProofs -----------------------
(***************************************************************************)
(* Theorems about RecordingJournal: the manager, the daemon loop, the jobs *)
(* journal and the pruning task, with the daemon's death and restart, for  *)
(* every set of jobs and requests, every cap and every MaxRetries.         *)
(***************************************************************************)
EXTENDS RecordingJournal, RecordingManagerProofs

USE ConstantsAssumption, NoRequestAssumption

-----------------------------------------------------------------------------
(* The map of recordings.                                                  *)

\* Every action of the manager keeps what the order of its events needs.
LEMMA MapInvStays ==
    ASSUME MapInv, [Next]_vars
    PROVE  MapInv'
<1>0. /\ TypeOK /\ FreshIsBlank /\ CancelledIsEmpty /\ ActiveIsConsistent
      /\ TypeOK'
  BY StepIsTyped DEF MapInv
<1> DEFINE Rest == FreshIsBlank' /\ CancelledIsEmpty' /\ ActiveIsConsistent'
<1> USE DEF FreshIsBlank, CancelledIsEmpty, ActiveIsConsistent
<1>1. ASSUME UNCHANGED <<running, active, req, rec>>,
             \A k \in Jobs : resolver'[k].phase = "idle" <=> resolver[k].phase = "idle"
      PROVE  Rest
  BY <1>0, <1>1 DEF TypeOK
<1>2. ASSUME NEW k \in Jobs, NEW r \in Requests, Start(k, r) \/ DownloadVod(k, r)
      PROVE  Rest
  <2>1. /\ running /\ req[k] = NoRequest /\ UNCHANGED <<running, rec>>
        /\ req' = [req EXCEPT ![k] = r] /\ active' = active \cup {k}
        /\ \A j \in Jobs \ {k} : resolver'[j] = resolver[j]
        /\ resolver'[k].phase = "working"
    BY <1>0, <1>2 DEF Start, DownloadVod, Insert, TypeOK
  <2>2. r # NoRequest
    OBVIOUS
  <2> QED BY <1>0, <2>1, <2>2 DEF TypeOK
<1>3. ASSUME NEW S \in SUBSET active, NEW T \in SUBSET S, Remove(S, T),
             UNCHANGED <<running, req, resolver>>
      PROVE  Rest
  <2>1. active' = active \ S /\ \A j \in Jobs \ S : rec'[j] = rec[j]
    BY <1>3 DEF Remove
  <2>2. \A j \in S : req[j] # NoRequest
    BY <1>0, <1>3 DEF TypeOK
  <2> QED BY <1>0, <1>3, <2>1, <2>2 DEF TypeOK
<1>4. ASSUME NEW k \in Jobs, Stop(k) PROVE Rest
  BY <1>3, <1>4 DEF Stop
<1>5. ASSUME StopAll PROVE Rest
  BY <1>3, <1>5 DEF StopAll, SlotHolders
<1>6. ASSUME Cancel PROVE Rest
  BY <1>0, <1>6 DEF Cancel
<1>7. ASSUME NEW k \in Jobs, Resolver(k) PROVE Rest
  <2>1. /\ UNCHANGED <<running, active, req, rec>>
        /\ resolver[k].phase = "working"
        /\ resolver'[k].phase \in {"spawned", "refused"}
        /\ \A j \in Jobs \ {k} : resolver'[j] = resolver[j]
    BY <1>0, <1>7 DEF Resolver, ResolverSpawns, ResolverRefuses, TypeOK
  <2> QED BY <1>1, <2>1
<1>8. ASSUME NEW k \in Jobs, NEW p \in Parts, Recorder(k, p) PROVE Rest
  BY <1>1, <1>8 DEF Recorder, RecorderWrites, RecorderFreezes, RecorderExits
<1>9. ASSUME NEW k \in Jobs, DropAnswer(k) PROVE Rest
  <2>1. /\ UNCHANGED <<running, active, req, rec>> /\ k \notin active
        /\ resolver'[k].phase = "idle"
        /\ \A j \in Jobs \ {k} : resolver'[j] = resolver[j]
    BY <1>0, <1>9 DEF DropAnswer, TypeOK
  <2> QED BY <1>0, <2>1 DEF TypeOK
<1>10. ASSUME NEW k \in Jobs, ReceiveRecorder(k) \/ ReceiveRefusal(k) PROVE Rest
  <2>1. /\ UNCHANGED <<running, active, req>> /\ k \in active
        /\ rec[k].state = "ResolvingUrl"
        /\ \A j \in Jobs \ {k} : resolver'[j] = resolver[j] /\ rec'[j] = rec[j]
        /\ resolver'[k].phase = "idle"
    BY <1>0, <1>10 DEF ReceiveRecorder, ReceiveRefusal, TypeOK
  <2>2. /\ rec'[k].state # "ResolvingUrl"
        /\ rec'[k].process => rec'[k].state = "Recording"
    <3>1. rec[k] \in ActiveRecordings /\ ~rec[k].process
      BY <1>0, <2>1 DEF TypeOK
    <3>2. CASE ReceiveRecorder(k)
      <4>1. rec'[k].state = "Recording"
        BY <1>0, <3>1, <3>2 DEF ReceiveRecorder, TypeOK, ActiveRecordings
      <4> QED BY <4>1
    <3>3. CASE ReceiveRefusal(k)
      <4>1. rec'[k] = [rec[k] EXCEPT !.state = "Failed"]
        BY <1>0, <3>3 DEF ReceiveRefusal, TypeOK
      <4> QED BY <3>1, <4>1 DEF ActiveRecordings
    <3> QED BY <1>10, <3>2, <3>3
  <2>4. k \in active' /\ req[k] # NoRequest
    BY <1>0, <2>1 DEF TypeOK
  <2>5. FreshIsBlank' /\ CancelledIsEmpty'
    BY <1>0, <2>1, <2>4 DEF TypeOK
  <2>6. ASSUME NEW j \in active'
        PROVE  /\ rec'[j].state = "ResolvingUrl" <=> resolver'[j].phase # "idle"
               /\ rec'[j].process => rec'[j].state = "Recording"
    <3>1. CASE j = k
      BY <2>1, <2>2, <3>1
    <3>2. CASE j # k
      <4>1. j \in Jobs \ {k} /\ j \in active
        BY <1>0, <2>1, <2>6, <3>2 DEF TypeOK
      <4> QED BY <1>0, <2>1, <4>1
    <3> QED BY <3>1, <3>2
  <2> QED BY <2>5, <2>6
<1>11. ASSUME NEW k \in Jobs, PollAlive(k) \/ PollStalled(k) PROVE Rest
  BY <1>1, <1>11 DEF PollAlive, PollStalled
<1>12. ASSUME NEW k \in Jobs, PollSucceeded(k) \/ PollGivesUp(k) PROVE Rest
  <2>1. /\ UNCHANGED <<running, req, resolver>> /\ k \in active /\ active' = active \ {k}
        /\ \A j \in Jobs \ {k} : rec'[j] = rec[j]
    BY <1>0, <1>12 DEF PollSucceeded, PollGivesUp, Polled, TypeOK
  <2> QED BY <1>0, <2>1 DEF TypeOK
<1>13. ASSUME NEW k \in Jobs, PollRetries(k) PROVE Rest
  <2>1. /\ UNCHANGED <<running, active, req>> /\ k \in active
        /\ \A j \in Jobs \ {k} : rec'[j] = rec[j] /\ resolver'[j] = resolver[j]
        /\ resolver'[k].phase = "working"
    BY <1>0, <1>13 DEF PollRetries, Polled, TypeOK
  <2>2. rec'[k].state = "ResolvingUrl" /\ ~rec'[k].process
    BY <1>0, <1>13 DEF PollRetries, TypeOK, ActiveRecordings
  <2> QED BY <1>0, <2>1, <2>2 DEF TypeOK
<1>14. ASSUME NEW k \in Jobs, Finalizer(k) PROVE Rest
  BY <1>1, <1>14 DEF Finalizer, Merge, MergeFails, RenameMerged, RenameMergedFails,
                     DeleteParts, CorrectExtension, KeepExtension, Announce
<1>15. ASSUME TakeEvent \/ UNCHANGED vars PROVE Rest
  BY <1>1, <1>15 DEF TakeEvent, vars
<1>16. Rest
  BY <1>2, <1>4, <1>5, <1>6, <1>7, <1>8, <1>9, <1>10, <1>11, <1>12, <1>13, <1>14, <1>15
  DEF Next, ManagerNext, Command, Receive, PollExit
<1> QED BY <1>0, <1>16 DEF MapInv

-----------------------------------------------------------------------------
(* Where the recordings are, and what the queue says of them.              *)

Used == {j \in Jobs : req[j] # NoRequest}

\* Nothing works on these any more: they are what may be pruned.
Complete == {j \in Used : j \notin active /\ j \notin Finalizing}
Busy     == SlotHolders \cup Finalizing

Queued   == {events[a] : a \in DOMAIN events}
Ending   == {j \in Jobs : \E e \in Queued : e.job = j /\ e.type = "finished"}
Lively   == {j \in Jobs : \E e \in Queued : e.job = j /\ e.type # "finished"}
Starting == {j \in Jobs : \E e \in Queued : e.job = j /\ e.type = "started"}

\* What the events of each type carry: a start names a path of the recording,
\* an end a final state and, perhaps, the path it ends under.
Sendable ==
    {e \in Events :
        /\ e.type = "started" => e.state \notin Terminal /\ e.file \in Paths \ {Merging}
        /\ e.type = "finished" => /\ e.state \in Terminal
                                  /\ e.file \in (Paths \ {Merging}) \cup {NoFile}}

EndsWell(e) == e.type = "finished" /\ e.state = "Finished"

\* Sending an event adds it to what is queued.
LEMMA SendingAdds ==
    ASSUME TypeOK, NEW e \in Events, events' = Append(events, e)
    PROVE  Queued' = Queued \cup {e}
<1>1. events \in Seq(Events)
  BY DEF TypeOK
<1>2. /\ DOMAIN events' = DOMAIN events \cup {Len(events) + 1}
      /\ events'[Len(events) + 1] = e
      /\ \A a \in DOMAIN events : events'[a] = events[a]
  BY <1>1
<1> QED BY <1>2 DEF Queued

\* A poll that gives up sends two.
LEMMA SendingTwoAdds ==
    ASSUME TypeOK, NEW e \in Events, NEW f \in Events, events' = events \o <<e, f>>
    PROVE  Queued' = Queued \cup {e, f}
<1> DEFINE s == Append(events, e)
<1>1. events \in Seq(Events) /\ s \in Seq(Events) /\ events' = Append(s, f)
  BY DEF TypeOK
<1>2. /\ DOMAIN s = DOMAIN events \cup {Len(events) + 1} /\ s[Len(events) + 1] = e
      /\ \A a \in DOMAIN events : s[a] = events[a]
  BY <1>1
<1> HIDE DEF s
<1>3. /\ DOMAIN events' = DOMAIN s \cup {Len(s) + 1} /\ events'[Len(s) + 1] = f
      /\ \A a \in DOMAIN s : events'[a] = s[a]
  BY <1>1
<1>4. {s[a] : a \in DOMAIN s} = Queued \cup {e}
  BY <1>2 DEF Queued
<1>5. Queued' = {s[a] : a \in DOMAIN s} \cup {f}
  BY <1>3 DEF Queued
<1> QED BY <1>4, <1>5

\* The start of a recording, under a path of its part, can be sent.
LEMMA StartIsSendable ==
    ASSUME NEW j \in Jobs, NEW s \in {"ResolvingUrl", "Recording"}, NEW p \in Parts,
           NEW t \in Titles
    PROVE  /\ Started(j, s, PathOf(p, t)) \in Sendable
           /\ Started(j, s, PathOf(p, t)).type = "started"
           /\ Started(j, s, PathOf(p, t)).job = j
           /\ Started(j, s, PathOf(p, t)).file = PathOf(p, t)
<1>1. PathOf(p, t) \in Paths /\ PathOf(p, t) # Merging
  BY DEF PathOf, Paths, Files, Parts, Merging, Renamed
<1>2. Started(j, s, PathOf(p, t)) \in Events
  BY <1>1, StartedIsTyped DEF RecordingStates
<1> QED BY <1>1, <1>2 DEF Started, Sendable, Terminal

\* So can the progress of a recording.
LEMMA ProgressIsSendable ==
    ASSUME NEW j \in Jobs
    PROVE  /\ Progress(j) \in Sendable
           /\ Progress(j).type = "progress" /\ Progress(j).job = j
  BY ProgressIsTyped DEF Progress, Sendable

\* So can its end.
LEMMA EndIsSendable ==
    ASSUME NEW j \in Jobs, NEW s \in Terminal, NEW f \in {NoFile, Corrected}
    PROVE  /\ Finished(j, s, f) \in Sendable
           /\ Finished(j, s, f).type = "finished" /\ Finished(j, s, f).job = j
           /\ Finished(j, s, f).state = s
<1>1. Corrected \in Paths /\ Corrected # Merging
  BY DEF Paths, Files, Corrected, Merging
<1>2. Finished(j, s, f) \in Events
  BY <1>1, FinishedIsTyped
<1> QED BY <1>1, <1>2 DEF Finished, Sendable

\* What a step of the manager does to all this: new events speak of recordings
\* in use, of ended ones only to end them, and no slot is given back unseen.
ManagerMoves ==
    /\ Used \subseteq Used' /\ Complete \subseteq Complete' /\ FinalizedHasLeft'
    /\ Queued \subseteq Queued'
    /\ \A e \in Queued' \ Queued :
         /\ e \in Sendable /\ e.job \in Used'
         /\ EndsWell(e) => e.job \in Complete'
         /\ e.type # "finished" => e.job \notin Over
    /\ SlotHolders' \subseteq SlotHolders \cup Starting'
    /\ running' => /\ running /\ Busy \subseteq Busy' \cup Ending'
                   /\ \A e \in Queued' \ Queued :
                        e.type # "finished" => e.job \in Busy' \cup Ending'

\* The manager is at work on a recording it has in the map.
LEMMA WhereAJobIs ==
    ASSUME MapInv, EndInv
    PROVE  /\ active \subseteq Used /\ Finalizing \subseteq Used /\ Used \subseteq Jobs
           /\ SlotHolders = {j \in active : rec[j].state \notin Terminal}
           /\ \A j \in SlotHolders : j \notin Over
           /\ \A j \in Jobs \ Used : j \notin Over /\ rec[j].state = "ResolvingUrl"
  BY DEF MapInv, EndInv, FreshIsBlank, Used, Finalizing, Over, SlotHolders, TypeOK

\* Steps that leave the map and the finalizing tasks as they are.
LEMMA MovesInPlace ==
    ASSUME MapInv, EndInv, FinalizedHasLeft, UNCHANGED <<running, active, req>>,
           SlotHolders' = SlotHolders, Finalizing' = Finalizing,
           \/ Queued' = Queued
           \/ \E e \in Sendable : /\ Queued' = Queued \cup {e}
                                  /\ e.type # "finished" /\ e.job \in SlotHolders
    PROVE  ManagerMoves
<1>1. Used' = Used /\ Complete' = Complete /\ Busy' = Busy /\ FinalizedHasLeft'
  BY DEF Used, Complete, Busy, FinalizedHasLeft
<1>2. \A e \in Queued' \ Queued :
         e \in Sendable /\ e.type # "finished" /\ e.job \in SlotHolders
  OBVIOUS
<1>3. \A j \in SlotHolders : j \in Used /\ j \notin Over /\ j \in Busy
  BY WhereAJobIs DEF Busy
<1>4. Queued \subseteq Queued'
  OBVIOUS
<1> QED BY <1>1, <1>2, <1>3, <1>4 DEF ManagerMoves, EndsWell

\* Steps that take recordings out of the map: those that held a slot are
\* finalized, or end.
LEMMA MovesOut ==
    ASSUME MapInv, EndInv, FinalizedHasLeft, UNCHANGED <<running, req>>,
           NEW S \in SUBSET active, active' = active \ S, SlotHolders' = SlotHolders \ S,
           Finalizing \subseteq Finalizing', Finalizing' \subseteq Finalizing \cup S,
           Queued \subseteq Queued',
           \A e \in Queued' \ Queued : /\ e \in Sendable /\ e.job \in S
                                       /\ ~EndsWell(e)
                                       /\ e.type # "finished" => e.job \in SlotHolders,
           \A j \in S : j \in SlotHolders => j \in Finalizing' \/ j \in Ending'
    PROVE  ManagerMoves
<1>1. Used' = Used /\ active \subseteq Used
  BY WhereAJobIs DEF Used
<1>2. Complete \subseteq Complete' /\ FinalizedHasLeft'
  BY <1>1 DEF Complete, FinalizedHasLeft
<1>3. Busy \subseteq Busy' \cup Ending'
  BY DEF Busy
<1>4. \A j \in SlotHolders : j \notin Over /\ j \in Busy
  BY WhereAJobIs DEF Busy
<1> QED BY <1>1, <1>2, <1>3, <1>4 DEF ManagerMoves

\* A recording is inserted into the map.
LEMMA InsertMoves ==
    ASSUME MapInv, EndInv, FinalizedHasLeft,
           NEW k \in Jobs, NEW r \in Requests, Start(k, r) \/ DownloadVod(k, r)
    PROVE  ManagerMoves
<1> DEFINE e == Started(k, "ResolvingUrl", Base)
<1>1. /\ running /\ req[k] = NoRequest /\ UNCHANGED <<running, rec, finalizer>>
      /\ req' = [req EXCEPT ![k] = r] /\ active' = active \cup {k}
      /\ events' = Append(events, e)
  BY DEF Start, DownloadVod, Insert
<1>2. e \in Sendable /\ e.type = "started" /\ e.job = k
  <2>1. PathOf(Base, "requested") = Base /\ Base \in Parts /\ "requested" \in Titles
    BY DEF PathOf, Base, Parts, Titles
  <2> QED BY <2>1, StartIsSendable
<1>3. TypeOK /\ r # NoRequest
  BY DEF MapInv
<1>4. e \in Events
  BY <1>2 DEF Sendable
<1> HIDE DEF e
<1>5. Queued' = Queued \cup {e}
  BY <1>1, <1>3, <1>4, SendingAdds
<1>6. k \notin Used /\ k \notin Over /\ k \notin Finalizing /\ rec[k].state = "ResolvingUrl"
  BY <1>1, WhereAJobIs DEF Used
<1>7. Used' = Used \cup {k} /\ Finalizing' = Finalizing
  BY <1>1, <1>3 DEF Used, Finalizing, TypeOK
<1>8. SlotHolders' = SlotHolders \cup {k}
  BY <1>1, <1>6 DEF SlotHolders, Terminal
<1>9. Complete \subseteq Complete' /\ FinalizedHasLeft'
  BY <1>1, <1>6, <1>7 DEF Complete, FinalizedHasLeft
<1>10. Busy \subseteq Busy' /\ k \in Busy' /\ k \in Starting'
  BY <1>2, <1>5, <1>7, <1>8 DEF Busy, Starting
<1> QED BY <1>1, <1>2, <1>5, <1>6, <1>7, <1>8, <1>9, <1>10 DEF ManagerMoves, EndsWell

\* The map loses recordings at a stop, for good at a shutdown.
LEMMA StopMoves ==
    ASSUME MapInv, EndInv, FinalizedHasLeft, (\E j \in Jobs : Stop(j)) \/ StopAll \/ Cancel
    PROVE  ManagerMoves
<1>0. TypeOK
  BY DEF MapInv
<1>1. ASSUME NEW S \in SUBSET active, NEW T \in SUBSET S, SlotHolders \cap S \subseteq T,
             Remove(S, T), UNCHANGED <<running, req, events>>
      PROVE  ManagerMoves
  <2>1. active' = active \ S /\ Finalizing' = Finalizing \cup T
    BY <1>0, <1>1 DEF Remove, StartFinalizer, Finalizing, TypeOK
  <2>2. \A j \in active \ S : rec'[j] = rec[j]
    BY <1>0, <1>1 DEF Remove, TypeOK
  <2>3. SlotHolders' = SlotHolders \ S
    BY <2>1, <2>2 DEF SlotHolders
  <2>4. Queued' = Queued
    BY <1>1 DEF Queued
  <2>5. \A j \in S : j \in SlotHolders => j \in Finalizing'
    BY <1>1, <2>1
  <2> QED BY <1>1, <2>1, <2>3, <2>4, <2>5, MovesOut
<1>2. ASSUME NEW j \in Jobs, Stop(j) PROVE ManagerMoves
  BY <1>1, <1>2 DEF Stop
<1>3. ASSUME StopAll PROVE ManagerMoves
  BY <1>1, <1>3 DEF StopAll, SlotHolders
<1>4. ASSUME Cancel PROVE ManagerMoves
  <2>1. /\ ~running' /\ active' = {} /\ UNCHANGED <<req, rec, finalizer, events>>
    BY <1>4 DEF Cancel
  <2>2. /\ Used' = Used /\ Finalizing' = Finalizing /\ SlotHolders' = {} /\ Queued' = Queued
    BY <2>1 DEF Used, Finalizing, SlotHolders, Queued
  <2>3. Complete \subseteq Complete' /\ FinalizedHasLeft'
    BY <2>1, <2>2 DEF Complete, FinalizedHasLeft
  <2> QED BY <2>1, <2>2, <2>3 DEF ManagerMoves
<1> QED BY <1>2, <1>3, <1>4

\* The answer of a resolver keeps the slot, or ends the recording.
LEMMA AnswerMoves ==
    ASSUME MapInv, EndInv, FinalizedHasLeft, NEW k \in Jobs,
           ReceiveRecorder(k) \/ ReceiveRefusal(k)
    PROVE  ManagerMoves
<1>0. TypeOK /\ ActiveIsConsistent
  BY DEF MapInv
<1>1. /\ k \in active /\ rec[k].state = "ResolvingUrl"
      /\ UNCHANGED <<running, active, req, finalizer>>
      /\ \A j \in Jobs \ {k} : rec'[j] = rec[j]
  BY <1>0 DEF ReceiveRecorder, ReceiveRefusal, ActiveIsConsistent, TypeOK
<1>2. Used' = Used /\ Finalizing' = Finalizing /\ k \in SlotHolders
  BY <1>1 DEF Used, Finalizing, SlotHolders, Terminal
<1>3. ASSUME ReceiveRecorder(k) PROVE ManagerMoves
  <2> DEFINE e == Started(k, "Recording", PathOf(Part(k), resolver[k].title))
  <2>1. e \in Sendable /\ e.type = "started" /\ e.job = k
    <3>1. resolver[k].title \in Titles /\ Part(k) \in Parts
      BY <1>0, PartIsAPart DEF TypeOK
    <3> QED BY <3>1, StartIsSendable
  <2>2. e \in Events /\ events' = Append(events, e)
    BY <1>3, <2>1 DEF ReceiveRecorder, Sendable
  <2> HIDE DEF e
  <2>3. Queued' = Queued \cup {e}
    BY <1>0, <2>2, SendingAdds
  <2>4. rec'[k].state = "Recording"
    BY <1>0, <1>3 DEF ReceiveRecorder, TypeOK, ActiveRecordings
  <2>5. SlotHolders' = SlotHolders
    BY <1>0, <1>1, <2>4 DEF SlotHolders, Terminal, TypeOK
  <2> QED BY <1>1, <1>2, <2>1, <2>3, <2>5, MovesInPlace
<1>4. ASSUME ReceiveRefusal(k) PROVE ManagerMoves
  <2> DEFINE e == Finished(k, "Failed", NoFile)
  <2>1. e \in Sendable /\ e.type = "finished" /\ e.job = k /\ e.state = "Failed"
    BY EndIsSendable DEF Terminal
  <2>2. e \in Events /\ events' = Append(events, e)
    BY <1>4, <2>1 DEF ReceiveRefusal, Sendable
  <2> HIDE DEF e
  <2>3. Queued' = Queued \cup {e}
    BY <1>0, <2>2, SendingAdds
  <2>4. rec'[k].state = "Failed"
    BY <1>0, <1>4 DEF ReceiveRefusal, TypeOK, ActiveRecordings
  <2>5. SlotHolders' = SlotHolders \ {k}
    BY <1>0, <1>1, <2>4 DEF SlotHolders, Terminal, TypeOK
  <2>6. k \in Ending'
    BY <2>1, <2>3 DEF Ending
  <2>7. Complete' = Complete /\ FinalizedHasLeft'
    BY <1>1, <1>2 DEF Complete, FinalizedHasLeft
  <2>8. k \in Used /\ Busy \subseteq Busy' \cup Ending'
    BY <1>1, <1>2, <2>5, <2>6, WhereAJobIs DEF Busy
  <2> QED
    BY <1>1, <1>2, <2>1, <2>3, <2>5, <2>7, <2>8 DEF ManagerMoves, EndsWell
<1> QED BY <1>3, <1>4

\* A poll reports progress; it keeps the slot, or the recording leaves the map.
LEMMA PollMoves ==
    ASSUME MapInv, EndInv, FinalizedHasLeft, NEW k \in Jobs,
           PollAlive(k) \/ PollStalled(k) \/ PollExit(k)
    PROVE  ManagerMoves
<1>0. TypeOK
  BY DEF MapInv
<1> DEFINE e == Progress(k)
           f == Finished(k, "Failed", NoFile)
<1>1. /\ e \in Sendable /\ e.type = "progress" /\ e.job = k
      /\ f \in Sendable /\ f.type = "finished" /\ f.job = k /\ f.state = "Failed"
  BY ProgressIsSendable, EndIsSendable DEF Terminal
<1>2. e \in Events /\ f \in Events
  BY <1>1 DEF Sendable
<1> HIDE DEF e, f
<1>3. Polled(k) /\ UNCHANGED <<running, req>>
  BY DEF PollAlive, PollStalled, PollExit, PollSucceeded, PollRetries, PollGivesUp
<1>4. k \in active /\ k \in SlotHolders
  BY <1>3 DEF Polled, SlotHolders, Terminal
<1>5. ASSUME events' = Append(events, e) PROVE Queued' = Queued \cup {e}
  BY <1>0, <1>2, <1>5, SendingAdds
<1>6. ASSUME PollAlive(k) \/ PollStalled(k) PROVE ManagerMoves
  <2>1. UNCHANGED <<active, rec, finalizer>> /\ events' = Append(events, e)
    BY <1>6 DEF PollAlive, PollStalled, e
  <2>2. SlotHolders' = SlotHolders /\ Finalizing' = Finalizing
    BY <2>1 DEF SlotHolders, Finalizing
  <2> QED BY <1>1, <1>3, <1>4, <1>5, <2>1, <2>2, MovesInPlace
<1>7. ASSUME PollRetries(k) PROVE ManagerMoves
  <2>1. UNCHANGED <<active, finalizer>> /\ events' = Append(events, e)
    BY <1>7 DEF PollRetries, e
  <2>2. \A j \in Jobs \ {k} : rec'[j] = rec[j]
    BY <1>0, <1>7 DEF PollRetries, TypeOK
  <2>3. rec'[k].state = "ResolvingUrl"
    BY <1>0, <1>7 DEF PollRetries, TypeOK, ActiveRecordings
  <2>4. SlotHolders' = SlotHolders /\ Finalizing' = Finalizing
    BY <1>0, <1>4, <2>1, <2>2, <2>3 DEF SlotHolders, Finalizing, Terminal, TypeOK
  <2> QED BY <1>1, <1>3, <1>4, <1>5, <2>1, <2>4, MovesInPlace
<1>8. ASSUME PollSucceeded(k) \/ PollGivesUp(k)
      PROVE  active' = active \ {k} /\ SlotHolders' = SlotHolders \ {k}
  <2>1. active' = active \ {k} /\ \A j \in Jobs \ {k} : rec'[j] = rec[j]
    BY <1>0, <1>8 DEF PollSucceeded, PollGivesUp, TypeOK
  <2> QED BY <1>0, <2>1 DEF SlotHolders, TypeOK
<1>9. ASSUME PollSucceeded(k) PROVE ManagerMoves
  <2>1. events' = Append(events, e)
    BY <1>9 DEF PollSucceeded, e
  <2>2. Finalizing' = Finalizing \cup {k}
    BY <1>0, <1>9 DEF PollSucceeded, StartFinalizer, Finalizing, TypeOK
  <2>3. /\ Queued \subseteq Queued'
        /\ \A g \in Queued' \ Queued : /\ g \in Sendable /\ g.job \in {k} /\ ~EndsWell(g)
                                       /\ g.type # "finished" => g.job \in SlotHolders
    BY <1>1, <1>4, <1>5, <2>1 DEF EndsWell
  <2>4. {k} \in SUBSET active
    BY <1>4
  <2> QED BY <1>3, <1>8, <1>9, <2>2, <2>3, <2>4, MovesOut
<1>10. ASSUME PollGivesUp(k) PROVE ManagerMoves
  <2>1. events' = events \o <<e, f>> /\ finalizer' = finalizer
    BY <1>10 DEF PollGivesUp, e, f
  <2>2. Queued' = Queued \cup {e, f}
    BY <1>0, <1>2, <2>1, SendingTwoAdds
  <2>3. Finalizing' = Finalizing /\ k \in Ending'
    BY <1>1, <2>1, <2>2 DEF Finalizing, Ending
  <2>4. /\ Queued \subseteq Queued'
        /\ \A g \in Queued' \ Queued : /\ g \in Sendable /\ g.job \in {k} /\ ~EndsWell(g)
                                       /\ g.type # "finished" => g.job \in SlotHolders
    BY <1>1, <1>4, <2>2 DEF EndsWell
  <2>5. {k} \in SUBSET active
    BY <1>4
  <2> QED BY <1>3, <1>8, <1>10, <2>3, <2>4, <2>5, MovesOut
<1> QED BY <1>6, <1>7, <1>9, <1>10 DEF PollExit

\* The finalizing task works on a recording that has left the map; it ends it
\* once it is through.
LEMMA FinalizerMoves ==
    ASSUME MapInv, EndInv, FinalizedHasLeft, NEW k \in Jobs, Finalizer(k)
    PROVE  ManagerMoves
<1>0. TypeOK
  BY DEF MapInv
<1>1. UNCHANGED <<running, active, req, rec>> /\ k \in Finalizing
  BY DEF Finalizer, FinalizerStep, Merge, MergeFails, RenameMerged, RenameMergedFails,
         DeleteParts, CorrectExtension, KeepExtension, Announce, Finalizing
<1>2. SlotHolders' = SlotHolders /\ Used' = Used
  BY <1>1 DEF SlotHolders, Used
<1>3. \/ /\ events' = events
         /\ \E to \in FinalizerStages \ {"idle"} : finalizer' = [finalizer EXCEPT ![k] = to]
      \/ /\ finalizer' = [finalizer EXCEPT ![k] = "idle"]
         /\ \E f \in {NoFile, Corrected} :
               events' = Append(events, Finished(k, "Finished", f))
  BY DEF Finalizer, FinalizerStep, Merge, MergeFails, RenameMerged, RenameMergedFails,
         DeleteParts, CorrectExtension, KeepExtension, Announce, FinalizerStages
<1>4. ASSUME events' = events, NEW to \in FinalizerStages \ {"idle"},
             finalizer' = [finalizer EXCEPT ![k] = to]
      PROVE  ManagerMoves
  <2>1. Finalizing' = Finalizing
    BY <1>0, <1>1, <1>4 DEF Finalizing, TypeOK
  <2>2. Queued' = Queued
    BY <1>4 DEF Queued
  <2> QED BY <1>1, <1>2, <2>1, <2>2, MovesInPlace
<1>5. ASSUME finalizer' = [finalizer EXCEPT ![k] = "idle"], NEW f \in {NoFile, Corrected},
             events' = Append(events, Finished(k, "Finished", f))
      PROVE  ManagerMoves
  <2> DEFINE e == Finished(k, "Finished", f)
  <2>1. e \in Sendable /\ e.type = "finished" /\ e.job = k
    BY EndIsSendable DEF Terminal
  <2>2. e \in Events /\ events' = Append(events, e)
    BY <1>5, <2>1 DEF Sendable
  <2> HIDE DEF e
  <2>3. Queued' = Queued \cup {e}
    BY <1>0, <2>2, SendingAdds
  <2>4. Finalizing' = Finalizing \ {k} /\ k \in Ending'
    BY <1>0, <1>5, <2>1, <2>3 DEF Finalizing, TypeOK, Ending
  <2>5. k \in Used /\ k \notin active
    BY <1>1, WhereAJobIs DEF FinalizedHasLeft
  <2>6. Complete \subseteq Complete' /\ k \in Complete' /\ FinalizedHasLeft'
    BY <1>1, <1>2, <2>4, <2>5 DEF Complete, FinalizedHasLeft
  <2>7. Busy \subseteq Busy' \cup Ending'
    BY <1>2, <2>4 DEF Busy
  <2> QED BY <1>1, <1>2, <2>1, <2>3, <2>5, <2>6, <2>7 DEF ManagerMoves, EndsWell
<1> QED BY <1>3, <1>4, <1>5

\* Every step of the manager moves recordings in one of these ways.
LEMMA ManagerStepMoves ==
    ASSUME MapInv, EndInv, FinalizedHasLeft, ManagerNext
    PROVE  ManagerMoves
<1>1. ASSUME \E j \in Jobs : \/ Resolver(j) \/ DropAnswer(j)
                             \/ \E p \in Parts : Recorder(j, p)
      PROVE  ManagerMoves
  <2>1. UNCHANGED <<running, active, req, rec, finalizer, events>>
    BY <1>1 DEF Resolver, ResolverSpawns, ResolverRefuses, DropAnswer,
                Recorder, RecorderWrites, RecorderFreezes, RecorderExits
  <2>2. SlotHolders' = SlotHolders /\ Finalizing' = Finalizing /\ Queued' = Queued
    BY <2>1 DEF SlotHolders, Finalizing, Queued
  <2> QED BY <2>1, <2>2, MovesInPlace
<1> QED
  BY <1>1, InsertMoves, StopMoves, AnswerMoves, PollMoves, FinalizerMoves
  DEF ManagerNext, Command, Receive

-----------------------------------------------------------------------------
(* The inductive invariant of manager, daemon loop, journal and pruning.   *)

ListedOver  == {j \in Jobs : known[j] # NoJob /\ known[j].state \in Terminal}
ListedGoing == {j \in Jobs : ListedAsGoingOn(j)}

\* What is queued speaks of recordings in use, and calls well ended only
\* those nothing works on any more.
EventsAreTrue ==
    \A e \in Queued : /\ e \in Sendable /\ e.job \in Used
                      /\ EndsWell(e) => e.job \in Complete

\* So do the rows, written and under way, and what is being pruned.
RowsAreTrue ==
    /\ \A w \in writes : w.job \in Used /\ (w.row.state = "finished" => w.job \in Complete)
    /\ \A j \in Jobs : journal[j] # NoRow =>
           j \in Used /\ (journal[j].state = "finished" => j \in Complete)
    /\ pruned \subseteq Complete

\* A dead daemon has nothing in memory.
DownIsEmpty ==
    ~up => /\ ~running /\ events = <<>> /\ Finalizing = {}
           /\ known = [j \in Jobs |-> NoJob]
           /\ writes = {} /\ pruned = {}

\* A recording listed as over is over and nothing queued says otherwise; one
\* that holds a slot is listed, or its start is queued; one that is listed as
\* going on, or will be, is at work, or its end is queued.
ListingIsTrue ==
    /\ ListedOver \subseteq Over /\ ListedOver \cap Lively = {}
    /\ SlotHolders \subseteq ListedGoing \cup Starting
    /\ running => ListedGoing \cup Lively \subseteq Busy \cup Ending

JInv ==
    /\ JTypeOK /\ MapInv /\ EndInv /\ FinalizedHasLeft
    /\ EventsAreTrue /\ RowsAreTrue /\ DownIsEmpty /\ ListingIsTrue

\* The daemon starts in it.
LEMMA InitIsJInv == JInit => JInv
<1> SUFFICES ASSUME JInit PROVE JInv
  OBVIOUS
<1>1. Init /\ TypeOK
  BY InitIsTyped DEF JInit
<1>2. /\ active = {} /\ running /\ events = <<>>
      /\ \A j \in Jobs : /\ req[j] = NoRequest /\ resolver[j].phase = "idle"
                         /\ rec[j].state = "ResolvingUrl" /\ ~rec[j].process
                         /\ finalizer[j] = "idle"
  BY <1>1 DEF Init
<1>3. Finalizing = {} /\ Queued = {} /\ SlotHolders = {}
  BY <1>2 DEF Finalizing, Queued, SlotHolders
<1>4. Lively = {} /\ ListedOver = {} /\ ListedGoing = {}
  BY <1>3 DEF Lively, ListedOver, ListedGoing, ListedAsGoingOn, JInit
<1>5. JTypeOK /\ MapInv
  BY <1>1, <1>2 DEF JInit, JTypeOK, MapInv, FreshIsBlank, CancelledIsEmpty, ActiveIsConsistent
<1>6. EndInv
  BY <1>2 DEF EndInv, EndsLast
<1> QED
  BY <1>2, <1>3, <1>4, <1>5, <1>6
  DEF JInit, JInv, FinalizedHasLeft, EventsAreTrue, RowsAreTrue, DownIsEmpty, ListingIsTrue

\* Steps of the manager, and of the recorders of a dead one.
LEMMA ManagerKeeps ==
    ASSUME JInv, ManagerNext, UNCHANGED daemonVars,
           up \/ UNCHANGED <<running, finalizer, events>>
    PROVE  JInv'
<1>1. /\ JTypeOK /\ MapInv /\ EndInv /\ FinalizedHasLeft
      /\ EventsAreTrue /\ RowsAreTrue /\ DownIsEmpty /\ ListingIsTrue
  BY DEF JInv
<1>2. MapInv' /\ EndInv'
  BY <1>1, MapInvStays, StepKeepsOrder DEF Next
<1>3. ManagerMoves
  BY <1>1, ManagerStepMoves
<1>4. Over \subseteq Over'
  BY <1>1, OverStays DEF Next, Over
<1>5. UNCHANGED <<up, known, journal, writes, keep, pruning, pruned>>
  BY DEF daemonVars
<1>6. JTypeOK'
  BY <1>1, <1>2, <1>5 DEF JTypeOK, MapInv
<1>7. EventsAreTrue'
  BY <1>1, <1>3 DEF EventsAreTrue, ManagerMoves
<1>8. RowsAreTrue'
  BY <1>1, <1>3, <1>5 DEF RowsAreTrue, ManagerMoves
<1>9. DownIsEmpty'
  BY <1>1, <1>5 DEF DownIsEmpty, Finalizing
<1>10. ListedOver' = ListedOver /\ ListedGoing' = ListedGoing
  BY <1>5 DEF ListedOver, ListedGoing, ListedAsGoingOn
<1>11. Ending \subseteq Ending' /\ Starting \subseteq Starting'
  BY <1>3 DEF Ending, Starting, ManagerMoves
<1>12. \A j \in Lively' : j \notin Lively =>
           j \notin Over /\ (running' => j \in Busy' \cup Ending')
  BY <1>3 DEF Lively, ManagerMoves
<1>13. ListingIsTrue'
  <2>1. ListedOver' \subseteq Over' /\ ListedOver' \cap Lively' = {}
    BY <1>1, <1>4, <1>10, <1>12 DEF ListingIsTrue
  <2>2. SlotHolders' \subseteq ListedGoing' \cup Starting'
    BY <1>1, <1>3, <1>10, <1>11 DEF ListingIsTrue, ManagerMoves
  <2>3. running' => ListedGoing' \cup Lively' \subseteq Busy' \cup Ending'
    BY <1>1, <1>3, <1>10, <1>11, <1>12 DEF ListingIsTrue, ManagerMoves
  <2> QED BY <2>1, <2>2, <2>3 DEF ListingIsTrue
<1> QED BY <1>2, <1>3, <1>6, <1>7, <1>8, <1>9, <1>13 DEF JInv, ManagerMoves

\* Steps that leave the manager, the queue and the listing alone.
LEMMA OthersKeep ==
    ASSUME JInv, UNCHANGED <<running, active, req, rec, resolver, finalizer, events, up, known>>,
           JTypeOK', RowsAreTrue', up \/ UNCHANGED <<writes, pruned>>
    PROVE  JInv'
<1>1. /\ MapInv /\ EndInv /\ FinalizedHasLeft
      /\ EventsAreTrue /\ DownIsEmpty /\ ListingIsTrue
  BY DEF JInv
<1>2. /\ Over' = Over /\ Used' = Used /\ Finalizing' = Finalizing /\ Queued' = Queued
      /\ SlotHolders' = SlotHolders
      /\ ListedOver' = ListedOver /\ ListedGoing' = ListedGoing
  BY DEF Over, Used, Finalizing, Queued, SlotHolders, ListedOver, ListedGoing, ListedAsGoingOn
<1>3. /\ Complete' = Complete /\ Busy' = Busy
      /\ Ending' = Ending /\ Lively' = Lively /\ Starting' = Starting
  BY <1>2 DEF Complete, Busy, Ending, Lively, Starting
<1>4. MapInv'
  BY <1>1 DEF MapInv, FreshIsBlank, CancelledIsEmpty, ActiveIsConsistent, JTypeOK
<1>5. EndInv'
  BY <1>1, <1>2 DEF EndInv, EndsLast
<1>6. FinalizedHasLeft' /\ EventsAreTrue' /\ ListingIsTrue'
  BY <1>1, <1>2, <1>3 DEF FinalizedHasLeft, EventsAreTrue, ListingIsTrue
<1>7. DownIsEmpty'
  BY <1>1, <1>2 DEF DownIsEmpty
<1> QED BY <1>4, <1>5, <1>6, <1>7 DEF JInv

-----------------------------------------------------------------------------
(* The daemon loop.                                                        *)

\* Taking the head of the queue: what remains does not contradict its end.
LEMMA HeadIsTaken ==
    ASSUME TypeOK, EndsLast(events), TakeEvent
    PROVE  /\ Head(events) \in Queued
           /\ Queued' \subseteq Queued /\ Queued \subseteq Queued' \cup {Head(events)}
           /\ Head(events).type = "finished" =>
                 \A f \in Queued' : f.job = Head(events).job => f.type = "finished"
<1> DEFINE n == Len(events)
           t == Tail(events)
<1>1. events \in Seq(Events) /\ events # <<>> /\ events' = t
  BY DEF TypeOK, TakeEvent
<1>2. /\ n \in Nat \ {0} /\ DOMAIN events = 1 .. n /\ Head(events) = events[1]
      /\ DOMAIN t = 1 .. n - 1 /\ \A i \in 1 .. n - 1 : t[i] = events[i + 1]
  BY <1>1
<1> HIDE DEF n, t
<1>3. Head(events) \in Queued
  BY <1>2 DEF Queued
<1>4. ASSUME NEW f \in Queued' PROVE \E b \in 2 .. n : f = events[b]
  <2>1. PICK i \in 1 .. n - 1 : f = t[i]
    BY <1>1, <1>2, <1>4 DEF Queued
  <2>2. i + 1 \in 2 .. n /\ f = events[i + 1]
    BY <1>2, <2>1
  <2> QED BY <2>2
<1>5. Queued' \subseteq Queued
  BY <1>2, <1>4 DEF Queued
<1>6. ASSUME NEW e \in Queued, e # Head(events) PROVE e \in Queued'
  <2>1. PICK a \in 1 .. n : e = events[a]
    BY <1>2 DEF Queued
  <2>2. a - 1 \in 1 .. n - 1 /\ t[a - 1] = events[a]
    BY <1>2, <1>6, <2>1
  <2> QED BY <1>1, <1>2, <2>1, <2>2 DEF Queued
<1>7. ASSUME Head(events).type = "finished", NEW f \in Queued', f.job = Head(events).job
      PROVE  f.type = "finished"
  <2>1. PICK b \in 2 .. n : f = events[b]
    BY <1>4
  <2> QED BY <1>2, <1>7, <2>1 DEF EndsLast
<1> QED BY <1>3, <1>5, <1>6, <1>7

\* What applying an event does to the listing and to the writes.
LEMMA WhatIsApplied ==
    ASSUME JTypeOK, NEW e \in Sendable, ApplyStarted(e) \/ ApplyProgress(e) \/ ApplyFinished(e)
    PROVE  /\ known' \in [Jobs -> KnownJobs \cup {NoJob}] /\ writes' \subseteq Writes
           /\ \A w \in writes' \ writes :
                 w.job = e.job /\ (w.row.state = "finished" => EndsWell(e))
           /\ ListedGoing' \subseteq ListedGoing \cup {e.job}
           /\ ListedOver' \subseteq ListedOver \cup {e.job}
           /\ ListedGoing \subseteq ListedGoing' \cup {e.job}
           /\ e.type = "started" => e.job \in ListedGoing'
           /\ e.type = "progress" /\ e.job \in ListedGoing => e.job \in ListedGoing'
           /\ e.type # "finished" => e.job \notin ListedOver'
           /\ e.type = "finished" => e.job \notin ListedGoing'
<1> DEFINE j == e.job
<1>1. /\ j \in Jobs /\ e.type \in {"started", "progress", "finished"}
      /\ known \in [Jobs -> KnownJobs \cup {NoJob}] /\ writes \subseteq Writes
      /\ e.type = "started" => /\ e.state \in RecordingStates \ Terminal
                               /\ e.file \in Paths \ {Merging}
      /\ e.type = "finished" => /\ e.state \in Terminal
                                /\ e.file \in (Paths \ {Merging}) \cup {NoFile}
  BY DEF Sendable, Events, JTypeOK
<1> HIDE DEF j
<1>2. NoJob \notin KnownJobs
  BY JournalAssumption
<1>3. Terminal \subseteq RecordingStates /\ "Recording" \in RecordingStates \ Terminal
  BY DEF Terminal, RecordingStates
<1>4. ASSUME NEW k \in KnownJobs, known' = [known EXCEPT ![j] = k]
      PROVE  /\ known' \in [Jobs -> KnownJobs \cup {NoJob}]
             /\ known'[j] = k /\ known'[j] # NoJob /\ \A i \in Jobs \ {j} : known'[i] = known[i]
  BY <1>1, <1>2, <1>4
<1>5. ASSUME NEW r, r.state \in {"running", "finished", "failed"}, r.file \in Paths \ {Merging},
             r = [state |-> r.state, file |-> r.file]
      PROVE  [job |-> j, row |-> r] \in Writes
  BY <1>1, <1>5 DEF Writes, Rows
<1>6. ASSUME ApplyStarted(e)
      PROVE  /\ e.type = "started"
             /\ known' \in [Jobs -> KnownJobs \cup {NoJob}] /\ writes' \subseteq Writes
             /\ known'[j] # NoJob /\ known'[j].state \notin Terminal
             /\ \A i \in Jobs \ {j} : known'[i] = known[i]
             /\ \A w \in writes' \ writes : w.job = j /\ w.row.state # "finished"
  <2> DEFINE k == [state |-> e.state, file |-> e.file]
             r == [state |-> "running", file |-> e.file]
  <2>1. /\ e.type = "started" /\ known' = [known EXCEPT ![j] = k]
        /\ writes' = writes \cup {[job |-> j, row |-> r]}
    BY <1>6 DEF ApplyStarted, j
  <2>2. k \in KnownJobs /\ k.state \notin Terminal
    BY <1>1, <2>1 DEF KnownJobs
  <2>3. [job |-> j, row |-> r] \in Writes
    BY <1>1, <1>5, <2>1
  <2>4. writes' \subseteq Writes /\ \A w \in writes' \ writes : w.job = j /\ w.row = r
    BY <1>1, <2>1, <2>3
  <2>5. r.state = "running"
    OBVIOUS
  <2>6. /\ known' \in [Jobs -> KnownJobs \cup {NoJob}]
        /\ known'[j] = k /\ known'[j] # NoJob /\ \A i \in Jobs \ {j} : known'[i] = known[i]
    BY <1>4, <2>1, <2>2
  <2> HIDE DEF k, r
  <2> QED BY <2>1, <2>2, <2>4, <2>5, <2>6
<1>7. ASSUME ApplyProgress(e)
      PROVE  /\ e.type = "progress" /\ writes' = writes
             /\ known' \in [Jobs -> KnownJobs \cup {NoJob}]
             /\ known[j] # NoJob => known'[j] # NoJob
             /\ known'[j] # NoJob => known'[j].state \notin Terminal
             /\ \A i \in Jobs \ {j} : known'[i] = known[i]
  <2>1. CASE known[j] = NoJob
    BY <1>1, <1>7, <2>1 DEF ApplyProgress, j
  <2>2. CASE known[j] # NoJob
    <3> DEFINE k == [known[j] EXCEPT !.state = "Recording"]
    <3>1. known' = [known EXCEPT ![j] = k] /\ e.type = "progress" /\ writes' = writes
      BY <1>7, <2>2 DEF ApplyProgress, j
    <3>2. known[j] \in KnownJobs
      BY <1>1, <2>2
    <3>3. k \in KnownJobs /\ k.state \notin Terminal
      BY <1>3, <3>2 DEF KnownJobs
    <3> QED BY <1>4, <3>1, <3>3
  <2> QED BY <2>1, <2>2
<1>8. ASSUME ApplyFinished(e)
      PROVE  /\ e.type = "finished"
             /\ known' \in [Jobs -> KnownJobs \cup {NoJob}] /\ writes' \subseteq Writes
             /\ known'[j] # NoJob => known'[j].state \in Terminal
             /\ \A i \in Jobs \ {j} : known'[i] = known[i]
             /\ \A w \in writes' \ writes : w.job = j /\ (w.row.state = "finished" => EndsWell(e))
  <2>0. e.type = "finished"
    BY <1>8 DEF ApplyFinished
  <2>1. CASE known[j] = NoJob
    BY <1>1, <1>8, <2>0, <2>1 DEF ApplyFinished, j
  <2>2. CASE known[j] # NoJob
    <3> DEFINE f == IF e.file = NoFile THEN known[j].file ELSE e.file
               k == [state |-> e.state, file |-> f]
               r == [state |-> JournalState(e.state), file |-> f]
    <3>1. known' = [known EXCEPT ![j] = k] /\ writes' = writes \cup {[job |-> j, row |-> r]}
      BY <1>8, <2>2 DEF ApplyFinished, j
    <3>2. f \in Paths \ {Merging}
      BY <1>1, <2>0, <2>2 DEF KnownJobs
    <3>3. k \in KnownJobs /\ k.state \in Terminal
      BY <1>1, <1>3, <2>0, <3>2 DEF KnownJobs
    <3>4. [job |-> j, row |-> r] \in Writes /\ (r.state = "finished" => EndsWell(e))
      BY <1>5, <2>0, <3>2 DEF JournalState, EndsWell
    <3> QED BY <1>1, <1>4, <2>0, <3>1, <3>3, <3>4
  <2> QED BY <2>1, <2>2
<1>9. /\ known' \in [Jobs -> KnownJobs \cup {NoJob}] /\ writes' \subseteq Writes
      /\ \A w \in writes' \ writes : w.job = j /\ (w.row.state = "finished" => EndsWell(e))
      /\ \A i \in Jobs \ {j} : known'[i] = known[i]
  BY <1>1, <1>6, <1>7, <1>8
<1>10. /\ e.type = "started" => known'[j] # NoJob
       /\ e.type = "progress" /\ known[j] # NoJob => known'[j] # NoJob
       /\ e.type # "finished" /\ known'[j] # NoJob => known'[j].state \notin Terminal
       /\ e.type = "finished" /\ known'[j] # NoJob => known'[j].state \in Terminal
  BY <1>1, <1>6, <1>7, <1>8
<1> QED BY <1>1, <1>9, <1>10 DEF ListedGoing, ListedOver, ListedAsGoingOn, j

\* The daemon takes an event, lists what it says and has it written.
LEMMA ApplyKeeps ==
    ASSUME JInv, ApplyEvent
    PROVE  JInv'
<1> DEFINE e == Head(events)
<1>1. /\ JTypeOK /\ MapInv /\ EndInv /\ FinalizedHasLeft
      /\ EventsAreTrue /\ RowsAreTrue /\ DownIsEmpty /\ ListingIsTrue
  BY DEF JInv
<1>2. /\ up /\ TakeEvent /\ UNCHANGED <<up, journal, keep, pruning, pruned>>
      /\ ApplyStarted(e) \/ ApplyProgress(e) \/ ApplyFinished(e)
  BY DEF ApplyEvent
<1>3. /\ e \in Queued /\ Queued' \subseteq Queued /\ Queued \subseteq Queued' \cup {e}
      /\ e.type = "finished" => \A f \in Queued' : f.job = e.job => f.type = "finished"
  BY <1>1, <1>2, HeadIsTaken DEF MapInv, EndInv
<1>4. UNCHANGED <<running, active, req, rec, finalizer>>
  BY <1>2 DEF TakeEvent
<1>5. /\ Over' = Over /\ Used' = Used /\ Finalizing' = Finalizing /\ SlotHolders' = SlotHolders
      /\ Complete' = Complete /\ Busy' = Busy
  BY <1>4 DEF Over, Used, Finalizing, SlotHolders, Complete, Busy
<1>6. MapInv' /\ EndInv'
  BY <1>1, <1>2, MapInvStays, StepKeepsOrder DEF Next
<1>7. /\ e \in Sendable /\ e.job \in Used /\ (EndsWell(e) => e.job \in Complete)
      /\ e.job \in Jobs /\ e.type \in {"started", "progress", "finished"}
  BY <1>1, <1>3 DEF EventsAreTrue, Used, Sendable, Events
<1>8. e.type = "finished" => e.job \in Over
  <2>1. e = events[1] /\ 1 \in DOMAIN events
    BY <1>1, <1>2 DEF MapInv, TypeOK, TakeEvent
  <2> QED BY <1>1, <2>1 DEF EndInv
<1> HIDE DEF e
<1>9. /\ known' \in [Jobs -> KnownJobs \cup {NoJob}] /\ writes' \subseteq Writes
      /\ \A w \in writes' \ writes :
            w.job = e.job /\ (w.row.state = "finished" => EndsWell(e))
      /\ ListedGoing' \subseteq ListedGoing \cup {e.job}
      /\ ListedOver' \subseteq ListedOver \cup {e.job}
      /\ ListedGoing \subseteq ListedGoing' \cup {e.job}
      /\ e.type = "started" => e.job \in ListedGoing'
      /\ e.type = "progress" /\ e.job \in ListedGoing => e.job \in ListedGoing'
      /\ e.type # "finished" => e.job \notin ListedOver'
      /\ e.type = "finished" => e.job \notin ListedGoing'
  BY <1>1, <1>2, <1>7, WhatIsApplied
<1>10. JTypeOK'
  BY <1>1, <1>2, <1>6, <1>9 DEF JTypeOK, MapInv
<1>11. FinalizedHasLeft' /\ EventsAreTrue' /\ DownIsEmpty'
  BY <1>1, <1>2, <1>3, <1>4, <1>5 DEF FinalizedHasLeft, EventsAreTrue, DownIsEmpty
<1>12. RowsAreTrue'
  BY <1>1, <1>2, <1>5, <1>7, <1>9 DEF RowsAreTrue
<1>13. ListingIsTrue'
  <2>1. /\ Lively' \subseteq Lively /\ Ending \subseteq Ending' \cup {e.job}
        /\ Starting \subseteq Starting' \cup {e.job}
        /\ e.type # "finished" => e.job \in Lively /\ Ending \subseteq Ending'
        /\ e.type = "finished" => e.job \notin Lively'
        /\ e.type # "started" => Starting \subseteq Starting'
    BY <1>3, <1>7 DEF Lively, Ending, Starting
  <2>2. ListedOver' \subseteq Over' /\ ListedOver' \cap Lively' = {}
    BY <1>1, <1>5, <1>8, <1>9, <2>1 DEF ListingIsTrue
  <2>3. SlotHolders' \subseteq ListedGoing' \cup Starting'
    <3>1. \A j \in SlotHolders : j \notin Over
      BY <1>1, WhereAJobIs
    <3> QED BY <1>1, <1>5, <1>7, <1>8, <1>9, <2>1, <3>1 DEF ListingIsTrue
  <2>4. running' => ListedGoing' \cup Lively' \subseteq Busy' \cup Ending'
    BY <1>1, <1>4, <1>5, <1>9, <2>1 DEF ListingIsTrue
  <2> QED BY <2>2, <2>3, <2>4 DEF ListingIsTrue
<1> QED BY <1>6, <1>10, <1>11, <1>12, <1>13 DEF JInv

\* The daemon forgets the recordings whose rows were pruned.
LEMMA ApplyPrunedKeeps ==
    ASSUME JInv, ApplyPruned
    PROVE  JInv'
<1>1. /\ JTypeOK /\ MapInv /\ EndInv /\ FinalizedHasLeft
      /\ EventsAreTrue /\ RowsAreTrue /\ DownIsEmpty /\ ListingIsTrue
  BY DEF JInv
<1>2. /\ up /\ known' = [j \in Jobs |-> IF j \in pruned THEN NoJob ELSE known[j]] /\ pruned' = {}
      /\ UNCHANGED <<up, journal, writes, keep, pruning>>
      /\ UNCHANGED <<running, active, req, rec, resolver, finalizer, events>> /\ vars' = vars
  BY DEF ApplyPruned, vars
<1>3. /\ Over' = Over /\ Used' = Used /\ Finalizing' = Finalizing /\ Queued' = Queued
      /\ SlotHolders' = SlotHolders
  BY <1>2 DEF Over, Used, Finalizing, Queued, SlotHolders
<1>4. /\ Complete' = Complete /\ Busy' = Busy
      /\ Ending' = Ending /\ Lively' = Lively /\ Starting' = Starting
  BY <1>2, <1>3 DEF Complete, Busy, Ending, Lively, Starting
<1>5. MapInv' /\ EndInv'
  BY <1>1, <1>2, MapInvStays, StepKeepsOrder
<1>6. JTypeOK'
  BY <1>1, <1>2, <1>5 DEF JTypeOK, MapInv
<1>7. FinalizedHasLeft' /\ EventsAreTrue' /\ RowsAreTrue' /\ DownIsEmpty'
  BY <1>1, <1>2, <1>3, <1>4 DEF FinalizedHasLeft, EventsAreTrue, RowsAreTrue, DownIsEmpty
<1>8. /\ ListedOver' \subseteq ListedOver /\ ListedGoing' \subseteq ListedGoing
      /\ \A j \in ListedGoing : j \notin pruned => j \in ListedGoing'
  BY <1>2 DEF ListedOver, ListedGoing, ListedAsGoingOn
<1>9. \A j \in pruned : j \notin SlotHolders
  BY <1>1 DEF RowsAreTrue, Complete, SlotHolders
<1>10. ListingIsTrue'
  BY <1>1, <1>2, <1>3, <1>4, <1>8, <1>9 DEF ListingIsTrue
<1> QED BY <1>5, <1>6, <1>7, <1>10 DEF JInv

\* A row that pruning takes says that the recording ended well: nothing works
\* on it any more.
LEMMA PrunableIsComplete ==
    ASSUME JInv, NEW kept
    PROVE  Prunable(kept) \subseteq Complete
  BY DEF JInv, RowsAreTrue, Prunable

\* A task writes its row; the pruning task reads, then deletes; a user deletes
\* files.
LEMMA JournalStepsKeep ==
    ASSUME JInv, (\E w \in writes : Persist(w)) \/ PruneSnapshot \/ Prune
                     \/ \E j \in Jobs : UserDeletes(j)
    PROVE  JInv'
<1>1. /\ JTypeOK /\ RowsAreTrue
      /\ active \subseteq Jobs
  BY DEF JInv, JTypeOK, TypeOK
<1>2. ASSUME UNCHANGED <<running, active, req, rec, finalizer>>
      PROVE  Complete' = Complete /\ Used' = Used
  BY <1>2 DEF Complete, Used, Finalizing
<1>3. ASSUME vars' = vars PROVE TypeOK'
  BY <1>1, <1>3 DEF JTypeOK, TypeOK, vars
<1>4. ASSUME NEW w \in writes, Persist(w) PROVE JInv'
  <2>1. /\ up /\ journal' = [journal EXCEPT ![w.job] = w.row] /\ writes' = writes \ {w}
        /\ UNCHANGED <<up, known, keep, pruning, pruned>> /\ vars' = vars
        /\ UNCHANGED <<running, active, req, rec, resolver, finalizer, events>>
    BY <1>4 DEF Persist, vars
  <2>2. w.job \in Jobs /\ w.row \in Rows
    BY <1>1 DEF JTypeOK, Writes
  <2>3. JTypeOK'
    BY <1>1, <1>3, <2>1, <2>2 DEF JTypeOK
  <2>4. RowsAreTrue'
    BY <1>1, <1>2, <2>1, <2>2 DEF RowsAreTrue, JTypeOK
  <2> QED BY <2>1, <2>3, <2>4, OthersKeep
<1>5. ASSUME PruneSnapshot PROVE JInv'
  <2>1. /\ up /\ keep' \subseteq Jobs /\ pruning' = TRUE
        /\ UNCHANGED <<up, known, journal, writes, pruned>> /\ vars' = vars
        /\ UNCHANGED <<running, active, req, rec, resolver, finalizer, events>>
    BY <1>5 DEF PruneSnapshot, vars
  <2>2. JTypeOK'
    BY <1>1, <1>3, <2>1 DEF JTypeOK
  <2>3. RowsAreTrue'
    BY <1>1, <1>2, <2>1 DEF RowsAreTrue
  <2> QED BY <2>1, <2>2, <2>3, OthersKeep
<1>6. ASSUME Prune PROVE JInv'
  <2> DEFINE P == Prunable(keep)
  <2>1. /\ up /\ journal' = [j \in Jobs |-> IF j \in P THEN NoRow ELSE journal[j]]
        /\ pruned' = pruned \cup P /\ keep' = {} /\ pruning' = FALSE
        /\ UNCHANGED <<up, known, writes>> /\ vars' = vars
        /\ UNCHANGED <<running, active, req, rec, resolver, finalizer, events>>
    BY <1>6 DEF Prune, vars
  <2>2. P \subseteq Complete /\ P \subseteq Jobs
    BY PrunableIsComplete DEF Prunable
  <2> HIDE DEF P
  <2>3. JTypeOK'
    BY <1>1, <1>3, <2>1, <2>2 DEF JTypeOK
  <2>4. RowsAreTrue'
    BY <1>1, <1>2, <2>1, <2>2 DEF RowsAreTrue
  <2> QED BY <2>1, <2>3, <2>4, OthersKeep
<1>7. ASSUME NEW j \in Jobs, UserDeletes(j) PROVE JInv'
  <2>1. /\ disk' = [disk EXCEPT ![j] = [f \in Files |-> {}]]
        /\ UNCHANGED <<running, active, req, rec, tail, resolver, proc, finalizer, events>>
        /\ UNCHANGED <<up, known, journal, writes, keep, pruning, pruned>>
    BY <1>7 DEF UserDeletes, daemonVars
  <2>2. disk' \in [Jobs -> [Files -> SUBSET Parts]]
    BY <1>1, <2>1 DEF JTypeOK, TypeOK
  <2>3. JTypeOK'
    BY <1>1, <2>1, <2>2 DEF JTypeOK, TypeOK
  <2>4. RowsAreTrue'
    BY <1>1, <1>2, <2>1 DEF RowsAreTrue
  <2> QED BY <2>1, <2>3, <2>4, OthersKeep
<1> QED BY <1>4, <1>5, <1>6, <1>7

-----------------------------------------------------------------------------
(* Death and restart.                                                      *)

\* What the daemon had in the map, and what it was finalizing, is over and
\* complete once it is dead: nothing will work on it again.
LEMMA DeathKeeps ==
    ASSUME JInv, DaemonDies
    PROVE  JInv'
<1>1. /\ JTypeOK /\ TypeOK /\ FreshIsBlank /\ RowsAreTrue
  BY DEF JInv, MapInv
<1>2. /\ ~up' /\ ~running' /\ active' = {} /\ events' = <<>>
      /\ resolver' = [j \in Jobs |-> [resolver[j] EXCEPT !.phase = "idle"]]
      /\ finalizer' = [j \in Jobs |-> "idle"] /\ known' = [j \in Jobs |-> NoJob]
      /\ writes' = {} /\ keep' = {} /\ pruning' = FALSE /\ pruned' = {}
      /\ up' \in BOOLEAN /\ running' \in BOOLEAN
      /\ UNCHANGED <<req, rec, tail, proc, disk, journal>>
  BY DEF DaemonDies
<1>3. /\ resolver' \in [Jobs -> [phase : ResolverPhases, part : Parts, title : Titles]]
      /\ \A j \in Jobs : resolver'[j].phase = "idle"
  BY <1>1, <1>2 DEF TypeOK, ResolverPhases
<1>4. TypeOK'
  BY <1>1, <1>2, <1>3 DEF TypeOK, FinalizerStages
<1>5. JTypeOK'
  BY <1>1, <1>2, <1>4 DEF JTypeOK
<1>6. MapInv'
  BY <1>1, <1>2, <1>3, <1>4 DEF MapInv, FreshIsBlank, CancelledIsEmpty, ActiveIsConsistent
<1>7. /\ Finalizing' = {} /\ Queued' = {} /\ SlotHolders' = {} /\ Used' = Used
  BY <1>2 DEF Finalizing, Queued, SlotHolders, Used
<1>8. /\ Complete' = Used /\ Lively' = {}
  BY <1>2, <1>7 DEF Complete, Lively
<1>9. ListedOver' = {}
  BY <1>2 DEF ListedOver
<1>10. EndInv'
  BY <1>2 DEF EndInv, EndsLast
<1>11. FinalizedHasLeft' /\ EventsAreTrue' /\ DownIsEmpty'
  BY <1>2, <1>7 DEF FinalizedHasLeft, EventsAreTrue, DownIsEmpty
<1>12. RowsAreTrue'
  BY <1>1, <1>2, <1>7, <1>8 DEF RowsAreTrue
<1>13. ListingIsTrue'
  BY <1>2, <1>7, <1>9 DEF ListingIsTrue
<1> QED BY <1>5, <1>6, <1>10, <1>11, <1>12, <1>13 DEF JInv

\* After a restart nothing is listed as going on: the rows of what was running
\* have become interrupted, and every row is of a recording that is over.
LEMMA RestartKeeps ==
    ASSUME JInv, DaemonStarts
    PROVE  JInv'
<1> DEFINE rows == [j \in Jobs |-> IF j \in Prunable({}) THEN NoRow ELSE Recovered(journal[j])]
<1>1. /\ JTypeOK /\ TypeOK /\ MapInv /\ EndInv /\ FinalizedHasLeft /\ RowsAreTrue
      /\ Finalizing = {} /\ events = <<>> /\ writes = {} /\ pruned = {} /\ active = {} /\ ~up
  BY DEF JInv, MapInv, DownIsEmpty, CancelledIsEmpty, DaemonStarts
<1>2. /\ up' /\ running' /\ up' \in BOOLEAN /\ running' \in BOOLEAN
      /\ journal' = rows /\ known' = [j \in Jobs |-> Loaded(rows[j])]
      /\ UNCHANGED <<active, req, rec, tail, resolver, proc, disk, finalizer, events>>
      /\ UNCHANGED <<writes, keep, pruning, pruned>>
  BY DEF DaemonStarts
<1>3. NoRow \notin Rows /\ NoJob \notin KnownJobs
  BY JournalAssumption
<1>4. ASSUME NEW j \in Jobs
      PROVE  /\ rows[j] \in Rows \cup {NoRow}
             /\ rows[j] # NoRow => /\ journal[j] # NoRow /\ rows[j].state # "running"
                                   /\ rows[j].state = "finished" => journal[j].state = "finished"
  <2>1. rows[j] = NoRow \/ rows[j] = Recovered(journal[j])
    OBVIOUS
  <2>2. journal[j] \in Rows \cup {NoRow}
    BY <1>1 DEF JTypeOK
  <2> HIDE DEF rows
  <2>3. CASE journal[j] = NoRow
    BY <2>1, <2>3 DEF Recovered
  <2>4. CASE journal[j] # NoRow
    <3>1. journal[j] \in Rows
      BY <2>2, <2>4
    <3>2. CASE rows[j] = NoRow
      BY <3>2
    <3>3. CASE rows[j] = Recovered(journal[j]) /\ journal[j].state = "running"
      <4>1. rows[j] = [journal[j] EXCEPT !.state = "interrupted"]
        BY <2>4, <3>3 DEF Recovered
      <4>2. rows[j] \in Rows /\ rows[j].state = "interrupted"
        BY <3>1, <4>1 DEF Rows
      <4> QED BY <2>4, <4>2
    <3>4. CASE rows[j] = Recovered(journal[j]) /\ journal[j].state # "running"
      <4>1. rows[j] = journal[j]
        BY <3>4 DEF Recovered
      <4> QED BY <2>4, <3>1, <3>4, <4>1
    <3> QED BY <2>1, <3>2, <3>3, <3>4
  <2> QED BY <2>3, <2>4
<1> HIDE DEF rows
<1>5. ASSUME NEW j \in Jobs
      PROVE  /\ Loaded(rows[j]) \in KnownJobs \cup {NoJob}
             /\ Loaded(rows[j]) # NoJob => /\ rows[j] # NoRow
                                           /\ Loaded(rows[j]).state \in Terminal
  <2>1. CASE rows[j] = NoRow
    BY <2>1 DEF Loaded
  <2>2. CASE rows[j] # NoRow
    <3>1. rows[j] \in Rows /\ rows[j].state # "running"
      BY <1>4, <2>2
    <3>2. Loaded(rows[j]) \in KnownJobs /\ Loaded(rows[j]).state \in Terminal
      BY <2>2, <3>1 DEF Loaded, Rows, KnownJobs, Terminal, RecordingStates
    <3> QED BY <2>2, <3>2
  <2> QED BY <2>1, <2>2
<1>6. TypeOK'
  BY <1>1, <1>2 DEF TypeOK
<1>7. JTypeOK'
  <2>1. journal' \in [Jobs -> Rows \cup {NoRow}]
    <3>1. rows \in [Jobs -> Rows \cup {NoRow}]
      BY <1>4 DEF rows
    <3> QED BY <1>2, <3>1
  <2>2. known' \in [Jobs -> KnownJobs \cup {NoJob}]
    BY <1>2, <1>5
  <2> QED BY <1>1, <1>2, <1>6, <2>1, <2>2 DEF JTypeOK
<1>8. MapInv'
  BY <1>1, <1>2, <1>6 DEF MapInv, FreshIsBlank, CancelledIsEmpty, ActiveIsConsistent
<1>9. /\ Finalizing' = {} /\ Queued' = {} /\ SlotHolders' = {} /\ Used' = Used
      /\ Complete' = Complete /\ Over' = Used
  BY <1>1, <1>2 DEF Finalizing, Queued, SlotHolders, Used, Complete, Over
<1>10. Lively' = {} /\ ListedGoing' = {}
  BY <1>2, <1>5, <1>9 DEF Lively, ListedGoing, ListedAsGoingOn
<1>11. ListedOver' \subseteq Used
  BY <1>1, <1>2, <1>4, <1>5 DEF ListedOver, RowsAreTrue
<1>12. EndInv'
  BY <1>1, <1>2, <1>9 DEF EndInv, EndsLast, Finalizing
<1>13. FinalizedHasLeft' /\ EventsAreTrue' /\ DownIsEmpty'
  BY <1>2, <1>9 DEF FinalizedHasLeft, EventsAreTrue, DownIsEmpty
<1>14. RowsAreTrue'
  BY <1>1, <1>2, <1>4, <1>9 DEF RowsAreTrue
<1>15. ListingIsTrue'
  BY <1>9, <1>10, <1>11 DEF ListingIsTrue
<1> QED BY <1>7, <1>8, <1>12, <1>13, <1>14, <1>15 DEF JInv

-----------------------------------------------------------------------------
(* The theorems.                                                           *)

\* Every step keeps the invariant, one lemma for each kind of step.
LEMMA StepKeepsJInv ==
    ASSUME JInv, [JNext]_journalVars
    PROVE  JInv'
<1>1. ASSUME up, ManagerNext, UNCHANGED daemonVars PROVE JInv'
  BY <1>1, ManagerKeeps
<1>2. ASSUME NEW j \in Jobs, NEW p \in Parts, Recorder(j, p), UNCHANGED daemonVars
      PROVE  JInv'
  <2>1. UNCHANGED <<running, finalizer, events>>
    BY <1>2 DEF Recorder, RecorderWrites, RecorderFreezes, RecorderExits
  <2>2. ManagerNext
    BY <1>2 DEF ManagerNext
  <2> QED BY <1>2, <2>1, <2>2, ManagerKeeps
<1>3. ASSUME UNCHANGED journalVars PROVE JInv'
  <2>1. UNCHANGED vars /\ UNCHANGED <<up, known, journal, writes, keep, pruning, pruned>>
    BY <1>3 DEF journalVars, daemonVars
  <2>2. UNCHANGED <<running, active, req, rec, tail, resolver, proc, disk, finalizer, events>>
    BY <2>1 DEF vars
  <2>3. JTypeOK /\ RowsAreTrue
    BY DEF JInv
  <2>4. JTypeOK'
    BY <2>1, <2>2, <2>3 DEF JTypeOK, TypeOK
  <2>5. RowsAreTrue'
    BY <2>1, <2>2, <2>3 DEF RowsAreTrue, Used, Complete, Finalizing
  <2> QED BY <2>1, <2>2, <2>4, <2>5, OthersKeep
<1> QED
  BY <1>1, <1>2, <1>3, ApplyKeeps, ApplyPrunedKeeps, JournalStepsKeep, DeathKeeps, RestartKeeps
  DEF JNext

\* The invariant holds in every reachable state.
THEOREM DaemonIsConsistent == JSpec => []JInv
<1>1. JInv /\ [JNext]_journalVars => JInv'
  BY StepKeepsJInv
<1> QED BY <1>1, InitIsJInv, PTL DEF JSpec

\* The daemon's state is well typed, through every death and restart.
THEOREM DaemonIsTyped == JSpec => []JTypeOK
<1>1. JInv => JTypeOK
  BY DEF JInv
<1> QED BY <1>1, DaemonIsConsistent, PTL

\* With no event under way, the recordings listed as going on are those that
\* hold a slot or are being finalized (DaemonState::apply, run_manager).
THEOREM ListingFollowsTheManager == JSpec => []ClientsSeeTheManager
<1>1. JInv => ClientsSeeTheManager
  <2> SUFFICES ASSUME JInv, running, events = <<>>, NEW j \in Jobs
               PROVE  /\ HoldsSlot(j) => ListedAsGoingOn(j)
                      /\ ListedAsGoingOn(j) => HoldsSlot(j) \/ finalizer[j] # "idle"
    BY DEF ClientsSeeTheManager
  <2>1. Queued = {} /\ ListingIsTrue
    BY DEF Queued, JInv
  <2>2. Starting = {} /\ Ending = {}
    BY <2>1 DEF Starting, Ending
  <2>3. j \in SlotHolders => j \in ListedGoing
    BY <2>1, <2>2 DEF ListingIsTrue
  <2>4. j \in ListedGoing => j \in SlotHolders \/ j \in Finalizing
    BY <2>1, <2>2 DEF ListingIsTrue, Busy
  <2> QED BY <2>3, <2>4 DEF SlotHolders, HoldsSlot, ListedGoing, Finalizing
<1> QED BY <1>1, DaemonIsConsistent, PTL

\* A recording that was shown as over is never shown as going on again, by an
\* event that was still queued or after a restart (DaemonState::apply).
THEOREM TheEndIsFinal == JSpec => EndIsFinal
<1>1. JInv /\ [JNext]_journalVars =>
          [\A j \in Jobs : known[j] # NoJob /\ known[j].state \in Terminal
                               => ~ListedAsGoingOn(j)']_journalVars
  <2> SUFFICES ASSUME JInv, [JNext]_journalVars,
                      NEW j \in Jobs, known[j] # NoJob, known[j].state \in Terminal
               PROVE  ~ListedAsGoingOn(j)'
    OBVIOUS
  <2>1. j \in ListedOver /\ j \notin ListedGoing
    BY DEF ListedOver, ListedGoing, ListedAsGoingOn
  <2>2. ASSUME known' = known PROVE ~ListedAsGoingOn(j)'
    BY <2>2 DEF ListedAsGoingOn
  <2>3. ASSUME ApplyEvent PROVE ~ListedAsGoingOn(j)'
    <3> DEFINE e == Head(events)
    <3>1. /\ JTypeOK /\ EventsAreTrue /\ ListingIsTrue /\ TypeOK /\ EndsLast(events) /\ TakeEvent
          /\ ApplyStarted(e) \/ ApplyProgress(e) \/ ApplyFinished(e)
      BY <2>3 DEF JInv, MapInv, EndInv, ApplyEvent
    <3>2. e \in Queued
      BY <3>1, HeadIsTaken
    <3>3. e \in Sendable /\ e.job \in Jobs
      BY <3>1, <3>2 DEF EventsAreTrue, Used
    <3> HIDE DEF e
    <3>4. /\ ListedGoing' \subseteq ListedGoing \cup {e.job}
          /\ e.type = "finished" => e.job \notin ListedGoing'
      BY <3>1, <3>3, WhatIsApplied
    <3>5. e.type # "finished" => e.job \in Lively
      BY <3>2, <3>3 DEF Lively
    <3>6. j \notin ListedGoing'
      BY <2>1, <3>1, <3>4, <3>5 DEF ListingIsTrue
    <3> QED BY <3>6 DEF ListedGoing
  <2>4. ASSUME ApplyPruned \/ DaemonDies PROVE ~ListedAsGoingOn(j)'
    BY <2>4 DEF ApplyPruned, DaemonDies, ListedAsGoingOn
  <2>5. ASSUME DaemonStarts PROVE FALSE
    BY <2>5 DEF DaemonStarts, JInv, DownIsEmpty
  <2>6. ASSUME ~(ApplyEvent \/ ApplyPruned \/ DaemonDies \/ DaemonStarts) PROVE known' = known
    BY <2>6 DEF JNext, journalVars, daemonVars, Persist, PruneSnapshot, Prune, UserDeletes
  <2> QED BY <2>2, <2>3, <2>4, <2>5, <2>6
<1> QED BY <1>1, DaemonIsConsistent, PTL DEF JSpec, EndIsFinal

\* Pruning takes no row of a recording that is active or being finalized,
\* although it deletes by a list it read long before: only what nothing works
\* on any more is journalled as finished (prune_missing_recordings).
THEOREM WorkIsSpared == JSpec => PruningSparesWork
<1>1. JInv /\ [JNext]_journalVars =>
          [\A j \in Jobs : journal[j] # NoRow /\ journal'[j] = NoRow
                               => j \notin active /\ finalizer[j] = "idle"]_journalVars
  <2> SUFFICES ASSUME JInv, [JNext]_journalVars,
                      NEW j \in Jobs, journal[j] # NoRow, journal'[j] = NoRow
               PROVE  j \in Complete
    BY DEF Complete, Finalizing
  <2>1. NoRow \notin Rows /\ JTypeOK
    BY JournalAssumption DEF JInv
  <2>2. ASSUME NEW w \in writes, Persist(w) PROVE FALSE
    <3>1. w.row \in Rows /\ w.job \in Jobs
      BY <2>1 DEF JTypeOK, Writes
    <3> QED BY <2>1, <2>2, <3>1 DEF Persist, JTypeOK
  <2>3. ASSUME Prune PROVE j \in Complete
    BY <2>3, PrunableIsComplete DEF Prune
  <2>4. ASSUME DaemonStarts PROVE j \in Complete
    <3>1. j \notin Prunable({}) => Recovered(journal[j]) # NoRow
      <4>1. journal[j] \in Rows
        BY <2>1 DEF JTypeOK
      <4>2. [journal[j] EXCEPT !.state = "interrupted"] \in Rows
        BY <4>1 DEF Rows
      <4> QED BY <2>1, <4>2 DEF Recovered
    <3>2. j \in Prunable({})
      BY <2>4, <3>1 DEF DaemonStarts
    <3> QED BY <3>2, PrunableIsComplete
  <2>5. ASSUME ~(Prune \/ DaemonStarts \/ \E w \in writes : Persist(w)) PROVE journal' = journal
    BY <2>5 DEF JNext, journalVars, daemonVars, ApplyEvent, ApplyPruned, PruneSnapshot,
                UserDeletes, DaemonDies
  <2> QED BY <2>2, <2>3, <2>4, <2>5
<1> QED BY <1>1, DaemonIsConsistent, PTL DEF JSpec, PruningSparesWork

-----------------------------------------------------------------------------
(* The names that are told.                                                *)

\* Recordings that had no gap.
Straight == {j \in Jobs : rec[j].retry_count = 0}

\* Recordings of which more may be told; those of a daemon that died are not.
Told == active \cup Finalizing \cup {e.job : e \in Queued}

\* After the path under the resolved title a queue does not tell the old one.
NamesInOrder(s, S) ==
    \A a, b \in DOMAIN s :
        a < b /\ s[a].job \in S /\ s[a].job = s[b].job /\ s[a].file = Renamed
            => s[b].file # Base

\* The listing has the resolved path, or is about to be told it.
UpToDate(j) ==
    \/ \E e \in Queued : e.job = j /\ e.file = Renamed
    \/ /\ \A e \in Queued : e.job = j => e.file # Base
       /\ known[j] # NoJob => known[j].file # Base

NameInv ==
    /\ \A j \in Jobs : req[j] = NoRequest => rec[j].title = "requested"
    /\ \A j \in Straight : resolver[j].phase # "idle" => rec[j].title = "requested"
    /\ \A e \in Queued : e.job \in Straight /\ e.file = Renamed => rec[e.job].title = "resolved"
    /\ \A e \in Queued : e.type # "started" => e.file \notin {Base, Renamed}
    /\ NamesInOrder(events, Straight)
    /\ \A j \in Straight : j \in Told /\ rec[j].title = "resolved" => UpToDate(j)

\* A queue goes on with one event more, and without its first.
LEMMA NamesGoOn ==
    ASSUME NEW S, NEW s \in Seq(Events), NamesInOrder(s, S), NEW e,
           e.job \in S /\ e.file = Base =>
               \A a \in DOMAIN s : s[a].job = e.job => s[a].file # Renamed
    PROVE  NamesInOrder(Append(s, e), S)
<1> DEFINE t == Append(s, e)
<1>1. /\ DOMAIN t = 1 .. Len(s) + 1 /\ DOMAIN s = 1 .. Len(s) /\ Len(s) \in Nat
      /\ t[Len(s) + 1] = e /\ \A i \in 1 .. Len(s) : t[i] = s[i]
  OBVIOUS
<1> HIDE DEF t
<1>2. ASSUME NEW a \in DOMAIN t, NEW b \in DOMAIN t, a < b, t[a].job \in S,
             t[a].job = t[b].job, t[a].file = Renamed
      PROVE  t[b].file # Base
  <2>1. a \in 1 .. Len(s) /\ t[a] = s[a]
    BY <1>1, <1>2
  <2>2. CASE b = Len(s) + 1
    BY <1>1, <1>2, <2>1, <2>2
  <2>3. CASE b # Len(s) + 1
    <3>1. b \in 1 .. Len(s) /\ t[b] = s[b]
      BY <1>1, <2>3
    <3> QED BY <1>1, <1>2, <2>1, <3>1 DEF NamesInOrder
  <2> QED BY <2>2, <2>3
<1> QED BY <1>2 DEF t, NamesInOrder

LEMMA NamesGoOnWithout ==
    ASSUME NEW S, NEW s \in Seq(Events), s # <<>>, NamesInOrder(s, S)
    PROVE  /\ NamesInOrder(Tail(s), S)
           /\ Head(s).job \in S /\ Head(s).file = Renamed =>
                 \A a \in DOMAIN Tail(s) :
                     Tail(s)[a].job = Head(s).job => Tail(s)[a].file # Base
<1> DEFINE t == Tail(s)
           h == Head(s)
<1>1. /\ DOMAIN s = 1 .. Len(s) /\ Len(s) \in Nat \ {0} /\ DOMAIN t = 1 .. Len(s) - 1
      /\ \A i \in DOMAIN t : t[i] = s[i + 1]
      /\ h = s[1]
  OBVIOUS
<1> HIDE DEF t, h
<1>2. NamesInOrder(t, S)
  BY <1>1 DEF NamesInOrder
<1>3. ASSUME h.job \in S, h.file = Renamed, NEW a \in DOMAIN t, t[a].job = h.job
      PROVE  t[a].file # Base
  <2>1. 1 \in DOMAIN s /\ a + 1 \in DOMAIN s /\ 1 < a + 1 /\ t[a] = s[a + 1]
    BY <1>1
  <2> QED BY <1>1, <1>3, <2>1 DEF NamesInOrder
<1> QED BY <1>2, <1>3 DEF t, h

\* An event of a recording at work that tells neither of its paths.
Plain(e) ==
    /\ e \in Events /\ e.type # "started" /\ e.file \notin {Base, Renamed}
    /\ e.job \in active \cup Finalizing

\* A step that starts nothing and renames nothing.
TellsNoStart ==
    /\ UNCHANGED req
    /\ \A j \in Jobs :
         /\ rec'[j].title = rec[j].title
         /\ rec'[j].retry_count = 0 => /\ rec[j].retry_count = 0
                                       /\ resolver'[j].phase # "idle" => resolver[j].phase # "idle"
    /\ active' \subseteq active /\ Finalizing' \subseteq active \cup Finalizing
    /\ \/ events' = events
       \/ \E e \in Events : Plain(e) /\ events' = Append(events, e)
       \/ \E e, f \in Events : Plain(e) /\ Plain(f) /\ events' = events \o <<e, f>>

\* Of the manager's steps all but the insertion and the answer are of this kind.
LEMMA FewStepsTell ==
    ASSUME TypeOK, ManagerNext
    PROVE  \/ TellsNoStart
           \/ \E j \in Jobs, r \in Requests : Start(j, r) \/ DownloadVod(j, r)
           \/ \E j \in Jobs : ReceiveRecorder(j)
<1>1. /\ rec \in [Jobs -> ActiveRecordings] /\ active \subseteq Jobs
      /\ resolver \in [Jobs -> [phase : ResolverPhases, part : Parts, title : Titles]]
      /\ finalizer \in [Jobs -> FinalizerStages]
  BY DEF TypeOK
<1>2. {NoFile, Corrected} \cap {Base, Renamed} = {}
  BY ConstantsAssumption DEF NoFile, Renamed, Corrected, Base
<1>3. ASSUME NEW j \in Jobs
      PROVE  /\ Progress(j) \in Events /\ Progress(j).type = "progress"
             /\ Progress(j).job = j /\ Progress(j).file \notin {Base, Renamed}
  BY <1>2, ProgressIsTyped DEF Progress
<1>4. ASSUME NEW j \in Jobs, NEW s \in Terminal, NEW f \in {NoFile, Corrected}
      PROVE  /\ Finished(j, s, f) \in Events /\ Finished(j, s, f).type = "finished"
             /\ Finished(j, s, f).job = j /\ Finished(j, s, f).file \notin {Base, Renamed}
  BY <1>2, <1>4, FinishedIsTyped DEF Finished, Paths, Files
<1>5. ASSUME NEW S \in SUBSET active, NEW T \in SUBSET S, Remove(S, T),
             UNCHANGED <<req, resolver, events>>
      PROVE  TellsNoStart
  <2>1. \A j \in Jobs : /\ rec'[j].title = rec[j].title
                        /\ rec'[j].retry_count = rec[j].retry_count
    BY <1>1, <1>5 DEF Remove, ActiveRecordings
  <2>2. active' \subseteq active /\ Finalizing' \subseteq active \cup Finalizing
    BY <1>1, <1>5 DEF Remove, StartFinalizer, Finalizing
  <2> QED BY <1>5, <2>1, <2>2 DEF TellsNoStart
<1>6. ASSUME NEW k \in Jobs, Stop(k) PROVE TellsNoStart
  BY <1>5, <1>6 DEF Stop
<1>7. ASSUME StopAll PROVE TellsNoStart
  BY <1>5, <1>7 DEF StopAll, SlotHolders
<1>8. ASSUME Cancel PROVE TellsNoStart
  BY <1>8 DEF Cancel, TellsNoStart, Finalizing
<1>9. ASSUME NEW k \in Jobs, Resolver(k) \/ DropAnswer(k) PROVE TellsNoStart
  <2>1. /\ UNCHANGED <<active, req, rec, finalizer, events>> /\ resolver[k].phase # "idle"
        /\ \A j \in Jobs \ {k} : resolver'[j] = resolver[j]
    BY <1>1, <1>9 DEF Resolver, ResolverSpawns, ResolverRefuses, DropAnswer
  <2>2. Finalizing' = Finalizing
    BY <2>1 DEF Finalizing
  <2> QED BY <2>1, <2>2 DEF TellsNoStart
<1>10. ASSUME NEW k \in Jobs, NEW p \in Parts, Recorder(k, p) PROVE TellsNoStart
  BY <1>10 DEF Recorder, RecorderWrites, RecorderFreezes, RecorderExits, TellsNoStart, Finalizing
<1>11. ASSUME NEW k \in Jobs, ReceiveRefusal(k) PROVE TellsNoStart
  <2> DEFINE e == Finished(k, "Failed", NoFile)
  <2>1. /\ UNCHANGED <<active, req, finalizer>> /\ k \in active /\ resolver[k].phase # "idle"
        /\ \A j \in Jobs \ {k} : rec'[j] = rec[j] /\ resolver'[j] = resolver[j]
        /\ rec'[k] = [rec[k] EXCEPT !.state = "Failed"] /\ events' = Append(events, e)
    BY <1>1, <1>11 DEF ReceiveRefusal
  <2>2. rec'[k].title = rec[k].title /\ rec'[k].retry_count = rec[k].retry_count
    BY <1>1, <2>1 DEF ActiveRecordings
  <2>3. e \in Events /\ Plain(e)
    BY <1>4, <2>1 DEF Plain, Terminal
  <2> HIDE DEF e
  <2>4. Finalizing' = Finalizing
    BY <2>1 DEF Finalizing
  <2> QED BY <2>1, <2>2, <2>3, <2>4 DEF TellsNoStart
<1>12. ASSUME NEW k \in Jobs, PollAlive(k) \/ PollStalled(k) \/ PollExit(k) PROVE TellsNoStart
  <2>1. /\ UNCHANGED req /\ k \in active /\ active' \subseteq active
        /\ \A j \in Jobs \ {k} : /\ rec'[j] = rec[j] /\ resolver'[j] = resolver[j]
                                 /\ finalizer'[j] = finalizer[j]
    BY <1>1, <1>12 DEF PollAlive, PollStalled, PollExit, PollSucceeded, PollRetries,
                       PollGivesUp, Polled, StartFinalizer
  <2>2. Finalizing' \subseteq active \cup Finalizing
    BY <2>1 DEF Finalizing
  <2>3. /\ rec'[k].title = rec[k].title
        /\ rec'[k].retry_count = 0 => /\ rec[k].retry_count = 0
                                      /\ resolver'[k].phase # "idle" => resolver[k].phase # "idle"
    <3>1. \/ rec'[k] = rec[k] /\ resolver'[k] = resolver[k]
          \/ /\ \E s \in {"Finished", "Failed"} : rec'[k] = [rec[k] EXCEPT !.state = s]
             /\ resolver'[k] = resolver[k]
          \/ rec'[k] = [rec[k] EXCEPT !.state = "ResolvingUrl", !.process = FALSE,
                                      !.retry_count = rec[k].retry_count + 1]
      BY <1>1, <1>12 DEF PollAlive, PollStalled, PollExit, PollSucceeded, PollRetries,
                         PollGivesUp
    <3>2. rec[k] \in ActiveRecordings /\ rec[k].retry_count \in Nat
      BY <1>1 DEF ActiveRecordings
    <3>3. CASE rec'[k] = [rec[k] EXCEPT !.state = "ResolvingUrl", !.process = FALSE,
                                        !.retry_count = rec[k].retry_count + 1]
      <4>1. rec'[k].retry_count = rec[k].retry_count + 1 /\ rec'[k].title = rec[k].title
        BY <3>2, <3>3 DEF ActiveRecordings
      <4> QED BY <3>2, <4>1
    <3>4. CASE /\ \E s \in {"Finished", "Failed"} : rec'[k] = [rec[k] EXCEPT !.state = s]
               /\ resolver'[k] = resolver[k]
      BY <3>2, <3>4 DEF ActiveRecordings
    <3> QED BY <3>1, <3>3, <3>4
  <2> DEFINE p == Progress(k)
             f == Finished(k, "Failed", NoFile)
  <2>4. p \in Events /\ f \in Events /\ Plain(p) /\ Plain(f)
    BY <1>3, <1>4, <2>1 DEF Plain, Terminal
  <2>5. events' = Append(events, p) \/ events' = events \o <<p, f>>
    BY <1>12 DEF PollAlive, PollStalled, PollExit, PollSucceeded, PollRetries, PollGivesUp
  <2> HIDE DEF p, f
  <2> QED BY <2>1, <2>2, <2>3, <2>4, <2>5 DEF TellsNoStart
<1>13. ASSUME NEW k \in Jobs, Finalizer(k) PROVE TellsNoStart
  <2>1. /\ UNCHANGED <<active, req, rec, resolver>> /\ k \in Finalizing
        /\ \A j \in Jobs \ {k} : finalizer'[j] = finalizer[j]
        /\ \/ events' = events
           \/ \E f \in {NoFile, Corrected} : events' = Append(events, Finished(k, "Finished", f))
    BY <1>1, <1>13 DEF Finalizer, FinalizerStep, Merge, MergeFails, RenameMerged,
       RenameMergedFails, DeleteParts, CorrectExtension, KeepExtension, Announce, Finalizing
  <2>2. Finalizing' \subseteq Finalizing
    BY <2>1 DEF Finalizing
  <2>3. \A f \in {NoFile, Corrected} : /\ Finished(k, "Finished", f) \in Events
                                       /\ Plain(Finished(k, "Finished", f))
    BY <1>4, <2>1 DEF Plain, Terminal
  <2>4. \/ events' = events
        \/ \E e \in Events : Plain(e) /\ events' = Append(events, e)
    BY <2>1, <2>3
  <2> QED BY <2>1, <2>2, <2>4 DEF TellsNoStart
<1> QED BY <1>6, <1>7, <1>8, <1>9, <1>10, <1>11, <1>12, <1>13
    DEF ManagerNext, Command, Receive

\* Nothing is told of the names and nothing of the listing is changed.
LEMMA TellingNothing ==
    ASSUME JInv, NameInv, TellsNoStart, UNCHANGED known
    PROVE  NameInv'
<1>1. TypeOK /\ events \in Seq(Events) /\ Straight' \subseteq Straight
  BY DEF JInv, MapInv, TypeOK, TellsNoStart, Straight
<1>2. NamesInOrder(events', Straight')
  <2>1. NamesInOrder(events, Straight')
    BY <1>1 DEF NameInv, NamesInOrder
  <2>2. ASSUME NEW e \in Events, Plain(e), events' = Append(events, e)
        PROVE  NamesInOrder(events', Straight')
    BY <1>1, <2>1, <2>2, NamesGoOn DEF Plain
  <2>3. ASSUME NEW e \in Events, NEW f \in Events, Plain(e), Plain(f),
               events' = events \o <<e, f>>
        PROVE  NamesInOrder(events', Straight')
    <3> DEFINE s == Append(events, e)
    <3>1. s \in Seq(Events) /\ events' = Append(s, f)
      BY <1>1, <2>3
    <3>2. NamesInOrder(s, Straight')
      BY <1>1, <2>1, <2>3, NamesGoOn DEF Plain
    <3> HIDE DEF s
    <3>3. f.file # Base
      BY <2>3 DEF Plain
    <3>4. NamesInOrder(Append(s, f), Straight')
      BY <3>1, <3>2, <3>3, NamesGoOn
    <3> QED BY <3>1, <3>4
  <2> QED BY <2>1, <2>2, <2>3 DEF TellsNoStart
<1>3. Queued \subseteq Queued' /\ \A e \in Queued' \ Queued : Plain(e)
  <2>1. CASE events' = events
    BY <2>1 DEF Queued
  <2>2. ASSUME NEW e \in Events, Plain(e), events' = Append(events, e)
        PROVE  Queued \subseteq Queued' /\ \A f \in Queued' \ Queued : Plain(f)
    BY <1>1, <2>2, SendingAdds
  <2>3. ASSUME NEW e \in Events, NEW f \in Events, Plain(e), Plain(f),
               events' = events \o <<e, f>>
        PROVE  Queued \subseteq Queued' /\ \A g \in Queued' \ Queued : Plain(g)
    <3>1. Queued' = Queued \cup {e, f}
      BY <1>1, <2>3, SendingTwoAdds
    <3> QED BY <2>3, <3>1
  <2> QED BY <2>1, <2>2, <2>3 DEF TellsNoStart
<1>4. Told' \subseteq Told
  <2>1. \A e \in Queued' \ Queued : e.job \in active \cup Finalizing
    BY <1>3 DEF Plain
  <2> QED BY <2>1 DEF Told, TellsNoStart
<1>5. \A e \in Queued' : e \in Queued \/ e.file \notin {Base, Renamed}
  BY <1>3 DEF Plain
<1>6. \A j \in Jobs : rec'[j].title = rec[j].title /\ req'[j] = req[j]
  BY DEF TellsNoStart
<1>7. ASSUME NEW e \in Queued', e.job \in Straight', e.file = Renamed
      PROVE  rec'[e.job].title = "resolved"
  <2>1. e \in Queued /\ e.job \in Jobs
    BY <1>5, <1>7 DEF Straight
  <2> QED BY <1>1, <1>6, <1>7, <2>1 DEF NameInv
<1>8. \A j \in Straight' : resolver'[j].phase # "idle" => rec'[j].title = "requested"
  BY <1>1, <1>6 DEF NameInv, TellsNoStart, Straight
<1>9. ASSUME NEW j \in Straight', j \in Told', rec'[j].title = "resolved" PROVE UpToDate(j)'
  <2>1. j \in Jobs /\ UpToDate(j)
    BY <1>1, <1>4, <1>6, <1>9 DEF NameInv, Straight
  <2> QED BY <1>3, <1>5, <2>1 DEF UpToDate
<1>10. \A j \in Jobs : req'[j] = NoRequest => rec'[j].title = "requested"
  BY <1>6 DEF NameInv
<1>11. \A e \in Queued' : e.type # "started" => e.file \notin {Base, Renamed}
  BY <1>5 DEF NameInv
<1> QED BY <1>2, <1>7, <1>8, <1>9, <1>10, <1>11 DEF NameInv

\* A recording is inserted under the title it was asked for.
LEMMA TellingAStart ==
    ASSUME JInv, NameInv, UNCHANGED known,
           NEW k \in Jobs, NEW r \in Requests, Start(k, r) \/ DownloadVod(k, r)
    PROVE  NameInv'
<1> DEFINE e == Started(k, "ResolvingUrl", Base)
<1>1. /\ req[k] = NoRequest /\ req' = [req EXCEPT ![k] = r] /\ active' = active \cup {k}
      /\ resolver' = [resolver EXCEPT ![k].phase = "working"]
      /\ events' = Append(events, e) /\ UNCHANGED <<rec, finalizer>>
  BY DEF Start, DownloadVod, Insert
<1>2. /\ TypeOK /\ events \in Seq(Events) /\ req \in [Jobs -> Requests \cup {NoRequest}]
      /\ resolver \in [Jobs -> [phase : ResolverPhases, part : Parts, title : Titles]]
      /\ Straight' = Straight /\ Finalizing' = Finalizing
  BY <1>1 DEF JInv, MapInv, TypeOK, Straight, Finalizing
<1>3. /\ e \in Events /\ e.type = "started" /\ e.job = k /\ e.file = Base
  <2>1. Base \in Paths
    BY ConstantsAssumption DEF Paths, Files, Parts, Base
  <2> QED BY <2>1, StartedIsTyped DEF Started, RecordingStates
<1> HIDE DEF e
<1>4. Queued' = Queued \cup {e} /\ Base # Renamed
  BY <1>1, <1>2, <1>3, SendingAdds, ConstantsAssumption DEF Base, Renamed
<1>5. rec[k].title = "requested" /\ \A f \in Queued : f.job # k
  BY <1>1 DEF NameInv, JInv, EventsAreTrue, Used
<1>6. NamesInOrder(events', Straight')
  <2>1. NamesInOrder(events, Straight)
    BY DEF NameInv
  <2>2. \A a \in DOMAIN events : events[a].job # k
    BY <1>5 DEF Queued
  <2> QED BY <1>1, <1>2, <1>3, <2>1, <2>2, NamesGoOn
<1>7. ASSUME NEW j \in Straight', j \in Told', rec'[j].title = "resolved" PROVE UpToDate(j)'
  <2>1. j # k /\ rec[j].title = "resolved" /\ j \in Straight
    BY <1>1, <1>2, <1>5, <1>7
  <2>2. j \in Told
    BY <1>1, <1>2, <1>3, <1>4, <1>7, <2>1 DEF Told
  <2>3. UpToDate(j)
    BY <2>1, <2>2 DEF NameInv
  <2> QED BY <1>3, <1>4, <2>1, <2>3 DEF UpToDate
<1>8. \A j \in Straight' : resolver'[j].phase # "idle" => rec'[j].title = "requested"
  <2>1. \A j \in Straight : j = k \/ resolver'[j] = resolver[j]
    BY <1>1, <1>2 DEF Straight
  <2> QED BY <1>1, <1>2, <1>5, <2>1 DEF NameInv
<1>9. \A f \in Queued' : f.job \in Straight' /\ f.file = Renamed => rec'[f.job].title = "resolved"
  BY <1>1, <1>2, <1>3, <1>4 DEF NameInv
<1>10. \A f \in Queued' : f.type # "started" => f.file \notin {Base, Renamed}
  BY <1>3, <1>4 DEF NameInv
<1>11. \A j \in Jobs : req'[j] = NoRequest => rec'[j].title = "requested"
  BY <1>1, <1>2 DEF NameInv
<1> QED BY <1>6, <1>7, <1>8, <1>9, <1>10, <1>11 DEF NameInv

\* The manager takes an answer, and with it the title of the file.
LEMMA TellingAnAnswer ==
    ASSUME JInv, NameInv, UNCHANGED known, NEW k \in Jobs, ReceiveRecorder(k)
    PROVE  NameInv'
<1> DEFINE e == Started(k, "Recording", PathOf(Part(k), resolver[k].title))
<1>1. /\ k \in active /\ resolver[k].phase = "spawned"
      /\ resolver' = [resolver EXCEPT ![k].phase = "idle"]
      /\ rec' = [rec EXCEPT ![k] = [@ EXCEPT !.state = "Recording", !.process = TRUE,
                                             !.title = resolver[k].title]]
      /\ events' = Append(events, e) /\ UNCHANGED <<active, req, finalizer>>
  BY DEF ReceiveRecorder
<1>2. /\ TypeOK /\ MapInv /\ EndInv /\ events \in Seq(Events)
      /\ resolver \in [Jobs -> [phase : ResolverPhases, part : Parts, title : Titles]]
      /\ rec \in [Jobs -> ActiveRecordings]
  BY DEF JInv, MapInv, TypeOK
<1>3. /\ rec'[k].title = resolver[k].title /\ rec'[k].retry_count = rec[k].retry_count
      /\ \A j \in Jobs \ {k} : rec'[j] = rec[j] /\ resolver'[j] = resolver[j]
      /\ resolver'[k].phase = "idle" /\ resolver[k].title \in Titles
  BY <1>1, <1>2 DEF ActiveRecordings
<1>4. Straight' = Straight /\ Straight \subseteq Jobs /\ Finalizing' = Finalizing
  BY <1>1, <1>3 DEF Straight, Finalizing
<1>5. e \in Events /\ e.type = "started" /\ e.job = k /\ e.file = PathOf(Part(k), resolver[k].title)
  BY <1>2, <1>3, PartIsAPart, StartIsSendable DEF Sendable
<1>6. /\ k \in Straight => /\ Part(k) = Base /\ rec[k].title = "requested"
                           /\ \A f \in Queued : f.job = k => f.file # Renamed
      /\ Base # Renamed
  <2>1. ASSUME k \in Straight PROVE Part(k) = Base /\ rec[k].title = "requested"
    BY <1>1, <2>1 DEF NameInv, Straight, Part, Base
  <2> QED BY <2>1, ConstantsAssumption DEF NameInv, Base, Renamed
<1>7. k \in Straight => e.file = IF resolver[k].title = "resolved" THEN Renamed ELSE Base
  BY <1>3, <1>5, <1>6 DEF PathOf
<1> HIDE DEF e
<1>8. Queued' = Queued \cup {e}
  BY <1>1, <1>2, <1>5, SendingAdds
<1>9. NamesInOrder(events', Straight')
  <2>1. NamesInOrder(events, Straight)
    BY DEF NameInv
  <2>2. k \in Straight => \A a \in DOMAIN events : events[a].job = k => events[a].file # Renamed
    BY <1>6 DEF Queued
  <2> QED BY <1>1, <1>2, <1>4, <1>5, <2>1, <2>2, NamesGoOn
<1>10. ASSUME NEW j \in Straight', j \in Told', rec'[j].title = "resolved" PROVE UpToDate(j)'
  <2>1. CASE j = k
    BY <1>3, <1>4, <1>5, <1>7, <1>8, <1>10, <2>1 DEF UpToDate
  <2>2. CASE j # k
    <3>1. j \in Told /\ rec[j].title = "resolved" /\ j \in Straight
      BY <1>1, <1>3, <1>4, <1>5, <1>8, <1>10, <2>2 DEF Told
    <3> QED BY <1>5, <1>8, <2>2, <3>1 DEF NameInv, UpToDate
  <2> QED BY <2>1, <2>2
<1>11. \A f \in Queued' : f.job \in Straight' /\ f.file = Renamed => rec'[f.job].title = "resolved"
  <2>1. ASSUME NEW f \in Queued, f.job \in Straight, f.file = Renamed
        PROVE  rec'[f.job].title = "resolved"
    <3>1. f.job # k /\ f.job \in Jobs
      BY <1>4, <1>6, <2>1
    <3> QED BY <1>3, <2>1, <3>1 DEF NameInv
  <2>2. e.job \in Straight /\ e.file = Renamed => rec'[e.job].title = "resolved"
    BY <1>3, <1>5, <1>6, <1>7
  <2> QED BY <1>4, <1>8, <2>1, <2>2
<1>12. \A j \in Straight' : resolver'[j].phase # "idle" => rec'[j].title = "requested"
  BY <1>3, <1>4 DEF NameInv
<1>13. \A f \in Queued' : f.type # "started" => f.file \notin {Base, Renamed}
  BY <1>5, <1>8 DEF NameInv
<1>14. \A j \in Jobs : req'[j] = NoRequest => rec'[j].title = "requested"
  <2>1. req[k] # NoRequest
    BY <1>1, <1>2, WhereAJobIs DEF Used
  <2> QED BY <1>1, <1>3, <2>1 DEF NameInv
<1> QED BY <1>9, <1>10, <1>11, <1>12, <1>13, <1>14 DEF NameInv

\* The daemon loop takes the events in the order they were told.
LEMMA TellingTheDaemon ==
    ASSUME JInv, NameInv, ApplyEvent
    PROVE  NameInv'
<1> DEFINE e == Head(events)
<1>1. /\ JTypeOK /\ EventsAreTrue /\ TypeOK /\ EndsLast(events) /\ TakeEvent
      /\ ApplyStarted(e) \/ ApplyProgress(e) \/ ApplyFinished(e)
      /\ events \in Seq(Events) /\ events # <<>> /\ events' = Tail(events)
      /\ UNCHANGED <<active, req, rec, resolver, finalizer>>
  BY DEF JInv, MapInv, EndInv, ApplyEvent, TakeEvent, TypeOK
<1>2. e \in Queued /\ Queued' \subseteq Queued /\ Queued \subseteq Queued' \cup {e}
  BY <1>1, HeadIsTaken
<1>3. Straight' = Straight /\ Straight \subseteq Jobs /\ Told' \subseteq Told
  BY <1>1, <1>2 DEF Straight, Told, Finalizing
<1>4. /\ NamesInOrder(events', Straight')
      /\ e.job \in Straight /\ e.file = Renamed =>
             \A f \in Queued' : f.job = e.job => f.file # Base
  <2>1. NamesInOrder(events, Straight)
    BY DEF NameInv
  <2> QED BY <1>1, <1>3, <2>1, NamesGoOnWithout DEF Queued
<1> HIDE DEF e
<1>5. /\ e.job \in Jobs /\ known \in [Jobs -> KnownJobs \cup {NoJob}] /\ NoJob \notin KnownJobs
      /\ e.type # "started" => e.file # Base
  BY <1>1, <1>2, JournalAssumption DEF EventsAreTrue, Used, JTypeOK, NameInv
<1>6. Base # Renamed /\ NoFile # Base
  BY ConstantsAssumption DEF Base, Renamed, NoFile
<1>7. ASSUME NEW j \in Straight', j \in Told', rec'[j].title = "resolved" PROVE UpToDate(j)'
  <2>1. UpToDate(j) /\ j \in Jobs
    BY <1>1, <1>3, <1>7 DEF NameInv
  <2>2. CASE j # e.job
    <3>1. known'[j] = known[j]
      BY <1>1, <1>5, <2>1, <2>2 DEF ApplyStarted, ApplyProgress, ApplyFinished
    <3> QED BY <1>2, <2>1, <2>2, <3>1 DEF UpToDate
  <2>3. ASSUME j = e.job, NEW f \in Queued', f.job = j, f.file = Renamed PROVE UpToDate(j)'
    BY <2>3 DEF UpToDate
  <2>4. ASSUME j = e.job, e.file = Renamed PROVE UpToDate(j)'
    <3>1. \A f \in Queued' : f.job = j => f.file # Base
      BY <1>3, <1>4, <1>7, <2>4
    <3>2. ApplyStarted(e)
      <4>1. e.type = "started"
        BY <1>2, <2>4 DEF NameInv
      <4> QED BY <1>1, <4>1 DEF ApplyProgress, ApplyFinished
    <3>3. known'[j] = [state |-> e.state, file |-> e.file]
      BY <1>5, <2>1, <2>4, <3>2 DEF ApplyStarted
    <3>4. known'[j].file # Base
      BY <1>6, <2>4, <3>3
    <3> QED BY <3>1, <3>4 DEF UpToDate
  <2>5. ASSUME j = e.job, e.file # Renamed, \A f \in Queued' : f.job = j => f.file # Renamed
        PROVE  UpToDate(j)'
    <3>1. /\ \A f \in Queued : f.job = j => f.file # Base
          /\ known[j] # NoJob => known[j].file # Base
      BY <1>2, <2>1, <2>5 DEF UpToDate
    <3>2. e.file # Base
      BY <1>2, <2>5, <3>1
    <3>3. known'[j] # NoJob => known'[j].file # Base
      <4>1. CASE ApplyStarted(e)
        <5>1. known'[j] = [state |-> e.state, file |-> e.file]
          BY <1>5, <2>1, <2>5, <4>1 DEF ApplyStarted
        <5> QED BY <3>2, <5>1
      <4>2. CASE ApplyProgress(e)
        <5>1. CASE known[j] = NoJob
          BY <2>5, <4>2, <5>1 DEF ApplyProgress
        <5>2. CASE known[j] # NoJob
          <6>1. known'[j] = [known[j] EXCEPT !.state = "Recording"] /\ known[j] \in KnownJobs
            BY <1>5, <2>1, <2>5, <4>2, <5>2 DEF ApplyProgress
          <6>2. known'[j].file = known[j].file
            BY <6>1 DEF KnownJobs
          <6> QED BY <3>1, <5>2, <6>2
        <5> QED BY <5>1, <5>2
      <4>3. CASE ApplyFinished(e)
        <5>1. CASE known[j] = NoJob
          BY <2>5, <4>3, <5>1 DEF ApplyFinished
        <5>2. CASE known[j] # NoJob
          <6> DEFINE file == IF e.file = NoFile THEN known[e.job].file ELSE e.file
          <6>1. known' = [known EXCEPT ![e.job] = [state |-> e.state, file |-> file]]
            BY <2>5, <4>3, <5>2 DEF ApplyFinished
          <6>2. file # Base
            BY <2>5, <3>1, <3>2, <5>2
          <6> HIDE DEF file
          <6>3. known'[j] = [state |-> e.state, file |-> file]
            BY <1>5, <2>1, <2>5, <6>1
          <6> QED BY <6>2, <6>3
        <5> QED BY <5>1, <5>2
      <4> QED BY <1>1, <4>1, <4>2, <4>3 DEF e
    <3> QED BY <1>2, <3>1, <3>3 DEF UpToDate
  <2> QED BY <2>2, <2>3, <2>4, <2>5
<1> QED BY <1>1, <1>2, <1>3, <1>4, <1>7 DEF NameInv

\* The listing, the names told and the names of the manager go together, over
\* every death and start of the daemon.
LEMMA NamesHold == JSpec => []NameInv
<1>1. ASSUME JInit PROVE NameInv
  <2>1. /\ active = {} /\ events = <<>> /\ Finalizing = {} /\ Queued = {}
        /\ \A j \in Jobs : rec[j].title = "requested" /\ resolver[j].phase = "idle"
    BY <1>1 DEF JInit, Init, Finalizing, Queued
  <2> QED BY <2>1 DEF NameInv, NamesInOrder, Straight, Told
<1>2. JInv /\ NameInv /\ [JNext]_journalVars => NameInv'
  <2> SUFFICES ASSUME JInv, NameInv, [JNext]_journalVars PROVE NameInv'
    OBVIOUS
  <2>1. ASSUME ManagerNext, UNCHANGED daemonVars PROVE NameInv'
    <3>1. UNCHANGED known /\ TypeOK
      BY <2>1 DEF daemonVars, JInv, MapInv
    <3> QED BY <2>1, <3>1, FewStepsTell, TellingNothing, TellingAStart, TellingAnAnswer
  <2>2. ASSUME NEW j \in Jobs, NEW p \in Parts, Recorder(j, p) PROVE ManagerNext
    BY <2>2 DEF ManagerNext
  <2>3. ASSUME UNCHANGED <<active, req, rec, finalizer, events>>,
               \A j \in Jobs : resolver'[j] = resolver[j],
               \A j \in Jobs : known'[j] = known[j] \/ known'[j] = NoJob
        PROVE  NameInv'
    <3>1. Straight' = Straight /\ Told' = Told /\ Queued' = Queued /\ Straight \subseteq Jobs
      BY <2>3 DEF Straight, Told, Queued, Finalizing
    <3>2. \A j \in Straight : UpToDate(j) => UpToDate(j)'
      BY <2>3, <3>1 DEF UpToDate
    <3> QED BY <2>3, <3>1, <3>2 DEF NameInv, NamesInOrder
  <2>4. ASSUME ApplyPruned \/ (\E w \in writes : Persist(w)) \/ PruneSnapshot \/ Prune
               \/ (\E j \in Jobs : UserDeletes(j)) \/ UNCHANGED journalVars
        PROVE  NameInv'
    <3>1. /\ UNCHANGED <<active, req, rec, finalizer, events, resolver>>
          /\ \A j \in Jobs : known'[j] = known[j] \/ known'[j] = NoJob
      BY <2>4 DEF ApplyPruned, Persist, PruneSnapshot, Prune, UserDeletes, journalVars, vars,
                  daemonVars
    <3> QED BY <2>3, <3>1
  <2>5. ASSUME DaemonDies PROVE NameInv'
    <3>1. /\ UNCHANGED <<req, rec>> /\ events' = <<>> /\ active' = {} /\ Finalizing' = {}
          /\ \A j \in Jobs : resolver'[j].phase = "idle"
      BY <2>5 DEF DaemonDies, Finalizing, JInv, MapInv, TypeOK
    <3>2. Queued' = {} /\ Told' = {} /\ Straight' \subseteq Jobs
      BY <3>1 DEF Queued, Told, Straight
    <3> QED BY <3>1, <3>2 DEF NameInv, NamesInOrder
  <2>6. ASSUME DaemonStarts PROVE NameInv'
    <3>1. /\ UNCHANGED <<req, rec, active, finalizer, events, resolver>>
          /\ events = <<>> /\ active = {} /\ Finalizing = {}
      BY <2>6 DEF DaemonStarts, JInv, DownIsEmpty, MapInv, CancelledIsEmpty
    <3>2. Queued' = {} /\ Told' = {} /\ Straight' = Straight
      BY <3>1 DEF Queued, Told, Finalizing, Straight
    <3> QED BY <3>1, <3>2 DEF NameInv, NamesInOrder
  <2> QED BY <2>1, <2>2, <2>4, <2>5, <2>6, TellingTheDaemon DEF JNext
<1> QED BY <1>1, <1>2, DaemonIsConsistent, PTL DEF JSpec

\* What was resolved stays so; the title of a recording that nothing works on
\* does not change.
TitleStays(j) ==
    /\ rec'[j].retry_count = 0 /\ rec[j].title = "resolved" => rec'[j].title = "resolved"
    /\ j \in Complete => rec'[j].title = rec[j].title

\* Only the answer changes a title, that of a recording of the map.
LEMMA ManagerKeepsTitles ==
    ASSUME JInv, NameInv, ManagerNext
    PROVE  \A j \in Jobs : TitleStays(j)
<1>1. TypeOK
  BY DEF JInv, MapInv
<1>2. ASSUME NEW k \in Jobs, ReceiveRecorder(k) PROVE \A j \in Jobs : TitleStays(j)
  <2>1. /\ k \in active /\ resolver[k].phase = "spawned"
        /\ \A j \in Jobs \ {k} : rec'[j] = rec[j]
        /\ rec'[k].retry_count = rec[k].retry_count
    BY <1>1, <1>2 DEF ReceiveRecorder, TypeOK, ActiveRecordings
  <2>2. k \notin Complete /\ (rec[k].retry_count = 0 => rec[k].title # "resolved")
    BY <2>1 DEF Complete, NameInv, Straight
  <2> QED BY <2>1, <2>2 DEF TitleStays
<1>3. CASE TellsNoStart
  BY <1>3 DEF TellsNoStart, TitleStays
<1>4. ASSUME NEW k \in Jobs, NEW r \in Requests, Start(k, r) \/ DownloadVod(k, r)
      PROVE  UNCHANGED rec
  BY <1>4 DEF Start, DownloadVod, Insert
<1> QED BY <1>1, <1>2, <1>3, <1>4, FewStepsTell DEF TitleStays

-----------------------------------------------------------------------------
(* Pruning and the files.                                                  *)

\* Nothing works on a recording and no file of it is there; one that was in
\* use, whose files a user deleted, stays so.
Blank(j)   == /\ j \notin active /\ finalizer[j] = "idle" /\ resolver[j].phase = "idle"
              /\ \A p \in Parts : proc[j][p] \notin Alive
              /\ \A f \in Files : disk[j][f] = {}
Emptied(j) == j \in Used /\ Blank(j)

\* The corrected name is taken when the finalizing task says so, not before.
NamedInOrder(j) ==
    /\ j \notin Used => Blank(j)
    /\ j \in active \/ finalizer[j] \in {"merge", "rename", "cleanup", "name", "announce"}
           => disk[j][Corrected] = {}
    /\ finalizer[j] = "announceCorrected" => disk[j][Corrected] # {}

\* A path that the journal, the listing or an event has for a recording without
\* a gap; a well-ended one is under the path of its own title or the corrected one.
Found(j)       == disk[j][Corrected] # {} \/ Emptied(j)
FileFits(j, f) ==
    /\ f \in {Base, Renamed, Corrected}
    /\ f = Renamed => rec[j].title = "resolved"
    /\ f = Corrected => Found(j)
RowFits(j, r) ==
    /\ FileFits(j, r.file)
    /\ r.state = "finished" /\ r.file # Corrected =>
           r.file = BasePath(j) /\ disk[j][Corrected] = {}
EventFits(e) ==
    /\ e.type = "started" => e.file \in {Base, Renamed}
    /\ e.type = "finished" => \/ e.file = NoFile
                              \/ e.file = Corrected /\ Found(e.job)
    /\ EndsWell(e) /\ e.file # Corrected => disk[e.job][Corrected] = {}

PathInv ==
    /\ \A j \in Jobs : NamedInOrder(j)
    /\ \A j \in Straight : /\ known[j] # NoJob => FileFits(j, known[j].file)
                           /\ journal[j] # NoRow => RowFits(j, journal[j])
    /\ \A w \in writes : w.job \in Straight => RowFits(w.job, w.row)
    /\ \A e \in Queued : e.job \in Straight => EventFits(e)

\* What a step does to the names and files of a recording.
Carried(j) ==
    /\ rec'[j].retry_count = 0 => rec[j].retry_count = 0
    /\ Found(j) => Found(j)'
    /\ j \in Complete /\ disk[j][Corrected] = {} => disk'[j][Corrected] = {}
    /\ NamedInOrder(j)'

\* Nothing happens to a recording that a step does not touch.
LEMMA UntouchedIsCarried ==
    ASSUME NEW j \in Jobs, NamedInOrder(j), active' \cap {j} = active \cap {j},
           rec'[j].retry_count = rec[j].retry_count,
           UNCHANGED <<req[j], finalizer[j], resolver[j], proc[j], disk[j]>>
    PROVE  Carried(j)
<1>1. j \in active' <=> j \in active
  OBVIOUS
<1>2. (j \in Used)' <=> j \in Used
  BY DEF Used
<1>3. Blank(j)' <=> Blank(j)
  BY <1>1 DEF Blank
<1> QED BY <1>1, <1>2, <1>3 DEF Carried, NamedInOrder, Emptied, Found

\* The files of a recording that its recorders or its task work on, other than
\* the corrected name, come and go.
LEMMA WorkIsCarried ==
    ASSUME NEW j \in Jobs, NamedInOrder(j), j \in Used, (j \in Used)', ~Blank(j),
           rec'[j].retry_count = 0 => rec[j].retry_count = 0,
           j \in active' => j \in active,
           \/ finalizer'[j] = finalizer[j]
           \/ j \in active /\ finalizer'[j] \in {"merge", "name"}
           \/ /\ finalizer[j] \in {"merge", "rename", "cleanup", "name", "announce"}
              /\ finalizer'[j] \in {"idle", "rename", "cleanup", "name", "announce"}
           \/ finalizer[j] = "announceCorrected" /\ finalizer'[j] = "idle",
           disk'[j][Corrected] = disk[j][Corrected]
    PROVE  Carried(j)
<1>1. j \in active' \/ finalizer'[j] \in {"merge", "rename", "cleanup", "name", "announce"}
          => disk'[j][Corrected] = {}
  BY DEF NamedInOrder
<1>2. finalizer'[j] = "announceCorrected" => disk'[j][Corrected] # {}
  BY DEF NamedInOrder
<1>3. NamedInOrder(j)'
  BY <1>1, <1>2 DEF NamedInOrder
<1> QED BY <1>3 DEF Carried, Emptied, Found

\* Every step of the manager carries the names on.
LEMMA ManagerCarries ==
    ASSUME JInv, PathInv, ManagerNext
    PROVE  \A j \in Jobs : Carried(j)
<1>1. /\ TypeOK /\ MapInv /\ EndInv /\ FinalizedHasLeft
      /\ \A j \in Jobs : NamedInOrder(j)
  BY DEF JInv, MapInv, PathInv
<1>2. /\ rec \in [Jobs -> ActiveRecordings] /\ active \subseteq Jobs
      /\ resolver \in [Jobs -> [phase : ResolverPhases, part : Parts, title : Titles]]
      /\ proc \in [Jobs -> [Parts -> ProcStates]] /\ disk \in [Jobs -> [Files -> SUBSET Parts]]
      /\ finalizer \in [Jobs -> FinalizerStages] /\ req \in [Jobs -> Requests \cup {NoRequest}]
  BY <1>1 DEF TypeOK
<1>3. active \subseteq Used /\ Finalizing \subseteq Used
  BY <1>1, WhereAJobIs
<1>4. /\ Base \in Parts /\ Corrected \notin Parts /\ Corrected \in Files /\ Parts \subseteq Files
      /\ Merging # Corrected
      /\ \A k \in Jobs : Segments(k) \subseteq Parts
  <2>1. \A k \in Jobs : Segments(k) \subseteq Parts
    BY <1>1, NamesDiffer
  <2> QED BY <2>1, ConstantsAssumption DEF Base, Parts, Files, Corrected, Merging
<1>5. ASSUME NEW k \in Jobs, NEW r \in Requests, Start(k, r) \/ DownloadVod(k, r)
      PROVE  \A j \in Jobs : Carried(j)
  <2>1. /\ req[k] = NoRequest /\ req' = [req EXCEPT ![k] = r] /\ active' = active \cup {k}
        /\ resolver' = [resolver EXCEPT ![k].phase = "working"]
        /\ UNCHANGED <<rec, proc, disk, finalizer>>
    BY <1>5 DEF Start, DownloadVod, Insert
  <2>2. Carried(k)
    <3>1. k \notin Used /\ r # NoRequest
      BY <2>1, NoRequestAssumption DEF Used
    <3>2. Blank(k) /\ (k \in Used)'
      BY <1>1, <1>2, <2>1, <3>1 DEF NamedInOrder, Used
    <3> QED BY <1>4, <2>1, <3>1, <3>2 DEF Carried, NamedInOrder, Blank, Emptied, Found, Complete
  <2>3. ASSUME NEW j \in Jobs, j # k PROVE Carried(j)
    BY <1>1, <1>2, <2>1, <2>3, UntouchedIsCarried
  <2> QED BY <2>2, <2>3
<1>6. ASSUME NEW S \in SUBSET active, NEW T \in SUBSET active, Remove(S, T),
             T \subseteq S, UNCHANGED <<req, resolver, disk>>
      PROVE  \A j \in Jobs : Carried(j)
  <2>1. /\ active' = active \ S
        /\ \A j \in Jobs \ T : /\ rec'[j] = rec[j] /\ proc'[j] = proc[j]
                               /\ finalizer'[j] = finalizer[j]
        /\ \A j \in T : /\ rec'[j].retry_count = rec[j].retry_count
                        /\ finalizer'[j] \in {"merge", "name"}
    <3>1. T \subseteq Jobs
      BY <1>2
    <3>2. \A j \in T : rec'[j] = [rec[j] EXCEPT !.state = "Finished"]
      BY <1>6, <3>1 DEF Remove
    <3> QED BY <1>2, <1>6, <3>1, <3>2 DEF Remove, StartFinalizer, ActiveRecordings
  <2>2. ASSUME NEW j \in Jobs PROVE Carried(j)
    <3>1. CASE j \in S
      BY <1>1, <1>3, <1>6, <2>1, <3>1, WorkIsCarried DEF Used, Blank
    <3>2. CASE j \notin S
      BY <1>1, <1>6, <2>1, <3>2, UntouchedIsCarried
    <3> QED BY <3>1, <3>2
  <2> QED BY <2>2
<1>7. ASSUME NEW k \in Jobs, Stop(k) PROVE \A j \in Jobs : Carried(j)
  BY <1>6, <1>7 DEF Stop
<1>8. ASSUME StopAll PROVE \A j \in Jobs : Carried(j)
  <2>1. SlotHolders \subseteq active
    BY DEF SlotHolders
  <2> QED BY <1>6, <1>8, <2>1 DEF StopAll
<1>9. ASSUME Cancel PROVE \A j \in Jobs : Carried(j)
  <2>1. /\ active' = {} /\ proc' = [j \in Jobs |-> Stopped(j, Held(j))]
        /\ UNCHANGED <<req, rec, resolver, disk, finalizer>>
    BY <1>9 DEF Cancel
  <2>2. ASSUME NEW j \in Jobs PROVE Carried(j)
    <3>1. CASE j \in active
      BY <1>1, <1>3, <2>1, <3>1, WorkIsCarried DEF Used, Blank
    <3>2. CASE j \notin active
      <4>1. proc'[j] = proc[j]
        BY <1>2, <2>1, <3>2 DEF Stopped, Held
      <4> QED BY <1>1, <2>1, <3>2, <4>1, UntouchedIsCarried
    <3> QED BY <3>1, <3>2
  <2> QED BY <2>2
<1>10. ASSUME NEW k \in Jobs, Resolver(k) \/ Receive(k) PROVE \A j \in Jobs : Carried(j)
  <2>1. /\ resolver[k].phase # "idle"
        /\ UNCHANGED <<active, req, disk, finalizer>>
        /\ \A j \in Jobs \ {k} : /\ rec'[j] = rec[j] /\ resolver'[j] = resolver[j]
                                 /\ proc'[j] = proc[j]
    BY <1>2, <1>10 DEF Resolver, Receive, ResolverSpawns, ResolverRefuses, ReceiveRecorder,
                       ReceiveRefusal, DropAnswer
  <2>2. rec'[k].retry_count = rec[k].retry_count
    <3>1. \/ rec'[k] = rec[k]
          \/ rec'[k] = [rec[k] EXCEPT !.state = "Failed"]
          \/ rec'[k] = [rec[k] EXCEPT !.state = "Recording", !.process = TRUE,
                                      !.title = resolver[k].title]
      BY <1>2, <1>10 DEF Resolver, Receive, ResolverSpawns, ResolverRefuses, ReceiveRecorder,
                         ReceiveRefusal, DropAnswer
    <3>2. rec[k] \in ActiveRecordings
      BY <1>2
    <3> QED BY <3>1, <3>2 DEF ActiveRecordings
  <2>3. k \in Used /\ ~Blank(k)
    BY <1>1, <2>1 DEF NamedInOrder, Blank
  <2>4. Carried(k)
    BY <1>1, <2>1, <2>2, <2>3, WorkIsCarried DEF Used
  <2>5. ASSUME NEW j \in Jobs, j # k PROVE Carried(j)
    BY <1>1, <2>1, <2>5, UntouchedIsCarried
  <2> QED BY <2>4, <2>5
<1>11. ASSUME NEW k \in Jobs, PollAlive(k) \/ PollStalled(k) \/ PollExit(k)
       PROVE  \A j \in Jobs : Carried(j)
  <2>1. /\ k \in active /\ UNCHANGED <<req, disk>>
        /\ active' = active \/ active' = active \ {k}
        /\ \A j \in Jobs \ {k} : /\ rec'[j] = rec[j] /\ resolver'[j] = resolver[j]
                                 /\ proc'[j] = proc[j] /\ finalizer'[j] = finalizer[j]
        /\ finalizer'[k] = finalizer[k] \/ finalizer'[k] \in {"merge", "name"}
    BY <1>2, <1>11 DEF PollAlive, PollStalled, PollExit, PollSucceeded, PollRetries,
                       PollGivesUp, Polled, StartFinalizer
  <2>2. rec'[k].retry_count = 0 => rec[k].retry_count = 0
    <3>1. \/ rec'[k] = rec[k]
          \/ \E s \in {"Finished", "Failed"} : rec'[k] = [rec[k] EXCEPT !.state = s]
          \/ rec'[k] = [rec[k] EXCEPT !.state = "ResolvingUrl", !.process = FALSE,
                                      !.retry_count = rec[k].retry_count + 1]
      BY <1>2, <1>11 DEF PollAlive, PollStalled, PollExit, PollSucceeded, PollRetries,
                         PollGivesUp
    <3>2. rec[k] \in ActiveRecordings
      BY <1>2
    <3>3. rec[k].retry_count \in Nat
      BY <3>2 DEF ActiveRecordings
    <3>4. CASE rec'[k] = [rec[k] EXCEPT !.state = "ResolvingUrl", !.process = FALSE,
                                        !.retry_count = rec[k].retry_count + 1]
      <4>1. rec'[k].retry_count = rec[k].retry_count + 1
        BY <3>2, <3>4 DEF ActiveRecordings
      <4> QED BY <3>3, <4>1
    <3>5. CASE \E s \in {"Finished", "Failed"} : rec'[k] = [rec[k] EXCEPT !.state = s]
      BY <3>2, <3>5 DEF ActiveRecordings
    <3> QED BY <3>1, <3>4, <3>5
  <2>3. Carried(k)
    BY <1>1, <1>3, <2>1, <2>2, WorkIsCarried DEF Used, Blank
  <2>4. ASSUME NEW j \in Jobs, j # k PROVE Carried(j)
    BY <1>1, <2>1, <2>4, UntouchedIsCarried
  <2> QED BY <2>3, <2>4
<1>12. ASSUME NEW k \in Jobs, NEW p \in Parts, Recorder(k, p) PROVE \A j \in Jobs : Carried(j)
  <2>1. /\ proc[k][p] \in Alive
        /\ UNCHANGED <<active, req, rec, resolver, finalizer>>
        /\ \A j \in Jobs \ {k} : proc'[j] = proc[j] /\ disk'[j] = disk[j]
        /\ disk'[k][Corrected] = disk[k][Corrected]
    BY <1>2, <1>4, <1>12 DEF Recorder, RecorderWrites, RecorderFreezes, RecorderExits, Alive
  <2>2. k \in Used /\ ~Blank(k)
    BY <1>1, <2>1 DEF NamedInOrder, Blank
  <2>3. Carried(k)
    BY <1>1, <2>1, <2>2, WorkIsCarried DEF Used
  <2>4. ASSUME NEW j \in Jobs, j # k PROVE Carried(j)
    BY <1>1, <2>1, <2>4, UntouchedIsCarried
  <2> QED BY <2>3, <2>4
<1>13. ASSUME NEW k \in Jobs, Finalizer(k) PROVE \A j \in Jobs : Carried(j)
  <2>1. /\ UNCHANGED <<active, req, rec, resolver, proc>>
        /\ \A j \in Jobs \ {k} : finalizer'[j] = finalizer[j] /\ disk'[j] = disk[j]
    BY <1>2, <1>13 DEF Finalizer, FinalizerStep, Merge, MergeFails, RenameMerged,
                       RenameMergedFails, DeleteParts, CorrectExtension, KeepExtension, Announce
  <2>2. finalizer[k] # "idle"
    BY <1>13 DEF Finalizer, FinalizerStep, Merge, MergeFails, RenameMerged,
                 RenameMergedFails, DeleteParts, CorrectExtension, KeepExtension, Announce
  <2>3. k \in Used /\ ~Blank(k) /\ (k \in Used)' /\ k \notin Complete
    BY <1>3, <2>1, <2>2 DEF Finalizing, Used, Blank, Complete
  <2>4. CASE CorrectExtension(k)
    <3>1. /\ finalizer[k] = "name" /\ finalizer' = [finalizer EXCEPT ![k] = "announceCorrected"]
          /\ FileAt(k, BasePath(k)) # {} /\ disk[k][Corrected] = {}
          /\ disk' = [disk EXCEPT ![k] = [@ EXCEPT ![Corrected] = disk[k][Base], ![Base] = {}]]
      BY <2>4 DEF CorrectExtension, FinalizerStep
    <3>0. disk[k][Base] # {}
      <4>1. BasePath(k) \in {Base, Renamed}
        BY DEF BasePath, PathOf
      <4> QED BY <3>1, <4>1 DEF FileAt
    <3>2. disk'[k][Corrected] # {} /\ finalizer'[k] = "announceCorrected"
      BY <1>2, <1>4, <3>0, <3>1
    <3>3. k \notin active
      BY <1>1, <2>2 DEF FinalizedHasLeft, Finalizing
    <3>4. Carried(k)
      BY <2>1, <2>3, <3>2, <3>3 DEF Carried, NamedInOrder, Found
    <3> QED BY <1>1, <2>1, <3>4, UntouchedIsCarried
  <2>5. CASE ~CorrectExtension(k)
    <3>1. disk'[k][Corrected] = disk[k][Corrected]
      BY <1>2, <1>4, <1>13, <2>5 DEF Finalizer, Merge, MergeFails, RenameMerged,
           RenameMergedFails, DeleteParts, KeepExtension, Announce
    <3>2. \/ /\ finalizer[k] \in {"merge", "rename", "cleanup", "name", "announce"}
             /\ finalizer'[k] \in {"idle", "rename", "cleanup", "name", "announce"}
          \/ finalizer[k] = "announceCorrected" /\ finalizer'[k] = "idle"
      BY <1>2, <1>13, <2>5 DEF Finalizer, FinalizerStep, Merge, MergeFails, RenameMerged,
           RenameMergedFails, DeleteParts, KeepExtension, Announce
    <3>3. Carried(k)
      BY <1>1, <2>1, <2>3, <3>1, <3>2, WorkIsCarried
    <3> QED BY <1>1, <2>1, <3>3, UntouchedIsCarried
  <2> QED BY <2>4, <2>5
<1> QED BY <1>5, <1>7, <1>8, <1>9, <1>10, <1>11, <1>12, <1>13 DEF ManagerNext, Command

\* What the manager sends fits the names of the recording.
LEMMA ManagerSendsWhatFits ==
    ASSUME JInv, PathInv, ManagerNext
    PROVE  \A e \in Queued' \ Queued : e.job \in Straight' => EventFits(e)'
<1> SUFFICES ASSUME NEW e \in Queued', e \notin Queued, e.job \in Straight'
             PROVE  EventFits(e)'
  OBVIOUS
<1>1. /\ TypeOK /\ \A j \in Jobs : NamedInOrder(j)
      /\ rec \in [Jobs -> ActiveRecordings]
  BY DEF JInv, MapInv, PathInv, TypeOK
<1>2. e.job \in Jobs /\ rec'[e.job].retry_count = 0
  BY DEF Straight
<1>3. events' # events
  BY DEF Queued
<1>4. ASSUME NEW k \in Jobs, NEW s \in {"ResolvingUrl", "Recording"},
             NEW t \in Titles, events' = Append(events, Started(k, s, PathOf(Part(k), t))),
             Part(k)' = Part(k)
      PROVE  EventFits(e)'
  <2> DEFINE f == Started(k, s, PathOf(Part(k), t))
  <2>1. f \in Events /\ f.type = "started" /\ f.job = k /\ f.file = PathOf(Part(k), t)
    BY <1>1, PartIsAPart, StartIsSendable DEF Sendable
  <2>2. e = f
    BY <1>1, <1>4, <2>1, SendingAdds
  <2> HIDE DEF f
  <2>4. Part(k) = Base
    BY <1>2, <1>4, <2>1, <2>2 DEF Part, Base
  <2> QED BY <2>1, <2>2, <2>4 DEF EventFits, EndsWell, PathOf
<1>5. ASSUME NEW k \in Jobs, events' = Append(events, Progress(k)) PROVE EventFits(e)'
  <2>1. Progress(k) \in Events
    BY ProgressIsTyped
  <2>2. e = Progress(k)
    BY <1>1, <1>5, <2>1, SendingAdds
  <2> QED BY <2>2 DEF Progress, EventFits, EndsWell
<1>6. ASSUME NEW k \in Jobs, NEW s \in Terminal, events' = Append(events, Finished(k, s, NoFile)),
             s = "Finished" => disk'[k][Corrected] = {}
      PROVE  EventFits(e)'
  <2>1. Finished(k, s, NoFile) \in Events
    BY FinishedIsTyped
  <2>2. e = Finished(k, s, NoFile)
    BY <1>1, <1>6, <2>1, SendingAdds
  <2>3. e.type = "finished" /\ e.file = NoFile /\ e.state = s /\ e.job = k
    BY <2>2 DEF Finished
  <2> QED BY <1>6, <2>3 DEF EventFits, EndsWell
<1>7. ASSUME NEW k \in Jobs, events' = Append(events, Finished(k, "Finished", Corrected)),
             disk'[k][Corrected] # {}
      PROVE  EventFits(e)'
  <2>1. Finished(k, "Finished", Corrected) \in Events
    BY FinishedIsTyped DEF Terminal, Files, Paths
  <2>2. e = Finished(k, "Finished", Corrected)
    BY <1>1, <1>7, <2>1, SendingAdds
  <2>3. e.type = "finished" /\ e.file = Corrected /\ e.job = k
    BY <2>2 DEF Finished
  <2> QED BY <1>7, <2>3 DEF EventFits, Found
<1>8. ASSUME NEW k \in Jobs, NEW r \in Requests, Start(k, r) \/ DownloadVod(k, r)
      PROVE  EventFits(e)'
  <2>1. events' = Append(events, Started(k, "ResolvingUrl", Base)) /\ UNCHANGED rec
    BY <1>8 DEF Start, DownloadVod, Insert
  <2>2. Base \in Paths
    BY ConstantsAssumption DEF Base, Files, Paths, Parts
  <2>3. Started(k, "ResolvingUrl", Base) \in Events
    BY <2>2, StartedIsTyped DEF RecordingStates
  <2>4. e = Started(k, "ResolvingUrl", Base)
    BY <1>1, <2>1, <2>3, SendingAdds
  <2> QED BY <2>4 DEF Started, EventFits, EndsWell
<1>9. ASSUME NEW k \in Jobs, ReceiveRecorder(k) PROVE EventFits(e)'
  <2>1. /\ events' = Append(events, Started(k, "Recording", PathOf(Part(k), resolver[k].title)))
        /\ resolver[k].title \in Titles
        /\ rec'[k] = [rec[k] EXCEPT !.state = "Recording", !.process = TRUE,
                                    !.title = resolver[k].title]
    BY <1>1, <1>9 DEF ReceiveRecorder, TypeOK
  <2>2. rec[k] \in ActiveRecordings
    BY <1>1
  <2>3. rec'[k].retry_count = rec[k].retry_count
    BY <2>1, <2>2 DEF ActiveRecordings
  <2>4. Part(k)' = Part(k)
    BY <2>3 DEF Part
  <2> QED BY <1>4, <2>1, <2>4
<1>10. ASSUME NEW k \in Jobs, ReceiveRefusal(k) PROVE EventFits(e)'
  BY <1>6, <1>10 DEF ReceiveRefusal, Terminal
<1>11. ASSUME NEW k \in Jobs, PollAlive(k) \/ PollStalled(k) \/ PollSucceeded(k) \/ PollRetries(k)
       PROVE  EventFits(e)'
  BY <1>5, <1>11 DEF PollAlive, PollStalled, PollSucceeded, PollRetries
<1>12. ASSUME NEW k \in Jobs, PollGivesUp(k) PROVE EventFits(e)'
  <2> DEFINE p == Progress(k)
             f == Finished(k, "Failed", NoFile)
  <2>1. p \in Events /\ f \in Events /\ events' = events \o <<p, f>>
    BY <1>12, ProgressIsTyped, FinishedIsTyped DEF Terminal, PollGivesUp
  <2> HIDE DEF p, f
  <2>2. e = p \/ e = f
    BY <1>1, <2>1, SendingTwoAdds
  <2>3. p.type = "progress" /\ f.type = "finished" /\ f.file = NoFile /\ f.state = "Failed"
    BY DEF p, f, Progress, Finished
  <2> QED BY <2>2, <2>3 DEF EventFits, EndsWell
<1>13. ASSUME NEW k \in Jobs, RenameMergedFails(k) PROVE EventFits(e)'
  <2>1. finalizer[k] = "rename" /\ events' = Append(events, Finished(k, "Finished", NoFile))
        /\ disk' = [disk EXCEPT ![k][Merging] = {}]
    BY <1>13 DEF RenameMergedFails, FinalizerStep
  <2>2. Merging # Corrected
    BY ConstantsAssumption DEF Merging, Corrected
  <2>3. disk'[k][Corrected] = {}
    BY <1>1, <2>1, <2>2 DEF NamedInOrder, TypeOK, Files
  <2> QED BY <1>6, <2>1, <2>3 DEF Terminal
<1>14. ASSUME NEW k \in Jobs, Announce(k) PROVE EventFits(e)'
  <2>1. UNCHANGED disk
    BY <1>14 DEF Announce
  <2>2. CASE finalizer[k] = "announce" /\ events' = Append(events, Finished(k, "Finished", NoFile))
    BY <1>1, <1>6, <2>1, <2>2 DEF NamedInOrder, Terminal
  <2>3. CASE /\ finalizer[k] = "announceCorrected"
             /\ events' = Append(events, Finished(k, "Finished", Corrected))
    BY <1>1, <1>7, <2>1, <2>3 DEF NamedInOrder
  <2> QED BY <1>14, <2>2, <2>3 DEF Announce, FinalizerStep
<1> QED BY <1>3, <1>8, <1>9, <1>10, <1>11, <1>12, <1>13, <1>14
  DEF ManagerNext, Command, Stop, StopAll, Cancel, Resolver, ResolverSpawns, ResolverRefuses,
      Receive, DropAnswer, PollExit, Recorder, RecorderWrites, RecorderFreezes, RecorderExits,
      Finalizer, Merge, MergeFails, RenameMerged, DeleteParts, CorrectExtension, KeepExtension

\* What fits goes on to fit, since nothing renames the file of a recording
\* that nothing works on.
LEMMA FitsStay ==
    ASSUME NEW j \in Jobs, Carried(j), TitleStays(j), rec'[j].retry_count = 0
    PROVE  /\ \A f : FileFits(j, f) => FileFits(j, f)'
           /\ \A r : RowFits(j, r) /\ (r.state = "finished" => j \in Complete) => RowFits(j, r)'
           /\ \A e : e.job = j /\ EventFits(e) /\ (EndsWell(e) => j \in Complete) => EventFits(e)'
<1>1. ASSUME NEW f, FileFits(j, f) PROVE FileFits(j, f)'
  BY <1>1 DEF Carried, TitleStays, FileFits
<1>2. ASSUME NEW r, RowFits(j, r), r.state = "finished" => j \in Complete PROVE RowFits(j, r)'
  <2>1. FileFits(j, r.file)'
    BY <1>1, <1>2 DEF RowFits
  <2>2. ASSUME r.state = "finished", r.file # Corrected
        PROVE  (r.file = BasePath(j) /\ disk[j][Corrected] = {})'
    <3>1. r.file = BasePath(j) /\ disk[j][Corrected] = {} /\ j \in Complete
      BY <1>2, <2>2 DEF RowFits
    <3>2. BasePath(j)' = BasePath(j)
      BY <3>1 DEF TitleStays, BasePath, PathOf
    <3> QED BY <3>1, <3>2 DEF Carried
  <2> QED BY <2>1, <2>2 DEF RowFits
<1>3. ASSUME NEW e, e.job = j, EventFits(e), EndsWell(e) => j \in Complete PROVE EventFits(e)'
  <2>1. e.type = "finished" => e.file = NoFile \/ (e.file = Corrected /\ Found(e.job)')
    BY <1>3 DEF EventFits, Carried
  <2>2. EndsWell(e) /\ e.file # Corrected => disk'[e.job][Corrected] = {}
    BY <1>3 DEF EventFits, Carried
  <2> QED BY <1>3, <2>1, <2>2 DEF EventFits, EndsWell
<1> QED BY <1>1, <1>2, <1>3

\* What a step adds to the listing, the rows, the writes and the queue fits.
LEMMA PathsGoOn ==
    ASSUME JInv, PathInv, \A j \in Jobs : Carried(j) /\ TitleStays(j),
           \A j \in Straight' : known'[j] # NoJob =>
               known'[j] = known[j] \/ FileFits(j, known'[j].file),
           \A j \in Straight' : journal'[j] # NoRow =>
               \/ journal'[j] = journal[j]
               \/ /\ RowFits(j, journal'[j])
                  /\ journal'[j].state = "finished" => j \in Complete,
           \A w \in writes' \ writes : w.job \in Straight' =>
               /\ RowFits(w.job, w.row)
               /\ w.row.state = "finished" => w.job \in Complete,
           \A e \in Queued' \ Queued : e.job \in Straight' => EventFits(e)'
    PROVE  PathInv'
<1>1. /\ Straight' \subseteq Straight /\ Straight \subseteq Jobs
      /\ \A j \in Straight' : Carried(j) /\ TitleStays(j) /\ rec'[j].retry_count = 0
  BY DEF Carried, Straight
<1>2. EventsAreTrue /\ RowsAreTrue
  BY DEF JInv
<1>3. \A j \in Jobs : NamedInOrder(j)'
  BY DEF Carried
<1>4. ASSUME NEW j \in Straight', known'[j] # NoJob PROVE FileFits(j, known[j].file)'
  <2>1. FileFits(j, known'[j].file)
    BY <1>1, <1>4 DEF PathInv
  <2>2. \A f : FileFits(j, f) => FileFits(j, f)'
    BY <1>1, FitsStay
  <2> QED BY <2>1, <2>2 DEF FileFits, Found, Emptied
<1>5. ASSUME NEW j \in Straight', journal'[j] # NoRow PROVE RowFits(j, journal[j])'
  <2>1. RowFits(j, journal'[j]) /\ (journal'[j].state = "finished" => j \in Complete)
    BY <1>1, <1>2, <1>5 DEF PathInv, RowsAreTrue
  <2>2. \A r : RowFits(j, r) /\ (r.state = "finished" => j \in Complete) => RowFits(j, r)'
    BY <1>1, FitsStay
  <2> QED BY <2>1, <2>2 DEF RowFits, FileFits
<1>6. ASSUME NEW w \in writes', w.job \in Straight' PROVE RowFits(w.job, w.row)'
  <2>1. RowFits(w.job, w.row) /\ (w.row.state = "finished" => w.job \in Complete)
    BY <1>1, <1>2, <1>6 DEF PathInv, RowsAreTrue
  <2> QED BY <1>1, <1>6, <2>1, FitsStay
<1>7. ASSUME NEW e \in Queued', e.job \in Straight' PROVE EventFits(e)'
  <2>1. CASE e \in Queued
    <3>1. EventFits(e) /\ (EndsWell(e) => e.job \in Complete)
      BY <1>1, <1>2, <1>7, <2>1 DEF PathInv, EventsAreTrue
    <3> QED BY <1>1, <1>7, <3>1, FitsStay
  <2> QED BY <1>7, <2>1
<1> QED BY <1>3, <1>4, <1>5, <1>6, <1>7 DEF PathInv

\* A recording whose map entry, files and processes a step leaves alone.
LEMMA NothingHappens ==
    ASSUME PathInv, UNCHANGED <<active, req, rec, resolver, proc, disk, finalizer>>
    PROVE  \A j \in Jobs : Carried(j) /\ TitleStays(j)
<1> SUFFICES ASSUME NEW j \in Jobs PROVE Carried(j) /\ TitleStays(j)
  OBVIOUS
<1>1. NamedInOrder(j)
  BY DEF PathInv
<1> QED BY <1>1, UntouchedIsCarried DEF TitleStays

\* Applying an event lists and journals the recording under a name that fits.
LEMMA ApplyKeepsPaths ==
    ASSUME JInv, NameInv, PathInv, ApplyEvent
    PROVE  PathInv'
<1> DEFINE e == Head(events)
<1>1. /\ JTypeOK /\ EventsAreTrue /\ TypeOK /\ EndsLast(events) /\ TakeEvent
      /\ ApplyStarted(e) \/ ApplyProgress(e) \/ ApplyFinished(e)
      /\ journal' = journal
  BY DEF JInv, MapInv, EndInv, ApplyEvent
<1>2. /\ e \in Queued /\ Queued' \subseteq Queued /\ Queued \subseteq Queued' \cup {e}
      /\ e.type = "finished" => \A f \in Queued' : f.job = e.job => f.type = "finished"
      /\ UNCHANGED <<active, req, rec, resolver, proc, disk, finalizer>>
  BY <1>1, HeadIsTaken DEF TakeEvent
<1>3. /\ e \in Sendable /\ e.job \in Jobs /\ (EndsWell(e) => e.job \in Complete)
      /\ e.job \in Straight => EventFits(e)
  BY <1>1, <1>2 DEF EventsAreTrue, Used, PathInv
<1>4. Straight' = Straight
  BY <1>2 DEF Straight
<1>5. known \in [Jobs -> KnownJobs \cup {NoJob}] /\ NoJob \notin KnownJobs
  BY <1>1, JournalAssumption DEF JTypeOK
<1> HIDE DEF e
<1> DEFINE Fine == /\ \A j \in Straight : known'[j] # NoJob =>
                          known'[j] = known[j] \/ FileFits(j, known'[j].file)
                   /\ \A w \in writes' \ writes : w.job \in Straight =>
                          /\ RowFits(w.job, w.row)
                          /\ w.row.state = "finished" => w.job \in Complete
<1>6. ASSUME ApplyStarted(e) PROVE Fine
  <2>1. /\ e.type = "started"
        /\ known' = [known EXCEPT ![e.job] = [state |-> e.state, file |-> e.file]]
        /\ writes' = writes \cup
               {[job |-> e.job, row |-> [state |-> "running", file |-> e.file]]}
    BY <1>6 DEF ApplyStarted
  <2>2. e.job \in Straight => e.file \in {Base, Renamed}
    BY <1>3, <2>1 DEF EventFits
  <2>3. Base # Corrected /\ Renamed # Corrected
    BY ConstantsAssumption DEF Base, Corrected, Renamed
  <2>4. e.job \in Straight => FileFits(e.job, e.file)
    <3>1. e.job \in Straight /\ e.file = Renamed => rec[e.job].title = "resolved"
      BY <1>2 DEF NameInv
    <3> QED BY <2>2, <2>3, <3>1 DEF FileFits
  <2> QED BY <1>3, <1>5, <2>1, <2>4 DEF RowFits
<1>7. ASSUME ApplyProgress(e) PROVE Fine
  <2>1. writes' = writes /\ known' = IF known[e.job] = NoJob THEN known
                                     ELSE [known EXCEPT ![e.job].state = "Recording"]
    BY <1>7 DEF ApplyProgress
  <2>2. ASSUME NEW j \in Straight, known'[j] # NoJob
        PROVE  known'[j] = known[j] \/ FileFits(j, known'[j].file)
    <3>1. CASE j = e.job /\ known[j] # NoJob
      <4>1. known[j] \in KnownJobs /\ known'[j] = [known[j] EXCEPT !.state = "Recording"]
        BY <1>3, <1>5, <2>1, <3>1
      <4>2. known'[j].file = known[j].file
        BY <4>1 DEF KnownJobs
      <4> QED BY <3>1, <4>2 DEF PathInv
    <3>2. CASE j # e.job \/ known[e.job] = NoJob
      BY <1>3, <1>5, <2>1, <3>2 DEF Straight
    <3> QED BY <3>1, <3>2
  <2> QED BY <2>1, <2>2
<1>8. ASSUME ApplyFinished(e), known[e.job] = NoJob PROVE Fine
  BY <1>8 DEF ApplyFinished
<1>9. ASSUME ApplyFinished(e), known[e.job] # NoJob PROVE Fine
  <2> DEFINE file == IF e.file = NoFile THEN known[e.job].file ELSE e.file
             row  == [state |-> JournalState(e.state), file |-> file]
  <2>1. /\ e.type = "finished"
        /\ known' = [known EXCEPT ![e.job] = [state |-> e.state, file |-> file]]
        /\ writes' = writes \cup {[job |-> e.job, row |-> row]}
    BY <1>9 DEF ApplyFinished
  <2>2. e.job \in Straight => FileFits(e.job, file)
    <3>1. CASE e.file = NoFile
      BY <1>9, <3>1 DEF PathInv
    <3>2. CASE e.file # NoFile
      <4>1. Corrected # Renamed
        BY ConstantsAssumption DEF Corrected, Renamed
      <4> QED BY <1>3, <2>1, <3>2, <4>1 DEF EventFits, FileFits
    <3> QED BY <3>1, <3>2
  <2>3. row.state = "finished" => EndsWell(e)
    BY <2>1 DEF JournalState, EndsWell
  <2>4. e.job \in Straight => RowFits(e.job, row)
    <3> SUFFICES ASSUME e.job \in Straight, row.state = "finished", file # Corrected
                 PROVE  file = BasePath(e.job) /\ disk[e.job][Corrected] = {}
      BY <2>2 DEF RowFits
    <3>1. e.file = NoFile /\ disk[e.job][Corrected] = {}
      BY <1>3, <2>1, <2>3, ConstantsAssumption DEF EventFits, NoFile, Corrected
    <3>2. file = known[e.job].file /\ FileFits(e.job, file)
      BY <2>2, <3>1
    <3>3. CASE rec[e.job].title = "resolved"
      <4>1. UpToDate(e.job)
        BY <1>2, <3>3 DEF NameInv, Told
      <4>2. \A f \in Queued : f.job = e.job => f.file # Renamed
        BY <1>2, <2>1 DEF NameInv
      <4>3. file # Base
        BY <1>9, <3>2, <4>1, <4>2 DEF UpToDate
      <4> QED BY <3>1, <3>2, <3>3, <4>3 DEF FileFits, BasePath, PathOf
    <3>4. CASE rec[e.job].title # "resolved"
      BY <3>1, <3>2, <3>4 DEF FileFits, BasePath, PathOf
    <3> QED BY <3>3, <3>4
  <2>5. row.state = "finished" => e.job \in Complete
    BY <1>3, <2>3
  <2>6. [state |-> e.state, file |-> file].file = file
    OBVIOUS
  <2> HIDE DEF file, row
  <2> QED BY <1>3, <1>5, <2>1, <2>2, <2>4, <2>5, <2>6
<1>10. Fine
  BY <1>1, <1>6, <1>7, <1>8, <1>9
<1>11. \A j \in Jobs : Carried(j) /\ TitleStays(j)
  BY <1>2, NothingHappens
<1> QED BY <1>1, <1>2, <1>4, <1>10, <1>11, PathsGoOn

\* So do the writes, the pruning task and the user who deletes files.
LEMMA JournalStepsKeepPaths ==
    ASSUME JInv, PathInv,
           \/ \E w \in writes : Persist(w)
           \/ PruneSnapshot \/ Prune \/ ApplyPruned
           \/ \E j \in Jobs : UserDeletes(j)
    PROVE  PathInv'
<1>1. /\ JTypeOK /\ RowsAreTrue /\ \A j \in Jobs : NamedInOrder(j)
      /\ \A w \in writes : w.job \in Straight => RowFits(w.job, w.row)
  BY DEF JInv, PathInv
<1>2. UNCHANGED <<req, events, rec>> /\ Straight' = Straight /\ Queued' = Queued
  BY DEF Persist, PruneSnapshot, Prune, ApplyPruned, UserDeletes, vars, Straight, Queued
<1>3. ASSUME NEW w \in writes, Persist(w) PROVE PathInv'
  <2>1. /\ journal' = [journal EXCEPT ![w.job] = w.row] /\ writes' = writes \ {w}
        /\ UNCHANGED known /\ UNCHANGED <<active, req, rec, resolver, proc, disk, finalizer>>
    BY <1>3 DEF Persist, vars
  <2>2. w.job \in Jobs /\ journal \in [Jobs -> Rows \cup {NoRow}]
    BY <1>1 DEF JTypeOK, Writes
  <2>3. ASSUME NEW j \in Straight', journal'[j] # NoRow, journal'[j] # journal[j]
        PROVE  RowFits(j, journal'[j]) /\ (journal'[j].state = "finished" => j \in Complete)
    <3>1. j = w.job /\ journal'[j] = w.row
      BY <1>2, <2>1, <2>2, <2>3 DEF Straight
    <3> QED BY <1>1, <1>2, <3>1 DEF RowsAreTrue
  <2> QED BY <1>2, <2>1, <2>3, NothingHappens, PathsGoOn
<1>4. ASSUME PruneSnapshot PROVE PathInv'
  <2>1. UNCHANGED <<known, journal, writes, active, req, rec, resolver, proc, disk, finalizer>>
    BY <1>4 DEF PruneSnapshot, vars
  <2> QED BY <1>2, <2>1, NothingHappens, PathsGoOn
<1>5. ASSUME Prune PROVE PathInv'
  <2>1. /\ UNCHANGED <<known, writes, active, req, rec, resolver, proc, disk, finalizer>>
        /\ \A j \in Jobs : journal'[j] = NoRow \/ journal'[j] = journal[j]
    BY <1>5 DEF Prune, vars
  <2> QED BY <1>2, <2>1, NothingHappens, PathsGoOn DEF Straight
<1>6. ASSUME ApplyPruned PROVE PathInv'
  <2>1. /\ UNCHANGED <<journal, writes, active, req, rec, resolver, proc, disk, finalizer>>
        /\ \A j \in Jobs : known'[j] = NoJob \/ known'[j] = known[j]
    BY <1>6 DEF ApplyPruned, vars
  <2> QED BY <1>2, <2>1, NothingHappens, PathsGoOn DEF Straight
<1>7. ASSUME NEW k \in Jobs, UserDeletes(k) PROVE PathInv'
  <2>1. /\ k \notin active /\ finalizer[k] = "idle" /\ resolver[k].phase = "idle"
        /\ \A p \in Parts : proc[k][p] \notin Alive
        /\ Media(k) # {} /\ disk' = [disk EXCEPT ![k] = [f \in Files |-> {}]]
        /\ UNCHANGED <<active, req, rec, resolver, proc, finalizer, known, journal, writes>>
    BY <1>7 DEF UserDeletes, daemonVars
  <2>2. disk \in [Jobs -> [Files -> SUBSET Parts]] /\ Corrected \in Files
    BY <1>1 DEF JTypeOK, TypeOK, Corrected, Files
  <2>3. \A f \in Files : disk'[k][f] = {}
    BY <2>1, <2>2
  <2>4. k \in Used
    <3>1. ~Blank(k)
      BY <2>1 DEF Blank, Media
    <3> QED BY <1>1, <3>1 DEF NamedInOrder
  <2>5. Blank(k)' /\ (k \in Used)'
    BY <2>1, <2>3, <2>4 DEF Blank, Used
  <2>6. Carried(k)
    BY <2>1, <2>2, <2>3, <2>5 DEF Carried, NamedInOrder, Found, Emptied
  <2>7. ASSUME NEW j \in Jobs, j # k PROVE Carried(j)
    <3>1. disk'[j] = disk[j]
      BY <2>1, <2>2, <2>7
    <3> QED BY <1>1, <2>1, <3>1, UntouchedIsCarried
  <2>8. \A j \in Jobs : TitleStays(j)
    BY <1>2 DEF TitleStays
  <2> QED BY <1>2, <2>1, <2>6, <2>7, <2>8, PathsGoOn
<1> QED BY <1>3, <1>4, <1>5, <1>6, <1>7

\* A daemon that dies leaves files and rows; the next one lists the rows.
LEMMA DeathAndRestartKeepPaths ==
    ASSUME JInv, PathInv, DaemonDies \/ DaemonStarts
    PROVE  PathInv'
<1>1. JTypeOK /\ RowsAreTrue /\ \A j \in Jobs : NamedInOrder(j)
  BY DEF JInv, PathInv
<1>2. ASSUME DaemonDies PROVE PathInv'
  <2>1. /\ active' = {} /\ \A j \in Jobs : resolver'[j].phase = "idle" /\ finalizer'[j] = "idle"
        /\ \A j \in Jobs : known'[j] = NoJob
        /\ writes' = {} /\ Queued' = {} /\ UNCHANGED <<req, rec, proc, disk, journal>>
    BY <1>1, <1>2 DEF DaemonDies, Queued, JTypeOK, TypeOK
  <2>2. ASSUME NEW j \in Jobs PROVE Carried(j)
    <3>1. Blank(j) => Blank(j)'
      BY <2>1 DEF Blank
    <3>2. (j \in Used)' <=> j \in Used
      BY <2>1 DEF Used
    <3> QED BY <1>1, <2>1, <3>1, <3>2 DEF Carried, NamedInOrder, Found, Emptied
  <2>3. Straight' \subseteq Jobs /\ \A j \in Jobs : TitleStays(j)
    BY <2>1 DEF Straight, TitleStays
  <2> QED BY <2>1, <2>2, <2>3, PathsGoOn
<1>3. ASSUME DaemonStarts PROVE PathInv'
  <2>1. /\ UNCHANGED <<active, req, rec, resolver, proc, disk, finalizer, events, writes>>
        /\ \A j \in Jobs : /\ journal'[j] = NoRow \/ journal'[j] = Recovered(journal[j])
                           /\ known'[j] = Loaded(journal'[j])
    BY <1>3 DEF DaemonStarts
  <2>2. Straight' = Straight /\ Queued' = Queued /\ Straight \subseteq Jobs
    BY <2>1 DEF Straight, Queued
  <2>3. journal \in [Jobs -> Rows \cup {NoRow}] /\ NoRow \notin Rows
    BY <1>1, JournalAssumption DEF JTypeOK
  <2>4. ASSUME NEW j \in Straight, journal'[j] # NoRow, journal'[j] # journal[j]
        PROVE  /\ journal[j] \in Rows
               /\ journal'[j].file = journal[j].file /\ journal'[j].state = "interrupted"
    <3>1. journal'[j] = [journal[j] EXCEPT !.state = "interrupted"] /\ journal[j] \in Rows
      BY <2>1, <2>2, <2>3, <2>4 DEF Recovered
    <3> QED BY <3>1 DEF Rows
  <2>5. ASSUME NEW j \in Straight, journal'[j] # NoRow
        PROVE  RowFits(j, journal'[j]) /\ (journal'[j].state = "finished" => j \in Complete)
    <3>1. CASE journal'[j] = journal[j]
      BY <1>1, <2>2, <2>5, <3>1 DEF PathInv, RowsAreTrue
    <3>2. CASE journal'[j] # journal[j]
      <4>1. journal[j] # NoRow
        BY <2>3, <2>4, <2>5, <3>2
      <4>2. FileFits(j, journal[j].file)
        BY <4>1 DEF PathInv, RowFits
      <4> QED BY <2>4, <2>5, <3>2, <4>2 DEF RowFits
    <3> QED BY <3>1, <3>2
  <2>6. ASSUME NEW j \in Straight, known'[j] # NoJob PROVE FileFits(j, known'[j].file)
    <3>1. j \in Jobs /\ known'[j] = Loaded(journal'[j])
      BY <2>1, <2>2, <2>6
    <3>2. journal'[j] # NoRow
      <4>1. Loaded(NoRow) = NoJob
        BY DEF Loaded
      <4> QED BY <2>6, <3>1, <4>1
    <3>3. Loaded(journal'[j]).file = journal'[j].file
      BY <3>2 DEF Loaded
    <3>4. known'[j].file = journal'[j].file
      BY <3>1, <3>3
    <3> QED BY <2>5, <2>6, <3>2, <3>4 DEF RowFits
  <2> QED BY <2>1, <2>2, <2>5, <2>6, NothingHappens, PathsGoOn
<1> QED BY <1>2, <1>3

\* Names, files and rows fit in every reachable state.
LEMMA PathsHold == JSpec => []PathInv
<1>1. ASSUME JInit PROVE PathInv
  <2>1. /\ active = {} /\ events = <<>> /\ writes = {}
        /\ \A j \in Jobs : /\ req[j] = NoRequest /\ resolver[j].phase = "idle"
                           /\ finalizer[j] = "idle" /\ known[j] = NoJob /\ journal[j] = NoRow
                           /\ \A p \in Parts : proc[j][p] = "none"
                           /\ \A f \in Files : disk[j][f] = {}
    BY <1>1 DEF JInit, Init
  <2>2. Corrected \in Files /\ Queued = {} /\ Straight \subseteq Jobs
    BY <2>1 DEF Files, Corrected, Queued, Straight
  <2> QED BY <2>1, <2>2 DEF PathInv, NamedInOrder, Blank, Alive
<1>2. JInv /\ NameInv /\ PathInv /\ [JNext]_journalVars => PathInv'
  <2> SUFFICES ASSUME JInv, NameInv, PathInv, [JNext]_journalVars PROVE PathInv'
    OBVIOUS
  <2>1. ASSUME ManagerNext, UNCHANGED daemonVars PROVE PathInv'
    <3>1. UNCHANGED <<known, journal, writes>>
      BY <2>1 DEF daemonVars
    <3>2. \A j \in Jobs : Carried(j) /\ TitleStays(j)
      BY <2>1, ManagerCarries, ManagerKeepsTitles
    <3> QED BY <2>1, <3>1, <3>2, ManagerSendsWhatFits, PathsGoOn
  <2>2. ASSUME NEW j \in Jobs, NEW p \in Parts, Recorder(j, p) PROVE ManagerNext
    BY <2>2 DEF ManagerNext
  <2>3. ASSUME UNCHANGED journalVars PROVE PathInv'
    <3>1. UNCHANGED <<active, req, rec, resolver, proc, disk, finalizer>>
      BY <2>3 DEF journalVars, vars
    <3>2. UNCHANGED <<known, journal, writes>> /\ Queued' = Queued
      BY <2>3 DEF journalVars, vars, daemonVars, Queued
    <3> QED BY <3>1, <3>2, NothingHappens, PathsGoOn
  <2> QED BY <2>1, <2>2, <2>3, ApplyKeepsPaths, JournalStepsKeepPaths, DeathAndRestartKeepPaths
    DEF JNext
<1> QED BY <1>1, <1>2, DaemonIsConsistent, NamesHold, PTL DEF JSpec

\* A recording without a gap, whose file is where the manager has it, is gone
\* when its row is pruned, under the title yt-dlp resolved and the name that
\* finalization can give it, whatever deaths came between naming, announcing
\* and journalling (finalize_completion, persist_event,
\* prune_missing_recordings).
THEOREM PrunedIsGone == JSpec => PruningFollowsTheFile
<1>1. JInv /\ PathInv /\ [JNext]_journalVars =>
          [\A j \in Jobs :
             (/\ journal[j] # NoRow /\ journal'[j] = NoRow
              /\ rec[j].retry_count = 0 /\ resolver[j].title = rec[j].title)
                 => Gone(j)]_journalVars
  <2> SUFFICES ASSUME JInv, PathInv, [JNext]_journalVars,
                      NEW j \in Jobs, journal[j] # NoRow, journal'[j] = NoRow,
                      rec[j].retry_count = 0, resolver[j].title = rec[j].title
               PROVE  Gone(j)
    OBVIOUS
  <2>1. NoRow \notin Rows /\ JTypeOK
    BY JournalAssumption DEF JInv
  <2>2. RowFits(j, journal[j])
    BY DEF PathInv, Straight
  <2>3. ASSUME NEW kept, j \in Prunable(kept) PROVE Gone(j)
    <3>1. journal[j].state = "finished" /\ FileAt(j, journal[j].file) = {}
      BY <2>3 DEF Prunable, FileMissing
    <3>2. CASE journal[j].file # Corrected
      <4>1. journal[j].file = BasePath(j) /\ disk[j][Corrected] = {}
        BY <2>2, <3>1, <3>2 DEF RowFits
      <4>2. BasePath(j) = PathOf(Base, resolver[j].title) /\ BasePath(j) \in {Base, Renamed}
        BY DEF BasePath, PathOf
      <4> QED BY <3>1, <4>1, <4>2 DEF FileAt, Gone
    <3>3. CASE journal[j].file = Corrected
      <4>1. Corrected \notin {Base, Renamed} /\ Base \in Files /\ Corrected \in Files
        BY ConstantsAssumption DEF Base, Renamed, Corrected, Files, Parts
      <4>2. Emptied(j)
        BY <2>2, <3>1, <3>3, <4>1 DEF RowFits, FileFits, Found, FileAt
      <4> QED BY <4>1, <4>2 DEF Emptied, Blank, Gone
    <3> QED BY <3>2, <3>3
  <2>4. ASSUME NEW w \in writes, Persist(w) PROVE FALSE
    <3>1. w.row \in Rows /\ w.job \in Jobs
      BY <2>1 DEF JTypeOK, Writes
    <3> QED BY <2>1, <2>4, <3>1 DEF Persist, JTypeOK
  <2>5. ASSUME Prune PROVE Gone(j)
    BY <2>3, <2>5 DEF Prune
  <2>6. ASSUME DaemonStarts PROVE Gone(j)
    <3>1. j \notin Prunable({}) => Recovered(journal[j]) # NoRow
      <4>1. journal[j] \in Rows
        BY <2>1 DEF JTypeOK
      <4>2. [journal[j] EXCEPT !.state = "interrupted"] \in Rows
        BY <4>1 DEF Rows
      <4> QED BY <2>1, <4>2 DEF Recovered
    <3>2. j \in Prunable({})
      BY <2>6, <3>1 DEF DaemonStarts
    <3> QED BY <2>3, <3>2
  <2>7. ASSUME ~(Prune \/ DaemonStarts \/ \E w \in writes : Persist(w)) PROVE journal' = journal
    BY <2>7 DEF JNext, journalVars, daemonVars, ApplyEvent, ApplyPruned, PruneSnapshot,
                UserDeletes, DaemonDies
  <2> QED BY <2>4, <2>5, <2>6, <2>7
<1> QED BY <1>1, DaemonIsConsistent, PathsHold, PTL DEF JSpec, PruningFollowsTheFile

-----------------------------------------------------------------------------
(* The manager's promises beside deaths and restarts.  Recorders outlive   *)
(* their daemon and the records of it are gone; what the recordings of the *)
(* next one were promised holds all the same.                              *)

\* For the manager every step of the daemon is one of its own or of its
\* recorders, a user's, a death or a start.
LEMMA DaemonSteps ==
    ASSUME [JNext]_journalVars
    PROVE  [Next]_vars \/ (\E j \in Jobs : UserDeletes(j)) \/ DaemonDies \/ DaemonStarts
  BY DEF JNext, journalVars, Next, ManagerNext, ApplyEvent, ApplyPruned, Persist,
         PruneSnapshot, Prune

\* A death leaves recorders behind, of recordings that nothing will resume;
\* a start finds the map empty.
LEMMA CoreSurvives == JSpec => []Core
<1>1. JInit => Core
  BY InitIsInvariant DEF JInit, IInv
<1>2. Core /\ [JNext]_journalVars => Core'
  <2> SUFFICES ASSUME Core, [JNext]_journalVars PROVE Core'
    OBVIOUS
  <2>1. CASE [Next]_vars
    BY <2>1, StepKeepsCore DEF CoreStays
  <2>2. ASSUME NEW j \in Jobs, UserDeletes(j) PROVE Core'
    <3>1. /\ disk' = [disk EXCEPT ![j] = [f \in Files |-> {}]]
          /\ UNCHANGED <<running, active, req, rec, tail, resolver, proc, finalizer, events>>
      BY <2>2 DEF UserDeletes
    <3>2. disk' \in [Jobs -> [Files -> SUBSET Parts]]
      BY <3>1 DEF Core, TypeOK
    <3>3. TypeOK'
      BY <3>1, <3>2 DEF Core, TypeOK
    <3> QED BY <3>1, <3>3, FrameKeepsCore DEF CoreStays
  <2>3. CASE DaemonDies
    <3>1. /\ running' \in BOOLEAN /\ active' = {} /\ events' = <<>>
          /\ resolver' = [j \in Jobs |-> [resolver[j] EXCEPT !.phase = "idle"]]
          /\ finalizer' = [j \in Jobs |-> "idle"]
          /\ UNCHANGED <<req, rec, tail, proc, disk>>
      BY <2>3 DEF DaemonDies
    <3>0. \A j \in Jobs : /\ resolver'[j].phase = "idle"
                          /\ resolver'[j].part = resolver[j].part
                          /\ resolver'[j] \in [phase : ResolverPhases, part : Parts,
                                               title : Titles]
      BY <3>1 DEF Core, TypeOK, ResolverPhases
    <3>2. TypeOK'
      <4>1. /\ resolver \in [Jobs -> [phase : ResolverPhases, part : Parts, title : Titles]]
            /\ "idle" \in ResolverPhases
        BY DEF Core, TypeOK, ResolverPhases
      <4>2. resolver' \in [Jobs -> [phase : ResolverPhases, part : Parts, title : Titles]]
        BY <3>0, <3>1, <4>1
      <4>3. active' \subseteq Jobs /\ events' \in Seq(Events)
        BY <3>1
      <4>4. "idle" \in FinalizerStages
        BY DEF FinalizerStages
      <4>5. finalizer' \in [Jobs -> FinalizerStages]
        BY <3>1, <4>4
      <4> QED BY <3>1, <4>2, <4>3, <4>5 DEF Core, TypeOK
    <3>3. \A j \in Jobs : Part(j)' = Part(j) /\ Quiet(j)' = Quiet(j)
      BY <3>1 DEF Part, Quiet
    <3>4. UnusedIsBlank'
      BY <3>0, <3>1, <3>3 DEF Core, UnusedIsBlank
    <3>5. CancelledIsEmpty' /\ AnswersFitTheirJob' /\ ActiveIsConsistent'
      BY <3>0, <3>1 DEF CancelledIsEmpty, AnswersFitTheirJob, ActiveIsConsistent
    <3>6. NewestPartIsWritten' /\ FinalizedIsOver'
      BY <3>0, <3>1, <3>3 DEF Core, NewestPartIsWritten, FinalizedIsOver
    <3> QED BY <3>2, <3>4, <3>5, <3>6 DEF Core
  <2>4. CASE DaemonStarts
    <3>1. /\ running' = TRUE
          /\ UNCHANGED <<active, req, rec, tail, resolver, proc, disk, finalizer, events>>
      BY <2>4 DEF DaemonStarts
    <3> QED
      BY <3>1 DEF Core, TypeOK, UnusedIsBlank, Quiet, CancelledIsEmpty, AnswersFitTheirJob, Part,
                  ActiveIsConsistent, NewestPartIsWritten, FinalizedIsOver
  <2> QED BY <2>1, <2>2, <2>3, <2>4, DaemonSteps
<1> QED BY <1>1, <1>2, PTL DEF JSpec

\* A recorder that outlived its daemon is not joined by another for the same
\* recording, no part a live clip is cut from grows, and a recording that
\* resolves is answered: no job is taken up again by another daemon.
THEOREM RecordersOutliveSafely ==
    JSpec => [](OneRecorderPerJob /\ FinalizedPartsAreWhole /\ ResolvingIsAnswered)
  BY CoreSurvives, RecordersFit, PTL

\* What attends to the recordings of a daemon dies with them.
LEMMA AttendedSurvives ==
    ASSUME Core, AttendedInv, [JNext]_journalVars
    PROVE  AttendedInv'
<1>1. CASE [Next]_vars
  BY <1>1, StepKeepsAttended
<1>2. CASE DaemonDies
  <2>1. active' = {} /\ \A j \in Jobs : resolver'[j].phase = "idle"
    BY <1>2 DEF DaemonDies, Core, TypeOK
  <2> QED BY <2>1 DEF AttendedInv
<1>3. CASE (\E j \in Jobs : UserDeletes(j)) \/ DaemonStarts
  BY <1>3 DEF UserDeletes, DaemonStarts, AttendedInv, Part
<1> QED BY <1>1, <1>2, <1>3, DaemonSteps

\* A manager that starts again holds its cap and its targets from the first
\* recording on (the recorders it does not know of are not counted), and loses
\* no slot.
THEOREM AdmissionSurvivesRestarts ==
    JSpec => [](SlotsWithinCap /\ OnePerTarget /\ NoSlotIsLost)
<1>1. JInit => SlotsWithinCap /\ OnePerTarget /\ AttendedInv
  BY FS_EmptySet, InitIsAttended DEF JInit, Init, SlotsWithinCap, OnePerTarget, SlotHolders
<1>2. Core /\ SlotsWithinCap /\ OnePerTarget /\ [JNext]_journalVars
          => SlotsWithinCap' /\ OnePerTarget'
  <2> SUFFICES ASSUME Core, SlotsWithinCap, OnePerTarget, [JNext]_journalVars
               PROVE  SlotsWithinCap' /\ OnePerTarget'
    OBVIOUS
  <2>1. CASE [Next]_vars
    BY <2>1, CapStays, TargetsStay
  <2>2. CASE DaemonDies
    <3>1. SlotHolders' = {}
      BY <2>2 DEF DaemonDies, SlotHolders
    <3> QED BY <3>1, FS_EmptySet, ConstantsAssumption DEF SlotsWithinCap, OnePerTarget
  <2>3. CASE (\E j \in Jobs : UserDeletes(j)) \/ DaemonStarts
    <3>1. UNCHANGED <<active, req, rec>>
      BY <2>3 DEF UserDeletes, DaemonStarts
    <3>2. SlotHolders' = SlotHolders
      BY <3>1 DEF SlotHolders
    <3> QED BY <3>1, <3>2 DEF SlotsWithinCap, OnePerTarget
  <2> QED BY <2>1, <2>2, <2>3, DaemonSteps
<1>3. Core /\ AttendedInv /\ [JNext]_journalVars => AttendedInv'
  BY AttendedSurvives
<1> QED BY <1>1, <1>2, <1>3, AttendedHolders, CoreSurvives, PTL DEF JSpec

\* Nothing follows the end of a recording in the queue of any daemon.
THEOREM EndsComeLastInEachRun == JSpec => []NothingAfterTheEnd
<1>1. JInv => NothingAfterTheEnd
  BY DEF JInv, EndInv, EndsLast, NothingAfterTheEnd
<1> QED BY <1>1, DaemonIsConsistent, PTL

-----------------------------------------------------------------------------
(* The captured media.                                                     *)

\* What was captured is lost only when the user deletes it: no death between
\* merging, renaming and deleting parts, and no start after it, takes a byte
\* (finalize_completion, merge_segments, recover_orphaned_running).
OnlyTheUserDeletes ==
    [][\A j \in Jobs : Media(j) \subseteq Media(j)' \/ UserDeletes(j)]_journalVars

\* MediaInv says of each recording at work where its parts are; what a death
\* leaves of a merge, a hidden file or parts beside the merged base, is of a
\* recording that is not at work any more.
THEOREM CrashesLoseNoMedia == JSpec => OnlyTheUserDeletes
<1>1. JInit => MediaInv
  BY InitKeepsMedia DEF JInit
<1>2. JInv /\ MediaInv /\ [JNext]_journalVars =>
          MediaInv' /\ \A j \in Jobs : Media(j) \subseteq Media(j)' \/ UserDeletes(j)
  <2> SUFFICES ASSUME JInv, MediaInv, [JNext]_journalVars
               PROVE  MediaInv' /\ \A j \in Jobs : Media(j) \subseteq Media(j)' \/ UserDeletes(j)
    OBVIOUS
  <2>0. TypeOK /\ EndInv
    BY DEF JInv, MapInv
  <2>1. CASE [Next]_vars
    BY <2>0, <2>1, StepKeepsMedia
  <2>2. ASSUME NEW k \in Jobs, UserDeletes(k)
        PROVE  MediaInv' /\ \A j \in Jobs : Media(j) \subseteq Media(j)' \/ UserDeletes(j)
    <3>1. /\ disk' = [disk EXCEPT ![k] = [f \in Files |-> {}]] /\ finalizer[k] = "idle"
          /\ UNCHANGED <<active, req, rec, finalizer>>
      BY <2>2 DEF UserDeletes
    <3>2. /\ \A f \in Files : disk'[k][f] = {}
          /\ \A j \in Jobs \ {k} : disk'[j] = disk[j]
      BY <2>0, <3>1 DEF TypeOK
    <3>3. \A j \in Jobs : /\ Segments(j)' = Segments(j) /\ MayMerge(j)' = MayMerge(j)
                         /\ Base \in Files /\ Merging \in Files /\ Parts \subseteq Files
      BY <2>0, <3>1, NamesDiffer DEF Segments, Part, MayMerge
    <3>4. FinalizedHasLeft'
      BY <3>1 DEF MediaInv, FinalizedHasLeft, Finalizing
    <3>5. ASSUME NEW j \in Jobs
          PROVE  /\ \A p \in Parts \ {Base} : disk'[j][p] \subseteq {p}
                 /\ j \in active' \/ req'[j] = NoRequest \/ finalizer'[j] = "merge"
                        => disk'[j][Base] \subseteq {Base}
                 /\ MayMerge(j)' => disk'[j][Merging] = {}
                 /\ finalizer'[j] = "rename" =>
                        /\ HoldsParts(j, Merging)'
                        /\ disk'[j][Merging] \subseteq UNION {disk'[j][p] : p \in Segments(j)'}
                 /\ finalizer'[j] = "cleanup" => HoldsParts(j, Base)'
      <4>1. CASE j = k
        BY <3>1, <3>2, <3>3, <4>1
      <4>2. CASE j # k
        BY <3>1, <3>2, <3>3, <4>2 DEF MediaInv, HoldsParts
      <4> QED BY <4>1, <4>2
    <3>6. \A j \in Jobs \ {k} : Media(j)' = Media(j)
      BY <3>2 DEF Media
    <3> QED BY <2>2, <3>4, <3>5, <3>6 DEF MediaInv
  <2>3. CASE DaemonDies
    <3>1. /\ active' = {} /\ finalizer' = [j \in Jobs |-> "idle"] /\ UNCHANGED <<req, rec, disk>>
      BY <2>3 DEF DaemonDies
    <3>2. \A j \in Jobs : MayMerge(j)' => req[j] = NoRequest
      BY <3>1 DEF MayMerge
    <3>3. MediaInv'
      BY <3>1, <3>2 DEF MediaInv, FinalizedHasLeft, Finalizing, MayMerge
    <3> QED BY <3>1, <3>3 DEF Media
  <2>4. CASE DaemonStarts
    <3>1. UNCHANGED <<active, req, rec, disk, finalizer>>
      BY <2>4 DEF DaemonStarts
    <3>2. MediaInv'
      BY <3>1 DEF MediaInv, FinalizedHasLeft, Finalizing, MayMerge, HoldsParts, Segments, Part
    <3> QED BY <3>1, <3>2 DEF Media
  <2> QED BY <2>1, <2>2, <2>3, <2>4, DaemonSteps
<1> QED BY <1>1, <1>2, DaemonIsConsistent, PTL DEF JSpec, OnlyTheUserDeletes

-----------------------------------------------------------------------------
(* What Finished means.                                                    *)

\* What a client is shown as Finished, and what the journal calls finished, is
\* a recording that has left the map and that no task is still merging or
\* renaming: its files may be opened, moved or pruned.
FinishedIsComplete ==
    \A j \in Jobs :
        /\ known[j] # NoJob /\ known[j].state = "Finished" => j \in Complete
        /\ journal[j] # NoRow /\ journal[j].state = "finished" => j \in Complete

ListedFinished == {j \in Jobs : known[j] # NoJob /\ known[j].state = "Finished"}

\* The end of a recording is announced as its task's last step, applied in the
\* order of the queue, and journalled from what was applied; writes that reach
\* the journal out of order, deaths and restarts can only take it back.
THEOREM FinishedMeansComplete == JSpec => []FinishedIsComplete
<1> DEFINE Listed == ListedFinished \subseteq Complete
<1>1. JInit => Listed
  BY DEF JInit, ListedFinished
<1>2. JInv /\ Listed /\ [JNext]_journalVars => Listed'
  <2> SUFFICES ASSUME JInv, Listed, [JNext]_journalVars,
                      NEW j \in Jobs, j \in ListedFinished'
               PROVE  j \in Complete'
    BY DEF ListedFinished
  <2>1. known'[j] # NoJob /\ known'[j].state = "Finished"
    BY DEF ListedFinished
  <2>2. Complete \subseteq Complete'
    <3>1. CASE [Next]_vars
      <4>1. ASSUME ManagerNext PROVE ManagerMoves
        BY <4>1, ManagerStepMoves DEF JInv
      <4>2. ASSUME TakeEvent \/ UNCHANGED vars PROVE UNCHANGED <<active, req, finalizer>>
        BY <4>2 DEF TakeEvent, vars
      <4> QED BY <3>1, <4>1, <4>2 DEF Next, ManagerMoves, Complete, Used, Finalizing
    <3>2. CASE DaemonDies
      BY <3>2 DEF DaemonDies, Complete, Used, Finalizing
    <3>3. CASE (\E k \in Jobs : UserDeletes(k)) \/ DaemonStarts
      BY <3>3 DEF UserDeletes, DaemonStarts, Complete, Used, Finalizing
    <3> QED BY <3>1, <3>2, <3>3, DaemonSteps
  <2>3. ASSUME ApplyEvent PROVE j \in Complete'
    <3> DEFINE e == Head(events)
    <3>1. /\ JTypeOK /\ EventsAreTrue /\ TypeOK /\ EndsLast(events) /\ TakeEvent
          /\ ApplyStarted(e) \/ ApplyProgress(e) \/ ApplyFinished(e)
      BY <2>3 DEF JInv, MapInv, EndInv, ApplyEvent
    <3>2. e \in Queued
      BY <3>1, HeadIsTaken
    <3>3. e \in Sendable /\ e.job \in Jobs /\ (EndsWell(e) => e.job \in Complete)
      BY <3>1, <3>2 DEF EventsAreTrue, Used
    <3> HIDE DEF e
    <3>4. known[j] \in KnownJobs \cup {NoJob} /\ known \in [Jobs -> KnownJobs \cup {NoJob}]
      BY <3>1 DEF JTypeOK
    <3>5. known'[j] = known[j] \/ (j = e.job /\ EndsWell(e))
      <4>1. CASE ApplyStarted(e)
        <5>1. e.state # "Finished"
          BY <3>3, <4>1 DEF ApplyStarted, Sendable, Terminal
        <5> QED BY <2>1, <3>3, <3>4, <4>1, <5>1 DEF ApplyStarted
      <4>2. CASE ApplyProgress(e)
        <5>1. j = e.job /\ known[j] # NoJob => known'[j].state = "Recording"
          BY <3>4, <4>2 DEF ApplyProgress, KnownJobs
        <5>2. j = e.job /\ known[j] = NoJob => known' = known
          BY <4>2 DEF ApplyProgress
        <5>3. j # e.job => known'[j] = known[j]
          BY <3>4, <4>2 DEF ApplyProgress
        <5>4. known'[j].state # "Recording"
          BY <2>1
        <5> QED BY <5>1, <5>2, <5>3, <5>4
      <4>3. CASE ApplyFinished(e)
        <5>1. \/ known' = known
              \/ \E f : known' = [known EXCEPT ![e.job] = [state |-> e.state, file |-> f]]
          BY <4>3 DEF ApplyFinished
        <5>2. CASE known' = known
          BY <5>2
        <5>3. ASSUME NEW f, known' = [known EXCEPT ![e.job] = [state |-> e.state, file |-> f]]
              PROVE known'[j] = known[j] \/ (j = e.job /\ known'[j].state = e.state)
          <6>1. CASE j = e.job
            <7>1. known'[j] = [state |-> e.state, file |-> f]
              BY <3>4, <5>3, <6>1
            <7> QED BY <6>1, <7>1
          <6>2. CASE j # e.job
            BY <3>4, <5>3, <6>2
          <6> QED BY <6>1, <6>2
        <5>4. known'[j] = known[j] \/ (j = e.job /\ known'[j].state = e.state)
          BY <5>1, <5>2, <5>3
        <5>5. e.type = "finished"
          BY <4>3 DEF ApplyFinished
        <5> QED BY <2>1, <5>4, <5>5 DEF EndsWell
      <4> QED BY <3>1, <4>1, <4>2, <4>3
    <3> QED BY <2>1, <2>2, <3>3, <3>5 DEF ListedFinished
  <2>4. ASSUME ApplyPruned PROVE j \in Complete'
    BY <2>1, <2>2, <2>4 DEF ApplyPruned, ListedFinished
  <2>5. ASSUME DaemonDies PROVE j \in Complete'
    BY <2>1, <2>5 DEF DaemonDies
  <2>6. ASSUME DaemonStarts PROVE j \in Complete'
    <3>1. known'[j] = Loaded(journal'[j])
      BY <2>6 DEF DaemonStarts
    <3>2. journal'[j] # NoRow /\ journal'[j].state = "finished"
      BY <2>1, <3>1 DEF Loaded
    <3> QED BY <3>2, StepKeepsJInv DEF JInv, RowsAreTrue
  <2>7. ASSUME ~(ApplyEvent \/ ApplyPruned \/ DaemonDies \/ DaemonStarts) PROVE j \in Complete'
    <3>1. known' = known
      BY <2>7 DEF JNext, journalVars, daemonVars, Persist, PruneSnapshot, Prune, UserDeletes
    <3> QED BY <2>1, <2>2, <3>1 DEF ListedFinished
  <2> QED BY <2>3, <2>4, <2>5, <2>6, <2>7
<1>3. JInv /\ Listed => FinishedIsComplete
  BY DEF JInv, RowsAreTrue, ListedFinished, FinishedIsComplete
<1> QED BY <1>1, <1>2, <1>3, DaemonIsConsistent, PTL DEF JSpec
=============================================================================
