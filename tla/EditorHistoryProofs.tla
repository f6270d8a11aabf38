------------------------- MODULE EditorHistoryProofs -------------------------
(***************************************************************************)
(* Theorems about ProjectWorkspace and EditorHistory, for every set of     *)
(* editors, sessions, revisions and drafts and any number of places.        *)
(***************************************************************************)
EXTENDS EditorHistory, TLAPS

USE MaxPlaceAssumption

-----------------------------------------------------------------------------
(* The workspace row.                                                      *)

\* The row and every half-done PUT carry a draft exactly when they say so.
WorkspaceInv ==
    /\ WTypeOK
    /\ DirtyMeansADraft
    /\ \A s \in Sessions : put[s].dirty <=> put[s].draft # Nothing

\* Every statement on the row keeps the flag with the draft.
LEMMA DraftAndFlagMove ==
    ASSUME WorkspaceInv, [Next]_vars
    PROVE  WorkspaceInv'
<1> USE NothingAssumption DEF WorkspaceInv, WTypeOK, DirtyMeansADraft
<1>1. CASE UNCHANGED wsVars
  BY <1>1 DEF wsVars
<1>2. CASE OpenWorkspace
  BY <1>2 DEF OpenWorkspace, Absent
<1>3. ASSUME NEW r \in Revisions, SelectRevision(r) PROVE WorkspaceInv'
  BY <1>3 DEF SelectRevision
<1>4. ASSUME NEW s \in Sessions, NEW view \in Views \union {Nothing},
             NEW draft \in Drafts \union {Nothing}, ReadView(s, view, draft)
      PROVE  WorkspaceInv'
  <2> DEFINE half == [busy |-> TRUE,
                      view |-> IF view = Nothing THEN row.view ELSE view,
                      draft |-> IF draft = Nothing THEN row.draft ELSE draft,
                      dirty |-> draft # Nothing \/ row.dirty]
  <2>1. put' = [put EXCEPT ![s] = half] /\ row' = row
    BY <1>4 DEF ReadView
  <2>2. half \in [busy : BOOLEAN, view : Views \union {Nothing},
                  draft : Drafts \union {Nothing}, dirty : BOOLEAN]
    OBVIOUS
  <2>3. half.dirty <=> half.draft # Nothing
    OBVIOUS
  <2> HIDE DEF half
  <2> QED BY <2>1, <2>2, <2>3
<1>5. ASSUME NEW s \in Sessions, WriteView(s) PROVE WorkspaceInv'
  BY <1>5 DEF WriteView, NoPut
<1>6. CASE DropDraft
  BY <1>6 DEF DropDraft
<1>7. ASSUME NEW draft \in Drafts, NEW base \in Revisions, SaveDraft(draft, base)
      PROVE  WorkspaceInv'
  BY <1>7 DEF SaveDraft
<1>8. CASE WNext
  BY <1>2, <1>3, <1>4, <1>5, <1>6, <1>7, <1>8 DEF WNext
<1>9. CASE HistoryNext
  BY <1>1, <1>9 DEF HistoryNext, Call, Record, Undo, Redo, Branch, Snapshot, Decide,
                    CommitEntry, CallFails
<1>10. CASE UNCHANGED vars
  BY <1>1, <1>10 DEF vars, wsVars
<1> QED BY <1>8, <1>9, <1>10 DEF Next

\* The row and every half-done PUT stay consistent.
LEMMA WorkspaceIsSound == Spec => []WorkspaceInv
<1>1. Init => WorkspaceInv
  BY DEF Init, WInit, WorkspaceInv, WTypeOK, DirtyMeansADraft, Absent, NoPut
<1>2. WorkspaceInv /\ [Next]_vars => WorkspaceInv'
  BY DraftAndFlagMove
<1> QED BY <1>1, <1>2, PTL DEF Spec

\* The unsaved flag is up exactly while there is a draft, through every
\* interleaving of autosaves, discards and view switches (save_view_state,
\* save_draft, discard_draft).
THEOREM FlagFollowsDraft == Spec => []DirtyMeansADraft
<1>1. WorkspaceInv => DirtyMeansADraft
  BY DEF WorkspaceInv
<1> QED BY <1>1, WorkspaceIsSound, PTL

-----------------------------------------------------------------------------
(* Entries.                                                                *)

\* Only an undo puts an entry back, and undo, redo and snapshot follow one.
WellFormed(e) ==
    /\ e.verb = "undo" <=> e.replaced # Root
    /\ e.verb \in {"undo", "redo", "snapshot"} => e.parent # Root

\* The entries e refers to are in the table was.
Refers(e, was) == {e.parent, e.replaced} \subseteq DOMAIN was \union {Root}

Sound(e, was) == WellFormed(e) /\ Refers(e, was) /\ RestoredFrom(e, was)

AllSound(was) == \A e \in DOMAIN was : Sound(was[e], was)

\* Every set of entries has one that names none of the set.
NoCircle(was) ==
    \A S \in SUBSET DOMAIN was : S # {} =>
      \E e \in S : {was[e].parent, was[e].replaced} \cap S = {}

Grows(was, is) ==
    /\ DOMAIN was \subseteq DOMAIN is
    /\ \A f \in DOMAIN was : is[f] = was[f]

\* An entry that is sound stays sound when the table grows.
LEMMA SoundSurvives ==
    ASSUME NEW was, NEW is, AllSound(was), Grows(was, is),
           NEW e \in Entry, Sound(e, was)
    PROVE  Sound(e, is)
<1> SUFFICES RestoredFrom(e, is)
  BY DEF Sound, Refers, Grows
<1>1. e.parent # Root => is[e.parent] = was[e.parent]
  BY DEF Sound, Refers, Grows
<1>2. e.replaced # Root => is[e.replaced] = was[e.replaced]
  BY DEF Sound, Refers, Grows
<1>3. CASE e.verb = "undo"
  BY <1>1, <1>2, <1>3 DEF Sound, WellFormed, RestoredFrom
<1>4. CASE e.verb = "redo"
  <2> DEFINE x == was[e.parent]
  <2>1. e.parent # Root /\ e.parent \in DOMAIN was
    BY <1>4 DEF Sound, WellFormed, Refers
  <2>2. x.verb = "undo" /\ e.rev = was[x.replaced].rev
    BY <1>4 DEF Sound, RestoredFrom
  <2>3. Sound(x, was)
    BY <2>1 DEF AllSound
  <2>4. x.replaced \in DOMAIN was
    BY <2>2, <2>3 DEF Sound, WellFormed, Refers
  <2>5. is[x.replaced] = was[x.replaced] /\ is[e.parent] = x
    BY <2>1, <2>4 DEF Grows
  <2> QED BY <1>4, <2>2, <2>5 DEF RestoredFrom
<1>5. CASE e.verb = "snapshot"
  BY <1>1, <1>5 DEF Sound, WellFormed, RestoredFrom
<1>6. CASE e.verb \notin {"undo", "redo", "snapshot"}
  BY <1>6 DEF Sound, RestoredFrom
<1> QED BY <1>3, <1>4, <1>5, <1>6

\* A new entry that names entries of the table closes no circle in it.
LEMMA NoCircleSurvives ==
    ASSUME NEW was, NEW is, NEW id, id \notin DOMAIN was, id # Root, AllSound(was),
           NoCircle(was), Grows(was, is), DOMAIN is = DOMAIN was \union {id},
           Refers(is[id], was), Root \notin DOMAIN is
    PROVE  NoCircle(is)
<1> SUFFICES ASSUME NEW S \in SUBSET DOMAIN is, S # {}
             PROVE  \E e \in S : {is[e].parent, is[e].replaced} \cap S = {}
  BY DEF NoCircle
<1> DEFINE old == S \ {id}
<1>1. old \in SUBSET DOMAIN was
  OBVIOUS
<1>2. \A e \in old : is[e] = was[e] /\ Refers(was[e], was)
  BY <1>1 DEF Grows, AllSound, Sound
<1>3. CASE old = {}
  <2>1. S = {id}
    BY <1>3
  <2> QED BY <2>1 DEF Refers
<1>4. CASE old # {}
  <2>1. PICK e \in old : {was[e].parent, was[e].replaced} \cap old = {}
    BY <1>1, <1>4 DEF NoCircle
  <2>2. id \notin {was[e].parent, was[e].replaced}
    BY <1>2, <2>1 DEF Refers
  <2> QED BY <1>2, <2>1, <2>2
<1> QED BY <1>3, <1>4

-----------------------------------------------------------------------------
(* The history.                                                            *)

HistoryTyped ==
    /\ DOMAIN entries \subseteq Places
    /\ entries \in [DOMAIN entries -> Entry]
    /\ now \in [Editors -> Places \union {NotCalled}]
    /\ plan \in [Editors -> Entry \union {NoPlan}]

\* A call has a place of its own, which no entry has; only a call has a planned
\* entry, and that is sound in the history it was planned on and in every later.
CallsAreSound ==
    /\ \A c \in Editors : now[c] # NotCalled => now[c] \notin DOMAIN entries
    /\ \A c, d \in Editors : now[c] # NotCalled /\ c # d => now[c] # now[d]
    /\ \A c \in Editors : plan[c] # NoPlan => now[c] # NotCalled /\ Sound(plan[c], entries)

\* A history that is not empty has a last entry.
HasLast(was) == DOMAIN was # {} => \E e \in DOMAIN was : \A f \in DOMAIN was : f <= e

HistoryInv ==
    HistoryTyped /\ HasLast(entries) /\ AllSound(entries) /\ NoCircle(entries) /\ CallsAreSound

\* A history that has entries has a last one.
LEMMA TipIsLast ==
    ASSUME HistoryInv
    PROVE  /\ DOMAIN entries # {} => Tip \in DOMAIN entries
           /\ DOMAIN entries = {} => Tip = Root
<1>1. ASSUME DOMAIN entries # {} PROVE Tip \in DOMAIN entries
  <2>1. \E e \in DOMAIN entries : \A f \in DOMAIN entries : f <= e
    BY <1>1 DEF HistoryInv, HasLast
  <2> QED BY <1>1, <2>1 DEF Tip
<1>2. DOMAIN entries = {} => Tip = Root
  BY DEF Tip
<1> QED BY <1>1, <1>2

\* An entry of the history, and the entries it names.
LEMMA EntriesAreSound ==
    ASSUME HistoryInv, NEW f \in DOMAIN entries
    PROVE  /\ f \in Nat \ {Root} /\ entries[f] \in Entry
           /\ WellFormed(entries[f]) /\ RestoredFrom(entries[f], entries)
           /\ entries[f].parent \in DOMAIN entries \union {Root}
           /\ entries[f].replaced \in DOMAIN entries \union {Root}
<1>1. f \in Places /\ entries[f] \in Entry
  BY DEF HistoryInv, HistoryTyped
<1>2. Sound(entries[f], entries)
  BY DEF HistoryInv, AllSound
<1> QED BY <1>1, <1>2 DEF Places, Root, Sound, Refers

\* A call that draws a place nobody has keeps the history sound.
LEMMA CallKeeps ==
    ASSUME HistoryInv, NEW c \in Editors, NEW place \in Places, Call(c, place)
    PROVE  HistoryInv'
<1>1. /\ now[c] = NotCalled /\ place \notin DOMAIN entries
      /\ \A d \in Editors : now[d] # place
      /\ now' = [now EXCEPT ![c] = place] /\ entries' = entries /\ plan' = plan
  BY DEF Call
<1>2. now \in [Editors -> Places \union {NotCalled}]
  BY DEF HistoryInv, HistoryTyped
<1>3. now' \in [Editors -> Places \union {NotCalled}]
  BY <1>1, <1>2
<1>4. \A d \in Editors : now'[d] = IF d = c THEN place ELSE now[d]
  BY <1>1, <1>2
<1>5. CallsAreSound'
  BY <1>1, <1>4 DEF HistoryInv, CallsAreSound
<1> QED BY <1>1, <1>3, <1>5 DEF HistoryInv, HistoryTyped

\* A verb that plans a sound entry keeps the history sound.
LEMMA DecideKeeps ==
    ASSUME HistoryInv, NEW c \in Editors, NEW e \in Entry, Sound(e, entries), Decide(c, e)
    PROVE  HistoryInv'
<1>1. /\ now[c] # NotCalled /\ plan' = [plan EXCEPT ![c] = e]
      /\ entries' = entries /\ now' = now
  BY DEF Decide
<1>2. plan \in [Editors -> Entry \union {NoPlan}]
  BY DEF HistoryInv, HistoryTyped
<1>3. plan' \in [Editors -> Entry \union {NoPlan}]
  BY <1>1, <1>2
<1>4. \A d \in Editors : plan'[d] = IF d = c THEN e ELSE plan[d]
  BY <1>1, <1>2
<1>5. CallsAreSound'
  BY <1>1, <1>4 DEF HistoryInv, CallsAreSound
<1> QED BY <1>1, <1>3, <1>5 DEF HistoryInv, HistoryTyped

\* record: after the tip, with a revision of its own.
LEMMA RecordKeeps ==
    ASSUME HistoryInv, NEW c \in Editors, NEW base, NEW rev \in Revisions, Record(c, base, rev)
    PROVE  HistoryInv'
<1> DEFINE e == Made("record", Tip, Root, rev)
<1>1. e = [verb |-> "record", parent |-> Tip, replaced |-> Root, rev |-> rev]
  BY DEF Made
<1>2. Tip \in DOMAIN entries \union {Root} /\ Tip \in Nat
  BY TipIsLast, EntriesAreSound DEF Root
<1>3. e \in Entry
  BY <1>1, <1>2 DEF Entry, Verbs, Root
<1>4. Sound(e, entries)
  BY <1>1, <1>2 DEF Sound, WellFormed, Refers, RestoredFrom
<1>5. Decide(c, e)
  BY DEF Record
<1> HIDE DEF e
<1> QED BY <1>3, <1>4, <1>5, DecideKeeps

\* undo: on the parent of the tip, putting the tip back.
LEMMA UndoKeeps ==
    ASSUME HistoryInv, NEW c \in Editors, Undo(c)
    PROVE  HistoryInv'
<1> DEFINE up == entries[Tip].parent
           e == Made("undo", up, Tip, entries[up].rev)
<1>1. e = [verb |-> "undo", parent |-> up, replaced |-> Tip, rev |-> entries[up].rev]
  BY DEF Made
<1>2. Tip \in DOMAIN entries /\ up # Root
  BY TipIsLast DEF Undo
<1>3. up \in DOMAIN entries /\ up \in Nat \ {Root} /\ Tip \in Nat \ {Root}
  BY <1>2, EntriesAreSound
<1>4. entries[up].rev \in Revisions
  BY <1>3, EntriesAreSound DEF Entry
<1>5. e \in Entry
  BY <1>1, <1>3, <1>4 DEF Entry, Verbs
<1>6. Sound(e, entries)
  BY <1>1, <1>2, <1>3 DEF Sound, WellFormed, Refers, RestoredFrom
<1>7. Decide(c, e)
  BY DEF Undo
<1> HIDE DEF e
<1> QED BY <1>5, <1>6, <1>7, DecideKeeps

\* redo: after a tip that is an undo, with what that undo put back.
LEMMA RedoKeeps ==
    ASSUME HistoryInv, NEW c \in Editors, Redo(c)
    PROVE  HistoryInv'
<1> DEFINE back == entries[Tip].replaced
           e == Made("redo", Tip, Root, entries[back].rev)
<1>1. e = [verb |-> "redo", parent |-> Tip, replaced |-> Root, rev |-> entries[back].rev]
  BY DEF Made
<1>2. Tip \in DOMAIN entries /\ back # Root
  BY TipIsLast DEF Redo
<1>3. back \in DOMAIN entries /\ Tip \in Nat \ {Root}
  BY <1>2, EntriesAreSound
<1>4. entries[back].rev \in Revisions
  BY <1>3, EntriesAreSound DEF Entry
<1>5. entries[Tip].verb = "undo"
  BY <1>2, EntriesAreSound DEF WellFormed
<1>6. e \in Entry
  BY <1>1, <1>3, <1>4 DEF Entry, Verbs, Root
<1>7. Sound(e, entries)
  BY <1>1, <1>2, <1>3, <1>5 DEF Sound, WellFormed, Refers, RestoredFrom
<1>8. Decide(c, e)
  BY DEF Redo
<1> HIDE DEF e
<1> QED BY <1>6, <1>7, <1>8, DecideKeeps

\* branch: after any entry but the tip.
LEMMA BranchKeeps ==
    ASSUME HistoryInv, NEW c \in Editors, NEW from, NEW rev \in Revisions, Branch(c, from, rev)
    PROVE  HistoryInv'
<1> DEFINE e == Made("branch", from, Root, rev)
<1>1. e = [verb |-> "branch", parent |-> from, replaced |-> Root, rev |-> rev]
  BY DEF Made
<1>2. from \in DOMAIN entries /\ from \in Nat
  BY EntriesAreSound DEF Branch
<1>3. e \in Entry
  BY <1>1, <1>2 DEF Entry, Verbs, Root
<1>4. Sound(e, entries)
  BY <1>1, <1>2 DEF Sound, WellFormed, Refers, RestoredFrom
<1>5. Decide(c, e)
  BY DEF Branch
<1> HIDE DEF e
<1> QED BY <1>3, <1>4, <1>5, DecideKeeps

\* snapshot: after the tip, with the revision of the tip.
LEMMA SnapshotKeeps ==
    ASSUME HistoryInv, NEW c \in Editors, Snapshot(c)
    PROVE  HistoryInv'
<1> DEFINE e == Made("snapshot", Tip, Root, entries[Tip].rev)
<1>1. e = [verb |-> "snapshot", parent |-> Tip, replaced |-> Root, rev |-> entries[Tip].rev]
  BY DEF Made
<1>2. Tip \in DOMAIN entries
  BY TipIsLast DEF Snapshot
<1>3. Tip \in Nat \ {Root} /\ entries[Tip].rev \in Revisions
  BY <1>2, EntriesAreSound DEF Entry
<1>4. e \in Entry
  BY <1>1, <1>3 DEF Entry, Verbs, Root
<1>5. Sound(e, entries)
  BY <1>1, <1>2, <1>3 DEF Sound, WellFormed, Refers, RestoredFrom
<1>6. Decide(c, e)
  BY DEF Snapshot
<1> HIDE DEF e
<1> QED BY <1>4, <1>5, <1>6, DecideKeeps

\* Once a call ends, it has neither a place nor a plan.
LEMMA EndedCall ==
    ASSUME HistoryInv, NEW c \in Editors, now' = [now EXCEPT ![c] = NotCalled],
           plan' = [plan EXCEPT ![c] = NoPlan]
    PROVE  /\ now' \in [Editors -> Places \union {NotCalled}]
           /\ plan' \in [Editors -> Entry \union {NoPlan}]
           /\ now'[c] = NotCalled /\ plan'[c] = NoPlan
           /\ \A d \in Editors \ {c} : now'[d] = now[d] /\ plan'[d] = plan[d]
BY DEF HistoryInv, HistoryTyped

\* A commit adds one sound entry at a place nobody else has.
LEMMA CommitKeeps ==
    ASSUME HistoryInv, NEW c \in Editors, CommitEntry(c)
    PROVE  HistoryInv'
<1> DEFINE id == now[c]
           new == plan[c]
<1>1. /\ new # NoPlan /\ now' = [now EXCEPT ![c] = NotCalled] /\ plan' = [plan EXCEPT ![c] = NoPlan]
      /\ entries' = [e \in DOMAIN entries \union {id} |-> IF e = id THEN new ELSE entries[e]]
  BY DEF CommitEntry
<1>2. HistoryTyped /\ HasLast(entries) /\ AllSound(entries) /\ NoCircle(entries) /\ CallsAreSound
  BY DEF HistoryInv
<1>3. id # NotCalled /\ id \notin DOMAIN entries /\ Sound(new, entries)
  BY <1>1, <1>2 DEF CallsAreSound
<1>4. new \in Entry /\ id \in Places
  BY <1>1, <1>2, <1>3 DEF HistoryTyped
<1>a. \A d \in Editors \ {c} : now[d] # NotCalled => now[d] # id
  BY <1>2 DEF CallsAreSound
<1> HIDE DEF id, new
<1>5. /\ DOMAIN entries' = DOMAIN entries \union {id} /\ entries'[id] = new
      /\ \A e \in DOMAIN entries : entries'[e] = entries[e]
  BY <1>1, <1>3
<1>6. Grows(entries, entries')
  BY <1>5 DEF Grows
<1>7. \A e \in DOMAIN entries : entries[e] \in Entry
  BY <1>2 DEF HistoryTyped
<1>8. AllSound(entries')
  <2>1. Sound(entries'[id], entries')
    BY <1>2, <1>3, <1>4, <1>5, <1>6, SoundSurvives
  <2>2. ASSUME NEW e \in DOMAIN entries PROVE Sound(entries'[e], entries')
    <3>1. Sound(entries[e], entries)
      BY <1>2 DEF AllSound
    <3> QED BY <1>2, <1>5, <1>6, <1>7, <3>1, SoundSurvives
  <2> QED BY <1>5, <2>1, <2>2 DEF AllSound
<1>9. DOMAIN entries' \subseteq Places
  BY <1>2, <1>4, <1>5 DEF HistoryTyped
<1>10. NoCircle(entries')
  <2>1. Refers(entries'[id], entries)
    BY <1>3, <1>5 DEF Sound
  <2>2. Root \notin DOMAIN entries' /\ id # Root
    BY <1>3, <1>9 DEF Places, Root, NotCalled
  <2> QED BY <1>2, <1>3, <1>5, <1>6, <2>1, <2>2, NoCircleSurvives
<1>11. HistoryTyped'
  <2>1. \A e \in DOMAIN entries' : entries'[e] \in Entry
    BY <1>4, <1>5, <1>7
  <2>2. entries' \in [DOMAIN entries' -> Entry]
    BY <1>1, <2>1
  <2> QED BY <1>1, <1>9, <2>2, EndedCall DEF HistoryTyped
<1>12. CallsAreSound'
  <2>1. /\ now'[c] = NotCalled /\ plan'[c] = NoPlan
        /\ \A d \in Editors \ {c} : now'[d] = now[d] /\ plan'[d] = plan[d]
    BY <1>1, EndedCall
  <2>2. ASSUME NEW d \in Editors, now'[d] # NotCalled PROVE now'[d] \notin DOMAIN entries'
    BY <1>2, <1>5, <1>a, <2>1, <2>2 DEF CallsAreSound
  <2>3. ASSUME NEW d \in Editors, NEW f \in Editors, now'[d] # NotCalled, d # f
        PROVE  now'[d] # now'[f]
    BY <1>2, <2>1, <2>3 DEF CallsAreSound
  <2>4. ASSUME NEW d \in Editors, plan'[d] # NoPlan
        PROVE  now'[d] # NotCalled /\ Sound(plan'[d], entries')
    <3>1. d # c /\ plan'[d] = plan[d] /\ now'[d] = now[d]
      BY <2>1, <2>4
    <3>2. plan[d] \in Entry /\ now[d] # NotCalled /\ Sound(plan[d], entries)
      BY <1>2, <2>4, <3>1 DEF HistoryTyped, CallsAreSound
    <3>3. Sound(plan[d], entries')
      BY <1>2, <1>6, <3>2, SoundSurvives
    <3> QED BY <3>1, <3>2, <3>3
  <2> QED BY <2>2, <2>3, <2>4 DEF CallsAreSound
<1>13. HasLast(entries')
  <2>1. \A e \in DOMAIN entries' : e \in Nat
    BY <1>9 DEF Places
  <2>2. CASE \A e \in DOMAIN entries : e <= id
    <3>1. \A f \in DOMAIN entries' : f <= id
      BY <1>5, <2>1, <2>2
    <3> QED BY <1>5, <3>1 DEF HasLast
  <2>3. ASSUME NEW g \in DOMAIN entries, ~(g <= id) PROVE HasLast(entries')
    <3>1. PICK e \in DOMAIN entries : \A f \in DOMAIN entries : f <= e
      BY <1>2, <2>3 DEF HasLast
    <3>2. id <= e
      BY <1>5, <2>1, <2>3, <3>1
    <3>3. \A f \in DOMAIN entries' : f <= e
      BY <1>5, <3>1, <3>2
    <3> QED BY <1>5, <3>1, <3>3 DEF HasLast
  <2> QED BY <2>2, <2>3
<1>14. HasLast(entries)' /\ AllSound(entries)' /\ NoCircle(entries)'
  BY <1>8, <1>10, <1>13
<1> QED BY <1>11, <1>12, <1>14 DEF HistoryInv

\* A call that fails takes its plan with it.
LEMMA FailedCallKeeps ==
    ASSUME HistoryInv, NEW c \in Editors, CallFails(c)
    PROVE  HistoryInv'
<1>1. /\ now' = [now EXCEPT ![c] = NotCalled] /\ plan' = [plan EXCEPT ![c] = NoPlan]
      /\ entries' = entries
  BY DEF CallFails
<1>2. HistoryTyped'
  BY <1>1, EndedCall DEF HistoryInv, HistoryTyped
<1>3. CallsAreSound'
  BY <1>1, EndedCall DEF HistoryInv, CallsAreSound
<1> QED BY <1>1, <1>2, <1>3 DEF HistoryInv

\* Whatever editors do at once, the history stays sound.
LEMMA HistoryStaysSound ==
    ASSUME HistoryInv, [Next]_vars
    PROVE  HistoryInv'
<1>1. CASE UNCHANGED histVars
  BY <1>1 DEF HistoryInv, HistoryTyped, CallsAreSound, histVars
<1>2. ASSUME NEW c \in Editors,
             \/ \E place \in Places : Call(c, place)
             \/ \E base \in {Root} \union DOMAIN entries, rev \in Revisions : Record(c, base, rev)
             \/ Undo(c)
             \/ Redo(c)
             \/ \E from \in Places, rev \in Revisions : Branch(c, from, rev)
             \/ Snapshot(c)
             \/ CommitEntry(c)
             \/ CallFails(c)
      PROVE  HistoryInv'
  BY <1>2, CallKeeps, RecordKeeps, UndoKeeps, RedoKeeps, BranchKeeps, SnapshotKeeps,
     CommitKeeps, FailedCallKeeps
<1>3. CASE HistoryNext
  BY <1>2, <1>3 DEF HistoryNext
<1>4. CASE UNCHANGED vars
  BY <1>1, <1>4 DEF vars, histVars
<1> QED BY <1>1, <1>3, <1>4 DEF Next

\* Every reachable history is sound.
LEMMA HistoryIsSound == Spec => []HistoryInv
<1>1. ASSUME Init PROVE HistoryInv
  <2>1. /\ entries = [e \in {} |-> 0] /\ now = [c \in Editors |-> NotCalled]
        /\ plan = [c \in Editors |-> NoPlan]
    BY <1>1 DEF Init
  <2>2. DOMAIN entries = {}
    BY <2>1
  <2>3. HistoryTyped
    BY <2>1, <2>2 DEF HistoryTyped
  <2>4. CallsAreSound
    BY <2>1 DEF CallsAreSound
  <2> QED BY <2>2, <2>3, <2>4 DEF HistoryInv, HasLast, AllSound, NoCircle
<1>2. HistoryInv /\ [Next]_vars => HistoryInv'
  BY HistoryStaysSound
<1> QED BY <1>1, <1>2, PTL DEF Spec

\* Every entry named is there and no entries name each other in a circle, so
\* the walk of History::chain ends at a root, with any number of editors at
\* once and whatever times their calls were made with.
THEOREM ChainsEnd == Spec => []EveryChainEnds
<1>1. HistoryInv => EveryChainEnds
  BY DEF HistoryInv, AllSound, Sound, Refers, NoCircle, EveryChainEnds, Names
<1> QED BY <1>1, HistoryIsSound, PTL

\* An undo restores the revision before the entry it puts back, a redo the one
\* that entry had, a snapshot its parent's, whatever is appended in between.
THEOREM UndoAndRedoAreExact == Spec => []RestoresAreVerbatim
<1>1. HistoryInv => RestoresAreVerbatim
  BY DEF HistoryInv, AllSound, Sound, RestoresAreVerbatim
<1> QED BY <1>1, HistoryIsSound, PTL

\* No entry is taken back or overwritten, also when two verbs were planned on
\* the same tip and are inserted out of the order of their times: the history
\* only grows (commit_entry is the only writer of the table).
EntriesAreKept ==
    [][/\ DOMAIN entries \subseteq DOMAIN entries'
       /\ \A e \in DOMAIN entries : entries'[e] = entries[e]]_entries

THEOREM HistoryOnlyGrows == Spec => EntriesAreKept
<1>1. HistoryInv /\ [Next]_vars =>
        [/\ DOMAIN entries \subseteq DOMAIN entries'
         /\ \A e \in DOMAIN entries : entries'[e] = entries[e]]_entries
  <2> SUFFICES ASSUME HistoryInv, Next, entries' # entries
               PROVE  /\ DOMAIN entries \subseteq DOMAIN entries'
                      /\ \A e \in DOMAIN entries : entries'[e] = entries[e]
    BY DEF vars
  <2>1. PICK c \in Editors : CommitEntry(c)
    BY DEF Next, histVars, HistoryNext, Call, Record, Undo, Redo, Branch, Snapshot, Decide,
           CallFails
  <2>2. now[c] \notin DOMAIN entries
    BY <2>1 DEF HistoryInv, CallsAreSound, CommitEntry
  <2> QED BY <2>1, <2>2 DEF CommitEntry
<1> QED BY <1>1, HistoryIsSound, PTL DEF Spec, EntriesAreKept

\* Rows, plans, entries and the half-done PUTs have the values of their types.
THEOREM HistoryIsTyped == Spec => []TypeOK
<1>1. WorkspaceInv /\ HistoryInv => TypeOK
  BY DEF WorkspaceInv, HistoryInv, HistoryTyped, TypeOK
<1> QED BY <1>1, WorkspaceIsSound, HistoryIsSound, PTL
=============================================================================
