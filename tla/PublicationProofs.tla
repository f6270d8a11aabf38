-------------------------- MODULE PublicationProofs --------------------------
(***************************************************************************)
(* Theorems about Publication, for every set of packages, postings,        *)
(* contents, sources, notes and connections.                               *)
(***************************************************************************)
EXTENDS Publication, TLAPS

USE PublicationAssumption, OffersAssumption

-----------------------------------------------------------------------------
(* What the rows are.                                                      *)

\* A package that was drafted has a content, and a posting that was created
\* carries a drafted package.
RowsAreKnown ==
  /\ \A k \in Packages : package[k] # "none" => content[k] \in Contents
  /\ \A p \in Postings : state[p] # "none" =>
       carries[p] \in Packages /\ package[carries[p]] # "none"

\* A call that was decided is about a package or a posting that is there, and
\* an advance about an edge of the table.
CallsAreKnown ==
  \A c \in Connections : call[c] # Idle =>
    /\ call[c].op \in {"edit", "approve"} => package[call[c].package] # "none"
    /\ call[c].op = "advance" => /\ state[call[c].posting] # "none"
                                 /\ IsLegal(call[c].from, call[c].to)

Known == TypeOK /\ RowsAreKnown /\ CallsAreKnown

\* A decided call is of one of three kinds.
LEMMA KindsOfCalls ==
  ASSUME TypeOK, NEW c \in Connections, call[c] # Idle
  PROVE  /\ call[c].op \in {"edit", "approve", "advance"}
         /\ call[c].op \in {"edit", "approve"} =>
              call[c].package \in Packages /\ call[c].content \in Contents
         /\ call[c].op = "advance" =>
              /\ call[c].posting \in Postings /\ call[c].from \in PublicationState
              /\ call[c].to \in PublicationState /\ call[c].stamp \in Fingerprint
              /\ call[c].given \in SUBSET Facts
<1>1. call[c] \in Calls
  BY DEF TypeOK
<1>2. CASE call[c] \in [op : {"edit", "approve"}, package : Packages, content : Contents]
  BY <1>2
<1>3. CASE call[c] \in [op : {"advance"}, posting : Postings, from : PublicationState,
                        to : PublicationState, stamp : Fingerprint, given : SUBSET Facts]
  BY <1>3
<1> QED BY <1>1, <1>2, <1>3 DEF Calls

\* The names of the states.
LEMMA StatesOfAPosting ==
  PublicationState = {"draft", "needs_review", "approved", "rendering", "ready", "uploading",
                      "processing", "scheduled", "published", "needs_reauthorization",
                      "unknown_remote_state", "failed", "cancelled", "removed"}
BY DEF PublicationState, Successors

\* The stamp of an advance is a fingerprint.
LEMMA StampIsAFingerprint ==
  ASSUME Known, NEW p \in Postings, state[p] # "none", NEW to
  PROVE  StampFor(p, to) \in Fingerprint
BY DEF Known, TypeOK, RowsAreKnown, StampFor, Fingerprint

\* Every step leaves typed rows and calls about things that are there.
LEMMA KnownStays ==
  ASSUME Known, [Next]_vars
  PROVE  Known'
<1> DEFINE PS == {"none", "draft", "approved", "superseded"}
<1>0. /\ package \in [Packages -> PS]
      /\ content \in [Packages -> Fingerprint]
      /\ approval \in [Packages -> Fingerprint]
      /\ state \in [Postings -> PublicationState \union {"none"}]
      /\ carries \in [Postings -> Packages \union {NoPackage}]
      /\ stamp \in [Postings -> Fingerprint]
      /\ facts \in [Postings -> SUBSET Facts]
      /\ note \in [Sources -> Recordable \union {NoNote}]
      /\ today \in Day
      /\ call \in [Connections -> Calls \union {Idle}]
      /\ edits \in Nat
      /\ reviewed \subseteq Packages \X Contents
      /\ strayed \subseteq Postings
      /\ gated \subseteq Postings \X Contents
      /\ raced \in BOOLEAN
  BY DEF Known, TypeOK
<1>1. RowsAreKnown /\ CallsAreKnown
  BY DEF Known
<1>2. ASSUME UNCHANGED <<packageVars, postingVars, raced>>, note' \in [Sources -> Recordable \union {NoNote}],
             today' \in Day, call' = call
      PROVE  Known'
  BY <1>0, <1>1, <1>2 DEF Known, TypeOK, RowsAreKnown, CallsAreKnown, packageVars, postingVars
<1>3. ASSUME NEW k \in Packages, NEW x \in Contents, CreateReleasePackage(k, x) PROVE Known'
  <2>1. /\ package[k] = "none" /\ package' = [package EXCEPT ![k] = "draft"]
        /\ content' = [content EXCEPT ![k] = x]
        /\ UNCHANGED <<approval, edits, reviewed, state, carries, stamp, facts, strayed, gated, note, today, call, raced>>
    BY <1>3 DEF CreateReleasePackage, postingVars, worldVars
  <2>2. package' \in [Packages -> PS] /\ content' \in [Packages -> Fingerprint]
    BY <1>0, <2>1 DEF Fingerprint
  <2>3. \A i \in Packages : /\ package'[i] = IF i = k THEN "draft" ELSE package[i]
                            /\ content'[i] = IF i = k THEN x ELSE content[i]
    BY <1>0, <2>1
  <2>4. TypeOK'
    BY <1>0, <2>1, <2>2 DEF TypeOK
  <2>5. RowsAreKnown'
    BY <1>0, <1>1, <2>1, <2>3 DEF RowsAreKnown
  <2>6. CallsAreKnown'
    BY <1>1, <2>1, <2>3, KindsOfCalls DEF Known, CallsAreKnown
  <2> QED BY <2>4, <2>5, <2>6 DEF Known
<1>4. ASSUME NEW k \in Packages, SupersedeReleasePackage(k) PROVE Known'
  <2>1. /\ package[k] # "none" /\ package' = [package EXCEPT ![k] = "superseded"]
        /\ UNCHANGED <<content, approval, edits, reviewed, state, carries, stamp, facts, strayed, gated, note, today, call, raced>>
    BY <1>4 DEF SupersedeReleasePackage, postingVars, worldVars
  <2>2. package' \in [Packages -> PS]
    BY <1>0, <2>1
  <2>3. \A i \in Packages : package'[i] = IF i = k THEN "superseded" ELSE package[i]
    BY <1>0, <2>1
  <2>4. TypeOK'
    BY <1>0, <2>1, <2>2 DEF TypeOK
  <2>5. RowsAreKnown'
    BY <1>0, <1>1, <2>1, <2>3 DEF RowsAreKnown
  <2>6. CallsAreKnown'
    BY <1>1, <2>1, <2>3, KindsOfCalls DEF Known, CallsAreKnown
  <2> QED BY <2>4, <2>5, <2>6 DEF Known
<1>5. ASSUME NEW p \in Postings, NEW k \in Packages, CreatePosting(p, k) PROVE Known'
  <2>1. /\ package[k] # "none" /\ state' = [state EXCEPT ![p] = "draft"]
        /\ carries' = [carries EXCEPT ![p] = k]
        /\ UNCHANGED <<package, content, approval, edits, reviewed, stamp, facts, strayed, gated, note, today, call, raced>>
    BY <1>5 DEF CreatePosting, packageVars, worldVars
  <2>2. /\ state' \in [Postings -> PublicationState \union {"none"}]
        /\ carries' \in [Postings -> Packages \union {NoPackage}]
    BY <1>0, <2>1, StatesOfAPosting
  <2>3. \A q \in Postings : /\ state'[q] = IF q = p THEN "draft" ELSE state[q]
                            /\ carries'[q] = IF q = p THEN k ELSE carries[q]
    BY <1>0, <2>1
  <2>4. TypeOK'
    BY <1>0, <2>1, <2>2 DEF TypeOK
  <2>5. RowsAreKnown'
    BY <1>1, <2>1, <2>3 DEF RowsAreKnown
  <2>6. CallsAreKnown'
    BY <1>1, <2>1, <2>3, KindsOfCalls DEF Known, CallsAreKnown
  <2> QED BY <2>4, <2>5, <2>6 DEF Known
<1>6. ASSUME NEW s \in Sources, NEW n \in Recordable, RecordNote(s, n) PROVE Known'
  <2>1. note' \in [Sources -> Recordable \union {NoNote}]
    BY <1>0, <1>6 DEF RecordNote
  <2> QED BY <1>0, <1>2, <1>6, <2>1 DEF RecordNote
<1>7. CASE Midnight
  <2>1. today' \in Day
    BY <1>0, <1>7, RightsAssumption DEF Midnight, Day
  <2> QED BY <1>0, <1>2, <1>7, <2>1 DEF Midnight
<1>8. ASSUME NEW c \in Connections, NEW a \in Calls,
             call' = [call EXCEPT ![c] = a],
             UNCHANGED <<packageVars, state, carries, stamp, facts, strayed, worldVars, raced>>,
             gated' \subseteq Postings \X Contents,
             a.op \in {"edit", "approve"} => package[a.package] # "none",
             a.op = "advance" => state[a.posting] # "none" /\ IsLegal(a.from, a.to)
      PROVE  Known'
  <2>1. UNCHANGED <<package, content, approval, edits, reviewed, state, carries, stamp, facts, strayed, note, today, raced>>
    BY <1>8 DEF packageVars, worldVars
  <2>2. call' \in [Connections -> Calls \union {Idle}]
    BY <1>0, <1>8
  <2>3. \A d \in Connections : call'[d] = IF d = c THEN a ELSE call[d]
    BY <1>0, <1>8
  <2>4. TypeOK'
    BY <1>0, <1>8, <2>1, <2>2 DEF TypeOK
  <2>5. RowsAreKnown'
    BY <1>1, <2>1 DEF RowsAreKnown
  <2>6. CallsAreKnown'
    BY <1>1, <1>8, <2>1, <2>3 DEF CallsAreKnown
  <2> QED BY <2>4, <2>5, <2>6 DEF Known
<1>9. ASSUME NEW c \in Connections, NEW k \in Packages, NEW new \in Contents, ReadEdit(c, k, new)
      PROVE  Known'
  <2> DEFINE a == [op |-> "edit", package |-> k, content |-> new]
  <2>1. a \in Calls /\ a.op = "edit" /\ a.package = k
    BY DEF Calls
  <2>2. /\ package[k] # "none" /\ call' = [call EXCEPT ![c] = a]
        /\ UNCHANGED <<packageVars, postingVars, worldVars, raced>>
    BY <1>9 DEF ReadEdit, MayEdit
  <2>3. UNCHANGED <<state, carries, stamp, facts, strayed, gated>>
    BY <2>2 DEF postingVars
  <2> HIDE DEF a
  <2> QED BY <1>0, <1>8, <2>1, <2>2, <2>3
<1>10. ASSUME NEW c \in Connections, NEW k \in Packages, ReadApprove(c, k) PROVE Known'
  <2> DEFINE a == [op |-> "approve", package |-> k, content |-> content[k]]
  <2>1. package[k] # "none"
    BY <1>10 DEF ReadApprove
  <2>2. a \in Calls /\ a.op = "approve" /\ a.package = k
    BY <1>1, <2>1 DEF Calls, RowsAreKnown
  <2>3. call' = [call EXCEPT ![c] = a] /\ UNCHANGED <<packageVars, postingVars, worldVars, raced>>
    BY <1>10 DEF ReadApprove
  <2>4. UNCHANGED <<state, carries, stamp, facts, strayed, gated>>
    BY <2>3 DEF postingVars
  <2> HIDE DEF a
  <2> QED BY <1>0, <1>8, <2>1, <2>2, <2>3, <2>4
<1>11. ASSUME NEW c \in Connections, NEW p \in Postings, NEW to \in PublicationState,
              NEW g \in Offers[to], ReadAdvance(c, p, to, g)
       PROVE  Known'
  <2> DEFINE a == [op |-> "advance", posting |-> p, from |-> state[p], to |-> to,
                   stamp |-> StampFor(p, to), given |-> g]
  <2>1. state[p] # "none" /\ state[p] \in PublicationState /\ IsLegal(state[p], to)
    BY <1>0, <1>11 DEF ReadAdvance, MayAdvance
  <2>2. StampFor(p, to) \in Fingerprint /\ g \in SUBSET Facts
    BY <2>1, StampIsAFingerprint
  <2>3. a \in Calls /\ a.op = "advance" /\ a.posting = p /\ a.from = state[p] /\ a.to = to
    BY <2>1, <2>2 DEF Calls
  <2>4. /\ call' = [call EXCEPT ![c] = a]
        /\ UNCHANGED <<packageVars, state, carries, stamp, facts, strayed, worldVars, raced>>
        /\ gated' \subseteq gated \union {<<p, content[carries[p]]>>}
    BY <1>11 DEF ReadAdvance
  <2>5. content[carries[p]] \in Contents
    BY <1>1, <2>1 DEF RowsAreKnown
  <2>6. gated' \subseteq Postings \X Contents
    BY <1>0, <2>4, <2>5
  <2> HIDE DEF a
  <2> QED BY <1>8, <2>1, <2>3, <2>4, <2>6
<1>12. ASSUME NEW c \in Connections, call[c] # Idle, call' = [call EXCEPT ![c] = Idle]
       PROVE  /\ call' \in [Connections -> Calls \union {Idle}]
              /\ \A d \in Connections : call'[d] # Idle => call'[d] = call[d]
  BY <1>0, <1>12
<1>13. ASSUME NEW c \in Connections, CommitEdit(c) PROVE Known'
  <2> DEFINE k == call[c].package
             x == call[c].content
  <2>1. /\ package' = [package EXCEPT ![k] = "draft"] /\ content' = [content EXCEPT ![k] = x]
        /\ approval' = [approval EXCEPT ![k] = NoContent] /\ edits' = edits + 1
        /\ raced' \in BOOLEAN /\ UNCHANGED <<reviewed, state, carries, stamp, facts, strayed, gated, note, today>>
    BY <1>13 DEF CommitEdit, postingVars, worldVars
  <2>2. k \in Packages /\ x \in Contents
    BY <1>13, KindsOfCalls DEF CommitEdit, Known
  <2>3. /\ call' \in [Connections -> Calls \union {Idle}]
        /\ \A d \in Connections : call'[d] # Idle => call'[d] = call[d]
    BY <1>12, <1>13 DEF CommitEdit
  <2> HIDE DEF k, x
  <2>4. /\ package' \in [Packages -> PS] /\ content' \in [Packages -> Fingerprint]
        /\ approval' \in [Packages -> Fingerprint]
    BY <1>0, <2>1, <2>2 DEF Fingerprint
  <2>5. \A i \in Packages : /\ package'[i] = IF i = k THEN "draft" ELSE package[i]
                            /\ content'[i] = IF i = k THEN x ELSE content[i]
    BY <1>0, <2>1
  <2>6. TypeOK'
    BY <1>0, <2>1, <2>3, <2>4 DEF TypeOK
  <2>7. RowsAreKnown'
    BY <1>0, <1>1, <2>1, <2>2, <2>5 DEF RowsAreKnown
  <2>8. CallsAreKnown'
    BY <1>1, <2>1, <2>3, <2>5, KindsOfCalls DEF Known, CallsAreKnown
  <2> QED BY <2>6, <2>7, <2>8 DEF Known
<1>14. ASSUME NEW c \in Connections, CommitApprove(c) PROVE Known'
  <2> DEFINE k == call[c].package
             x == call[c].content
  <2>1. /\ package' = [package EXCEPT ![k] = "approved"] /\ approval' = [approval EXCEPT ![k] = x]
        /\ reviewed' = reviewed \union {<<k, x>>} /\ raced' \in BOOLEAN
        /\ UNCHANGED <<content, edits, state, carries, stamp, facts, strayed, gated, note, today>>
    BY <1>14 DEF CommitApprove, postingVars, worldVars
  <2>2. k \in Packages /\ x \in Contents
    BY <1>14, KindsOfCalls DEF CommitApprove, Known
  <2>3. /\ call' \in [Connections -> Calls \union {Idle}]
        /\ \A d \in Connections : call'[d] # Idle => call'[d] = call[d]
    BY <1>12, <1>14 DEF CommitApprove
  <2>a. package[k] # "none"
    BY <1>1, <1>14 DEF CommitApprove, CallsAreKnown
  <2> HIDE DEF k, x
  <2>4. /\ package' \in [Packages -> PS] /\ approval' \in [Packages -> Fingerprint]
        /\ reviewed' \subseteq Packages \X Contents
    BY <1>0, <2>1, <2>2 DEF Fingerprint
  <2>5. \A i \in Packages : package'[i] = IF i = k THEN "approved" ELSE package[i]
    BY <1>0, <2>1
  <2>6. TypeOK'
    BY <1>0, <2>1, <2>3, <2>4 DEF TypeOK
  <2>7. RowsAreKnown'
    BY <1>0, <1>1, <2>1, <2>a, <2>5 DEF RowsAreKnown
  <2>8. CallsAreKnown'
    BY <1>1, <2>1, <2>3, <2>5, KindsOfCalls DEF Known, CallsAreKnown
  <2> QED BY <2>6, <2>7, <2>8 DEF Known
<1>15. ASSUME NEW c \in Connections, CommitAdvance(c) PROVE Known'
  <2> DEFINE p == call[c].posting
             to == call[c].to
             x == call[c].stamp
             f == facts[p] \union call[c].given
  <2>1. /\ state' = [state EXCEPT ![p] = to] /\ stamp' = [stamp EXCEPT ![p] = x]
        /\ raced' \in BOOLEAN
        /\ strayed' = IF to \in Stray THEN strayed \union {p} ELSE strayed
        /\ UNCHANGED <<package, content, approval, edits, reviewed, carries, gated, note, today>>
    BY <1>15 DEF CommitAdvance, packageVars, worldVars
  <2>2. /\ p \in Postings /\ to \in PublicationState /\ x \in Fingerprint
        /\ call[c].given \in SUBSET Facts /\ state[p] # "none"
    BY <1>1, <1>15, KindsOfCalls DEF CommitAdvance, Known, CallsAreKnown
  <2>3. f \in SUBSET Facts /\ facts' = [facts EXCEPT ![p] = f]
    BY <1>0, <1>15, <2>2 DEF CommitAdvance
  <2>4. /\ call' \in [Connections -> Calls \union {Idle}]
        /\ \A d \in Connections : call'[d] # Idle => call'[d] = call[d]
    BY <1>12, <1>15 DEF CommitAdvance
  <2> HIDE DEF p, to, x, f
  <2>5. /\ state' \in [Postings -> PublicationState \union {"none"}]
        /\ stamp' \in [Postings -> Fingerprint] /\ facts' \in [Postings -> SUBSET Facts]
        /\ strayed' \subseteq Postings
    BY <1>0, <2>1, <2>2, <2>3
  <2>6. \A q \in Postings : state'[q] = IF q = p THEN to ELSE state[q]
    BY <1>0, <2>1
  <2>7. TypeOK'
    BY <1>0, <2>1, <2>4, <2>5 DEF TypeOK
  <2>8. RowsAreKnown'
    BY <1>0, <1>1, <2>1, <2>2, <2>6 DEF RowsAreKnown
  <2>9. CallsAreKnown'
    <3>1. to # "none"
      BY <2>2, StatesOfAPosting
    <3> QED BY <1>1, <2>1, <2>4, <2>6, <3>1, KindsOfCalls DEF Known, CallsAreKnown
  <2> QED BY <2>7, <2>8, <2>9 DEF Known
<1>16. CASE UNCHANGED vars
  BY <1>0, <1>2, <1>16 DEF vars, worldVars
<1> QED BY <1>3, <1>4, <1>5, <1>6, <1>7, <1>9, <1>10, <1>11, <1>13, <1>14, <1>15, <1>16 DEF Next

\* The rows are known in every reachable state.
LEMMA KnownHolds == Spec => []Known
<1>1. ASSUME Init PROVE Known
  <2>1. raced \in BOOLEAN
    BY <1>1 DEF Init
  <2>2. today \in Day
    BY <1>1, RightsAssumption DEF Init, Day
  <2>3. /\ package \in [Packages -> {"none", "draft", "approved", "superseded"}]
        /\ content \in [Packages -> Fingerprint] /\ approval \in [Packages -> Fingerprint]
    BY <1>1 DEF Init, Fingerprint
  <2>4. /\ state \in [Postings -> PublicationState \union {"none"}]
        /\ carries \in [Postings -> Packages \union {NoPackage}]
        /\ stamp \in [Postings -> Fingerprint] /\ facts \in [Postings -> SUBSET Facts]
    BY <1>1 DEF Init, Fingerprint
  <2>5. /\ note \in [Sources -> Recordable \union {NoNote}]
        /\ call \in [Connections -> Calls \union {Idle}]
        /\ edits \in Nat /\ reviewed \subseteq Packages \X Contents /\ strayed \subseteq Postings
        /\ gated \subseteq Postings \X Contents
    BY <1>1 DEF Init
  <2>6. TypeOK
    BY <2>1, <2>2, <2>3, <2>4, <2>5 DEF TypeOK
  <2>7. RowsAreKnown /\ CallsAreKnown
    BY <1>1 DEF Init, RowsAreKnown, CallsAreKnown
  <2> QED BY <2>6, <2>7 DEF Known
<1>2. Known /\ [Next]_vars => Known'
  BY KnownStays
<1> QED BY <1>1, <1>2, PTL DEF Spec

\* Every variable holds a value of its type.
THEOREM PublicationIsTyped == Spec => []TypeOK
<1>1. Known => TypeOK
  BY DEF Known
<1> QED BY <1>1, KnownHolds, PTL

-----------------------------------------------------------------------------
(* Reviews and remote facts.                                               *)

\* An approval is for a content that was reviewed, and so is the stamp of a
\* posting, and the one a decided advance is about to write; a posting without
\* a row has no stamp.
Vouched ==
  /\ \A k \in Packages : approval[k] # NoContent => <<k, approval[k]>> \in reviewed
  /\ StampsWereReviewed
  /\ \A c \in Connections : call[c] # Idle /\ call[c].op = "advance" =>
       LET a == call[c] IN a.stamp # NoContent => <<carries[a.posting], a.stamp>> \in reviewed
  /\ \A p \in Postings : state[p] = "none" => stamp[p] = NoContent

\* A decided advance brings what its target asks for, and a posting has it.
Findable ==
  /\ LiveCanBeFound
  /\ \A c \in Connections : call[c] # Idle /\ call[c].op = "advance" =>
       /\ call[c].to = "published" => "remote_id" \in call[c].given
       /\ call[c].to = "scheduled" => "scheduled_at" \in call[c].given

Published == Known /\ Vouched /\ Findable

\* The stamp an advance decides on was reviewed.
LEMMA DecidedStampIsVouched ==
  ASSUME Published, NEW p \in Postings, NEW to, NEW given, state[p] # "none",
         MayAdvance(p, to, given), StampFor(p, to) # NoContent
  PROVE  <<carries[p], StampFor(p, to)>> \in reviewed
<1>1. CASE stamp[p] = NoContent /\ to = "approved"
  <2>1. IsApproved(carries[p]) /\ carries[p] \in Packages /\ StampFor(p, to) = content[carries[p]]
    BY <1>1 DEF MayAdvance, Published, Known, RowsAreKnown, StampFor
  <2>2. approval[carries[p]] = content[carries[p]]
    BY <2>1 DEF IsApproved
  <2> QED BY <2>1, <2>2 DEF Published, Vouched
<1>2. CASE ~(stamp[p] = NoContent /\ to = "approved")
  <2>1. StampFor(p, to) = stamp[p]
    BY <1>2 DEF StampFor
  <2> QED BY <2>1 DEF Published, Vouched, StampsWereReviewed
<1> QED BY <1>1, <1>2

\* Every step keeps the reviews and the remote facts.
LEMMA PublishedStays ==
  ASSUME Published, Known', [Next]_vars
  PROVE  Published'
<1>0. /\ approval \in [Packages -> Fingerprint]
      /\ state \in [Postings -> PublicationState \union {"none"}]
      /\ carries \in [Postings -> Packages \union {NoPackage}]
      /\ stamp \in [Postings -> Fingerprint]
      /\ facts \in [Postings -> SUBSET Facts]
      /\ call \in [Connections -> Calls \union {Idle}]
      /\ package \in [Packages -> {"none", "draft", "approved", "superseded"}]
  BY DEF Published, Known, TypeOK
<1>1. Known /\ Vouched /\ Findable
  BY DEF Published
<1> DEFINE Rest == <<approval, reviewed, state, carries, stamp, facts>>
<1>2. ASSUME UNCHANGED Rest, \A d \in Connections : call'[d] # Idle => call'[d] = call[d]
      PROVE  Published'
  BY <1>1, <1>2 DEF Published, Vouched, Findable, StampsWereReviewed, LiveCanBeFound
<1>3. ASSUME NEW k \in Packages, NEW x \in Contents, CreateReleasePackage(k, x) PROVE Published'
  BY <1>2, <1>3 DEF CreateReleasePackage, postingVars, worldVars
<1>4. ASSUME NEW k \in Packages, SupersedeReleasePackage(k) PROVE Published'
  BY <1>2, <1>4 DEF SupersedeReleasePackage, postingVars, worldVars
<1>5. ASSUME NEW p \in Postings, NEW k \in Packages, CreatePosting(p, k) PROVE Published'
  <2>1. /\ state[p] = "none" /\ state' = [state EXCEPT ![p] = "draft"]
        /\ carries' = [carries EXCEPT ![p] = k]
        /\ UNCHANGED <<approval, reviewed, stamp, facts, call>>
    BY <1>5 DEF CreatePosting, packageVars
  <2>2. \A q \in Postings : /\ state'[q] = IF q = p THEN "draft" ELSE state[q]
                            /\ carries'[q] = IF q = p THEN k ELSE carries[q]
    BY <1>0, <2>1
  <2>3. stamp[p] = NoContent
    BY <1>1, <2>1 DEF Vouched
  <2>4. ASSUME NEW c \in Connections, call[c] # Idle, call[c].op = "advance"
        PROVE  call[c].posting \in Postings \ {p}
    BY <1>1, <2>1, <2>4, KindsOfCalls DEF Known, CallsAreKnown
  <2>5. StampsWereReviewed'
    BY <1>1, <2>1, <2>2, <2>3 DEF Vouched, StampsWereReviewed
  <2>6. Vouched'
    BY <1>1, <2>1, <2>2, <2>4, <2>5 DEF Vouched
  <2>7. LiveCanBeFound'
    BY <1>1, <2>1, <2>2 DEF Findable, LiveCanBeFound
  <2> QED BY <1>1, <2>1, <2>6, <2>7 DEF Published, Findable
<1>6. ASSUME NEW s \in Sources, NEW n \in Recordable, RecordNote(s, n) PROVE Published'
  BY <1>2, <1>6 DEF RecordNote, packageVars, postingVars
<1>7. CASE Midnight
  BY <1>2, <1>7 DEF Midnight, packageVars, postingVars
<1>8. ASSUME NEW c \in Connections, NEW a,
             call' = [call EXCEPT ![c] = a], UNCHANGED Rest,
             a.op = "advance" =>
               /\ a.stamp # NoContent => <<carries[a.posting], a.stamp>> \in reviewed
               /\ a.to = "published" => "remote_id" \in a.given
               /\ a.to = "scheduled" => "scheduled_at" \in a.given
      PROVE  Published'
  <2>1. \A d \in Connections : call'[d] = IF d = c THEN a ELSE call[d]
    BY <1>0, <1>8
  <2>2. Vouched'
    BY <1>1, <1>8, <2>1 DEF Vouched, StampsWereReviewed
  <2>3. Findable'
    BY <1>1, <1>8, <2>1 DEF Findable, LiveCanBeFound
  <2> QED BY <2>2, <2>3 DEF Published
<1>9. ASSUME NEW c \in Connections, NEW k \in Packages, NEW new \in Contents, ReadEdit(c, k, new)
      PROVE  Published'
  <2> DEFINE a == [op |-> "edit", package |-> k, content |-> new]
  <2>1. a.op # "advance" /\ call' = [call EXCEPT ![c] = a] /\ UNCHANGED Rest
    BY <1>9 DEF ReadEdit, packageVars, postingVars
  <2> HIDE DEF a
  <2> QED BY <1>8, <2>1
<1>10. ASSUME NEW c \in Connections, NEW k \in Packages, ReadApprove(c, k) PROVE Published'
  <2> DEFINE a == [op |-> "approve", package |-> k, content |-> content[k]]
  <2>1. a.op # "advance" /\ call' = [call EXCEPT ![c] = a] /\ UNCHANGED Rest
    BY <1>10 DEF ReadApprove, packageVars, postingVars
  <2> HIDE DEF a
  <2> QED BY <1>8, <2>1
<1>11. ASSUME NEW c \in Connections, NEW p \in Postings, NEW to \in PublicationState,
              NEW g \in Offers[to], ReadAdvance(c, p, to, g)
       PROVE  Published'
  <2> DEFINE a == [op |-> "advance", posting |-> p, from |-> state[p], to |-> to,
                   stamp |-> StampFor(p, to), given |-> g]
  <2>1. state[p] # "none" /\ MayAdvance(p, to, g) /\ call' = [call EXCEPT ![c] = a]
        /\ UNCHANGED Rest
    BY <1>11 DEF ReadAdvance, packageVars, postingVars
  <2>2. a.posting = p /\ a.stamp = StampFor(p, to) /\ a.to = to /\ a.given = g
    OBVIOUS
  <2>3. a.stamp # NoContent => <<carries[a.posting], a.stamp>> \in reviewed
    BY <2>1, <2>2, DecidedStampIsVouched
  <2>4. /\ to = "published" => "remote_id" \in g
        /\ to = "scheduled" => "scheduled_at" \in g
    BY <2>1 DEF MayAdvance
  <2> HIDE DEF a
  <2> QED BY <1>8, <2>1, <2>2, <2>3, <2>4
<1>12. ASSUME NEW c \in Connections, call' = [call EXCEPT ![c] = Idle]
       PROVE  \A d \in Connections : call'[d] # Idle => call'[d] = call[d]
  BY <1>0, <1>12
<1>13. ASSUME NEW c \in Connections, CommitEdit(c) PROVE Published'
  <2> DEFINE k == call[c].package
  <2>1. /\ approval' = [approval EXCEPT ![k] = NoContent]
        /\ UNCHANGED <<reviewed, state, carries, stamp, facts>>
    BY <1>13 DEF CommitEdit, postingVars
  <2>2. \A d \in Connections : call'[d] # Idle => call'[d] = call[d]
    BY <1>12, <1>13 DEF CommitEdit
  <2> HIDE DEF k
  <2>3. \A i \in Packages : approval'[i] # NoContent => approval'[i] = approval[i]
    BY <1>0, <2>1
  <2> QED BY <1>1, <2>1, <2>2, <2>3 DEF Published, Vouched, Findable, StampsWereReviewed, LiveCanBeFound
<1>14. ASSUME NEW c \in Connections, CommitApprove(c) PROVE Published'
  <2> DEFINE k == call[c].package
             x == call[c].content
  <2>1. /\ approval' = [approval EXCEPT ![k] = x] /\ reviewed' = reviewed \union {<<k, x>>}
        /\ UNCHANGED <<state, carries, stamp, facts>>
    BY <1>14 DEF CommitApprove, postingVars
  <2>2. \A d \in Connections : call'[d] # Idle => call'[d] = call[d]
    BY <1>12, <1>14 DEF CommitApprove
  <2> HIDE DEF k, x
  <2>3. \A i \in Packages : approval'[i] = IF i = k THEN x ELSE approval[i]
    BY <1>0, <2>1
  <2>4. Vouched'
    BY <1>1, <2>1, <2>2, <2>3 DEF Vouched, StampsWereReviewed
  <2>5. Findable'
    BY <1>1, <2>1, <2>2 DEF Findable, LiveCanBeFound
  <2> QED BY <2>4, <2>5 DEF Published
<1>15. ASSUME NEW c \in Connections, CommitAdvance(c) PROVE Published'
  <2> DEFINE p == call[c].posting
             to == call[c].to
             x == call[c].stamp
             f == facts[p] \union call[c].given
  <2>1. /\ state' = [state EXCEPT ![p] = to] /\ stamp' = [stamp EXCEPT ![p] = x]
        /\ facts' = [facts EXCEPT ![p] = f] /\ UNCHANGED <<approval, reviewed, carries>>
    BY <1>15 DEF CommitAdvance, packageVars
  <2>2. \A d \in Connections : call'[d] # Idle => call'[d] = call[d]
    BY <1>12, <1>15 DEF CommitAdvance
  <2>3. x # NoContent => <<carries[p], x>> \in reviewed
    BY <1>1, <1>15 DEF CommitAdvance, Vouched
  <2>4. /\ to = "published" => "remote_id" \in f
        /\ to = "scheduled" => "scheduled_at" \in f
    BY <1>1, <1>15 DEF CommitAdvance, Findable
  <2>5. to \in PublicationState
    BY <1>1, <1>15, KindsOfCalls DEF CommitAdvance, Known
  <2>6. to # "none"
    BY <2>5, StatesOfAPosting
  <2> HIDE DEF p, to, x, f
  <2>7. \A q \in Postings : /\ state'[q] = IF q = p THEN to ELSE state[q]
                            /\ stamp'[q] = IF q = p THEN x ELSE stamp[q]
                            /\ facts'[q] = IF q = p THEN f ELSE facts[q]
    BY <1>0, <2>1
  <2>8. Vouched'
    BY <1>1, <2>1, <2>2, <2>3, <2>6, <2>7 DEF Vouched, StampsWereReviewed
  <2>9. Findable'
    BY <1>1, <2>2, <2>4, <2>7 DEF Findable, LiveCanBeFound
  <2> QED BY <2>8, <2>9 DEF Published
<1>16. CASE UNCHANGED vars
  BY <1>2, <1>16 DEF vars, packageVars, postingVars
<1> QED BY <1>3, <1>4, <1>5, <1>6, <1>7, <1>9, <1>10, <1>11, <1>13, <1>14, <1>15, <1>16 DEF Next

\* Reviews and remote facts hold in every reachable state.
LEMMA PublishedHolds == Spec => []Published
<1>1. Init => Vouched /\ Findable
  BY DEF Init, Vouched, Findable, StampsWereReviewed, LiveCanBeFound
<1>2. Published /\ Known' /\ [Next]_vars => Published'
  BY PublishedStays
<1> QED BY <1>1, <1>2, KnownHolds, PTL DEF Spec, Published

\* A posting is authorised only against a content of its package that a person
\* approved, whatever calls overlap (Package::is_approved, advance_publication).
THEOREM OnlyReviewedIsStamped == Spec => []StampsWereReviewed
<1>1. Published => StampsWereReviewed
  BY DEF Published, Vouched
<1> QED BY <1>1, PublishedHolds, PTL

\* A live posting has an identity at its provider and a scheduled one a time,
\* whatever calls overlap (the refusals of advance_publication).
THEOREM LiveIsFound == Spec => []LiveCanBeFound
<1>1. Published => LiveCanBeFound
  BY DEF Published, Findable
<1> QED BY <1>1, PublishedHolds, PTL

-----------------------------------------------------------------------------
(* Calls that commit what they could still decide.                         *)

\* The edges into the states that matter: nothing returns to a review, an
\* approval follows one, and the other states that lock a package follow
\* states that lock it or states outside the lifecycle.
LEMMA EdgesIntoTheLifecycle ==
  ASSUME NEW from \in PublicationState, NEW to \in PublicationState, IsLegal(from, to)
  PROVE  /\ to \in {"draft", "needs_review"} => from \in {"draft", "needs_review"}
         /\ to = "approved" => from = "needs_review"
         /\ to \in LocksPackage \ {"approved"} => from \in LocksPackage \union Stray
BY StatesOfAPosting DEF IsLegal, Successors, LocksPackage, Stray

\* A posting without approval has no stamp, and one that carries its package
\* through the lifecycle carries the content of its stamp.
Frozen ==
  /\ \A p \in Postings : state[p] \in Stray => p \in strayed
  /\ ~raced => \A p \in Postings :
       state[p] \in {"draft", "needs_review"} => stamp[p] = NoContent
  /\ CarriesWhatWasApproved

Steady == Published /\ Frozen

\* A step that overtakes nothing keeps what was approved.
LEMMA FrozenStays ==
  ASSUME Steady, Known', [Next]_vars
  PROVE  Frozen'
<1>0. /\ content \in [Packages -> Fingerprint]
      /\ state \in [Postings -> PublicationState \union {"none"}]
      /\ carries \in [Postings -> Packages \union {NoPackage}]
      /\ stamp \in [Postings -> Fingerprint]
  BY DEF Steady, Published, Known, TypeOK
<1>1. Known /\ Vouched /\ Frozen
  BY DEF Steady, Published
<1>2. ASSUME UNCHANGED <<content, state, carries, stamp, strayed>>, ~raced' => ~raced
      PROVE  Frozen'
  BY <1>1, <1>2 DEF Frozen, CarriesWhatWasApproved
<1>3. ASSUME NEW k \in Packages, NEW x \in Contents,
             \A p \in Postings : ~raced' /\ state[p] \in LocksPackage => carries[p] # k,
             content' = [content EXCEPT ![k] = x],
             UNCHANGED <<state, carries, stamp, strayed>>, ~raced' => ~raced
      PROVE  Frozen'
  <2>1. \A i \in Packages : content'[i] = IF i = k THEN x ELSE content[i]
    BY <1>0, <1>3
  <2>2. ASSUME NEW p \in Postings, state[p] \in LocksPackage PROVE carries[p] \in Packages
    BY <1>1, <2>2 DEF Known, RowsAreKnown, LocksPackage
  <2>3. CarriesWhatWasApproved'
    BY <1>1, <1>3, <2>1, <2>2 DEF Frozen, CarriesWhatWasApproved
  <2> QED BY <1>1, <1>3, <2>3 DEF Frozen
<1>4. ASSUME NEW k \in Packages, NEW x \in Contents, CreateReleasePackage(k, x) PROVE Frozen'
  <2>1. \A p \in Postings : state[p] \in LocksPackage => carries[p] # k
    BY <1>1, <1>4 DEF Known, RowsAreKnown, LocksPackage, CreateReleasePackage
  <2> QED BY <1>3, <1>4, <2>1 DEF CreateReleasePackage, postingVars
<1>5. ASSUME NEW k \in Packages, SupersedeReleasePackage(k) PROVE Frozen'
  BY <1>2, <1>5 DEF SupersedeReleasePackage, postingVars
<1>6. ASSUME NEW p \in Postings, NEW k \in Packages, CreatePosting(p, k) PROVE Frozen'
  <2>1. /\ state[p] = "none" /\ state' = [state EXCEPT ![p] = "draft"]
        /\ carries' = [carries EXCEPT ![p] = k]
        /\ UNCHANGED <<content, stamp, strayed, raced>>
    BY <1>6 DEF CreatePosting, packageVars
  <2>2. \A q \in Postings : /\ state'[q] = IF q = p THEN "draft" ELSE state[q]
                            /\ carries'[q] = IF q = p THEN k ELSE carries[q]
    BY <1>0, <2>1
  <2>3. stamp[p] = NoContent
    BY <1>1, <2>1 DEF Vouched
  <2>4. "draft" \notin LocksPackage /\ "draft" \notin Stray
    BY DEF LocksPackage, Stray
  <2>5. CarriesWhatWasApproved'
    BY <1>1, <2>1, <2>2, <2>4 DEF Frozen, CarriesWhatWasApproved
  <2> QED BY <1>1, <2>1, <2>2, <2>3, <2>4, <2>5 DEF Frozen
<1>7. ASSUME NEW s \in Sources, NEW n \in Recordable, RecordNote(s, n) PROVE Frozen'
  BY <1>2, <1>7 DEF RecordNote, packageVars, postingVars
<1>8. CASE Midnight
  BY <1>2, <1>8 DEF Midnight, packageVars, postingVars
<1>9. ASSUME NEW c \in Connections, NEW k \in Packages, NEW new \in Contents, ReadEdit(c, k, new)
      PROVE  Frozen'
  BY <1>2, <1>9 DEF ReadEdit, packageVars, postingVars
<1>10. ASSUME NEW c \in Connections, NEW k \in Packages, ReadApprove(c, k) PROVE Frozen'
  BY <1>2, <1>10 DEF ReadApprove, packageVars, postingVars
<1>11. ASSUME NEW c \in Connections, NEW p \in Postings, NEW to \in PublicationState,
              NEW g \in Offers[to], ReadAdvance(c, p, to, g)
       PROVE  Frozen'
  BY <1>2, <1>11 DEF ReadAdvance, packageVars, postingVars
<1>12. ASSUME NEW c \in Connections, CommitEdit(c) PROVE Frozen'
  <2>1. call[c].package \in Packages /\ call[c].content \in Contents
    BY <1>1, <1>12, KindsOfCalls DEF CommitEdit, Known
  <2>2. /\ content' = [content EXCEPT ![call[c].package] = call[c].content]
        /\ UNCHANGED <<state, carries, stamp, strayed>>
        /\ ~raced' => ~raced /\ MayEdit(call[c].package)
    BY <1>12 DEF CommitEdit, postingVars
  <2>3. \A p \in Postings : ~raced' /\ state[p] \in LocksPackage => carries[p] # call[c].package
    BY <2>2 DEF MayEdit, Locked
  <2> QED BY <1>3, <2>1, <2>2, <2>3
<1>13. ASSUME NEW c \in Connections, CommitApprove(c) PROVE Frozen'
  BY <1>2, <1>13 DEF CommitApprove, postingVars
<1>14. ASSUME NEW c \in Connections, CommitAdvance(c) PROVE Frozen'
  <2> DEFINE a == call[c]
             p == call[c].posting
             to == call[c].to
             x == call[c].stamp
  <2>1. /\ state' = [state EXCEPT ![p] = to] /\ stamp' = [stamp EXCEPT ![p] = x]
        /\ strayed' = IF to \in Stray THEN strayed \union {p} ELSE strayed
        /\ UNCHANGED <<content, carries>>
        /\ ~raced' => ~raced /\ ~Overtaken(a)
    BY <1>14 DEF CommitAdvance, packageVars
  <2>2. p \in Postings /\ to \in PublicationState /\ state[p] # "none" /\ a # Idle
    BY <1>1, <1>14, KindsOfCalls DEF CommitAdvance, Known, CallsAreKnown
  <2>3. carries[p] \in Packages /\ content[carries[p]] \in Contents /\ state[p] \in PublicationState
    BY <1>0, <1>1, <2>2 DEF Known, RowsAreKnown
  <2>4. ASSUME ~raced'
        PROVE  x = StampFor(p, to) /\ IsLegal(state[p], to)
    BY <1>1, <1>14, <2>1, <2>4 DEF Overtaken, CommitAdvance, Known, CallsAreKnown
  <2> HIDE DEF p, to, x, a
  <2>5. \A q \in Postings : /\ state'[q] = IF q = p THEN to ELSE state[q]
                            /\ stamp'[q] = IF q = p THEN x ELSE stamp[q]
    BY <1>0, <2>1
  <2>6. \A q \in Postings : state'[q] \in Stray => q \in strayed'
    BY <1>1, <2>1, <2>2, <2>5 DEF Frozen
  <2>7. ASSUME ~raced', to \in {"draft", "needs_review"} PROVE x = NoContent
    <3>1. state[p] \in {"draft", "needs_review"}
      BY <2>2, <2>3, <2>4, <2>7, EdgesIntoTheLifecycle
    <3>2. stamp[p] = NoContent
      BY <1>1, <2>1, <2>2, <2>7, <3>1 DEF Frozen
    <3> QED BY <2>4, <2>7, <3>2 DEF StampFor
  <2>8. ASSUME ~raced', to \in LocksPackage, p \notin strayed'
        PROVE  x # NoContent /\ content[carries[p]] = x
    <3>1. CASE to = "approved"
      <4>1. state[p] = "needs_review"
        BY <2>2, <2>3, <2>4, <2>8, <3>1, EdgesIntoTheLifecycle
      <4>2. stamp[p] = NoContent
        BY <1>1, <2>1, <2>2, <2>8, <4>1 DEF Frozen
      <4>3. x = content[carries[p]]
        BY <2>4, <2>8, <3>1, <4>2 DEF StampFor
      <4> QED BY <2>3, <4>3
    <3>2. CASE to # "approved"
      <4>1. state[p] \in LocksPackage \union Stray
        BY <2>2, <2>3, <2>4, <2>8, <3>2, EdgesIntoTheLifecycle
      <4>2. p \notin strayed
        BY <2>1, <2>8
      <4>3. state[p] \in LocksPackage
        BY <1>1, <2>2, <4>1, <4>2 DEF Frozen
      <4>4. stamp[p] # NoContent /\ content[carries[p]] = stamp[p]
        BY <1>1, <2>1, <2>2, <2>8, <4>2, <4>3 DEF Frozen, CarriesWhatWasApproved
      <4>5. x = stamp[p]
        BY <2>4, <2>8, <3>2 DEF StampFor
      <4> QED BY <4>4, <4>5
    <3> QED BY <3>1, <3>2
  <2>9. ~raced' => \A q \in Postings :
          state'[q] \in {"draft", "needs_review"} => stamp'[q] = NoContent
    BY <1>1, <2>1, <2>5, <2>7 DEF Frozen
  <2>10. CarriesWhatWasApproved'
    <3> SUFFICES ASSUME ~raced', NEW q \in Postings \ strayed', state'[q] \in LocksPackage
                 PROVE  stamp'[q] # NoContent /\ content[carries[q]] = stamp'[q]
      BY <2>1 DEF CarriesWhatWasApproved
    <3>1. CASE q = p
      BY <2>5, <2>8, <3>1
    <3>2. CASE q # p
      <4>1. q \notin strayed /\ state[q] \in LocksPackage /\ ~raced
        BY <2>1, <2>5, <3>2
      <4> QED BY <1>1, <2>5, <3>2, <4>1 DEF Frozen, CarriesWhatWasApproved
    <3> QED BY <3>1, <3>2
  <2> QED BY <2>6, <2>9, <2>10 DEF Frozen
<1>15. CASE UNCHANGED vars
  BY <1>2, <1>15 DEF vars, packageVars, postingVars
<1> QED BY <1>4, <1>5, <1>6, <1>7, <1>8, <1>9, <1>10, <1>11, <1>12, <1>13, <1>14, <1>15 DEF Next

\* As long as no commit was overtaken, a posting that never left the lifecycle
\* carries the very content it was authorised with (edit_release_package).
THEOREM TheApprovedIsCarried == Spec => []CarriesWhatWasApproved
<1>1. Init => Frozen
  BY DEF Init, Frozen, CarriesWhatWasApproved, Stray, LocksPackage
<1>2. Published /\ Frozen /\ Known' /\ [Next]_vars => Frozen'
  BY FrozenStays DEF Steady
<1>3. Frozen => CarriesWhatWasApproved
  BY DEF Frozen
<1> QED BY <1>1, <1>2, <1>3, KnownHolds, PublishedHolds, PTL DEF Spec

-----------------------------------------------------------------------------
(* What the gate let go.                                                   *)

\* A posting that is remote, or that a decided call is about to make remote,
\* went through the gate; and while nothing was overtaken or strayed, the gate
\* cleared the content of its stamp.
Gated ==
  /\ \A p \in Postings :
       /\ state[p] \in IsRemote => \E x \in Contents : <<p, x>> \in gated
       /\ ~raced /\ p \notin strayed /\ state[p] \in HasTheBytes => <<p, stamp[p]>> \in gated
  /\ \A c \in Connections : call[c] # Idle /\ call[c].op = "advance" =>
       LET a == call[c]
           p == a.posting
       IN  /\ a.to \in IsRemote => \E x \in Contents : <<p, x>> \in gated
           /\ ~raced /\ p \notin strayed /\ a.from = "ready" /\ a.to \in HasTheBytes =>
                <<p, stamp[p]>> \in gated

\* The edges into the states in which a provider has the bytes.
LEMMA EdgesIntoTheProvider ==
  ASSUME NEW from \in PublicationState, NEW to \in HasTheBytes, IsLegal(from, to)
  PROVE  from \in HasTheBytes \union Stray \union {"ready"}
BY StatesOfAPosting DEF IsLegal, Successors, HasTheBytes, Stray

\* Every step keeps what the gate let go.
LEMMA GatedStays ==
  ASSUME Steady, Gated, [Next]_vars
  PROVE  Gated'
<1>0. /\ state \in [Postings -> PublicationState \union {"none"}]
      /\ carries \in [Postings -> Packages \union {NoPackage}]
      /\ stamp \in [Postings -> Fingerprint]
      /\ call \in [Connections -> Calls \union {Idle}]
      /\ gated \subseteq Postings \X Contents
  BY DEF Steady, Published, Known, TypeOK
<1>1. Known /\ Vouched /\ Frozen
  BY DEF Steady, Published
<1> DEFINE Rest == <<state, stamp, strayed, gated>>
<1>2. ASSUME UNCHANGED Rest, ~raced' => ~raced,
             \A d \in Connections : call'[d] # Idle /\ call'[d].op = "advance" => call'[d] = call[d]
      PROVE  Gated'
  BY <1>2 DEF Gated
<1>3. ASSUME NEW k \in Packages, NEW x \in Contents, CreateReleasePackage(k, x) PROVE Gated'
  BY <1>2, <1>3 DEF CreateReleasePackage, postingVars
<1>4. ASSUME NEW k \in Packages, SupersedeReleasePackage(k) PROVE Gated'
  BY <1>2, <1>4 DEF SupersedeReleasePackage, postingVars
<1>5. ASSUME NEW p \in Postings, NEW k \in Packages, CreatePosting(p, k) PROVE Gated'
  <2>1. state' = [state EXCEPT ![p] = "draft"] /\ UNCHANGED <<stamp, strayed, gated, call, raced>>
    BY <1>5 DEF CreatePosting
  <2>2. \A q \in Postings : state'[q] = IF q = p THEN "draft" ELSE state[q]
    BY <1>0, <2>1
  <2>3. "draft" \notin IsRemote /\ "draft" \notin HasTheBytes
    BY DEF IsRemote, HasTheBytes
  <2> QED BY <2>1, <2>2, <2>3 DEF Gated
<1>6. ASSUME NEW s \in Sources, NEW n \in Recordable, RecordNote(s, n) PROVE Gated'
  BY <1>2, <1>6 DEF RecordNote, postingVars
<1>7. CASE Midnight
  BY <1>2, <1>7 DEF Midnight, postingVars
<1>8. ASSUME NEW c \in Connections, NEW a, call' = [call EXCEPT ![c] = a], a.op # "advance",
             UNCHANGED <<Rest, raced>>
      PROVE  Gated'
  <2>1. \A d \in Connections : call'[d] = IF d = c THEN a ELSE call[d]
    BY <1>0, <1>8
  <2> QED BY <1>2, <1>8, <2>1
<1>9. ASSUME NEW c \in Connections, NEW k \in Packages, NEW new \in Contents, ReadEdit(c, k, new)
      PROVE  Gated'
  <2> DEFINE a == [op |-> "edit", package |-> k, content |-> new]
  <2>1. a.op # "advance" /\ call' = [call EXCEPT ![c] = a] /\ UNCHANGED <<Rest, raced>>
    BY <1>9 DEF ReadEdit, postingVars
  <2> HIDE DEF a
  <2> QED BY <1>8, <2>1
<1>10. ASSUME NEW c \in Connections, NEW k \in Packages, ReadApprove(c, k) PROVE Gated'
  <2> DEFINE a == [op |-> "approve", package |-> k, content |-> content[k]]
  <2>1. a.op # "advance" /\ call' = [call EXCEPT ![c] = a] /\ UNCHANGED <<Rest, raced>>
    BY <1>10 DEF ReadApprove, postingVars
  <2> HIDE DEF a
  <2> QED BY <1>8, <2>1
<1>11. ASSUME NEW c \in Connections, NEW p \in Postings, NEW to \in PublicationState,
              NEW g \in Offers[to], ReadAdvance(c, p, to, g)
       PROVE  Gated'
  <2> DEFINE a == [op |-> "advance", posting |-> p, from |-> state[p], to |-> to,
                   stamp |-> StampFor(p, to), given |-> g]
             x == content[carries[p]]
  <2>1. /\ call' = [call EXCEPT ![c] = a] /\ UNCHANGED <<state, stamp, strayed, raced>>
        /\ gated \subseteq gated'
        /\ state[p] # "none" /\ MayAdvance(p, to, g)
        /\ to \in IsRemote /\ state[p] \notin IsRemote /\ Cleared(x) => <<p, x>> \in gated'
    BY <1>11 DEF ReadAdvance
  <2>2. a.posting = p /\ a.from = state[p] /\ a.to = to
    OBVIOUS
  <2>3. x \in Contents
    BY <1>1, <2>1 DEF Known, RowsAreKnown
  <2>4. to \in IsRemote /\ state[p] \notin IsRemote => <<p, x>> \in gated'
    BY <2>1 DEF MayAdvance
  <2>5. ~raced /\ p \notin strayed /\ state[p] = "ready" => x = stamp[p]
    BY <1>1 DEF Frozen, CarriesWhatWasApproved, LocksPackage
  <2>6. "ready" \notin IsRemote /\ HasTheBytes \subseteq IsRemote
    BY DEF IsRemote, HasTheBytes
  <2> HIDE DEF a, x
  <2>7. \A d \in Connections : call'[d] = IF d = c THEN a ELSE call[d]
    BY <1>0, <2>1
  <2>8. to \in IsRemote => \E y \in Contents : <<p, y>> \in gated'
    BY <2>1, <2>3, <2>4 DEF Gated
  <2>9. ~raced /\ p \notin strayed /\ state[p] = "ready" /\ to \in HasTheBytes =>
          <<p, stamp[p]>> \in gated'
    BY <2>4, <2>5, <2>6
  <2>10. ASSUME NEW q \in Postings
         PROVE  /\ state[q] \in IsRemote => \E y \in Contents : <<q, y>> \in gated'
                /\ ~raced /\ q \notin strayed /\ state[q] \in HasTheBytes => <<q, stamp[q]>> \in gated'
    BY <2>1 DEF Gated
  <2>11. ASSUME NEW d \in Connections, call'[d] # Idle, call'[d].op = "advance"
         PROVE  LET b == call'[d]
                    q == b.posting
                IN  /\ b.to \in IsRemote => \E y \in Contents : <<q, y>> \in gated'
                    /\ ~raced /\ q \notin strayed /\ b.from = "ready" /\ b.to \in HasTheBytes =>
                         <<q, stamp[q]>> \in gated'
    <3>1. CASE d = c
      BY <2>2, <2>7, <2>8, <2>9, <3>1
    <3>2. CASE d # c
      <4>1. call'[d] = call[d]
        BY <2>7, <3>2
      <4>2. /\ call[d].to \in IsRemote => \E y \in Contents : <<call[d].posting, y>> \in gated
            /\ ~raced /\ call[d].posting \notin strayed /\ call[d].from = "ready"
               /\ call[d].to \in HasTheBytes => <<call[d].posting, stamp[call[d].posting]>> \in gated
        BY <2>11, <4>1 DEF Gated
      <4> QED BY <2>1, <4>1, <4>2
    <3> QED BY <3>1, <3>2
  <2> QED BY <2>1, <2>10, <2>11 DEF Gated
<1>12. ASSUME NEW c \in Connections, call' = [call EXCEPT ![c] = Idle]
       PROVE  \A d \in Connections : call'[d] # Idle => call'[d] = call[d]
  BY <1>0, <1>12
<1>13. ASSUME NEW c \in Connections, CommitEdit(c) PROVE Gated'
  BY <1>2, <1>12, <1>13 DEF CommitEdit, postingVars
<1>14. ASSUME NEW c \in Connections, CommitApprove(c) PROVE Gated'
  BY <1>2, <1>12, <1>14 DEF CommitApprove, postingVars
<1>15. ASSUME NEW c \in Connections, CommitAdvance(c) PROVE Gated'
  <2> DEFINE a == call[c]
             p == call[c].posting
             to == call[c].to
             x == call[c].stamp
  <2>1. /\ state' = [state EXCEPT ![p] = to] /\ stamp' = [stamp EXCEPT ![p] = x]
        /\ strayed \subseteq strayed' /\ gated' = gated
        /\ ~raced' => ~raced /\ state[p] = a.from /\ x = StampFor(p, to)
    BY <1>15 DEF CommitAdvance, Overtaken
  <2>2. /\ p \in Postings /\ to \in PublicationState /\ state[p] # "none" /\ a # Idle
        /\ a.op = "advance" /\ IsLegal(a.from, to)
    BY <1>1, <1>15, KindsOfCalls DEF CommitAdvance, Known, CallsAreKnown
  <2>3. \A d \in Connections : call'[d] # Idle => call'[d] = call[d]
    BY <1>12, <1>15 DEF CommitAdvance
  <2>4. to \in IsRemote => \E y \in Contents : <<p, y>> \in gated
    BY <2>2 DEF Gated
  <2>5. ~raced /\ p \notin strayed /\ a.from = "ready" /\ to \in HasTheBytes =>
          <<p, stamp[p]>> \in gated
    BY <2>2 DEF Gated
  <2> HIDE DEF a, p, to, x
  <2>6. \A q \in Postings : /\ state'[q] = IF q = p THEN to ELSE state[q]
                            /\ stamp'[q] = IF q = p THEN x ELSE stamp[q]
    BY <1>0, <2>1
  <2>7. ASSUME NEW q \in Postings, ~raced', <<q, stamp[q]>> \in gated
        PROVE  <<q, stamp'[q]>> \in gated
    <3>1. stamp[q] \in Contents
      BY <1>0, <2>7
    <3>2. stamp[q] # NoContent
      BY <3>1, PublicationAssumption
    <3> QED BY <2>1, <2>6, <2>7, <3>2 DEF StampFor
  <2>8. ASSUME ~raced', p \notin strayed', to \in HasTheBytes
        PROVE  <<p, stamp[p]>> \in gated
    <3>1. state[p] \in PublicationState /\ IsLegal(state[p], to) /\ p \notin strayed /\ ~raced
      BY <1>0, <2>1, <2>2, <2>8
    <3>2. state[p] \in HasTheBytes \union {"ready"}
      BY <1>1, <2>2, <2>8, <3>1, EdgesIntoTheProvider DEF Frozen
    <3>3. CASE state[p] \in HasTheBytes
      BY <2>2, <3>1, <3>3 DEF Gated
    <3>4. CASE state[p] = "ready"
      BY <2>1, <2>5, <2>8, <3>1, <3>4
    <3> QED BY <3>2, <3>3, <3>4
  <2>9. ASSUME NEW q \in Postings
        PROVE  /\ state'[q] \in IsRemote => \E y \in Contents : <<q, y>> \in gated'
               /\ ~raced' /\ q \notin strayed' /\ state'[q] \in HasTheBytes =>
                    <<q, stamp'[q]>> \in gated'
    <3>1. CASE q = p
      BY <2>1, <2>4, <2>6, <2>7, <2>8, <3>1
    <3>2. CASE q # p
      BY <2>1, <2>6, <3>2 DEF Gated
    <3> QED BY <3>1, <3>2
  <2>10. ASSUME NEW d \in Connections, call'[d] # Idle, call'[d].op = "advance"
         PROVE  LET b == call'[d]
                    q == b.posting
                IN  /\ b.to \in IsRemote => \E y \in Contents : <<q, y>> \in gated'
                    /\ ~raced' /\ q \notin strayed' /\ b.from = "ready" /\ b.to \in HasTheBytes =>
                         <<q, stamp'[q]>> \in gated'
    <3>1. call'[d] = call[d] /\ call[d].posting \in Postings
      BY <1>1, <2>3, <2>10, KindsOfCalls DEF Known
    <3>2. /\ call[d].to \in IsRemote => \E y \in Contents : <<call[d].posting, y>> \in gated
          /\ ~raced /\ call[d].posting \notin strayed /\ call[d].from = "ready"
             /\ call[d].to \in HasTheBytes => <<call[d].posting, stamp[call[d].posting]>> \in gated
      BY <2>10, <3>1 DEF Gated
    <3> DEFINE r == call[d].posting
               upload == call[d].from = "ready" /\ call[d].to \in HasTheBytes
    <3>3. gated' = gated
      BY <2>1
    <3>4. ASSUME ~raced', r \notin strayed', upload PROVE <<r, stamp'[r]>> \in gated'
      <4>1. ~raced /\ r \notin strayed
        BY <2>1, <3>4
      <4>2. <<r, stamp[r]>> \in gated
        BY <3>2, <3>4, <4>1
      <4> QED BY <2>7, <3>1, <3>3, <3>4, <4>2
    <3> QED BY <3>1, <3>2, <3>3, <3>4
  <2> QED BY <2>9, <2>10 DEF Gated
<1>16. CASE UNCHANGED vars
  BY <1>2, <1>16 DEF vars, postingVars
<1> QED BY <1>3, <1>4, <1>5, <1>6, <1>7, <1>9, <1>10, <1>11, <1>13, <1>14, <1>15, <1>16 DEF Next

\* Whatever calls overlap, a remote posting went through the gate, and as long
\* as no call was overtaken one that never strayed has at its provider the
\* content the gate cleared (advance_publication, edit_release_package).
THEOREM TheProviderHasTheCleared == Spec => []ProviderHasWhatWasCleared
<1>1. Init => Frozen /\ Gated
  BY DEF Init, Frozen, CarriesWhatWasApproved, Stray, LocksPackage, Gated, IsRemote, HasTheBytes
<1>2. Published /\ Frozen /\ Known' /\ [Next]_vars => Frozen'
  BY FrozenStays DEF Steady
<1>3. Published /\ Frozen /\ Gated /\ [Next]_vars => Gated'
  BY GatedStays DEF Steady
<1>4. Frozen /\ Gated => ProviderHasWhatWasCleared
  <2>1. HasTheBytes \subseteq LocksPackage
    BY DEF HasTheBytes, LocksPackage
  <2> QED BY <2>1 DEF Frozen, CarriesWhatWasApproved, Gated, ProviderHasWhatWasCleared
<1> QED BY <1>1, <1>2, <1>3, <1>4, KnownHolds, PublishedHolds, PTL DEF Spec
=============================================================================
