---------------------------- MODULE Publication ----------------------------
(***************************************************************************)
(* Release packages and their postings                                     *)
(* (crates/research/src/creator/publication.rs and store_publication.rs).  *)
(*                                                                         *)
(* A package is a set of inputs a person approves; a posting carries one   *)
(* package to one destination through fourteen states.  Every call of the  *)
(* store opens on its own SQLite connection, reads the rows it needs,      *)
(* decides, and then writes in a transaction of its own that does not      *)
(* repeat the reads.  A call is therefore two steps here, what it read     *)
(* and decided and then its commit, and the calls of several connections   *)
(* interleave between them.  The reads of one call are one step.           *)
(***************************************************************************)
EXTENDS SourceRights, FiniteSets

CONSTANTS
    Packages,      \* release package identities
    Postings,      \* posting identities
    Contents,      \* the distinct contents a package can have
    Sources,       \* source assets
    SourcesOf,     \* the sources a content declares: [Contents -> SUBSET Sources]
    Recordable,    \* the notes a person may record
    Offers,        \* target state -> the sets of Facts a call may bring along
    Connections,   \* callers, each with a connection of its own
    NoContent,     \* no fingerprint, or no content yet
    NoPackage,     \* a posting that was not created yet
    Idle,          \* a connection between two calls
    MaxEdits       \* bound on the edits of a behaviour

\* The optional columns of a posting that only a call can fill.
Facts == {"remote_id", "scheduled_at"}

ASSUME PublicationAssumption ==
  /\ NoContent \notin Contents
  /\ NoPackage \notin Packages
  /\ SourcesOf \in [Contents -> SUBSET Sources]
  /\ Recordable \subseteq Note
  /\ NoNote \notin Note
  /\ MaxEdits \in Nat

VARIABLES
    package,    \* package -> its state, "none" before it is drafted
    content,    \* package -> its content
    approval,   \* package -> the fingerprint its approval was given for
    state,      \* posting -> its state, "none" before it is created
    carries,    \* posting -> the package it carries
    stamp,      \* posting -> the fingerprint it was authorised against
    facts,      \* posting -> which of remote_id and scheduled_at it has
    note,       \* source -> its note
    today,      \* the day the callers pass as as_of
    call,       \* connection -> the call between its reads and its commit
    edits,      \* how many edits were committed
    reviewed,   \* history: the <<package, content>> pairs a person approved
    strayed,    \* history: postings that were failed, unauthorised or unknown
    gated,      \* history: the <<posting, content>> pairs the gate let go remote
    raced       \* history: a call wrote over rows that no longer say what it read

packageVars == <<package, content, approval, edits, reviewed>>
postingVars == <<state, carries, stamp, facts, strayed, gated>>
worldVars   == <<note, today>>
vars == <<packageVars, postingVars, worldVars, call, raced>>

-----------------------------------------------------------------------------
(* The state machine of a posting                                          *)

\* A fingerprint hashes every content field and no time, so equal contents and
\* only those have equal fingerprints: a content is its own fingerprint.
Fingerprint == Contents \union {NoContent}

Successors ==
  [ draft                 |-> {"needs_review", "cancelled"},
    needs_review          |-> {"approved", "draft", "cancelled"},
    approved              |-> {"rendering", "cancelled"},
    rendering             |-> {"ready", "failed", "cancelled"},
    ready                 |-> {"uploading", "rendering", "cancelled"},
    uploading             |-> {"processing", "failed", "needs_reauthorization",
                               "unknown_remote_state", "cancelled"},
    processing            |-> {"scheduled", "published", "failed", "needs_reauthorization",
                               "unknown_remote_state", "removed"},
    scheduled             |-> {"published", "failed", "needs_reauthorization",
                               "unknown_remote_state", "cancelled", "removed"},
    published             |-> {"removed", "unknown_remote_state"},
    needs_reauthorization |-> {"uploading", "cancelled", "unknown_remote_state"},
    unknown_remote_state  |-> {"processing", "published", "failed",
                               "needs_reauthorization", "removed"},
    failed                |-> {"rendering", "needs_reauthorization",
                               "unknown_remote_state", "cancelled", "removed"},
    cancelled             |-> {"removed"},
    removed               |-> {} ]

PublicationState == DOMAIN Successors

ASSUME OffersAssumption == Offers \in [PublicationState -> SUBSET SUBSET Facts]

IsRemote == {"uploading", "processing", "scheduled", "published",
             "needs_reauthorization", "unknown_remote_state", "removed"}

LocksPackage == {"approved", "rendering", "ready", "uploading", "processing",
                 "scheduled", "published"}

\* The states outside the lifecycle that a posting can come back from.
Stray == {"failed", "needs_reauthorization", "unknown_remote_state"}

IsLegal(from, to) == to \in Successors[from]

\* Mutant: the flag alone approves.
ApprovedByFlag(k) == package[k] = "approved"

\* The approval is a claim about a fingerprint: the flag alone is not enough.
IsApproved(k) == package[k] = "approved" /\ approval[k] = content[k]

\* Some posting has carried the package into a state that freezes its content.
Locked(k) == \E p \in Postings : carries[p] = k /\ state[p] \in LocksPackage

Cleared(c) == IsPublishable(note, SourcesOf[c], today)

-----------------------------------------------------------------------------
Init ==
  /\ package = [k \in Packages |-> "none"]
  /\ content = [k \in Packages |-> NoContent]
  /\ approval = [k \in Packages |-> NoContent]
  /\ state = [p \in Postings |-> "none"]
  /\ carries = [p \in Postings |-> NoPackage]
  /\ stamp = [p \in Postings |-> NoContent]
  /\ facts = [p \in Postings |-> {}]
  /\ note = [s \in Sources |-> NoNote]
  /\ today = 0
  /\ call = [c \in Connections |-> Idle]
  /\ edits = 0
  /\ reviewed = {}
  /\ strayed = {}
  /\ gated = {}
  /\ raced = FALSE

(***************************************************************************)
(* Calls whose decision does not depend on a row another call can change,  *)
(* or that are one statement: one step.                                    *)
(***************************************************************************)

CreateReleasePackage(k, c) ==
  /\ package[k] = "none"
  /\ package' = [package EXCEPT ![k] = "draft"]
  /\ content' = [content EXCEPT ![k] = c]
  /\ UNCHANGED <<approval, edits, reviewed, postingVars, worldVars, call, raced>>

\* Superseding touches no posting and leaves the approval record in place.
SupersedeReleasePackage(k) ==
  /\ package[k] \in {"draft", "approved"}
  /\ package' = [package EXCEPT ![k] = "superseded"]
  /\ UNCHANGED <<content, approval, edits, reviewed, postingVars, worldVars, call, raced>>

CreatePosting(p, k) ==
  /\ state[p] = "none"
  /\ package[k] # "none"
  /\ state' = [state EXCEPT ![p] = "draft"]
  /\ carries' = [carries EXCEPT ![p] = k]
  /\ UNCHANGED <<packageVars, stamp, facts, strayed, gated, worldVars, call, raced>>

RecordNote(s, n) ==
  /\ note' = [note EXCEPT ![s] = n]
  /\ UNCHANGED <<packageVars, postingVars, today, call, raced>>

Midnight ==
  /\ today < LastDay
  /\ today' = today + 1
  /\ UNCHANGED <<packageVars, postingVars, note, call, raced>>

(***************************************************************************)
(* edit_release_package: refused for a superseded or a locked package; the *)
(* write sets the content and revokes the approval together.               *)
(***************************************************************************)

\* Mutant: postings do not lock a package.
EditUnlessSuperseded(k) == package[k] \in {"draft", "approved"}

MayEdit(k) == package[k] \in {"draft", "approved"} /\ ~Locked(k)

ReadEdit(c, k, new) ==
  /\ call[c] = Idle
  /\ edits < MaxEdits
  /\ MayEdit(k)
  /\ call' = [call EXCEPT ![c] = [op |-> "edit", package |-> k, content |-> new]]
  /\ UNCHANGED <<packageVars, postingVars, worldVars, raced>>

CommitEdit(c) ==
  /\ call[c] # Idle
  /\ call[c].op = "edit"
  /\ LET k == call[c].package
     IN  /\ package' = [package EXCEPT ![k] = "draft"]
         /\ content' = [content EXCEPT ![k] = call[c].content]
         /\ approval' = [approval EXCEPT ![k] = NoContent]
         /\ raced' = (raced \/ ~MayEdit(k))
  /\ edits' = edits + 1
  /\ call' = [call EXCEPT ![c] = Idle]
  /\ UNCHANGED <<reviewed, postingVars, worldVars>>

(***************************************************************************)
(* approve_release_package: a draft whose sources clear the gate; the      *)
(* fingerprint stored is that of the content the call read.                *)
(***************************************************************************)

MayApprove(k, c) == package[k] = "draft" /\ content[k] = c

ReadApprove(c, k) ==
  /\ call[c] = Idle
  /\ package[k] = "draft"
  /\ Cleared(content[k])
  /\ call' = [call EXCEPT ![c] = [op |-> "approve", package |-> k, content |-> content[k]]]
  /\ UNCHANGED <<packageVars, postingVars, worldVars, raced>>

CommitApprove(c) ==
  /\ call[c] # Idle
  /\ call[c].op = "approve"
  /\ LET k == call[c].package
     IN  /\ package' = [package EXCEPT ![k] = "approved"]
         /\ approval' = [approval EXCEPT ![k] = call[c].content]
         /\ reviewed' = reviewed \union {<<k, call[c].content>>}
         /\ raced' = (raced \/ ~MayApprove(k, call[c].content))
  /\ call' = [call EXCEPT ![c] = Idle]
  /\ UNCHANGED <<content, edits, postingVars, worldVars>>

(***************************************************************************)
(* advance_publication: the transition table, then a remote identity for   *)
(* "published", a time for "scheduled", an approved package for            *)
(* "approved", and the rights gate for a step from a local to a remote     *)
(* state.  A first approval stamps the posting with the content's          *)
(* fingerprint; a stamp is never replaced.                                 *)
(***************************************************************************)

\* Mutant: published without a remote identity.
AdvanceUnidentified(p, to, given) ==
  LET k == carries[p]
  IN  /\ IsLegal(state[p], to)
      /\ to = "scheduled" => "scheduled_at" \in given
      /\ to = "approved"  => IsApproved(k)
      /\ to \in IsRemote /\ state[p] \notin IsRemote => Cleared(content[k])

\* Mutant: the gate is left to the approval.
AdvanceUngated(p, to, given) ==
  LET k == carries[p]
  IN  /\ IsLegal(state[p], to)
      /\ to = "published" => "remote_id" \in given
      /\ to = "scheduled" => "scheduled_at" \in given
      /\ to = "approved"  => IsApproved(k)

MayAdvance(p, to, given) ==
  LET k == carries[p]
  IN  /\ IsLegal(state[p], to)
      /\ to = "published" => "remote_id" \in given
      /\ to = "scheduled" => "scheduled_at" \in given
      /\ to = "approved"  => IsApproved(k)
      /\ to \in IsRemote /\ state[p] \notin IsRemote => Cleared(content[k])

StampFor(p, to) == IF stamp[p] = NoContent /\ to = "approved"
                   THEN content[carries[p]]
                   ELSE stamp[p]

ReadAdvance(c, p, to, given) ==
  /\ call[c] = Idle
  /\ state[p] # "none"
  /\ MayAdvance(p, to, given)
  /\ call' = [call EXCEPT ![c] = [op |-> "advance", posting |-> p, from |-> state[p],
                                  to |-> to, stamp |-> StampFor(p, to),
                                  given |-> given]]
  /\ gated' = IF /\ to \in IsRemote /\ state[p] \notin IsRemote
                 /\ Cleared(content[carries[p]])
              THEN gated \union {<<p, content[carries[p]]>>}
              ELSE gated
  /\ UNCHANGED <<packageVars, state, carries, stamp, facts, strayed, worldVars, raced>>

\* The posting has left the state the call read, or its stamp would be another.
Overtaken(a) ==
  \/ state[a.posting] # a.from
  \/ StampFor(a.posting, a.to) # a.stamp

CommitAdvance(c) ==
  /\ call[c] # Idle
  /\ call[c].op = "advance"
  /\ LET a == call[c]
         p == a.posting
     IN  /\ state' = [state EXCEPT ![p] = a.to]
         /\ stamp' = [stamp EXCEPT ![p] = a.stamp]
         /\ facts' = [facts EXCEPT ![p] = @ \union a.given]
         /\ strayed' = IF a.to \in Stray THEN strayed \union {p} ELSE strayed
         /\ raced' = (raced \/ Overtaken(a))
  /\ call' = [call EXCEPT ![c] = Idle]
  /\ UNCHANGED <<packageVars, carries, gated, worldVars>>

Next ==
  \/ \E k \in Packages, c \in Contents : CreateReleasePackage(k, c)
  \/ \E k \in Packages : SupersedeReleasePackage(k)
  \/ \E p \in Postings, k \in Packages : CreatePosting(p, k)
  \/ \E s \in Sources, n \in Recordable : RecordNote(s, n)
  \/ Midnight
  \/ \E c \in Connections, k \in Packages, new \in Contents : ReadEdit(c, k, new)
  \/ \E c \in Connections : CommitEdit(c)
  \/ \E c \in Connections, k \in Packages : ReadApprove(c, k)
  \/ \E c \in Connections : CommitApprove(c)
  \/ \E c \in Connections, p \in Postings, to \in PublicationState :
       \E g \in Offers[to] : ReadAdvance(c, p, to, g)
  \/ \E c \in Connections : CommitAdvance(c)

Spec == Init /\ [][Next]_vars
-----------------------------------------------------------------------------
(* Properties                                                              *)

Calls ==
  [op : {"edit", "approve"}, package : Packages, content : Contents]
    \union [op : {"advance"}, posting : Postings, from : PublicationState,
            to : PublicationState, stamp : Fingerprint, given : SUBSET Facts]

\* Every variable holds a value of its type.
TypeOK ==
  /\ package \in [Packages -> {"none", "draft", "approved", "superseded"}]
  /\ content \in [Packages -> Fingerprint]
  /\ approval \in [Packages -> Fingerprint]
  /\ state \in [Postings -> PublicationState \union {"none"}]
  /\ carries \in [Postings -> Packages \union {NoPackage}]
  /\ stamp \in [Postings -> Fingerprint]
  /\ facts \in [Postings -> SUBSET Facts]
  /\ note \in [Sources -> Recordable \union {NoNote}]
  /\ today \in Day
  /\ call \in [Connections -> Calls \union {Idle}]
  /\ edits \in Nat
  /\ reviewed \subseteq Packages \X Contents
  /\ strayed \subseteq Postings
  /\ gated \subseteq Postings \X Contents
  /\ raced \in BOOLEAN

\* A posting is only ever authorised against a content of its package that a
\* person approved after the gate cleared it, whatever calls overlap: an
\* approval that lands on an edited package approves nothing
\* (Package::is_approved compares fingerprints, advance_publication stamps the
\* content it compared).
StampsWereReviewed ==
  \A p \in Postings : stamp[p] # NoContent => <<carries[p], stamp[p]>> \in reviewed

\* A live posting has an identity at its provider and a scheduled one a time,
\* whatever calls overlap (the MissingRemoteId and MissingSchedule refusals of
\* advance_publication, and the COALESCE that never forgets either).
LiveCanBeFound ==
  \A p \in Postings : /\ state[p] = "published" => "remote_id" \in facts[p]
                      /\ state[p] = "scheduled" => "scheduled_at" \in facts[p]

\* As long as no call committed on rows that had changed since it read them, a
\* posting that never failed, lost its credential or became unknown carries
\* the very content it was authorised with, from its approval to its
\* publication (edit_release_package refuses a locked package).
CarriesWhatWasApproved ==
  ~raced => \A p \in Postings \ strayed :
    state[p] \in LocksPackage => stamp[p] # NoContent /\ content[carries[p]] = stamp[p]

HasTheBytes == {"uploading", "processing", "scheduled", "published"}

\* Whatever calls overlap and whichever detours it takes, a posting is in a
\* remote state only if the gate cleared a content of its package when a call
\* took it there; and as long as no call was overtaken, one that never strayed
\* has at its provider the very content the gate cleared for it
\* (advance_publication gates the first step to a remote state, and the lock
\* of edit_release_package keeps the content behind it).  The gate is not asked
\* again from needs_reauthorization to uploading: the clearance may then be as old
\* as the step to needs_reauthorization, and the note changed since.
ProviderHasWhatWasCleared ==
  \A p \in Postings :
    /\ state[p] \in IsRemote => \E x \in Contents : <<p, x>> \in gated
    /\ ~raced /\ p \notin strayed /\ state[p] \in HasTheBytes =>
         <<p, content[carries[p]]>> \in gated

=============================================================================
