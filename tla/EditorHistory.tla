--------------------------- MODULE EditorHistory ---------------------------
(***************************************************************************)
(* A project's edit history: one append-only table of entries, and record,  *)
(* undo, redo, branch and snapshot as five ways to append to it.            *)
(*                                                                          *)
(* A verb is called with a time, reads the history, plans its entry on what  *)
(* it read, and inserts the entry in a transaction of its own.  Entries are  *)
(* listed by (created_at, history_id), and created_at is the time the verb   *)
(* was called with, which is drawn before the history is read: an entry is   *)
(* named here by its place in that order, which is neither the order of the  *)
(* reads nor that of the inserts.  Calls with equal times are listed by an   *)
(* id drawn at random and clocks may step back, so a call may get any place. *)
(***************************************************************************)
EXTENDS ProjectWorkspace, Naturals

CONSTANTS
    Editors,    \* clients that call the verbs
    MaxPlace    \* bound: places in the listing order

ASSUME MaxPlaceAssumption == MaxPlace \in Nat

VARIABLES
    entries,    \* entry -> what its row says
    now,        \* editor -> the place of the call it is in
    plan        \* editor -> the entry it is about to insert

histVars == <<entries, now, plan>>
vars == <<row, put, entries, now, plan>>

Root == 0                       \* parent or replaced: none
NotCalled == 0                  \* an editor between two calls
Places == 1 .. MaxPlace
Verbs == {"record", "undo", "redo", "branch", "snapshot"}
Entry == [verb : Verbs, parent : Nat, replaced : Nat, rev : Revisions]
NoPlan == [verb |-> "none"]

(* The last row in listing order is what every verb takes for the state the   *)
(* editor is on; a history without entries has none.                          *)
Tip ==
    IF DOMAIN entries = {} THEN Root
    ELSE CHOOSE e \in DOMAIN entries : \A f \in DOMAIN entries : f <= e

TypeOK ==
    /\ WTypeOK
    /\ DOMAIN entries \subseteq Places
    /\ entries \in [DOMAIN entries -> Entry]
    /\ now \in [Editors -> Places \union {NotCalled}]
    /\ plan \in [Editors -> Entry \union {NoPlan}]

Init ==
    /\ WInit
    /\ entries = [e \in {} |-> 0]
    /\ now = [c \in Editors |-> NotCalled]
    /\ plan = [c \in Editors |-> NoPlan]

-----------------------------------------------------------------------------
(* The caller draws the time of its call; what it reads, it reads later.      *)
Call(c, place) ==
    /\ now[c] = NotCalled
    /\ place \notin DOMAIN entries
    /\ \A d \in Editors : now[d] # place
    /\ now' = [now EXCEPT ![c] = place]
    /\ UNCHANGED <<entries, plan, wsVars>>

(* The verb has read the history and planned its entry on it.                 *)
Decide(c, entry) ==
    /\ now[c] # NotCalled
    /\ plan[c] = NoPlan
    /\ plan' = [plan EXCEPT ![c] = entry]
    /\ UNCHANGED <<entries, now, wsVars>>

Made(verb, parent, replaced, rev) ==
    [verb |-> verb, parent |-> parent, replaced |-> replaced, rev |-> rev]

(* check_base refuses any base that is not the tip; no base is accepted.      *)
Record(c, base, rev) ==
    /\ base \in {Root, Tip}
    /\ Decide(c, Made("record", Tip, Root, rev))

(* Mutant: an undo keeps the revision of the tip.                             *)
UndoInPlace(c) ==
    /\ DOMAIN entries # {}
    /\ entries[Tip].parent # Root
    /\ Decide(c, Made("undo", entries[Tip].parent, Tip, entries[Tip].rev))

Undo(c) ==
    /\ DOMAIN entries # {}
    /\ entries[Tip].parent # Root
    /\ Decide(c, Made("undo", entries[Tip].parent, Tip, entries[entries[Tip].parent].rev))

(* Only a tip that is itself an undo can be redone.                           *)
Redo(c) ==
    /\ DOMAIN entries # {}
    /\ entries[Tip].replaced # Root
    /\ Decide(c, Made("redo", Tip, Root, entries[entries[Tip].replaced].rev))

(* Mutant: the existence check of Branch is dropped.                          *)
BranchAnywhere(c, from, rev) ==
    Decide(c, Made("branch", from, Root, rev))

Branch(c, from, rev) ==
    /\ from \in DOMAIN entries \ {Tip}
    /\ Decide(c, Made("branch", from, Root, rev))

Snapshot(c) ==
    /\ DOMAIN entries # {}
    /\ Decide(c, Made("snapshot", Tip, Root, entries[Tip].rev))

(* commit_entry: the membership check and the INSERT in one transaction.      *)
CommitEntry(c) ==
    /\ plan[c] # NoPlan
    /\ entries' = [e \in DOMAIN entries \union {now[c]} |->
                     IF e = now[c] THEN plan[c] ELSE entries[e]]
    /\ now' = [now EXCEPT ![c] = NotCalled]
    /\ plan' = [plan EXCEPT ![c] = NoPlan]
    /\ UNCHANGED wsVars

(* A verb that is refused, a transaction that fails, or a process killed      *)
(* before it commits leaves no row behind.                                    *)
CallFails(c) ==
    /\ now[c] # NotCalled
    /\ now' = [now EXCEPT ![c] = NotCalled]
    /\ plan' = [plan EXCEPT ![c] = NoPlan]
    /\ UNCHANGED <<entries, wsVars>>

HistoryNext ==
    \E c \in Editors :
      \/ \E place \in Places : Call(c, place)
      \/ \E base \in {Root} \union DOMAIN entries, rev \in Revisions : Record(c, base, rev)
      \/ Undo(c)
      \/ Redo(c)
      \/ \E from \in Places, rev \in Revisions : Branch(c, from, rev)
      \/ Snapshot(c)
      \/ CommitEntry(c)
      \/ CallFails(c)

Next ==
    \/ WNext /\ UNCHANGED histVars
    \/ HistoryNext

Spec == Init /\ [][Next]_vars

-----------------------------------------------------------------------------
(* What an entry names is in the table, and no set of entries names only      *)
(* itself in a circle: from any entry the walk of History::chain meets        *)
(* neither a dangling parent nor a cycle and ends at a root, although a       *)
(* parent may be listed after its child, with any number of editors appending *)
(* at once and any call failing.                                              *)
Names(e) == {entries[e].parent, entries[e].replaced}

EveryChainEnds ==
    /\ \A e \in DOMAIN entries : Names(e) \subseteq DOMAIN entries \union {Root}
    /\ \A S \in SUBSET DOMAIN entries : S # {} => \E e \in S : Names(e) \cap S = {}

(* What an entry restores, it restores verbatim, whatever was appended since  *)
(* it was planned: an undo carries the revision of the parent of the entry it *)
(* put back, a redo of that undo carries the revision of the entry the undo   *)
(* put back, so the pair is the identity, and a snapshot carries its parent's.*)
RestoredFrom(e, was) ==
    LET x == was[e.parent] IN
    CASE e.verb = "undo" -> /\ e.parent = was[e.replaced].parent
                            /\ e.rev = x.rev
      [] e.verb = "redo" -> /\ x.verb = "undo"
                            /\ e.rev = was[x.replaced].rev
      [] e.verb = "snapshot" -> e.rev = x.rev
      [] OTHER -> e.replaced = Root

RestoresAreVerbatim ==
    \A e \in DOMAIN entries : RestoredFrom(entries[e], entries)

=============================================================================
