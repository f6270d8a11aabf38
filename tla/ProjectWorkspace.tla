-------------------------- MODULE ProjectWorkspace --------------------------
(***************************************************************************)
(* The one workspace row a project has: which revision is open, where the   *)
(* views are looking, and the unsaved draft.                                *)
(*                                                                          *)
(* Every request opens its own connection to the store, so requests of two  *)
(* tabs interleave between any two statements.  Selecting a revision, saving *)
(* a draft, discarding and acknowledging it are one statement each; PUT     *)
(* /workspace is a read of the view state followed by a write of all of it. *)
(***************************************************************************)
CONSTANTS
    Sessions,   \* concurrent requests that patch the view state
    Revisions,  \* the composition revisions of this project
    Drafts,     \* unsaved work, never the empty object
    Views,      \* what playhead, range and active view say together
    Nothing     \* no selection, no draft, a field the request left out

ASSUME NothingAssumption == Nothing \notin Revisions \union Drafts \union Views

VARIABLES
    row,    \* the creator_workspace row
    put     \* session -> the PUT it is in the middle of, if any

wsVars == <<row, put>>

Absent == [open |-> FALSE, selected |-> Nothing, view |-> Nothing,
           draft |-> Nothing, dirty |-> FALSE]
NoPut == [busy |-> FALSE, view |-> Nothing, draft |-> Nothing, dirty |-> FALSE]

WTypeOK ==
    /\ row \in [open : BOOLEAN, selected : Revisions \union {Nothing},
                view : Views \union {Nothing}, draft : Drafts \union {Nothing},
                dirty : BOOLEAN]
    /\ put \in [Sessions -> [busy : BOOLEAN, view : Views \union {Nothing},
                             draft : Drafts \union {Nothing}, dirty : BOOLEAN]]

WInit ==
    /\ row = Absent
    /\ put = [s \in Sessions |-> NoPut]

OpenWorkspace ==
    /\ ~row.open
    /\ row' = [Absent EXCEPT !.open = TRUE]
    /\ UNCHANGED put

(* Selecting never looks at the draft: a draft made against the revision     *)
(* selected before stays where it is.                                        *)
SelectRevision(r) ==
    /\ row.open
    /\ row' = [row EXCEPT !.selected = r]
    /\ UNCHANGED put

-----------------------------------------------------------------------------
(* Mutant: the draft of the body is stored without raising the flag.          *)
QuietRead(s, view, draft) ==
    /\ row.open
    /\ ~put[s].busy
    /\ put' = [put EXCEPT ![s] =
                 [busy |-> TRUE,
                  view |-> IF view = Nothing THEN row.view ELSE view,
                  draft |-> IF draft = Nothing THEN row.draft ELSE draft,
                  dirty |-> row.dirty]]
    /\ UNCHANGED row

(* PUT /workspace.  The first half reads the view state and lays the fields  *)
(* of the body over it; the second writes every column, those the body left  *)
(* out included.                                                             *)
ReadView(s, view, draft) ==
    /\ row.open
    /\ ~put[s].busy
    /\ put' = [put EXCEPT ![s] =
                 [busy |-> TRUE,
                  view |-> IF view = Nothing THEN row.view ELSE view,
                  draft |-> IF draft = Nothing THEN row.draft ELSE draft,
                  dirty |-> draft # Nothing \/ row.dirty]]
    /\ UNCHANGED row

WriteView(s) ==
    /\ put[s].busy
    /\ row' = [row EXCEPT !.view = put[s].view, !.draft = put[s].draft,
                          !.dirty = put[s].dirty]
    /\ put' = [put EXCEPT ![s] = NoPut]

(* A body whose draft is the empty object discards the draft and returns,    *)
(* whatever else it asked for; acknowledge_draft is the same statement.      *)
DropDraft ==
    /\ row.open
    /\ row' = [row EXCEPT !.draft = Nothing, !.dirty = FALSE]
    /\ UNCHANGED put

(* The autosave: one UPDATE whose WHERE compares the base with the selection. *)
SaveDraft(draft, base) ==
    /\ row.open
    /\ row.selected = base
    /\ row' = [row EXCEPT !.draft = draft, !.dirty = TRUE]
    /\ UNCHANGED put

WNext ==
    \/ OpenWorkspace
    \/ \E r \in Revisions : SelectRevision(r)
    \/ \E s \in Sessions :
         \/ \E view \in Views \union {Nothing}, draft \in Drafts \union {Nothing} :
              ReadView(s, view, draft)
         \/ WriteView(s)
    \/ DropDraft
    \/ \E draft \in Drafts, base \in Revisions : SaveDraft(draft, base)

-----------------------------------------------------------------------------
(* The flag says "unsaved" exactly while there is a draft, through every      *)
(* interleaving of autosaves, discards and view switches: "there is no        *)
(* interleaving in which the draft moved and the unsaved flag did not"        *)
(* (save_view_state, save_draft, discard_draft).                              *)
DirtyMeansADraft == row.dirty <=> row.draft # Nothing

=============================================================================
