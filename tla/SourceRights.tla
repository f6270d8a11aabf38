---------------------------- MODULE SourceRights ----------------------------
(***************************************************************************)
(* The rights gate of the Creator workspace                                *)
(* (crates/research/src/creator/rights.rs and store_rights.rs): what a     *)
(* person recorded about one source on three axes, and what that lets      *)
(* through on a given day.  A verdict is derived at every use and stored   *)
(* nowhere.  The free text of a note (holder, grant, scope, reason,        *)
(* disclosure) never decides, so a note here is its three typed axes and   *)
(* the last day of the consent.                                            *)
(***************************************************************************)
EXTENDS Integers

CONSTANTS
    LastDay,   \* the calendar is the days 0 .. LastDay
    NoNote,    \* a source nobody recorded a note for
    Open       \* a consent without an end

ASSUME RightsAssumption == /\ LastDay \in Nat
                           /\ Open \notin 0 .. LastDay

Day == 0 .. LastDay

Ownership == {"creator_owned", "third_party", "archive_only", "undetermined"}
Licence   == {"granted", "absent", "undetermined"}

\* Consent is granted until a day or open-ended, refused, not required, or
\* undetermined; only a granted consent has an end.
Consent == [is : {"granted"}, until : Day \union {Open}]
             \union [is : {"refused", "not_required", "undetermined"}, until : {Open}]

Note == [ownership : Ownership, licence : Licence, consent : Consent]

OwnershipVerdict(o) ==
  CASE o \in {"creator_owned", "third_party"} -> "permit"
    [] o = "archive_only"                     -> "block"
    [] o = "undetermined"                     -> "undecided"

LicenceVerdict(l) ==
  CASE l = "granted"      -> "permit"
    [] l = "absent"       -> "block"
    [] l = "undetermined" -> "undecided"

\* The consent still holds on its last day, and lapses into "undecided" the
\* day after: a stale grant is a question again, not a refusal.
Lapsed(c, asOf) == c.until # Open /\ asOf > c.until

ConsentVerdict(c, asOf) ==
  CASE c.is = "granted"      -> IF Lapsed(c, asOf) THEN "undecided" ELSE "permit"
    [] c.is = "refused"      -> "block"
    [] c.is = "not_required" -> "permit"
    [] c.is = "undetermined" -> "undecided"

\* Nothing is known of a source without a note: every axis is undecided.
Verdicts(note, asOf) ==
  IF note = NoNote
  THEN {"undecided"}
  ELSE { OwnershipVerdict(note.ownership),
         LicenceVerdict(note.licence),
         ConsentVerdict(note.consent, asOf) }

\* A refusal outranks an axis nobody decided, and only three permits publish.
Eligibility(note, asOf) ==
  CASE "block" \in Verdicts(note, asOf)   -> "refused"
    [] "block" \notin Verdicts(note, asOf) /\ "undecided" \in Verdicts(note, asOf)
                                          -> "undetermined"
    [] Verdicts(note, asOf) = {"permit"}  -> "publishable"

\* A set of sources clears the gate when each of them does; the empty set
\* clears it.
IsPublishable(notes, sources, asOf) ==
  \A s \in sources : Eligibility(notes[s], asOf) = "publishable"
=============================================================================
