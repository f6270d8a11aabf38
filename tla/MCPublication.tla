--------------------------- MODULE MCPublication ---------------------------
(***************************************************************************)
(* Small instances of Publication for TLC.                                 *)
(***************************************************************************)
EXTENDS Publication, TLC

CONSTANTS cut, recut, talk

\* The first cut uses no source anybody has to clear, the second one does.
MCSourcesOf == [c \in {cut, recut} |-> IF c = cut THEN {} ELSE {talk}]

\* A consent that ends on the first day: the clearance goes by lapsing.
Until0 == [ownership |-> "third_party", licence |-> "granted",
           consent |-> [is |-> "granted", until |-> 0]]
MCRecordable == {Until0}

\* A call for one of the two states that ask for something brings it or forgets it.
MCOffers == [to \in PublicationState |->
               IF to \in {"scheduled", "published"} THEN {{}, Facts} ELSE {{}}]

Perms == Permutations(Connections)
=============================================================================
