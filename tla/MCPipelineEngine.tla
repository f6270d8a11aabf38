-------------------------- MODULE MCPipelineEngine --------------------------
(* Instance of PipelineEngine for TLC: two stages that may run together    *)
(* and one that waits for both, beside a second run of one stage.  A third *)
(* pipeline has dangling inputs.  "a" and "d" declare two locks in         *)
(* opposite orders; "b" and "d" each take both permits of a third, which   *)
(* lets each get one and wait for the other.                               *)
EXTENDS PipelineEngine, TLC

CONSTANTS p1, p2, p3

MCGraph    == (p1 :> {"a", "b", "c"}) @@ (p2 :> {"d"}) @@ (p3 :> {"c"})
MCInputs   == [s \in Stages |-> IF s = "c" THEN {"a", "b"} ELSE {}]
MCRequires == [s \in Stages |-> CASE s = "a" -> <<"disk", "file">>
                                  [] s = "b" -> <<"cpu", "cpu">>
                                  [] s = "d" -> <<"file", "cpu", "disk", "cpu">>
                                  [] OTHER -> <<>>]
MCRank     == [l \in Locks |-> CASE l = "cpu" -> 0 [] l = "disk" -> 1 [] l = "file" -> 2]
MCCapacity == [l \in Locks |-> IF l = "cpu" THEN 2 ELSE 1]
MCAttempts == [s \in Stages |-> IF s = "a" THEN 2 ELSE 1]

\* Runs of different subjects.
MCSubjects == [p \in Pipelines |-> p]
=============================================================================
