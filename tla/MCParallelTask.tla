--------------------------- MODULE MCParallelTask ---------------------------
(* Instances of ParallelTask for TLC. *)
EXTENDS ParallelTask, TLC

CONSTANTS top, pair, leaf, in1, in2

\* (in1 && in2) || leaf and its like, with every combination of wait types.
TwoLevels ==
    top :> <<pair, leaf>> @@ pair :> <<in1, in2>> @@ leaf :> <<>>
        @@ in1 :> <<>> @@ in2 :> <<>>
=============================================================================
