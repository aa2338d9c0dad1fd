----------------------------- MODULE MCShmRing ------------------------------
(* Instances of ShmRing for TLC. *)
EXTENDS ShmRing, TLC

CONSTANTS a, b, e

\* Two messages and an empty one.  With a prefix of 2 in a ring of 7 bytes a
\* and b together leave one byte, and prefix and payload both get split.
Lengths013 == e :> 0 @@ a :> 1 @@ b :> 3
=============================================================================
