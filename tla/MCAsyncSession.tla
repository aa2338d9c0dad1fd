--------------------------- MODULE MCAsyncSession ---------------------------
(* Instances of AsyncSession for TLC. *)
EXTENDS AsyncSession, TLC

CONSTANTS c1, c2, w1, w2
=============================================================================
