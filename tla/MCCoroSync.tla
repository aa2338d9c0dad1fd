---------------------------- MODULE MCCoroSync ------------------------------
(* Instances of CoroSync for TLC. *)
EXTENDS CoroSync, TLC

CONSTANTS c1, c2, c3, t1

\* c1 and c2 share a token, c3 cannot be cancelled.
OneToken == c1 :> t1 @@ c2 :> t1 @@ c3 :> None
=============================================================================
