--------------------------- MODULE MCPlayerSession --------------------------
(***************************************************************************)
(* The player's session for TLC.  The client of the repository plays two   *)
(* games over one connection, or loses its connection and makes another,   *)
(* or pings, or is kicked; or a client that does not wait sends three      *)
(* messages, at any time.                                                  *)
(***************************************************************************)
EXTENDS PlayerSession

Budget(p, c, r, pi, m, ki) ==
    [prog |-> p, conns |-> c, requests |-> r, pings |-> pi, moves |-> m, kicks |-> ki]

MCBudgets ==
    {Budget("game", 1, 7, 0, 3, 0), Budget("game", 2, 4, 0, 1, 0), Budget("game", 1, 4, 1, 1, 0),
     Budget("game", 1, 4, 0, 1, 1), Budget("eager", 1, 3, 0, 0, 1)}
=============================================================================
