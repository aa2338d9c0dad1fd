---------------------------- MODULE MCShmSelect -----------------------------
(***************************************************************************)
(* ShmSelect for TLC: messages of one and two units over rings of two, so  *)
(* that a message finds room, finds too little of it or finds none.        *)
(***************************************************************************)
EXTENDS ShmSelect

Costs == [p \in {"gate", "service"} |-> [m \in 1..Messages |-> IF m = 2 THEN 2 ELSE 1]]
=============================================================================
