------------------------------- MODULE ShmFifo ------------------------------
(***************************************************************************)
(* What one direction of a shm_channel promises: the peer gets the         *)
(* messages that were written, whole, once and in order.                   *)
(***************************************************************************)
EXTENDS Sequences

CONSTANTS Messages, None

VARIABLES
    chan,       \* messages written and not yet read
    got         \* the last message handed to the reader

vars == <<chan, got>>

Init == chan = <<>> /\ got = None

Send(m) == chan' = Append(chan, m) /\ UNCHANGED got

Receive == chan # <<>> /\ got' = Head(chan) /\ chan' = Tail(chan)

Next == Receive \/ \E m \in Messages : Send(m)

Spec == Init /\ [][Next]_vars
=============================================================================
