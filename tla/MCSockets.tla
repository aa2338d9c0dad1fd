----------------------------- MODULE MCSockets -----------------------------
(***************************************************************************)
(* Sockets for TLC.  What a cancellation does and how data is cut into     *)
(* reads does not depend on the protocol: tcp has a cancelled coroutine    *)
(* and enough units for a frame, ssl and kcp get one unit and no           *)
(* cancellation.                                                           *)
(***************************************************************************)
EXTENDS Sockets

AllProtocols == {"tcp", "ssl", "kcp"}
Units ==
    [p \in AllProtocols |->
        [s \in {"client", "session"} |->
            IF s = "session" THEN 0 ELSE IF p = "tcp" THEN 2 ELSE 1]]
Cancels == [p \in AllProtocols |-> IF p = "tcp" THEN 1 ELSE 0]
=============================================================================
