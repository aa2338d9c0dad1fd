--------------------------- MODULE GateDiscovery ---------------------------
(***************************************************************************)
(* How the gates of the gobang cluster learn which service runs where and  *)
(* whether it is online (src/gobang/gate_master/gate_master.cpp and        *)
(* src/gobang/gate/{master_connector,local_listener,remote_gate,gate}.cpp).*)
(*                                                                         *)
(* A service process links itself to the gate of its machine; the gate     *)
(* asks the gate master, over its own TCP connection, whether the service  *)
(* may be added, and the master publishes every change to the other gates. *)
(* A connection <<g, k>> is the k-th one gate g makes; a link n of (g, s)  *)
(* is the n-th connection of the process of service s to gate g.           *)
(***************************************************************************)
EXTENDS Naturals, Sequences, FiniteSets, Functions

CONSTANTS
    Gates, Services,  \* gate ids, ids of the other services
    MaxConn,          \* bound on the connections each gate makes
    MaxLinks,         \* bound on the links the process of each pair makes
    MaxFaults,        \* bound on lost connections and links, timeouts, restarts
    None

ASSUME DiscoveryAssumption ==
    /\ MaxConn \in [Gates -> Nat] /\ MaxLinks \in [Gates \X Services -> Nat]
    /\ MaxFaults \in Nat
    /\ Cardinality(Services) \in Nat /\ None \notin Gates

VARIABLES
    \* gate master
    mSock,       \* gates_[g].socket, 0 when not connected
    mOwner,      \* services_[s].gate, None when s is unknown
    mOnline,     \* services_[s].online
    sockets,     \* keys of sockets_: connections whose socket_start runs
    bound,       \* connections whose socket_data::data points to their gate
    \* TCP connections between gates and the master
    open,        \* connections no side has closed and the network still carries
    up, down,    \* bytes in flight to the master, to the gate
    \* gates
    conn,        \* connections made so far
    sock,        \* master_connector::socket_
    reg,         \* where master_connector::run is
    home,        \* gate::services_: the gate that serves s, None when unknown
    ron,         \* online of a remote_service
    objs,        \* local_listener::services_, the entries with id s in order
    \* links of service processes
    nlink,       \* links made so far
    lstate,      \* what became of the register request of a link
    ended,       \* links whose socket_start has returned (socket_ptr->socket = 0)
    att,         \* socket_ptr->service, as an index of objs, 0 for null
    \* history
    faults,      \* faults so far
    mRestarted,  \* the master has restarted
    superseded   \* gates that registered while an older connection was theirs

mvars == <<mSock, mOwner, mOnline, sockets, bound, superseded>>
nvars == <<open, up, down>>
gvars == <<conn, sock, reg, home, ron, objs>>
lvars == <<nlink, lstate, ended, att>>
hvars == <<faults, mRestarted>>
vars == <<mvars, nvars, gvars, lvars, hvars>>

Processes == Gates \X Services
Conns == UNION {{g} \X (1..MaxConn[g]) : g \in Gates}
Links == {k + 1 : k \in UNION {0..MaxLinks[p] - 1 : p \in Processes}}

\* What a register or an upload says of a service: not mentioned, or its flag.
Flag(b) == IF b THEN "on" ELSE "off"
Reports == [Services -> {"none", "on", "off"}]
\* What the master tells a gate of a service: not mentioned, or gate and flag.
Infos == [Services -> {None} \cup (Gates \X BOOLEAN)]

UpMsgs == [kind : {"register", "update"}, svc : Reports, id : Services \cup {None}, link : Links \cup {0}]
DownMsgs == [kind : {"ack", "brd", "uack"}, ok : BOOLEAN, svc : Infos, id : Services \cup {None}, link : Links \cup {0}]

NoInfo == [s \in Services |-> None]
Register(svc) == [kind |-> "register", svc |-> svc, id |-> None, link |-> 0]
\* s_service_update_req; link 0 when no coroutine of local_listener waits for
\* the answer (update_service drops it; it is not modelled).
Update(s, on, n) ==
    [kind |-> "update", svc |-> [t \in Services |-> IF t = s THEN Flag(on) ELSE "none"],
     id |-> s, link |-> n]
Ack(ok, svc) == [kind |-> "ack", ok |-> ok, svc |-> svc, id |-> None, link |-> 0]
Brd(svc) == [kind |-> "brd", ok |-> TRUE, svc |-> svc, id |-> None, link |-> 0]
UpdateAck(ok, s, n) == [kind |-> "uack", ok |-> ok, svc |-> NoInfo, id |-> s, link |-> n]

TypeOK ==
    /\ \A g \in Gates : mSock[g] \in 0..conn[g] /\ conn[g] \in 0..MaxConn[g]
    /\ mOwner \in [Services -> Gates \cup {None}] /\ mOnline \in [Services -> BOOLEAN]
    /\ sockets \subseteq Conns /\ bound \subseteq sockets /\ open \subseteq Conns
    /\ \A c \in Conns : /\ \A i \in DOMAIN up[c] : up[c][i] \in UpMsgs
                        /\ \A i \in DOMAIN down[c] : down[c][i] \in DownMsgs
    /\ \A g \in Gates : /\ sock[g] \in {0, conn[g]}
                        /\ reg[g] \in {"down", "registering", "ready"}
                        /\ (sock[g] = 0) = (reg[g] = "down")
                        /\ mSock[g] # 0 => <<g, mSock[g]>> \in bound
    /\ home \in [Gates -> [Services -> Gates \cup {None}]]
    /\ ron \in [Gates -> [Services -> BOOLEAN]]
    /\ \A p \in Processes :
        /\ \A i \in DOMAIN objs[p] : objs[p][i] \in [sock : Links \cup {0}, on : BOOLEAN]
        /\ nlink[p] \in Links \cup {0} /\ ended[p] \subseteq 1..nlink[p]
        /\ lstate[p] \in [Links -> {"none", "asked", "upload", "done"}]
        /\ att[p] \in [Links -> 0..Len(objs[p])]
    /\ superseded \subseteq Gates
    /\ faults \in 0..MaxFaults /\ mRestarted \in BOOLEAN

Init ==
    /\ mSock = [g \in Gates |-> 0]
    /\ mOwner = [s \in Services |-> None] /\ mOnline = [s \in Services |-> FALSE]
    /\ sockets = {} /\ bound = {} /\ open = {}
    /\ up = [c \in Conns |-> <<>>] /\ down = [c \in Conns |-> <<>>]
    /\ conn = [g \in Gates |-> 0] /\ sock = [g \in Gates |-> 0]
    /\ reg = [g \in Gates |-> "down"]
    /\ home = [g \in Gates |-> [s \in Services |-> None]]
    /\ ron = [g \in Gates |-> [s \in Services |-> FALSE]]
    /\ objs = [p \in Processes |-> <<>>]
    /\ nlink = [p \in Processes |-> 0]
    /\ lstate = [p \in Processes |-> [n \in Links |-> "none"]]
    /\ ended = [p \in Processes |-> {}]
    /\ att = [p \in Processes |-> [n \in Links |-> 0]]
    /\ superseded = {} /\ faults = 0 /\ mRestarted = FALSE

\* One more of the faults the bound allows.
Fault == faults < MaxFaults /\ faults' = faults + 1

-----------------------------------------------------------------------------
(* The gate master *)

\* gate_master::check_services: no service of the report is another gate's.
CheckServices(svc, g) == \A s \in Services : svc[s] # "none" => mOwner[s] \in {None, g}

\* gate_master::add_services: a known service only changes its flag.
AddServices(svc, g) ==
    /\ mOwner' = [s \in Services |->
                    IF svc[s] # "none" /\ mOwner[s] = None THEN g ELSE mOwner[s]]
    /\ mOnline' = [s \in Services |->
                    IF svc[s] # "none" THEN svc[s] = "on" ELSE mOnline[s]]

\* add_gate_info for the gates of a set, from the state after the step.
GateInfo(gs) == [s \in Services |-> IF mOwner'[s] \in gs THEN <<mOwner'[s], mOnline'[s]>> ELSE None]

\* network.write of the master: nobody reads what goes to a connection that
\* its gate has left or that the network no longer carries.
Wrote(d, c, m) == IF c \in open /\ sock[c[1]] = c[2] THEN [d EXCEPT ![c] = Append(@, m)] ELSE d

\* gate_master::publish: every other connected gate gets the services of g.
Publish(d, g) ==
    [c \in Conns |->
        IF c[1] # g /\ mSock'[c[1]] = c[2] THEN Wrote(d, c, Brd(GateInfo({g})))[c] ELSE d[c]]

\* gate_master::send of an answer; update_service waits for its answer only to
\* end, so that one is left out.
Answered(d, c, m) == IF m.kind = "uack" /\ m.link = 0 THEN d ELSE Wrote(d, c, m)

\* The answer to the requester, then the broadcast to the others.
AnswerAndPublish(c, answer) == down' = Publish(Answered(down, c, answer), c[1])

\* gate_master::gate_register. The previous connection is closed only when
\* this connection was bound before; a new connection of a known gate is not.
GateRegister(c, m) ==
    LET g == c[1]
        old == <<g, mSock[g]>>
        close == IF c \in bound /\ old # c THEN {old} \cap sockets ELSE {}
    IN IF CheckServices(m.svc, g)
       THEN /\ mSock' = [mSock EXCEPT ![g] = c[2]]
            /\ bound' = (bound \ close) \cup {c}
            /\ open' = open \ close
            /\ superseded' = IF mSock[g] \in {0, c[2]} THEN superseded ELSE superseded \cup {g}
            /\ AddServices(m.svc, g)
            /\ AnswerAndPublish(c, Ack(TRUE, GateInfo(Gates \ {g})))
       ELSE /\ down' = Wrote(down, c, Ack(FALSE, NoInfo))
            /\ UNCHANGED <<mSock, mOwner, mOnline, bound, open, superseded>>

\* gate_master::gate_upload
GateUpload(c, m) ==
    /\ IF c \in bound /\ CheckServices(m.svc, c[1])
       THEN AddServices(m.svc, c[1]) /\ UNCHANGED mSock /\ AnswerAndPublish(c, UpdateAck(TRUE, m.id, m.link))
       ELSE down' = Answered(down, c, UpdateAck(FALSE, m.id, m.link)) /\ UNCHANGED <<mSock, mOwner, mOnline>>
    /\ UNCHANGED <<bound, open, superseded>>

\* One turn of the loop of gate_master::socket_start: what has arrived is
\* still read after the connection is lost.
MasterRecv(c) ==
    /\ c \in sockets /\ up[c] # <<>>
    /\ up' = [up EXCEPT ![c] = Tail(@)]
    /\ IF Head(up[c]).kind = "register" THEN GateRegister(c, Head(up[c])) ELSE GateUpload(c, Head(up[c]))
    /\ UNCHANGED <<sockets, gvars, lvars, hvars>>

\* Mutant: the services go offline, and nobody is told.
DisconnectUnpublished(g) ==
    /\ mSock' = [mSock EXCEPT ![g] = 0]
    /\ mOnline' = [s \in Services |-> IF mOwner[s] = g THEN FALSE ELSE mOnline[s]]
    /\ UNCHANGED <<mOwner, down>>

\* gate_master::gate_disconnect
GateDisconnect(g) ==
    /\ mSock' = [mSock EXCEPT ![g] = 0]
    /\ mOnline' = [s \in Services |-> IF mOwner[s] = g THEN FALSE ELSE mOnline[s]]
    /\ UNCHANGED mOwner
    /\ down' = Publish(down, g)

\* The loop of gate_master::socket_start ends: only the gate's own connection
\* takes its services offline.
MasterLost(c) ==
    /\ c \in sockets \ open
    /\ sockets' = sockets \ {c} /\ bound' = bound \ {c}
    /\ up' = [up EXCEPT ![c] = <<>>]
    /\ IF c \in bound /\ mSock[c[1]] = c[2]
       THEN GateDisconnect(c[1])
       ELSE UNCHANGED <<mSock, mOwner, mOnline, down>>
    /\ UNCHANGED <<open, superseded, gvars, lvars, hvars>>

\* The master process ends and starts again with empty tables.
MasterRestart ==
    /\ Fault /\ mRestarted' = TRUE
    /\ mSock' = [g \in Gates |-> 0]
    /\ mOwner' = [s \in Services |-> None] /\ mOnline' = [s \in Services |-> FALSE]
    /\ sockets' = {} /\ bound' = {} /\ open' = {}
    /\ up' = [c \in Conns |-> <<>>]
    /\ UNCHANGED <<superseded, down, gvars, lvars>>

-----------------------------------------------------------------------------
(* A gate and its connection to the master *)

\* master_connector::upload: the requests of a step, when there is a socket.
Upload(g, ms) ==
    LET c == <<g, sock[g]>>
    IN up' = IF sock[g] # 0 /\ c \in open THEN [up EXCEPT ![c] = @ \o ms] ELSE up

\* Close of the gate's socket by master_connector::run.
Hangup(g) ==
    /\ open' = open \ {<<g, sock[g]>>}
    /\ down' = [down EXCEPT ![<<g, sock[g]>>] = <<>>]
    /\ sock' = [sock EXCEPT ![g] = 0]
    /\ reg' = [reg EXCEPT ![g] = "down"]

\* local_services, as to_proto writes them: of entries with one id the master
\* keeps the last.
LocalServices(g) ==
    [s \in Services |->
        LET entries == objs[<<g, s>>]
        IN IF entries = <<>> THEN "none" ELSE Flag(entries[Len(entries)].on)]

\* tcp_connect succeeds and register_to_master sends its request.
Connect(g) ==
    LET c == <<g, conn[g] + 1>>
    IN /\ reg[g] = "down" /\ conn[g] < MaxConn[g]
       /\ conn' = [conn EXCEPT ![g] = @ + 1]
       /\ sock' = [sock EXCEPT ![g] = conn[g] + 1]
       /\ reg' = [reg EXCEPT ![g] = "registering"]
       /\ open' = open \cup {c} /\ sockets' = sockets \cup {c}
       /\ up' = [up EXCEPT ![c] = <<Register(LocalServices(g))>>]
       /\ UNCHANGED <<mSock, mOwner, mOnline, bound, superseded, down, home, ron, objs, lvars, hvars>>

\* remote_gate::add_remote_service: an entry that exists, a local one too,
\* takes the flag.
AddRemoteServices(g, svc) ==
    LET told == {s \in Services : svc[s] # None}
    IN /\ home' = [home EXCEPT ![g] = [s \in Services |->
                     IF s \in told /\ @[s] = None THEN svc[s][1] ELSE @[s]]]
       /\ ron' = [ron EXCEPT ![g] = [s \in Services |->
                     IF s \in told /\ home[g][s] # g THEN svc[s][2] ELSE @[s]]]
       /\ objs' = [p \in Processes |->
                     IF p[1] = g /\ p[2] \in told /\ home[g][p[2]] = g
                     THEN [objs[p] EXCEPT ![1].on = svc[p[2]][2]] ELSE objs[p]]

\* master_connector::add_remote_gate; the update event of an entry of this
\* gate sends the flag back to the master (update_service), in the order of
\* the message.
AddRemoteGates(g, svc) ==
    LET mine == {s \in Services : svc[s] # None /\ home[g][s] = g}
    IN /\ AddRemoteServices(g, svc)
       /\ \E own \in UNION {Bijection(1..n, mine) : n \in 0..Cardinality(Services)} :
             Upload(g, [i \in DOMAIN own |-> Update(own[i], svc[own[i]][2], 0)])

\* recv_one_message and the end of register_to_master: the first message of a
\* connection is taken for the answer to the registration.
RecvRegisterAck(g) ==
    LET c == <<g, sock[g]>>
    IN /\ reg[g] = "registering" /\ down[c] # <<>> /\ Head(down[c]).kind = "ack"
       /\ IF Head(down[c]).ok
          THEN /\ reg' = [reg EXCEPT ![g] = "ready"]
               /\ down' = [down EXCEPT ![c] = Tail(@)]
               /\ AddRemoteGates(g, Head(down[c]).svc)
               /\ UNCHANGED <<sock, open>>
          ELSE Hangup(g) /\ UNCHANGED <<home, ron, objs, up>>
       /\ UNCHANGED <<mvars, conn, lvars, hvars>>

\* The 5 s of master_connector::run are over before the answer.
RegisterTimeout(g) ==
    /\ Fault
    /\ reg[g] = "registering"
    /\ Hangup(g)
    /\ UNCHANGED <<mvars, up, conn, home, ron, objs, lvars, mRestarted>>

\* master_connector::forward_message
RecvBroadcast(g) ==
    LET c == <<g, sock[g]>>
    IN /\ reg[g] = "ready" /\ down[c] # <<>> /\ Head(down[c]).kind = "brd"
       /\ down' = [down EXCEPT ![c] = Tail(@)]
       /\ AddRemoteGates(g, Head(down[c]).svc)
       /\ UNCHANGED <<mvars, open, conn, sock, reg, lvars, hvars>>

\* The receive loop of master_connector::run ends with an exception.
GateLost(g) ==
    /\ reg[g] = "ready" /\ <<g, sock[g]>> \notin open
    /\ Hangup(g)
    /\ UNCHANGED <<mvars, up, conn, home, ron, objs, lvars, hvars>>

\* The network, a ping timeout (auto_ping) or socket_check ends a connection.
Cut(c) ==
    /\ Fault
    /\ c \in open
    /\ open' = open \ {c}
    /\ UNCHANGED <<mvars, up, down, gvars, lvars, mRestarted>>

\* The gate process ends and starts again: its tables are empty, its
\* connection and the links of its machine's services are gone.
GateRestart(g) ==
    LET mine == {p \in Processes : p[1] = g}
    IN /\ Fault
       /\ open' = {c \in open : c[1] # g}
       /\ down' = [c \in Conns |-> IF c[1] = g THEN <<>> ELSE down[c]]
       /\ sock' = [sock EXCEPT ![g] = 0] /\ reg' = [reg EXCEPT ![g] = "down"]
       /\ home' = [home EXCEPT ![g] = [s \in Services |-> None]]
       /\ ron' = [ron EXCEPT ![g] = [s \in Services |-> FALSE]]
       /\ objs' = [p \in Processes |-> IF p \in mine THEN <<>> ELSE objs[p]]
       /\ ended' = [p \in Processes |-> IF p \in mine THEN 1..nlink[p] ELSE ended[p]]
       /\ lstate' = [p \in Processes |->
                       IF p \in mine THEN [n \in Links |-> IF n <= nlink[p] THEN "done" ELSE "none"] ELSE lstate[p]]
       /\ att' = [p \in Processes |-> IF p \in mine THEN [n \in Links |-> 0] ELSE att[p]]
       /\ UNCHANGED <<mvars, up, conn, nlink, mRestarted>>

-----------------------------------------------------------------------------
(* Service processes and local_listener; p is <<gate, service>> *)

\* A process connects to the gate of its machine and asks to be registered; it
\* has ended or given up its last link, which the gate may not know yet.
LinkOpen(p) ==
    /\ nlink[p] < MaxLinks[p]
    /\ nlink' = [nlink EXCEPT ![p] = @ + 1]
    /\ lstate' = [lstate EXCEPT ![p][nlink[p] + 1] = "asked"]
    /\ IF nlink[p] = 0 \/ nlink[p] \in ended[p] THEN UNCHANGED faults ELSE Fault
    /\ UNCHANGED <<mvars, nvars, gvars, ended, att, mRestarted>>

\* The end of service_register: the entry takes the socket of the link, which
\* is 0 once the link has ended, and is online.
Attach(p, n, entries, i) ==
    /\ objs' = [objs EXCEPT ![p] = [entries EXCEPT ![i] =
                   [sock |-> IF n \in ended[p] THEN 0 ELSE n, on |-> TRUE]]]
    /\ att' = [att EXCEPT ![p][n] = i]
    /\ lstate' = [lstate EXCEPT ![p][n] = "done"]
    /\ Upload(p[1], <<Update(p[2], TRUE, 0)>>)

\* local_listener::add_local_service and gate::emplace_service: the new entry
\* is the one find_service returns only if there was none.
AddLocalService(p, n) ==
    LET entries == Append(objs[p], [sock |-> 0, on |-> FALSE])
    IN /\ home' = IF home[p[1]][p[2]] = None THEN [home EXCEPT ![p[1]][p[2]] = p[1]] ELSE home
       /\ Attach(p, n, entries, Len(entries))

\* Mutant: without a connection to the master the service is added unasked.
ServiceRegisterAlone(p, n) ==
    LET g == p[1]
        s == p[2]
    IN /\ lstate[p][n] = "asked" /\ n \notin ended[p]
       /\ \/ /\ home[g][s] = None /\ sock[g] # 0
             /\ Upload(g, <<Update(s, FALSE, n)>>)
             /\ lstate' = [lstate EXCEPT ![p][n] = "upload"]
             /\ UNCHANGED <<home, objs, att>>
          \/ /\ home[g][s] = None /\ sock[g] = 0
             /\ AddLocalService(p, n)
          \/ /\ home[g][s] = g
             /\ Attach(p, n, objs[p], 1) /\ UNCHANGED home
          \/ /\ home[g][s] \notin {None, g}
             /\ lstate' = [lstate EXCEPT ![p][n] = "done"]
             /\ UNCHANGED <<up, home, objs, att>>
       /\ UNCHANGED <<mvars, open, down, conn, sock, reg, ron, nlink, ended, hvars>>

\* local_listener::service_register up to its first suspension.
ServiceRegister(p, n) ==
    LET g == p[1]
        s == p[2]
    IN /\ lstate[p][n] = "asked" /\ n \notin ended[p]
       /\ \/ /\ home[g][s] = None /\ sock[g] # 0
             /\ Upload(g, <<Update(s, FALSE, n)>>)
             /\ lstate' = [lstate EXCEPT ![p][n] = "upload"]
             /\ UNCHANGED <<objs, att>>
          \/ /\ home[g][s] = g
             /\ Attach(p, n, objs[p], 1)
          \/ /\ home[g][s] # g /\ (home[g][s] = None => sock[g] = 0)
             /\ lstate' = [lstate EXCEPT ![p][n] = "done"]
             /\ UNCHANGED <<up, objs, att>>
       /\ UNCHANGED <<mvars, open, down, conn, sock, reg, home, ron, nlink, ended, hvars>>

\* Mutant: the master's refusal is not looked at.
AckedUnchecked(p, n, ok) == AddLocalService(p, n)

\* service_register after its co_await.
Acked(p, n, ok) ==
    \/ ok /\ AddLocalService(p, n)
    \/ /\ ~ok
       /\ lstate' = [lstate EXCEPT ![p][n] = "done"]
       /\ UNCHANGED <<home, objs, att, up>>

\* The answer to an upload wakes the coroutine of the link, if it still waits.
RecvUpdateAck(g) ==
    LET c == <<g, sock[g]>>
        m == Head(down[c])
        p == <<g, m.id>>
    IN /\ reg[g] = "ready" /\ down[c] # <<>> /\ m.kind = "uack"
       /\ down' = [down EXCEPT ![c] = Tail(@)]
       /\ IF lstate[p][m.link] = "upload"
          THEN Acked(p, m.link, m.ok)
          ELSE UNCHANGED <<home, objs, att, lstate, up>>
       /\ UNCHANGED <<mvars, open, conn, sock, reg, ron, nlink, ended, hvars>>

\* The 5 s of service_register are over before the answer.
UploadTimeout(p, n) ==
    /\ Fault
    /\ lstate[p][n] = "upload"
    /\ lstate' = [lstate EXCEPT ![p][n] = "done"]
    /\ UNCHANGED <<mvars, nvars, gvars, nlink, ended, att, mRestarted>>

\* local_listener::socket_start after its loop: the entry goes offline when
\* its socket is still this link's.
LinkLost(p, n) ==
    LET i == att[p][n]
    IN /\ n <= nlink[p] /\ n \notin ended[p]
       /\ lstate[p][n] = "done" => i # 0
       /\ IF n = nlink[p] THEN Fault ELSE UNCHANGED faults
       /\ ended' = [ended EXCEPT ![p] = @ \cup {n}]
       /\ att' = [att EXCEPT ![p][n] = 0]
       /\ lstate' = [lstate EXCEPT ![p][n] = IF @ = "asked" THEN "done" ELSE @]
       /\ IF i # 0 /\ objs[p][i].sock = n
          THEN /\ objs' = [objs EXCEPT ![p][i] = [sock |-> 0, on |-> FALSE]]
               /\ Upload(p[1], <<Update(p[2], FALSE, 0)>>)
          ELSE UNCHANGED <<objs, up>>
       /\ UNCHANGED <<mvars, open, down, conn, sock, reg, home, ron, nlink, mRestarted>>

-----------------------------------------------------------------------------
Next ==
    \/ MasterRestart
    \/ \E c \in Conns : MasterRecv(c) \/ MasterLost(c) \/ Cut(c)
    \/ \E g \in Gates : \/ Connect(g) \/ RecvRegisterAck(g) \/ RegisterTimeout(g)
                        \/ RecvBroadcast(g) \/ RecvUpdateAck(g) \/ GateLost(g) \/ GateRestart(g)
    \/ \E p \in Processes : \/ LinkOpen(p)
                            \/ \E n \in Links : ServiceRegister(p, n) \/ UploadTimeout(p, n) \/ LinkLost(p, n)

Spec == Init /\ [][Next]_vars

-----------------------------------------------------------------------------
(* Correctness *)

\* What gate g's table says of s is online (find_service(s)->online).
SeenOnline(g, s) == IF home[g][s] = g THEN objs[<<g, s>>][1].on ELSE ron[g][s]

\* However processes, gates and answers interleave, a service id is served by
\* one gate only, as long as the master keeps its tables.
OneHome ==
    /\ TypeOK
    /\ ~mRestarted =>
        \A s \in Services, g, h \in Gates : objs[<<g, s>>] # <<>> /\ objs[<<h, s>>] # <<>> => g = h

\* While the master holds the connection a gate uses, it has every service the
\* gate serves in that gate's name: also after either of them restarted, and
\* for answers that come late.  And, as the comment of recv_one_message says,
\* the first message a gate gets on a connection is the answer to its
\* registration, whatever the master publishes meanwhile; were it another one,
\* that message would be dropped and the registration time out.
RegisteredAgree ==
    \A g \in Gates :
        /\ reg[g] = "ready" /\ mSock[g] = sock[g] =>
               \A s \in Services : objs[<<g, s>>] # <<>> => mOwner[s] = g
        /\ reg[g] = "registering" /\ down[<<g, sock[g]>>] # <<>>
               => Head(down[<<g, sock[g]>>]).kind = "ack"

\* Nothing of gate g is on its way: it is registered over an open connection
\* or has none, the master has forgotten its older ones, and no message waits.
Settled(g) ==
    LET mine == {c \in sockets : c[1] = g}
    IN /\ \/ reg[g] = "down" /\ mine = {}
          \/ reg[g] = "ready" /\ mine = {<<g, sock[g]>>} /\ mine \subseteq open
       /\ \A c \in mine : up[c] = <<>> /\ down[c] = <<>>

\* When nothing is on its way, every connected gate sees a service as the
\* master has it, and the master has it as the gate that serves it, offline
\* when that gate is gone: no update is lost to a reconnect, a restart or the
\* order of messages. It is claimed of services with one entry at their gate,
\* and of gates that never registered while the master still held another
\* connection of theirs (gate_register then keeps what came over that one).
Converged ==
    (\A g \in Gates : Settled(g)) => \A s \in Services, g \in Gates :
        mOwner[s] # None /\ {g, mOwner[s]} \cap superseded = {} =>
            IF g = mOwner[s]
            THEN Len(objs[<<g, s>>]) <= 1 =>
                    mOnline[s] = (reg[g] = "ready" /\ home[g][s] = g /\ SeenOnline(g, s))
            ELSE reg[g] = "ready" => home[g][s] # None /\ SeenOnline(g, s) = mOnline[s]
=============================================================================
