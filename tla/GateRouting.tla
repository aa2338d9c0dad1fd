---------------------------- MODULE GateRouting -----------------------------
(***************************************************************************)
(* How a message of a service gets to another one through the gates, and   *)
(* how the service knows whom it may address: gate_connector::{run,        *)
(* subscribe, rand_subscribe} in the service, local_listener, gate::       *)
(* forward, remote_gate in its gate "a", remote_listener in the other gate *)
(* "b" (src/gobang/kernel, src/gobang/gate).                               *)
(*                                                                         *)
(* The one sender was registered at "a" before (GateDiscovery is about the *)
(* first time), and starts.  Its n-th TCP connection to "a" is link n; the *)
(* k-th connection of "a" to "b" is wire k.  The shared-memory channels    *)
(* are queues (ShmSelect).  A message is its number and its destination; a *)
(* message is delivered once the gate of its destination wrote it to the   *)
(* channel.                                                                *)
(***************************************************************************)
EXTENDS Naturals, Sequences, Functions

CONSTANTS
    Services,    \* destinations
    Home,        \* the gate of each
    Login,       \* those of the type the sender subscribes to (st_login)
    Configured,  \* those whose id the sender has from its configuration
    Addresses,   \* how many addresses the gate "b" has
    Budgets,     \* bounds of a behaviour: services that start, messages sent,
                 \* lost links, lost wires, changes of a service, outages
    None

Gates == {"a", "b"}

ASSUME RoutingAssumption ==
    /\ Home \in [Services -> Gates] /\ Login \subseteq Services /\ Configured \subseteq Services
    /\ Addresses \in Nat \ {0}
    /\ Budgets \subseteq [start : SUBSET Services, sends : Nat, links : Nat, wires : Nat,
                          changes : Nat, outages : Nat]

VARIABLES
    \* gate_connector of the sender
    sock,       \* socket_
    phase,      \* where run is
    task,       \* per link the coroutine subscribe of its registration
    view,       \* subscribes_[st_login]: online flag, None when not listed
    channel,    \* channel_ has been created
    out,        \* send_queue_ and the ring to the gate
    \* links, numbered from 1
    nlink, open,   \* made so far, those nobody has ended
    up, down,      \* bytes to the gate, to the sender
    \* local_listener of "a"
    alive,      \* links whose socket_start runs
    reg,        \* those with socket_ptr->service set
    owner,      \* local_service::socket of the sender's entry
    subs,       \* subscribe_infos_[st_login]
    wants,      \* links whose socket_ptr->subscribe has st_login
    \* the tables of the gates
    known,      \* per gate the services in services_
    online,     \* what "a" has of each of them
    parked,     \* send_queues_
    \* the services
    life,       \* whether the process of a service is registered at its gate
    news,       \* what the gate master has told "a" and "a" has not read
    dead,       \* addresses of "b" that accept no connection
    chan,       \* messages written to the channel of each service
    \* remote_gate of "a" for "b"
    rsock,      \* socket_
    rq,         \* send_queue_
    nwire, ropen,  \* wires made so far, those nobody has ended
    wire,       \* messages on each
    listening,  \* wires whose remote_listener::socket_start runs
    \* history
    dest,       \* destinations of the messages so far
    lost,       \* messages lost with a wire
    via,        \* wire of each message, 0 for none
    overtaken,  \* services whose flag comes from an answer older than a broadcast
    left        \* what is left of the budget

sender == <<sock, phase, task, view, channel, overtaken>>
links == <<nlink, open, up, down>>
listener == <<alive, reg, owner, subs, wants>>
tables == <<known, online, parked>>
outside == <<life, news, dead>>
remote == <<rsock, rq, nwire, ropen, wire, listening, lost, via>>
msgs == <<out, dest>>
vars == <<sender, links, listener, tables, outside, chan, remote, msgs, left>>

Links == {k + 1 : k \in UNION {0..b.links : b \in Budgets}}
Wires == {k + 1 : k \in UNION {0..b.wires : b \in Budgets}}
Task(st) == [st |-> st, ok |-> FALSE, svc |-> [s \in Services |-> None], heard |-> {}]
Snapshots == [Services -> {None} \cup BOOLEAN]

TypeOK ==
    /\ sock \in 0..nlink /\ phase \in {"down", "registering", "ready"} /\ (sock = 0) = (phase = "down")
    /\ view \in Snapshots /\ channel \in BOOLEAN /\ overtaken \subseteq Services
    /\ alive \subseteq 1..nlink /\ open \subseteq alive /\ reg \subseteq alive /\ wants \subseteq reg
    /\ owner \in alive \cup {0} /\ Range(subs) = wants /\ IsInjective(subs)
    /\ known \in [Gates -> SUBSET Services] /\ online \in [Services -> BOOLEAN]
    /\ life \in [Services -> {"new", "uploaded", "on", "off"}] /\ dead \subseteq 1..Addresses
    /\ rsock \in {0, nwire} /\ ropen \subseteq listening /\ listening \subseteq 1..nwire

Init ==
    /\ left \in Budgets
    /\ sock = 0 /\ phase = "down" /\ task = [n \in Links |-> Task("none")]
    /\ view = [s \in Services |-> None] /\ channel = FALSE /\ overtaken = {}
    /\ nlink = 0 /\ open = {} /\ up = [n \in Links |-> <<>>] /\ down = [n \in Links |-> <<>>]
    /\ alive = {} /\ reg = {} /\ owner = 0 /\ subs = <<>> /\ wants = {}
    /\ known = [g \in Gates |-> {}] /\ online = [s \in Services |-> FALSE]
    /\ parked = [g \in Gates |-> [s \in Services |-> <<>>]]
    /\ life = [s \in Services |-> "new"] /\ news = <<>> /\ dead = {}
    /\ chan = [s \in Services |-> <<>>]
    /\ rsock = 0 /\ rq = <<>> /\ nwire = 0 /\ ropen = {} /\ listening = {}
    /\ wire = [k \in Wires |-> <<>>]
    /\ out = <<>> /\ dest = <<>> /\ lost = {} /\ via = <<>>

Spend(what) == left[what] > 0 /\ left' = [left EXCEPT ![what] = @ - 1]

-----------------------------------------------------------------------------
(* The sender's link to its gate *)

\* A woken subscribe coroutine runs before the scheduler of the sender turns
\* to anything but the messages that have arrived with the answer.
Idle == \A n \in Links : task[n].st # "woken"

\* create_net_buffer and network.write to a link: lost unless it still carries.
Put(q, n, m) == IF n \in open THEN [q EXCEPT ![n] = Append(@, m)] ELSE q

SubscribeReq == [kind |-> "subscribe"]
Brd(s) == [kind |-> "brd", svc |-> [t \in Services |-> IF t = s THEN online'[s] ELSE None]]

\* gate_connector::run: tcp_connect succeeds, register_to_gate sends its request.
Connect ==
    /\ phase = "down" /\ Idle
    /\ nlink' = nlink + 1 /\ sock' = nlink + 1 /\ phase' = "registering"
    /\ open' = open \cup {nlink + 1} /\ alive' = alive \cup {nlink + 1}
    /\ up' = [up EXCEPT ![nlink + 1] = <<[kind |-> "register"]>>]
    /\ UNCHANGED <<task, view, channel, overtaken, down, reg, owner, subs, wants,
                   tables, outside, chan, remote, msgs, left>>

\* The sender closes its socket.
Hangup ==
    /\ open' = open \ {sock} /\ down' = [down EXCEPT ![sock] = <<>>]
    /\ sock' = 0 /\ phase' = "down"

\* call_gate of subscribe: a request that is lost has no answer.
Ask(n) ==
    /\ task' = [task EXCEPT ![n] = Task(IF n \in open THEN "asked" ELSE "unheard")]
    /\ up' = Put(up, n, SubscribeReq)

\* recv_one_message, the end of register_to_gate and of its awaiting run: the
\* channel is created once, on_register_ starts subscribe, which asks.
Registered ==
    /\ phase = "registering" /\ down[sock] # <<>> /\ Head(down[sock]).kind = "registered"
    /\ phase' = "ready" /\ channel' = TRUE
    /\ down' = [down EXCEPT ![sock] = Tail(@)]
    /\ Ask(sock)
    /\ UNCHANGED <<sock, view, overtaken, nlink, open, listener, tables, outside, chan, remote, msgs, left>>

\* The 5 s of run are over, or a ping is not answered in time (auto_ping).
TimedOut ==
    /\ sock # 0 /\ Idle /\ sock \in open /\ Spend("links")
    /\ Hangup
    /\ UNCHANGED <<task, view, channel, overtaken, nlink, up, listener, tables, outside, chan, remote, msgs>>

\* The receive loop of run, or the wait for the first message, ends.
LinkLost ==
    /\ sock # 0 /\ Idle /\ sock \notin open
    /\ Hangup
    /\ UNCHANGED <<task, view, channel, overtaken, nlink, up, listener, tables, outside, chan, remote, msgs, left>>

\* gate_connector::update_subscribe for every service of a message.
UpdateSubscribe(svc) == view' = [s \in Services |-> IF svc[s] = None THEN view[s] ELSE svc[s]]

\* The session of an answer that is read is the one subscribe waits for: the
\* answers come in the order of the requests, and it waits for the last.
Awaited(n) ==
    /\ task[n].st = "asked"
    /\ \A m \in Range(up[n]) : m.kind # "subscribe"
    /\ \A m \in Range(Tail(down[n])) : m.kind # "answer"

\* The loop of run reads an answer: it wakes the coroutine that waits for it,
\* if there is one; forward_gate drops any other.
RecvAnswer ==
    LET m == Head(down[sock])
    IN /\ phase = "ready" /\ down[sock] # <<>> /\ m.kind = "answer"
       /\ down' = [down EXCEPT ![sock] = Tail(@)]
       /\ task' = IF Awaited(sock)
                  THEN [task EXCEPT ![sock] = [st |-> "woken", ok |-> m.ok, svc |-> m.svc, heard |-> {}]]
                  ELSE task
       /\ UNCHANGED <<sock, phase, view, channel, overtaken, nlink, open, up,
                      listener, tables, outside, chan, remote, msgs, left>>

\* gate_connector::forward_gate; heard notes what an answer read before, and
\* not applied yet, will overwrite.
RecvBroadcast ==
    LET m == Head(down[sock])
        told == {s \in Services : m.svc[s] # None}
    IN /\ phase = "ready" /\ down[sock] # <<>> /\ m.kind = "brd"
       /\ down' = [down EXCEPT ![sock] = Tail(@)]
       /\ UpdateSubscribe(m.svc)
       /\ overtaken' = overtaken \ told
       /\ task' = [task EXCEPT ![sock].heard = IF task[sock].st = "woken" THEN @ \cup told ELSE @]
       /\ UNCHANGED <<sock, phase, channel, nlink, open, up, listener, tables, outside, chan, remote, msgs, left>>

\* The next turn of the loop of subscribe: it ends when the socket is another.
AskAgain(n) ==
    IF n = sock THEN Ask(n) ELSE task' = [task EXCEPT ![n] = Task("done")] /\ UNCHANGED up

\* subscribe resumes with an answer.
Subscribed(n) ==
    /\ task[n].st = "woken"
    /\ \/ /\ task[n].ok
          /\ UpdateSubscribe(task[n].svc)
          /\ overtaken' = {s \in Services : IF task[n].svc[s] = None THEN s \in overtaken ELSE s \in task[n].heard}
          /\ task' = [task EXCEPT ![n] = Task("done")]
          /\ UNCHANGED up
       \/ /\ ~task[n].ok
          /\ AskAgain(n)
          /\ UNCHANGED <<view, overtaken>>
    /\ UNCHANGED <<sock, phase, channel, nlink, open, down, listener, tables, outside, chan, remote, msgs, left>>

\* Mutant: a request that times out is not made again.
SubscribeTimeoutGivesUp(n) ==
    /\ task[n].st \in {"asked", "unheard"} /\ Idle
    /\ \/ n # sock /\ UNCHANGED left
       \/ n = sock /\ n \in open /\ Spend("links")
    /\ task' = [task EXCEPT ![n] = Task("done")]
    /\ UNCHANGED <<sock, phase, view, channel, overtaken, links, listener, tables, outside, chan, remote, msgs>>

\* The 5 s of subscribe are over before the answer: when its link has been left
\* they always are, on a link that works it is a fault; on a broken one that the
\* sender has not left yet, asking again has no effect.
SubscribeTimeout(n) ==
    /\ task[n].st \in {"asked", "unheard"} /\ Idle
    /\ \/ n # sock /\ UNCHANGED left
       \/ n = sock /\ n \in open /\ Spend("links")
    /\ AskAgain(n)
    /\ UNCHANGED <<sock, phase, view, channel, overtaken, nlink, open, down, listener, tables, outside, chan, remote, msgs>>

-----------------------------------------------------------------------------
(* local_listener of "a" *)

\* local_listener::service_register of a service with an entry: the entry
\* takes the socket of the link, whichever link asked last.
ServiceRegister(n) ==
    /\ reg' = reg \cup {n} /\ owner' = IF n \in reg THEN owner ELSE n
    /\ down' = Put(down, n, [kind |-> "registered"])
    /\ UNCHANGED <<subs, wants>>

\* local_listener::service_subscribe: the answer has the flags of all services
\* of the type, the link hears of every change from now on.
ServiceSubscribe(n) ==
    LET all == [s \in Services |-> IF s \in known["a"] \cap Login THEN online[s] ELSE None]
    IN /\ IF n \in reg /\ owner = n
          THEN /\ subs' = IF n \in Range(subs) THEN subs ELSE Append(subs, n)
               /\ wants' = wants \cup {n}
               /\ down' = Put(down, n, [kind |-> "answer", ok |-> TRUE, svc |-> all])
          ELSE /\ down' = Put(down, n, [kind |-> "answer", ok |-> FALSE, svc |-> [s \in Services |-> None]])
               /\ UNCHANGED <<subs, wants>>
       /\ UNCHANGED <<reg, owner>>

\* A turn of the loop of local_listener::socket_start: what has arrived is
\* still read after the link is lost.
ListenerRecv(n) ==
    /\ n \in alive /\ up[n] # <<>>
    /\ up' = [up EXCEPT ![n] = Tail(@)]
    /\ IF Head(up[n]).kind = "register" THEN ServiceRegister(n) ELSE ServiceSubscribe(n)
    /\ UNCHANGED <<sender, nlink, open, alive, tables, outside, chan, remote, msgs, left>>

\* The link leaves subscribe_infos_: the last takes its place.
Unsubscribe(n) ==
    LET i == CHOOSE j \in DOMAIN subs : subs[j] = n
        last == Len(subs)
    IN IF n \in wants THEN SubSeq([subs EXCEPT ![i] = subs[last]], 1, last - 1) ELSE subs

\* local_listener::socket_start after its loop.
LinkEnds(n) ==
    /\ n \in alive \ open
    /\ alive' = alive \ {n} /\ reg' = reg \ {n} /\ wants' = wants \ {n}
    /\ owner' = IF owner = n THEN 0 ELSE owner
    /\ subs' = Unsubscribe(n)
    /\ up' = [up EXCEPT ![n] = <<>>]
    /\ UNCHANGED <<sender, nlink, open, down, tables, outside, chan, remote, msgs, left>>

\* The network or socket_check ends a link.
CutLink(n) ==
    /\ n \in open /\ Spend("links")
    /\ open' = open \ {n}
    /\ UNCHANGED <<sender, nlink, up, down, listener, tables, outside, chan, remote, msgs>>

-----------------------------------------------------------------------------
(* Messages on their way *)

\* network.write to wire k.
OnWire(k, ms) ==
    IF k \in ropen
    THEN /\ wire' = [wire EXCEPT ![k] = @ \o ms]
         /\ via' = [m \in DOMAIN via |-> IF m \in Range(ms) THEN k ELSE via[m]]
         /\ UNCHANGED lost
    ELSE lost' = lost \cup Range(ms) /\ UNCHANGED <<wire, via>>

\* remote_service::write and remote_gate::send
RemoteSend(ms) ==
    \/ rsock # 0 /\ OnWire(rsock, ms) /\ UNCHANGED rq
    \/ rsock = 0 /\ rq' = rq \o ms /\ UNCHANGED <<wire, via, lost>>

\* service_info::write at gate g of messages for s.
WriteTo(g, s, ms) ==
    \/ /\ Home[s] = g
       /\ chan' = [chan EXCEPT ![s] = @ \o ms]
       /\ UNCHANGED <<rq, wire, via, lost>>
    \/ Home[s] # g /\ RemoteSend(ms) /\ UNCHANGED chan

\* gate::forward: a message for a service the gate does not know is kept.
Forward(g, m) ==
    LET s == dest[m]
    IN IF s \in known[g]
       THEN WriteTo(g, s, <<m>>) /\ UNCHANGED parked
       ELSE /\ parked' = [parked EXCEPT ![g][s] = Append(@, m)]
            /\ UNCHANGED <<chan, rq, wire, via, lost>>

\* Mutant: the messages kept for the service stay where they are.
EmplaceForgets(g, s) ==
    /\ known' = [known EXCEPT ![g] = @ \cup {s}]
    /\ UNCHANGED <<parked, chan, rq, wire, via, lost>>

\* gate::emplace_service: the messages kept for the service go first.
EmplaceService(g, s) ==
    /\ known' = [known EXCEPT ![g] = @ \cup {s}]
    /\ parked' = [parked EXCEPT ![g][s] = <<>>]
    /\ WriteTo(g, s, parked[g][s])

\* The services the sender may address: rand_subscribe picks one that is online
\* in its view, others it knows from its configuration.
Addressable == Configured \cup {s \in Login : view[s] = TRUE}

\* gate_connector::write; until there is a channel the message waits.
Send(s) ==
    /\ s \in Addressable /\ Idle /\ Spend("sends")
    /\ dest' = Append(dest, s) /\ out' = Append(out, Len(dest) + 1) /\ via' = Append(via, 0)
    /\ UNCHANGED <<sender, links, listener, tables, outside, chan, rsock, rq, nwire, ropen, wire, listening, lost>>

\* local_service::auto_read at "a".
GateRead ==
    /\ channel /\ out # <<>>
    /\ out' = Tail(out)
    /\ Forward("a", Head(out))
    /\ UNCHANGED <<sender, links, listener, known, online, outside, rsock, nwire, ropen, listening, dest, left>>

\* The gate master has told "a" of a service of "b", so remote_gate::run works.
Started == known["a"] \cap {s \in Services : Home[s] = "b"} # {}

\* The address remote_gate::run connects to: addresses_[address_cnt % size].  The
\* count moves on from an address that is ill-formed, which add_remote_gate never
\* makes, or when tcp_connect returns 0, which it never does: a connection that is
\* refused is an exception, and the next try is for the same address.
Tried == 1

\* Mutant: what auto_send has sent stays in the queue.
RemoteConnectKeeps ==
    LET k == nwire + 1
    IN /\ Started /\ rsock = 0 /\ Tried \notin dead
       /\ nwire' = k /\ rsock' = k
       /\ ropen' = ropen \cup {k} /\ listening' = listening \cup {k}
       /\ wire' = [wire EXCEPT ![k] = rq]
       /\ via' = [m \in DOMAIN via |-> IF m \in Range(rq) THEN k ELSE via[m]]
       /\ UNCHANGED <<sender, links, listener, tables, outside, chan, rq, msgs, lost, left>>

\* remote_gate::run: tcp_connect succeeds, auto_send sends what has waited.  A
\* connect that fails leaves everything as it is.
RemoteConnect ==
    LET k == nwire + 1
    IN /\ Started /\ rsock = 0 /\ Tried \notin dead
       /\ nwire' = k /\ rsock' = k /\ rq' = <<>>
       /\ ropen' = ropen \cup {k} /\ listening' = listening \cup {k}
       /\ wire' = [wire EXCEPT ![k] = rq]
       /\ via' = [m \in DOMAIN via |-> IF m \in Range(rq) THEN k ELSE via[m]]
       /\ UNCHANGED <<sender, links, listener, tables, outside, chan, msgs, lost, left>>

\* An address of "b" fails, or accepts connections again.
Outage(i) ==
    /\ Spend("outages")
    /\ dead' = IF i \in dead THEN dead \ {i} ELSE dead \cup {i}
    /\ UNCHANGED <<sender, links, listener, tables, life, news, chan, remote, msgs>>

\* The receive loop of remote_gate::run ends with an exception.
RemoteLost ==
    /\ rsock # 0 /\ rsock \notin ropen
    /\ rsock' = 0
    /\ UNCHANGED <<sender, links, listener, tables, outside, chan, rq, nwire, ropen, wire, listening, lost, via, msgs, left>>

\* The network, a ping timeout (auto_ping) or socket_check ends a wire: of what
\* is on it any number of the last messages do not arrive.
CutWire(k) ==
    /\ k \in ropen /\ Spend("wires")
    /\ ropen' = ropen \ {k}
    /\ \E i \in 0..Len(wire[k]) :
        /\ wire' = [wire EXCEPT ![k] = SubSeq(@, 1, i)]
        /\ lost' = lost \cup Range(SubSeq(wire[k], i + 1, Len(wire[k])))
    /\ UNCHANGED <<sender, links, listener, tables, outside, chan, rsock, rq, nwire, listening, via, msgs>>

\* remote_listener::socket_start and gate_forward at "b".
RemoteRead(k) ==
    LET m == Head(wire[k])
    IN /\ k \in listening /\ wire[k] # <<>>
       /\ IF dest[m] \in known["b"]
          THEN chan' = [chan EXCEPT ![dest[m]] = Append(@, m)] /\ UNCHANGED parked
          ELSE parked' = [parked EXCEPT !["b"][dest[m]] = Append(@, m)] /\ UNCHANGED chan
       /\ wire' = [wire EXCEPT ![k] = Tail(@)]
       /\ UNCHANGED <<sender, links, listener, known, online, outside, rsock, rq, nwire, ropen, listening, lost, via, msgs, left>>

\* Its loop ends; what it has not read is lost.
RemoteEnds(k) ==
    /\ k \in listening \ ropen
    /\ listening' = listening \ {k}
    /\ wire' = [wire EXCEPT ![k] = <<>>]
    /\ lost' = lost \cup Range(wire[k])
    /\ UNCHANGED <<sender, links, listener, tables, outside, chan, rsock, rq, nwire, ropen, via, msgs, left>>

-----------------------------------------------------------------------------
(* Services come and go *)

\* service_info::update at "a": local_listener::update_service tells the
\* subscribers of the type, whether the flag has changed or not.
Changed(s) ==
    down' = IF s \in Login THEN [n \in Links |-> IF n \in Range(subs) THEN Put(down, n, Brd(s))[n] ELSE down[n]]
            ELSE down

\* The gate master lets "b" register s and publishes it, offline, to "a".
Uploaded(s) ==
    /\ Home[s] = "b" /\ life[s] = "new" /\ s \in left.start
    /\ life' = [life EXCEPT ![s] = "uploaded"] /\ news' = Append(news, <<s, FALSE>>)
    /\ UNCHANGED <<sender, links, listener, tables, dead, chan, remote, msgs, left>>

\* The process of s is registered at its gate for the first time.
Added(s) ==
    LET g == Home[s]
    IN /\ s \in left.start /\ life[s] = IF g = "b" THEN "uploaded" ELSE "new"
       /\ life' = [life EXCEPT ![s] = "on"]
       /\ EmplaceService(g, s)
       /\ \/ /\ g = "a" /\ online' = [online EXCEPT ![s] = TRUE]
             /\ Changed(s) /\ UNCHANGED news
          \/ /\ g = "b" /\ news' = Append(news, <<s, TRUE>>)
             /\ UNCHANGED <<online, down>>
       /\ UNCHANGED <<sender, nlink, open, up, listener, dead, rsock, nwire, ropen, listening, msgs, left>>

\* The process of s loses its link to its gate, or has one again.
Toggled(s) ==
    LET on == life[s] = "off"
    IN /\ life[s] \in {"on", "off"} /\ Spend("changes")
       /\ life' = [life EXCEPT ![s] = IF on THEN "on" ELSE "off"]
       /\ \/ /\ Home[s] = "a" /\ online' = [online EXCEPT ![s] = on]
             /\ Changed(s) /\ UNCHANGED news
          \/ /\ Home[s] = "b" /\ news' = Append(news, <<s, on>>)
             /\ UNCHANGED <<online, down>>
       /\ UNCHANGED <<sender, nlink, open, up, listener, known, parked, dead, chan, remote, msgs>>

\* master_connector::add_remote_gate and remote_gate::add_remote_service at "a".
AddRemoteService ==
    LET s == Head(news)[1]
    IN /\ news # <<>>
       /\ news' = Tail(news)
       /\ online' = [online EXCEPT ![s] = Head(news)[2]]
       /\ IF s \in known["a"]
          THEN UNCHANGED <<known, parked, chan, rq, wire, via, lost>>
          ELSE EmplaceService("a", s)
       /\ Changed(s)
       /\ UNCHANGED <<sender, nlink, open, up, listener, life, dead, rsock, nwire, ropen, listening, msgs, left>>

-----------------------------------------------------------------------------
SenderStep ==
    \/ Connect \/ Registered \/ LinkLost \/ RecvAnswer \/ RecvBroadcast
    \/ \E n \in Links : Subscribed(n)
ListenerStep == \E n \in Links : ListenerRecv(n) \/ LinkEnds(n)
MessageStep ==
    \/ GateRead \/ RemoteConnect \/ RemoteLost
    \/ \E k \in Wires : RemoteRead(k) \/ RemoteEnds(k)

Next ==
    \/ SenderStep \/ TimedOut \/ \E n \in Links : SubscribeTimeout(n) \/ CutLink(n)
    \/ ListenerStep \/ MessageStep \/ \E k \in Wires : CutWire(k)
    \/ AddRemoteService \/ \E i \in 1..Addresses : Outage(i)
    \/ \E s \in Services : Send(s) \/ Uploaded(s) \/ Added(s) \/ Toggled(s)

\* Every scheduler goes on running its coroutines, TCP delivers on a connection
\* that stays up, and a closed one is noticed.  remote_gate::run tries again for
\* ever, and gets through if the address it tries accepts.
Fairness ==
    /\ WF_vars(Connect \/ Registered) /\ WF_vars(LinkLost)
    /\ WF_vars(RecvAnswer \/ RecvBroadcast)
    /\ \A n \in Links : WF_vars(Subscribed(n)) /\ WF_vars(ListenerRecv(n)) /\ WF_vars(LinkEnds(n))
    /\ WF_vars(GateRead) /\ WF_vars(RemoteConnect) /\ WF_vars(RemoteLost)
    /\ \A k \in Wires : WF_vars(RemoteRead(k) \/ RemoteEnds(k))
    /\ WF_vars(AddRemoteService)

Spec == Init /\ [][Next]_vars /\ Fairness

-----------------------------------------------------------------------------
(* Correctness *)

Delivered == UNION {Range(chan[s]) : s \in Services}

\* A service gets the messages of another one once, and in the order they were
\* sent, also those that waited in a gate for a service it did not know
\* (send_queues_) or for the other gate (send_queue_) while others followed.
\* Only messages that took different connections between the gates may come
\* in another order: nothing orders what remote_listener reads from two.
RoutedInOrder ==
    /\ TypeOK
    /\ \A s \in Services : \A i, j \in DOMAIN chan[s] : i < j =>
        /\ chan[s][i] # chan[s][j]
        /\ via[chan[s][i]] = via[chan[s][j]] => chan[s][i] < chan[s][j]

\* No message is forgotten in a queue: once the gates on its way know its
\* destination, a message is delivered or is lost with a connection between the
\* gates, whatever connections were made and lost before.  One exception: it stays
\* in send_queue_ while the first address of "b" accepts no connection, however
\* many others do.  (Nothing else is dropped: no code sets the limit that gate.h:35
\* mentions for send_queues_.)
Routed ==
    \A m \in {k + 1 : k \in UNION {0..b.sends - 1 : b \in Budgets}} :
        \/ (m <= Len(dest) /\ dest[m] \in known["a"] \cap known[Home[dest[m]]])
                ~> (m \in Delivered \cup lost)
        \/ <>[](m \in Range(rq) /\ Tried \in dead)

\* What the gate has of a service of the subscribed type, the sender comes to
\* have too, although services change, links are lost and requests time out
\* meanwhile. Two exceptions: an answer of subscribe is applied after a
\* broadcast that it precedes on the link, and overwrites it, because only the
\* broadcast is handled by the coroutine that reads; and the registration of a
\* link that was given up is read after the one of the link in use, which the
\* gate then refuses to subscribe.
ViewFresh ==
    \A s \in Login, flag \in BOOLEAN :
        (s \in known["a"] /\ online[s] = flag)
            ~> (view[s] = flag \/ online[s] # flag \/ s \in overtaken \/ (sock # 0 /\ owner # sock /\ phase = "ready"))
=============================================================================
