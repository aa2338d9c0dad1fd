------------------------------ MODULE Sockets ------------------------------
(***************************************************************************)
(* Sockets for coroutines: simple::network (src/runtime/src/coro/          *)
(* network.cpp) on the scheduler thread, socket_system and the tcp, ssl    *)
(* and kcp sockets (src/runtime/src/net) on the asio thread.  The two      *)
(* threads only talk through queues: functions posted to the scheduler     *)
(* (posted) and functions posted to the io_context (jobs).                 *)
(*                                                                         *)
(* A client process connects one socket to a listener of a server process, *)
(* which makes one session of it.  "connector" and "helper" are coroutines *)
(* of the client, "acceptor" is one of the server.  A coroutine that is    *)
(* "busy" runs or waits for something that is not a socket; what it calls  *)
(* next is its choice.  asio, the kernel, TLS and ikcp are external.       *)
(***************************************************************************)
EXTENDS Naturals, Sequences, SequencesExt

CONSTANTS
    Protocols,   \* the protocols to try, of "tcp", "ssl" and "kcp"
    MaxUnits,    \* bound on the units of data each end writes, per protocol
    Frame,       \* units a read_size waits for
    MaxCancels,  \* bound on the coroutines whose token is cancelled, per protocol
    None

ASSUME SocketsAssumption ==
    /\ Protocols \subseteq {"tcp", "ssl", "kcp"} /\ Frame \in Nat \ {0}
    /\ MaxUnits \in [Protocols -> [{"client", "session"} -> Nat]]
    /\ MaxCancels \in [Protocols -> Nat]

Ends == {"client", "session"}
SocketIds == Ends \cup {"listener"}
Coros == {"connector", "helper", "acceptor"}
Processes == {"user", "server"}

\* The process of a socket and of a coroutine, and the other end.
ProcOf(x) == IF x \in {"client", "connector", "helper"} THEN "user" ELSE "server"
Peer(s) == IF s = "client" THEN "session" ELSE "client"

VARIABLES
    proto,
    \* scheduler threads: network
    pc,         \* what each coroutine waits for
    cancelled,  \* coroutines whose token is cancelled
    woken,      \* cancelled coroutines in wake_up_coroutine_
    ids,        \* sockets the coroutines of a process have been given and keep
    known,      \* keys of network::sockets_
    handle,     \* network_data::handle
    buf,        \* network_data::buf
    accepted,   \* network_data::accepted of the listener
    posted,     \* functions posted to the scheduler, per process
    \* asio threads: socket_system
    jobs,       \* functions posted to the io_context, per process
    phase,      \* where a socket object is
    why,        \* the error a socket that is closing will report
    system,     \* keys of socket_system::sockets_
    wq,         \* write_deque_
    \* the network
    backlog,    \* a connection the kernel completed and co_accept has not seen
    wire,       \* data of each end on its way to the other
    udp,        \* kcp control datagrams on their way
    \* history
    sent,       \* units each end has written so far
    got,        \* units the coroutines have read from each end
    leaked      \* sockets whose last owner is gone though asio keeps them

nvars == <<pc, cancelled, woken, ids, known, handle, buf, accepted, got, leaked>>
avars == <<phase, why, system, wq>>
wvars == <<backlog, wire, udp>>
vars == <<proto, nvars, posted, jobs, avars, wvars, sent>>

Waits == {"start", "accept", "read", "read_size"}
Phases == {"none", "lost", "resolve", "connect", "handshake", "ack",
           "open", "up", "closing", "close_wait", "stopped"}
Errors == {"ok", "eof", "err"}
Datagrams == {"connect", "ack", "disc_client", "disc_session"}

TypeOK ==
    /\ proto \in Protocols
    /\ pc \in [Coros -> Waits \cup {"new", "busy"}]
    /\ cancelled \subseteq Coros /\ woken \subseteq cancelled
    /\ ids \in [Processes -> SUBSET SocketIds] /\ known \subseteq SocketIds
    /\ handle \in [SocketIds -> Coros \cup {None}]
    /\ accepted \in {<<>>, <<"session">>}
    /\ phase \in [SocketIds -> Phases] /\ why \in [SocketIds -> Errors]
    /\ system \subseteq SocketIds /\ leaked \subseteq SocketIds
    /\ backlog \in BOOLEAN /\ udp \subseteq Datagrams
    /\ \A s \in Ends : /\ sent[s] \in 0..MaxUnits[proto][s]
                       /\ {Len(buf[s]), Len(wq[s]), Len(wire[s]), Len(got[s])} \subseteq Nat

Init ==
    /\ proto \in Protocols
    /\ pc = [c \in Coros |-> IF c = "helper" THEN "busy" ELSE "new"]
    /\ cancelled = {} /\ woken = {}
    /\ ids = [p \in Processes |-> {}] /\ known = {}
    /\ handle = [s \in SocketIds |-> None]
    /\ buf = [s \in Ends |-> <<>>] /\ accepted = <<>>
    /\ posted = [p \in Processes |-> <<>>] /\ jobs = [p \in Processes |-> <<>>]
    /\ phase = [s \in SocketIds |-> "none"] /\ why = [s \in SocketIds |-> "ok"]
    /\ system = {} /\ wq = [s \in Ends |-> <<>>]
    /\ backlog = FALSE /\ wire = [s \in Ends |-> <<>>] /\ udp = {}
    /\ sent = [s \in Ends |-> 0] /\ got = [s \in Ends |-> <<>>] /\ leaked = {}

\* A function posted to the scheduler, and one posted to the io_context.
Event(ev, s, e, d) == [ev |-> ev, s |-> s, e |-> e, d |-> d]
Job(op, s, n) == [op |-> op, s |-> s, n |-> n]

Post(s, es) == posted' = [posted EXCEPT ![ProcOf(s)] = @ \o es]
PostJob(s, j) == jobs' = [jobs EXCEPT ![ProcOf(s)] = Append(@, j)]

\* The socket a suspended coroutine waits for.
SockOf(c) == IF ProcOf(c) = "user" THEN "client"
             ELSE IF pc[c] \in {"start", "accept"} THEN "listener" ELSE "session"
Suspended(c) == pc[c] \in Waits

-----------------------------------------------------------------------------
(* network_awaiter *)

\* Mutant of Suspend: a second coroutine may wait for the same socket.
SuspendOver(c, s, w) ==
    LET refused == c \in cancelled
    IN /\ pc' = [pc EXCEPT ![c] = IF refused THEN "busy" ELSE w]
       /\ handle' = [handle EXCEPT ![s] = IF refused THEN @ ELSE c]

\* await_suspend: a socket somebody waits for, or a cancelled token, makes
\* co_await throw at once; otherwise the handle is left at the socket.
Suspend(c, s, w) ==
    LET refused == handle[s] # None \/ c \in cancelled
    IN /\ pc' = [pc EXCEPT ![c] = IF refused THEN "busy" ELSE w]
       /\ handle' = [handle EXCEPT ![s] = IF refused THEN @ ELSE c]

\* How much of b a read or a read_size takes; 0 when it has to wait.
Takes(w, b) == IF w = "read" THEN Min({Len(b), Frame})
               ELSE IF Len(b) >= Frame THEN Frame ELSE 0

\* A read of b that need not wait for more.
Consume(s, b, n) ==
    /\ buf' = [buf EXCEPT ![s] = SubSeq(b, n + 1, Len(b))]
    /\ got' = [got EXCEPT ![s] = @ \o SubSeq(b, 1, n)]

\* network::accept hands the first queued session to its caller and lets the
\* asio thread start it.
TakeAccepted(a) ==
    /\ accepted' = Tail(a)
    /\ ids' = [ids EXCEPT !["server"] = @ \cup {Head(a)}]
    /\ PostJob(Head(a), Job("accept", Head(a), 0))

\* await_resume of coroutine c at socket s, resumed with error e when the
\* socket has buffer b and accept queue a, and the rest of the call: an error
\* other than eof is thrown (the handle goes with the socket's data, which
\* hand_stop has taken out of the map), a read_size with too little data waits
\* again.
Resume(c, s, e, b, a) ==
    \/ /\ e = "err"
       /\ pc' = [pc EXCEPT ![c] = "busy"] /\ handle' = [handle EXCEPT ![s] = None]
       /\ buf' = [x \in Ends |-> IF x = s THEN b ELSE buf[x]]
       /\ accepted' = a
       /\ UNCHANGED <<ids, got, jobs>>
    \/ /\ e # "err" /\ pc[c] = "start"
       /\ pc' = [pc EXCEPT ![c] = "busy"] /\ handle' = [handle EXCEPT ![s] = None]
       /\ ids' = [ids EXCEPT ![ProcOf(s)] = @ \cup {s}]
       /\ accepted' = a
       /\ UNCHANGED <<buf, got, jobs>>
    \/ /\ e # "err" /\ pc[c] = "accept"
       /\ pc' = [pc EXCEPT ![c] = "busy"] /\ handle' = [handle EXCEPT ![s] = None]
       /\ \/ a # <<>> /\ TakeAccepted(a)
          \/ a = <<>> /\ accepted' = a /\ UNCHANGED <<ids, jobs>>
       /\ UNCHANGED <<buf, got>>
    \/ /\ e # "err" /\ pc[c] \in {"read", "read_size"}
       /\ LET n == Takes(pc[c], b)
              again == e = "ok" /\ n = 0
          IN /\ pc' = [pc EXCEPT ![c] = IF again THEN @ ELSE "busy"]
             /\ handle' = [handle EXCEPT ![s] = IF again THEN c ELSE None]
             /\ Consume(s, b, IF e = "ok" THEN n ELSE 0)
       /\ UNCHANGED <<accepted, ids, jobs>>

\* A handler that finds no waiting coroutine only changes the socket's data.
NoResume(s, b, a) ==
    /\ buf' = [x \in Ends |-> IF x = s THEN b ELSE buf[x]]
    /\ accepted' = a
    /\ UNCHANGED <<pc, handle, ids, got, jobs>>

ResumeIfAny(s, e, b, a) ==
    \/ handle[s] # None /\ Resume(handle[s], s, e, b, a)
    \/ handle[s] = None /\ NoResume(s, b, a)

BufOf(s) == IF s \in Ends THEN buf[s] ELSE <<>>

\* The data of a socket that leaves network::sockets_: its buffer, its accept
\* queue and the handle are gone with it.
NoBuf(s) == [x \in Ends |-> IF x = s THEN <<>> ELSE buf[x]]
NoAccepted(s) == IF s = "listener" THEN <<>> ELSE accepted
Forget(s) ==
    /\ known' = known \ {s} /\ handle' = [handle EXCEPT ![s] = None]
    /\ buf' = NoBuf(s) /\ accepted' = NoAccepted(s)

\* The sessions that end without an owner when s is forgotten.
Abandoned(s) == IF s = "listener" THEN Range(accepted) ELSE {}

\* The cancellation callback of a suspended awaiter: network::remove_socket and
\* wake_up_coroutine.  What nobody can be given any more is leaked: the socket
\* being opened, the sessions queued at the listener.
Cancel(c) ==
    /\ c \notin cancelled /\ Cardinality(cancelled) < MaxCancels[proto]
    /\ cancelled' = cancelled \cup {c}
    /\ IF Suspended(c)
       THEN /\ Forget(SockOf(c)) /\ woken' = woken \cup {c}
            /\ leaked' = leaked \cup Abandoned(SockOf(c))
                               \cup (IF pc[c] = "start" THEN {SockOf(c)} ELSE {})
       ELSE UNCHANGED <<known, handle, buf, accepted, woken, leaked>>
    /\ UNCHANGED <<proto, pc, ids, got, posted, jobs, avars, wvars, sent>>

\* The woken coroutine throws canceled out of await_resume.
ResumeCancelled(c) ==
    /\ c \in woken
    /\ woken' = woken \ {c} /\ pc' = [pc EXCEPT ![c] = "busy"]
    /\ UNCHANGED <<proto, cancelled, ids, known, handle, buf, accepted, got, leaked,
                   posted, jobs, avars, wvars, sent>>

-----------------------------------------------------------------------------
(* network: the calls of coroutines *)

\* socket_system::tcp_listen to kcp_connect: makes the socket and posts its start.
\* A listen address that cannot be parsed gets the id 0, no socket and no start.
PostStart(s) ==
    \/ PostJob(s, Job("start", s, 0)) /\ UNCHANGED phase
    \/ s = "listener" /\ phase' = [phase EXCEPT ![s] = "lost"] /\ UNCHANGED jobs

\* network::tcp_listen to kcp_connect: the coroutine waits for the id it is given,
\* whatever it is.
Open(c, s) ==
    /\ pc[c] = "new"
    /\ PostStart(s)
    /\ known' = known \cup {s}
    /\ Suspend(c, s, "start")
    \* A coroutine that was cancelled before learns no id.
    /\ leaked' = IF c \in cancelled THEN leaked \cup {s} ELSE leaked
    /\ UNCHANGED <<proto, cancelled, woken, ids, buf, accepted, got, posted, why, system, wq, wvars, sent>>

Accept(c) ==
    /\ pc[c] = "busy" /\ "listener" \in ids[ProcOf(c)] \cap known
    /\ \/ accepted # <<>> /\ TakeAccepted(accepted) /\ UNCHANGED <<pc, handle>>
       \/ accepted = <<>> /\ Suspend(c, "listener", "accept") /\ UNCHANGED <<accepted, ids, jobs>>
    /\ UNCHANGED <<proto, cancelled, woken, known, buf, got, leaked, posted, avars, wvars, sent>>

\* read and read_size (w); read_until waits in the same way.
Read(c, s, w) ==
    /\ pc[c] = "busy" /\ s \in ids[ProcOf(c)] \cap known
    /\ LET n == Takes(w, buf[s])
       IN \/ n > 0 /\ Consume(s, buf[s], n) /\ UNCHANGED <<pc, handle>>
          \/ n = 0 /\ Suspend(c, s, w) /\ UNCHANGED <<buf, got>>
    /\ UNCHANGED <<proto, cancelled, woken, ids, known, accepted, leaked, posted, jobs, avars, wvars, sent>>

\* write: a unit is known by its number.
Write(c, s) ==
    /\ pc[c] = "busy" /\ s \in ids[ProcOf(c)] /\ sent[s] < MaxUnits[proto][s]
    /\ sent' = [sent EXCEPT ![s] = @ + 1]
    /\ PostJob(s, Job("write", s, sent[s] + 1))
    /\ UNCHANGED <<proto, nvars, posted, avars, wvars>>

\* close, called by some coroutine of the process: socket_system::close, then
\* hand_stop in place, which resumes whoever waits for the socket.
Close(s) ==
    /\ s \in ids[ProcOf(s)]
    /\ jobs' = [jobs EXCEPT ![ProcOf(s)] = Append(@, Job("close", s, 0))]
    /\ ids' = [ids EXCEPT ![ProcOf(s)] = @ \ {s}]
    /\ \/ /\ s \in known /\ Forget(s)
          /\ leaked' = leaked \cup Abandoned(s)
          /\ pc' = IF handle[s] # None THEN [pc EXCEPT ![handle[s]] = "busy"] ELSE pc
       \/ s \notin known /\ UNCHANGED <<pc, known, handle, buf, accepted, leaked>>
    /\ UNCHANGED <<proto, cancelled, woken, got, posted, avars, wvars, sent>>

-----------------------------------------------------------------------------
(* network: the posted handlers *)

HandStart(p) ==
    LET v == Head(posted[p]) IN
    /\ posted[p] # <<>> /\ v.ev = "start"
    /\ posted' = [posted EXCEPT ![p] = Tail(@)]
    /\ \/ v.s \in known /\ handle[v.s] # None
          /\ Resume(handle[v.s], v.s, "ok", BufOf(v.s), accepted)
       \/ ~(v.s \in known /\ handle[v.s] # None)
          /\ UNCHANGED <<pc, ids, handle, buf, accepted, got, jobs>>
    /\ UNCHANGED <<proto, cancelled, woken, known, leaked, avars, wvars, sent>>

HandStop(p) ==
    LET v == Head(posted[p]) IN
    /\ posted[p] # <<>> /\ v.ev = "stop"
    /\ posted' = [posted EXCEPT ![p] = Tail(@)]
    /\ \/ /\ v.s \in known /\ known' = known \ {v.s}
          /\ leaked' = leaked \cup Abandoned(v.s)
          /\ \/ handle[v.s] # None /\ Resume(handle[v.s], v.s, v.e, <<>>, NoAccepted(v.s))
             \/ handle[v.s] = None /\ NoResume(v.s, <<>>, NoAccepted(v.s))
       \/ /\ v.s \notin known
          /\ UNCHANGED <<pc, ids, known, handle, buf, accepted, got, leaked, jobs>>
    /\ UNCHANGED <<proto, cancelled, woken, avars, wvars, sent>>

HandRead(p) ==
    LET v == Head(posted[p]) IN
    /\ posted[p] # <<>> /\ v.ev = "read"
    /\ posted' = [posted EXCEPT ![p] = Tail(@)]
    /\ \/ v.s \in known /\ ResumeIfAny(v.s, "ok", buf[v.s] \o v.d, accepted)
       \/ v.s \notin known /\ UNCHANGED <<pc, ids, handle, buf, accepted, got, jobs>>
    /\ UNCHANGED <<proto, cancelled, woken, known, leaked, avars, wvars, sent>>

\* A session whose listener is gone is closed again.
HandAccept(p) ==
    LET v == Head(posted[p]) IN
    /\ posted[p] # <<>> /\ v.ev = "accept"
    /\ posted' = [posted EXCEPT ![p] = Tail(@)]
    /\ \/ /\ "listener" \in known
          /\ known' = known \cup {v.s}
          /\ ResumeIfAny("listener", "ok", <<>>, Append(accepted, v.s))
       \/ /\ "listener" \notin known
          /\ PostJob(v.s, Job("close", v.s, 0))
          /\ UNCHANGED <<pc, ids, known, handle, buf, accepted, got>>
    /\ UNCHANGED <<proto, cancelled, woken, leaked, avars, wvars, sent>>

-----------------------------------------------------------------------------
(* socket_system and the sockets: one asio thread per process *)

\* A TLS shutdown blocks the thread until the other end has answered it.
Free(p) == \A s \in SocketIds : ProcOf(s) = p => phase[s] # "closing"

\* Where stop() does something: the object has an open socket (tcp, ssl) or is
\* not closed yet (kcp).
CanStop(s) ==
    \/ phase[s] \in {"connect", "handshake", "ack", "open", "up", "close_wait"}
    \/ proto = "kcp" /\ phase[s] = "resolve"

\* The sockets stop() ends: a kcp server takes its sessions along.
Stopping(s) ==
    IF s = "listener" /\ proto = "kcp" /\ phase["session"] \in {"open", "up"}
    THEN {"session", "listener"} ELSE {s}

Stopped(e, s) == Event("stop", s, e, <<>>)

\* Control datagrams are sent.  One that can no longer have an effect is dropped
\* with the others that are lost.
Effective(d) ==
    CASE d = "connect" -> phase'["listener"] \notin {"lost", "stopped"}
      [] d = "ack" -> phase'["client"] = "ack"
      [] d = "disc_client" -> phase'["client"] \in {"ack", "up"}
      [] d = "disc_session" -> phase'["session"] \in {"open", "up"}
Send(ds) == udp' = {d \in udp \cup ds : Effective(d)}
Receive(d, ds) == udp' = {x \in (udp \ {d}) \cup ds : Effective(x)}

\* What was to be written by ends that are gone, and what was sent to them.
Drop(ss) ==
    /\ wq' = [x \in Ends |-> IF x \in ss THEN <<>> ELSE wq[x]]
    /\ wire' = [x \in Ends |-> IF Peer(x) \in ss THEN <<>> ELSE wire[x]]

\* stop() that does not have to wait: the socket is closed, hand_stop posted
\* (for the sessions first) and the socket erased; a kcp session tells its peer.
StopNow(s, e) ==
    /\ phase' = [x \in SocketIds |-> IF x \in Stopping(s) THEN "stopped" ELSE phase[x]]
    /\ system' = system \ Stopping(s)
    /\ Post(s, IF Stopping(s) = {s} THEN <<Stopped(e, s)>>
               ELSE <<Stopped(e, "session"), Stopped(e, "listener")>>)
    /\ Send(IF proto = "kcp" /\ "session" \in Stopping(s) THEN {"disc_client"} ELSE {})
    /\ Drop(Stopping(s))
    /\ UNCHANGED why

\* ssl: shutdown of an established stream sends close_notify and waits for the
\* peer's.
MustShutdown(s) ==
    /\ proto = "ssl" /\ s \in Ends /\ phase[s] \in {"open", "up"}
    /\ phase[Peer(s)] \notin {"closing", "stopped"}

Stop(s, e) ==
    \/ ~MustShutdown(s) /\ StopNow(s, e)
    \/ /\ MustShutdown(s)
       /\ phase' = [phase EXCEPT ![s] = "closing"] /\ why' = [why EXCEPT ![s] = e]
       /\ UNCHANGED <<system, posted, wq, wire, udp>>

FinishShutdown(s) ==
    /\ phase[s] = "closing" /\ phase[Peer(s)] \in {"closing", "stopped"}
    /\ StopNow(s, why[s])
    /\ UNCHANGED <<proto, nvars, jobs, backlog, sent>>

\* kcp_client_impl::disconnect, up to the send of its message, and the rest.
Disconnect(e) ==
    /\ phase' = [phase EXCEPT !["client"] = "close_wait"]
    /\ why' = [why EXCEPT !["client"] = e]
    /\ Send({})
    /\ UNCHANGED <<system, posted, wq, wire>>

CloseWait ==
    /\ phase["client"] = "close_wait"
    /\ phase' = [phase EXCEPT !["client"] = "stopped"]
    /\ system' = system \ {"client"}
    /\ Post("client", <<Stopped(why["client"], "client")>>)
    /\ Send({"disc_session"}) /\ Drop({"client"})
    /\ UNCHANGED <<proto, nvars, jobs, why, backlog, sent>>

\* start() of the client begins to resolve its peer's name; a TLS context that
\* cannot be set up ends in a stop() without an open socket.
StartClient ==
    /\ \/ phase' = [phase EXCEPT !["client"] = "resolve"] /\ system' = system \cup {"client"}
       \/ /\ proto = "ssl" /\ phase' = [phase EXCEPT !["client"] = "lost"]
          /\ UNCHANGED system
    /\ UNCHANGED posted

\* start() of the listener opens, binds and listens; a failed open (or TLS
\* context) is reported to nobody, for stop() finds no open socket; a failed
\* bind is.
StartListener ==
    \/ /\ phase' = [phase EXCEPT !["listener"] = "up"] /\ system' = system \cup {"listener"}
       /\ Post("listener", <<Event("start", "listener", "ok", <<>>)>>)
    \/ /\ phase' = [phase EXCEPT !["listener"] = "lost"]
       /\ UNCHANGED <<system, posted>>
    \/ /\ phase' = [phase EXCEPT !["listener"] = "stopped"]
       /\ Post("listener", <<Stopped("err", "listener")>>)
       /\ UNCHANGED system

\* The start() that tcp_connect, tcp_listen and the others have posted.
StartJob(p) ==
    /\ jobs[p] # <<>> /\ Head(jobs[p]).op = "start" /\ Free(p)
    /\ jobs' = [jobs EXCEPT ![p] = Tail(@)]
    /\ IF Head(jobs[p]).s = "client" THEN StartClient ELSE StartListener
    /\ UNCHANGED <<proto, nvars, why, wq, wvars, sent>>

\* The posted accept: the session's coroutines start.
AcceptJob(p) ==
    LET s == Head(jobs[p]).s IN
    /\ jobs[p] # <<>> /\ Head(jobs[p]).op = "accept" /\ Free(p)
    /\ jobs' = [jobs EXCEPT ![p] = Tail(@)]
    /\ phase' = IF s \in system THEN [phase EXCEPT ![s] = "up"] ELSE phase
    /\ UNCHANGED <<proto, nvars, posted, why, system, wq, wvars, sent>>

WriteJob(p) ==
    LET j == Head(jobs[p]) IN
    /\ jobs[p] # <<>> /\ j.op = "write" /\ Free(p)
    /\ jobs' = [jobs EXCEPT ![p] = Tail(@)]
    /\ wq' = IF j.s \in system THEN [wq EXCEPT ![j.s] = Append(@, j.n)] ELSE wq
    /\ UNCHANGED <<proto, nvars, posted, phase, why, system, wvars, sent>>

CloseJob(p) ==
    LET s == Head(jobs[p]).s IN
    /\ jobs[p] # <<>> /\ Head(jobs[p]).op = "close" /\ Free(p)
    /\ jobs' = [jobs EXCEPT ![p] = Tail(@)]
    /\ \/ s \in system /\ CanStop(s) /\ Stop(s, "err")
       \/ ~(s \in system /\ CanStop(s)) /\ UNCHANGED <<phase, why, system, posted, wq, wire, udp>>
    /\ UNCHANGED <<proto, nvars, backlog, sent>>

\* The stop() of a connect timer that had expired when the connection was made.
TimeoutJob(p) ==
    /\ jobs[p] # <<>> /\ Head(jobs[p]).op = "timeout" /\ Free(p)
    /\ jobs' = [jobs EXCEPT ![p] = Tail(@)]
    /\ \/ CanStop("client") /\ Stop("client", "err")
       \/ ~CanStop("client") /\ UNCHANGED <<phase, why, system, posted, wq, wire, udp>>
    /\ UNCHANGED <<proto, nvars, backlog, sent>>

\* The end of co_connect after stop(): hand_start; the reads that it begins fail,
\* and a kcp client, connected again, stops a second time.
ConnectedJob(p) ==
    /\ jobs[p] # <<>> /\ Head(jobs[p]).op = "connected" /\ Free(p)
    /\ jobs' = [jobs EXCEPT ![p] = Tail(@)]
    /\ Post("client", <<Event("start", "client", "ok", <<>>)>>
                      \o IF proto = "kcp" THEN <<Stopped("err", "client")>> ELSE <<>>)
    /\ UNCHANGED <<proto, nvars, avars, wvars, sent>>

-----------------------------------------------------------------------------
(* Connecting *)

Resolve ==
    /\ phase["client"] = "resolve" /\ Free("user")
    /\ phase' = [phase EXCEPT !["client"] = "connect"]
    /\ UNCHANGED <<proto, nvars, posted, jobs, why, system, wq, wvars, sent>>

\* The last wait of co_connect could end well.
CanFinish ==
    \/ proto = "tcp" /\ phase["client"] = "connect" /\ phase["listener"] = "up"
    \/ phase["client"] = "handshake" /\ phase["session"] \in {"handshake", "open", "up"}
    \/ "ack" \in udp /\ phase["client"] = "ack"

\* The name cannot be resolved, or the connect timer expires first; stop() of a
\* tcp or ssl client returns at once, for its socket is not open yet.
ResolveFails ==
    /\ phase["client"] = "resolve" /\ Free("user")
    /\ \/ CanStop("client") /\ Stop("client", "err")
       \/ /\ ~CanStop("client")
          /\ phase' = [phase EXCEPT !["client"] = "lost"]
          /\ UNCHANGED <<why, system, posted, wq, wire, udp>>
    /\ UNCHANGED <<proto, nvars, jobs, backlog, sent>>

\* Mutant of ConnectFails: the connect timer ends when the datagram is sent.
ConnectFailsEarly ==
    /\ phase["client"] \in {"connect", "handshake"} /\ Free("user")
    /\ Stop("client", "err")
    /\ UNCHANGED jobs \/ (CanFinish /\ PostJob("client", Job("connected", "client", 0)))
    /\ UNCHANGED <<proto, nvars, backlog, sent>>

\* The peer refuses, a handshake fails or the connect timer expires.  A timer
\* that expires when the connection has just been made leaves the end of
\* co_connect behind it in the io_context.
ConnectFails ==
    /\ phase["client"] \in {"connect", "handshake", "ack"} /\ Free("user")
    /\ Stop("client", "err")
    /\ UNCHANGED jobs \/ (CanFinish /\ PostJob("client", Job("connected", "client", 0)))
    /\ UNCHANGED <<proto, nvars, backlog, sent>>

\* hand_start, co_write and co_read of the client.  The connect timer is
\* cancelled; one that has just expired still runs its stop().
Established ==
    /\ phase' = [phase EXCEPT !["client"] = "up"]
    /\ Post("client", <<Event("start", "client", "ok", <<>>)>>)
    /\ UNCHANGED jobs \/ PostJob("client", Job("timeout", "client", 0))

\* The kernel has the connection (tcp, ssl), or the connect datagram is sent.
Connect ==
    /\ phase["client"] = "connect" /\ Free("user")
    /\ \/ /\ proto # "kcp" /\ phase["listener"] = "up" /\ backlog' = TRUE
          /\ \/ proto = "tcp" /\ Established
             \/ /\ proto = "ssl" /\ phase' = [phase EXCEPT !["client"] = "handshake"]
                /\ UNCHANGED <<posted, jobs>>
          /\ UNCHANGED udp
       \/ /\ proto = "kcp" /\ phase' = [phase EXCEPT !["client"] = "ack"]
          /\ Send({"connect"})
          /\ UNCHANGED <<backlog, posted, jobs>>
    /\ UNCHANGED <<proto, nvars, why, system, wq, wire, sent>>

\* A session object enters socket_system and is announced.
SessionStart ==
    /\ phase' = [phase EXCEPT !["session"] = "open"]
    /\ system' = system \cup {"session"}
    /\ Post("session", <<Event("accept", "session", "ok", <<>>)>>)

\* co_accept of the listener.
CoAccept ==
    /\ backlog /\ phase["listener"] = "up" /\ Free("server")
    /\ backlog' = FALSE
    /\ \/ proto = "tcp" /\ SessionStart
       \/ /\ proto = "ssl" /\ phase' = [phase EXCEPT !["session"] = "handshake"]
          /\ UNCHANGED <<system, posted>>
    /\ UNCHANGED <<proto, nvars, jobs, why, wq, wire, udp, sent>>

\* The TLS handshake of either end.
Handshake(s) ==
    /\ phase[s] = "handshake" /\ Free(ProcOf(s))
    /\ phase[Peer(s)] \in {"handshake", "open", "up"}
    /\ \/ s = "client" /\ Established /\ UNCHANGED system
       \/ s = "session" /\ SessionStart /\ UNCHANGED jobs
    /\ UNCHANGED <<proto, nvars, why, wq, wvars, sent>>

\* A server-side handshake whose client is gone.
HandshakeFails ==
    /\ phase["session"] = "handshake" /\ Free("server")
    /\ phase["client"] \in {"closing", "stopped"}
    /\ Stop("session", "err")
    /\ UNCHANGED <<proto, nvars, jobs, backlog, sent>>

-----------------------------------------------------------------------------
(* kcp over datagrams that may overtake each other; a lost one stays in udp for ever *)

\* kcp_server_impl::hand_accept: every connect makes a session, which answers.
KcpConnect ==
    /\ "connect" \in udp /\ phase["listener"] = "up"
    /\ SessionStart
    /\ Receive("connect", {"ack"})
    /\ UNCHANGED <<proto, nvars, jobs, why, wq, backlog, wire, sent>>

\* The first datagram the client receives.  Anything but the answer (data or a
\* heartbeat of an accepted session, a disconnect) leaves co_connect through
\* disconnect(), which does nothing before the connection is up.
KcpFirst ==
    /\ phase["client"] = "ack"
    /\ \/ "ack" \in udp /\ Established
       \/ /\ phase["session"] = "up" \/ "disc_client" \in udp
          /\ phase' = [phase EXCEPT !["client"] = "lost"] /\ UNCHANGED <<posted, jobs>>
    /\ Send({})
    /\ UNCHANGED <<proto, nvars, why, system, wq, backlog, wire, sent>>

\* The disconnect message: co_read of the client answers it with its own and
\* stops, read of the session stops.
KcpClientDisconnected ==
    /\ "disc_client" \in udp /\ phase["client"] = "up"
    /\ Disconnect("eof")
    /\ UNCHANGED <<proto, nvars, jobs, backlog, sent>>

KcpSessionDisconnected ==
    /\ "disc_session" \in udp /\ phase["session"] \in {"open", "up"}
    /\ StopNow("session", "eof")
    /\ UNCHANGED <<proto, nvars, jobs, backlog, sent>>

\* co_watchdog: nothing was heard of the peer for kcp_alive_timeout.  The
\* heartbeats of a live peer may all be lost.
KcpClientExpires ==
    /\ proto = "kcp" /\ phase["client"] = "up"
    /\ Disconnect("err")
    /\ UNCHANGED <<proto, nvars, jobs, backlog, sent>>

\* Mutant of KcpSessionExpires: a session does not watch its peer.
KcpSessionTrusts == FALSE /\ UNCHANGED vars

KcpSessionExpires ==
    /\ proto = "kcp" /\ phase["session"] = "up"
    /\ StopNow("session", "err")
    /\ UNCHANGED <<proto, nvars, jobs, backlog, sent>>

KcpStep ==
    \/ KcpFirst \/ CloseWait \/ KcpClientDisconnected \/ KcpSessionDisconnected
    \/ KcpClientExpires \/ KcpSessionExpires

-----------------------------------------------------------------------------
(* Data *)

\* Mutant of Flush: what was sent stays in write_deque_.
FlushKeeps(s) ==
    /\ phase[s] = "up" /\ wq[s] # <<>> /\ Len(wire[s]) < 4
    /\ wire' = [wire EXCEPT ![s] = @ \o wq[s]]
    /\ UNCHANGED <<proto, nvars, posted, jobs, avars, backlog, udp, sent>>

\* What is queued goes out.
Flush(s) ==
    /\ phase[s] = "up" /\ wq[s] # <<>>
    /\ wire' = [wire EXCEPT ![s] = @ \o wq[s]] /\ wq' = [wq EXCEPT ![s] = <<>>]
    /\ UNCHANGED <<proto, nvars, posted, jobs, phase, why, system, backlog, udp, sent>>

\* Some of what has arrived is passed on.
Pass(s) ==
    /\ \E n \in 1..Len(wire[Peer(s)]) :
        /\ Post(s, <<Event("read", s, "ok", SubSeq(wire[Peer(s)], 1, n))>>)
        /\ wire' = [wire EXCEPT ![Peer(s)] = SubSeq(@, n + 1, Len(@))]
    /\ UNCHANGED <<proto, nvars, jobs, avars, backlog, udp, sent>>

CoWrite(s) == proto # "kcp" /\ Free(ProcOf(s)) /\ Flush(s)
CoRead(s) == proto # "kcp" /\ phase[s] = "up" /\ Free(ProcOf(s)) /\ Pass(s)

\* ikcp_send and the next update; ikcp, which is external, delivers in order.
CoKcpUpdate(s) == proto = "kcp" /\ Flush(s)

\* hand_read_data; the server also reads for sessions nobody has accepted yet.
HandReadData(s) ==
    proto = "kcp" /\ phase[s] \in (IF s = "session" THEN {"open", "up"} ELSE {"up"}) /\ Pass(s)

\* The other end has closed its socket, or its listener did before accepting.
PeerGone(s) ==
    \/ phase[Peer(s)] \in {"closing", "stopped"}
    \/ s = "client" /\ phase["session"] = "none" /\ phase["listener"] = "stopped"

\* co_read sees the end of the stream, or a reset that drops what is on its way.
CoReadEnds(s) ==
    /\ proto # "kcp" /\ phase[s] = "up" /\ Free(ProcOf(s)) /\ PeerGone(s)
    /\ \/ wire[Peer(s)] = <<>> /\ Stop(s, "eof")
       \/ Stop(s, "err")
    /\ UNCHANGED <<proto, nvars, jobs, backlog, sent>>

-----------------------------------------------------------------------------

\* Steps of the scheduler threads that do not depend on what a coroutine wants.
SchedulerStep(p) == HandStart(p) \/ HandStop(p) \/ HandRead(p) \/ HandAccept(p)

\* Posted functions of the asio threads.
RunJob(p) == StartJob(p) \/ AcceptJob(p) \/ WriteJob(p) \/ CloseJob(p)
             \/ TimeoutJob(p) \/ ConnectedJob(p)

\* Completion of asio operations.
ConnectStep == Resolve \/ ResolveFails \/ ConnectFails \/ Connect
AcceptStep == CoAccept \/ HandshakeFails \/ KcpConnect

\* What each coroutine reads with.
Reads(c) == IF c = "helper" THEN {"read"} ELSE {"read", "read_size"}

CoroStep ==
    \/ Open("connector", "client") \/ Open("acceptor", "listener")
    \/ Accept("acceptor")
    \/ \E c \in Coros, s \in Ends :
        ProcOf(c) = ProcOf(s) /\ (Write(c, s) \/ \E w \in Reads(c) : Read(c, s, w))
    \/ \E s \in SocketIds : Close(s)
    \/ \E c \in Coros : Cancel(c)

Next ==
    \/ CoroStep
    \/ \E c \in Coros : ResumeCancelled(c)
    \/ \E p \in Processes : SchedulerStep(p) \/ RunJob(p)
    \/ ConnectStep \/ AcceptStep \/ KcpStep
    \/ \E s \in Ends : \/ FinishShutdown(s) \/ Handshake(s) \/ CoWrite(s) \/ CoRead(s)
                       \/ CoKcpUpdate(s) \/ HandReadData(s) \/ CoReadEnds(s)

Spec == Init /\ [][Next]_vars

\* The watchdog of a kcp end has to expire when the other end has fallen silent.
KcpSilence ==
    \/ phase["session"] \notin {"open", "up"} /\ KcpClientExpires
    \/ phase["client"] # "up" /\ KcpSessionExpires

\* What is due without any coroutine asking for it: the posted functions of both
\* threads and the wake queue run, asio completes what it was asked for, timers
\* expire.  Every such step uses up something (an entry of a queue, a phase of a
\* socket), so that fairness of them together is fairness of each.
Due ==
    \/ \E p \in Processes : SchedulerStep(p) \/ RunJob(p)
    \/ \E c \in Coros : ResumeCancelled(c)
    \/ ConnectStep \/ CloseWait \/ HandshakeFails
    \/ KcpSilence \/ \E s \in Ends : FinishShutdown(s) \/ CoReadEnds(s)

FairSpec == Spec /\ WF_vars(Due)

-----------------------------------------------------------------------------
(* Properties *)

\* The asio side has given the socket up without a report: an address that is
\* not one, a listener that cannot be opened, a name that is not resolved in time,
\* a kcp client whose first datagram is not the answer.
GivenUp(s) == phase[s] = "lost"

\* A coroutine suspended at a socket (network_awaiter::await_suspend) can be
\* reached: it is in the wake queue, or its socket is in network::sockets_ with
\* this handle while the asio thread still has to report on the socket.
Reachable(c) ==
    \/ c \in woken
    \/ LET s == SockOf(c) IN
       /\ s \in known /\ handle[s] = c
       /\ \/ phase[s] \notin {"none", "stopped"} /\ ~GivenUp(s)
          \/ \E i \in DOMAIN jobs[ProcOf(s)] : jobs[ProcOf(s)][i] = Job("start", s, 0)
          \/ \E i \in DOMAIN posted[ProcOf(s)] :
                posted[ProcOf(s)][i].ev = "stop" /\ posted[ProcOf(s)][i].s = s

\* A socket the asio thread keeps open has an owner on the coroutine side: some
\* coroutine was given its id, waits for it or will be given it, or its close is
\* on the way.  The exceptions (leaked) are a cancelled connect or listen and
\* the sessions queued at a listener that ends.
Owned(s) ==
    \/ s \in ids[ProcOf(s)] \cup leaked
    \/ \E c \in Coros : pc[c] = "start" /\ SockOf(c) = s
    \/ "listener" \in known /\ s \in Range(accepted)
    \/ \E i \in DOMAIN posted[ProcOf(s)] :
        posted[ProcOf(s)][i].ev = "accept" /\ posted[ProcOf(s)][i].s = s
    \/ \E i \in DOMAIN jobs[ProcOf(s)] : jobs[ProcOf(s)][i] = Job("close", s, 0)

\* Neither thread loses what belongs to the other: a coroutine waits where
\* nothing can resume it only for a socket that was given up, and then its handle
\* is still where a cancellation finds it; no handle in network::sockets_ belongs
\* to a coroutine that went on, so that no hand_start, hand_read, hand_stop or
\* hand_accept resumes it again; and no socket stays open that nobody can close.
NothingOrphaned ==
    /\ TypeOK
    /\ \A c \in Coros : Suspended(c) =>
        Reachable(c) \/ (pc[c] = "start" /\ GivenUp(SockOf(c)) /\ handle[SockOf(c)] = c)
    /\ \A s \in known : handle[s] # None =>
        Suspended(handle[s]) /\ handle[s] \notin woken /\ SockOf(handle[s]) = s
    /\ \A s \in SocketIds : phase[s] \in {"open", "up"} => Owned(s)

\* What coroutines have read from a socket and what its buffer holds
\* (hand_read, read, read_size) is what the other end wrote (co_write), in
\* order and without a gap.
InOrder ==
    \A s \in Ends : \A i \in DOMAIN (got[s] \o buf[s]) : (got[s] \o buf[s])[i] = i

\* A coroutine that waits for a socket which is being opened or has ended is
\* resumed.  There are two exceptions: a socket that was given up, and a TLS
\* shutdown of the asio thread that nobody at the other end will answer, for the
\* session has not been accepted.
Unreported(s) ==
    \/ GivenUp(s)
    \/ s \in Ends /\ phase[s] = "closing" /\ phase[Peer(s)] = "open"

WaitEnds ==
    \A c \in Coros :
        (Suspended(c) /\ phase[SockOf(c)] \notin {"open", "up"})
            ~> (~Suspended(c) \/ Unreported(SockOf(c)))

\* When one end of an established connection has stopped, the other end stops:
\* by the end of the stream (co_read), by the disconnect message or by the
\* watchdog (co_watchdog).
EndNoticed ==
    \A s \in Ends :
        (phase[s] = "stopped" /\ phase[Peer(s)] = "up") ~> phase[Peer(s)] = "stopped"
=============================================================================
