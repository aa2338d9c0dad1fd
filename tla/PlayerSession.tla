---------------------------- MODULE PlayerSession ---------------------------
(***************************************************************************)
(* A player's way into a game: the client, the proxy that holds its        *)
(* connection, and the login service that asks the others before it        *)
(* answers.  The services behind them are not in the repository (logic     *)
(* manager, logic, room) or have no handler yet (center); they are one     *)
(* environment that answers any request late, with success or failure, or  *)
(* not at all, keeps the game and knows which connections are online.      *)
(*                                                                         *)
(* There is one player.  Either the client of the repository connects,     *)
(* again after each loss of the connection, or a client that does not wait *)
(* for its login to be answered before it sends more.  A connection is its *)
(* number, which is also the proxy's socket.                               *)
(***************************************************************************)
EXTENDS Naturals, Sequences

CONSTANTS
    MaxConns,       \* bound on the connections of the client
    Budgets,        \* bounds for a behaviour: who the client is (prog: "game" or
                    \* "eager"), how many connections it makes, how many requests it
                    \* sends before the user makes no more, its pings, the moves of
                    \* the games and the connections that are kicked
    None

Conns == 1..MaxConns

ASSUME PlayerSessionAssumption ==
    /\ MaxConns \in Nat
    /\ Budgets \subseteq [prog : {"game", "eager"}, conns : Conns, requests : Nat,
                          pings : Nat, moves : Nat, kicks : Nat]

VARIABLES
    \* the connections
    link,           \* "none", "up", "down"
    up, down,       \* messages to the proxy and to the client
    session,        \* the last number of create_session
    \* the client
    budget,         \* the bounds, and with them who the client is
    ws,             \* the connection of ws_, or 0
    lpc,            \* where logic() waits
    awaited,        \* the session it waits for, or 0
    woken,          \* what its wake-up in the scheduler's queue brings, or None
    croom, turn,    \* room_ > 0, is_my_turn_
    afterTurn,      \* next_game was called from line 203
    inputs,         \* who the lines are for that the pool reads from the console:
                    \* logic() or run(), and the connection
    pings,          \* pings sent
    \* the proxy
    sock,           \* sockets_
    subscribed,     \* a login service is known
    \* the login service
    lg,             \* where client_login is for each connection
    lack,           \* its answer on the way to the proxy, or None
    \* the other services
    asked,          \* requests they have not answered
    online,         \* connections that the logic service has logged in
    fg,             \* their messages on the way to the proxy
    room,           \* the player is in a game
    rturn,          \* whose turn it is: "me", "opponent", "nobody"
    entered,        \* the connection that the room sends to, or 0
    moves, kicks,   \* how many
    \* history
    others,         \* what the proxy has taken for the logic service, by connection
    logicGot,       \* what has got there
    answered,       \* connections whose login has been answered
    overtaken       \* a move was applied before an answer that came earlier

links == <<link, up, down, session>>
client == <<budget, ws, lpc, awaited, woken, croom, turn, afterTurn, inputs, pings>>
proxy == <<sock, subscribed>>
login == <<lg, lack>>
services == <<asked, online, fg, room, rturn, entered, moves, kicks>>
history == <<others, logicGot, answered, overtaken>>
vars == <<links, client, proxy, login, services, history>>

Eager == budget.prog = "eager"

\* Where logic() sleeps: after each of its first three calls, and after a line
\* that it does not take for a move.
Sleeps == {"loggedIn", "matched", "entered", "refused"}

Closed == [st |-> "none", userid |-> 0, wait |-> FALSE, logic |-> 0, room |-> 0, cache |-> <<>>]

TypeOK ==
    /\ link \in [Conns -> {"none", "up", "down"}]
    /\ budget \in Budgets /\ ws \in 0..MaxConns
    /\ lpc \in {"none", "login", "match", "enter", "turn", "input", "move", "next", "end"} \cup Sleeps
    /\ croom \in 0..1 /\ turn \in BOOLEAN /\ afterTurn \in BOOLEAN /\ pings \in Nat
    /\ \A k \in Conns : sock[k].st \in {"none", "open", "gone"} /\ sock[k].wait \in BOOLEAN
    /\ \A k \in Conns : lg[k].step \in {"none", "center", "master", "logic", "late", "done"}
    /\ online \subseteq Conns /\ answered \subseteq Conns
    /\ room \in 0..1 /\ rturn \in {"me", "opponent", "nobody"} /\ entered \in 0..MaxConns

Init ==
    /\ link = [k \in Conns |-> "none"] /\ session = 0
    /\ up = [k \in Conns |-> <<>>] /\ down = [k \in Conns |-> <<>>]
    /\ budget \in Budgets
    /\ ws = 0 /\ lpc = "none" /\ awaited = 0 /\ woken = None /\ croom = 0 /\ turn = FALSE
    /\ afterTurn = FALSE /\ inputs = {} /\ pings = 0
    /\ sock = [k \in Conns |-> Closed] /\ subscribed = FALSE
    /\ lg = [k \in Conns |-> [step |-> "none", session |-> 0]] /\ lack = [k \in Conns |-> None]
    /\ asked = {} /\ online = {} /\ fg = <<>>
    /\ room = 0 /\ rturn = "nobody" /\ entered = 0 /\ moves = 0 /\ kicks = 0
    /\ others = [k \in Conns |-> <<>>] /\ logicGot = [k \in Conns |-> <<>>]
    /\ answered = {} /\ overtaken = FALSE

-----------------------------------------------------------------------------
(* The client *)

Req(id) == [id |-> id, session |-> session + 1]

\* client::call: the request leaves under a new session, logic() waits for it.
Call(id) ==
    /\ up' = [up EXCEPT ![ws] = Append(@, Req(id))] /\ session' = session + 1
    /\ lpc' = id /\ awaited' = session + 1
    /\ UNCHANGED <<link, down>>

\* run: connect, then logic() sends the login.  The proxy accepts.
Connect(k) ==
    /\ ws = 0 /\ lpc = "none" /\ \A q \in inputs : q[1] # "run"
    /\ k <= budget.conns /\ link[k] = "none" /\ \A j \in 1..k - 1 : link[j] # "none"
    /\ Eager => session = 0
    /\ ws' = k /\ link' = [link EXCEPT ![k] = "up"]
    /\ sock' = [sock EXCEPT ![k].st = "open"]
    /\ \/ /\ ~Eager /\ lpc' = "login" /\ session' = session + 1 /\ awaited' = session + 1
          /\ up' = [up EXCEPT ![k] = <<Req("login")>>]
       \/ Eager /\ UNCHANGED <<lpc, awaited, session, up>>
    /\ overtaken' = FALSE
    /\ UNCHANGED <<down, budget, woken, croom, turn, afterTurn, inputs, pings, subscribed, login, services,
                   others, logicGot, answered>>

\* A client that does not wait sends what it likes.
SendEagerly(id) ==
    /\ Eager /\ ws # 0 /\ link[ws] = "up" /\ session < budget.requests
    /\ up' = [up EXCEPT ![ws] = Append(@, Req(id))] /\ session' = session + 1
    /\ UNCHANGED <<link, down, client, proxy, login, services, history>>

\* auto_ping: the ping, and the end of the connection when it is not answered.
Ping ==
    /\ ~Eager /\ ws # 0 /\ link[ws] = "up" /\ pings < budget.pings
    /\ up' = [up EXCEPT ![ws] = Append(@, Req("ping"))] /\ session' = session + 1
    /\ pings' = pings + 1
    /\ UNCHANGED <<link, down, budget, ws, lpc, awaited, woken, croom, turn, afterTurn, inputs, proxy, login, services, history>>

\* The connection is lost, or one end closes it, after an unanswered ping too.
Break(k) ==
    /\ link[k] = "up" /\ link' = [link EXCEPT ![k] = "down"]
    /\ UNCHANGED <<up, down, session, client, proxy, login, services, history>>

Awaits(msg) == msg.id # "brd" /\ msg.session = awaited /\ awaited # 0

\* Mutant of ReceiveMove: nobody is notified.
ReceiveMoveSilently(msg) ==
    /\ msg.id = "brd"
    /\ turn' = TRUE /\ croom' = IF msg.over THEN 0 ELSE croom
    /\ overtaken' = (overtaken \/ (woken # None /\ lpc \in {"enter", "move"}))
    /\ UNCHANGED woken

\* forward_message: the opponent's move is applied at once, whatever the logic()
\* coroutine is about to be resumed with; if it waits for its turn it is notified.
ReceiveMove(msg) ==
    /\ msg.id = "brd"
    /\ turn' = TRUE /\ croom' = IF msg.over THEN 0 ELSE croom
    /\ woken' = IF lpc = "turn" /\ woken = None THEN [id |-> "cv"] ELSE woken
    /\ overtaken' = (overtaken \/ (woken # None /\ lpc \in {"enter", "move"}))

\* run: the next message.  An answer wakes its caller, who is resumed later.
Receive ==
    /\ ws # 0 /\ lpc # "end" /\ down[ws] # <<>>
    /\ LET msg == Head(down[ws]) IN
       \/ ~Eager /\ ReceiveMove(msg) /\ UNCHANGED awaited
       \/ /\ ~Eager /\ Awaits(msg)
          /\ woken' = msg /\ awaited' = 0 /\ UNCHANGED <<turn, croom, overtaken>>
       \/ /\ Eager \/ (msg.id # "brd" /\ ~Awaits(msg))
          /\ UNCHANGED <<turn, croom, awaited, woken, overtaken>>
    /\ down' = [down EXCEPT ![ws] = Tail(@)]
    /\ UNCHANGED <<link, up, session, budget, ws, lpc, afterTurn, inputs, pings, proxy, login, services,
                   others, logicGot, answered>>

\* application::stop: the process ends, and its connections with it.
StopClient ==
    /\ lpc' = "end" /\ inputs' = {}
    /\ link' = [link EXCEPT ![ws] = "down"]
    /\ UNCHANGED <<up, down, session, awaited>>

\* The head of the loop in logic().
TakeTurn(mine) ==
    /\ lpc' = IF mine THEN "input" ELSE "turn"
    /\ inputs' = IF mine THEN inputs \cup {<<"logic", ws>>} ELSE inputs
    /\ UNCHANGED <<links, awaited>>

\* next_game: shall there be another one?
AskNext == lpc' = "next" /\ inputs' = inputs \cup {<<"logic", ws>>} /\ UNCHANGED <<links, awaited>>

Sleep(where) == lpc' = where /\ UNCHANGED <<links, awaited>>

ResumeLogin ==
    /\ lpc = "login"
    /\ \/ woken.ok /\ croom' = woken.room /\ Sleep("loggedIn") /\ UNCHANGED inputs
       \/ ~woken.ok /\ StopClient /\ UNCHANGED croom
    /\ UNCHANGED <<turn, afterTurn>>

ResumeMatch ==
    /\ lpc = "match"
    /\ \/ woken.ok /\ croom' = woken.room /\ Sleep("matched") /\ UNCHANGED inputs
       \/ ~woken.ok /\ StopClient /\ UNCHANGED croom
    /\ UNCHANGED <<turn, afterTurn>>

ResumeEnter ==
    /\ lpc = "enter"
    /\ \/ woken.ok /\ turn' = woken.turn /\ Sleep("entered") /\ UNCHANGED inputs
       \/ ~woken.ok /\ StopClient /\ UNCHANGED turn
    /\ UNCHANGED <<croom, afterTurn>>

ResumeMove ==
    /\ lpc = "move"
    /\ \/ woken.ok /\ woken.invalid /\ TakeTurn(turn) /\ UNCHANGED <<turn, croom>>
       \/ /\ woken.ok /\ ~woken.invalid
          /\ turn' = FALSE /\ croom' = IF woken.over THEN 0 ELSE croom
          /\ IF croom' = 0 THEN AskNext ELSE TakeTurn(FALSE)
       \/ ~woken.ok /\ StopClient /\ UNCHANGED <<turn, croom>>
    /\ UNCHANGED afterTurn

ResumeTurn ==
    /\ lpc = "turn"
    /\ \/ croom = 0 /\ AskNext /\ afterTurn' = TRUE
       \/ croom # 0 /\ TakeTurn(TRUE) /\ UNCHANGED afterTurn
    /\ UNCHANGED <<turn, croom>>

\* The scheduler resumes logic().
Resume ==
    /\ woken # None /\ woken' = None
    /\ ResumeLogin \/ ResumeMatch \/ ResumeEnter \/ ResumeMove \/ ResumeTurn
    /\ UNCHANGED <<budget, ws, pings, proxy, login, services, history>>

\* The timer of a sleep: logic() goes on with what room_ and is_my_turn_ are by
\* now.  After the end of a game that it noticed while it waited for its turn, it
\* asks for a move without looking whose turn it is in the next one; after the end
\* of one in the last sleep it asks for a move in a game that is over.
SleepEnds ==
    /\ \/ lpc = "loggedIn" /\ Call(IF croom = 0 THEN "match" ELSE "enter") /\ UNCHANGED <<inputs, afterTurn>>
       \/ lpc = "matched" /\ Call("enter") /\ UNCHANGED <<inputs, afterTurn>>
       \/ lpc = "entered" /\ TakeTurn(turn \/ afterTurn) /\ afterTurn' = FALSE
       \/ lpc = "refused" /\ TakeTurn(turn) /\ UNCHANGED afterTurn
    /\ UNCHANGED <<budget, ws, woken, croom, turn, pings, proxy, login, services, history>>

\* A line is read from the console, for one of those who asked for one: a
\* coroutine that was cancelled meanwhile has left its reader behind.  The board
\* is not modelled: a line asked for as a move is sent, or is refused.
Type(reader) ==
    /\ reader \in inputs
    /\ \/ /\ reader = <<"logic", ws>> /\ lpc = "input" /\ inputs' = inputs \ {reader}
          /\ \/ session < budget.requests /\ Call("move")
             \/ Sleep("refused")
       \/ /\ reader = <<"logic", ws>> /\ lpc = "next"
          /\ \/ session < budget.requests /\ Call("match") /\ inputs' = inputs \ {reader}
             \/ StopClient
       \/ /\ reader[1] = "run" /\ inputs' = inputs \ {reader}
          /\ \/ UNCHANGED <<links, lpc, awaited>>
             \/ lpc' = "end" /\ UNCHANGED <<links, awaited>>
       \/ /\ reader[1] = "logic" /\ reader[2] # ws
          /\ inputs' = inputs \ {reader} /\ UNCHANGED <<links, lpc, awaited>>
    /\ UNCHANGED <<budget, ws, woken, croom, turn, afterTurn, pings, proxy, login, services, history>>

\* run: the read throws; logic() and auto_ping are cancelled, the user asked.
LoseConnection ==
    /\ ws # 0 /\ link[ws] = "down" /\ ws' = 0
    /\ awaited' = 0 /\ woken' = None /\ afterTurn' = FALSE
    /\ \/ ~Eager /\ lpc # "end" /\ lpc' = "none" /\ inputs' = inputs \cup {<<"run", ws>>}
       \/ (Eager \/ lpc = "end") /\ UNCHANGED <<lpc, inputs>>
    /\ down' = [down EXCEPT ![ws] = <<>>]
    /\ UNCHANGED <<link, up, session, budget, croom, turn, pings, proxy, login, services, history>>

-----------------------------------------------------------------------------
(* The proxy *)

Reply(k, msg) == down' = [down EXCEPT ![k] = IF link[k] = "up" THEN Append(@, msg) ELSE @]

Ack(id, n, ok) == [id |-> id, session |-> n, ok |-> ok, room |-> 0, turn |-> FALSE, over |-> FALSE, invalid |-> FALSE]

Asked(k, msg) == [id |-> msg.id, session |-> msg.session, conn |-> k]

\* socket_start, forward_client: the next message, by the table of handlers.
Read(k, ids) ==
    /\ sock[k].st = "open" /\ up[k] # <<>> /\ Head(up[k]).id \in ids
    /\ up' = [up EXCEPT ![k] = Tail(@)]
    /\ UNCHANGED <<session, client, subscribed, lack, online, fg, room, rturn, entered, moves, kicks, answered, overtaken>>

\* login::forward_shm starts client_login; a request that does not parse, which the
\* client of the repository never makes, is dropped without an answer.
LoginStarts(k, n) ==
    \/ lg' = [lg EXCEPT ![k] = [step |-> "center", session |-> n]]
    \/ Eager /\ UNCHANGED lg

\* client_register_msg: to a login service, if one is known.
ClientRegister(k) ==
    /\ Read(k, {"login"})
    /\ \/ /\ sock[k].userid > 0 \/ sock[k].wait
          /\ link' = [link EXCEPT ![k] = "down"]
          /\ UNCHANGED <<sock, lg>>
       \/ /\ sock[k].userid = 0 /\ ~sock[k].wait
          /\ sock' = [sock EXCEPT ![k].wait = TRUE]
          /\ \/ subscribed /\ LoginStarts(k, Head(up[k]).session)
             \/ ~subscribed /\ UNCHANGED lg
          /\ UNCHANGED link
    /\ UNCHANGED <<down, asked, others, logicGot>>

ClientRoom(k) ==
    /\ Read(k, {"enter", "move"})
    /\ \/ /\ sock[k].room = 0 /\ UNCHANGED asked
          /\ Reply(k, Ack("no_match", Head(up[k]).session, FALSE))
       \/ sock[k].room # 0 /\ asked' = asked \cup {Asked(k, Head(up[k]))} /\ UNCHANGED down
    /\ UNCHANGED <<link, sock, lg, others, logicGot>>

\* send_to_service: the message carries the user of the socket.
Forwarded(k, msg) == [session |-> msg.session, userid |-> sock'[k].userid]

ClientOther(k) ==
    /\ Read(k, {"ping", "match"})
    /\ LET msg == Head(up[k]) IN
       \/ /\ msg.id = "ping" /\ (sock[k].wait \/ sock[k].userid = 0)
          /\ Reply(k, Ack("pong", msg.session, TRUE)) /\ UNCHANGED <<sock, asked, others, logicGot>>
       \/ /\ msg.id # "ping" /\ sock[k].wait
          /\ sock' = [sock EXCEPT ![k].cache = Append(@, msg)]
          /\ others' = [others EXCEPT ![k] = Append(@, msg.session)]
          /\ UNCHANGED <<down, asked, logicGot>>
       \/ /\ msg.id # "ping" /\ ~sock[k].wait /\ sock[k].userid = 0
          /\ UNCHANGED <<down, sock, asked, others, logicGot>>
       \/ /\ ~sock[k].wait /\ sock[k].userid # 0 /\ UNCHANGED <<down, sock>>
          /\ asked' = asked \cup {Asked(k, msg)}
          /\ others' = [others EXCEPT ![k] = Append(@, msg.session)]
          /\ logicGot' = [logicGot EXCEPT ![k] = Append(@, Forwarded(k, msg))]
    /\ UNCHANGED <<link, lg>>

\* Mutant of ClientLoginAck: what was cached stays there.
ClientLoginAckKeeps(k, ack) ==
    \/ /\ ack.ok
       /\ sock' = [sock EXCEPT ![k].logic = 1, ![k].wait = FALSE, ![k].room = ack.room, ![k].userid = 1]
       /\ UNCHANGED <<logicGot, asked>>
    \/ ~ack.ok /\ UNCHANGED <<sock, logicGot, asked>>

\* client_login_ack: after a success the cached messages go to the logic service;
\* after a failure the socket keeps waiting.
ClientLoginAck(k, ack) ==
    \/ /\ ack.ok
       /\ sock' = [sock EXCEPT ![k].logic = 1, ![k].wait = FALSE, ![k].room = ack.room,
                               ![k].userid = 1, ![k].cache = <<>>]
       /\ logicGot' = [logicGot EXCEPT ![k] = @ \o [i \in DOMAIN sock[k].cache |-> Forwarded(k, sock[k].cache[i])]]
       /\ asked' = asked \cup {Asked(k, sock[k].cache[i]) : i \in DOMAIN sock[k].cache}
    \/ ~ack.ok /\ UNCHANGED <<sock, logicGot, asked>>

\* client_forward_brd for the login's answer, which names no user.
ForwardLogin(k) ==
    /\ lack[k] # None /\ lack' = [lack EXCEPT ![k] = None]
    /\ \/ /\ sock[k].st = "open" /\ sock[k].userid = 0
          /\ ClientLoginAck(k, lack[k])
          /\ Reply(k, lack[k]) /\ answered' = answered \cup {k}
       \/ /\ sock[k].st # "open" \/ sock[k].userid # 0
          /\ UNCHANGED <<sock, logicGot, asked, down, answered>>
    /\ UNCHANGED <<link, up, session, client, subscribed, lg, online, fg, room, rturn, entered, moves, kicks,
                   others, overtaken>>

\* client_match_ack, client_move_brd, client_move_ack: the room the socket is in.
RoomAfter(k, msg) ==
    IF msg.id = "match" /\ msg.ok THEN msg.room
    ELSE IF msg.id \in {"brd", "move"} /\ msg.ok /\ msg.over THEN 0
    ELSE sock[k].room

\* client_forward_brd for what the logic and the room services send.
ForwardGame ==
    /\ fg # <<>> /\ Head(fg).msg.id # "kick" /\ fg' = Tail(fg)
    /\ LET msg == Head(fg).msg
           k == Head(fg).conn
       IN \/ /\ sock[k].st = "open" /\ sock[k].userid = 1
             /\ sock' = [sock EXCEPT ![k].room = RoomAfter(k, msg)]
             /\ Reply(k, msg)
          \/ (sock[k].st # "open" \/ sock[k].userid # 1) /\ UNCHANGED <<sock, down>>
    /\ UNCHANGED <<link, up, session, client, subscribed, login, asked, online, room, rturn, entered, moves, kicks, history>>

\* kick_client; its answer to the logic service is left out, nothing depends on it.
KickClient ==
    /\ fg # <<>> /\ Head(fg).msg.id = "kick" /\ fg' = Tail(fg)
    /\ LET k == Head(fg).conn
       IN link' = IF sock[k].st = "open" /\ sock[k].userid = 1 THEN [link EXCEPT ![k] = "down"] ELSE link
    /\ UNCHANGED <<up, down, session, client, proxy, login, asked, online, room, rturn, entered, moves, kicks, history>>

\* Mutant of SocketEnds: the logic service is not told.
SocketEndsSilently(k) ==
    /\ sock[k].st = "open" /\ link[k] = "down"
    /\ sock' = [sock EXCEPT ![k].st = "gone"] /\ up' = [up EXCEPT ![k] = <<>>]
    /\ UNCHANGED <<link, down, session, client, subscribed, login, services, history>>

\* socket_start: the read throws, or socket_check has closed the silent socket.
\* The logic service is told if the login had succeeded.
SocketEnds(k) ==
    /\ sock[k].st = "open" /\ link[k] = "down"
    /\ sock' = [sock EXCEPT ![k].st = "gone"] /\ up' = [up EXCEPT ![k] = <<>>]
    /\ online' = IF sock[k].logic > 0 THEN online \ {k} ELSE online
    /\ UNCHANGED <<link, down, session, client, subscribed, login, asked, fg, room, rturn, entered, moves, kicks, history>>

\* on_register_to_gate: the subscription's answer, or a login service that starts.
Subscribe ==
    /\ ~subscribed /\ subscribed' = TRUE
    /\ UNCHANGED <<links, client, sock, login, services, history>>

-----------------------------------------------------------------------------
(* The login service *)

\* The end of client_login: every way there answers.
AnswerLogin(k, ok, step) ==
    /\ lg' = [lg EXCEPT ![k].step = step]
    /\ lack' = [lack EXCEPT ![k] = [Ack("login", lg[k].session, ok) EXCEPT !.room = IF ok THEN room ELSE 0]]

\* internal_login: the center's answer.
InternalLogin(k) ==
    /\ lg[k].step = "center"
    /\ \/ lg' = [lg EXCEPT ![k].step = "master"] /\ UNCHANGED lack
       \/ AnswerLogin(k, FALSE, "done")
    /\ UNCHANGED <<links, client, proxy, services, history>>

\* internal_get_logic: the answer of the logic manager.
InternalGetLogic(k) ==
    /\ lg[k].step = "master"
    /\ \/ lg' = [lg EXCEPT ![k].step = "logic"] /\ UNCHANGED lack
       \/ AnswerLogin(k, FALSE, "done")
    /\ UNCHANGED <<links, client, proxy, services, history>>

\* internal_login_logic: the logic service has the connection online and answers,
\* or it refuses.
InternalLoginLogic(k) ==
    /\ lg[k].step = "logic"
    /\ \/ AnswerLogin(k, TRUE, "done") /\ online' = online \cup {k}
       \/ AnswerLogin(k, FALSE, "done") /\ UNCHANGED online
    /\ UNCHANGED <<links, client, proxy, asked, fg, room, rturn, entered, moves, kicks, history>>

\* Mutant of RpcTimeout: the coroutine ends without an answer.
RpcTimeoutSilently(k) ==
    /\ lg[k].step \in {"center", "master", "logic"}
    /\ lg' = [lg EXCEPT ![k].step = IF @ = "logic" THEN "late" ELSE "done"] /\ UNCHANGED lack
    /\ UNCHANGED <<links, client, proxy, services, history>>

\* rpc_timeout: ten seconds without an answer.  One that comes later finds no
\* session; the request to the logic service may still be on its way.
RpcTimeout(k) ==
    /\ lg[k].step \in {"center", "master", "logic"}
    /\ AnswerLogin(k, FALSE, IF lg[k].step = "logic" THEN "late" ELSE "done")
    /\ UNCHANGED <<links, client, proxy, services, history>>

-----------------------------------------------------------------------------
(* The services behind *)

\* The logic service takes a request whose sender waits no longer.
LogsInLate(k) ==
    /\ lg[k].step = "late" /\ lg' = [lg EXCEPT ![k].step = "done"]
    /\ online' = online \cup {k}
    /\ UNCHANGED <<links, client, proxy, lack, asked, fg, room, rturn, entered, moves, kicks, history>>

\* A message of these services to the proxy, gate_connector::write there.  It gets
\* through, in order: the services are taken to be on the machine of the proxy,
\* all the way in shared memory (GateRouting is about the others).
Send(k, msg) == fg' = Append(fg, [conn |-> k, msg |-> msg])

\* The logic service answers a request to be matched, or a ping.
LogicAnswers(req) ==
    /\ req \in asked /\ req.id \in {"match", "ping"} /\ asked' = asked \ {req}
    /\ \/ /\ req.id = "ping" /\ Send(req.conn, Ack("pong", req.session, TRUE)) /\ UNCHANGED <<room, rturn, entered>>
       \/ /\ req.id = "match" /\ room' = 1
          /\ Send(req.conn, [Ack("match", req.session, TRUE) EXCEPT !.room = 1])
          /\ IF room = 1 THEN UNCHANGED <<rturn, entered>>
             ELSE rturn' \in {"me", "opponent"} /\ entered' = 0
       \/ /\ req.id = "match" /\ Send(req.conn, Ack("match", req.session, FALSE)) /\ UNCHANGED <<room, rturn, entered>>
    /\ UNCHANGED <<links, client, proxy, login, online, moves, kicks, history>>

\* The room takes its requests in the order in which the proxy sent them.
FirstOfRoom(req) == \A q \in asked : q.id \in {"enter", "move"} => req.session <= q.session

\* The room lets the player in, and sends to the newest connection that came in.
RoomAnswersEnter(req) ==
    /\ req \in asked /\ req.id = "enter" /\ FirstOfRoom(req) /\ asked' = asked \ {req}
    /\ \/ /\ room = 1 /\ entered' = IF req.conn > entered THEN req.conn ELSE entered
          /\ Send(req.conn, [Ack("enter", req.session, TRUE) EXCEPT !.turn = (rturn = "me")])
       \/ room = 0 /\ Send(req.conn, Ack("enter", req.session, FALSE)) /\ UNCHANGED entered
    /\ UNCHANGED <<links, client, proxy, login, online, room, rturn, moves, kicks, history>>

\* The room takes the player's move; it may end the game.
RoomAnswersMove(req) ==
    /\ req \in asked /\ req.id = "move" /\ FirstOfRoom(req) /\ asked' = asked \ {req}
    /\ \/ /\ room = 1 /\ rturn = "me" /\ moves < budget.moves /\ moves' = moves + 1
          /\ \E over \in BOOLEAN :
                /\ Send(req.conn, [Ack("move", req.session, TRUE) EXCEPT !.over = over])
                /\ room' = IF over THEN 0 ELSE 1
                /\ rturn' = IF over THEN "nobody" ELSE "opponent"
       \/ /\ room = 1 /\ rturn = "me" /\ Send(req.conn, [Ack("move", req.session, TRUE) EXCEPT !.invalid = TRUE])
          /\ UNCHANGED <<room, rturn, moves>>
       \/ /\ room = 0 \/ rturn # "me"
          /\ Send(req.conn, Ack("move", req.session, FALSE)) /\ UNCHANGED <<room, rturn, moves>>
    /\ UNCHANGED <<links, client, proxy, login, online, entered, kicks, history>>

\* The opponent moves; the player is told where it is online.
OpponentMoves ==
    /\ room = 1 /\ rturn = "opponent" /\ moves < budget.moves /\ moves' = moves + 1
    /\ \E over \in BOOLEAN :
          /\ room' = IF over THEN 0 ELSE 1
          /\ rturn' = IF over THEN "nobody" ELSE "me"
          /\ IF entered \in online THEN Send(entered, [Ack("brd", 0, TRUE) EXCEPT !.over = over]) ELSE UNCHANGED fg
    /\ UNCHANGED <<links, client, proxy, login, asked, online, entered, kicks, history>>

\* The logic service has a connection closed, for instance for a newer one.
Kick(k) ==
    /\ k \in online /\ kicks < budget.kicks /\ kicks' = kicks + 1
    /\ Send(k, [id |-> "kick"])
    /\ UNCHANGED <<links, client, proxy, login, asked, online, room, rturn, entered, moves, history>>

-----------------------------------------------------------------------------
ClientNext ==
    \/ \E k \in Conns : Connect(k)
    \/ Ping \/ Receive \/ Resume \/ SleepEnds \/ LoseConnection
    \/ \E id \in {"login", "match", "enter", "ping"} : SendEagerly(id)
    \/ \E reader \in inputs : Type(reader)

ProxyNext ==
    \/ \E k \in Conns : ClientRegister(k) \/ ClientRoom(k) \/ ClientOther(k) \/ ForwardLogin(k) \/ SocketEnds(k)
    \/ ForwardGame \/ KickClient \/ Subscribe

LoginNext == \E k \in Conns : InternalLogin(k) \/ InternalGetLogic(k) \/ InternalLoginLogic(k) \/ RpcTimeout(k)

ServicesNext ==
    \/ \E k \in Conns : LogsInLate(k) \/ Kick(k)
    \/ \E req \in asked : LogicAnswers(req) \/ RoomAnswersEnter(req) \/ RoomAnswersMove(req)
    \/ OpponentMoves

Next == ClientNext \/ ProxyNext \/ LoginNext \/ ServicesNext \/ \E k \in Conns : Break(k)

\* Coroutines that were woken run, messages are read and forwarded, the end of a
\* connection is noticed (socket_check and auto_ping see to it that it is), and
\* timers go off.  No service, user or opponent has to do anything.
Fairness ==
    /\ WF_vars(Receive) /\ WF_vars(Resume) /\ WF_vars(SleepEnds) /\ WF_vars(LoseConnection)
    /\ \A k \in Conns : /\ WF_vars(ClientRegister(k) \/ ClientRoom(k) \/ ClientOther(k))
                        /\ WF_vars(ForwardLogin(k)) /\ WF_vars(SocketEnds(k)) /\ WF_vars(RpcTimeout(k))
    /\ WF_vars(ForwardGame \/ KickClient)

Spec == Init /\ [][Next]_vars /\ Fairness

-----------------------------------------------------------------------------
\* What a client asks of the logic service while its login is not answered is kept
\* (proxy.cpp, client_other_msg); whatever the proxy has taken gets to the logic
\* service once, in the order it was sent, and under the user's id.
RequestsInOrder ==
    /\ TypeOK
    /\ \A k \in Conns :
          /\ others[k] = [i \in DOMAIN logicGot[k] |-> logicGot[k][i].session]
                         \o [i \in DOMAIN sock[k].cache |-> sock[k].cache[i].session]
          /\ \A i, j \in DOMAIN others[k] : i < j => others[k][i] < others[k][j]
          /\ \A i \in DOMAIN logicGot[k] : logicGot[k][i].userid = 1

\* A login that has got to the login service, and parses, is answered, whatever
\* the services behind it do, unless the connection ends first (login.cpp,
\* client_login).
LoginAnswered ==
    \A k \in Conns : (lg[k].step # "none") ~> (k \in answered \/ sock[k].st = "gone")

\* The logic service does not keep a connection online that is gone, except one
\* whose login the proxy never saw succeed (proxy.cpp, socket_start).
OfflineReported ==
    \A k \in Conns : (k \in online /\ link[k] = "down") ~> (k \notin online \/ sock[k].logic = 0)

\* The client does not wait for its turn when it is its turn, unless a move was
\* applied between the arrival of an earlier answer and the step of logic() that
\* acts on it (client.cpp, forward_message and move).
TurnComes ==
    LET Waits == lpc = "turn" /\ rturn = "me"
    IN Waits ~> (~Waits \/ overtaken)

=============================================================================
