# A TLA+ verification of `simple`

`simple` is a C++20 coroutine framework (`src/runtime`) with a five-in-a-row
game server built on it (`src/gobang`). This directory holds TLA+ models of its
parts, the TLC configurations that check them on small instances, and TLAPS
proofs of the properties that matter most.

## The system

All coroutines of a process run on one scheduler thread (`src/README.md:9`).
Around it there are a pool of worker threads, log writers, one asio network
thread and one thread that polls the shared-memory channels. They hand results
to coroutines by posting functions to the scheduler. Processes on a machine talk
over shared-memory rings, machines over TCP, TLS or kcp.

The game server is a set of services, each a process or part of one. Every
machine has a gate. A service registers with the gate of its machine over TCP
and exchanges messages with it over a shared-memory channel; gates find each
other and the services through the one gate master and connect to each other.
Players connect to a proxy, which passes their login to a login service and
what follows to the logic service and the room of the player. Data is kept by
`db_proxy`.

| part | code | modules | state |
|---|---|---|---|
| scheduler loop, start of coroutines | `coro/scheduler`, `co_start.hpp` | `CoroSync` | modelled, proved |
| cancellation | `coro/cancellation_*` | `CoroSync` | modelled, proved |
| mutex, condition variable | `coro/mutex`, `coro/condition_variable` | `CoroSync` | modelled, proved |
| sleeping, timer heap | `coro/timed_awaiter`, `containers/time_queue` | `CoroSync`, `TimerQueue`, `TimerSet` | modelled |
| lock-free queue | `containers/queue` | `MpscQueue`, `MpscFifo` | modelled, proved |
| results from other threads | `coro/async_session`, `coro/thread_pool` | `AsyncSession` | modelled, proved |
| parallel tasks | `coro/parallel_task.hpp`, `task_operators.hpp` | `ParallelTask` | modelled, proved |
| shared-memory ring | `shm/shm_buffer`, `shm/shm_channel` | `ShmRing`, `ShmFifo` | modelled, proved |
| channel and its polling thread | `shm/shm_channel`, `shm/shm_channel_select` | `ShmSelect` | modelled, proved |
| sockets | `coro/network`, `net/` | `Sockets` | modelled |
| service discovery | `gobang/gate`, `gobang/gate_master` | `GateDiscovery` | modelled, proved |
| routing and subscriptions | `gobang/gate`, `gobang/kernel` | `GateRouting` | modelled, proved |
| database proxy | `gobang/db_proxy` | `DbProxy` | modelled, proved |
| client, proxy, login | `gobang/client`, `proxy`, `login` | `PlayerSession` | modelled, proved |
| the rest | | | see "Not modelled" |

The modules build on each other by what they take for granted. `CoroSync` lets
any sleeping timer be due, which `TimerQueue` justifies. `ShmSelect` takes a ring
as a queue of whole messages, which is what `ShmRing` is shown to implement.
`GateRouting` takes a channel as a queue, which is what `ShmSelect` shows.
`DbProxy`, `AsyncSession` and `Sockets` rely on posted functions that are run
once and in order, as `CoroSync` and `MpscQueue` show. `GateRouting` starts where
`GateDiscovery` ends: with services that have registered.

## Modules

`Lists` has the two list operations the code's intrusive lists are built from
(link at the front, unlink from anywhere); sequences replace the `next_` and
`prev_` pointers. `SeqFacts` proves what the proofs need to know of them.

### `CoroSync`: scheduler, cancellation and the wait primitives

Everything but `post()` happens on the scheduler thread, so the unit of
interleaving is a call made by the coroutine in control or one turn of a loop of
`scheduler::run`. `phase` is the place in that loop; `functions`, `nodes` and
`wake` are the batches it works through; `stack` is the thread's call stack,
since `co_start` from a coroutine runs the new one nested. A coroutine has at
most one awaiter, so the awaiter lists are sequences of coroutines. Each
callback of `request_cancellation` is a step of its own, which keeps the half
cancelled states visible. Nothing runs between them, because callbacks only
move handles.

`handed` and `orphaned` are history variables: the coroutine that `unlock()`
chose and that has not resumed yet, and whether such a coroutine was cancelled
in between, in which case `await_resume` throws, no lock object is made and
`locked_` stays set. `LockHasOwner` says that this is the only way to lose the
lock.

### `TimerQueue` and `TimerSet`

The binary heap of `time_queue.cpp` with the nodes' own positions; `up_heap`
and `down_heap` are recursive operators. `TimerSet` is what callers rely on: a
set of timers from which all that are due are taken in order. `now` may go back,
as `system_clock` may. `get_all_timers` has no caller.

### `MpscQueue` and `MpscFifo`

One step per atomic access of `push_base` and `pop_and_check_end_base`.
Poppers are serialised by the mutex of `mpmc_queue`. All accesses that order
the list are acquire or release operations on the same pointers, so the model is
sequentially consistent; `size_` is relaxed but only ever changed by
read-modify-write operations. `order` is the abstract queue, changed at the
exchange of `head_` and where `pop` settles on its node.

### `ShmRing` and `ShmFifo`

One direction of a channel between two processes: `try_write` copies the
length, copies the payload, stores `write_index` and stores `write`, each a step;
`try_read` likewise. Bytes are tagged with the message they belong to, so that
a torn or misplaced copy is seen as such. The counters wrap at `CounterMod` where
the code has 2^64; the ring has `Size` bytes. The stores take effect in program
order: the build supports x64 only (`src/CMakeLists.txt:7`), and what a compiler
may do to plain variables is left out. `Crashes` says where a process may die and
be restarted with the ring as it was: anywhere, or anywhere but between the two
stores of a commit. Messages without a payload cannot be told apart in the ring, so
there is at most one among `Messages`.

### `ShmSelect`

A service and its gate, each with the coroutine that empties its send queue
(`local_service::auto_write`, `gate_connector::channel_write`), the one that
reads, and the polling thread of `shm_channel_select`. The thread's loop is cut
where other threads can see or change what it uses: taking over `queue_`, going
to sleep, each entry tested and each entry moved down in the compaction. Entries
keep the size they wait for. A process may be killed at any time and started
again; its queues and coroutines are gone, the rings stay.

### `AsyncSession`

`async_session_awaiter` from `create_session` to the destructor, with the
workers of `thread_pool`. The coroutine posts its job before it waits, as the
callers do, so a worker can have finished by then; `WorkerSet` and `WorkerWake`
are two steps, so a cancellation can fall between them.

### `ParallelTask`

A tree of awaitables: an inner node is a `when_ready` over its children, the
root is a coroutine started under a source of its own (`Outside`). `stack` is
again the thread's call stack, since children are started, and the parent is
resumed, by plain calls. `type` is chosen at the start: `all`, `one`, and
`one_fail` and `one_succ`, which are `&&` and `||`; `||` is the only use of
`one_succ` and has two operands, so an awaitable with another number of children
is never given that type. A leaf may wait for anything that CoroSync can wait
for; its wake-up and its cancellation are the steps `Event` and the callbacks in
`Fired`. `Fired` is transitive, because the callback of a waiting `when_ready` requests its own source in turn; `Above`, the
sources from an awaitable's token up to `Outside`, is the least set closed under
"the token of".

`missed` is a history variable: `await_suspend` tests the token, starts the
children and registers with the token only then. A child may cancel that token
meanwhile; the registration is then not made, and the cancellation does not
reach the children. The coroutine is told when they have all finished.
`CancelReachesTree` and `DecidedEnds` say that this is the only gap.

### `Sockets`

One listener, one client that connects to it and the session that comes of it,
for tcp, ssl or kcp (`proto`, chosen at the start). Both processes have a
scheduler thread, where `network` keeps its table of sockets (`known`, `handle`,
`buf`, `accepted`), and an asio thread, where `socket_system` keeps its own
(`system`, `phase`, `why`, `wq`). `jobs` are functions on their way to the asio
thread, `posted` those on their way back; nothing else passes between the two. A
coroutine may call `connect`, `accept`, `read`, `read_size`, `write` and `close` in
any order and may be cancelled in any wait; two coroutines of the client may use
one socket. Name resolution, the connect timer, the TLS handshake and shutdown,
the kcp handshake with lost datagrams, and the watchdogs are steps of the asio
thread. The transport is external: a stream for tcp and ssl, and for kcp data in
order besides control datagrams that may be lost.

`leaked` is a history variable: sockets that were taken out of `network` while
the asio thread keeps them, by a cancelled `connect` (its socket id is never
given to anyone) or a listener that is closed with accepted sessions in its
queue. `NothingOrphaned` says there are no others. A socket is given up (phase
`lost`) when its start fails before it is open, so that `stop()` returns at once
and nothing is posted, or when a listen address does not parse, so that there is no
start (`PostStart`). The coroutine that waits for such a start stays in
`network` and can be cancelled, but nobody will report to it; `NothingOrphaned` and
`WaitEnds` name it as an exception.

### `GateDiscovery`

The master's tables are `mSock`, `mOwner`, `mOnline`, with `sockets` and `bound`
for its connections; a gate's are `home` (where a service is), `ron` (the flag
of a remote entry) and `objs` (its local entries, a sequence because nothing
stops the code from making two). Connections and links are numbered, since the
two ends notice the end of one at different times: `open` says that bytes still
get through, `up` and `down` hold what is on its way, and the master may still
read from a connection that its gate has left. One step is one message handled
(with the answer and the broadcast it causes), one timeout, or one end noticed.
The answers to uploads that nobody waits for, pings and addresses are left out;
what a ping timeout or an idle check does is `Cut`.

`faults` counts lost connections, links given up, timeouts and restarts, and is
bounded by `MaxFaults`. `superseded` is a history variable: the gates that
registered while the master held another connection of theirs. `gate_register`
closes the previous connection only if the *new* one was bound before, which it
never is. So what is still in the old connection is applied after what came over
the new one, a late registration over the old one takes the gate's socket back,
and a gate that restarts keeps its old services online. `Converged` claims
nothing of these gates, and holds for all others.

### `GateRouting`

One sender at gate `a` and two destinations, one at each of two gates. The
sender's `gate_connector` links itself to its gate, registers and subscribes to
the login services; its messages go through its channel to gate `a`, which
delivers them, keeps them until it knows the destination (`parked`, the code's
`send_queues_`), or gives them to `remote_gate`, which keeps them until it is
connected to gate `b` (`rq`) and then writes them to the connection. Links
(sender to gate) and wires (gate to gate) are numbered for the same reason as in
`GateDiscovery`, and either end may notice first that one has ended. Of the gate
master there is what gate `a` hears of services at `b` (`Uploaded`, `Added`,
`Toggled`), late and in order.

Gate `b` has `Addresses` addresses, any of which may accept no connection for a
while or for good (`Outage`, `dead`). `remote_gate::run` moves on to the next
address when `tcp_connect` returns 0, but a connect that fails is an exception
instead, and its handler at `remote_gate.cpp:105` leaves the count as it is. So the
first address is tried again and again (`Tried`), and a message that waits in `rq`
while it stays dead is the exception that `Routed` names.

A coroutine that waits for an answer is resumed in a later turn of the
scheduler, while a broadcast that came in the same bytes is handled at once.
`Idle` says that nothing else comes between a wake-up and its resumption.
`overtaken` records the services whose flag was set from an answer older than a
broadcast already applied. `gate_connector.cpp:83` asks for the login services
whatever type its argument names, and so does the model.

### `DbProxy`

The owner of the data counts versions of each row and sends what is not known to
be written, again and again; it also makes calls (create a user, queries). The
database proxy starts a coroutine for each message, which posts a job to the
pool; a job is executed by a worker, one database operation a step, and may throw
at each. Updates go through `user_infos_` and `account_infos_`: an update that
finds its row cached starts no job, so at most one job per row runs. The content of
a row is the version it was written with, a natural number. The cache keeps the
content in full but of the version only what a `uint16_t` holds
(`static_cast<uint16_t>`, `db_proxy.cpp:285`), and that is what the report names:
`CachedVersion`, with `Width` for 2^16. The owner is not in the repository
(center and logic have no handler for it) and is modelled from the messages.

### `PlayerSession`

One player with up to two connections, the client program with its two
coroutines (`logic()`, which logs in and plays, and `run()`, which reads messages
and connects again), the proxy's `sockets_`, and `client_login` of the login
service with its three calls, each raced by a timeout. The console is read by
the thread pool, so a line may come late or be for a connection that is gone. The
other services are one environment that answers late, with success or failure,
or never. `eager` is a client that sends on before its login is answered, which
is what the proxy keeps `cache` for, and whose login may be one that
`login::forward_shm` cannot parse and drops.

`logic()` sleeps after `login`, `match` and `enter_room` and after a line it takes
for no move; each sleep is a place of its own (`Sleeps`), in which messages are
received and applied, and `SleepEnds` goes on with what `room_` and `is_my_turn_`
are by then. `check_pos` and the board are left out, so a line is taken for a move
or not, as it comes. The services are taken to be on the machine of the proxy, where
the way from `gate_connector::write` to the proxy is in shared memory, without loss
and in order (`ShmSelect`); with another machine in between, messages may be lost
with a connection (`GateRouting`). What `kick_client` answers to the logic service
is left out.

## Runs

| run | instance | states | shows |
|---|---|---|---|
| `coro` | 3 coroutines, 1 token shared by two of them | 33,313 | no handle lost or resumed twice; mutual exclusion; lock ownership; cancellation reaches every waiter; every waiter is served, also after `stop()` |
| `timer_heap` | 6 timers, times -1..2 | 3,993 | the wait never passes a timer; the heap implements `TimerSet` |
| `mpsc_fifo` | 3 threads, 2 nodes | 50,208 | the list implements `MpscFifo`; `size_` counts; a node that an empty-handed `pop` has missed comes out later; the retry loop of `pop` ends |
| `shm_fifo` | ring of 7 bytes, prefix of 2, messages of 0, 1 and 3 bytes, counters mod 16 | 1,288,735 | the ring implements `ShmFifo`; counters and indices agree |
| `shm_select` | 3 messages each way, rings of 2 units, 1 restart | 104,312 | no waiter lost or woken twice; nothing overtakes; everything is delivered |
| `async_session` | 2 coroutines, 2 workers, 4 sessions | 143,837 | one resumption, with the result there; no lost wake-up |
| `parallel_task` | a pair within a pair, all wait types | 19,354 | a parent outlives its children and is resumed once; cancellation reaches the tree; `\|\|` returns the first success; a decided `when_ready` ends |
| `sockets` | each protocol, 1 or 2 units of data, 1 cancellation (tcp) | 166,935 | no waiter and no open socket without an owner; data in order; waits end; the other end notices |
| `gate_discovery` | 2 gates, one reconnects, a process on each machine, one links itself again, 2 faults | 1,333,287 | one gate serves a service; gate and master agree; tables converge |
| `gate_routing` | 2 destinations, gate `b` with 2 addresses, six budgets of messages, lost links and wires, changes and outages | 110,440 | messages arrive once and in order; none stays in a queue unless the first address is dead; the sender's view follows the gate's |
| `db_proxy` | 2 users and one to create (`MaxUser = 3`), 2 workers, versions cut to `Width = 3`, four budgets | 71,624 | the owner is told the truth; no row goes back; calls are answered; changes are written |
| `player` | five budgets: two games, reconnect, ping, kick, eager client | 134,826 | requests in order under the right user; logins answered; disconnects reported; turns noticed |

Where a property cannot hold of the code as it is, it names the exception
exactly, as a state or a history variable (`orphaned`, `missed`, `leaked`,
`superseded`, `overtaken`, sockets that were given up and the other kind of
`Unreported` ones, a dead first address, a version above `Width`, a login that the
proxy never saw succeed). Each exception was found by a run without it, and the
properties fail when it is taken out. `TypeOK` is a conjunct of one invariant in
every module but `CoroSync`, where it is proved.

Why the bounds are enough to be interesting. Three coroutines give an owner, a
queue and one that cancels or interferes (four coroutines with two tokens,
516,445 states, were checked for the safety properties as well). Six timers are
the fewest with which a removal makes a node rise. Two nodes and three threads
make the lock-free list pass through stub, single and chained shapes with two
pushes open under a pop (three nodes with symmetry, 181,735 states, were checked
for safety). The ring's size is no multiple of the message sizes, so that prefix
and payload are each split at the end, and the counters wrap within a run. In
`shm_select` the second message fills a ring and the others half of it, so that
a message finds room, too little of it or none. Two levels of parallel tasks let
a cancellation pass through one `when_ready` to another and let children end in
every order around the start of their siblings. Four sessions let a coroutine
wait again while its earlier wake-up is still posted. Two faults let a connection
and a link be lost around one upload, or a restart meet a lost connection (three
faults with one link each, 3,754,056 states with symmetry, were checked as well).

`GateRouting`, `DbProxy` and `PlayerSession` choose one of several budgets in
`Init`. A budget bounds every kind of event that could go on for ever; several
small ones cover what one large one would, wherever the kinds do not all have to
meet in one behaviour, with a state space that is their sum. With `Width = 3` a row
that is changed three times passes the width; two addresses are the fewest with
which the second one could have helped.

Deadlock is not checked where the system may stop (after `stop()`, or once the
bounds are used up).

### Fairness

* `CoroSync`: the thread goes on (`SchedulerStep`, `CancelStep`), a coroutine in
  control gives it back in the end (`[]<>(stack = <<>>)`), a sleeping timer falls
  due (strong, because the loop takes timers only in one of its phases).
  `WaiterServed` besides needs owners that do unlock.
* `MpscQueue`: a thread inside `push` or `pop` goes on. `NothingStranded` besides
  needs somebody who goes on to call `pop`.
* `AsyncSession`, `ShmSelect`: each thread goes on.
* `ParallelTask`: the thread goes on, and what was woken is resumed in its turn
  (strong, because the thread may be busy in between; the queue of woken handles
  is first in, first out).
* `Sockets`: posted functions run, asio completes what it was asked for, timers
  expire (`Due`). Weak fairness of them all together is enough, since each such
  step uses something up.
* `GateRouting`: both gates read what arrives, notice ends and connect again, as
  the loops of `gate_connector::run` and `remote_gate::run` do; a connect between the
  gates succeeds only while the address tried is not dead.
* `DbProxy`: threads go on, and the owner repeats what is not written (strong,
  because the bounds on requests and reports that are on their way, which are the
  model's, may hold it up now and then).
* `PlayerSession`: messages that have arrived are handled, timers of calls and
  sleeps expire, ends of connections are noticed.

Nothing is assumed of users and other services: no coroutine has to start,
cancel or notify, no service has to answer, no player has to type.

## Observations

What the models show of the code beyond their properties, where a reader of its
comments might expect something else:

* `queue.h:30` says `pop` returns NULL only if the queue was empty at some point
  after the call. A push that has exchanged `head_` and not linked hides later ones
  that have completed, and `pop` then returns NULL although the queue was not empty
  at any time during the call. What does hold is that nothing else leads to NULL (theorem
  `NullIsExplained`) and that the hidden nodes come out of a later `pop`
  (`NothingStranded`).
* A process that dies between the stores of `write_index` and `write` leaves a
  ring that delivers wrong messages (`ShmRing` with `Crashes = "anywhere"`),
  while the notes (`src/说明.md:35`) count on messages that survive in shared
  memory.
* `shm_channel.h:43` says `try_read` returns the size needed when the buffer is
  too small; it returns 0.
* `local_listener::service_register` looks at its link only before it waits for
  the master. When the link ends meanwhile, the service is added with socket 0
  and put online, and stays so until it registers anew.
* `gate.h:35` speaks of a limit on the messages kept for an unknown service;
  there is none.
* A gate whose first address accepts no connection is never reached over another
  one of its addresses (`remote_gate.cpp:80` to `109`).
* Versions of rows have 32 bits in the messages (`msg_server.proto:200`) and 16 in
  the cache (`db_proxy.h:21`). From 65,536 on, what is reported as written is never
  the version that the owner sent.
* A listen address that does not parse gives the socket id 0, and the coroutine
  waits for the start of a socket that does not exist
  (`socket_system.cpp:117`, `network.cpp:123`).
* The answer to a subscription overwrites a broadcast that followed it
  (`gate_connector.cpp:110`), and the client's `is_my_turn_` is overwritten in the
  same way (`client.cpp:333`).
* A game that ends while the client sleeps after `enter_room` (`client.cpp:312`) is
  not noticed there: `is_my_turn_` is set, and the client asks for a move in a game
  that is over.
* `client.cpp:221` takes a position for invalid when `check_pos` returns true, which
  it does for a free one.
* A registration over a link that was given up, read by the gate after the one
  of the link in use, makes the gate refuse every subscription of the latter.
* `db_proxy.cpp:397` sets the result of a query to success after the job has set
  it to "no data".
* A kcp client whose first datagram is not the answer to its connection request
  never reports to the coroutine that waits for it (`kcp_client_impl.cpp:125`).

## Proofs

Safety of ten modules is proved for every value of their constants.

| proofs in | about | theorems |
|---|---|---|
| `CoroSyncProofs` | `CoroSync` | `TypeOK`, `ExactlyOneResumption`, `MutualExclusion`, `LockHasOwner`, `CancelReachesWaiters`, `NoBarging` |
| `MpscQueueProofs` | `MpscQueue` | `ImplementsFifo`, `SizeCounts`, and `NullExplained`, which is stated there |
| `CoroSyncProofs`, instance `A` | `AsyncSession` | `OneHandle` |
| `ShmSelectProofs`, instance `R` | `ShmRing` | `CountersAgree`, `ImplementsFifo` |
| `ShmSelectProofs` | `ShmSelect` | `SentInOrder`, `WaitersTracked` |
| `DbProxyProofs` | `DbProxy` | `ToldTheTruth`, `UpdatesInOrder` |
| `DbProxyProofs`, instance `P` | `PlayerSession` | `RequestsInOrder` |
| `ParallelTaskProofs` | `ParallelTask` | `JoinsAll`, `CancelReachesTree`, `FirstSuccessWins` |
| `GateDiscoveryProofs` | `GateDiscovery` | `OneHome`, `RegisteredAgree` |
| `GateRoutingProofs` | `GateRouting` | `RoutedInOrder` |

Three proofs stand at the end of the module of a neighbouring component, about an
instance of their model (`A!Spec`, `R!Spec`, `P!Spec`): sessions are what a coroutine
of the scheduler waits for, a ring is what is under each direction of a channel, and
the center, which a player's login asks first, is who uses the database proxy. The
assumption on an instance's constants is a hypothesis there (`SessionConstants`,
`RingConstants`, `PlayerConstants`, equal to the `ASSUME` of the model, which the run
evaluates).

Each module has an inductive invariant, `IInv` unless another name is given below,
which TLC confirmed on the instance of
the module's run before the proof was begun, and one lemma per action. The
lemmas of `SeqFacts` tell what appending, taking the tail, linking and unlinking
do to the range and the injectivity of a sequence.

### The scheduler

Assumed is only `CoroSyncAssumption`: `None` is neither a coroutine nor a token,
and `TokenOf` and `Ops` have their types. None of the five invariants is
inductive alone. `IInv` has four parts besides the type:

* `Unique`: no list, batch or the call stack holds a coroutine twice;
* `Places`: where a coroutine is listed agrees with its `state` and with the
  kind of awaiter it sits in, which makes the places disjoint;
* `Links`: a registered coroutine is suspended under that token and, if it
  waits for the mutex, still queued; a queued or sleeping coroutine that has a
  token is registered with it; a requested token has no registrations left, but
  for the one whose callbacks are running. This is what makes a callback find
  its coroutine where it looks;
* `Ownership`: owners, handed-to and orphaned exclude each other and account for
  `locked`.

`Links` is what ties cancellation to the rest: without it a callback might
unlink a coroutine that a notification had moved already and wake it twice.

### The lock-free queue

`MpscAssumption`: stub, null and `Queued` are nobody's nodes or threads, and
there are finitely many threads, since their pushes are counted. The invariant
says that there is a chain `c` of cells such that

* `Shape`: `c` runs from `tail_` to `head_` without repetition, and without the
  stub it is `order`, the queued nodes;
* `Pointers`: between neighbours of `c` the `next` pointer is set, or it is null
  and exactly one thread, between its exchange and its store, is about to set it;
* `Popper`: only the holder of the mutex is inside `pop`; the node it looks at is
  the oldest one; when it is about to push the stub, the stub is not in `c`;
* `Owners`: a node is in `c` or belongs to a thread, and one that is about to be
  pushed has a null `next`.

The position of the stub makes this delicate: pushes that come between `pop`'s
comparison with `head_` and its push of the stub leave the stub behind nodes
that `pop` has not seen. `Without` relates `c` to `order` wherever the stub is. A
push appends to `c`, a pop and the skipping of the stub take its first cell, and
a store to `next` leaves it as it is. From this every step is a push or a pop of
`MpscFifo` or changes neither `owner` nor `order`, which is the refinement.

### Sessions

`AsyncSessionAssumption`: the bound on sessions is a number, and `None` is neither a
coroutine nor a number. `Awaiters` (no two
coroutines share a session number), `Tracked` (the handle of a waiting coroutine
is in `wait_map_` under its session or among those woken by a cancellation, not in
both) and `Results` (a posted wake-up follows its result) make `OneHandle`
inductive (`SInv`). That session numbers are not reused is what keeps a late answer of a
cancelled session from waking somebody else.

### The ring

`ShmRingAssumption`: the ring is not empty, the counters wrap above its size, and
at most one message has no payload. The theorems carry the hypothesis
`Crashes = "outside commits"`, since without it they are false (see
"Observations"). `RInv` says that there is an index `b` and a list of offsets `at`
such that

* `Offsets`: the messages that are committed and not read follow each other
  without gaps, and the last ends where the counters say, `readable` bytes from `b`
  and at most once round the ring;
* `Contents`: at each offset from `b` there are the length and the bytes of that
  message, wherever the end of the ring cuts them;
* `Reading`: `read_index` is `b`, or past the oldest message between the two stores
  of a commit, and what `try_read` has copied is that message;
* `Writing`: `write_index` likewise, and what `try_write` has copied so far is
  behind all messages and finds room.

A copy by the writer touches only cells that no message occupies, and the reader
copies only cells of the oldest one: that is where `readable + Needs(msg) <= Size`
is used, and it stays true while the other process moves on. The counters wrap at
`CounterMod`; their difference does not, which is arithmetic on `%` done once in
`ModFacts` and `ModOnce`. Every step is then a send or a receive of `ShmFifo`, where
the counter is stored, or changes nothing of it.

### The channel

`ShmSelectAssumption`: a prefix is not empty and fits the ring, and so does each
message with its prefix. The stream of a direction is what was received, then the
ring, then the send queue.
`IInv` says that it is ascending in both directions, that the gate's has every
number sent but those lost with a killed sender, and that the service answers
only what it has received. Ascending is stated for every pair of positions
instead of neighbours, since going from one to the other would need an
induction. The polling threads do not occur in the argument at all: they decide
when a message moves, never where it goes.

`WaitersTracked` is about nothing else. Its invariant `WInv` says of each process
that `queue_`, `temp`, the live part of `select_` and the posted wake-ups name each
coroutine in `Waiting(p)` exactly once and nobody else (`Tickets`), where
`Waiting(p)` leaves out the coroutine in control and a writer that waits for the
condition variable. In the middle of a scan the live part is what was kept, up to
`write_index`, and what is not looked at yet, from `i` on (`Rest`); `Bounded` says
that `write_index` is behind `i` or past the end, so that an entry moved down
overwrites only one that was woken or moved before. The lemmas `ScanWakes`,
`ScanFills`, `ScanPasses` and `ScanEnds` follow the compaction index by index, the
`Ticket` lemmas follow a ticket from place to place, and `PlacesCounted` turns
"named exactly once" into the single place of the property.

### The database proxy

`DbProxyAssumption`: types, and `None` is neither a version nor the code for
success. `ToldTheTruth` relates only the owner and the database; its invariant
follows each version on the way between them:

* `RowOK`: what the owner believes written is at most what is in the database,
  which is at most what is cached, which is at most what the owner has;
* `RequestOK`, `InOrder`: an update on its way is not behind the database or the
  cache, and two of them for one row are in the order of their versions;
* `UpdateOK`: a job holds rows that are cached, each content it read is
  between the database's and the cache's and not below the version it will report
  (`OpOK`), and the database has that version as soon as the operation for the row is
  executed;
* `OneJobPerRow`: two jobs, wherever they are (queued, in a worker, finished),
  hold no row in common;
* `AnswerOK`, `CallOK`: a report names only versions that are written, and a
  successful creation has made both rows.

`OneJobPerRow` is the point: an update that finds its row cached only raises the
cached version, so no two workers ever write one row and no older version can
follow a newer one. `UpdatesInOrder`, which says so of every step, follows from
the same invariant.

### The player's session

`PlayerConstants`: the bound on connections is a number and a budget a record of
numbers. `RequestsInOrder` relates what the proxy has taken of a connection
(`others`), what has got to the logic service (`logicGot`) and the cache of the
socket. `PInv` has three parts:

* `Playing`, `Behind`: types of the client, of the login service and of what is on its
  way to and from the services, with the fact that a wake-up of `logic()` that is no
  answer comes only while it waits for its turn;
* `Stream`: for each connection `others` is `logicGot` followed by the cache, index by
  index (`Taken`); the cache is empty unless the socket waits for its login's answer;
  and the session numbers of `others` followed by what is still on the connection
  rise, none above the last number given out (`Rising`).

That the cache is empty when nobody waits is what the order rests on: a request that
`client_other_msg` forwards at once would overtake one that is still cached, but it
is forwarded only when `wait_login` is off, and `client_login_ack` turns that off in the
step in which it empties the cache. `Rising` is needed because the property speaks of the order in
which the client sent its requests, and these pass through the connection; a request
gets a number larger than all that are taken or on their way, over whichever
connection it goes. The concatenation in the property and in `client_login_ack` is
compared position by position (`TakenLogin`, `TakenIs`), without an induction. What the
services answer, late, negatively or never, does not occur in `Stream` at all.

### Parallel tasks

`ParallelTaskAssumption`: the awaitables are finitely many and form a tree, that is,
each but the root is a child of exactly one and none is above itself. `IInv` has
four parts besides the type:

* `Frames`: on the call stack are those that run, and all but the innermost are in
  the middle of starting a child;
* `Family`: a `when_ready` has started its children up to `pos`; `count_` is the
  number that have not ended, and one more until `try_await` gives up the parent's
  own share; once it is resumed all have ended;
* `Reach`: whoever waits is registered under a token that is not cancelled; whoever
  awaits children is too, unless the request has reached it or came too early;
* `Outcome`: the children that have ended have different numbers in `index_`, all
  smaller than how many they are; a success of an operand of `||` has requested the source, and the
  outcome of a `||` that has ended is the one promised (`Settled`).

The share of the parent in `count_` is what `JoinsAll` rests on: a child that ends
while the parent still starts others finds at least two, so only one that ends
after `try_await` can be the last, and the parent is then not on the stack.
`FiredReaches` is what `CancelReachesTree` rests on: if a request reaches the
source that an awaitable is registered with, it reaches the awaitable. It is proved
from the closure of `Above` and needs no induction over the depth of the tree. For
`FirstSuccessWins`, two operands have the numbers 0 and 1 in some order, so the one
that the code looks at first is the one that ended first.

### Discovery

`DiscoveryAssumption`: the bounds are numbers, there are finitely many services, and
`None` is no gate. `OneHome` compares the gates with each other, but no gate ever
talks to another; `RegisteredAgree` compares a gate with the master, over
connections of which the two hold different views. The invariant follows each
registration on its way:

* `Numbering`, `Linked`: a gate uses its last connection or none, and the master's
  is one that has registered; links and entries are within their counts;
* `UpOK`: a request to register is the first on its connection, which the master
  has not bound, and nothing comes back before it is read;
* `DownOK`: only the connection in use carries messages to a gate; none tells a
  gate that it serves a service itself, and a positive answer to an upload means
  that the master has the service in that gate's name;
* `Registering`: while a gate registers, its request is unread or the answer is the
  next message;
* `Served`: the master has every service of a gate in its name, unless it has
  restarted and the gate has not registered anew; a request to register that is
  not read yet names all of them.

`Served` is what both properties follow from. It holds over an answer that comes
late because `DownOK` keeps the answer true: the master never gives a service it
has to another gate (`check_services` refuses), and after a restart it knows nothing
until a gate registers. No service is added to a gate while its request to register
is unread, so the request stays complete: by `UpOK` nothing comes back before, and
by `Registering` the first that does is the answer to the registration, after which
the connection is bound.

### Routing

`RoutingAssumption` gives types only. Nothing bounds the services, the messages, the
links and the wires but that a budget is some record of numbers. `Paid` says that
each new link or wire was paid for by a loss, so that the numbers stay within
`Links` and `Wires`; the rest is about the messages:

* `Places`: where a message is determines how much of its way it has made. One that
  waits at the sender's gate took no wire yet, one on a wire has its number, one at
  gate `b` came by some wire; nobody keeps messages for a service that it knows;
  and while `remote_gate` has a connection, its queue is empty;
* `Order`: every queue is in the order `Before`, that is, two messages to the same
  service by the same wire are in the order they were sent; what the gate has not
  read yet (`out`) comes after everything it has (`Behind`); and what has arrived at
  gate `b` comes before everything on a wire.

The gate moves whole queues: `emplace_service` hands over what was kept for a
service, and a new wire takes all of `rq`. That this never puts an older message
behind a newer one is `Behind` together with the two emptiness clauses of `Places`:
a queue is handed over where nothing has passed it. `PassLocal`, `PassQueue` and
`PassWire` follow a batch of messages out of gate `a`, for one message read from the
sender as for all that were kept; `ArriveInv` and `KeepB` do the same at gate `b`.

### Only model-checked

* All liveness properties: `WaiterServed` and the like rest on fairness, which is
  beyond the prover.
* `TimerQueue`: the heap's operators are recursive, and what they compute would
  need an induction over the heap.
* The safety properties of `Sockets` and `Converged` of `GateDiscovery`, for which
  no inductive invariant has been written. `Converged` would have to account for every update in flight, in the order it will be applied.
* `ShmRing` with `Crashes = "anywhere"` has no run and no theorem; the properties
  do not hold there.

## Not modelled

* `log/`: two threads that empty a queue (`MpscQueue` is that queue) into files,
  and text layout. `application/`: sequential set-up of a process, dynamic
  libraries, maps of functions.
* `web/`: parsers and writers of HTTP headers and websocket frames, used by one
  coroutine on one socket; text and byte layout. The same holds for the framing
  of messages in `kernel/proto_utils` and for the generated protobuf code, which is
  more than half of the lines under `src/`.
* `utils/trie_ac` and `containers/heap.hpp` are used nowhere; `buffer.hpp`,
  `pool.hpp` are containers without protocol; `crypt`, `os` and `time` wrap
  libraries and system calls.
* `task.hpp` is what `CoroSync` and `ParallelTask` abstract to a call stack;
  `sync_wait.hpp` blocks one thread on one flag.
* `center` restores a table from shared memory and expires entries; its handler
  of messages is an empty stub. The logic and room services, the database, asio,
  TLS and kcp are outside the repository.
* In what is modelled: contents of messages, addresses, pings whose answer
  arrives, statistics, the drawing of the board.
