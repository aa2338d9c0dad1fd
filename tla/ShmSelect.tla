----------------------------- MODULE ShmSelect ------------------------------
(***************************************************************************)
(* A service and its gate talk over a shm_channel, two rings in shared     *)
(* memory.  Each process has a scheduler thread with a coroutine that      *)
(* empties its send queue into the outgoing ring (local_service::          *)
(* auto_write, gate_connector::channel_write), one that reads the incoming *)
(* ring (auto_read, channel_read), and the polling thread of               *)
(* shm_channel_select, which wakes them when a ring has data or room.      *)
(*                                                                         *)
(* ShmRing shows that a ring is a queue of whole messages; here it is one. *)
(* A message is its number; Cost is what it takes in the ring, its prefix  *)
(* included.  The gate sends, the service answers each message.  A process *)
(* may be killed and started again; the rings survive it.                  *)
(***************************************************************************)
EXTENDS Naturals, Lists

CONSTANTS
    Messages,       \* the gate sends 1..Messages
    Cost,           \* bytes a message of each process takes in a ring
    Size,           \* bytes of a ring
    Prefix,         \* bytes of the length prefix
    MaxRestarts     \* bound on the restarts

Procs == {"gate", "service"}
Other(p) == IF p = "gate" THEN "service" ELSE "gate"

ASSUME ShmSelectAssumption ==
    /\ Messages \in Nat /\ Size \in Nat /\ Prefix \in 1..Size /\ MaxRestarts \in Nat
    /\ Cost \in [{"gate", "service"} -> [1..Messages -> Prefix..Size]]

VARIABLES
    ring,       \* messages committed by each process and not read yet
    sq,         \* send_queue
    wpc, rpc,   \* the two coroutines: "run", "cv", "wait"
    sched,      \* the coroutine the scheduler thread is in, or "idle"
    posted,     \* coroutines that the scheduler will resume
    queue,      \* shm_channel_select::queue_
    select,     \* select_
    temp,       \* the local variable of run
    spc,        \* where run is
    i, wi,      \* its indices i and write_index
    sent,       \* history: messages of the gate so far
    got,        \* history: messages read from each process
    lost,       \* history: messages of each process lost in a restart
    restarts

coro == <<wpc, rpc, sched, posted>>
thread == <<select, temp, spc, i, wi>>
vars == <<ring, sq, coro, queue, thread, sent, got, lost, restarts>>

Who == {"writer", "reader"}

TypeOK ==
    /\ ring \in [Procs -> Seq(1..Messages)] /\ sq \in [Procs -> Seq(1..Messages)]
    /\ wpc \in [Procs -> {"run", "cv", "wait"}] /\ rpc \in [Procs -> {"run", "wait"}]
    /\ sched \in [Procs -> Who \cup {"idle"}] /\ posted \in [Procs -> Seq(Who)]
    /\ \A p \in Procs : \A e \in Range(queue[p] \o select[p] \o temp[p]) :
        e.who \in Who /\ e.size \in Prefix..Size
    /\ spc \in [Procs -> {"top", "asleep", "scan", "place"}]
    /\ sent \in 0..Messages /\ restarts \in 0..MaxRestarts

Init ==
    /\ ring = [p \in Procs |-> <<>>] /\ sq = [p \in Procs |-> <<>>]
    /\ wpc = [p \in Procs |-> "run"] /\ rpc = [p \in Procs |-> "run"]
    /\ sched = [p \in Procs |-> "idle"] /\ posted = [p \in Procs |-> <<"writer", "reader">>]
    /\ queue = [p \in Procs |-> <<>>] /\ select = [p \in Procs |-> <<>>]
    /\ temp = [p \in Procs |-> <<>>] /\ spc = [p \in Procs |-> "top"]
    /\ i = [p \in Procs |-> 0] /\ wi = [p \in Procs |-> 0]
    /\ sent = 0 /\ got = [p \in Procs |-> <<>>] /\ lost = [p \in Procs |-> {}]
    /\ restarts = 0

-----------------------------------------------------------------------------
(* The rings *)

Used(p) == FoldFunction(LAMBDA m, n : Cost[p][m] + n, 0, ring[p])
readable(p) == Used(Other(p))
writable(p) == Size - Used(p)

\* try_write of message m.
Fits(p, m) == writable(p) >= Cost[p][m]

-----------------------------------------------------------------------------
(* The scheduler thread *)

\* Mutant of Write: a message that fits is written although others wait.
WriteAhead(p, m, base) ==
    \/ /\ Fits(p, m)
       /\ ring' = [base EXCEPT ![p] = Append(@, m)]
       /\ UNCHANGED <<sq, posted, wpc>>
    \/ /\ ~Fits(p, m)
       /\ ring' = base /\ sq' = [sq EXCEPT ![p] = Append(@, m)]
       /\ wpc' = [wpc EXCEPT ![p] = IF @ = "cv" THEN "run" ELSE @]
       /\ posted' = IF wpc[p] = "cv" THEN [posted EXCEPT ![p] = Append(@, "writer")] ELSE posted

\* local_service::write and gate_connector::write, over the rings base: straight
\* into the ring unless earlier messages are queued or there is no room; a queued
\* message notifies the coroutine that waits for one.
Write(p, m, base) ==
    \/ /\ sq[p] = <<>> /\ Fits(p, m)
       /\ ring' = [base EXCEPT ![p] = Append(@, m)]
       /\ UNCHANGED <<sq, posted, wpc>>
    \/ /\ sq[p] # <<>> \/ ~Fits(p, m)
       /\ ring' = base /\ sq' = [sq EXCEPT ![p] = Append(@, m)]
       /\ wpc' = [wpc EXCEPT ![p] = IF @ = "cv" THEN "run" ELSE @]
       /\ posted' = IF wpc[p] = "cv" THEN [posted EXCEPT ![p] = Append(@, "writer")] ELSE posted

\* Something in the gate has a message for the service.
SendNext ==
    /\ sched["gate"] = "idle" /\ sent < Messages
    /\ sent' = sent + 1
    /\ Write("gate", sent + 1, ring)
    /\ UNCHANGED <<rpc, sched, queue, thread, got, lost, restarts>>

Resume(p) ==
    /\ sched[p] = "idle" /\ posted[p] # <<>>
    /\ sched' = [sched EXCEPT ![p] = Head(posted[p])]
    /\ posted' = [posted EXCEPT ![p] = Tail(@)]
    /\ wpc' = IF Head(posted[p]) = "writer" THEN [wpc EXCEPT ![p] = "run"] ELSE wpc
    /\ rpc' = IF Head(posted[p]) = "reader" THEN [rpc EXCEPT ![p] = "run"] ELSE rpc
    /\ UNCHANGED <<ring, sq, queue, thread, sent, got, lost, restarts>>

Entry(who, size) == [who |-> who, size |-> size]

\* shm_channel_select::wait: the session is queued, the polling thread notified,
\* the coroutine suspended.
Wait(p, who, size) ==
    /\ queue' = [queue EXCEPT ![p] = Append(@, Entry(who, size))]
    /\ spc' = [spc EXCEPT ![p] = IF @ = "asleep" THEN "top" ELSE @]
    /\ sched' = [sched EXCEPT ![p] = "idle"]

\* auto_write and channel_write with shm_channel::write: the front message stays
\* in the queue until it is in the ring.
RunWriter(p) ==
    LET m == Head(sq[p]) IN
    /\ sched[p] = "writer"
    /\ \/ /\ sq[p] = <<>>
          /\ wpc' = [wpc EXCEPT ![p] = "cv"] /\ sched' = [sched EXCEPT ![p] = "idle"]
          /\ UNCHANGED <<ring, sq, queue, spc>>
       \/ /\ sq[p] # <<>> /\ Fits(p, m)
          /\ ring' = [ring EXCEPT ![p] = Append(@, m)] /\ sq' = [sq EXCEPT ![p] = Tail(@)]
          /\ UNCHANGED <<wpc, sched, queue, spc>>
       \/ /\ sq[p] # <<>> /\ ~Fits(p, m)
          /\ wpc' = [wpc EXCEPT ![p] = "wait"] /\ Wait(p, "writer", Cost[p][m])
          /\ UNCHANGED <<ring, sq>>
    /\ UNCHANGED <<rpc, posted, select, temp, i, wi, sent, got, lost, restarts>>

\* shm_channel::read finds nothing and waits for a prefix.  Messages are
\* committed whole, so it never waits for the rest of one.
ReadWait(p) ==
    /\ sched[p] = "reader" /\ readable(p) < Prefix
    /\ rpc' = [rpc EXCEPT ![p] = "wait"] /\ Wait(p, "reader", Prefix)
    /\ UNCHANGED <<ring, sq, wpc, posted, select, temp, i, wi, sent, got, lost, restarts>>

\* local_service::auto_read: the gate forwards what it reads, to others.
AutoRead ==
    /\ sched["gate"] = "reader" /\ ring["service"] # <<>> /\ readable("gate") >= Prefix
    /\ ring' = [ring EXCEPT !["service"] = Tail(@)]
    /\ got' = [got EXCEPT !["service"] = Append(@, Head(ring["service"]))]
    /\ UNCHANGED <<sq, coro, queue, thread, sent, lost, restarts>>

\* gate_connector::channel_read: the service handles what it reads and answers,
\* in the same step.
ChannelRead ==
    LET m == Head(ring["gate"]) IN
    /\ sched["service"] = "reader" /\ ring["gate"] # <<>> /\ readable("service") >= Prefix
    /\ got' = [got EXCEPT !["gate"] = Append(@, m)]
    /\ Write("service", m, [ring EXCEPT !["gate"] = Tail(@)])
    /\ UNCHANGED <<rpc, sched, queue, thread, sent, lost, restarts>>

-----------------------------------------------------------------------------
(* The polling thread: shm_channel_select::run *)

\* Mutant of is_ready: exactly enough is not enough.
IsReadyStrict(p, e) == IF e.who = "reader" THEN readable(p) > e.size ELSE writable(p) > e.size

is_ready(p, e) == IF e.who = "reader" THEN readable(p) >= e.size ELSE writable(p) >= e.size

\* set_result: the function that resumes the waiting coroutine is posted.
SetResult(p, e) == posted' = [posted EXCEPT ![p] = Append(@, e.who)]

\* The head of the loop: wait for somebody to wait, or scan those who do.
Top(p) ==
    /\ spc[p] = "top"
    /\ \/ /\ select[p] = <<>> /\ queue[p] = <<>>
          /\ spc' = [spc EXCEPT ![p] = "asleep"]
          /\ UNCHANGED <<queue, temp, i, wi>>
       \/ /\ select[p] = <<>> /\ queue[p] # <<>>
          /\ temp' = [temp EXCEPT ![p] = queue[p]] /\ queue' = [queue EXCEPT ![p] = <<>>]
          /\ spc' = [spc EXCEPT ![p] = "place"]
          /\ UNCHANGED <<i, wi>>
       \/ /\ select[p] # <<>>
          /\ i' = [i EXCEPT ![p] = 1] /\ wi' = [wi EXCEPT ![p] = Len(select[p]) + 1]
          /\ spc' = [spc EXCEPT ![p] = "scan"]
          /\ UNCHANGED <<queue, temp>>
    /\ UNCHANGED <<ring, sq, coro, select, sent, got, lost, restarts>>

\* Mutant of Scan: an entry that is kept overwrites the one kept before.
ScanOverwrites(p) ==
    LET e == select[p][i[p]]
        size == Len(select[p])
    IN
    /\ spc[p] = "scan" /\ i[p] <= size
    /\ i' = [i EXCEPT ![p] = @ + 1]
    /\ \/ /\ is_ready(p, e) /\ SetResult(p, e)
          /\ wi' = [wi EXCEPT ![p] = IF @ = size + 1 THEN i[p] ELSE @]
          /\ UNCHANGED select
       \/ /\ ~is_ready(p, e)
          /\ select' = IF wi[p] <= size THEN [select EXCEPT ![p][wi[p]] = e] ELSE select
          /\ UNCHANGED <<posted, wi>>
    /\ UNCHANGED <<ring, sq, wpc, rpc, sched, queue, temp, spc, sent, got, lost, restarts>>

\* One entry of select_: a ready one is woken, one that is kept moves down to
\* write_index once there is a gap.
Scan(p) ==
    LET e == select[p][i[p]]
        size == Len(select[p])
    IN
    /\ spc[p] = "scan" /\ i[p] <= size
    /\ i' = [i EXCEPT ![p] = @ + 1]
    /\ \/ /\ is_ready(p, e) /\ SetResult(p, e)
          /\ wi' = [wi EXCEPT ![p] = IF @ = size + 1 THEN i[p] ELSE @]
          /\ UNCHANGED select
       \/ /\ ~is_ready(p, e)
          /\ select' = IF wi[p] <= size THEN [select EXCEPT ![p][wi[p]] = e] ELSE select
          /\ wi' = [wi EXCEPT ![p] = IF @ <= size THEN @ + 1 ELSE @]
          /\ UNCHANGED posted
    /\ UNCHANGED <<ring, sq, wpc, rpc, sched, queue, temp, spc, sent, got, lost, restarts>>

\* The end of a scan: select_ is cut, the queue taken over, after a pause that
\* depends on cnt_loop.
Poll(p) ==
    /\ spc[p] = "scan" /\ i[p] > Len(select[p])
    /\ select' = [select EXCEPT ![p] = SubSeq(@, 1, wi[p] - 1)]
    /\ temp' = [temp EXCEPT ![p] = queue[p]] /\ queue' = [queue EXCEPT ![p] = <<>>]
    /\ spc' = [spc EXCEPT ![p] = "place"]
    /\ i' = [i EXCEPT ![p] = 0] /\ wi' = [wi EXCEPT ![p] = 0]
    /\ UNCHANGED <<ring, sq, coro, sent, got, lost, restarts>>

\* One new entry: woken at once or kept.
Place(p) ==
    /\ spc[p] = "place"
    /\ \/ /\ temp[p] = <<>> /\ spc' = [spc EXCEPT ![p] = "top"]
          /\ UNCHANGED <<temp, select, posted>>
       \/ /\ temp[p] # <<>> /\ temp' = [temp EXCEPT ![p] = Tail(@)]
          /\ \/ is_ready(p, Head(temp[p])) /\ SetResult(p, Head(temp[p])) /\ UNCHANGED select
             \/ /\ ~is_ready(p, Head(temp[p]))
                /\ select' = [select EXCEPT ![p] = Append(@, Head(temp[p]))]
                /\ UNCHANGED posted
          /\ UNCHANGED spc
    /\ UNCHANGED <<ring, sq, wpc, rpc, sched, queue, i, wi, sent, got, lost, restarts>>

-----------------------------------------------------------------------------

\* A process is killed and started again: the rings keep what was committed,
\* its send queue is lost, its coroutines begin anew.
Restart(p) ==
    /\ restarts < MaxRestarts /\ restarts' = restarts + 1
    /\ lost' = [lost EXCEPT ![p] = @ \cup Range(sq[p])]
    /\ sq' = [sq EXCEPT ![p] = <<>>]
    /\ wpc' = [wpc EXCEPT ![p] = "run"] /\ rpc' = [rpc EXCEPT ![p] = "run"]
    /\ sched' = [sched EXCEPT ![p] = "idle"]
    /\ posted' = [posted EXCEPT ![p] = <<"writer", "reader">>]
    /\ queue' = [queue EXCEPT ![p] = <<>>] /\ select' = [select EXCEPT ![p] = <<>>]
    /\ temp' = [temp EXCEPT ![p] = <<>>] /\ spc' = [spc EXCEPT ![p] = "top"]
    /\ i' = [i EXCEPT ![p] = 0] /\ wi' = [wi EXCEPT ![p] = 0]
    /\ UNCHANGED <<ring, sent, got>>

SchedulerStep(p) ==
    \/ Resume(p) \/ RunWriter(p) \/ ReadWait(p)
    \/ p = "gate" /\ AutoRead
    \/ p = "service" /\ ChannelRead
SelectStep(p) == Top(p) \/ Scan(p) \/ Poll(p) \/ Place(p)

Next ==
    \/ SendNext
    \/ \E p \in Procs : SchedulerStep(p) \/ SelectStep(p) \/ Restart(p)

\* Both threads of both processes go on.
Spec ==
    /\ Init /\ [][Next]_vars
    /\ \A p \in Procs : WF_vars(SchedulerStep(p)) /\ WF_vars(SelectStep(p))

-----------------------------------------------------------------------------

\* Entries of select_ that are not dealt with yet: kept ones and the rest.
Live(p) ==
    IF spc[p] # "scan" THEN select[p]
    ELSE SubSeq(select[p], 1, (IF wi[p] < i[p] THEN wi[p] ELSE i[p]) - 1)
         \o SubSeq(select[p], i[p], Len(select[p]))

\* Where a coroutine of p is found: its entries and its wake-ups.
Places(p, who) ==
    LET entries == queue[p] \o temp[p] \o Live(p)
    IN {<<"entry", k>> : k \in {k \in DOMAIN entries : entries[k].who = who}}
       \cup {<<"posted", k>> : k \in {k \in DOMAIN posted[p] : posted[p][k] = who}}

InOnePlace(p, who) == \E x \in Places(p, who) : Places(p, who) = {x}

\* shm_channel_select and its clients: a coroutine that waits for a ring has one
\* entry with the polling thread or one posted wake-up, whatever has been
\* inserted, moved down and cut off meanwhile; one that does not wait has none
\* that could resume it by mistake; and the polling thread does not sleep while
\* somebody is queued.
WaitersTracked ==
    /\ TypeOK
    /\ \A p \in Procs :
        /\ wpc[p] = "wait" => InOnePlace(p, "writer")
        /\ rpc[p] = "wait" => InOnePlace(p, "reader")
        /\ sched[p] = "writer" \/ wpc[p] = "cv" => Places(p, "writer") = {}
        /\ sched[p] = "reader" => Places(p, "reader") = {}
        /\ spc[p] = "asleep" => queue[p] = <<>>

\* write() and the coroutine that empties the send queue never let a message
\* overtake another, and none is lost but by the restart of its sender.
SentInOrder ==
    \A p \in Procs :
        LET s == got[p] \o ring[p] \o sq[p]
        IN /\ \A k \in 1..Len(s) - 1 : s[k] < s[k + 1]
           /\ p = "gate" => Range(s) = (1..sent) \ lost[p]

\* A message that is in a ring is read, one that is in a send queue is read or
\* lost in a restart: no order of try_write, wait, the other process's read and
\* the polling thread leaves a coroutine waiting for what has happened already.
Delivered ==
    \A p \in Procs : \A m \in 1..Messages :
        (m \in Range(ring[p] \o sq[p])) ~> (m \in Range(got[p]) \cup lost[p])
=============================================================================
