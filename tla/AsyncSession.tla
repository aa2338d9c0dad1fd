---------------------------- MODULE AsyncSession ----------------------------
(***************************************************************************)
(* Waiting for a result from another thread: async_session_awaiter and     *)
(* async_system (async_session.h, .cpp) with the thread_pool that computes *)
(* the result (thread_pool.cpp).                                           *)
(*                                                                         *)
(* The callers in the repository create the awaiter, post a job with its   *)
(* session and co_await at once, so the coroutine keeps the scheduler      *)
(* thread between the first two steps and the third; the workers do not    *)
(* wait for it.  CoroSync models the scheduler's loop; here it takes       *)
(* posted functions and woken coroutines one at a time.                    *)
(***************************************************************************)
EXTENDS Naturals, Lists

CONSTANTS
    Coros,          \* coroutines that wait for results
    Cancellable,    \* those started with a cancellation token
    Workers,        \* threads of the pool
    MaxSession,     \* bound on the sessions created
    None            \* no coroutine, no session

ASSUME AsyncSessionAssumption ==
    /\ Cancellable \subseteq Coros
    /\ MaxSession \in Nat
    /\ None \notin Coros \cup Nat

Sessions == 1..MaxSession

VARIABLES
    session,    \* session_ of async_system, the last number given out
    running,    \* the coroutine that has the scheduler thread, or None
    state,      \* per coroutine: idle, created, waiting, resumed
    mine,       \* the session of its awaiter, or None
    cancelled,  \* coroutines whose token is cancelled
    registered, \* coroutines whose awaiter has a live registration
    wait_map,   \* session -> coroutine, None when absent
    value,      \* sessions whose async_value was set
    posted,     \* sessions in functions posted to the scheduler
    wake,       \* wake_up_coroutine_
    jobs,       \* queue_ of the pool
    wpc,        \* what each worker does next
    job,        \* the session of the job it runs
    stop        \* stop was requested on the pool

schedVars == <<session, running, state, mine, cancelled, registered, wait_map, wake>>
poolVars == <<jobs, wpc, job, stop>>
vars == <<schedVars, poolVars, value, posted>>

Init ==
    /\ session = 0 /\ running = None
    /\ state = [c \in Coros |-> "idle"] /\ mine = [c \in Coros |-> None]
    /\ cancelled = {} /\ registered = {}
    /\ wait_map = [s \in Sessions |-> None]
    /\ value = {} /\ posted = <<>> /\ wake = <<>> /\ jobs = <<>>
    /\ wpc = [w \in Workers |-> "test"] /\ job = [w \in Workers |-> None]
    /\ stop = FALSE

\* The async_value of a session lives as long as its awaiter, and the weak
\* pointer in the async_session can be locked only while it does.
Alive(s) == \E c \in Coros : mine[c] = s

-----------------------------------------------------------------------------
(* The scheduler thread.                                                   *)

\* The awaiter is made and a job with its session posted to the pool.
CreateAndPost(c) ==
    /\ running = None /\ state[c] = "idle"
    /\ session < MaxSession
    /\ session' = session + 1
    /\ mine' = [mine EXCEPT ![c] = session']
    /\ state' = [state EXCEPT ![c] = "created"]
    /\ running' = c
    /\ jobs' = Append(jobs, session')
    /\ UNCHANGED <<cancelled, registered, wait_map, wake, value, posted, wpc,
                   job, stop>>

\* The awaiter goes out of scope, with a result or an exception.
Drop(c) ==
    /\ mine' = [mine EXCEPT ![c] = None]
    /\ state' = [state EXCEPT ![c] = "idle"]
    /\ running' = None

\* await_suspend: a cancelled token makes await_resume throw at once.
Await(c) ==
    /\ running = c /\ state[c] = "created"
    /\ IF c \in cancelled
       THEN Drop(c) /\ UNCHANGED <<registered, wait_map>>
       ELSE /\ registered' = registered \cup (Cancellable \cap {c})
            /\ wait_map' = [wait_map EXCEPT ![mine[c]] = c]
            /\ state' = [state EXCEPT ![c] = "waiting"]
            /\ running' = None
            /\ UNCHANGED mine
    /\ UNCHANGED <<session, cancelled, wake, value, posted, poolVars>>

Resume(c) ==
    /\ state' = [state EXCEPT ![c] = "resumed"]
    /\ running' = c

\* A posted function: the session may have been woken by a cancellation.
RunPosted ==
    /\ running = None /\ posted # <<>>
    /\ posted' = Tail(posted)
    /\ LET s == Head(posted) IN
       IF wait_map[s] = None THEN UNCHANGED <<wait_map, state, running>>
       ELSE Resume(wait_map[s]) /\ wait_map' = [wait_map EXCEPT ![s] = None]
    /\ UNCHANGED <<session, mine, cancelled, registered, wake, value, poolVars>>

RunWoken ==
    /\ running = None /\ wake # <<>>
    /\ wake' = Tail(wake)
    /\ Resume(Head(wake))
    /\ UNCHANGED <<session, mine, cancelled, registered, wait_map, value,
                   posted, poolVars>>

\* check_resume drops the registration, then throws or reads the result.
AwaitResume(c) ==
    /\ running = c /\ state[c] = "resumed"
    /\ registered' = registered \ {c}
    /\ Drop(c)
    /\ UNCHANGED <<session, cancelled, wait_map, wake, value, posted, poolVars>>

\* Mutant: the callback wakes the coroutine and leaves it in wait_map.
CancelKeepsEntry(c) ==
    /\ running = None /\ c \in Cancellable \ cancelled
    /\ cancelled' = cancelled \cup {c}
    /\ registered' = registered \ {c}
    /\ wake' = IF c \in registered THEN Append(wake, c) ELSE wake
    /\ UNCHANGED <<session, running, state, mine, wait_map, value, posted,
                   poolVars>>

\* request_cancellation by a coroutine on the scheduler thread: the callback
\* is wake_up_session, which moves the handle to wake_up_coroutine_.
Cancel(c) ==
    /\ running = None /\ c \in Cancellable \ cancelled
    /\ cancelled' = cancelled \cup {c}
    /\ registered' = registered \ {c}
    /\ IF c \in registered /\ wait_map[mine[c]] # None
       THEN /\ wait_map' = [wait_map EXCEPT ![mine[c]] = None]
            /\ wake' = Append(wake, c)
       ELSE UNCHANGED <<wait_map, wake>>
    /\ UNCHANGED <<session, running, state, mine, value, posted, poolVars>>

-----------------------------------------------------------------------------
(* The pool.                                                               *)

\* The while condition of thread_pool::run.
WorkerTest(w) ==
    /\ wpc[w] = "test"
    /\ wpc' = [wpc EXCEPT ![w] = IF stop THEN "exit" ELSE "wait"]
    /\ UNCHANGED <<schedVars, value, posted, jobs, job, stop>>

\* cv_.wait: true with a job in the queue, false only after a stop.
WorkerWait(w) ==
    /\ wpc[w] = "wait"
    /\ \/ /\ jobs # <<>>
          /\ job' = [job EXCEPT ![w] = Head(jobs)] /\ jobs' = Tail(jobs)
          /\ wpc' = [wpc EXCEPT ![w] = "set"]
       \/ /\ jobs = <<>> /\ stop
          /\ wpc' = [wpc EXCEPT ![w] = "test"]
          /\ UNCHANGED <<jobs, job>>
    /\ UNCHANGED <<schedVars, value, posted, stop>>

\* set_result: nothing happens once the awaiter is gone.
WorkerSet(w) ==
    /\ wpc[w] = "set"
    /\ \/ /\ Alive(job[w])
          /\ value' = value \cup {job[w]}
          /\ wpc' = [wpc EXCEPT ![w] = "wake"]
       \/ /\ ~Alive(job[w])
          /\ wpc' = [wpc EXCEPT ![w] = "test"]
          /\ UNCHANGED value
    /\ UNCHANGED <<schedVars, posted, jobs, job, stop>>

\* Mutant: looks the session up on the worker, before the coroutine waits.
WorkerWakeIfWaiting(w) ==
    /\ wpc[w] = "wake"
    /\ posted' = IF wait_map[job[w]] = None THEN posted ELSE Append(posted, job[w])
    /\ wpc' = [wpc EXCEPT ![w] = "test"]
    /\ UNCHANGED <<schedVars, value, jobs, job, stop>>

\* wake_up_session off the scheduler thread posts the lookup.
WorkerWake(w) ==
    /\ wpc[w] = "wake"
    /\ posted' = Append(posted, job[w])
    /\ wpc' = [wpc EXCEPT ![w] = "test"]
    /\ UNCHANGED <<schedVars, value, jobs, job, stop>>

StopPool ==
    /\ ~stop /\ stop' = TRUE
    /\ UNCHANGED <<schedVars, value, posted, jobs, wpc, job>>

-----------------------------------------------------------------------------
SchedulerStep ==
    RunPosted \/ RunWoken \/ \E c \in Coros : Await(c) \/ AwaitResume(c)

WorkerStep(w) == WorkerTest(w) \/ WorkerWait(w) \/ WorkerSet(w) \/ WorkerWake(w)

Next ==
    \/ SchedulerStep \/ StopPool
    \/ \E c \in Coros : CreateAndPost(c) \/ Cancel(c)
    \/ \E w \in Workers : WorkerStep(w)

Spec == Init /\ [][Next]_vars

\* The scheduler and the workers are threads that keep running.
FairSpec ==
    Spec /\ WF_vars(SchedulerStep) /\ \A w \in Workers : WF_vars(WorkerStep(w))

-----------------------------------------------------------------------------
\* TYPE: wait_map_ holds coroutine handles under sessions that were created, and
\* only a coroutine with a cancellation token is cancelled.
TypeOK ==
    /\ session \in 0..MaxSession /\ running \in Coros \cup {None}
    /\ state \in [Coros -> {"idle", "created", "waiting", "resumed"}]
    /\ mine \in [Coros -> Sessions \cup {None}]
    /\ cancelled \subseteq Cancellable /\ registered \subseteq Cancellable
    /\ wait_map \in [Sessions -> Coros \cup {None}]
    /\ value \subseteq Sessions /\ posted \in Seq(Sessions)
    /\ wake \in Seq(Coros) /\ jobs \in Seq(Sessions)
    /\ wpc \in [Workers -> {"test", "wait", "set", "wake", "exit"}]
    /\ job \in [Workers -> Sessions \cup {None}] /\ stop \in BOOLEAN

\* A waiting coroutine can be resumed from one place only, its entry in
\* wait_map or wake_up_coroutine_; nobody else can be.  Resumed without
\* cancellation it finds its own result, whatever lookups of earlier sessions
\* are still posted: the assert(std::holds_alternative<T>(value_)) of
\* async_value::result holds.
OneHandle ==
    /\ TypeOK
    /\ \A c \in Coros :
          LET inMap == {s \in Sessions : wait_map[s] = c}
              inWake == {i \in 1..Len(wake) : wake[i] = c}
          IN /\ IF state[c] = "waiting"
                THEN (inMap = {mine[c]} /\ inWake = {}) \/ (inMap = {} /\ \E i \in inWake : inWake = {i})
                ELSE inMap = {} /\ inWake = {}
             /\ state[c] = "resumed" /\ c \notin cancelled => mine[c] \in value

\* A coroutine that waits for a job goes on: with the result, or cancelled.
\* After stop() the jobs left in the pool's queue are never run.
WaiterResumes ==
    \A c \in Coros : state[c] = "waiting" ~> (state[c] # "waiting" \/ stop)
=============================================================================
