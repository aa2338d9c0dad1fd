------------------------------ MODULE CoroSync ------------------------------
(***************************************************************************)
(* The single-threaded coroutine scheduler (scheduler.cpp) with the wait   *)
(* primitives whose awaiters it resumes: mutex, condition_variable and     *)
(* timed_awaiter, and the cancellation tokens that cut a wait short.       *)
(*                                                                         *)
(* Everything but post() happens on the scheduler thread, so a step is one *)
(* call made by the coroutine that is on that thread, or one turn of a     *)
(* loop of the scheduler.  A coroutine started by a running one            *)
(* (co_start<false>) runs nested: `stack' is the thread's call stack, its  *)
(* head the coroutine in control.                                          *)
(*                                                                         *)
(* The intrusive awaiter lists are sequences of coroutines (a coroutine    *)
(* has at most one awaiter at a time); the timer heap is a set and which   *)
(* timer falls due next is a choice (TimerQueue models the heap itself).   *)
(***************************************************************************)
EXTENDS Lists

CONSTANTS
    Coros,      \* coroutines
    Tokens,     \* cancellation sources
    None,       \* neither a coroutine nor a token
    TokenOf,    \* the token a coroutine was started with, or None
    Ops         \* the calls coroutines of this instance make

ASSUME CoroSyncAssumption ==
    /\ None \notin Coros \cup Tokens
    /\ TokenOf \in [Coros -> Tokens \cup {None}]
    /\ Ops \subseteq {"lock", "cv", "sleep", "cancel", "nest", "stop"}

VARIABLES
    stop,       \* stop was requested on the scheduler's jthread
    phase,      \* where scheduler::run is
    queue,      \* queue_: posted functions, each of which starts a coroutine
    functions,  \* the batch taken from queue_
    nodes,      \* the batch returned by get_ready_timers
    wake,       \* wake_up_coroutine_
    stack,      \* coroutines on the scheduler thread, innermost first
    state,      \* life cycle of each coroutine
    awaiting,   \* the kind of awaiter a suspended coroutine sits in
    requested,  \* tokens in state::cancelled
    cancelling, \* the token whose request_cancellation loop is running
    regs,       \* registrations_ of each token, newest first
    locked,     \* mutex_state::locked_
    waiters,    \* mutex_state header_ .. tail_
    cvWaiters,  \* condition_variable_state header_ .. tail_
    sleeping,   \* the timer heap
    holds,      \* coroutines that own a scoped_lock or unique_lock
    handed,     \* history: given the lock by unlock, not yet resumed
    orphaned    \* history: an awaiter given the lock threw instead

loopVars == <<stop, phase, queue, functions>>
cancelVars == <<requested, cancelling>>
mutexVars == <<locked, waiters, holds, handed, orphaned>>
vars == <<loopVars, nodes, wake, stack, state, awaiting, cancelVars, regs,
          mutexVars, cvWaiters, sleeping>>

Cancelled(c) == TokenOf[c] \in requested

Init ==
    /\ stop = FALSE /\ phase = "loop"
    /\ queue = <<>> /\ functions = <<>> /\ nodes = <<>> /\ wake = <<>>
    /\ stack = <<>>
    /\ state = [c \in Coros |-> "idle"]
    /\ awaiting = [c \in Coros |-> "none"]
    /\ requested = {} /\ cancelling = None
    /\ regs = [t \in Tokens |-> <<>>]
    /\ locked = FALSE /\ waiters = <<>>
    /\ cvWaiters = <<>> /\ sleeping = {}
    /\ holds = {} /\ handed = {} /\ orphaned = FALSE

-----------------------------------------------------------------------------
(* Cancellation registrations: ~cancellation_registration unlinks, the     *)
(* constructor links at the front, and only a live token takes it.         *)

Registered(c) ==
    IF TokenOf[c] \in Tokens
    THEN [regs EXCEPT ![TokenOf[c]] = PushFront(c, @)]
    ELSE regs

Deregistered(c) ==
    IF TokenOf[c] \in Tokens
    THEN [regs EXCEPT ![TokenOf[c]] = Unlink(@, c)]
    ELSE regs

-----------------------------------------------------------------------------
(* Starting a coroutine.                                                   *)

\* co_start<true>, or co_start from another thread: the start is posted.
PostStart(c) ==
    /\ state[c] = "idle"
    /\ state' = [state EXCEPT ![c] = "posted"]
    /\ queue' = Append(queue, c)
    /\ UNCHANGED <<stop, phase, functions, nodes, wake, stack, awaiting,
                   cancelVars, regs, mutexVars, cvWaiters, sleeping>>

\* A coroutine in control of the scheduler thread, outside a cancel loop.
InControl(c) == stack # <<>> /\ Head(stack) = c /\ cancelling = None

\* co_start<false> from a coroutine: post_immediate calls the function, which
\* returns at once when the new coroutine's token is cancelled.
StartNested(c, d) ==
    /\ "nest" \in Ops
    /\ InControl(c)
    /\ state[d] = "idle" /\ ~Cancelled(d)
    /\ stack' = PushFront(d, stack)
    /\ state' = [state EXCEPT ![d] = "running"]
    /\ UNCHANGED <<loopVars, nodes, wake, awaiting, cancelVars, regs,
                   mutexVars, cvWaiters, sleeping>>

-----------------------------------------------------------------------------
(* scheduler::run                                                          *)

Stop ==
    /\ "stop" \in Ops /\ ~stop
    /\ stop' = TRUE
    /\ UNCHANGED <<phase, queue, functions, nodes, wake, stack, state,
                   awaiting, cancelVars, regs, mutexVars, cvWaiters, sleeping>>

\* The while condition.
LoopTest ==
    /\ phase = "loop"
    /\ phase' = IF stop THEN "done" ELSE "wait"
    /\ UNCHANGED <<stop, queue, functions, nodes, wake, stack, state,
                   awaiting, cancelVars, regs, mutexVars, cvWaiters, sleeping>>

\* wait_for returns true: the queue is moved out and the lock released.
TakeFunctions ==
    /\ phase = "wait" /\ queue # <<>>
    /\ functions' = queue /\ queue' = <<>>
    /\ phase' = "functions"
    /\ UNCHANGED <<stop, nodes, wake, stack, state, awaiting, cancelVars, regs,
                   mutexVars, cvWaiters, sleeping>>

\* wait_for returns false: stop was requested or the first timer fell due.
WaitTimeout ==
    /\ phase = "wait" /\ queue = <<>>
    /\ stop \/ sleeping # {}
    /\ phase' = "collect"
    /\ UNCHANGED <<stop, queue, functions, nodes, wake, stack, state,
                   awaiting, cancelVars, regs, mutexVars, cvWaiters, sleeping>>

\* One posted function: it starts its coroutine unless the token is cancelled.
RunFunction ==
    /\ phase = "functions" /\ stack = <<>> /\ functions # <<>>
    /\ LET c == Head(functions) IN
       /\ functions' = Tail(functions)
       /\ state' = [state EXCEPT ![c] = IF Cancelled(c) THEN "idle" ELSE "running"]
       /\ stack' = IF Cancelled(c) THEN <<>> ELSE <<c>>
    /\ UNCHANGED <<stop, phase, queue, nodes, wake, awaiting, cancelVars, regs,
                   mutexVars, cvWaiters, sleeping>>

FunctionsDone ==
    /\ phase = "functions" /\ stack = <<>> /\ functions = <<>>
    /\ phase' = "collect"
    /\ UNCHANGED <<stop, queue, functions, nodes, wake, stack, state,
                   awaiting, cancelVars, regs, mutexVars, cvWaiters, sleeping>>

\* get_ready_timers pops the timers that are due, in deadline order.
CollectTimer(c) ==
    /\ phase = "collect" /\ c \in sleeping
    /\ sleeping' = sleeping \ {c}
    /\ nodes' = Append(nodes, c)
    /\ UNCHANGED <<loopVars, wake, stack, state, awaiting, cancelVars, regs,
                   mutexVars, cvWaiters>>

CollectDone ==
    /\ phase = "collect"
    /\ phase' = "timers"
    /\ UNCHANGED <<stop, queue, functions, nodes, wake, stack, state,
                   awaiting, cancelVars, regs, mutexVars, cvWaiters, sleeping>>

\* handle.resume() into await_resume: the registration is dropped and a
\* cancelled token throws; a mutex awaiter that does not throw owns the lock.
AwaitResume(c) ==
    /\ stack' = <<c>>
    /\ state' = [state EXCEPT ![c] = "running"]
    /\ awaiting' = [awaiting EXCEPT ![c] = "none"]
    /\ regs' = Deregistered(c)
    /\ handed' = handed \ {c}
    /\ holds' = IF awaiting[c] = "mutex" /\ ~Cancelled(c)
                THEN holds \cup {c} ELSE holds
    /\ orphaned' = (orphaned \/ (c \in handed /\ Cancelled(c)))
    /\ UNCHANGED <<loopVars, cancelVars, locked, waiters, cvWaiters, sleeping>>

ResumeTimer ==
    /\ phase = "timers" /\ stack = <<>> /\ nodes # <<>>
    /\ nodes' = Tail(nodes)
    /\ AwaitResume(Head(nodes))
    /\ UNCHANGED wake

TimersDone ==
    /\ phase = "timers" /\ stack = <<>> /\ nodes = <<>>
    /\ phase' = "wake"
    /\ UNCHANGED <<stop, queue, functions, nodes, wake, stack, state,
                   awaiting, cancelVars, regs, mutexVars, cvWaiters, sleeping>>

\* The drain loop takes handles pushed while it runs as well.
ResumeWoken ==
    /\ phase = "wake" /\ stack = <<>> /\ wake # <<>>
    /\ wake' = Tail(wake)
    /\ AwaitResume(Head(wake))
    /\ UNCHANGED nodes

WakeDone ==
    /\ phase = "wake" /\ stack = <<>> /\ wake = <<>>
    /\ phase' = "loop"
    /\ UNCHANGED <<stop, queue, functions, nodes, wake, stack, state,
                   awaiting, cancelVars, regs, mutexVars, cvWaiters, sleeping>>

-----------------------------------------------------------------------------
(* What the coroutine in control does.                                     *)

\* await_suspend returned true: control returns to the caller on the stack.
Suspend(c, kind) ==
    /\ stack' = Tail(stack)
    /\ state' = [state EXCEPT ![c] = "suspended"]
    /\ awaiting' = [awaiting EXCEPT ![c] = kind]
    /\ regs' = Registered(c)

\* co_await mutex.lock() on a free mutex: await_suspend returns false.
LockFree(c) ==
    /\ "lock" \in Ops
    /\ InControl(c) /\ c \notin holds /\ ~Cancelled(c)
    /\ ~locked
    /\ locked' = TRUE /\ holds' = holds \cup {c}
    /\ UNCHANGED <<loopVars, nodes, wake, stack, state, awaiting, cancelVars,
                   regs, waiters, handed, orphaned, cvWaiters, sleeping>>

\* Mutant: await_suspend does not look at the token first.
LockWaitUnchecked(c) ==
    /\ "lock" \in Ops
    /\ InControl(c) /\ c \notin holds
    /\ locked
    /\ waiters' = Append(waiters, c)
    /\ Suspend(c, "mutex")
    /\ UNCHANGED <<loopVars, nodes, wake, cancelVars, locked, holds, handed,
                   orphaned, cvWaiters, sleeping>>

LockWait(c) ==
    /\ "lock" \in Ops
    /\ InControl(c) /\ c \notin holds /\ ~Cancelled(c)
    /\ locked
    /\ waiters' = Append(waiters, c)
    /\ Suspend(c, "mutex")
    /\ UNCHANGED <<loopVars, nodes, wake, cancelVars, locked, holds, handed,
                   orphaned, cvWaiters, sleeping>>

\* Mutant: clears locked_ although the lock passes to the first awaiter.
ReleaseClears(c) ==
    /\ holds' = holds \ {c}
    /\ locked' = FALSE
    /\ IF waiters # <<>>
       THEN LET d == Head(waiters) IN
            /\ waiters' = Tail(waiters)
            /\ regs' = Deregistered(d)
            /\ wake' = Append(wake, d)
            /\ handed' = handed \cup {d}
       ELSE UNCHANGED <<waiters, regs, wake, handed>>

\* Mutant: leaves locked_ set when nobody waits.
ReleaseKeeps(c) ==
    /\ holds' = holds \ {c}
    /\ UNCHANGED locked
    /\ IF waiters # <<>>
       THEN LET d == Head(waiters) IN
            /\ waiters' = Tail(waiters)
            /\ regs' = Deregistered(d)
            /\ wake' = Append(wake, d)
            /\ handed' = handed \cup {d}
       ELSE UNCHANGED <<waiters, regs, wake, handed>>

\* Mutant: serves the awaiter that came last.
ReleaseNewest(c) ==
    /\ holds' = holds \ {c}
    /\ IF waiters # <<>>
       THEN LET d == waiters[Len(waiters)] IN
            /\ waiters' = SubSeq(waiters, 1, Len(waiters) - 1)
            /\ regs' = Deregistered(d)
            /\ wake' = Append(wake, d)
            /\ handed' = handed \cup {d}
            /\ UNCHANGED locked
       ELSE /\ locked' = FALSE
            /\ UNCHANGED <<waiters, regs, wake, handed>>

\* mutex_state::unlock, called by the lock object of c: the first awaiter is
\* woken and locked_ stays set, so the lock passes to it.
Release(c) ==
    /\ holds' = holds \ {c}
    /\ IF waiters # <<>>
       THEN LET d == Head(waiters) IN
            /\ waiters' = Tail(waiters)
            /\ regs' = Deregistered(d)
            /\ wake' = Append(wake, d)
            /\ handed' = handed \cup {d}
            /\ UNCHANGED locked
       ELSE /\ locked' = FALSE
            /\ UNCHANGED <<waiters, regs, wake, handed>>

Unlock(c) ==
    /\ InControl(c) /\ c \in holds
    /\ Release(c)
    /\ UNCHANGED <<loopVars, nodes, stack, state, awaiting, cancelVars,
                   orphaned, cvWaiters, sleeping>>

\* The body ends, by co_return or an exception: the destructor of a lock
\* object unlocks, and the next coroutine on the stack goes on.
Finish(c) ==
    /\ InControl(c)
    /\ stack' = Tail(stack)
    /\ state' = [state EXCEPT ![c] = "idle"]
    /\ IF c \in holds THEN Release(c)
       ELSE UNCHANGED <<holds, waiters, regs, wake, handed, locked>>
    /\ UNCHANGED <<loopVars, nodes, awaiting, cancelVars, orphaned,
                   cvWaiters, sleeping>>

\* co_await condition_variable.wait()
Wait(c) ==
    /\ "cv" \in Ops
    /\ InControl(c) /\ ~Cancelled(c)
    /\ cvWaiters' = Append(cvWaiters, c)
    /\ Suspend(c, "cv")
    /\ UNCHANGED <<loopVars, nodes, wake, cancelVars, mutexVars, sleeping>>

\* The registration of the awaiter that is woken stays linked.
NotifyOne(c) ==
    /\ InControl(c) /\ cvWaiters # <<>>
    /\ wake' = Append(wake, Head(cvWaiters))
    /\ cvWaiters' = Tail(cvWaiters)
    /\ UNCHANGED <<loopVars, nodes, stack, state, awaiting, cancelVars, regs,
                   mutexVars, sleeping>>

NotifyAll(c) ==
    /\ InControl(c) /\ cvWaiters # <<>>
    /\ wake' = wake \o cvWaiters
    /\ cvWaiters' = <<>>
    /\ UNCHANGED <<loopVars, nodes, stack, state, awaiting, cancelVars, regs,
                   mutexVars, sleeping>>

\* co_await sleep_for(...) whose deadline is still ahead.
Sleep(c) ==
    /\ "sleep" \in Ops
    /\ InControl(c) /\ ~Cancelled(c)
    /\ sleeping' = sleeping \cup {c}
    /\ Suspend(c, "timer")
    /\ UNCHANGED <<loopVars, nodes, wake, cancelVars, mutexVars, cvWaiters>>

\* cancellation_source::request_cancellation, called once per token.
RequestCancellation(c, t) ==
    /\ "cancel" \in Ops
    /\ InControl(c) /\ t \notin requested
    /\ requested' = requested \cup {t}
    /\ cancelling' = t
    /\ UNCHANGED <<loopVars, nodes, wake, stack, state, awaiting, regs,
                   mutexVars, cvWaiters, sleeping>>

\* Mutant: the condition_variable's callback does not ask has_awaiter.
CancelCallbackAlways ==
    /\ cancelling # None /\ regs[cancelling] # <<>>
    /\ LET d == Head(regs[cancelling])
           wakes == awaiting[d] = "timer" => d \in sleeping
       IN /\ regs' = [regs EXCEPT ![cancelling] = Tail(@)]
          /\ waiters' = IF awaiting[d] = "mutex" THEN Unlink(waiters, d)
                        ELSE waiters
          /\ cvWaiters' = IF awaiting[d] = "cv" THEN Unlink(cvWaiters, d)
                          ELSE cvWaiters
          /\ sleeping' = IF awaiting[d] = "timer" THEN sleeping \ {d}
                         ELSE sleeping
          /\ wake' = IF wakes THEN Append(wake, d) ELSE wake
    /\ UNCHANGED <<loopVars, nodes, stack, state, awaiting, cancelVars,
                   locked, holds, handed, orphaned>>

\* One turn of its loop: the registration is unlinked and its callback runs.
\* mutex: always remove_awaiter and wake.  condition_variable: only if
\* has_awaiter.  timed_awaiter: only if timer_queue::remove finds the node.
CancelCallback ==
    /\ cancelling # None /\ regs[cancelling] # <<>>
    /\ LET d == Head(regs[cancelling])
           wakes == CASE awaiting[d] = "mutex" -> TRUE
                      [] awaiting[d] = "cv"    -> d \in Range(cvWaiters)
                      [] OTHER                 -> d \in sleeping
       IN /\ regs' = [regs EXCEPT ![cancelling] = Tail(@)]
          /\ waiters' = IF awaiting[d] = "mutex" THEN Unlink(waiters, d)
                        ELSE waiters
          /\ cvWaiters' = IF awaiting[d] = "cv" THEN Unlink(cvWaiters, d)
                          ELSE cvWaiters
          /\ sleeping' = IF awaiting[d] = "timer" THEN sleeping \ {d}
                         ELSE sleeping
          /\ wake' = IF wakes THEN Append(wake, d) ELSE wake
    /\ UNCHANGED <<loopVars, nodes, stack, state, awaiting, cancelVars,
                   locked, holds, handed, orphaned>>

CancelDone ==
    /\ cancelling # None /\ regs[cancelling] = <<>>
    /\ cancelling' = None
    /\ UNCHANGED <<loopVars, nodes, wake, stack, state, awaiting, requested,
                   regs, mutexVars, cvWaiters, sleeping>>

-----------------------------------------------------------------------------
SchedulerStep ==
    \/ LoopTest \/ TakeFunctions \/ WaitTimeout \/ RunFunction \/ FunctionsDone
    \/ CollectDone \/ ResumeTimer \/ TimersDone \/ ResumeWoken \/ WakeDone

CancelStep == CancelCallback \/ CancelDone

CoroutineStep(c) ==
    \/ LockFree(c) \/ LockWait(c) \/ Unlock(c) \/ Finish(c)
    \/ Wait(c) \/ NotifyOne(c) \/ NotifyAll(c) \/ Sleep(c)
    \/ \E d \in Coros : StartNested(c, d)
    \/ \E t \in Tokens : RequestCancellation(c, t)

Next ==
    \/ SchedulerStep \/ CancelStep \/ Stop
    \/ \E c \in Coros : PostStart(c) \/ CollectTimer(c) \/ CoroutineStep(c)

Spec == Init /\ [][Next]_vars

\* The thread keeps running, control comes back to it from the coroutines it
\* resumes, and a deadline is passed in the end.
Fairness ==
    /\ WF_vars(SchedulerStep) /\ WF_vars(CancelStep)
    /\ []<>(stack = <<>>)
    /\ \A c \in Coros : SF_vars(CollectTimer(c))

FairSpec == Spec /\ Fairness

\* Besides, an owner does not keep the lock over endlessly many waits.
OwnersUnlockSpec == FairSpec /\ \A c \in Coros : SF_vars(Unlock(c))

-----------------------------------------------------------------------------
\* TYPE: the lists hold coroutines of the instance, and only coroutines with a
\* token are registered with it (a registration is made only when can_be_cancelled).
TypeOK ==
    /\ stop \in BOOLEAN
    /\ phase \in {"loop", "wait", "functions", "collect", "timers", "wake", "done"}
    /\ queue \in Seq(Coros) /\ functions \in Seq(Coros)
    /\ nodes \in Seq(Coros) /\ wake \in Seq(Coros) /\ stack \in Seq(Coros)
    /\ state \in [Coros -> {"idle", "posted", "running", "suspended"}]
    /\ awaiting \in [Coros -> {"none", "mutex", "cv", "timer"}]
    /\ requested \in SUBSET Tokens /\ cancelling \in Tokens \cup {None}
    /\ regs \in [Tokens -> Seq(Coros)]
    /\ locked \in BOOLEAN /\ waiters \in Seq(Coros)
    /\ cvWaiters \in Seq(Coros) /\ sleeping \in SUBSET Coros
    /\ holds \in SUBSET Coros /\ handed \in SUBSET Coros
    /\ orphaned \in BOOLEAN

\* A coroutine that waits is in exactly one place from which it will be
\* resumed, and there once: the mutex's list, the condition variable's, the
\* timer heap, the batch of due timers or wake_up_coroutine_.  A handle lost
\* is a coroutine that hangs; a handle twice in a list is a second resume()
\* of a frame that may be gone.
ExactlyOneResumption ==
    LET places == <<Range(waiters), Range(cvWaiters), sleeping, Range(nodes),
                    Range(wake)>>
    IN /\ {c \in Coros : state[c] = "suspended"} = UNION Range(places)
       /\ \A i, j \in 1..5 : i # j => places[i] \cap places[j] = {}
       /\ IsInjective(waiters) /\ IsInjective(cvWaiters)
       /\ IsInjective(nodes) /\ IsInjective(wake)

\* At most one coroutine owns the mutex or has been handed it by unlock, and
\* then locked_ is set: a resumed mutex awaiter that does not throw is never
\* a second owner.
MutualExclusion ==
    /\ \A c, d \in holds \cup handed : c = d
    /\ holds \cup handed # {} => locked

\* A locked mutex has an owner to unlock it and a free one has no waiters,
\* unless an awaiter was cancelled between the unlock that handed it the lock
\* and its resumption: await_resume throws, no lock object is made and
\* locked_ stays set for good.
LockHasOwner ==
    /\ locked <=> (holds \cup handed # {} \/ orphaned)
    /\ waiters # <<>> => locked

\* Once request_cancellation has returned, every coroutine that waits under
\* the token is on its way to be resumed, whatever it waits for.
CancelReachesWaiters ==
    \A c \in Coros :
        state[c] = "suspended" /\ Cancelled(c) /\ cancelling # TokenOf[c]
            => c \in Range(wake) \cup Range(nodes)

\* try_lock never overtakes: a coroutine that takes the mutex without having
\* been handed it finds nobody queued for it.
NoBarging ==
    [][\A c \in Coros : c \in holds' \ holds /\ c \notin handed
            => waiters = <<>> /\ handed = {}]_vars

\* A coroutine in wake_up_coroutine_ is resumed, also after stop(); one that is
\* queued for the mutex is resumed, served or cancelled, when owners unlock in
\* the end, unless the lock was orphaned, its owner waits to be notified, or the
\* scheduler stopped.
WaiterServed ==
    \A c \in Coros : c \in Range(wake) \cup Range(waiters)
        ~> \/ state[c] = "running"
           \/ /\ c \in Range(waiters)
              /\ orphaned \/ stop \/ holds \cap Range(cvWaiters) # {}
=============================================================================
