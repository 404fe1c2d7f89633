------------------------------- MODULE IOLoop -------------------------------
(***************************************************************************)
(* How the threads of an IOManager sleep, wake and stop: Scheduler::run()   *)
(* (lamb/scheduler.cc) with the overrides of IOManager (lamb/iomanager.cc): *)
(* tickle(), stopping() and idle(), and the pipe between them.              *)
(*                                                                         *)
(* Tasks are interchangeable and pinned to no thread (Scheduler has that);  *)
(* a timer or an event is a member of a set, and when it is served its      *)
(* callback becomes one more task (TimerManager and IOEvents have the rest). *)
(*                                                                         *)
(*   off      the caller's thread before stop()                            *)
(*   scan     about to lock m_mutex and look for a task                    *)
(*   more     took a task and saw another one: about to tickle             *)
(*   run      in a task's function                                         *)
(*   pushed   the task called schedule(), which is about to tickle         *)
(*   empty    found nothing, not yet counted as idle                       *)
(*   timers, pending, base   the three tests of IOManager::stopping()      *)
(*   wait     in epoll_wait()                                              *)
(*   collect  epoll_wait() has returned, listExpiredCb() comes next        *)
(*   due      holds expired callbacks, schedules them                      *)
(*   handle   goes through the events                                      *)
(*   leave    the idle fiber has yielded or ended                          *)
(*   exit     run() has returned                                           *)
(***************************************************************************)
EXTENDS Integers, FiniteSets

CONSTANTS
    Pool,      \* the threads of start()
    Callers,   \* {} or the thread that runs inside stop() (use_caller)
    Timers,    \* one-shot timers the tasks may add
    Events,    \* events the tasks may wait for
    MaxTasks   \* bound: calls of schedule() by the client and by tasks

Threads == Pool \cup Callers

ASSUME LoopAssumption ==
    /\ IsFiniteSet(Threads) /\ Threads # {} /\ Pool \cap Callers = {}
    /\ IsFiniteSet(Timers) /\ IsFiniteSet(Events)
    /\ MaxTasks \in Nat

VARIABLES
    m_tasks,              \* how many tasks are queued
    m_stopping,
    m_timers,             \* registered timers
    due,                  \* those whose time has come
    registered,           \* registered events
    m_pendingEventCount,
    ready,                \* epoll's ready list, the pipe aside
    pipe,                 \* the tickle pipe has bytes in it
    edge,                 \* the pipe is on epoll's ready list
    pc,
    idle_fiber,
    got,                  \* per thread: results of epoll_wait()
    cbs,                  \* per thread: expired callbacks to schedule
    spawned,              \* calls of schedule() made, timers and events used
    used,
    main                  \* the client: "up", "pushed", n tickles left, "joined"

vars == <<m_tasks, m_stopping, m_timers, due, registered, m_pendingEventCount,
          ready, pipe, edge, pc, idle_fiber, got, cbs, spawned, used, main>>
work == <<m_timers, due, registered, m_pendingEventCount, ready, used>>
local == <<idle_fiber, got, cbs>>

NoResult == [tickled |-> FALSE, evs |-> {}]
ActivePCs == {"more", "run", "pushed"}
IdlePCs == {"timers", "pending", "base", "wait", "collect", "due", "handle", "leave"}

Init ==
    /\ m_tasks = 0
    /\ m_stopping = FALSE
    /\ m_timers = {} /\ due = {}
    /\ registered = {} /\ m_pendingEventCount = 0 /\ ready = {}
    /\ pipe = FALSE /\ edge = FALSE
    /\ pc = [t \in Threads |-> IF t \in Pool THEN "scan" ELSE "off"]
    /\ idle_fiber = [t \in Threads |-> "READY"]
    /\ got = [t \in Threads |-> NoResult]
    /\ cbs = [t \in Threads |-> 0]
    /\ spawned = 0 /\ used = {}
    /\ main = [at |-> "up", tickles |-> 0]

At(t, from, to) == pc[t] = from /\ pc' = [pc EXCEPT ![t] = to]

(***************************************************************************)
(* IOManager::tickle(): a byte for the pipe if some thread is idle.  Each   *)
(* write is a new edge.                                                     *)
(***************************************************************************)
HasIdleThreads == \E t \in Threads : pc[t] \in IdlePCs

Tickle ==
    /\ pipe' = (pipe \/ HasIdleThreads)
    /\ edge' = (edge \/ HasIdleThreads)

\* schedule() of n callbacks by a thread that is idle itself.
ScheduleIdle(n) ==
    /\ m_tasks' = m_tasks + n
    /\ IF n > 0 /\ m_tasks = 0 THEN Tickle ELSE UNCHANGED <<pipe, edge>>

(***************************************************************************)
(* The client: schedule(), and stop() once.                                 *)
(***************************************************************************)
Push ==
    /\ spawned < MaxTasks
    /\ spawned' = spawned + 1
    /\ m_tasks' = m_tasks + 1

ClientPush ==
    /\ main.at = "up"
    /\ Push
    /\ main' = IF m_tasks = 0 THEN [main EXCEPT !.at = "pushed"] ELSE main
    /\ UNCHANGED <<m_stopping, work, pipe, edge, pc, local>>

ClientTickle ==
    /\ main.at = "pushed"
    /\ Tickle
    /\ main' = [main EXCEPT !.at = "up"]
    /\ UNCHANGED <<m_tasks, m_stopping, work, pc, local, spawned>>

StopFlag ==
    /\ main.at = "up"
    /\ m_stopping' = TRUE
    /\ main' = [at |-> "stop", tickles |-> Cardinality(Threads)]
    /\ UNCHANGED <<m_tasks, work, pipe, edge, pc, local, spawned>>

StopTickle ==
    /\ main.at = "stop" /\ main.tickles > 0
    /\ Tickle
    /\ main' = [main EXCEPT !.tickles = @ - 1]
    /\ UNCHANGED <<m_tasks, m_stopping, work, pc, local, spawned>>

\* m_rootFiber->resume(): the caller's thread enters run(); then the joins.
StopRoot ==
    /\ main.at = "stop" /\ main.tickles = 0
    /\ main' = [main EXCEPT !.at = "join"]
    /\ pc' = [t \in Threads |-> IF t \in Callers THEN "scan" ELSE pc[t]]
    /\ UNCHANGED <<m_tasks, m_stopping, work, pipe, edge, local, spawned>>

StopJoin ==
    /\ main.at = "join"
    /\ \A t \in Threads : pc[t] = "exit"
    /\ main' = [main EXCEPT !.at = "joined"]
    /\ UNCHANGED <<m_tasks, m_stopping, work, pipe, edge, pc, local, spawned>>

(***************************************************************************)
(* run(): tasks.                                                           *)
(***************************************************************************)
\* The last task of the queue is overlooked.
Scan_OffByOne(t) ==
    /\ \/ /\ m_tasks <= 1
          /\ At(t, "scan", "empty")
          /\ UNCHANGED m_tasks
       \/ /\ m_tasks > 1
          /\ m_tasks' = m_tasks - 1
          /\ At(t, "scan", "more")
    /\ UNCHANGED <<m_stopping, work, pipe, edge, local, spawned, main>>

Scan(t) ==
    /\ \/ /\ m_tasks = 0
          /\ At(t, "scan", "empty")
          /\ UNCHANGED m_tasks
       \/ /\ m_tasks > 0
          /\ m_tasks' = m_tasks - 1
          /\ At(t, "scan", IF m_tasks > 1 THEN "more" ELSE "run")
    /\ UNCHANGED <<m_stopping, work, pipe, edge, local, spawned, main>>

TickleMore(t) ==
    /\ At(t, "more", "run")
    /\ Tickle
    /\ UNCHANGED <<m_tasks, m_stopping, work, local, spawned, main>>

\* A task calls schedule(); the tickle comes after the lock is released.
TaskPush(t) ==
    /\ Push
    /\ At(t, "run", IF m_tasks = 0 THEN "pushed" ELSE "run")
    /\ UNCHANGED <<m_stopping, work, pipe, edge, local, main>>

TaskTickle(t) ==
    /\ At(t, "pushed", "run")
    /\ Tickle
    /\ UNCHANGED <<m_tasks, m_stopping, work, local, spawned, main>>

\* A task adds a timer; onTimerInsertedAtFront() tickles if it is the new front.
TaskTimer(t, x) ==
    /\ x \notin used /\ used' = used \cup {x}
    /\ \E to \in {"run", "pushed"} : At(t, "run", to)
    /\ m_timers' = m_timers \cup {x}
    /\ UNCHANGED <<m_tasks, m_stopping, due, registered, m_pendingEventCount,
                   ready, pipe, edge, local, spawned, main>>

\* A task calls addEvent(), as a hooked read or write does.
TaskEvent(t, e) ==
    /\ e \notin used /\ used' = used \cup {e}
    /\ pc[t] = "run"
    /\ registered' = registered \cup {e}
    /\ m_pendingEventCount' = m_pendingEventCount + 1
    /\ UNCHANGED <<m_tasks, m_stopping, m_timers, due, ready, pipe, edge, pc,
                   local, spawned, main>>

TaskDone(t) ==
    /\ At(t, "run", "scan")
    /\ UNCHANGED <<m_tasks, m_stopping, work, pipe, edge, local, spawned, main>>

(***************************************************************************)
(* run() without a task, and IOManager::stopping(), which is not atomic:    *)
(* timers, then pending events, then Scheduler::stopping() under its lock.  *)
(***************************************************************************)
EnterIdle(t) ==
    /\ At(t, "empty", IF idle_fiber[t] = "TERM" THEN "exit" ELSE "timers")
    /\ UNCHANGED <<m_tasks, m_stopping, work, pipe, edge, local, spawned, main>>

TestTimers(t) ==
    /\ At(t, "timers", IF m_timers = {} THEN "pending" ELSE "wait")
    /\ UNCHANGED <<m_tasks, m_stopping, work, pipe, edge, local, spawned, main>>

TestPending(t) ==
    /\ At(t, "pending", IF m_pendingEventCount = 0 THEN "base" ELSE "wait")
    /\ UNCHANGED <<m_tasks, m_stopping, work, pipe, edge, local, spawned, main>>

BaseStopping == m_stopping /\ m_tasks = 0 /\ \A u \in Threads : pc[u] \notin ActivePCs

TestBase(t) ==
    /\ At(t, "base", IF BaseStopping THEN "leave" ELSE "wait")
    /\ idle_fiber' = [idle_fiber EXCEPT ![t] = IF BaseStopping THEN "TERM" ELSE @]
    /\ UNCHANGED <<m_tasks, m_stopping, work, pipe, edge, got, cbs, spawned, main>>

LeaveIdle(t) ==
    /\ At(t, "leave", "scan")
    /\ UNCHANGED <<m_tasks, m_stopping, work, pipe, edge, local, spawned, main>>

(***************************************************************************)
(* idle() from epoll_wait() to the yield.                                   *)
(***************************************************************************)
SomethingReady == (edge /\ pipe) \/ ready # {}

\* Edge-triggered: one thread takes what is on the ready list.
WaitEvent(t) ==
    /\ At(t, "wait", "collect")
    /\ SomethingReady
    /\ got' = [got EXCEPT ![t] = [tickled |-> edge /\ pipe, evs |-> ready]]
    /\ edge' = FALSE
    /\ ready' = {}
    /\ UNCHANGED <<m_tasks, m_stopping, m_timers, due, registered, used,
                   m_pendingEventCount, pipe, idle_fiber, cbs, spawned, main>>

\* The time of the next timer, or MAX_TIMEOUT, has passed.
WaitTimeout(t) ==
    /\ ~SomethingReady
    /\ At(t, "wait", "collect")
    /\ UNCHANGED <<m_tasks, m_stopping, work, pipe, edge, local, spawned, main>>

\* listExpiredCb(): the timers leave m_timers; their callbacks are in cbs only.
Collect(t) ==
    /\ At(t, "collect", "due")
    /\ cbs' = [cbs EXCEPT ![t] = Cardinality(due)]
    /\ m_timers' = m_timers \ due
    /\ due' = {}
    /\ UNCHANGED <<m_tasks, m_stopping, registered, m_pendingEventCount, ready,
                   used, pipe, edge, idle_fiber, got, spawned, main>>

ScheduleDue(t) ==
    /\ At(t, "due", "handle")
    /\ ScheduleIdle(cbs[t])
    /\ cbs' = [cbs EXCEPT ![t] = 0]
    /\ UNCHANGED <<m_stopping, work, idle_fiber, got, spawned, main>>

\* One event for the pipe is taken as one byte: the rest stays.
DrainPipe_OneByte(t) ==
    /\ pc[t] = "handle"
    /\ got[t].tickled
    /\ got' = [got EXCEPT ![t].tickled = FALSE]
    /\ pipe' \in BOOLEAN
    /\ UNCHANGED <<m_tasks, m_stopping, work, edge, pc, idle_fiber, cbs, spawned, main>>

DrainPipe(t) ==
    /\ pc[t] = "handle"
    /\ got[t].tickled
    /\ got' = [got EXCEPT ![t].tickled = FALSE]
    /\ pipe' = FALSE
    /\ UNCHANGED <<m_tasks, m_stopping, work, edge, pc, idle_fiber, cbs, spawned, main>>

\* The count is not lowered.
HandleEvent_NotCounted(t, e) ==
    /\ pc[t] = "handle"
    /\ e \in got[t].evs
    /\ got' = [got EXCEPT ![t].evs = @ \ {e}]
    /\ registered' = registered \ {e}
    /\ ScheduleIdle(1)
    /\ UNCHANGED <<m_stopping, m_timers, due, m_pendingEventCount, ready, used, pc,
                   idle_fiber, cbs, spawned, main>>

HandleEvent(t, e) ==
    /\ pc[t] = "handle"
    /\ e \in got[t].evs
    /\ got' = [got EXCEPT ![t].evs = @ \ {e}]
    /\ registered' = registered \ {e}
    /\ ScheduleIdle(1)
    /\ m_pendingEventCount' = m_pendingEventCount - 1
    /\ UNCHANGED <<m_stopping, m_timers, due, ready, used, pc, idle_fiber, cbs,
                   spawned, main>>

Handled(t) ==
    /\ got[t] = NoResult
    /\ At(t, "handle", "leave")
    /\ UNCHANGED <<m_tasks, m_stopping, work, pipe, edge, local, spawned, main>>

(***************************************************************************)
(* Time and the network.                                                   *)
(***************************************************************************)
TimerDue(x) ==
    /\ x \in m_timers \ due
    /\ due' = due \cup {x}
    /\ UNCHANGED <<m_tasks, m_stopping, m_timers, registered, m_pendingEventCount,
                   ready, used, pipe, edge, pc, local, spawned, main>>

EventReady(e) ==
    /\ e \in registered \ ready
    /\ \A t \in Threads : e \notin got[t].evs
    /\ ready' = ready \cup {e}
    /\ UNCHANGED <<m_tasks, m_stopping, m_timers, due, registered, used,
                   m_pendingEventCount, pipe, edge, pc, local, spawned, main>>

ThreadStep(t) ==
    \/ Scan(t) \/ TickleMore(t) \/ TaskTickle(t) \/ TaskDone(t)
    \/ EnterIdle(t) \/ TestTimers(t) \/ TestPending(t) \/ TestBase(t) \/ LeaveIdle(t)
    \/ WaitEvent(t) \/ WaitTimeout(t)
    \/ Collect(t) \/ ScheduleDue(t) \/ DrainPipe(t) \/ Handled(t)
    \/ \E e \in Events : HandleEvent(t, e)

TaskStep(t) ==
    \/ TaskPush(t)
    \/ \E x \in Timers : TaskTimer(t, x)
    \/ \E e \in Events : TaskEvent(t, e)

ClientStep == ClientTickle \/ StopFlag \/ StopTickle \/ StopRoot \/ StopJoin

Terminated == main.at = "joined" /\ UNCHANGED vars

Next ==
    \/ ClientPush \/ ClientStep
    \/ \E t \in Threads : ThreadStep(t) \/ TaskStep(t)
    \/ \E x \in Timers : TimerDue(x)
    \/ \E e \in Events : EventReady(e)
    \/ Terminated

Spec == Init /\ [][Next]_vars

\* Threads run, tasks end, time passes, the other side of a connection answers
\* or closes, and the program calls stop().
Fairness ==
    /\ WF_vars(ClientStep)
    /\ \A t \in Threads : WF_vars(ThreadStep(t)) /\ WF_vars(TaskDone(t))
    /\ \A x \in Timers : WF_vars(TimerDue(x))
    /\ \A e \in Events : WF_vars(EventReady(e))
FairSpec == Spec /\ Fairness
-----------------------------------------------------------------------------
\* stop() returns only when nothing is left to do (iomanager.cc:346-349, "all IO
\* events must have been served, and no timer may be left"): when every thread
\* has left run(), no task is queued, no timer set and no event registered.
StopDrainsIO ==
    (\A t \in Threads : pc[t] = "exit") =>
        m_tasks = 0 /\ m_timers = {} /\ registered = {}

\* A byte in the tickle pipe is never stuck: it is on epoll's ready list, or a
\* thread has taken it from there and will drain the pipe (iomanager.cc:326-338,
\* 405-411).  A stuck byte would be a wake-up nobody gets.
TickleNotLost == pipe => edge \/ \E t \in Threads : got[t].tickled

\* "When there is a new task, idle must be left at once" (iomanager.cc:352-356):
\* not all threads sleep in epoll_wait() while a task is queued, unless a wake-up
\* is on its way.
NoLostWakeup ==
    (\A t \in Threads : pc[t] \in {"wait", "off"}) /\ m_tasks > 0 /\ main.at = "up" =>
        SomethingReady

\* Queued tasks are taken, with MAX_TIMEOUT as the last resort
\* (iomanager.cc:375-392).
TasksAreTaken == (m_tasks > 0) ~> (m_tasks = 0)

\* stop() returns (scheduler.cc:194-234 with IOManager's stopping()).
StopReturns == m_stopping ~> (main.at = "joined")
=============================================================================
