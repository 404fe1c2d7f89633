------------------------------ MODULE Scheduler ------------------------------
(***************************************************************************)
(* The N:M coroutine scheduler: lamb/scheduler.cc, include/scheduler.h and  *)
(* the coroutine life cycle it drives, lamb/fiber.cc.                       *)
(*                                                                         *)
(* A thread of the scheduler executes Scheduler::run().  Its program        *)
(* counter stops wherever another thread can observe or disturb it:         *)
(*                                                                         *)
(*   off      not created yet                                              *)
(*   scan     about to lock m_mutex and look for a task                    *)
(*   got      task taken, not resumed yet                                  *)
(*   body     inside the user function of the task's fiber                 *)
(*   rearmed  the fiber put itself back in m_tasks and is about to yield   *)
(*   swap     inside Fiber::yield(), state published, swapcontext pending  *)
(*   back     control is back in run(), the task still counts as active    *)
(*   empty    nothing to take, about to test the idle fiber                *)
(*   idle     inside Scheduler::idle(), about to evaluate stopping()       *)
(*   idleback control is back from the idle fiber                          *)
(*   exit     run() returned                                               *)
(*                                                                         *)
(* The program's main thread is the client: it schedules, starts and stops. *)
(***************************************************************************)
EXTENDS Naturals, Sequences, FiniteSets

CONSTANTS
    Pool,        \* the threads created by start() (m_threadCount of them)
    Caller,      \* the thread that constructs and stops the scheduler
    UseCaller,   \* m_useCaller: the caller takes part, inside stop()
    Fibers,      \* the coroutines of the program
    Callbacks,   \* those handed to schedule() as functions, not as Fiber::ptr
    SelfPinned,  \* does a fiber that reschedules itself name its own thread?
    MaxYields,   \* bound: how often one fiber yields before it ends
    AnyThread,   \* the value -1 of ScheduleTask::thread
    NoFiber      \* an empty ScheduleTask

Threads == Pool \cup (IF UseCaller THEN {Caller} ELSE {})

ASSUME SchedulerAssumption ==
    /\ IsFiniteSet(Pool)
    /\ Threads # {}            \* LAMB_ASSERT(threads > 0), scheduler.cc:16
    /\ Caller \notin Pool
    /\ UseCaller \in BOOLEAN
    /\ SelfPinned \in BOOLEAN
    /\ Callbacks \subseteq Fibers
    /\ MaxYields \in Nat
    /\ AnyThread \notin Pool \cup {Caller}
    /\ NoFiber \notin Fibers

VARIABLES
    m_tasks,              \* list of [fiber, thread]
    m_activeThreadCount,
    m_idleThreadCount,
    m_stopping,
    m_state,              \* Fiber::m_state; "NONE": no Fiber object yet
    saved,                \* m_ctx of the fiber holds a resumable context
    yields,               \* how often the fiber has rescheduled itself
    submitted,            \* the fibers scheduled for the first time
    pc,                   \* per thread, see above
    task,                 \* per thread: the fiber it took from m_tasks
    idle_fiber,           \* per thread: state of the idle fiber
    main,                 \* control of the client
    aborted               \* a LAMB_ASSERT failed: the process is gone

vars == <<m_tasks, m_activeThreadCount, m_idleThreadCount, m_stopping, m_state,
          saved, yields, submitted, pc, task, idle_fiber, main, aborted>>

ScheduleTask == [fiber : Fibers, thread : Threads \cup {AnyThread}]
PCs == {"off", "scan", "got", "body", "rearmed", "swap", "back", "empty",
        "idle", "idleback", "exit"}

\* Between ++m_activeThreadCount and --m_activeThreadCount.
ActivePCs == {"got", "body", "rearmed", "swap", "back"}
\* The thread executes on the stack of its task's fiber.
OnStackPCs == {"body", "rearmed", "swap"}
IdlePCs == {"idle", "idleback"}

Init ==
    /\ m_tasks = <<>>
    /\ m_activeThreadCount = 0
    /\ m_idleThreadCount = 0
    /\ m_stopping = FALSE
    /\ m_state = [f \in Fibers |-> IF f \in Callbacks THEN "NONE" ELSE "READY"]
    /\ saved = [f \in Fibers |-> f \notin Callbacks]
    /\ yields = [f \in Fibers |-> 0]
    /\ submitted = {}
    /\ pc = [t \in Threads |-> "off"]
    /\ task = [t \in Threads |-> NoFiber]
    /\ idle_fiber = [t \in Threads |-> "READY"]
    /\ main = "setup"
    /\ aborted = FALSE

(***************************************************************************)
(* Scheduler::stopping(), evaluated under m_mutex.                          *)
(***************************************************************************)
Stopping_IgnoresTasks ==
    m_stopping /\ m_activeThreadCount = 0

Stopping ==
    m_stopping /\ m_tasks = <<>> /\ m_activeThreadCount = 0

(***************************************************************************)
(* schedule(): push under the lock.  Scheduler::tickle() only logs, so the  *)
(* value need_tickle has no effect in the base class.                       *)
(***************************************************************************)
Push(f, thr) == m_tasks' = Append(m_tasks, [fiber |-> f, thread |-> thr])

Submit(f, thr) ==
    /\ f \notin submitted
    /\ submitted' = submitted \cup {f}
    /\ Push(f, thr)

\* The client adds a task, before start() or after it, but not after stop().
ClientSchedule(f, thr) ==
    /\ main \in {"setup", "up"}
    /\ Submit(f, thr)
    /\ UNCHANGED <<m_activeThreadCount, m_idleThreadCount, m_stopping, m_state,
                   saved, yields, pc, task, idle_fiber, main, aborted>>

\* A running fiber adds a task through Scheduler::GetThis()->schedule().
FiberSchedule(t, f, thr) ==
    /\ pc[t] = "body"
    /\ Submit(f, thr)
    /\ UNCHANGED <<m_activeThreadCount, m_idleThreadCount, m_stopping, m_state,
                   saved, yields, pc, task, idle_fiber, main, aborted>>

(***************************************************************************)
(* start(): one Thread per slot, each of which runs Scheduler::run().       *)
(***************************************************************************)
Start ==
    /\ main = "setup"
    /\ main' = "up"
    /\ pc' = [t \in Threads |-> IF t \in Pool THEN "scan" ELSE pc[t]]
    /\ UNCHANGED <<m_tasks, m_activeThreadCount, m_idleThreadCount, m_stopping,
                   m_state, saved, yields, submitted, task, idle_fiber, aborted>>

(***************************************************************************)
(* run(): the scan of m_tasks under the lock.                               *)
(***************************************************************************)
\* m_tasks.erase(): the list without its i-th element.
Erase(s, i) == SubSeq(s, 1, i - 1) \o SubSeq(s, i + 1, Len(s))

\* A task with a thread id is skipped by every thread.
MayTake_NeverPinned(t, i) == m_tasks[i].thread = AnyThread

MayTake(t, i) == m_tasks[i].thread \in {AnyThread, t}
Eligible(t) == {i \in 1..Len(m_tasks) : MayTake(t, i)}
FirstEligible(t, i) == i \in Eligible(t) /\ \A j \in Eligible(t) : i <= j

\* A task pinned to another thread is taken too.
Dequeue_IgnoresPin(t) ==
    /\ pc[t] = "scan"
    /\ m_tasks # <<>>
    /\ aborted' = (m_state[Head(m_tasks).fiber] \notin {"NONE", "READY"})
    /\ task' = [task EXCEPT ![t] = Head(m_tasks).fiber]
    /\ m_tasks' = Tail(m_tasks)
    /\ m_activeThreadCount' = m_activeThreadCount + 1
    /\ pc' = [pc EXCEPT ![t] = "got"]
    /\ UNCHANGED <<m_idleThreadCount, m_stopping, m_state, saved, yields,
                   submitted, idle_fiber, main>>

\* The assertion of line 139 applies to tasks that carry a Fiber::ptr; a task
\* with a callback has no Fiber object yet ("NONE").
Dequeue(t) ==
    /\ pc[t] = "scan"
    /\ \E i \in 1..Len(m_tasks) :
          /\ FirstEligible(t, i)
          /\ aborted' = (m_state[m_tasks[i].fiber] \notin {"NONE", "READY"})
          /\ task' = [task EXCEPT ![t] = m_tasks[i].fiber]
          /\ m_tasks' = Erase(m_tasks, i)
    /\ m_activeThreadCount' = m_activeThreadCount + 1
    /\ pc' = [pc EXCEPT ![t] = "got"]
    /\ UNCHANGED <<m_idleThreadCount, m_stopping, m_state, saved, yields,
                   submitted, idle_fiber, main>>

ScanEmpty(t) ==
    /\ pc[t] = "scan"
    /\ Eligible(t) = {}
    /\ pc' = [pc EXCEPT ![t] = "empty"]
    /\ UNCHANGED <<m_tasks, m_activeThreadCount, m_idleThreadCount, m_stopping,
                   m_state, saved, yields, submitted, task, idle_fiber, main, aborted>>

(***************************************************************************)
(* Fiber::resume(), for a callback after the construction of its fiber.     *)
(***************************************************************************)
Resume(t) ==
    /\ pc[t] = "got"
    /\ aborted' = (m_state[task[t]] \in {"TERM", "RUNNING"})
    /\ m_state' = [m_state EXCEPT ![task[t]] = "RUNNING"]
    /\ saved' = [saved EXCEPT ![task[t]] = FALSE]
    /\ pc' = [pc EXCEPT ![t] = "body"]
    /\ UNCHANGED <<m_tasks, m_activeThreadCount, m_idleThreadCount, m_stopping,
                   yields, submitted, task, idle_fiber, main>>

(***************************************************************************)
(* The user function.  A fiber that wants to yield first puts itself back   *)
(* in the queue: tests/test_scheduler.cc:16-21 prescribes exactly this.     *)
(***************************************************************************)
Reschedule(t) ==
    /\ pc[t] = "body"
    /\ yields[task[t]] < MaxYields
    /\ Push(task[t], IF SelfPinned THEN t ELSE AnyThread)
    /\ yields' = [yields EXCEPT ![task[t]] = @ + 1]
    /\ pc' = [pc EXCEPT ![t] = "rearmed"]
    /\ UNCHANGED <<m_activeThreadCount, m_idleThreadCount, m_stopping, m_state,
                   saved, submitted, task, idle_fiber, main, aborted>>

\* yield() leaves the state alone.
Yield_StaysRunning(t) ==
    /\ pc[t] = "rearmed"
    /\ pc' = [pc EXCEPT ![t] = "swap"]
    /\ UNCHANGED <<m_tasks, m_activeThreadCount, m_idleThreadCount, m_stopping,
                   m_state, saved, yields, submitted, task, idle_fiber, main, aborted>>

\* Fiber::yield() up to, not including, swapcontext.
Yield(t) ==
    /\ pc[t] = "rearmed"
    /\ aborted' = (m_state[task[t]] \notin {"RUNNING", "TERM"})
    /\ m_state' = [m_state EXCEPT ![task[t]] = IF @ = "TERM" THEN @ ELSE "READY"]
    /\ pc' = [pc EXCEPT ![t] = "swap"]
    /\ UNCHANGED <<m_tasks, m_activeThreadCount, m_idleThreadCount, m_stopping,
                   saved, yields, submitted, task, idle_fiber, main>>

\* The end of Fiber::MainFunc(): TERM, then yield().
Finish(t) ==
    /\ pc[t] = "body"
    /\ m_state' = [m_state EXCEPT ![task[t]] = "TERM"]
    /\ pc' = [pc EXCEPT ![t] = "swap"]
    /\ UNCHANGED <<m_tasks, m_activeThreadCount, m_idleThreadCount, m_stopping,
                   saved, yields, submitted, task, idle_fiber, main, aborted>>

\* swapcontext: the fiber's context is stored and run() continues.
SwapBack(t) ==
    /\ pc[t] = "swap"
    /\ saved' = [saved EXCEPT ![task[t]] = TRUE]
    /\ pc' = [pc EXCEPT ![t] = "back"]
    /\ UNCHANGED <<m_tasks, m_activeThreadCount, m_idleThreadCount, m_stopping,
                   m_state, yields, submitted, task, idle_fiber, main, aborted>>

(***************************************************************************)
(* run() after the resume: one active thread less, and the reference of the *)
(* task is dropped.  ~Fiber asserts TERM when that was the last reference.  *)
(***************************************************************************)
Referenced(f, t) ==
    \/ \E i \in 1..Len(m_tasks) : m_tasks[i].fiber = f
    \/ \E u \in Threads \ {t} : task[u] = f

TaskDone(t) ==
    /\ pc[t] = "back"
    /\ m_activeThreadCount' = m_activeThreadCount - 1
    /\ aborted' = (m_state[task[t]] # "TERM" /\ ~Referenced(task[t], t))
    /\ task' = [task EXCEPT ![t] = NoFiber]
    /\ pc' = [pc EXCEPT ![t] = "scan"]
    /\ UNCHANGED <<m_tasks, m_idleThreadCount, m_stopping, m_state, saved,
                   yields, submitted, idle_fiber, main>>

(***************************************************************************)
(* run(), the branch without a task, and Scheduler::idle().                 *)
(***************************************************************************)
EnterIdle(t) ==
    /\ pc[t] = "empty"
    /\ idle_fiber[t] = "READY"
    /\ m_idleThreadCount' = m_idleThreadCount + 1
    /\ pc' = [pc EXCEPT ![t] = "idle"]
    /\ UNCHANGED <<m_tasks, m_activeThreadCount, m_stopping, m_state, saved,
                   yields, submitted, task, idle_fiber, main, aborted>>

Exit(t) ==
    /\ pc[t] = "empty"
    /\ idle_fiber[t] = "TERM"
    /\ pc' = [pc EXCEPT ![t] = "exit"]
    /\ UNCHANGED <<m_tasks, m_activeThreadCount, m_idleThreadCount, m_stopping,
                   m_state, saved, yields, submitted, task, idle_fiber, main, aborted>>

\* idle() either yields (stays READY) or returns (its fiber becomes TERM).
IdleStep(t) ==
    /\ pc[t] = "idle"
    /\ idle_fiber' = [idle_fiber EXCEPT ![t] = IF Stopping THEN "TERM" ELSE "READY"]
    /\ pc' = [pc EXCEPT ![t] = "idleback"]
    /\ UNCHANGED <<m_tasks, m_activeThreadCount, m_idleThreadCount, m_stopping,
                   m_state, saved, yields, submitted, task, main, aborted>>

LeaveIdle(t) ==
    /\ pc[t] = "idleback"
    /\ m_idleThreadCount' = m_idleThreadCount - 1
    /\ pc' = [pc EXCEPT ![t] = "scan"]
    /\ UNCHANGED <<m_tasks, m_activeThreadCount, m_stopping, m_state, saved,
                   yields, submitted, task, idle_fiber, main, aborted>>

(***************************************************************************)
(* stop(): the test of stopping(), the unlocked store to m_stopping, the    *)
(* caller's own share of the work (m_rootFiber->resume()) and the joins.    *)
(* It may be called again once it has returned; ~IOManager does so.         *)
(***************************************************************************)
StopCheck ==
    /\ main \in {"up", "stopped"}
    /\ main' = IF Stopping THEN "down" ELSE "flag"
    /\ UNCHANGED <<m_tasks, m_activeThreadCount, m_idleThreadCount, m_stopping,
                   m_state, saved, yields, submitted, pc, task, idle_fiber, aborted>>

StopFlag ==
    /\ main = "flag"
    /\ m_stopping' = TRUE
    /\ main' = "root"
    /\ UNCHANGED <<m_tasks, m_activeThreadCount, m_idleThreadCount, m_state,
                   saved, yields, submitted, pc, task, idle_fiber, aborted>>

\* m_rootFiber is TERM once the caller's run() has returned.
StopRoot ==
    /\ main = "root"
    /\ aborted' = (UseCaller /\ pc[Caller] = "exit")
    /\ pc' = [t \in Threads |-> IF t = Caller THEN "scan" ELSE pc[t]]
    /\ main' = "join"
    /\ UNCHANGED <<m_tasks, m_activeThreadCount, m_idleThreadCount, m_stopping,
                   m_state, saved, yields, submitted, task, idle_fiber>>

\* The joins are skipped: stop() returns while workers still run.
StopJoin_NoJoin ==
    /\ main = "join"
    /\ UseCaller => pc[Caller] = "exit"
    /\ main' = "stopped"
    /\ UNCHANGED <<m_tasks, m_activeThreadCount, m_idleThreadCount, m_stopping,
                   m_state, saved, yields, submitted, pc, task, idle_fiber, aborted>>

StopJoin ==
    /\ main = "join"
    /\ \A t \in Threads : pc[t] = "exit"
    /\ main' = "stopped"
    /\ UNCHANGED <<m_tasks, m_activeThreadCount, m_idleThreadCount, m_stopping,
                   m_state, saved, yields, submitted, pc, task, idle_fiber, aborted>>

\* The program has returned from its last stop(), or an assertion killed it.
Terminated == (main = "down" \/ aborted) /\ UNCHANGED vars

ThreadStep(t) ==
    \/ Dequeue(t) \/ ScanEmpty(t) \/ Resume(t)
    \/ Yield(t) \/ SwapBack(t) \/ TaskDone(t)
    \/ EnterIdle(t) \/ Exit(t) \/ IdleStep(t) \/ LeaveIdle(t)
    \/ Reschedule(t) \/ Finish(t)

ClientStep == Start \/ StopCheck \/ StopFlag \/ StopRoot \/ StopJoin

Next ==
    \/ /\ ~aborted
       /\ \/ \E f \in Fibers, thr \in Threads \cup {AnyThread} :
                \/ ClientSchedule(f, thr)
                \/ \E t \in Threads : FiberSchedule(t, f, thr)
          \/ \E t \in Threads : ThreadStep(t)
          \/ ClientStep
    \/ Terminated

Spec == Init /\ [][Next]_vars

\* The operating system runs every thread that can run; user functions end;
\* the program eventually starts and stops its scheduler.
Fairness ==
    /\ \A t \in Threads : WF_vars(~aborted /\ ThreadStep(t))
    /\ WF_vars(~aborted /\ ClientStep)

FairSpec == Spec /\ Fairness
-----------------------------------------------------------------------------
(***************************************************************************)
(* Properties                                                              *)
(***************************************************************************)

\* Type correctness of the scheduler's state (scheduler.h:121-147, fiber.h:93-107).
TypeOK ==
    /\ m_tasks \in Seq(ScheduleTask)
    /\ m_activeThreadCount \in Nat
    /\ m_idleThreadCount \in Nat
    /\ m_stopping \in BOOLEAN
    /\ m_state \in [Fibers -> {"NONE", "READY", "RUNNING", "TERM"}]
    /\ saved \in [Fibers -> BOOLEAN]
    /\ yields \in [Fibers -> 0..MaxYields]
    /\ submitted \in SUBSET Fibers
    /\ pc \in [Threads -> PCs]
    /\ task \in [Threads -> Fibers \cup {NoFiber}]
    /\ idle_fiber \in [Threads -> {"READY", "TERM"}]
    /\ main \in {"setup", "up", "flag", "root", "join", "stopped", "down"}
    /\ aborted \in BOOLEAN

\* m_activeThreadCount and m_idleThreadCount (scheduler.cc:144,159,174,186,188)
\* are at every moment the number of threads between the increment and the
\* decrement, on every path through run().
CountsExact ==
    /\ m_activeThreadCount = Cardinality({t \in Threads : pc[t] \in ActivePCs})
    /\ m_idleThreadCount = Cardinality({t \in Threads : pc[t] \in IdlePCs})

\* Once one thread has decided to leave (its idle fiber ended because
\* stopping() held), no task is queued and no thread executes one, and this
\* stays so: the other threads leave with nothing left behind.  It rests on
\* erase and ++m_activeThreadCount happening under one lock
\* (scheduler.cc:142-144) and on schedule() inside a task being called before
\* the decrement.
NoWorkAbandoned ==
    (\E t \in Threads : idle_fiber[t] = "TERM") =>
        /\ m_tasks = <<>>
        /\ \A t \in Threads : pc[t] \notin ActivePCs

\* When stop() has returned, every fiber that was ever scheduled has run to
\* its end and every thread has left run() (scheduler.cc:194-234).
StopDrains ==
    main \in {"stopped", "down"} =>
        /\ \A f \in submitted : m_state[f] = "TERM"
        /\ \A t \in Threads : pc[t] = "exit"

\* Two threads never execute on the stack of the same fiber (run() resumes,
\* scheduler.cc:158,173; READY is published before swapcontext, fiber.cc:138-149).
OneThreadPerFiber ==
    \A t, u \in Threads :
        t # u /\ pc[t] \in OnStackPCs /\ pc[u] \in OnStackPCs => task[t] # task[u]

\* No LAMB_ASSERT of run(), resume(), yield(), ~Fiber() or stop() fails; among
\* them scheduler.cc:138-139, "a fiber in the task queue is certainly READY".
NoAssertFails == ~aborted

\* Every scheduled fiber eventually runs to its end (schedule(), run()).
EveryTaskRuns == \A f \in Fibers : (f \in submitted) ~> (m_state[f] = "TERM")

-----------------------------------------------------------------------------
(***************************************************************************)
(* Refinement: the scheduler implements TaskPool.                           *)
(***************************************************************************)
\* A thread executes a job, in the sense of TaskPool, from the moment it took
\* the task until the fiber's context is stored again; a fiber put back in the
\* queue by itself is waiting only after that.
poolOn == [t \in Threads |-> IF pc[t] \in ActivePCs \ {"back"} THEN task[t] ELSE NoFiber]
poolWaiting == {f \in submitted : /\ \E i \in 1..Len(m_tasks) : m_tasks[i].fiber = f
                                  /\ \A t \in Threads : poolOn[t] # f}
poolDone == {f \in submitted : m_state[f] = "TERM" /\ \A t \in Threads : poolOn[t] # f}
poolLeft == {t \in Threads : idle_fiber[t] = "TERM"}

Pl == INSTANCE TaskPool WITH Jobs <- Fibers, NoJob <- NoFiber,
        waiting <- poolWaiting, on <- poolOn, done <- poolDone, left <- poolLeft

\* The scheduler implements the abstract task pool: run(), schedule(), idle()
\* and stop() together (scheduler.cc:68-234) never lose, duplicate or rerun a
\* job and never let a thread leave while there is work.
ImplementsTaskPool == Pl!Spec
=============================================================================
