------------------------------ MODULE IOEvents ------------------------------
(***************************************************************************)
(* The event registrations of IOManager (lamb/iomanager.cc, FdContext in    *)
(* include/iomanager.h), the part of idle() that turns epoll events into    *)
(* scheduled work, and the kernel's edge-triggered epoll underneath.        *)
(*                                                                         *)
(* Every operation on a FdContext holds its mutex from the lookup to the    *)
(* end, so it is one step.  What is not atomic is the way of an event from  *)
(* epoll_wait() to its handler (events[] of idle()), and the way of a fiber *)
(* from addEvent() to its yield.                                            *)
(***************************************************************************)
EXTENDS Integers, FiniteSets

CONSTANTS
    Threads,     \* threads of the event loop
    Fds,
    Waiters,     \* the parties that wait for events, one event at a time
    Pools,       \* how the IOManager may be used: records of
                 \*   threads: its threads, a subset of Threads,
                 \*   waiters: who is there,
                 \*   dirs: which events the program waits for on a descriptor,
                 \*   fibers: who waits by parking a fiber; others pass a cb
    NoWaiter

Events == {"READ", "WRITE"}

ASSUME IOAssumption ==
    /\ IsFiniteSet(Fds) /\ IsFiniteSet(Waiters) /\ IsFiniteSet(Threads)
    /\ Pools \subseteq [threads : SUBSET Threads, waiters : SUBSET Waiters,
                        dirs : [Fds -> SUBSET Events], fibers : SUBSET Waiters]
    /\ NoWaiter \notin Waiters

VARIABLES
    pool,                \* never changes
    events,              \* FdContext::events, a set of events
    ctx,                 \* EventContext: the waiter to schedule
    m_pendingEventCount,
    state,               \* per waiter: "run", "added" (registered, not yet
                         \*   yielded), "parked"
    scheduled,           \* per waiter: entries in the scheduler's queue
    interest,            \* kernel: the events epoll watches on the descriptor
    ready,               \* kernel: what the descriptor is ready for
    hup,                 \* kernel: error or hang-up, permanent
    rdlist,              \* kernel: the descriptor is on epoll's ready list
    batch,               \* per thread: results of epoll_wait() to be handled
    aborted              \* the LAMB_ASSERT that failed: "no" when none did

vars == <<pool, events, ctx, m_pendingEventCount, state, scheduled, interest, ready,
          hup, rdlist, batch, aborted>>
kernel == <<interest, ready, hup, rdlist>>

Dirs == pool.dirs
Fibers == pool.fibers
Concurrent == Cardinality(pool.threads) > 1

Init ==
    /\ pool \in Pools
    /\ events = [fd \in Fds |-> {}]
    /\ ctx = [fd \in Fds |-> [e \in Events |-> NoWaiter]]
    /\ m_pendingEventCount = 0
    /\ state = [w \in Waiters |-> "run"]
    /\ scheduled = [w \in Waiters |-> 0]
    /\ interest = [fd \in Fds |-> {}]
    /\ ready = [fd \in Fds |-> {}]
    /\ hup = [fd \in Fds |-> FALSE]
    /\ rdlist = [fd \in Fds |-> FALSE]
    /\ batch = [t \in Threads |-> {}]
    /\ aborted = "no"

\* A single thread runs one fiber or its event loop at a time, and enters idle()
\* only when the queue is empty.
FibersQuiet_Preempted == TRUE

FibersQuiet == Concurrent \/ \A w \in Waiters : state[w] # "added"
LoopQuiet == Concurrent \/ \A t \in Threads : batch[t] = {}

(***************************************************************************)
(* The kernel.                                                             *)
(***************************************************************************)
\* epoll_ctl ADD, MOD or DEL, which is DEL when no event is left: the ready
\* state is evaluated at once, as for a new edge.
EpollCtl(fd, evs) ==
    /\ interest' = [interest EXCEPT ![fd] = evs]
    /\ rdlist' = [rdlist EXCEPT ![fd] =
                    evs # {} /\ (evs \cap ready[fd] # {} \/ hup[fd])]
    /\ UNCHANGED <<ready, hup>>

BecomeReady(fd, e) ==
    /\ e \notin ready[fd]
    /\ ready' = [ready EXCEPT ![fd] = @ \cup {e}]
    /\ rdlist' = [rdlist EXCEPT ![fd] = @ \/ e \in interest[fd]]
    /\ UNCHANGED <<pool, events, ctx, m_pendingEventCount, state, scheduled, interest,
                   hup, batch, aborted>>

\* Somebody reads what there was, or fills the send buffer.
Drain(fd, e) ==
    /\ e \in ready[fd]
    /\ ready' = [ready EXCEPT ![fd] = @ \ {e}]
    /\ UNCHANGED <<pool, events, ctx, m_pendingEventCount, state, scheduled, interest,
                   hup, rdlist, batch, aborted>>

HangUp(fd) ==
    /\ ~hup[fd]
    /\ hup' = [hup EXCEPT ![fd] = TRUE]
    /\ rdlist' = [rdlist EXCEPT ![fd] = @ \/ interest[fd] # {}]
    /\ UNCHANGED <<pool, events, ctx, m_pendingEventCount, state, scheduled, interest,
                   ready, batch, aborted>>

(***************************************************************************)
(* The waiters.                                                            *)
(***************************************************************************)
\* The interest of the events registered before is lost.
AddEvent_Replaces(w, fd, e) ==
    /\ FibersQuiet /\ LoopQuiet
    /\ state[w] = "run" /\ scheduled[w] = 0
    /\ e \in Dirs[fd] \ events[fd]
    /\ EpollCtl(fd, {e})
    /\ m_pendingEventCount' = m_pendingEventCount + 1
    /\ events' = [events EXCEPT ![fd] = @ \cup {e}]
    /\ ctx' = [ctx EXCEPT ![fd][e] = w]
    /\ state' = [state EXCEPT ![w] = IF w \in Fibers THEN "added" ELSE "parked"]
    /\ UNCHANGED <<pool, scheduled, batch, aborted>>

\* The caller does not register an event that is registered (line 163).
AddEvent(w, fd, e) ==
    /\ FibersQuiet /\ LoopQuiet
    /\ state[w] = "run" /\ scheduled[w] = 0
    /\ e \in Dirs[fd] \ events[fd]
    /\ EpollCtl(fd, events[fd] \cup {e})
    /\ m_pendingEventCount' = m_pendingEventCount + 1
    /\ events' = [events EXCEPT ![fd] = @ \cup {e}]
    /\ ctx' = [ctx EXCEPT ![fd][e] = w]
    /\ state' = [state EXCEPT ![w] = IF w \in Fibers THEN "added" ELSE "parked"]
    /\ UNCHANGED <<pool, scheduled, batch, aborted>>

\* Fiber::yield() after addEvent(), as in do_io().
Park(w) ==
    /\ state[w] = "added"
    /\ state' = [state EXCEPT ![w] = "parked"]
    /\ UNCHANGED <<pool, events, ctx, m_pendingEventCount, scheduled, kernel, batch, aborted>>

\* Scheduler::run() takes the task; for a fiber it asserts READY.
RunTask(w) ==
    /\ FibersQuiet /\ LoopQuiet
    /\ scheduled[w] > 0
    /\ scheduled' = [scheduled EXCEPT ![w] = @ - 1]
    /\ state' = [state EXCEPT ![w] = "run"]
    /\ aborted' = IF state[w] = "added" THEN "ready" ELSE aborted
    /\ UNCHANGED <<pool, events, ctx, m_pendingEventCount, kernel, batch>>

(***************************************************************************)
(* triggerEvent() for the events evs of fd: each must be registered; the    *)
(* waiters are scheduled and forgotten.  The caller lowers the count.       *)
(***************************************************************************)
Trigger_KeepsContext(fd, evs) ==
    LET woken == {ctx[fd][e] : e \in evs \cap events[fd]}
    IN  /\ aborted' = IF evs \subseteq events[fd] THEN aborted ELSE "trigger"
        /\ events' = [events EXCEPT ![fd] = @ \ evs]
        /\ scheduled' = [w \in Waiters |-> IF w \in woken THEN scheduled[w] + 1
                                                        ELSE scheduled[w]]
        /\ UNCHANGED ctx
        /\ m_pendingEventCount' = m_pendingEventCount - Cardinality(evs \cap events[fd])

Trigger(fd, evs) ==
    LET woken == {ctx[fd][e] : e \in evs \cap events[fd]}
    IN  /\ aborted' = IF evs \subseteq events[fd] THEN aborted ELSE "trigger"
        /\ events' = [events EXCEPT ![fd] = @ \ evs]
        /\ scheduled' = [w \in Waiters |-> IF w \in woken THEN scheduled[w] + 1
                                                        ELSE scheduled[w]]
        /\ ctx' = [ctx EXCEPT ![fd] = [e \in Events |-> IF e \in evs THEN NoWaiter
                                                                  ELSE @[e]]]
        /\ m_pendingEventCount' = m_pendingEventCount - Cardinality(evs \cap events[fd])

\* delEvent() wakes nobody: it is not for an event a parked fiber waits for.
DelEvent(fd, e) ==
    /\ FibersQuiet /\ LoopQuiet
    /\ e \in events[fd]
    /\ ctx[fd][e] \notin Fibers
    /\ EpollCtl(fd, events[fd] \ {e})
    /\ m_pendingEventCount' = m_pendingEventCount - 1
    /\ events' = [events EXCEPT ![fd] = @ \ {e}]
    /\ state' = [state EXCEPT ![ctx[fd][e]] = "run"]
    /\ ctx' = [ctx EXCEPT ![fd][e] = NoWaiter]
    /\ UNCHANGED <<pool, scheduled, batch, aborted>>

CancelEvent(fd, e) ==
    /\ FibersQuiet /\ LoopQuiet
    /\ e \in events[fd]
    /\ EpollCtl(fd, events[fd] \ {e})
    /\ Trigger(fd, {e})
    /\ UNCHANGED <<pool, state, batch>>

CancelAll(fd) ==
    /\ FibersQuiet /\ LoopQuiet
    /\ events[fd] # {}
    /\ EpollCtl(fd, {})
    /\ Trigger(fd, events[fd])
    /\ UNCHANGED <<pool, state, batch>>

(***************************************************************************)
(* idle(): epoll_wait() takes everything that is ready, then each result is *)
(* handled under the mutex of its FdContext.                                *)
(***************************************************************************)
EpollWait(t) ==
    /\ t \in pool.threads
    /\ FibersQuiet
    /\ Concurrent \/ \A w \in Waiters : scheduled[w] = 0
    /\ batch[t] = {}
    /\ \E fd \in Fds : rdlist[fd]
    /\ batch' = [batch EXCEPT ![t] =
                   {r \in {[fd |-> fd, evs |-> ready[fd] \cap interest[fd], hup |-> hup[fd]] :
                             fd \in {x \in Fds : rdlist[x]}} : r.evs # {} \/ r.hup}]
    /\ rdlist' = [fd \in Fds |-> FALSE]
    /\ UNCHANGED <<pool, events, ctx, m_pendingEventCount, state, scheduled, interest,
                   ready, hup, aborted>>

RealEvents(r) == r.evs \cup (IF r.hup THEN events[r.fd] ELSE {})

\* What is left is not watched any more.
Handle_DropsLeft(t, r) ==
    /\ r \in batch[t]
    /\ batch' = [batch EXCEPT ![t] = @ \ {r}]
    /\ LET real == RealEvents(r) IN
       \/ /\ events[r.fd] \cap real = {}
          /\ UNCHANGED <<events, ctx, m_pendingEventCount, scheduled, kernel, aborted>>
       \/ /\ events[r.fd] \cap real # {}
          /\ EpollCtl(r.fd, {})
          /\ Trigger(r.fd, real)
    /\ UNCHANGED <<pool, state>>

\* The result is taken to be up to date.
Handle_Unchecked(t, r) ==
    /\ r \in batch[t]
    /\ batch' = [batch EXCEPT ![t] = @ \ {r}]
    /\ EpollCtl(r.fd, events[r.fd] \ RealEvents(r))
    /\ Trigger(r.fd, RealEvents(r))
    /\ UNCHANGED <<pool, state>>

Handle(t, r) ==
    /\ r \in batch[t]
    /\ batch' = [batch EXCEPT ![t] = @ \ {r}]
    /\ LET real == RealEvents(r) IN
       \/ /\ events[r.fd] \cap real = {}
          /\ UNCHANGED <<events, ctx, m_pendingEventCount, scheduled, kernel, aborted>>
       \/ /\ events[r.fd] \cap real # {}
          /\ EpollCtl(r.fd, events[r.fd] \ real)
          /\ Trigger(r.fd, real)
    /\ UNCHANGED <<pool, state>>

LoopStep(t) == EpollWait(t) \/ \E r \in batch[t] : Handle(t, r)
KernelStep ==
    \E fd \in Fds :
        \/ HangUp(fd)
        \/ \E e \in Dirs[fd] : BecomeReady(fd, e) \/ Drain(fd, e)

Next ==
    /\ aborted = "no"
    /\ \/ KernelStep
       \/ \E t \in Threads : LoopStep(t)
       \/ \E w \in pool.waiters :
             \/ Park(w) \/ RunTask(w)
             \/ \E fd \in Fds, e \in Events : AddEvent(w, fd, e)
       \/ \E fd \in Fds :
             \/ CancelAll(fd)
             \/ \E e \in Events : DelEvent(fd, e) \/ CancelEvent(fd, e)

Spec == Init /\ [][Next]_vars

\* Results that were taken are handled, a fiber reaches its yield, a queued task
\* is run.  A thread that finds the queue empty enters idle(): strong fairness,
\* because tasks come in between.
Fairness ==
    /\ \A t \in Threads : /\ SF_vars(aborted = "no" /\ EpollWait(t))
                          /\ WF_vars(aborted = "no" /\ \E r \in batch[t] : Handle(t, r))
    /\ \A w \in Waiters : /\ WF_vars(aborted = "no" /\ Park(w))
                          /\ WF_vars(aborted = "no" /\ RunTask(w))
FairSpec == Spec /\ Fairness
-----------------------------------------------------------------------------
\* The records of a registration agree: FdContext::events, the context with the
\* waiter, what epoll watches (iomanager.cc:149-320, 437-457), and the count
\* on which IOManager::stopping() relies (349).
RegistrationsAgree ==
    /\ m_pendingEventCount = Cardinality({p \in Fds \X Events : p[2] \in events[p[1]]})
    /\ \A fd \in Fds :
          /\ interest[fd] = events[fd]
          /\ \A e \in Events : ctx[fd][e] # NoWaiter <=> e \in events[fd]

\* A waiter that gave up its thread is in exactly one place: one registration,
\* or one entry of the queue.  It is neither lost nor woken twice.
WokenOnce ==
    \A w \in Waiters :
        scheduled[w] + Cardinality({p \in Fds \X Events : ctx[p[1]][p[2]] = w}) =
            IF state[w] = "run" THEN 0 ELSE 1

\* "An event that is triggered must have been registered": the assertion of
\* triggerEvent() (iomanager.cc:81-82).
TriggeredIsRegistered == aborted # "trigger"

\* "A fiber in the task queue is certainly READY": the assertion of run()
\* (scheduler.cc:138-139) for fibers woken by events.
WokenIsReady == aborted # "ready"

\* The load leaves room: again and again the queue is empty and no fiber runs.
\* run() enters idle() in no other state, so tasks that keep coming starve it.
LoadLeavesRoom == []<>(FibersQuiet /\ \A w \in Waiters : scheduled[w] = 0)

\* When the load leaves room for idle(), a registered event whose descriptor is
\* ready, or broken, is triggered: no edge is lost between addEvent(),
\* cancelEvent() and the re-registration of what idle() leaves.
ReadyIsServed ==
    LoadLeavesRoom =>
        \A fd \in Fds, e \in Events :
            (e \in events[fd] /\ (e \in ready[fd] \/ hup[fd])) ~>
                (e \notin events[fd] \/ (e \notin ready[fd] /\ ~hup[fd]))
=============================================================================
