---------------------------- MODULE TimerManager ----------------------------
(***************************************************************************)
(* lamb/timer.cc, include/timer.h: the timers of an IOManager.              *)
(*                                                                         *)
(* m_timers is ordered by (m_next, address); the members of Timers are the  *)
(* addresses.  Every operation runs under m_mutex except the reads of the   *)
(* clock in the constructor of Timer and at the top of listExpiredCb(),     *)
(* which happen before the lock is taken, and the call of                   *)
(* onTimerInsertedAtFront(), which happens after it is released.            *)
(*                                                                         *)
(* A thread of the event loop asks for the next timer, waits, and collects  *)
(* the expired callbacks (the calls in IOManager::idle()):                  *)
(*                                                                         *)
(*   loop  about to call getNextTimer()                                    *)
(*   wait  waiting until the time it was told, or to be woken               *)
(*   woken about to call listExpiredCb()                                   *)
(*   read  the clock is read, the lock not yet taken                       *)
(***************************************************************************)
EXTENDS Integers, FiniteSets

CONSTANTS
    Threads,
    Timers,     \* addresses of Timer objects
    Periods,    \* the intervals timers are created with or reset to
    Start,      \* the clock when the manager is created
    MaxNow,     \* bound: the clock stops here
    MaxLag,     \* bound: how long a thread waits for m_mutex after reading the clock
    MaxFired,   \* bound: expiries counted per timer
    MaxCallers, \* bound: calls of onTimerInsertedAtFront() in progress
    Hour,       \* 60*60*1000
    Word        \* 2^64

ASSUME TimerAssumption ==
    /\ Threads # {}        \* an IOManager has at least one thread
    /\ Timers \subseteq Int
    /\ Periods \subseteq Nat
    /\ Start \in Nat /\ MaxNow \in Nat /\ MaxLag \in Nat
    /\ MaxFired \in Nat \ {0} /\ MaxCallers \in Nat
    /\ Hour \in Nat /\ Word \in Nat
    /\ Start <= MaxNow
    /\ MaxNow < Word       \* the clock, milliseconds since boot, does not wrap
    /\ Hour < Word

VARIABLES
    now,               \* GetElapsedMS()
    m_timers,          \* the set of registered timers
    m_next, m_ms, m_recurring,
    m_cb,              \* m_cb is not null
    stage,             \* "none", "new" (constructed), "held" (addTimer returned it)
    m_tickled,
    m_previouseTime,
    pc, now_ms, told,  \* per thread: control, the clock it read, its deadline
    announce,          \* calls of onTimerInsertedAtFront() not made yet
    fired,             \* how often the callback was handed out
    cancelled          \* cancel() returned true

vars == <<now, m_timers, m_next, m_ms, m_recurring, m_cb, stage, m_tickled,
          m_previouseTime, pc, now_ms, told, announce, fired, cancelled>>
timer == <<m_timers, m_next, m_ms, m_recurring, m_cb, stage, fired, cancelled>>
thread == <<pc, now_ms, told>>

Forever == -1

Init ==
    /\ now = Start
    /\ m_timers = {}
    /\ m_next = [x \in Timers |-> 0]
    /\ m_ms = [x \in Timers |-> 0]
    /\ m_recurring = [x \in Timers |-> FALSE]
    /\ m_cb = [x \in Timers |-> FALSE]
    /\ stage = [x \in Timers |-> "none"]
    /\ m_tickled = FALSE
    /\ m_previouseTime = Start
    /\ pc = [t \in Threads |-> "loop"]
    /\ now_ms = [t \in Threads |-> Start]
    /\ told = [t \in Threads |-> Forever]
    /\ announce = 0
    /\ fired = [x \in Timers |-> 0]
    /\ cancelled = {}

\* The clock.  A thread between its reading of the clock and the lock is not
\* delayed by more than MaxLag.
Tick ==
    /\ now < MaxNow
    /\ \A t \in Threads : pc[t] = "read" => now - now_ms[t] < MaxLag
    /\ now' = now + 1
    /\ UNCHANGED <<timer, m_tickled, m_previouseTime, thread, announce>>

(***************************************************************************)
(* The set, in the order of Timer::Comparator.                              *)
(***************************************************************************)
Before(next, x, y) ==
    \/ next[x] < next[y]
    \/ next[x] = next[y] /\ x < y

\* x is *m_timers.begin() when S is the set and next the values of m_next.
Front(next, x, S) == x \in S /\ \A y \in S \ {x} : Before(next, x, y)

\* The new front is not announced.
Inserted_Silently(next, x, S) ==
    /\ m_timers' = S \cup {x}
    /\ UNCHANGED <<m_tickled, announce>>

\* addTimer(val, lock): insert, and announce a new front unless an announcement
\* is still unanswered.
Inserted(next, x, S) ==
    LET at_front == Front(next, x, S \cup {x}) /\ ~m_tickled
    IN  /\ announce < MaxCallers
        /\ m_timers' = S \cup {x}
        /\ m_tickled' = (m_tickled \/ at_front)
        /\ announce' = IF at_front THEN announce + 1 ELSE announce

(***************************************************************************)
(* Creation, in two steps: Timer::Timer reads the clock, addTimer() locks.  *)
(***************************************************************************)
Construct(x, ms, rec) ==
    /\ stage[x] = "none"
    /\ stage' = [stage EXCEPT ![x] = "new"]
    /\ m_ms' = [m_ms EXCEPT ![x] = ms]
    /\ m_recurring' = [m_recurring EXCEPT ![x] = rec]
    /\ m_next' = [m_next EXCEPT ![x] = now + ms]
    /\ m_cb' = [m_cb EXCEPT ![x] = TRUE]
    /\ UNCHANGED <<now, m_timers, fired, cancelled, m_tickled, m_previouseTime,
                   thread, announce>>

AddTimer(x) ==
    /\ stage[x] = "new"
    /\ stage' = [stage EXCEPT ![x] = "held"]
    /\ Inserted(m_next, x, m_timers)
    /\ UNCHANGED <<now, m_next, m_ms, m_recurring, m_cb, fired, cancelled,
                   m_previouseTime, thread>>

Wake(t) ==
    /\ pc[t] = "wait"
    /\ pc' = [pc EXCEPT ![t] = "woken"]
    /\ told' = [told EXCEPT ![t] = Forever]

\* onTimerInsertedAtFront(): wakes one waiting thread, if there is one.
Announce ==
    /\ announce > 0
    /\ announce' = announce - 1
    /\ \/ \E t \in Threads : Wake(t)
       \/ (\A t \in Threads : pc[t] # "wait") /\ UNCHANGED <<pc, told>>
    /\ UNCHANGED <<now, timer, m_tickled, m_previouseTime, now_ms>>

(***************************************************************************)
(* Operations on a timer the caller holds.                                  *)
(***************************************************************************)
Held(x) == stage[x] = "held"

\* When m_cb is null cancel() returns false and changes nothing.
Cancel(x) ==
    /\ Held(x)
    /\ m_cb[x]
    /\ m_cb' = [m_cb EXCEPT ![x] = FALSE]
    /\ m_timers' = m_timers \ {x}
    /\ cancelled' = cancelled \cup {x}
    /\ UNCHANGED <<now, m_next, m_ms, m_recurring, stage, fired, m_tickled,
                   m_previouseTime, thread, announce>>

\* refresh() inserts again without a test for the front.
Refresh(x) ==
    /\ Held(x)
    /\ m_cb[x] /\ x \in m_timers
    /\ m_next' = [m_next EXCEPT ![x] = now + m_ms[x]]
    /\ UNCHANGED <<now, m_timers, m_ms, m_recurring, m_cb, stage, fired, cancelled,
                   m_tickled, m_previouseTime, thread, announce>>

\* reset(): with the same interval and not from now there is nothing to do.
Reset(x, ms, from_now) ==
    /\ Held(x)
    /\ ~(ms = m_ms[x] /\ ~from_now)
    /\ m_cb[x] /\ x \in m_timers
    /\ m_ms' = [m_ms EXCEPT ![x] = ms]
    /\ m_next' = [m_next EXCEPT ![x] = ms + IF from_now THEN now ELSE @ - m_ms[x]]
    /\ Inserted(m_next', x, m_timers \ {x})
    /\ UNCHANGED <<now, m_recurring, m_cb, stage, fired, cancelled,
                   m_previouseTime, thread>>

(***************************************************************************)
(* The event loop's calls.                                                  *)
(***************************************************************************)
\* m_tickled is never cleared.
GetNextTimer_KeepsTickled(t) ==
    /\ pc[t] = "loop"
    /\ \/ m_timers = {} /\ told' = [told EXCEPT ![t] = Forever]
       \/ \E x \in m_timers :
             /\ Front(m_next, x, m_timers)
             /\ told' = [told EXCEPT ![t] = IF now >= m_next[x] THEN now ELSE m_next[x]]
    /\ pc' = [pc EXCEPT ![t] = "wait"]
    /\ UNCHANGED <<now, timer, m_tickled, m_previouseTime, now_ms, announce>>

\* getNextTimer(): the deadline is relative in the code; here it is the time
\* at which the wait ends, Forever when there is no timer.
GetNextTimer(t) ==
    /\ pc[t] = "loop"
    /\ m_tickled' = FALSE
    /\ \/ m_timers = {} /\ told' = [told EXCEPT ![t] = Forever]
       \/ \E x \in m_timers :
             /\ Front(m_next, x, m_timers)
             /\ told' = [told EXCEPT ![t] = IF now >= m_next[x] THEN now ELSE m_next[x]]
    /\ pc' = [pc EXCEPT ![t] = "wait"]
    /\ UNCHANGED <<now, timer, m_previouseTime, now_ms, announce>>

\* epoll_wait() times out, or returns for an event of a file descriptor.
WaitEnds(t) ==
    /\ told[t] # Forever /\ now >= told[t]
    /\ Wake(t)
    /\ UNCHANGED <<now, timer, m_tickled, m_previouseTime, now_ms, announce>>

EventArrives(t) ==
    /\ Wake(t)
    /\ UNCHANGED <<now, timer, m_tickled, m_previouseTime, now_ms, announce>>

\* listExpiredCb(), line 151.
ReadClock(t) ==
    /\ pc[t] = "woken"
    /\ now_ms' = [now_ms EXCEPT ![t] = now]
    /\ pc' = [pc EXCEPT ![t] = "read"]
    /\ UNCHANGED <<now, timer, m_tickled, m_previouseTime, told, announce>>

\* a - b in uint64_t.
Minus(a, b) == IF a >= b THEN a - b ELSE a - b + Word

\* detectClockRollover(), without its store to m_previouseTime.
Rollover_NoHour(t) == now_ms[t] < m_previouseTime

Rollover(t) ==
    /\ now_ms[t] < m_previouseTime
    /\ now_ms[t] < Minus(m_previouseTime, Hour)

Expired(t) ==
    IF Rollover(t) THEN m_timers ELSE {x \in m_timers : m_next[x] <= now_ms[t]}

\* The local now_ms is gone when listExpiredCb() returns.
Return(t) ==
    /\ pc' = [pc EXCEPT ![t] = "loop"]
    /\ now_ms' = [now_ms EXCEPT ![t] = Start]

\* One-shot timers keep their callback when they expire.
ListExpiredCb_KeepsOneShot(t) ==
    /\ pc[t] = "read"
    /\ m_timers # {}
    /\ m_previouseTime' = now_ms[t]
    /\ m_timers' = {x \in m_timers : x \in Expired(t) => m_recurring[x]}
    /\ m_next' = [x \in Timers |-> IF x \in Expired(t) /\ m_recurring[x]
                                   THEN now_ms[t] + m_ms[x] ELSE m_next[x]]
    /\ fired' = [x \in Timers |-> IF x \in Expired(t) /\ fired[x] < MaxFired
                                  THEN fired[x] + 1 ELSE fired[x]]
    /\ Return(t)
    /\ UNCHANGED <<now, m_ms, m_recurring, m_cb, stage, cancelled, m_tickled, told,
                   announce>>

ListExpiredCb(t) ==
    /\ pc[t] = "read"
    /\ m_timers # {}
    /\ m_previouseTime' = now_ms[t]
    /\ m_timers' = {x \in m_timers : x \in Expired(t) => m_recurring[x]}
    /\ m_next' = [x \in Timers |-> IF x \in Expired(t) /\ m_recurring[x]
                                   THEN now_ms[t] + m_ms[x] ELSE m_next[x]]
    /\ m_cb' = [x \in Timers |-> m_cb[x] /\ (x \in Expired(t) => m_recurring[x])]
    /\ fired' = [x \in Timers |-> IF x \in Expired(t) /\ fired[x] < MaxFired
                                  THEN fired[x] + 1 ELSE fired[x]]
    /\ Return(t)
    /\ UNCHANGED <<now, m_ms, m_recurring, stage, cancelled, m_tickled, told, announce>>

\* The two early returns for an empty set.
ListExpiredNone(t) ==
    /\ pc[t] = "read"
    /\ m_timers = {}
    /\ Return(t)
    /\ UNCHANGED <<now, timer, m_tickled, m_previouseTime, told, announce>>

LoopStep(t) ==
    \/ GetNextTimer(t) \/ WaitEnds(t) \/ ReadClock(t)
    \/ ListExpiredCb(t) \/ ListExpiredNone(t)

Next ==
    \/ Tick \/ Announce
    \/ \E t \in Threads : LoopStep(t) \/ EventArrives(t)
    \/ \E x \in Timers :
          \/ AddTimer(x) \/ Cancel(x) \/ Refresh(x)
          \/ \E ms \in Periods, b \in BOOLEAN : Construct(x, ms, b) \/ Reset(x, ms, b)

Spec == Init /\ [][Next]_vars

\* The event loop's threads run, and tickle() is called.
Fairness == WF_vars(Announce) /\ \A t \in Threads : WF_vars(LoopStep(t))
FairSpec == Spec /\ Fairness
-----------------------------------------------------------------------------
\* Type correctness (timer.h:36-47, 84-92).
TypeOK ==
    /\ now \in Start..MaxNow
    /\ m_timers \in SUBSET Timers
    /\ m_next \in [Timers -> Nat]
    /\ m_ms \in [Timers -> Nat]
    /\ m_recurring \in [Timers -> BOOLEAN]
    /\ m_cb \in [Timers -> BOOLEAN]
    /\ stage \in [Timers -> {"none", "new", "held"}]
    /\ m_tickled \in BOOLEAN
    /\ m_previouseTime \in Start..MaxNow
    /\ pc \in [Threads -> {"loop", "wait", "woken", "read"}]
    /\ now_ms \in [Threads -> Start..MaxNow]
    /\ told \in [Threads -> Nat \cup {Forever}]
    /\ announce \in Nat
    /\ fired \in [Timers -> 0..MaxFired]
    /\ cancelled \in SUBSET Timers

\* Whoever holds a timer whose callback is set finds it in m_timers: the erase
\* of cancel() (timer.cc:46-47) never gets end(), and a timer in the list
\* always has a callback to hand out.
ListedIffLive == \A x \in Timers : Held(x) => (m_cb[x] <=> x \in m_timers)

\* A one-shot timer ends in exactly one of two ways: its callback is handed
\* out once, or cancel() returned true and it is never handed out
\* (timer.cc:41-51, 184-191).
OneShotOnce ==
    \A x \in Timers :
        Held(x) /\ ~m_recurring[x] =>
            \/ x \in m_timers /\ fired[x] = 0 /\ x \notin cancelled
            \/ x \notin m_timers /\ fired[x] = 1 /\ x \notin cancelled
            \/ x \notin m_timers /\ fired[x] = 0 /\ x \in cancelled

\* detectClockRollover() never reports a clock that went back: the clock is
\* CLOCK_MONOTONIC_RAW (timer.cc:164-166, 219-227).
NoRollover == \A t \in Threads : pc[t] = "read" /\ m_timers # {} => ~Rollover(t)

\* No callback is handed out before its time (timer.cc:163-192).
NeverEarly ==
    [][\A x \in Timers : fired'[x] # fired[x] => m_next[x] <= now]_vars

\* When every thread of the loop waits, one of them wakes in time for the first
\* timer, or a wake-up is on its way (timer.cc:129-144, 202-216).
FrontAnnounced ==
    (\A t \in Threads : pc[t] = "wait") =>
        \A x \in m_timers :
            \/ announce > 0
            \/ \E t \in Threads : told[t] # Forever /\ (told[t] <= m_next[x] \/ told[t] <= now)

\* A timer that is due is collected, unless somebody cancels or postpones it.
DueIsServed ==
    \A x \in Timers :
        (x \in m_timers /\ m_next[x] <= now) ~> (x \notin m_timers \/ m_next[x] > now)
=============================================================================
