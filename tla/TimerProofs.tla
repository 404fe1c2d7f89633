----------------------------- MODULE TimerProofs -----------------------------
(***************************************************************************)
(* Proofs about TimerManager, for any number of threads and timers, any     *)
(* intervals and any clock.                                                 *)
(***************************************************************************)
EXTENDS TimerManager, TLAPS

\* A clock reading that is still in use is recent, and so is the last one used.
ClockFacts ==
    /\ m_previouseTime <= now
    /\ \A t \in Threads : pc[t] = "read" => now_ms[t] <= now /\ now - now_ms[t] <= MaxLag

\* Before addTimer() has returned it, nobody but its creator touches a timer.
Untouched ==
    \A x \in Timers :
        stage[x] # "held" => /\ x \notin m_timers /\ x \notin cancelled
                             /\ fired[x] = 0 /\ (m_cb[x] <=> stage[x] = "new")

\* m_next is never before the start of the interval it ends.
IntervalFits == \A x \in Timers : m_ms[x] <= m_next[x]

TInv == TypeOK /\ ClockFacts /\ Untouched /\ IntervalFits /\ ListedIffLive /\ OneShotOnce

\* A TimerManager that was just constructed satisfies the invariant.
LEMMA TInit == Init => TInv
<1> SUFFICES ASSUME Init PROVE TInv
  OBVIOUS
<1>1. Start \in Start..MaxNow /\ 0 \in 0..MaxFired
  BY TimerAssumption
<1>2. TypeOK
  <2>1. /\ now \in Start..MaxNow /\ m_previouseTime \in Start..MaxNow
        /\ now_ms \in [Threads -> Start..MaxNow] /\ fired \in [Timers -> 0..MaxFired]
    BY <1>1, Zenon DEF Init
  <2>2. /\ m_next \in [Timers -> Nat] /\ m_ms \in [Timers -> Nat] /\ announce \in Nat
        /\ told \in [Threads -> Nat \cup {Forever}]
    BY DEF Init, Forever
  <2> QED BY <2>1, <2>2, Zenon DEF Init, TypeOK
<1>3. ClockFacts /\ IntervalFits
  BY TimerAssumption DEF Init, ClockFacts, IntervalFits
<1>4. Untouched /\ ListedIffLive /\ OneShotOnce
  BY DEF Init, Untouched, ListedIffLive, OneShotOnce, Held
<1> QED BY <1>2, <1>3, <1>4 DEF TInv

\* Every operation of Timer and TimerManager keeps the invariant.
LEMMA TStep == TInv /\ [Next]_vars => TInv'
<1> SUFFICES ASSUME TInv, [Next]_vars PROVE TInv'
  OBVIOUS
<1>0. /\ TypeOK /\ ClockFacts /\ Untouched /\ IntervalFits /\ ListedIffLive /\ OneShotOnce
      /\ Start \in Nat /\ MaxNow \in Nat /\ MaxFired \in Nat \ {0} /\ MaxLag \in Nat
  BY TimerAssumption DEF TInv
<1> USE DEF ClockFacts, Untouched, IntervalFits, ListedIffLive, OneShotOnce, Held
<1>1. CASE UNCHANGED vars
  BY <1>0, <1>1, Zenon DEF vars, TInv, TypeOK
<1>2. CASE Tick
  <2>1. TypeOK'
    BY <1>0, <1>2 DEF Tick, TypeOK, timer, thread
  <2>2. ClockFacts'
    BY <1>0, <1>2 DEF Tick, TypeOK, timer, thread
  <2> QED BY <1>0, <1>2, <2>1, <2>2, Zenon DEF Tick, TInv, timer, thread
<1>3. CASE Announce
  <2>1. UNCHANGED <<now, timer, m_tickled, m_previouseTime, now_ms>>
    BY <1>3 DEF Announce
  <2>2. /\ pc' \in [Threads -> {"loop", "wait", "woken", "read"}]
        /\ told' \in [Threads -> Nat \cup {Forever}]
        /\ \A t \in Threads : pc'[t] = "read" => pc[t] = "read"
    BY <1>0, <1>3, ZenonT(60) DEF Announce, TypeOK, Wake
  <2>3. announce' \in Nat
    BY <1>0, <1>3 DEF Announce, TypeOK
  <2> QED BY <1>0, <2>1, <2>2, <2>3, Zenon DEF TInv, TypeOK, timer
<1>4. ASSUME NEW t \in Threads, GetNextTimer(t) \/ WaitEnds(t) \/ EventArrives(t)
      PROVE  TInv'
  <2>1. UNCHANGED <<now, timer, m_previouseTime, now_ms, announce>>
    BY <1>4 DEF GetNextTimer, WaitEnds, EventArrives
  <2>2. /\ pc' \in [Threads -> {"loop", "wait", "woken", "read"}]
        /\ \A u \in Threads : pc'[u] = "read" => pc[u] = "read"
    BY <1>0, <1>4, ZenonT(60) DEF GetNextTimer, WaitEnds, EventArrives, Wake, TypeOK
  <2>3. told' \in [Threads -> Nat \cup {Forever}] /\ m_tickled' \in BOOLEAN
    <3>1. CASE WaitEnds(t) \/ EventArrives(t)
      BY <1>0, <3>1, Zenon DEF WaitEnds, EventArrives, Wake, TypeOK
    <3>2. CASE GetNextTimer(t)
      <4>1. CASE told' = [told EXCEPT ![t] = Forever]
        BY <1>0, <3>2, <4>1, Zenon DEF GetNextTimer, TypeOK
      <4>2. ASSUME NEW x \in m_timers,
                   told' = [told EXCEPT ![t] = IF now >= m_next[x] THEN now ELSE m_next[x]]
            PROVE  told' \in [Threads -> Nat \cup {Forever}]
        <5>1. now \in Nat /\ m_next[x] \in Nat
          BY <1>0 DEF TypeOK
        <5> QED BY <1>0, <4>2, <5>1, Zenon DEF TypeOK
      <4> QED BY <3>2, <4>1, <4>2, Zenon DEF GetNextTimer
    <3> QED BY <1>4, <3>1, <3>2
  <2> QED BY <1>0, <2>1, <2>2, <2>3, Zenon DEF TInv, TypeOK, timer
<1>5. ASSUME NEW t \in Threads, ReadClock(t) PROVE TInv'
  <2>1. TypeOK' /\ ClockFacts'
    BY <1>0, <1>5 DEF ReadClock, TypeOK, timer
  <2> QED BY <1>0, <1>5, <2>1, Zenon DEF ReadClock, TInv, timer
<1>6. ASSUME NEW t \in Threads, ListExpiredNone(t) PROVE TInv'
  <2>1. TypeOK' /\ ClockFacts'
    BY <1>0, <1>6 DEF ListExpiredNone, Return, TypeOK, timer
  <2> QED BY <1>0, <1>6, <2>1, Zenon DEF ListExpiredNone, TInv, timer
<1>7. ASSUME NEW t \in Threads, ListExpiredCb(t) PROVE TInv'
  <2>1. /\ now_ms[t] \in Start..MaxNow /\ now_ms[t] <= now /\ now_ms[t] \in Nat
        /\ Expired(t) \subseteq m_timers
    BY <1>0, <1>7 DEF ListExpiredCb, TypeOK, Expired
  <2>2. /\ UNCHANGED <<now, m_ms, m_recurring, stage, cancelled, m_tickled, told, announce>>
        /\ m_previouseTime' = now_ms[t]
        /\ \A x \in Timers :
              /\ x \in m_timers' <=> x \in m_timers /\ (x \in Expired(t) => m_recurring[x])
              /\ m_cb'[x] = (m_cb[x] /\ (x \in Expired(t) => m_recurring[x]))
              /\ m_next'[x] = IF x \in Expired(t) /\ m_recurring[x]
                              THEN now_ms[t] + m_ms[x] ELSE m_next[x]
              /\ fired'[x] = IF x \in Expired(t) /\ fired[x] < MaxFired
                             THEN fired[x] + 1 ELSE fired[x]
    BY <1>0, <1>7, Zenon DEF ListExpiredCb, TypeOK
  <2>3. TypeOK'
    <3>1. m_timers' \in SUBSET Timers /\ m_cb' \in [Timers -> BOOLEAN]
      BY <1>0, <1>7, Zenon DEF ListExpiredCb, TypeOK
    <3>2. m_next' \in [Timers -> Nat] /\ fired' \in [Timers -> 0..MaxFired]
      BY <1>0, <1>7, <2>1, <2>2 DEF ListExpiredCb, TypeOK
    <3>3. /\ pc' \in [Threads -> {"loop", "wait", "woken", "read"}]
          /\ now_ms' \in [Threads -> Start..MaxNow]
      BY <1>0, <1>7 DEF ListExpiredCb, Return, TypeOK
    <3> QED BY <1>0, <2>1, <2>2, <3>1, <3>2, <3>3, Zenon DEF TypeOK
  <2>4. ClockFacts'
    BY <1>0, <1>7, <2>1, Zenon DEF ListExpiredCb, Return, TypeOK
  <2>5. Untouched' /\ ListedIffLive'
    BY <1>0, <2>1, <2>2, Zenon DEF TypeOK
  <2>6. IntervalFits'
    BY <1>0, <2>1, <2>2 DEF TypeOK
  <2>7. OneShotOnce'
    <3> SUFFICES ASSUME NEW x \in Timers, stage[x] = "held", ~m_recurring[x]
                 PROVE  \/ x \in m_timers' /\ fired'[x] = 0 /\ x \notin cancelled'
                        \/ x \notin m_timers' /\ fired'[x] = 1 /\ x \notin cancelled'
                        \/ x \notin m_timers' /\ fired'[x] = 0 /\ x \in cancelled'
      BY <2>2
    <3>1. CASE x \in Expired(t)
      BY <1>0, <2>1, <2>2, <3>1
    <3>2. CASE x \notin Expired(t)
      BY <1>0, <2>2, <3>2, Zenon
    <3> QED BY <3>1, <3>2
  <2> QED BY <2>3, <2>4, <2>5, <2>6, <2>7, Zenon DEF TInv
<1>8. ASSUME NEW x \in Timers, AddTimer(x) PROVE TInv'
  <2>1. TypeOK'
    BY <1>0, <1>8 DEF AddTimer, Inserted, TypeOK, thread
  <2>2. /\ m_timers' = m_timers \cup {x} /\ stage[x] = "new"
        /\ stage' = [stage EXCEPT ![x] = "held"]
        /\ UNCHANGED <<now, m_next, m_ms, m_recurring, m_cb, fired, cancelled,
                       m_previouseTime, pc, now_ms>>
    BY <1>8 DEF AddTimer, Inserted, thread
  <2>3. Untouched' /\ ListedIffLive' /\ OneShotOnce'
    BY <1>0, <2>2, ZenonT(60) DEF TypeOK
  <2> QED BY <1>0, <2>1, <2>2, <2>3, Zenon DEF TInv
<1>9. ASSUME NEW x \in Timers, Cancel(x) PROVE TInv'
  <2>1. TypeOK'
    BY <1>0, <1>9, Zenon DEF Cancel, TypeOK, thread
  <2>2. /\ stage[x] = "held" /\ m_cb[x] /\ m_cb' = [m_cb EXCEPT ![x] = FALSE]
        /\ m_timers' = m_timers \ {x} /\ cancelled' = cancelled \cup {x}
        /\ UNCHANGED <<now, m_next, m_ms, m_recurring, stage, fired, m_previouseTime,
                       pc, now_ms>>
    BY <1>9 DEF Cancel, thread
  <2>3. Untouched' /\ ListedIffLive'
    BY <1>0, <2>2, Zenon DEF TypeOK
  <2>4. OneShotOnce'
    BY <1>0, <2>2, Zenon DEF TypeOK
  <2> QED BY <1>0, <2>1, <2>2, <2>3, <2>4, Zenon DEF TInv
<1>10. ASSUME NEW x \in Timers, Refresh(x) PROVE TInv'
  <2>1. TypeOK' /\ IntervalFits'
    BY <1>0, <1>10 DEF Refresh, TypeOK, thread
  <2> QED BY <1>0, <1>10, <2>1, Zenon DEF Refresh, TInv, TypeOK, thread
<1>11. ASSUME NEW x \in Timers, NEW ms \in Periods, NEW b \in BOOLEAN,
              Construct(x, ms, b)
       PROVE  TInv'
  <2>1. ms \in Nat
    BY TimerAssumption
  <2>2. TypeOK' /\ IntervalFits'
    BY <1>0, <1>11, <2>1 DEF Construct, TypeOK, thread
  <2>3. /\ stage[x] = "none" /\ stage' = [stage EXCEPT ![x] = "new"]
        /\ m_cb' = [m_cb EXCEPT ![x] = TRUE]
        /\ m_recurring' = [m_recurring EXCEPT ![x] = b]
        /\ UNCHANGED <<now, m_timers, fired, cancelled, m_previouseTime, pc, now_ms>>
    BY <1>11 DEF Construct, thread
  <2>4. Untouched' /\ ListedIffLive' /\ OneShotOnce'
    BY <1>0, <2>3, ZenonT(60) DEF TypeOK
  <2> QED BY <1>0, <2>2, <2>3, <2>4, Zenon DEF TInv
<1>12. ASSUME NEW x \in Timers, NEW ms \in Periods, NEW b \in BOOLEAN, Reset(x, ms, b)
       PROVE  TInv'
  <2>1. ms \in Nat
    BY TimerAssumption
  <2>2. /\ m_timers' = m_timers /\ m_tickled' \in BOOLEAN /\ announce' \in Nat
        /\ UNCHANGED <<now, m_recurring, m_cb, stage, fired, cancelled,
                       m_previouseTime, thread>>
    BY <1>0, <1>12 DEF Reset, Inserted, TypeOK
  <2>3. /\ m_ms' = [m_ms EXCEPT ![x] = ms]
        /\ m_next' = [m_next EXCEPT ![x] = ms + IF b THEN now ELSE m_next[x] - m_ms[x]]
        /\ IF b THEN now \in Nat ELSE m_next[x] - m_ms[x] \in Nat
    BY <1>0, <1>12 DEF Reset, TypeOK
  <2>4. /\ m_ms' \in [Timers -> Nat] /\ m_next' \in [Timers -> Nat]
        /\ IntervalFits'
    BY <1>0, <2>1, <2>3 DEF TypeOK
  <2>5. TypeOK'
    BY <1>0, <2>2, <2>4, Zenon DEF TypeOK, thread
  <2> QED BY <1>0, <2>2, <2>4, <2>5, Zenon DEF TInv, thread
<1> QED
  BY <1>1, <1>2, <1>3, <1>4, <1>5, <1>6, <1>7, <1>8, <1>9, <1>10, <1>11, <1>12, Zenon
     DEF Next, LoopStep

\* Type correctness of the timer manager (timer.cc).
THEOREM TimerTypes == Spec => []TypeOK
<1>1. TInv => TypeOK
  BY DEF TInv
<1> QED BY TInit, TStep, <1>1, PTL DEF Spec

\* A timer with a callback is in the list and one in the list has a callback
\* (timer.cc:41-97, 149-193): cancel() never erases end().
THEOREM ListedAreLive == Spec => []ListedIffLive
<1>1. TInv => ListedIffLive
  BY DEF TInv
<1> QED BY TInit, TStep, <1>1, PTL DEF Spec

\* A one-shot timer is handed out once or cancelled, never both
\* (timer.cc:41-51, 184-191).
THEOREM OneShotsFireOnce == Spec => []OneShotOnce
<1>1. TInv => OneShotOnce
  BY DEF TInv
<1> QED BY TInit, TStep, <1>1, PTL DEF Spec

\* On a machine that has been up for an hour when the manager is created, and
\* with no thread held up for more than an hour on its way to the lock, the
\* clock is never taken to have gone back (timer.cc:219-227).
LEMMA RolloverFree ==
    ASSUME Start >= Hour, MaxLag <= Hour
    PROVE  TInv => NoRollover
<1> SUFFICES ASSUME TInv, NEW t \in Threads, pc[t] = "read" PROVE ~Rollover(t)
  BY DEF NoRollover
<1>1. /\ m_previouseTime \in Nat /\ m_previouseTime >= Hour /\ m_previouseTime <= now
      /\ now \in Nat /\ now_ms[t] \in Nat /\ now - now_ms[t] <= Hour /\ Hour \in Nat
  BY TimerAssumption DEF TInv, TypeOK, ClockFacts
<1>2. Minus(m_previouseTime, Hour) = m_previouseTime - Hour
  BY <1>1 DEF Minus
<1> QED BY <1>1, <1>2 DEF Rollover

\* Under these conditions detectClockRollover() never reports a rollover.
THEOREM ClockNeverBack ==
    ASSUME Start >= Hour, MaxLag <= Hour
    PROVE  Spec => []NoRollover
<1>1. TInv => NoRollover
  BY RolloverFree
<1> QED BY TInit, TStep, <1>1, PTL DEF Spec

\* Under these conditions no callback is handed out before its time
\* (timer.cc:149-193).
THEOREM NeverFiresEarly ==
    ASSUME Start >= Hour, MaxLag <= Hour
    PROVE  Spec => NeverEarly
<1>1. ASSUME TInv, [Next]_vars
      PROVE  [\A x \in Timers : fired'[x] # fired[x] => m_next[x] <= now]_vars
  <2>1. CASE UNCHANGED vars
    BY <2>1
  <2>2. ASSUME NEW t \in Threads, ListExpiredCb(t), NEW x \in Timers, fired'[x] # fired[x]
        PROVE  m_next[x] <= now
    <3>1. x \in Expired(t) /\ pc[t] = "read" /\ m_timers # {}
      BY <1>1, <2>2, Zenon DEF ListExpiredCb, TInv, TypeOK
    <3>2. ~Rollover(t)
      BY <1>1, <3>1, RolloverFree DEF NoRollover
    <3>3. m_next[x] <= now_ms[t] /\ now_ms[t] <= now
      BY <1>1, <3>1, <3>2 DEF Expired, TInv, ClockFacts
    <3> QED BY <1>1, <3>3, TimerAssumption DEF TInv, TypeOK
  <2>3. CASE fired' = fired
    BY <2>3
  <2>4. Next => \/ fired' = fired
               \/ \E t \in Threads : ListExpiredCb(t)
    BY ZenonT(30) DEF Next, LoopStep, Tick, Announce, GetNextTimer, WaitEnds, EventArrives, ReadClock,
           ListExpiredNone, AddTimer, Cancel, Refresh, Construct, Reset, timer
  <2> QED BY <1>1, <2>1, <2>2, <2>3, <2>4
<1> QED BY TInit, TStep, <1>1, PTL DEF Spec, NeverEarly
-----------------------------------------------------------------------------
\* An interval does not start in the future.
IntervalStarted == \A x \in Timers : m_next[x] <= now + m_ms[x]

\* While m_tickled is set the announcement is on its way, or a thread it woke has
\* not asked for the next timer yet.
TickledIsHeard == m_tickled => announce > 0 \/ \E t \in Threads : pc[t] # "wait"

AInv == TInv /\ IntervalStarted /\ TickledIsHeard /\ FrontAnnounced

\* With no timer nothing has to be announced.
LEMMA AInit == Init => AInv
<1> SUFFICES ASSUME Init PROVE AInv
  OBVIOUS
<1>1. IntervalStarted
  BY TimerAssumption DEF Init, IntervalStarted
<1>2. TickledIsHeard /\ FrontAnnounced
  BY DEF Init, TickledIsHeard, FrontAnnounced
<1> QED BY TInit, <1>1, <1>2 DEF AInv

\* A timer that is not inserted at the front is behind one that was in the set, in
\* time for which a thread wakes (timer.cc:202-216).
LEMMA InsertedIsAnnounced ==
    ASSUME AInv, NEW next \in [Timers -> Nat], NEW x \in Timers, NEW S \in SUBSET m_timers,
           \A y \in S : next[y] = m_next[y],
           x \notin S, Inserted(next, x, S), UNCHANGED <<now, thread>>, m_next' = next
    PROVE  TickledIsHeard' /\ FrontAnnounced'
<1>0. /\ TypeOK /\ TickledIsHeard /\ FrontAnnounced
      /\ now \in Nat /\ announce \in Nat /\ Timers \subseteq Int
  BY TimerAssumption DEF AInv, TInv, TypeOK
<1>1. UNCHANGED <<pc, told>> /\ announce' \in Nat /\ announce' >= announce
  BY <1>0 DEF Inserted, thread
<1>2. TickledIsHeard'
  <2> SUFFICES ASSUME m_tickled' PROVE announce' > 0 \/ \E t \in Threads : pc[t] # "wait"
    BY <1>1 DEF TickledIsHeard
  <2>1. CASE m_tickled
    BY <1>0, <1>1, <2>1 DEF TickledIsHeard
  <2>2. CASE ~m_tickled
    <3>1. announce' = announce + 1
      BY <2>2, Zenon DEF Inserted
    <3> QED BY <1>0, <3>1
  <2> QED BY <2>1, <2>2
<1>3. FrontAnnounced'
  <2> SUFFICES ASSUME \A t \in Threads : pc[t] = "wait", announce' = 0, NEW z \in S \cup {x}
               PROVE  \E t \in Threads :
                         told[t] # Forever /\ (told[t] <= next[z] \/ told[t] <= now)
    BY <1>0, <1>1 DEF FrontAnnounced, Inserted
  <2>1. announce = 0 /\ ~m_tickled
    BY <1>0, <1>1 DEF TickledIsHeard
  <2>2. \A y \in S : \E t \in Threads :
            told[t] # Forever /\ (told[t] <= next[y] \/ told[t] <= now)
    BY <1>0, <2>1 DEF FrontAnnounced
  <2>3. ~Front(next, x, S \cup {x})
    BY <2>1 DEF Inserted
  <2>4. CASE z \in S
    BY <2>2, <2>4
  <2>5. CASE z = x
    <3>1. PICK y \in S : ~Before(next, x, y)
      BY <2>3 DEF Front
    <3>2. next[y] <= next[x] /\ next[y] \in Nat /\ next[x] \in Nat
      BY <1>0, <3>1 DEF Before, TypeOK
    <3>3. PICK t \in Threads : told[t] # Forever /\ (told[t] <= next[y] \/ told[t] <= now)
      BY <2>2
    <3>4. told[t] \in Nat
      BY <1>0, <3>3, Zenon DEF TypeOK
    <3> QED BY <2>5, <3>2, <3>3, <3>4
  <2> QED BY <2>4, <2>5
<1> QED BY <1>2, <1>3

\* Every operation keeps the invariant.
LEMMA AStep == AInv /\ [Next]_vars => AInv'
<1> SUFFICES ASSUME AInv, [Next]_vars PROVE AInv'
  OBVIOUS
<1>0. /\ TInv /\ TypeOK /\ IntervalStarted /\ TickledIsHeard /\ FrontAnnounced /\ ClockFacts
      /\ Threads # {} /\ now \in Nat /\ announce \in Nat /\ IntervalFits
      /\ Start \in Nat /\ MaxNow \in Nat /\ Periods \subseteq Nat
  BY TimerAssumption DEF AInv, TInv, TypeOK
<1>t. TInv' /\ TypeOK'
  BY <1>0, TStep DEF TInv
<1>1. CASE UNCHANGED vars
  <2>1. IntervalStarted' /\ TickledIsHeard'
    BY <1>0, <1>1 DEF vars, IntervalStarted, TickledIsHeard
  <2>2. FrontAnnounced'
    BY <1>0, <1>1 DEF vars, FrontAnnounced
  <2> QED BY <1>t, <2>1, <2>2 DEF AInv
<1>2. CASE Tick
  <2>1. UNCHANGED <<timer, m_tickled, thread, announce>> /\ now' = now + 1
    BY <1>2 DEF Tick
  <2>2. IntervalStarted' /\ TickledIsHeard'
    BY <1>0, <2>1 DEF timer, thread, IntervalStarted, TickledIsHeard, TypeOK
  <2>3. \A t \in Threads : told[t] # Forever => told[t] \in Nat
    BY <1>0 DEF TypeOK
  <2>4. FrontAnnounced'
    BY <1>0, <2>1, <2>3, SMTT(30) DEF timer, thread, FrontAnnounced
  <2> QED BY <1>t, <2>2, <2>4 DEF AInv
\* Once a thread does not wait, the threads' part of the invariant holds.
<1>3. ASSUME UNCHANGED <<now, timer>>, \E t \in Threads : pc'[t] # "wait" PROVE AInv'
  <2>1. IntervalStarted' /\ TickledIsHeard' /\ FrontAnnounced'
    BY <1>0, <1>3 DEF timer, IntervalStarted, TickledIsHeard, FrontAnnounced
  <2> QED BY <1>t, <2>1 DEF AInv
<1>4. CASE Announce
  <2>1. \E t \in Threads : pc'[t] # "wait"
    BY <1>0, <1>4, Zenon DEF Announce, Wake, TypeOK
  <2> QED BY <1>3, <1>4, <2>1 DEF Announce
<1>5. ASSUME NEW t \in Threads, WaitEnds(t) \/ EventArrives(t) \/ ReadClock(t) \/ ListExpiredNone(t)
      PROVE  AInv'
  <2>1. pc'[t] # "wait"
    BY <1>0, <1>5, Zenon DEF WaitEnds, EventArrives, ReadClock, ListExpiredNone, Return, Wake, TypeOK
  <2>2. UNCHANGED <<now, timer>>
    BY <1>5 DEF WaitEnds, EventArrives, ReadClock, ListExpiredNone
  <2> QED BY <1>3, <2>1, <2>2
<1>6. ASSUME NEW t \in Threads, GetNextTimer(t) PROVE AInv'
  <2>1. UNCHANGED <<now, timer, announce>> /\ ~m_tickled'
    BY <1>6 DEF GetNextTimer
  <2>2. IntervalStarted' /\ TickledIsHeard'
    BY <1>0, <2>1 DEF timer, IntervalStarted, TickledIsHeard
  <2>3. ASSUME NEW y \in m_timers
        PROVE  told'[t] # Forever /\ (told'[t] <= m_next[y] \/ told'[t] <= now)
    <3>1. PICK x \in m_timers :
             /\ Front(m_next, x, m_timers)
             /\ told' = [told EXCEPT ![t] = IF now >= m_next[x] THEN now ELSE m_next[x]]
      BY <1>6, <2>3 DEF GetNextTimer
    <3>2. m_next[x] \in Nat /\ m_next[y] \in Nat /\ told'[t] = IF now >= m_next[x] THEN now ELSE m_next[x]
      BY <1>0, <3>1, <2>3, Zenon DEF TypeOK
    <3>3. m_next[x] <= m_next[y]
      BY <3>1, <3>2 DEF Front, Before
    <3> QED BY <1>0, <3>2, <3>3 DEF Forever
  <2>4. FrontAnnounced'
    BY <2>1, <2>3 DEF FrontAnnounced, timer
  <2> QED BY <1>t, <2>2, <2>4 DEF AInv
<1>7. ASSUME NEW t \in Threads, ListExpiredCb(t) PROVE AInv'
  <2>1. pc'[t] # "wait" /\ now' = now /\ m_ms' = m_ms
    BY <1>0, <1>7, Zenon DEF ListExpiredCb, Return, TypeOK
  <2>2. \A x \in Timers : m_next'[x] = m_next[x] \/ m_next'[x] = now_ms[t] + m_ms[x]
    BY <1>7 DEF ListExpiredCb
  <2>3. now_ms[t] <= now /\ now_ms[t] \in Nat
    BY <1>0, <1>7 DEF ListExpiredCb, ClockFacts, TypeOK
  <2>4. IntervalStarted'
    BY <1>0, <2>1, <2>2, <2>3 DEF IntervalStarted, TypeOK
  <2>5. TickledIsHeard' /\ FrontAnnounced'
    BY <2>1 DEF TickledIsHeard, FrontAnnounced
  <2> QED BY <1>t, <2>4, <2>5 DEF AInv
<1>8. ASSUME NEW x \in Timers, AddTimer(x) PROVE AInv'
  <2>1. /\ Inserted(m_next, x, m_timers) /\ UNCHANGED <<now, m_next, m_ms, thread>>
        /\ x \notin m_timers
    BY <1>0, <1>8 DEF AddTimer, TInv, Untouched
  <2>2. IntervalStarted'
    BY <1>0, <2>1 DEF IntervalStarted
  <2>3. m_next \in [Timers -> Nat] /\ m_timers \in SUBSET m_timers
    BY <1>0 DEF TypeOK
  <2>4. TickledIsHeard' /\ FrontAnnounced'
    BY <2>1, <2>3, InsertedIsAnnounced
  <2> QED BY <1>t, <2>2, <2>4 DEF AInv
<1>9. ASSUME NEW x \in Timers, Cancel(x) PROVE AInv'
  <2>1. /\ UNCHANGED <<now, m_next, m_ms, m_tickled, announce, thread>>
        /\ m_timers' \subseteq m_timers
    BY <1>9 DEF Cancel
  <2>2. IntervalStarted' /\ TickledIsHeard' /\ FrontAnnounced'
    BY <1>0, <2>1 DEF thread, IntervalStarted, TickledIsHeard, FrontAnnounced
  <2> QED BY <1>t, <2>2 DEF AInv
<1>10. ASSUME NEW x \in Timers, Refresh(x) PROVE AInv'
  <2>1. /\ UNCHANGED <<now, m_timers, m_ms, m_tickled, announce, thread>>
        /\ m_next' = [m_next EXCEPT ![x] = now + m_ms[x]]
    BY <1>10 DEF Refresh
  <2>2. \A y \in Timers : /\ m_next[y] \in Nat /\ m_next'[y] \in Nat
                          /\ m_next[y] <= m_next'[y] /\ m_next'[y] <= now + m_ms[y]
    BY <1>0, <2>1 DEF TypeOK, IntervalStarted
  <2>3. IntervalStarted' /\ TickledIsHeard'
    BY <1>0, <2>1, <2>2, Zenon DEF thread, IntervalStarted, TickledIsHeard
  <2>4. m_timers \subseteq Timers /\ \A t \in Threads : told[t] # Forever => told[t] \in Nat
    BY <1>0 DEF TypeOK
  <2>5. FrontAnnounced'
    BY <1>0, <2>1, <2>2, <2>4 DEF thread, FrontAnnounced
  <2> QED BY <1>t, <2>3, <2>5 DEF AInv
<1>11. ASSUME NEW x \in Timers, NEW ms \in Periods, NEW b \in BOOLEAN, Construct(x, ms, b)
       PROVE  AInv'
  <2>1. /\ UNCHANGED <<now, m_timers, m_tickled, announce, thread>>
        /\ m_next' = [m_next EXCEPT ![x] = now + ms] /\ m_ms' = [m_ms EXCEPT ![x] = ms]
        /\ x \notin m_timers /\ ms \in Nat
    BY <1>0, <1>11 DEF Construct, TInv, Untouched
  <2>2. IntervalStarted' /\ TickledIsHeard'
    BY <1>0, <2>1 DEF thread, IntervalStarted, TickledIsHeard, TypeOK
  <2>3. \A y \in m_timers : m_next'[y] = m_next[y]
    BY <1>0, <2>1, Zenon DEF TypeOK
  <2>4. FrontAnnounced'
    BY <1>0, <2>1, <2>3, Zenon DEF thread, FrontAnnounced
  <2> QED BY <1>t, <2>2, <2>4 DEF AInv
<1>12. ASSUME NEW x \in Timers, NEW ms \in Periods, NEW b \in BOOLEAN, Reset(x, ms, b)
       PROVE  AInv'
  <2>1. /\ UNCHANGED <<now, thread>> /\ Inserted(m_next', x, m_timers \ {x})
        /\ m_ms' = [m_ms EXCEPT ![x] = ms] /\ ms \in Nat
        /\ m_next' = [m_next EXCEPT ![x] = ms + IF b THEN now ELSE m_next[x] - m_ms[x]]
    BY <1>0, <1>12, Zenon DEF Reset, TypeOK
  <2>2. \A y \in m_timers \ {x} : m_next'[y] = m_next[y]
    BY <1>0, <2>1, Zenon DEF TypeOK
  <2>3. IntervalStarted'
    <3>1. m_next[x] - m_ms[x] <= now
      BY <1>0 DEF IntervalStarted, TypeOK
    <3>2. m_next'[x] <= now + ms
      BY <1>0, <2>1, <3>1 DEF TypeOK
    <3>3. \A y \in Timers \ {x} : m_next'[y] = m_next[y] /\ m_ms'[y] = m_ms[y]
      BY <1>0, <2>1, Zenon DEF TypeOK
    <3> QED BY <1>0, <2>1, <3>2, <3>3, Zenon DEF IntervalStarted, TypeOK
  <2>4. m_next' \in [Timers -> Nat]
    BY <1>t DEF TypeOK
  <2>5. TickledIsHeard' /\ FrontAnnounced'
    <3> DEFINE next == m_next'
    <3>1. next \in [Timers -> Nat] /\ m_timers \ {x} \in SUBSET m_timers /\ m_next' = next
      BY <2>4
    <3>2. Inserted(next, x, m_timers \ {x}) /\ \A y \in m_timers \ {x} : next[y] = m_next[y]
      BY <2>1, <2>2
    <3> HIDE DEF next
    <3> QED BY <2>1, <3>1, <3>2, InsertedIsAnnounced, Zenon
  <2> QED BY <1>t, <2>3, <2>5 DEF AInv
<1> QED
  BY <1>1, <1>2, <1>4, <1>5, <1>6, <1>7, <1>8, <1>9, <1>10, <1>11, <1>12, Zenon
     DEF Next, LoopStep

\* When every thread of the loop waits, one of them wakes in time for every timer in
\* the set, or a wake-up is on its way (timer.cc:129-144, 202-216): an insertion at
\* the front is never missed, although m_tickled suppresses announcements.
THEOREM TimersAreAnnounced == Spec => []FrontAnnounced
<1>1. AInv => FrontAnnounced
  BY DEF AInv
<1> QED BY AInit, AStep, <1>1, PTL DEF Spec
=============================================================================
