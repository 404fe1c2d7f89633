--------------------------- MODULE SchedulerProofs ---------------------------
(***************************************************************************)
(* Proofs about Scheduler, for any number of threads, fibers and yields:    *)
(* its invariants, and that it implements TaskPool when a fiber that        *)
(* reschedules itself names its own thread.                                 *)
(***************************************************************************)
EXTENDS Scheduler, FiniteSetTheorems, SequenceTheorems, TLAPS

(***************************************************************************)
(* Counting the members of a finite set that are at a place, when one moves. *)
(***************************************************************************)
\* How many members of S the function f sends into A.
Count(S, f, A) == Cardinality({u \in S : f[u] \in A})

\* How the count changes from f to g when they differ at t only.
CountShift(S, f, g, A, t) ==
    LET m == Count(S, f, A)
        n == Count(S, g, A)
    IN  /\ m \in Nat
        /\ f[t] \in A => m >= 1
        /\ f[t] \in A /\ g[t] \in A => n = m
        /\ f[t] \notin A /\ g[t] \notin A => n = m
        /\ f[t] \notin A /\ g[t] \in A => n = m + 1
        /\ f[t] \in A /\ g[t] \notin A => n = m - 1

\* How the number of threads at a place changes when one thread moves.
LEMMA CountMove ==
    ASSUME NEW S, IsFiniteSet(S), NEW A, NEW f, NEW g, NEW t \in S,
           \A u \in S \ {t} : g[u] = f[u]
    PROVE  CountShift(S, f, g, A, t)
<1> DEFINE F == {u \in S : f[u] \in A}
           G == {u \in S : g[u] \in A}
<1>1. IsFiniteSet(F) /\ IsFiniteSet(G)
  BY FS_Subset
<1>2. Cardinality(F) \in Nat /\ Cardinality(G) \in Nat
  BY <1>1, FS_CardinalityType, Zenon
<1>3. f[t] \in A => Cardinality(F) >= 1
  <2>1. SUFFICES ASSUME f[t] \in A PROVE Cardinality(F) >= 1
    OBVIOUS
  <2>2. t \in F
    BY <2>1
  <2>3. Cardinality(F) # 0
    BY <2>2, <1>1, FS_EmptySet, Zenon
  <2> QED BY <2>3, <1>2
<1>4. f[t] \in A /\ g[t] \in A => G = F
  OBVIOUS
<1>5. f[t] \notin A /\ g[t] \notin A => G = F
  OBVIOUS
<1>6. f[t] \notin A /\ g[t] \in A => G = F \cup {t} /\ t \notin F
  OBVIOUS
<1>7. f[t] \in A /\ g[t] \notin A => G = F \ {t} /\ t \in F
  OBVIOUS
<1> HIDE DEF F, G
<1>8. t \notin F => Cardinality(F \cup {t}) = Cardinality(F) + 1
  BY <1>1, FS_AddElement, Zenon
<1>9. t \in F => Cardinality(F \ {t}) = Cardinality(F) - 1
  BY <1>1, FS_RemoveElement, Zenon
<1>10. /\ Cardinality(F) \in Nat
       /\ f[t] \in A => Cardinality(F) >= 1
       /\ f[t] \in A /\ g[t] \in A => Cardinality(G) = Cardinality(F)
       /\ f[t] \notin A /\ g[t] \notin A => Cardinality(G) = Cardinality(F)
       /\ f[t] \notin A /\ g[t] \in A => Cardinality(G) = Cardinality(F) + 1
       /\ f[t] \in A /\ g[t] \notin A => Cardinality(G) = Cardinality(F) - 1
  BY <1>2, <1>3, <1>4, <1>5, <1>6, <1>7, <1>8, <1>9, ZenonT(60)
<1> QED BY <1>10, Zenon DEF F, G, Count, CountShift

(***************************************************************************)
(* The invariants.                                                          *)
(***************************************************************************)
\* A thread has a task exactly while it counts as active.
TaskHeld ==
    \A t \in Threads : IF pc[t] \in ActivePCs THEN task[t] \in Fibers
                                              ELSE task[t] = NoFiber

\* Before start() no thread runs; outside stop() the caller does not.
Phases ==
    /\ main = "setup" => \A t \in Threads : pc[t] = "off"
    /\ UseCaller /\ main \in {"setup", "up", "flag", "root", "stopped"} =>
          pc[Caller] \in {"off", "exit"}

\* The first layer of the inductive invariant.
Basic == TypeOK /\ CountsExact /\ TaskHeld /\ Phases

Queued(f) == \E i \in 1..Len(m_tasks) : m_tasks[i].fiber = f
OnThread(f) == \E t \in Threads : pc[t] \in ActivePCs /\ task[t] = f

\* The second layer: how stop() and the idle fibers fit together.
Quiet ==
    /\ main \in {"setup", "up"} => ~m_stopping
    /\ (\E t \in Threads : idle_fiber[t] = "TERM") => m_stopping
    /\ \A t \in Threads : pc[t] = "exit" => idle_fiber[t] = "TERM"
    /\ main \in {"stopped", "down"} => \A t \in Threads : pc[t] = "exit"
    /\ NoWorkAbandoned

\* The third layer, when a fiber that reschedules itself names its thread: a
\* fiber is in the queue once, on one thread, and in both places only between
\* its rescheduling itself and the end of its turn, and then pinned.
QueuedOnce ==
    \A i, j \in 1..Len(m_tasks) : m_tasks[i].fiber = m_tasks[j].fiber => i = j
OnOneThread ==
    \A t, u \in Threads :
        pc[t] \in ActivePCs /\ pc[u] \in ActivePCs /\ task[t] = task[u] => t = u
PinnedToOwner ==
    \A t \in Threads, i \in 1..Len(m_tasks) :
        pc[t] \in ActivePCs /\ m_tasks[i].fiber = task[t] =>
            pc[t] \in {"rearmed", "swap", "back"} /\ m_tasks[i].thread = t

\* Where a fiber is determines its state, and every submitted fiber is somewhere.
FreshState ==
    \A f \in Fibers \ submitted :
        ~Queued(f) /\ ~OnThread(f) /\ m_state[f] \in {"NONE", "READY"}
QueuedState ==
    \A f \in Fibers : Queued(f) /\ ~OnThread(f) => m_state[f] \in {"NONE", "READY"}
ThreadState ==
    \A t \in Threads :
        /\ pc[t] = "got" => m_state[task[t]] \in {"NONE", "READY"}
        /\ pc[t] \in {"body", "rearmed"} => m_state[task[t]] = "RUNNING"
        /\ pc[t] = "rearmed" => Queued(task[t])
        /\ pc[t] \in {"swap", "back"} =>
              m_state[task[t]] = IF Queued(task[t]) THEN "READY" ELSE "TERM"
Accounted ==
    \A f \in submitted : Queued(f) \/ OnThread(f) \/ m_state[f] = "TERM"

\* The caller's root fiber has not been resumed before stop() resumes it.
CallerFresh ==
    UseCaller /\ main \in {"setup", "up", "flag", "root"} => pc[Caller] = "off"

OneOwner ==
    /\ QueuedOnce /\ OnOneThread /\ PinnedToOwner
    /\ FreshState /\ QueuedState /\ ThreadState /\ Accounted
    /\ CallerFresh /\ ~aborted
-----------------------------------------------------------------------------
\* What Erase does to a list: the elements before i keep their place, those
\* after it move down by one (the erase of scheduler.cc:143).
LEMMA EraseFacts ==
    ASSUME NEW S, NEW s \in Seq(S), NEW i \in 1..Len(s)
    PROVE  /\ Erase(s, i) \in Seq(S)
           /\ Len(Erase(s, i)) = Len(s) - 1
           /\ \A j \in 1..(Len(s) - 1) :
                 Erase(s, i)[j] = IF j < i THEN s[j] ELSE s[j + 1]
<1> DEFINE a == SubSeq(s, 1, i - 1)
           b == SubSeq(s, i + 1, Len(s))
<1>1. Len(s) \in Nat /\ i \in Nat /\ i >= 1 /\ i <= Len(s)
  OBVIOUS
<1>2. a \in Seq(S) /\ Len(a) = i - 1 /\ \A j \in 1..(i - 1) : a[j] = s[j]
  BY <1>1, SubSeqProperties
<1>3. b \in Seq(S) /\ Len(b) = Len(s) - i /\ \A j \in 1..(Len(s) - i) : b[j] = s[i + j]
  BY <1>1, SubSeqProperties
<1>4. Erase(s, i) = a \o b
  BY DEF Erase
<1> HIDE DEF a, b
<1>5. /\ a \o b \in Seq(S)
      /\ Len(a \o b) = Len(a) + Len(b)
      /\ \A j \in 1..Len(a) + Len(b) :
            (a \o b)[j] = IF j <= Len(a) THEN a[j] ELSE b[j - Len(a)]
  BY <1>2, <1>3, ConcatProperties, Zenon
<1>6. ASSUME NEW j \in 1..(Len(s) - 1)
      PROVE  (a \o b)[j] = IF j < i THEN s[j] ELSE s[j + 1]
  <2>1. CASE j < i
    BY <1>1, <1>2, <1>3, <1>5, <2>1
  <2>2. CASE ~(j < i)
    <3>1. j - (i - 1) \in 1..(Len(s) - i) /\ i + (j - (i - 1)) = j + 1
      BY <1>1, <2>2
    <3>2. (a \o b)[j] = b[j - (i - 1)]
      BY <1>1, <1>2, <1>3, <1>5, <2>2, SMTT(30)
    <3> QED BY <2>2, <3>1, <3>2, <1>3, Zenon
  <2> QED BY <2>1, <2>2, Zenon
<1> QED BY <1>1, <1>2, <1>3, <1>4, <1>5, <1>6

\* The same, from the point of view of membership: Erase loses the element
\* at i and no other, and invents none.
LEMMA EraseMembers ==
    ASSUME NEW S, NEW s \in Seq(S), NEW i \in 1..Len(s)
    PROVE  /\ \A j \in 1..Len(Erase(s, i)) :
                 \E k \in (1..Len(s)) \ {i} : Erase(s, i)[j] = s[k]
           /\ \A k \in (1..Len(s)) \ {i} :
                 \E j \in 1..Len(Erase(s, i)) : Erase(s, i)[j] = s[k]
<1> DEFINE r == Erase(s, i)
<1>1. /\ Len(s) \in Nat /\ Len(r) = Len(s) - 1
      /\ \A j \in 1..(Len(s) - 1) : r[j] = IF j < i THEN s[j] ELSE s[j + 1]
  BY EraseFacts
<1> HIDE DEF r
<1>2. ASSUME NEW j \in 1..Len(r)
      PROVE  \E k \in (1..Len(s)) \ {i} : r[j] = s[k]
  <2>1. CASE j < i
    BY <1>1, <2>1
  <2>2. CASE ~(j < i)
    <3>1. j + 1 \in (1..Len(s)) \ {i} /\ r[j] = s[j + 1]
      BY <1>1, <2>2
    <3> QED BY <3>1
  <2> QED BY <2>1, <2>2, Zenon
<1>3. ASSUME NEW k \in (1..Len(s)) \ {i}
      PROVE  \E j \in 1..Len(r) : r[j] = s[k]
  <2>1. CASE k < i
    BY <1>1, <2>1
  <2>2. CASE k > i
    <3>1. k - 1 \in 1..Len(r) /\ ~(k - 1 < i) /\ (k - 1) + 1 = k
      BY <1>1, <2>2
    <3>2. r[k - 1] = s[k]
      BY <1>1, <3>1, Zenon
    <3> QED BY <3>1, <3>2, Zenon
  <2> QED BY <2>1, <2>2
<1> QED BY <1>2, <1>3, Zenon DEF r

\* The threads of a scheduler are finitely many (start() creates m_threadCount).
LEMMA ThreadsFinite == IsFiniteSet(Threads)
<1>1. IsFiniteSet(Pool) /\ IsFiniteSet({}) /\ IsFiniteSet({Caller})
  BY SchedulerAssumption, FS_EmptySet, FS_Singleton, Zenon
<1> QED BY <1>1, FS_Union, FS_AddElement, Zenon DEF Threads

\* The two counters when one thread moves from pc[t] to p.
LEMMA CountersFollow ==
    ASSUME Basic, NEW t \in Threads, NEW p \in PCs, pc' = [pc EXCEPT ![t] = p]
    PROVE  LET a == Count(Threads, pc', ActivePCs)
               n == Count(Threads, pc', IdlePCs)
           IN  /\ pc' \in [Threads -> PCs]
               /\ pc[t] \in ActivePCs => m_activeThreadCount >= 1
               /\ (pc[t] \in ActivePCs <=> p \in ActivePCs) => a = m_activeThreadCount
               /\ pc[t] \notin ActivePCs /\ p \in ActivePCs => a = m_activeThreadCount + 1
               /\ pc[t] \in ActivePCs /\ p \notin ActivePCs => a = m_activeThreadCount - 1
               /\ pc[t] \in IdlePCs => m_idleThreadCount >= 1
               /\ (pc[t] \in IdlePCs <=> p \in IdlePCs) => n = m_idleThreadCount
               /\ pc[t] \notin IdlePCs /\ p \in IdlePCs => n = m_idleThreadCount + 1
               /\ pc[t] \in IdlePCs /\ p \notin IdlePCs => n = m_idleThreadCount - 1
<1>1. /\ pc \in [Threads -> PCs]
      /\ m_activeThreadCount = Count(Threads, pc, ActivePCs)
      /\ m_idleThreadCount = Count(Threads, pc, IdlePCs)
  BY DEF Basic, TypeOK, CountsExact, Count
<1>2. pc' \in [Threads -> PCs] /\ pc'[t] = p /\ \A u \in Threads \ {t} : pc'[u] = pc[u]
  BY <1>1
<1>3. CountShift(Threads, pc, pc', ActivePCs, t)
  BY <1>2, ThreadsFinite, CountMove, Zenon
<1>4. CountShift(Threads, pc, pc', IdlePCs, t)
  BY <1>2, ThreadsFinite, CountMove, Zenon
<1> QED BY <1>1, <1>2, <1>3, <1>4, Zenon DEF CountShift

\* The constructed scheduler satisfies the basic invariant.
LEMMA BasicInit == Init => Basic
<1> SUFFICES ASSUME Init PROVE Basic
  OBVIOUS
<1>1. TypeOK
  <2>1. 0 \in 0..MaxYields
    BY SchedulerAssumption
  <2>2. yields \in [Fibers -> 0..MaxYields] /\ m_tasks \in Seq(ScheduleTask)
    BY <2>1 DEF Init
  <2> QED BY <2>2, Zenon DEF Init, TypeOK, PCs
<1>2. {t \in Threads : pc[t] \in ActivePCs} = {} /\ {t \in Threads : pc[t] \in IdlePCs} = {}
  BY DEF Init, ActivePCs, IdlePCs
<1>3. CountsExact
  BY <1>2, FS_EmptySet, Zenon DEF Init, CountsExact
<1>4. TaskHeld
  BY DEF Init, TaskHeld, ActivePCs
<1>5. Phases
  BY DEF Init, Phases, Threads
<1> QED BY <1>1, <1>3, <1>4, <1>5, Zenon DEF Basic

\* An entry of m_tasks is a ScheduleTask with a fiber of the program.
LEMMA QueueEntry ==
    ASSUME TypeOK, NEW i \in 1..Len(m_tasks)
    PROVE  /\ m_tasks[i] \in ScheduleTask
           /\ m_tasks[i].fiber \in Fibers
           /\ m_tasks[i].thread \in Threads \cup {AnyThread}
<1>1. m_tasks[i] \in ScheduleTask
  BY ElementOfSeq DEF TypeOK
<1> QED BY <1>1 DEF ScheduleTask

\* With use_caller the caller is one of the threads.
LEMMA CallerIsThread == UseCaller => Caller \in Threads
BY DEF Threads

\* The counters after a step, in terms of the new program counters.
LEMMA CountsPrimed ==
    /\ m_activeThreadCount' = Count(Threads, pc', ActivePCs)
    /\ m_idleThreadCount' = Count(Threads, pc', IdlePCs)
    => CountsExact'
BY DEF CountsExact, Count

\* A step of the scheduler keeps the types, the counters and TaskHeld.
LEMMA BasicStep == Basic /\ [Next]_vars => Basic'
<1> SUFFICES ASSUME Basic, [Next]_vars PROVE Basic'
  OBVIOUS
<1> USE DEF ActivePCs, IdlePCs, PCs
<1>0. TypeOK /\ CountsExact /\ TaskHeld /\ Phases
  BY DEF Basic
<1>1. CASE UNCHANGED vars
  BY <1>0, <1>1, ZenonT(60) DEF vars, Basic, TypeOK, CountsExact, TaskHeld, Phases
<1>2. ASSUME NEW f \in Fibers, NEW thr \in Threads \cup {AnyThread},
             ClientSchedule(f, thr) \/ \E t \in Threads : FiberSchedule(t, f, thr)
      PROVE  Basic'
  <2>1. /\ m_tasks' = Append(m_tasks, [fiber |-> f, thread |-> thr])
        /\ submitted' = submitted \cup {f}
        /\ UNCHANGED <<m_activeThreadCount, m_idleThreadCount, m_stopping, m_state,
                       saved, yields, pc, task, idle_fiber, main, aborted>>
    BY <1>2, Zenon DEF ClientSchedule, FiberSchedule, Submit, Push
  <2>2. TypeOK'
    <3>1. [fiber |-> f, thread |-> thr] \in ScheduleTask
      BY DEF ScheduleTask
    <3>2. m_tasks' \in Seq(ScheduleTask)
      BY <1>0, <2>1, <3>1 DEF TypeOK
    <3> QED BY <1>0, <2>1, <3>2, Zenon DEF TypeOK
  <2> QED BY <1>0, <2>1, <2>2, Zenon DEF Basic, CountsExact, TaskHeld, Phases
<1>3. ASSUME NEW t \in Threads, Dequeue(t) PROVE Basic'
  <2>1. pc[t] = "scan" /\ pc' = [pc EXCEPT ![t] = "got"] /\ "got" \in PCs
    BY <1>3, Zenon DEF Dequeue
  <2>2. /\ pc' \in [Threads -> PCs]
        /\ Count(Threads, pc', ActivePCs) = m_activeThreadCount + 1
        /\ Count(Threads, pc', IdlePCs) = m_idleThreadCount
    BY <1>0, <2>1, CountersFollow, Zenon DEF Basic
  <2>3. TypeOK'
    <3>1. PICK i \in 1..Len(m_tasks) : /\ task' = [task EXCEPT ![t] = m_tasks[i].fiber]
                                       /\ m_tasks' = Erase(m_tasks, i)
      BY <1>3, Zenon DEF Dequeue
    <3>2. m_tasks[i].fiber \in Fibers
      BY <1>0, QueueEntry, Zenon
    <3>3. m_tasks' \in Seq(ScheduleTask) /\ task' \in [Threads -> Fibers \cup {NoFiber}]
      BY <1>0, <3>1, <3>2, EraseFacts, Zenon DEF TypeOK
    <3>4. aborted' \in BOOLEAN
      BY <1>3, Zenon DEF Dequeue
    <3> QED BY <1>0, <1>3, <2>2, <3>3, <3>4 DEF Dequeue, TypeOK
  <2>4. CountsExact'
    BY <1>3, <2>2, CountsPrimed, Zenon DEF Dequeue
  <2>5. TaskHeld'
    <3>1. PICK i \in 1..Len(m_tasks) : task' = [task EXCEPT ![t] = m_tasks[i].fiber]
      BY <1>3, Zenon DEF Dequeue
    <3>2. m_tasks[i].fiber \in Fibers
      BY <1>0, QueueEntry, Zenon
    <3> QED BY <1>0, <2>1, <3>1, <3>2, Zenon DEF TypeOK, TaskHeld
  <2>6. Phases'
    BY <1>0, <1>3, <2>1, CallerIsThread, Zenon DEF Dequeue, TypeOK, Phases
  <2> QED BY <2>3, <2>4, <2>5, <2>6, Zenon DEF Basic
<1>4. ASSUME NEW t \in Threads, ScanEmpty(t) PROVE Basic'
  <2>1. pc[t] = "scan" /\ pc' = [pc EXCEPT ![t] = "empty"] /\ "empty" \in PCs
    BY <1>4, Zenon DEF ScanEmpty
  <2>2. /\ pc' \in [Threads -> PCs]
        /\ Count(Threads, pc', ActivePCs) = m_activeThreadCount
        /\ Count(Threads, pc', IdlePCs) = m_idleThreadCount
    BY <1>0, <2>1, CountersFollow, Zenon DEF Basic
  <2>3. TypeOK'
    BY <1>0, <1>4, <2>2, Zenon DEF ScanEmpty, TypeOK
  <2>4. CountsExact'
    BY <1>4, <2>2, CountsPrimed, Zenon DEF ScanEmpty
  <2>5. TaskHeld'
    BY <1>0, <1>4, <2>1, Zenon DEF ScanEmpty, TypeOK, TaskHeld
  <2>6. Phases'
    BY <1>0, <1>4, <2>1, CallerIsThread, Zenon DEF ScanEmpty, TypeOK, Phases
  <2> QED BY <2>3, <2>4, <2>5, <2>6, ZenonT(60) DEF Basic
<1>5. ASSUME NEW t \in Threads, Resume(t) PROVE Basic'
  <2>1. pc[t] = "got" /\ pc' = [pc EXCEPT ![t] = "body"] /\ "body" \in PCs
    BY <1>5, Zenon DEF Resume
  <2>2. /\ pc' \in [Threads -> PCs]
        /\ Count(Threads, pc', ActivePCs) = m_activeThreadCount
        /\ Count(Threads, pc', IdlePCs) = m_idleThreadCount
    BY <1>0, <2>1, CountersFollow, Zenon DEF Basic
  <2>3. TypeOK'
    <3>1. aborted' \in BOOLEAN
      BY <1>5 DEF Resume
    <3> QED BY <1>0, <1>5, <2>2, <3>1, Zenon DEF Resume, TypeOK
  <2>4. CountsExact'
    BY <1>5, <2>2, CountsPrimed, Zenon DEF Resume
  <2>5. TaskHeld'
    BY <1>0, <1>5, <2>1, Zenon DEF Resume, TypeOK, TaskHeld
  <2>6. Phases'
    BY <1>0, <1>5, <2>1, CallerIsThread, ZenonT(60) DEF Resume, TypeOK, Phases
  <2> QED BY <2>3, <2>4, <2>5, <2>6, Zenon DEF Basic
<1>6. ASSUME NEW t \in Threads, Yield(t) PROVE Basic'
  <2>1. pc[t] = "rearmed" /\ pc' = [pc EXCEPT ![t] = "swap"] /\ "swap" \in PCs
    BY <1>6, Zenon DEF Yield
  <2>2. /\ pc' \in [Threads -> PCs]
        /\ Count(Threads, pc', ActivePCs) = m_activeThreadCount
        /\ Count(Threads, pc', IdlePCs) = m_idleThreadCount
    BY <1>0, <2>1, CountersFollow, Zenon DEF Basic
  <2>3. TypeOK'
    BY <1>0, <1>6, <2>2, Zenon DEF Yield, TypeOK
  <2>4. CountsExact'
    BY <1>6, <2>2, CountsPrimed, Zenon DEF Yield
  <2>5. TaskHeld'
    BY <1>0, <1>6, <2>1, Zenon DEF Yield, TypeOK, TaskHeld
  <2>6. Phases'
    BY <1>0, <1>6, <2>1, CallerIsThread, ZenonT(60) DEF Yield, TypeOK, Phases
  <2> QED BY <2>3, <2>4, <2>5, <2>6, Zenon DEF Basic
<1>7. ASSUME NEW t \in Threads, SwapBack(t) PROVE Basic'
  <2>1. pc[t] = "swap" /\ pc' = [pc EXCEPT ![t] = "back"] /\ "back" \in PCs
    BY <1>7, Zenon DEF SwapBack
  <2>2. /\ pc' \in [Threads -> PCs]
        /\ Count(Threads, pc', ActivePCs) = m_activeThreadCount
        /\ Count(Threads, pc', IdlePCs) = m_idleThreadCount
    BY <1>0, <2>1, CountersFollow, Zenon DEF Basic
  <2>3. TypeOK'
    BY <1>0, <1>7, <2>2, Zenon DEF SwapBack, TypeOK
  <2>4. CountsExact'
    BY <1>7, <2>2, CountsPrimed, Zenon DEF SwapBack
  <2>5. TaskHeld'
    BY <1>0, <1>7, <2>1, Zenon DEF SwapBack, TypeOK, TaskHeld
  <2>6. Phases'
    BY <1>0, <1>7, <2>1, CallerIsThread, Zenon DEF SwapBack, TypeOK, Phases
  <2> QED BY <2>3, <2>4, <2>5, <2>6, Zenon DEF Basic
<1>8. ASSUME NEW t \in Threads, TaskDone(t) PROVE Basic'
  <2>1. pc[t] = "back" /\ pc' = [pc EXCEPT ![t] = "scan"] /\ "scan" \in PCs
    BY <1>8, Zenon DEF TaskDone
  <2>2. /\ pc' \in [Threads -> PCs]
        /\ Count(Threads, pc', ActivePCs) = m_activeThreadCount - 1
        /\ Count(Threads, pc', IdlePCs) = m_idleThreadCount
        /\ m_activeThreadCount >= 1
    BY <1>0, <2>1, CountersFollow, Zenon DEF Basic
  <2>3. TypeOK'
    BY <1>0, <1>8, <2>2 DEF TaskDone, TypeOK
  <2>4. CountsExact'
    BY <1>8, <2>2, CountsPrimed, Zenon DEF TaskDone
  <2>5. TaskHeld'
    BY <1>0, <1>8, <2>1, Zenon DEF TaskDone, TypeOK, TaskHeld
  <2>6. Phases'
    BY <1>0, <1>8, <2>1, CallerIsThread, Zenon DEF TaskDone, TypeOK, Phases
  <2> QED BY <2>3, <2>4, <2>5, <2>6, Zenon DEF Basic
<1>9. ASSUME NEW t \in Threads, EnterIdle(t) PROVE Basic'
  <2>1. pc[t] = "empty" /\ pc' = [pc EXCEPT ![t] = "idle"] /\ "idle" \in PCs
    BY <1>9, Zenon DEF EnterIdle
  <2>2. /\ pc' \in [Threads -> PCs]
        /\ Count(Threads, pc', ActivePCs) = m_activeThreadCount
        /\ Count(Threads, pc', IdlePCs) = m_idleThreadCount + 1
    BY <1>0, <2>1, CountersFollow, Zenon DEF Basic
  <2>3. TypeOK'
    BY <1>0, <1>9, <2>2 DEF EnterIdle, TypeOK
  <2>4. CountsExact'
    BY <1>9, <2>2, CountsPrimed, Zenon DEF EnterIdle
  <2>5. TaskHeld'
    BY <1>0, <1>9, <2>1, Zenon DEF EnterIdle, TypeOK, TaskHeld
  <2>6. Phases'
    BY <1>0, <1>9, <2>1, CallerIsThread, Zenon DEF EnterIdle, TypeOK, Phases
  <2> QED BY <2>3, <2>4, <2>5, <2>6, Zenon DEF Basic
<1>10. ASSUME NEW t \in Threads, Exit(t) PROVE Basic'
  <2>1. pc[t] = "empty" /\ pc' = [pc EXCEPT ![t] = "exit"] /\ "exit" \in PCs
    BY <1>10, Zenon DEF Exit
  <2>2. /\ pc' \in [Threads -> PCs]
        /\ Count(Threads, pc', ActivePCs) = m_activeThreadCount
        /\ Count(Threads, pc', IdlePCs) = m_idleThreadCount
    BY <1>0, <2>1, CountersFollow, Zenon DEF Basic
  <2>3. TypeOK'
    BY <1>0, <1>10, <2>2, Zenon DEF Exit, TypeOK
  <2>4. CountsExact'
    BY <1>10, <2>2, CountsPrimed, Zenon DEF Exit
  <2>5. TaskHeld'
    BY <1>0, <1>10, <2>1, Zenon DEF Exit, TypeOK, TaskHeld
  <2>6. Phases'
    BY <1>0, <1>10, <2>1, CallerIsThread, Zenon DEF Exit, TypeOK, Phases
  <2> QED BY <2>3, <2>4, <2>5, <2>6, Zenon DEF Basic
<1>11. ASSUME NEW t \in Threads, IdleStep(t) PROVE Basic'
  <2>1. pc[t] = "idle" /\ pc' = [pc EXCEPT ![t] = "idleback"] /\ "idleback" \in PCs
    BY <1>11, Zenon DEF IdleStep
  <2>2. /\ pc' \in [Threads -> PCs]
        /\ Count(Threads, pc', ActivePCs) = m_activeThreadCount
        /\ Count(Threads, pc', IdlePCs) = m_idleThreadCount
    BY <1>0, <2>1, CountersFollow, ZenonT(60) DEF Basic
  <2>3. TypeOK'
    BY <1>0, <1>11, <2>2, ZenonT(60) DEF IdleStep, TypeOK
  <2>4. CountsExact'
    BY <1>11, <2>2, CountsPrimed, Zenon DEF IdleStep
  <2>5. TaskHeld'
    BY <1>0, <1>11, <2>1, Zenon DEF IdleStep, TypeOK, TaskHeld
  <2>6. Phases'
    BY <1>0, <1>11, <2>1, CallerIsThread, Zenon DEF IdleStep, TypeOK, Phases
  <2> QED BY <2>3, <2>4, <2>5, <2>6, Zenon DEF Basic
<1>12. ASSUME NEW t \in Threads, LeaveIdle(t) PROVE Basic'
  <2>1. pc[t] = "idleback" /\ pc' = [pc EXCEPT ![t] = "scan"] /\ "scan" \in PCs
    BY <1>12, Zenon DEF LeaveIdle
  <2>2. /\ pc' \in [Threads -> PCs]
        /\ Count(Threads, pc', ActivePCs) = m_activeThreadCount
        /\ Count(Threads, pc', IdlePCs) = m_idleThreadCount - 1
        /\ m_idleThreadCount >= 1
    BY <1>0, <2>1, CountersFollow, Zenon DEF Basic
  <2>3. TypeOK'
    BY <1>0, <1>12, <2>2 DEF LeaveIdle, TypeOK
  <2>4. CountsExact'
    BY <1>12, <2>2, CountsPrimed, Zenon DEF LeaveIdle
  <2>5. TaskHeld'
    BY <1>0, <1>12, <2>1, Zenon DEF LeaveIdle, TypeOK, TaskHeld
  <2>6. Phases'
    BY <1>0, <1>12, <2>1, CallerIsThread, Zenon DEF LeaveIdle, TypeOK, Phases
  <2> QED BY <2>3, <2>4, <2>5, <2>6, Zenon DEF Basic
<1>13. ASSUME NEW t \in Threads, Reschedule(t) PROVE Basic'
  <2>1. pc[t] = "body" /\ pc' = [pc EXCEPT ![t] = "rearmed"] /\ "rearmed" \in PCs
    BY <1>13, Zenon DEF Reschedule
  <2>2. /\ pc' \in [Threads -> PCs]
        /\ Count(Threads, pc', ActivePCs) = m_activeThreadCount
        /\ Count(Threads, pc', IdlePCs) = m_idleThreadCount
    BY <1>0, <2>1, CountersFollow, Zenon DEF Basic
  <2>3. TypeOK'
    <3>1. task[t] \in Fibers
      BY <1>0, <2>1, Zenon DEF TaskHeld
    <3>2. [fiber |-> task[t], thread |-> IF SelfPinned THEN t ELSE AnyThread] \in ScheduleTask
      BY <3>1, Zenon DEF ScheduleTask
    <3>3. m_tasks' \in Seq(ScheduleTask)
      BY <1>0, <1>13, <3>2 DEF Reschedule, Push, TypeOK
    <3>4. yields' \in [Fibers -> 0..MaxYields]
      <4>1. yields[task[t]] \in 0..MaxYields /\ yields[task[t]] < MaxYields
        BY <1>0, <1>13, <3>1, Zenon DEF Reschedule, TypeOK
      <4>2. yields[task[t]] + 1 \in 0..MaxYields
        BY <4>1, SchedulerAssumption
      <4> QED BY <1>0, <1>13, <4>2, Zenon DEF Reschedule, TypeOK
    <3> QED BY <1>0, <1>13, <2>2, <3>3, <3>4, ZenonT(60) DEF Reschedule, TypeOK
  <2>4. CountsExact'
    BY <1>13, <2>2, CountsPrimed, Zenon DEF Reschedule
  <2>5. TaskHeld'
    BY <1>0, <1>13, <2>1, Zenon DEF Reschedule, TypeOK, TaskHeld
  <2>6. Phases'
    BY <1>0, <1>13, <2>1, CallerIsThread, Zenon DEF Reschedule, TypeOK, Phases
  <2> QED BY <2>3, <2>4, <2>5, <2>6, ZenonT(60) DEF Basic
<1>14. ASSUME NEW t \in Threads, Finish(t) PROVE Basic'
  <2>1. pc[t] = "body" /\ pc' = [pc EXCEPT ![t] = "swap"] /\ "swap" \in PCs
    BY <1>14, Zenon DEF Finish
  <2>2. /\ pc' \in [Threads -> PCs]
        /\ Count(Threads, pc', ActivePCs) = m_activeThreadCount
        /\ Count(Threads, pc', IdlePCs) = m_idleThreadCount
    BY <1>0, <2>1, CountersFollow, Zenon DEF Basic
  <2>3. TypeOK'
    BY <1>0, <1>14, <2>2, Zenon DEF Finish, TypeOK
  <2>4. CountsExact'
    BY <1>14, <2>2, CountsPrimed, Zenon DEF Finish
  <2>5. TaskHeld'
    BY <1>0, <1>14, <2>1, Zenon DEF Finish, TypeOK, TaskHeld
  <2>6. Phases'
    BY <1>0, <1>14, <2>1, CallerIsThread, Zenon DEF Finish, TypeOK, Phases
  <2> QED BY <2>3, <2>4, <2>5, <2>6, Zenon DEF Basic
<1>15. ASSUME ClientStep PROVE Basic'
  <2>1. CASE Start
    <3>1. /\ \A t \in Threads : pc[t] = "off" /\ pc'[t] \in {"off", "scan"}
          /\ pc' \in [Threads -> PCs]
          /\ UNCHANGED <<m_tasks, m_activeThreadCount, m_idleThreadCount, m_stopping,
                 m_state, saved, yields, submitted, task, idle_fiber, aborted>>
          /\ main = "setup" /\ main' = "up"
      BY <1>0, <2>1, Zenon DEF Start, Phases, TypeOK
    <3>2. TypeOK' /\ TaskHeld'
      BY <1>0, <3>1, Zenon DEF TypeOK, TaskHeld
    <3>3. /\ {t \in Threads : pc'[t] \in ActivePCs} = {t \in Threads : pc[t] \in ActivePCs}
          /\ {t \in Threads : pc'[t] \in IdlePCs} = {t \in Threads : pc[t] \in IdlePCs}
      BY <3>1, Zenon
    <3>4. CountsExact'
      BY <1>0, <3>1, <3>3, Zenon DEF CountsExact
    <3>5. Phases'
      BY <2>1, <3>1, CallerIsThread, SchedulerAssumption, Zenon DEF Start, Phases
    <3> QED BY <3>2, <3>4, <3>5, Zenon DEF Basic
  <2>2. CASE StopRoot
    <3>1. /\ \A t \in Threads : pc'[t] = IF t = Caller THEN "scan" ELSE pc[t]
          /\ pc' \in [Threads -> PCs]
          /\ UNCHANGED <<m_tasks, m_activeThreadCount, m_idleThreadCount, m_stopping,
                 m_state, saved, yields, submitted, task, idle_fiber>>
          /\ main = "root" /\ main' = "join"
      BY <1>0, <2>2, Zenon DEF StopRoot, TypeOK
    <3>2. \A t \in Threads : t = Caller => UseCaller /\ pc[t] \in {"off", "exit"}
      BY <1>0, <3>1, SchedulerAssumption, Zenon DEF Phases, Threads
    <3>3. aborted' \in BOOLEAN
      BY <2>2, Zenon DEF StopRoot
    <3>4. TypeOK' /\ TaskHeld'
      BY <1>0, <3>1, <3>2, <3>3, ZenonT(60) DEF TypeOK, TaskHeld
    <3>5. /\ {t \in Threads : pc'[t] \in ActivePCs} = {t \in Threads : pc[t] \in ActivePCs}
          /\ {t \in Threads : pc'[t] \in IdlePCs} = {t \in Threads : pc[t] \in IdlePCs}
      BY <3>1, <3>2, Zenon
    <3>6. CountsExact'
      BY <1>0, <3>1, <3>5, Zenon DEF CountsExact
    <3>7. Phases'
      BY <3>1, Zenon DEF Phases
    <3> QED BY <3>4, <3>6, <3>7, Zenon DEF Basic
  <2>3. CASE StopCheck \/ StopFlag \/ StopJoin
    <3>1. TypeOK' /\ CountsExact' /\ TaskHeld'
      BY <1>0, <2>3, Zenon DEF StopCheck, StopFlag, StopJoin, TypeOK, CountsExact, TaskHeld
    <3>2. Phases'
      BY <1>0, <2>3, CallerIsThread, Zenon DEF StopCheck, StopFlag, StopJoin, Phases
    <3> QED BY <3>1, <3>2, Zenon DEF Basic
  <2> QED BY <1>15, <2>1, <2>2, <2>3, Zenon DEF ClientStep
<1> QED
  BY <1>1, <1>2, <1>3, <1>4, <1>5, <1>6, <1>7, <1>8, <1>9, <1>10, <1>11, <1>12,
     <1>13, <1>14, <1>15, SMTT(30) DEF Next, ThreadStep, Terminated

\* Type correctness of the scheduler (scheduler.cc, fiber.cc), in every run of
\* it: no counter is decremented below zero, no field leaves its range.
THEOREM TypeCorrect == Spec => []TypeOK
<1>1. Basic => TypeOK
  BY DEF Basic
<1> QED BY BasicInit, BasicStep, <1>1, PTL DEF Spec

\* m_activeThreadCount and m_idleThreadCount are exact, for any number of
\* threads (scheduler.cc:144,159,174,186,188).
THEOREM CountersAreExact == Spec => []CountsExact
<1>1. Basic => CountsExact
  BY DEF Basic
<1> QED BY BasicInit, BasicStep, <1>1, PTL DEF Spec
-----------------------------------------------------------------------------
\* No thread has left a scheduler that was just constructed.
LEMMA QuietInit == Init => Quiet
BY SchedulerAssumption, Zenon DEF Init, Quiet, NoWorkAbandoned, ActivePCs

\* When stopping() holds no thread is active: the counter is exact.
LEMMA StoppingIsQuiet ==
    ASSUME Basic, Stopping
    PROVE  m_stopping /\ m_tasks = <<>> /\ \A t \in Threads : pc[t] \notin ActivePCs
<1> DEFINE A == {t \in Threads : pc[t] \in ActivePCs}
<1>1. Cardinality(A) = 0
  BY DEF Basic, CountsExact, Stopping
<1>2. IsFiniteSet(A)
  BY ThreadsFinite, FS_Subset, Zenon
<1>3. A = {}
  BY <1>1, <1>2, FS_EmptySet, Zenon
<1> QED BY <1>3 DEF Stopping

\* No step brings work back once a thread has decided to leave.
LEMMA QuietStep == Basic /\ Quiet /\ [Next]_vars => Quiet'
<1>a. SUFFICES ASSUME Basic, Quiet, [Next]_vars PROVE Quiet'
  OBVIOUS
<1>0. TypeOK /\ TaskHeld /\ Phases /\ Quiet
  BY <1>a DEF Basic
<1> USE DEF ActivePCs
<1>1. CASE UNCHANGED vars
  BY <1>0, <1>1, Zenon DEF vars, Quiet, NoWorkAbandoned
<1>2. ASSUME NEW f \in Fibers, NEW thr \in Threads \cup {AnyThread}, ClientSchedule(f, thr)
      PROVE  Quiet'
  BY <1>0, <1>2, Zenon DEF ClientSchedule, Quiet, NoWorkAbandoned
<1>3. ASSUME NEW f \in Fibers, NEW thr \in Threads \cup {AnyThread},
             NEW t \in Threads, FiberSchedule(t, f, thr)
      PROVE  Quiet'
  BY <1>0, <1>3, Zenon DEF FiberSchedule, Quiet, NoWorkAbandoned
<1>4. ASSUME NEW t \in Threads, Dequeue(t) PROVE Quiet'
  <2>1. m_tasks # <<>>
    BY <1>4, SMTT(30) DEF Dequeue
  <2> QED BY <1>0, <1>4, <2>1, Zenon DEF Dequeue, Quiet, NoWorkAbandoned, TypeOK
<1>5. ASSUME NEW t \in Threads, Resume(t) \/ Yield(t) \/ SwapBack(t) \/ TaskDone(t)
                                \/ Reschedule(t) \/ Finish(t)
      PROVE  Quiet'
  <2>1. pc[t] \in ActivePCs
    BY <1>5, Zenon DEF Resume, Yield, SwapBack, TaskDone, Reschedule, Finish
  <2>2. \A u \in Threads : idle_fiber[u] # "TERM" /\ pc[u] # "exit"
    BY <1>0, <2>1, ZenonT(60) DEF Quiet, NoWorkAbandoned
  <2>3. /\ UNCHANGED <<m_stopping, idle_fiber, main>>
        /\ \A u \in Threads : pc'[u] # "exit"
    BY <1>0, <1>5, <2>2 DEF Resume, Yield, SwapBack, TaskDone, Reschedule, Finish, TypeOK
  <2> QED BY <1>0, <2>2, <2>3, Zenon DEF Quiet, NoWorkAbandoned
<1>6. ASSUME NEW t \in Threads, ScanEmpty(t) \/ EnterIdle(t) \/ LeaveIdle(t) \/ Exit(t)
      PROVE  Quiet'
  <2>1. /\ UNCHANGED <<m_tasks, m_stopping, idle_fiber, main>>
        /\ pc[t] \notin {"exit", "off"} /\ pc'[t] \notin ActivePCs
        /\ pc'[t] = "exit" => idle_fiber[t] = "TERM"
        /\ \A u \in Threads \ {t} : pc'[u] = pc[u]
    BY <1>0, <1>6, Zenon DEF ScanEmpty, EnterIdle, LeaveIdle, Exit, TypeOK
  <2> QED BY <1>0, <2>1, Zenon DEF Quiet, NoWorkAbandoned
<1>7. ASSUME NEW t \in Threads, IdleStep(t) PROVE Quiet'
  <2>1. CASE Stopping
    <3>1. m_stopping /\ m_tasks = <<>> /\ \A u \in Threads : pc[u] \notin ActivePCs
      BY <1>a, <2>1, StoppingIsQuiet, Zenon
    <3> QED BY <1>0, <1>7, <2>1, <3>1, Zenon DEF IdleStep, Quiet, NoWorkAbandoned, TypeOK
  <2>2. CASE ~Stopping
    BY <1>0, <1>7, <2>2, Zenon DEF IdleStep, Quiet, NoWorkAbandoned, TypeOK
  <2> QED BY <2>1, <2>2, Zenon
<1>8. ASSUME ClientStep PROVE Quiet'
  <2>1. CASE Start
    BY <1>0, <2>1, Zenon DEF Start, Quiet, NoWorkAbandoned, Phases
  <2>2. CASE StopCheck
    BY <1>0, <2>2, Zenon DEF StopCheck, Stopping, Quiet, NoWorkAbandoned
  <2>3. CASE StopFlag \/ StopJoin
    BY <1>0, <2>3, Zenon DEF StopFlag, StopJoin, Quiet, NoWorkAbandoned
  <2>4. CASE StopRoot
    BY <1>0, <2>4, Zenon DEF StopRoot, Quiet, NoWorkAbandoned
  <2> QED BY <1>8, <2>1, <2>2, <2>3, <2>4, Zenon DEF ClientStep
<1> QED
  BY <1>a, <1>1, <1>2, <1>3, <1>4, <1>5, <1>6, <1>7, <1>8, SMTT(30) DEF Next, ThreadStep, Terminated

\* No thread leaves run() while a task is queued or executed, and none appears
\* afterwards (scheduler.cc:68-82, 118-189), for any number of threads.
THEOREM NoneAbandoned == Spec => []NoWorkAbandoned
<1>1. Quiet => NoWorkAbandoned
  BY DEF Quiet
<1> QED BY BasicInit, BasicStep, QuietInit, QuietStep, <1>1, PTL DEF Spec
-----------------------------------------------------------------------------
\* Nothing is owned in a scheduler that was just constructed.
LEMMA OneOwnerInit == Init => OneOwner
<1> SUFFICES ASSUME Init PROVE OneOwner
  OBVIOUS
<1>1. /\ Len(m_tasks) = 0
      /\ \A t \in Threads : pc[t] = "off"
      /\ \A f \in Fibers : m_state[f] \in {"NONE", "READY"}
      /\ submitted = {} /\ ~aborted
  BY DEF Init
<1>2. \A f : ~Queued(f) /\ ~OnThread(f)
  BY <1>1 DEF Queued, OnThread, ActivePCs
<1> QED
  BY <1>1, <1>2, CallerIsThread
     DEF OneOwner, QueuedOnce, OnOneThread, PinnedToOwner, FreshState, QueuedState,
         ThreadState, Accounted, CallerFresh, ActivePCs

\* schedule() adds one entry and moves none.
LEMMA PushFacts ==
    ASSUME TypeOK, NEW f \in Fibers, NEW thr \in Threads \cup {AnyThread}, Push(f, thr)
    PROVE  /\ Len(m_tasks) \in Nat /\ Len(m_tasks') = Len(m_tasks) + 1
           /\ \A i \in 1..Len(m_tasks) : m_tasks'[i] = m_tasks[i]
           /\ m_tasks'[Len(m_tasks) + 1].fiber = f
           /\ m_tasks'[Len(m_tasks) + 1].thread = thr
           /\ \A g : Queued(g)' <=> (Queued(g) \/ g = f)
<1> DEFINE e == [fiber |-> f, thread |-> thr]
<1>1. m_tasks \in Seq(ScheduleTask) /\ m_tasks' = Append(m_tasks, e)
  BY DEF TypeOK, Push
<1>2. e.fiber = f /\ e.thread = thr
  OBVIOUS
<1> HIDE DEF e
<1>3. /\ Len(m_tasks) \in Nat /\ Len(m_tasks') = Len(m_tasks) + 1
      /\ \A i \in 1..Len(m_tasks) : m_tasks'[i] = m_tasks[i]
      /\ m_tasks'[Len(m_tasks) + 1] = e
  BY <1>1
<1>4. ASSUME NEW g PROVE Queued(g)' <=> (Queued(g) \/ g = f)
  BY <1>2, <1>3, SMTT(30) DEF Queued
<1> QED BY <1>2, <1>3, <1>4, Zenon

\* A fiber scheduled for the first time is in no other place.
LEMMA OwnerSubmit ==
    ASSUME Basic, OneOwner, NEW f \in Fibers, NEW thr \in Threads \cup {AnyThread},
           Submit(f, thr), UNCHANGED <<m_state, pc, task, main, aborted>>
    PROVE  OneOwner'
<1> USE DEF ActivePCs
<1>1. /\ f \notin submitted /\ submitted' = submitted \cup {f}
      /\ ~Queued(f) /\ ~OnThread(f) /\ m_state[f] \in {"NONE", "READY"}
  BY DEF Submit, OneOwner, FreshState
<1>2. /\ Len(m_tasks) \in Nat /\ Len(m_tasks') = Len(m_tasks) + 1
      /\ \A i \in 1..Len(m_tasks) : m_tasks'[i] = m_tasks[i]
      /\ m_tasks'[Len(m_tasks) + 1].fiber = f
      /\ \A g : Queued(g)' <=> (Queued(g) \/ g = f)
  BY PushFacts, Zenon DEF Submit, Basic
<1>3. \A g : OnThread(g)' <=> OnThread(g)
  BY DEF OnThread
<1>4. QueuedOnce'
  BY <1>1, <1>2 DEF OneOwner, QueuedOnce, Queued
<1>5. PinnedToOwner'
  BY <1>1, <1>2 DEF OneOwner, PinnedToOwner, OnThread
<1>6. OnOneThread' /\ CallerFresh' /\ ~aborted'
  BY Zenon DEF OneOwner, OnOneThread, CallerFresh
<1>7. FreshState' /\ QueuedState' /\ Accounted'
  BY <1>1, <1>2, <1>3, Zenon DEF OneOwner, FreshState, QueuedState, Accounted
<1>8. ThreadState'
  BY <1>1, <1>2, Zenon DEF OneOwner, ThreadState, OnThread
<1> QED BY <1>4, <1>5, <1>6, <1>7, <1>8, Zenon DEF OneOwner

\* Thread t takes entry i, of a fiber f that no thread is executing.
Taken(t, i, f) ==
    /\ f = m_tasks[i].fiber
    /\ aborted' = (m_state[f] \notin {"NONE", "READY"})
    /\ pc[t] = "scan" /\ pc'[t] = "got" /\ task'[t] = f
    /\ \A u \in Threads \ {t} : pc'[u] = pc[u] /\ task'[u] = task[u]
    /\ UNCHANGED <<m_state, submitted, main>>
    /\ Len(m_tasks) \in Nat /\ Len(m_tasks') = Len(m_tasks) - 1
    /\ \A j \in 1..(Len(m_tasks) - 1) :
          m_tasks'[j] = IF j < i THEN m_tasks[j] ELSE m_tasks[j + 1]
    /\ \A j \in 1..Len(m_tasks') :
          \E k \in (1..Len(m_tasks)) \ {i} : m_tasks'[j] = m_tasks[k]
    /\ ~OnThread(f) /\ Queued(f) /\ m_state[f] \in {"NONE", "READY"}
    /\ ~Queued(f)' /\ \A g : g # f => (Queued(g)' <=> Queued(g))
    /\ \A g : OnThread(g)' <=> (OnThread(g) \/ g = f)

\* This is what the scan of the queue does (scheduler.cc:121-147).
LEMMA DequeueTakes ==
    ASSUME Basic, OneOwner, NEW t \in Threads, Dequeue(t)
    PROVE  \E i \in 1..Len(m_tasks), f \in Fibers : Taken(t, i, f)
<1> USE DEF ActivePCs
<1>1. PICK i \in 1..Len(m_tasks) :
         /\ m_tasks[i].thread \in {AnyThread, t}
         /\ aborted' = (m_state[m_tasks[i].fiber] \notin {"NONE", "READY"})
         /\ task' = [task EXCEPT ![t] = m_tasks[i].fiber]
         /\ m_tasks' = Erase(m_tasks, i)
  BY Zenon DEF Dequeue, FirstEligible, Eligible, MayTake
<1>f. PICK f \in Fibers : f = m_tasks[i].fiber
  BY QueueEntry, Zenon DEF Basic
<1>2. /\ pc[t] = "scan" /\ pc'[t] = "got" /\ \A u \in Threads \ {t} : pc'[u] = pc[u]
      /\ task'[t] = f /\ \A u \in Threads \ {t} : task'[u] = task[u]
      /\ UNCHANGED <<m_state, submitted, main>>
      /\ AnyThread \notin Threads
  BY <1>1, <1>f, SchedulerAssumption, Zenon DEF Basic, TypeOK, Dequeue, Threads
<1>3. /\ m_tasks \in Seq(ScheduleTask) /\ Len(m_tasks) \in Nat
      /\ Len(m_tasks') = Len(m_tasks) - 1
      /\ \A j \in 1..(Len(m_tasks) - 1) :
            m_tasks'[j] = IF j < i THEN m_tasks[j] ELSE m_tasks[j + 1]
  <2>1. m_tasks \in Seq(ScheduleTask) /\ Len(m_tasks) \in Nat
    BY DEF Basic, TypeOK
  <2>2. /\ Len(Erase(m_tasks, i)) = Len(m_tasks) - 1
        /\ \A j \in 1..(Len(m_tasks) - 1) :
              Erase(m_tasks, i)[j] = IF j < i THEN m_tasks[j] ELSE m_tasks[j + 1]
    BY <2>1, EraseFacts, Zenon
  <2> QED BY <1>1, <2>1, <2>2, Zenon
<1>4. /\ \A j \in 1..Len(m_tasks') :
            \E k \in (1..Len(m_tasks)) \ {i} : m_tasks'[j] = m_tasks[k]
      /\ \A k \in (1..Len(m_tasks)) \ {i} :
            \E j \in 1..Len(m_tasks') : m_tasks'[j] = m_tasks[k]
  <2>1. /\ \A j \in 1..Len(Erase(m_tasks, i)) :
              \E k \in (1..Len(m_tasks)) \ {i} : Erase(m_tasks, i)[j] = m_tasks[k]
        /\ \A k \in (1..Len(m_tasks)) \ {i} :
              \E j \in 1..Len(Erase(m_tasks, i)) : Erase(m_tasks, i)[j] = m_tasks[k]
    BY <1>3, EraseMembers, ZenonT(60)
  <2> QED BY <1>1, <2>1, Zenon
<1>5. ~OnThread(f)
  BY <1>1, <1>f, <1>2 DEF OneOwner, PinnedToOwner, OnThread
<1>6. Queued(f) /\ m_state[f] \in {"NONE", "READY"}
  BY <1>f, <1>5, Zenon DEF OneOwner, QueuedState, Queued
<1>7. ~Queued(f)' /\ \A g : g # f => (Queued(g)' <=> Queued(g))
  <2>1. \A k \in (1..Len(m_tasks)) \ {i} : m_tasks[k].fiber # f
    BY <1>f, Zenon DEF OneOwner, QueuedOnce
  <2>2. ~Queued(f)'
    BY <1>4, <2>1, Zenon DEF Queued
  <2>3. ASSUME NEW g, g # f PROVE Queued(g)' <=> Queued(g)
    BY <1>f, <1>4, <2>3, Zenon DEF Queued
  <2> QED BY <2>2, <2>3, Zenon
<1>8. \A g : OnThread(g)' <=> (OnThread(g) \/ g = f)
  BY <1>2, ZenonT(60) DEF OnThread
<1>9. Taken(t, i, f)
  BY <1>1, <1>f, <1>2, <1>3, <1>4, <1>5, <1>6, <1>7, <1>8, SMTT(30) DEF Taken
<1> QED BY <1>9, Zenon

\* A fiber that is taken gets an owner, and stays the only one of its entry.
LEMMA OwnerDequeue ==
    ASSUME Basic, OneOwner, NEW t \in Threads, Dequeue(t)
    PROVE  OneOwner'
<1> USE DEF ActivePCs
<1>1. PICK i \in 1..Len(m_tasks), f \in Fibers : Taken(t, i, f)
  BY DequeueTakes
<1>2. /\ pc[t] = "scan" /\ pc'[t] = "got" /\ task'[t] = f /\ f = m_tasks[i].fiber
      /\ \A u \in Threads \ {t} : pc'[u] = pc[u] /\ task'[u] = task[u]
      /\ UNCHANGED <<m_state, submitted, main>>
  BY <1>1, Zenon DEF Taken
<1>3. /\ Len(m_tasks) \in Nat /\ Len(m_tasks') = Len(m_tasks) - 1
      /\ \A j \in 1..(Len(m_tasks) - 1) :
            m_tasks'[j] = IF j < i THEN m_tasks[j] ELSE m_tasks[j + 1]
      /\ \A j \in 1..Len(m_tasks') :
            \E k \in (1..Len(m_tasks)) \ {i} : m_tasks'[j] = m_tasks[k]
  BY <1>1, Zenon DEF Taken
<1>4. /\ ~OnThread(f) /\ Queued(f) /\ m_state[f] \in {"NONE", "READY"}
      /\ ~Queued(f)' /\ \A g : g # f => (Queued(g)' <=> Queued(g))
      /\ \A g : OnThread(g)' <=> (OnThread(g) \/ g = f)
  BY <1>1, Zenon DEF Taken
<1>5. QueuedOnce'
  <2>1. SUFFICES ASSUME NEW a \in 1..Len(m_tasks'), NEW b \in 1..Len(m_tasks'),
                        m_tasks'[a].fiber = m_tasks'[b].fiber
                 PROVE  a = b
    BY DEF QueuedOnce
  <2> DEFINE P(k) == IF k < i THEN k ELSE k + 1
  <2>2. P(a) \in 1..Len(m_tasks) /\ P(b) \in 1..Len(m_tasks)
    BY <1>3
  <2>3. m_tasks'[a] = m_tasks[P(a)] /\ m_tasks'[b] = m_tasks[P(b)]
    BY <1>3, Zenon
  <2>4. P(a) = P(b)
    BY <2>1, <2>2, <2>3, ZenonT(60) DEF OneOwner, QueuedOnce
  <2> QED BY <2>4, <1>3
<1>6. PinnedToOwner'
  <2>1. SUFFICES ASSUME NEW u \in Threads, NEW j \in 1..Len(m_tasks'),
                        pc'[u] \in ActivePCs, m_tasks'[j].fiber = task'[u]
                 PROVE  pc'[u] \in {"rearmed", "swap", "back"} /\ m_tasks'[j].thread = u
    BY DEF PinnedToOwner
  <2>2. PICK k \in (1..Len(m_tasks)) \ {i} : m_tasks'[j] = m_tasks[k]
    BY <1>3, Zenon
  <2>3. u # t
    BY <1>2, <2>1, <2>2, ZenonT(60) DEF OneOwner, QueuedOnce
  <2> QED BY <1>2, <2>1, <2>2, <2>3 DEF OneOwner, PinnedToOwner
<1>7. OnOneThread'
  BY <1>2, <1>4 DEF OneOwner, OnOneThread, OnThread
<1>8. FreshState' /\ QueuedState' /\ Accounted'
  BY <1>2, <1>4, ZenonT(60) DEF OneOwner, FreshState, QueuedState, Accounted
<1>9. ThreadState'
  BY <1>2, <1>4, SMTT(30) DEF OneOwner, ThreadState, OnThread
<1>10. CallerFresh'
  BY <1>2, CallerIsThread, Zenon DEF OneOwner, CallerFresh
<1>11. ~aborted'
  BY <1>1, Zenon DEF Taken
<1> QED BY <1>5, <1>6, <1>7, <1>8, <1>9, <1>10, <1>11, SMTT(30) DEF OneOwner

\* A fiber starts its turn, gives it up or ends: it stays on its thread, and
\* its state is the one its place requires.
LEMMA OwnerTurn ==
    ASSUME Basic, OneOwner, NEW t \in Threads,
           Resume(t) \/ Yield(t) \/ Finish(t) \/ SwapBack(t)
    PROVE  OneOwner'
<1> USE DEF ActivePCs
<1>1. PICK f \in Fibers : f = task[t]
  BY Zenon DEF Basic, TaskHeld, Resume, Yield, Finish, SwapBack
<1>2. /\ pc[t] \in ActivePCs /\ pc'[t] \in ActivePCs
      /\ \A u \in Threads \ {t} : pc'[u] = pc[u]
      /\ UNCHANGED <<m_tasks, task, submitted, main>>
      /\ \A g \in Fibers \ {f} : m_state'[g] = m_state[g]
  BY <1>1, ZenonT(60) DEF Basic, TypeOK, Resume, Yield, Finish, SwapBack
<1>3. \/ /\ pc[t] = "got" /\ pc'[t] = "body" /\ m_state'[f] = "RUNNING"
      \/ /\ pc[t] = "rearmed" /\ pc'[t] = "swap" /\ m_state'[f] = "READY"
      \/ /\ pc[t] = "body" /\ pc'[t] = "swap" /\ m_state'[f] = "TERM"
      \/ /\ pc[t] = "swap" /\ pc'[t] = "back" /\ m_state'[f] = m_state[f]
  BY <1>1, ZenonT(60) DEF Basic, TypeOK, OneOwner, ThreadState, Resume, Yield, Finish, SwapBack
<1>4. ~aborted'
  BY <1>1, Zenon DEF OneOwner, ThreadState, Resume, Yield, Finish, SwapBack
<1>5. \A g : (Queued(g)' <=> Queued(g)) /\ (OnThread(g)' <=> OnThread(g))
  BY <1>2, Zenon DEF Queued, OnThread
<1>6. OnThread(f) /\ \A u \in Threads \ {t} : pc[u] \in ActivePCs => task[u] # f
  BY <1>1, <1>2, Zenon DEF OneOwner, OnOneThread, OnThread
<1>7. QueuedOnce' /\ OnOneThread'
  BY <1>2, Zenon DEF OneOwner, QueuedOnce, OnOneThread
<1>8. PinnedToOwner'
  BY <1>2, <1>3, ZenonT(60) DEF OneOwner, PinnedToOwner
<1>9. FreshState' /\ QueuedState' /\ Accounted'
  BY <1>2, <1>5, <1>6, ZenonT(60) DEF Basic, TypeOK, OneOwner, FreshState, QueuedState, Accounted
<1>10. ThreadState'
  <2>1. ASSUME NEW u \in Threads, u # t, pc[u] \in ActivePCs
        PROVE  m_state'[task[u]] = m_state[task[u]]
    BY <1>2, <1>6, <2>1, Zenon DEF Basic, TaskHeld
  <2>2. pc[t] = "body" => ~Queued(f)
    BY <1>1, Zenon DEF OneOwner, PinnedToOwner, Queued
  <2> QED BY <1>1, <1>2, <1>3, <1>5, <2>1, <2>2, SMTT(30) DEF OneOwner, ThreadState
<1>11. CallerFresh'
  BY <1>2, CallerIsThread, Zenon DEF OneOwner, CallerFresh
<1> QED BY <1>4, <1>7, <1>8, <1>9, <1>10, <1>11, ZenonT(60) DEF OneOwner

\* A fiber puts itself back in the queue, for its own thread.
LEMMA OwnerReschedule ==
    ASSUME SelfPinned, Basic, OneOwner, NEW t \in Threads, Reschedule(t)
    PROVE  OneOwner'
<1> USE DEF ActivePCs
<1>1. PICK f \in Fibers : f = task[t]
  BY Zenon DEF Basic, TaskHeld, Reschedule
<1>2. /\ pc[t] = "body" /\ pc'[t] = "rearmed" /\ Push(f, t)
      /\ \A u \in Threads \ {t} : pc'[u] = pc[u]
      /\ UNCHANGED <<m_state, submitted, task, main, aborted>>
  BY <1>1, Zenon DEF Basic, TypeOK, Reschedule
<1>3. /\ Len(m_tasks) \in Nat /\ Len(m_tasks') = Len(m_tasks) + 1
      /\ \A i \in 1..Len(m_tasks) : m_tasks'[i] = m_tasks[i]
      /\ m_tasks'[Len(m_tasks) + 1].fiber = f
      /\ m_tasks'[Len(m_tasks) + 1].thread = t
      /\ \A g : Queued(g)' <=> (Queued(g) \/ g = f)
  BY <1>2, PushFacts, Zenon DEF Basic
<1>4. ~Queued(f) /\ OnThread(f) /\ m_state[f] = "RUNNING"
  BY <1>1, <1>2, Zenon DEF OneOwner, PinnedToOwner, ThreadState, Queued, OnThread
<1>5. \A u \in Threads \ {t} : pc[u] \in ActivePCs => task[u] # f
  BY <1>1, <1>2, Zenon DEF OneOwner, OnOneThread
<1>6. \A g : OnThread(g)' <=> OnThread(g)
  BY <1>2, ZenonT(60) DEF OnThread
<1>7. QueuedOnce'
  BY <1>3, <1>4 DEF OneOwner, QueuedOnce, Queued
<1>8. PinnedToOwner'
  <2>1. SUFFICES ASSUME NEW u \in Threads, NEW j \in 1..Len(m_tasks'),
                        pc'[u] \in ActivePCs, m_tasks'[j].fiber = task'[u]
                 PROVE  pc'[u] \in {"rearmed", "swap", "back"} /\ m_tasks'[j].thread = u
    BY DEF PinnedToOwner
  <2>2. CASE j = Len(m_tasks) + 1
    BY <1>2, <1>3, <1>5, <2>1, <2>2, ZenonT(60)
  <2>3. CASE j \in 1..Len(m_tasks)
    <3>1. m_tasks'[j] = m_tasks[j] /\ m_tasks[j].fiber # f
      BY <1>3, <1>4, <2>3, Zenon DEF Queued
    <3>2. u # t
      BY <1>1, <1>2, <2>1, <3>1, ZenonT(60)
    <3> QED BY <1>2, <2>1, <2>3, <3>1, <3>2 DEF OneOwner, PinnedToOwner
  <2> QED BY <1>3, <2>2, <2>3, SMTT(30)
<1>9. OnOneThread' /\ CallerFresh' /\ ~aborted'
  BY <1>2, CallerIsThread DEF OneOwner, OnOneThread, CallerFresh
<1>10. FreshState' /\ QueuedState' /\ Accounted'
  BY <1>2, <1>3, <1>4, <1>6, ZenonT(60) DEF OneOwner, FreshState, QueuedState, Accounted
<1>11. ThreadState'
  BY <1>1, <1>2, <1>3, <1>4, <1>5 DEF OneOwner, ThreadState
<1> QED BY <1>7, <1>8, <1>9, <1>10, <1>11, ZenonT(60) DEF OneOwner

\* The turn is over: the fiber is queued again, or it has ended.
LEMMA OwnerTaskDone ==
    ASSUME Basic, OneOwner, NEW t \in Threads, TaskDone(t)
    PROVE  OneOwner'
<1> USE DEF ActivePCs
<1>1. PICK f \in Fibers : f = task[t]
  BY DEF Basic, TaskHeld, TaskDone
<1>2. /\ pc[t] = "back" /\ pc'[t] = "scan" /\ \A u \in Threads \ {t} : pc'[u] = pc[u]
      /\ \A u \in Threads \ {t} : task'[u] = task[u]
      /\ UNCHANGED <<m_tasks, m_state, submitted, main>>
      /\ aborted' = (m_state[f] # "TERM" /\ ~Referenced(f, t))
  BY <1>1, Zenon DEF Basic, TypeOK, TaskDone
<1>3. m_state[f] = IF Queued(f) THEN "READY" ELSE "TERM"
  BY <1>1, <1>2, Zenon DEF OneOwner, ThreadState
<1>4. ~aborted'
  BY <1>2, <1>3, Zenon DEF Referenced, Queued
<1>5. \A g : Queued(g)' <=> Queued(g)
  BY <1>2, Zenon DEF Queued
<1>6. \A g : g # f => (OnThread(g)' <=> OnThread(g))
  BY <1>1, <1>2, Zenon DEF OnThread
<1>7. OnThread(f)
  BY <1>1, <1>2, Zenon DEF OnThread
<1>8. QueuedOnce' /\ OnOneThread' /\ PinnedToOwner'
  BY <1>2, SMTT(30) DEF OneOwner, QueuedOnce, OnOneThread, PinnedToOwner
<1>9. FreshState' /\ QueuedState' /\ Accounted'
  BY <1>2, <1>3, <1>5, <1>6, <1>7, Zenon DEF OneOwner, FreshState, QueuedState, Accounted
<1>10. ThreadState'
  BY <1>2, <1>5, Zenon DEF OneOwner, ThreadState
<1>11. CallerFresh'
  BY <1>2, CallerIsThread, Zenon DEF OneOwner, CallerFresh
<1> QED BY <1>4, <1>8, <1>9, <1>10, <1>11, SMTT(30) DEF OneOwner

\* Threads that execute no task move without effect on the fibers.
LEMMA OwnerOthers ==
    ASSUME Basic, OneOwner, UNCHANGED <<m_tasks, m_state, submitted, task, aborted>>,
           \A t \in Threads : pc'[t] = pc[t] \/ {pc[t], pc'[t]} \cap ActivePCs = {},
           CallerFresh'
    PROVE  OneOwner'
<1> USE DEF ActivePCs
<1>1. \A g : (Queued(g)' <=> Queued(g)) /\ (OnThread(g)' <=> OnThread(g))
  BY Zenon DEF Queued, OnThread
<1>2. \A t \in Threads : pc'[t] \in ActivePCs => pc'[t] = pc[t]
  BY Zenon
<1>3. QueuedOnce' /\ OnOneThread' /\ PinnedToOwner'
  BY <1>2 DEF OneOwner, QueuedOnce, OnOneThread, PinnedToOwner
<1>4. FreshState' /\ QueuedState' /\ Accounted'
  BY <1>1, Zenon DEF OneOwner, FreshState, QueuedState, Accounted
<1>5. ThreadState'
  BY <1>1, <1>2, Zenon DEF OneOwner, ThreadState
<1> QED BY <1>3, <1>4, <1>5, Zenon DEF OneOwner

\* After a stop() that returned, stopping() holds.
LEMMA StoppedIsStopping ==
    ASSUME Basic, Quiet, main = "stopped"
    PROVE  Stopping
<1>1. \A t \in Threads : pc[t] = "exit" /\ idle_fiber[t] = "TERM"
  BY DEF Quiet
<1>2. m_stopping /\ m_tasks = <<>>
  BY <1>1, SchedulerAssumption, Zenon DEF Quiet, NoWorkAbandoned
<1>3. {t \in Threads : pc[t] \in ActivePCs} = {}
  BY <1>1 DEF ActivePCs
<1>4. m_activeThreadCount = 0
  BY <1>3, FS_EmptySet, Zenon DEF Basic, CountsExact
<1> QED BY <1>2, <1>4, Zenon DEF Stopping

\* Every step keeps OneOwner.
LEMMA OneOwnerStep ==
    ASSUME SelfPinned
    PROVE  Basic /\ Quiet /\ OneOwner /\ [Next]_vars => OneOwner'
<1>a. SUFFICES ASSUME Basic, Quiet, OneOwner, [Next]_vars PROVE OneOwner'
  OBVIOUS
<1>1. CASE UNCHANGED vars
  BY <1>a, <1>1, OwnerOthers, Zenon DEF vars, OneOwner, CallerFresh
<1>2. ASSUME NEW f \in Fibers, NEW thr \in Threads \cup {AnyThread},
             ClientSchedule(f, thr) \/ \E t \in Threads : FiberSchedule(t, f, thr)
      PROVE  OneOwner'
  <2>1. Submit(f, thr) /\ UNCHANGED <<m_state, pc, task, main, aborted>>
    BY <1>2, Zenon DEF ClientSchedule, FiberSchedule
  <2> QED BY <1>a, <2>1, OwnerSubmit, Zenon
<1>3. ASSUME NEW t \in Threads,
             ScanEmpty(t) \/ EnterIdle(t) \/ Exit(t) \/ IdleStep(t) \/ LeaveIdle(t)
      PROVE  OneOwner'
  <2>1. /\ UNCHANGED <<m_tasks, m_state, submitted, task, main, aborted>>
        /\ pc[t] # "off" /\ {pc[t], pc'[t]} \cap ActivePCs = {}
        /\ \A u \in Threads \ {t} : pc'[u] = pc[u]
    BY <1>a, <1>3, Zenon DEF ScanEmpty, EnterIdle, Exit, IdleStep, LeaveIdle, Basic, TypeOK,
                      ActivePCs
  <2>2. CallerFresh'
    BY <1>a, <2>1, CallerIsThread, Zenon DEF OneOwner, CallerFresh
  <2> QED BY <1>a, <2>1, <2>2, OwnerOthers, Zenon
<1>4. CASE Start
  <2>1. /\ UNCHANGED <<m_tasks, m_state, submitted, task, aborted>>
        /\ \A u \in Threads : pc[u] = "off" /\ pc'[u] \in {"off", "scan"}
        /\ UseCaller => pc'[Caller] = "off"
    BY <1>a, <1>4, CallerIsThread, SchedulerAssumption, Zenon DEF Start, Basic, Phases
  <2> QED BY <1>a, <2>1, OwnerOthers, Zenon DEF CallerFresh, ActivePCs
<1>5. CASE StopCheck
  <2>1. CallerFresh'
    BY <1>a, <1>5, StoppedIsStopping, Zenon DEF StopCheck, OneOwner, CallerFresh
  <2> QED BY <1>a, <1>5, <2>1, OwnerOthers, Zenon DEF StopCheck
<1>6. CASE StopFlag \/ StopJoin
  <2>1. CallerFresh'
    BY <1>a, <1>6, Zenon DEF StopFlag, StopJoin, OneOwner, CallerFresh
  <2> QED BY <1>a, <1>6, <2>1, OwnerOthers, Zenon DEF StopFlag, StopJoin
<1>7. CASE StopRoot
  <2>1. main = "root" /\ main' = "join"
    BY <1>7, Zenon DEF StopRoot
  <2>2. UseCaller => pc[Caller] = "off"
    BY <1>a, <2>1, Zenon DEF OneOwner, CallerFresh
  <2>3. ~aborted' /\ ~aborted
    BY <1>a, <1>7, <2>2, Zenon DEF StopRoot, OneOwner
  <2>4. \A u \in Threads : u = Caller => UseCaller
    BY SchedulerAssumption, Zenon DEF Threads
  <2>5. \A u \in Threads : pc'[u] = pc[u] \/ {pc[u], pc'[u]} \cap ActivePCs = {}
    BY <1>7, <2>2, <2>4, Zenon DEF StopRoot, ActivePCs
  <2>6. CallerFresh' /\ UNCHANGED <<m_tasks, m_state, submitted, task>>
    BY <1>7, <2>1, Zenon DEF StopRoot, CallerFresh
  <2>7. aborted' = aborted
    BY <1>a, <1>7, <2>2, <2>3, Zenon DEF StopRoot, Basic, TypeOK
  <2> QED BY <1>a, <2>5, <2>6, <2>7, OwnerOthers, Zenon
<1> QED
  BY <1>a, <1>1, <1>2, <1>3, <1>4, <1>5, <1>6, <1>7, OwnerDequeue, OwnerTurn,
     OwnerReschedule, OwnerTaskDone, SMTT(30) DEF Next, ThreadStep, ClientStep, Terminated

\* What OneOwner gives: nobody shares a stack, no assertion fails, and when
\* stop() has returned every submitted fiber has ended.
LEMMA OneOwnerGives ==
    Basic /\ Quiet /\ OneOwner => OneThreadPerFiber /\ NoAssertFails /\ StopDrains
<1> SUFFICES ASSUME Basic, Quiet, OneOwner
             PROVE  OneThreadPerFiber /\ NoAssertFails /\ StopDrains
  OBVIOUS
<1>1. OneThreadPerFiber /\ NoAssertFails
  BY DEF OneOwner, OnOneThread, OneThreadPerFiber, NoAssertFails, OnStackPCs, ActivePCs
<1>2. StopDrains
  <2>1. SUFFICES ASSUME main \in {"stopped", "down"}
                 PROVE  /\ \A f \in submitted : m_state[f] = "TERM"
                        /\ \A t \in Threads : pc[t] = "exit"
    BY DEF StopDrains
  <2>2. \A t \in Threads : pc[t] = "exit" /\ idle_fiber[t] = "TERM"
    BY <2>1, Zenon DEF Quiet
  <2>3. Len(m_tasks) = 0
    BY <2>2, SchedulerAssumption DEF Quiet, NoWorkAbandoned
  <2>4. \A f : ~Queued(f) /\ ~OnThread(f)
    BY <2>2, <2>3 DEF Queued, OnThread, ActivePCs
  <2> QED BY <2>2, <2>4, Zenon DEF OneOwner, Accounted
<1> QED BY <1>1, <1>2, Zenon

\* When fibers reschedule themselves for their own thread, stop() returns only
\* after every fiber ever scheduled has run to its end (scheduler.cc:194-234).
THEOREM StopDrainsAll ==
    ASSUME SelfPinned
    PROVE  Spec => []StopDrains
<1>1. Basic /\ Quiet /\ OneOwner /\ [Next]_vars => OneOwner'
  BY OneOwnerStep
<1> QED BY BasicInit, BasicStep, QuietInit, QuietStep, OneOwnerInit, <1>1,
           OneOwnerGives, PTL, Zenon DEF Spec

\* Under the same discipline no two threads are ever on one fiber's stack
\* (fiber.cc:117-151, scheduler.cc:118-176).
THEOREM OneThreadOnAFiber ==
    ASSUME SelfPinned
    PROVE  Spec => []OneThreadPerFiber
<1>1. Basic /\ Quiet /\ OneOwner /\ [Next]_vars => OneOwner'
  BY OneOwnerStep
<1> QED BY BasicInit, BasicStep, QuietInit, QuietStep, OneOwnerInit, <1>1,
           OneOwnerGives, PTL, Zenon DEF Spec

\* Under the same discipline no LAMB_ASSERT of the scheduler and of the fibers
\* it drives fails (scheduler.cc:139, fiber.cc:84, 118, 136).
THEOREM AssertionsHold ==
    ASSUME SelfPinned
    PROVE  Spec => []NoAssertFails
<1>1. Basic /\ Quiet /\ OneOwner /\ [Next]_vars => OneOwner'
  BY OneOwnerStep
<1> QED BY BasicInit, BasicStep, QuietInit, QuietStep, OneOwnerInit, <1>1,
           OneOwnerGives, PTL, Zenon DEF Spec

(***************************************************************************)
(* The refinement of TaskPool.                                              *)
(***************************************************************************)
\* The inductive invariant of SchedulerProofs, all three layers.
Inv == Basic /\ Quiet /\ OneOwner

\* No thread executes f, in the sense of TaskPool.
Parked(f) == \A t \in Threads : poolOn[t] # f

\* poolOn is NoFiber except on a thread that is busy with a fiber.
LEMMA PoolOn ==
    ASSUME Inv
    PROVE  \A t \in Threads :
              /\ pc[t] \in ActivePCs \ {"back"} => poolOn[t] = task[t] /\ poolOn[t] \in Fibers
              /\ pc[t] \notin ActivePCs \ {"back"} => poolOn[t] = NoFiber
BY Zenon DEF Inv, Basic, TaskHeld, poolOn

\* A fiber without a thread is executed by none.
LEMMA OffThreadIsParked ==
    ASSUME Inv, NEW f \in Fibers, ~OnThread(f)
    PROVE  Parked(f)
BY PoolOn, SchedulerAssumption, Zenon DEF OnThread, Parked, ActivePCs

\* A step that moves no fiber between the places of TaskPool is a stutter.
LEMMA PoolStutters ==
    ASSUME submitted' = submitted, idle_fiber' = idle_fiber, poolOn' = poolOn,
           \A f \in submitted : Parked(f) =>
              /\ Queued(f)' <=> Queued(f)
              /\ m_state'[f] = "TERM" <=> m_state[f] = "TERM"
    PROVE  UNCHANGED Pl!poolVars
<1>1. poolWaiting' = poolWaiting
  BY DEF poolWaiting, Queued, Parked
<1>2. poolDone' = poolDone
  BY DEF poolDone, Parked
<1>3. poolLeft' = poolLeft
  BY DEF poolLeft
<1> QED BY <1>1, <1>2, <1>3, Zenon DEF Pl!poolVars

\* A scheduler that was just constructed is an empty pool.
LEMMA PoolInit == Init => Pl!Init
<1> SUFFICES ASSUME Init PROVE Pl!Init
  OBVIOUS
<1>1. poolWaiting = {} /\ poolDone = {} /\ poolLeft = {}
  BY DEF Init, poolWaiting, poolDone, poolLeft
<1>2. poolOn = [t \in Threads |-> NoFiber]
  BY DEF Init, poolOn, ActivePCs
<1> QED BY <1>1, <1>2, Zenon DEF Pl!Init

\* schedule() of a new fiber is Accept: no thread has left, since the client
\* has not called stop() or a task is running.
LEMMA PoolSubmit ==
    ASSUME Inv, NEW f \in Fibers, NEW thr \in Threads \cup {AnyThread},
           Submit(f, thr), UNCHANGED <<m_state, pc, task, idle_fiber>>,
           \A t \in Threads : idle_fiber[t] # "TERM"
    PROVE  Pl!Accept(f)
<1>1. /\ f \notin submitted /\ submitted' = submitted \cup {f}
      /\ ~OnThread(f) /\ m_state[f] \in {"NONE", "READY"}
  BY DEF Submit, Inv, OneOwner, FreshState
<1>2. \A g : Queued(g)' <=> (Queued(g) \/ g = f)
  BY PushFacts, Zenon DEF Inv, Basic, Submit
<1>3. Parked(f)
  BY <1>1, OffThreadIsParked, ZenonT(60)
<1>4. poolOn' = poolOn
  BY DEF poolOn
<1>5. poolLeft = {} /\ poolLeft' = poolLeft
  BY DEF poolLeft
<1>6. f \notin poolWaiting \cup poolDone
  BY <1>1, Zenon DEF poolWaiting, poolDone
<1>7. poolWaiting' = poolWaiting \cup {f}
  BY <1>1, <1>2, <1>3, <1>4, ZenonT(60) DEF poolWaiting, Queued, Parked
<1>8. poolDone' = poolDone
  BY <1>1, <1>4, ZenonT(60) DEF poolDone
<1> QED BY <1>3, <1>4, <1>5, <1>6, <1>7, <1>8, SMTT(30) DEF Pl!Accept, Parked

\* Taking a task is Begin: the fiber waits and no thread executes it.
LEMMA PoolDequeue ==
    ASSUME Inv, Inv', NEW t \in Threads, Dequeue(t)
    PROVE  \E f \in Fibers : Pl!Begin(t, f)
<1>1. PICK i \in 1..Len(m_tasks), f \in Fibers : Taken(t, i, f)
  BY DequeueTakes, Zenon DEF Inv
<1>2. /\ pc[t] = "scan" /\ pc'[t] = "got" /\ task'[t] = f
      /\ \A u \in Threads \ {t} : pc'[u] = pc[u] /\ task'[u] = task[u]
      /\ UNCHANGED <<m_state, submitted>>
  BY <1>1, Zenon DEF Taken
<1>3. /\ ~OnThread(f) /\ Queued(f) /\ m_state[f] \in {"NONE", "READY"}
      /\ ~Queued(f)' /\ \A g : g # f => (Queued(g)' <=> Queued(g))
  BY <1>1, Zenon DEF Taken
<1>4. f \in submitted
  BY <1>3, Zenon DEF Inv, OneOwner, FreshState
<1>5. Parked(f)
  BY <1>3, OffThreadIsParked, Zenon
<1>6. poolOn[t] = NoFiber /\ poolOn' = [poolOn EXCEPT ![t] = f]
  BY <1>2, Zenon DEF poolOn, ActivePCs
<1>7. t \notin poolLeft /\ poolLeft' = poolLeft
  <2>1. m_tasks # <<>>
    BY <1>3 DEF Queued
  <2>2. idle_fiber' = idle_fiber
    BY Zenon DEF Dequeue
  <2> QED BY <2>1, <2>2, Zenon DEF Inv, Quiet, NoWorkAbandoned, poolLeft
<1>8. f \in poolWaiting /\ poolWaiting' = poolWaiting \ {f}
  <2>1. f \in poolWaiting
    BY <1>3, <1>4, <1>5, ZenonT(60) DEF poolWaiting, Queued, Parked
  <2>2. \A g \in submitted \ {f} : g # NoFiber /\ (Parked(g)' <=> Parked(g))
    BY <1>6, SchedulerAssumption, SMTT(30) DEF Parked, Inv, Basic, TypeOK
  <2>3. f \notin poolWaiting'
    BY <1>3, ZenonT(60) DEF poolWaiting, Queued
  <2>4. /\ poolWaiting = {g \in submitted : Queued(g) /\ Parked(g)}
        /\ poolWaiting' = {g \in submitted' : Queued(g)' /\ Parked(g)'}
    BY DEF poolWaiting, Queued, Parked
  <2> QED BY <1>2, <1>3, <2>1, <2>2, <2>3, <2>4
<1>9. poolDone' = poolDone
  <2>1. \A g \in submitted \ {f} : g # NoFiber /\ (Parked(g)' <=> Parked(g))
    BY <1>6, SchedulerAssumption, SMTT(30) DEF Parked, Inv, Basic, TypeOK
  <2>2. m_state[f] # "TERM"
    BY <1>3, Zenon
  <2> QED BY <1>2, <2>1, <2>2, SMTT(30) DEF poolDone, Parked
<1> QED BY <1>6, <1>7, <1>8, <1>9, Zenon, SMTT(30) DEF Pl!Begin

\* The end of a turn, once the context is stored, is Suspend for a fiber that
\* has put itself back in the queue and End for one that is TERM.
LEMMA PoolSwapBack ==
    ASSUME Inv, NEW t \in Threads, SwapBack(t)
    PROVE  Pl!Suspend(t) \/ Pl!End(t)
<1>1. PICK f \in Fibers : f = task[t]
  BY DEF Inv, Basic, TaskHeld, SwapBack, ActivePCs
<1>2. /\ pc[t] = "swap" /\ pc'[t] = "back" /\ \A u \in Threads \ {t} : pc'[u] = pc[u]
      /\ UNCHANGED <<m_tasks, m_state, submitted, task, idle_fiber>>
  BY Zenon DEF SwapBack, Inv, Basic, TypeOK
<1>3. poolOn[t] = f /\ f # NoFiber /\ poolOn' = [poolOn EXCEPT ![t] = NoFiber]
  BY <1>1, <1>2, SchedulerAssumption, Zenon DEF poolOn, ActivePCs
<1>4. Parked(f)'
  <2>1. \A u \in Threads \ {t} : poolOn[u] # f
    BY <1>1, <1>2, <1>3, PoolOn, ZenonT(60) DEF Inv, OneOwner, OnOneThread, ActivePCs
  <2>2. poolOn'[t] = NoFiber /\ \A u \in Threads \ {t} : poolOn'[u] = poolOn[u]
    BY <1>3, Zenon DEF poolOn
  <2> QED BY <1>3, <2>1, <2>2, Zenon DEF Parked
<1>5. \A g \in submitted \ {f} : Parked(g)' <=> Parked(g)
  BY <1>3, SchedulerAssumption DEF Parked, Inv, Basic, TypeOK
<1>6. f \in submitted
  BY <1>1, <1>2, Zenon DEF Inv, OneOwner, FreshState, OnThread, ActivePCs
<1>7. m_state[f] = IF Queued(f) THEN "READY" ELSE "TERM"
  BY <1>1, <1>2, Zenon DEF Inv, OneOwner, ThreadState
<1>8. poolLeft' = poolLeft
  BY <1>2, Zenon DEF poolLeft
<1>9. CASE Queued(f)
  <2>1. poolWaiting' = poolWaiting \cup {f}
    BY <1>2, <1>4, <1>5, <1>6, <1>9 DEF poolWaiting, Queued, Parked
  <2>2. poolDone' = poolDone
    BY <1>2, <1>5, <1>7, <1>9, ZenonT(60) DEF poolDone, Parked
  <2> QED BY <1>3, <1>8, <2>1, <2>2, ZenonT(60) DEF Pl!Suspend
<1>10. CASE ~Queued(f)
  <2>1. poolWaiting' = poolWaiting
    BY <1>2, <1>5, <1>10, SMTT(30) DEF poolWaiting, Queued, Parked
  <2>2. poolDone' = poolDone \cup {f}
    BY <1>2, <1>4, <1>5, <1>6, <1>7, <1>10 DEF poolDone, Parked
  <2> QED BY <1>3, <1>8, <2>1, <2>2, Zenon DEF Pl!End
<1> QED BY <1>9, <1>10, Zenon

\* Inside a turn nothing is visible: the fiber is on its thread throughout.
LEMMA PoolTurn ==
    ASSUME Inv, NEW t \in Threads,
           Resume(t) \/ Yield(t) \/ Finish(t) \/ Reschedule(t)
    PROVE  UNCHANGED Pl!poolVars
<1>1. PICK f \in Fibers : f = task[t]
  BY ZenonT(60) DEF Inv, Basic, TaskHeld, Resume, Yield, Finish, Reschedule, ActivePCs
<1>2. /\ {pc[t], pc'[t]} \subseteq ActivePCs \ {"back"}
      /\ \A u \in Threads \ {t} : pc'[u] = pc[u]
      /\ UNCHANGED <<submitted, task, idle_fiber>>
      /\ \A g \in Fibers \ {f} : m_state'[g] = m_state[g]
  BY <1>1 DEF Inv, Basic, TypeOK, Resume, Yield, Finish, Reschedule, ActivePCs
<1>3. poolOn' = poolOn /\ ~Parked(f)
  BY <1>1, <1>2, PoolOn, ZenonT(60) DEF poolOn, Parked
<1>4. \A g : g # f => (Queued(g)' <=> Queued(g))
  <2>1. CASE m_tasks' = m_tasks
    BY <2>1, Zenon DEF Queued
  <2>2. CASE Reschedule(t)
    <3>1. PICK thr \in Threads \cup {AnyThread} : Push(f, thr)
      BY <1>1, <2>2, Zenon DEF Reschedule
    <3> QED BY <3>1, PushFacts, Zenon DEF Inv, Basic
  <2> QED BY <2>1, <2>2, Zenon DEF Resume, Yield, Finish
<1>5. submitted \subseteq Fibers
  BY Zenon DEF Inv, Basic, TypeOK
<1> QED BY <1>2, <1>3, <1>4, <1>5, PoolStutters, ZenonT(60)

\* The reference of a task is dropped after its turn: the pool has already
\* moved on.
LEMMA PoolTaskDone ==
    ASSUME Inv, NEW t \in Threads, TaskDone(t)
    PROVE  UNCHANGED Pl!poolVars
<1>1. /\ pc[t] = "back" /\ pc'[t] = "scan"
      /\ \A u \in Threads \ {t} : pc'[u] = pc[u] /\ task'[u] = task[u]
      /\ UNCHANGED <<m_tasks, m_state, submitted, idle_fiber>>
  BY Zenon DEF Inv, Basic, TypeOK, TaskDone
<1>2. poolOn' = poolOn
  BY <1>1, Zenon DEF poolOn, ActivePCs
<1> QED BY <1>1, <1>2, PoolStutters, Zenon DEF Queued

\* Once a thread has decided to leave, stopping() holds for good.
LEMMA LeftIsStopping ==
    ASSUME Inv, NEW t \in Threads, idle_fiber[t] = "TERM"
    PROVE  Stopping
<1>1. m_stopping /\ m_tasks = <<>> /\ \A u \in Threads : pc[u] \notin ActivePCs
  BY DEF Inv, Quiet, NoWorkAbandoned
<1>2. {u \in Threads : pc[u] \in ActivePCs} = {}
  BY <1>1, Zenon
<1>3. m_activeThreadCount = 0
  BY <1>2, FS_EmptySet, Zenon DEF Inv, Basic, CountsExact
<1> QED BY <1>1, <1>3, ZenonT(60) DEF Stopping

\* idle() ends, and its thread leaves the pool, only when no job waits or runs.
LEMMA PoolIdleStep ==
    ASSUME Inv, NEW t \in Threads, IdleStep(t)
    PROVE  Pl!Leave(t) \/ UNCHANGED Pl!poolVars
<1>1. /\ pc[t] = "idle" /\ pc'[t] = "idleback" /\ \A u \in Threads \ {t} : pc'[u] = pc[u]
      /\ idle_fiber' = [idle_fiber EXCEPT ![t] = IF Stopping THEN "TERM" ELSE "READY"]
      /\ UNCHANGED <<m_tasks, m_state, submitted, task>>
      /\ idle_fiber \in [Threads -> {"READY", "TERM"}]
  BY Zenon DEF Inv, Basic, TypeOK, IdleStep
<1>2. poolOn' = poolOn
  BY <1>1, Zenon DEF poolOn, ActivePCs
<1>3. CASE Stopping
  <2>1. m_tasks = <<>> /\ \A u \in Threads : pc[u] \notin ActivePCs
    BY <1>3, StoppingIsQuiet, Zenon DEF Inv
  <2>2. poolWaiting = {} /\ \A u \in Threads : poolOn[u] = NoFiber
    BY <2>1 DEF poolWaiting, poolOn
  <2>3. poolWaiting' = poolWaiting /\ poolDone' = poolDone
    BY <1>1, <1>2, Zenon DEF poolWaiting, poolDone
  <2>4. poolLeft' = poolLeft \cup {t}
    BY <1>1, <1>3, Zenon DEF poolLeft
  <2> QED BY <1>2, <2>2, <2>3, <2>4 DEF Pl!Leave
<1>4. CASE ~Stopping
  <2>1. idle_fiber' = idle_fiber
    BY <1>1, <1>4, LeftIsStopping, Zenon
  <2> QED BY <1>1, <1>2, <2>1, PoolStutters, Zenon DEF Queued
<1> QED BY <1>3, <1>4, Zenon

\* A step that leaves queue, fibers and idle fibers alone is a stutter.
LEMMA PoolOthers ==
    ASSUME Inv, UNCHANGED <<m_tasks, m_state, submitted, task, idle_fiber>>,
           \A t \in Threads : pc'[t] = pc[t] \/ {pc[t], pc'[t]} \cap ActivePCs = {}
    PROVE  UNCHANGED Pl!poolVars
<1>1. poolOn' = poolOn
  BY DEF poolOn
<1> QED BY <1>1, PoolStutters, Zenon DEF Queued
-----------------------------------------------------------------------------
\* Every step of the scheduler is a step of the pool or invisible in it.
LEMMA PoolStep == Inv /\ Inv' /\ [Next]_vars => [Pl!Next]_(Pl!poolVars)
<1>a. SUFFICES ASSUME Inv, Inv', [Next]_vars PROVE Pl!Next \/ UNCHANGED Pl!poolVars
  OBVIOUS
<1>1. CASE UNCHANGED vars
  BY <1>a, <1>1, PoolOthers, Zenon DEF vars
<1>2. ASSUME NEW f \in Fibers, NEW thr \in Threads \cup {AnyThread},
             ClientSchedule(f, thr) \/ \E t \in Threads : FiberSchedule(t, f, thr)
      PROVE  Pl!Next
  <2>1. Submit(f, thr) /\ UNCHANGED <<m_state, pc, task, idle_fiber>>
    BY <1>2, Zenon DEF ClientSchedule, FiberSchedule
  <2>2. \A t \in Threads : idle_fiber[t] # "TERM"
    BY <1>a, <1>2, Zenon DEF ClientSchedule, FiberSchedule, Inv, Quiet, NoWorkAbandoned, ActivePCs
  <2>3. Pl!Accept(f)
    BY <1>a, <2>1, <2>2, PoolSubmit, ZenonT(60)
  <2> QED BY <2>3, Zenon DEF Pl!Next
<1>3. ASSUME NEW t \in Threads, Dequeue(t)
      PROVE  Pl!Next
  BY <1>a, <1>3, PoolDequeue, Zenon DEF Pl!Next
<1>4. ASSUME NEW t \in Threads, SwapBack(t)
      PROVE  Pl!Next
  BY <1>a, <1>4, PoolSwapBack, Zenon DEF Pl!Next
<1>5. ASSUME NEW t \in Threads, IdleStep(t)
      PROVE  Pl!Next \/ UNCHANGED Pl!poolVars
  BY <1>a, <1>5, PoolIdleStep, Zenon DEF Pl!Next
<1>6. ASSUME NEW t \in Threads,
             Resume(t) \/ Yield(t) \/ Finish(t) \/ Reschedule(t) \/ TaskDone(t)
      PROVE  UNCHANGED Pl!poolVars
  BY <1>a, <1>6, PoolTurn, PoolTaskDone, Zenon
<1>7. ASSUME NEW t \in Threads, ScanEmpty(t) \/ EnterIdle(t) \/ Exit(t) \/ LeaveIdle(t)
      PROVE  UNCHANGED Pl!poolVars
  <2>1. /\ UNCHANGED <<m_tasks, m_state, submitted, task, idle_fiber>>
        /\ {pc[t], pc'[t]} \cap ActivePCs = {}
        /\ \A u \in Threads \ {t} : pc'[u] = pc[u]
    BY <1>a, <1>7, ZenonT(60) DEF ScanEmpty, EnterIdle, Exit, LeaveIdle, Inv, Basic, TypeOK, ActivePCs
  <2> QED BY <1>a, <2>1, PoolOthers, Zenon
<1>8. CASE Start
  <2>1. /\ UNCHANGED <<m_tasks, m_state, submitted, task, idle_fiber>>
        /\ \A u \in Threads : pc[u] = "off" /\ pc'[u] \in {"off", "scan"}
    BY <1>a, <1>8, Zenon DEF Start, Inv, Basic, Phases
  <2> QED BY <1>a, <2>1, PoolOthers, Zenon DEF ActivePCs
<1>9. CASE StopCheck \/ StopFlag \/ StopJoin
  BY <1>a, <1>9, PoolOthers, ZenonT(60) DEF StopCheck, StopFlag, StopJoin
<1>10. CASE StopRoot
  <2>1. main = "root" /\ UNCHANGED <<m_tasks, m_state, submitted, task, idle_fiber>>
    BY <1>10, Zenon DEF StopRoot
  <2>2. UseCaller => pc[Caller] = "off"
    BY <1>a, <2>1, Zenon DEF Inv, OneOwner, CallerFresh
  <2>3. \A u \in Threads : u = Caller => UseCaller
    BY SchedulerAssumption, Zenon DEF Threads
  <2>4. \A u \in Threads : pc'[u] = pc[u] \/ {pc[u], pc'[u]} \cap ActivePCs = {}
    BY <1>10, <2>2, <2>3, Zenon DEF StopRoot, ActivePCs
  <2> QED BY <1>a, <2>1, <2>4, PoolOthers
<1> QED
  BY <1>a, <1>1, <1>2, <1>3, <1>4, <1>5, <1>6, <1>7, <1>8, <1>9, <1>10, SMTT(30)
  DEF Next, ThreadStep, ClientStep, Terminated

\* For any number of threads, fibers and yields the scheduler implements the
\* abstract task pool, when fibers that reschedule themselves name their thread
\* (scheduler.cc:68-234, fiber.cc:117-165): no job is lost, run twice at once or
\* run again, and no thread leaves while there is work.
THEOREM SchedulerIsTaskPool ==
    ASSUME SelfPinned
    PROVE  Spec => ImplementsTaskPool
<1>1. Init => Inv
  BY BasicInit, QuietInit, OneOwnerInit, Zenon DEF Inv
<1>2. Inv /\ [Next]_vars => Inv'
  BY BasicStep, QuietStep, OneOwnerStep, Zenon DEF Inv
<1>3. Inv /\ Inv' /\ [Next]_vars => [Pl!Next]_(Pl!poolVars)
  BY PoolStep, Zenon
<1> QED BY PoolInit, <1>1, <1>2, <1>3, PTL DEF Spec, ImplementsTaskPool, Pl!Spec
=============================================================================
