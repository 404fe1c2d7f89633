---------------------------- MODULE IOEventsProofs ----------------------------
(***************************************************************************)
(* Proofs about IOManager: about IOEvents, for any number of threads,       *)
(* descriptors and waiters and every use of it, and about the wake-ups of   *)
(* IOLoop, for any number of threads, tasks, timers and events.             *)
(***************************************************************************)
EXTENDS IOEvents, FiniteSetTheorems, TLAPS

Result == [fd : Fds, evs : SUBSET Events, hup : BOOLEAN]

\* The types of the state.
IOTypes ==
    /\ pool \in Pools
    /\ events \in [Fds -> SUBSET Events]
    /\ ctx \in [Fds -> [Events -> Waiters \cup {NoWaiter}]]
    /\ state \in [Waiters -> {"run", "added", "parked"}]
    /\ scheduled \in [Waiters -> Nat]
    /\ interest \in [Fds -> SUBSET Events]
    /\ ready \in [Fds -> SUBSET Events]
    /\ hup \in [Fds -> BOOLEAN]
    /\ batch \in [Threads -> SUBSET Result]

\* The registrations: FdContext::events, the contexts and the interest agree.
Agree ==
    \A fd \in Fds :
        /\ interest[fd] = events[fd]
        /\ \A e \in Events : ctx[fd][e] # NoWaiter <=> e \in events[fd]

\* The registered events, and their number.
Pairs == {p \in Fds \X Events : p[2] \in events[p[1]]}
Counted == m_pendingEventCount = Cardinality(Pairs)

\* Where a waiter is: it runs, it is queued once, or it is registered once.
Nowhere(w) == \A fd \in Fds, e \in Events : ctx[fd][e] # w
AtOne(w) ==
    \E fd \in Fds, e \in Events :
        /\ ctx[fd][e] = w
        /\ \A g \in Fds, x \in Events : ctx[g][x] = w => g = fd /\ x = e
Placed(w) ==
    \/ state[w] = "run" /\ scheduled[w] = 0 /\ Nowhere(w)
    \/ state[w] # "run" /\ scheduled[w] = 1 /\ Nowhere(w)
    \/ state[w] # "run" /\ scheduled[w] = 0 /\ AtOne(w)

\* The inductive invariant.
IInv == IOTypes /\ Agree /\ Counted /\ \A w \in Waiters : Placed(w)
-----------------------------------------------------------------------------
\* Nothing is registered in an IOManager that was just constructed.
LEMMA IInvInit == Init => IInv
<1> SUFFICES ASSUME Init PROVE IInv
  OBVIOUS
<1>1. IOTypes
  BY DEF Init, IOTypes, Result
<1>2. Agree
  BY DEF Init, Agree
<1>3. Counted
  <2>1. Pairs = {}
    BY DEF Init, Pairs
  <2> QED BY <2>1, FS_EmptySet DEF Init, Counted
<1>4. \A w \in Waiters : Placed(w)
  BY IOAssumption DEF Init, Placed, Nowhere
<1> QED BY <1>1, <1>2, <1>3, <1>4 DEF IInv

\* There are finitely many registered events.
LEMMA PairsFinite == IsFiniteSet(Pairs)
<1>1. IsFiniteSet(Events)
  <2>1. IsFiniteSet({"READ"})
    BY FS_Singleton, Zenon
  <2>2. Events = {"READ"} \cup {"WRITE"}
    BY DEF Events
  <2> QED BY <2>1, <2>2, FS_AddElement
<1>2. IsFiniteSet(Fds \X Events)
  BY <1>1, IOAssumption, FS_Product
<1> QED BY <1>2, FS_Subset DEF Pairs

\* How the number of registered events falls when some of one descriptor go.
LEMMA PairsRemoved ==
    ASSUME IOTypes, NEW fd \in Fds, NEW D \in SUBSET Events,
           events' = [events EXCEPT ![fd] = @ \ D]
    PROVE  Cardinality(Pairs') = Cardinality(Pairs) - Cardinality(D \cap events[fd])
<1> DEFINE r == <<fd, "READ">>
           w == <<fd, "WRITE">>
           K == D \cap events[fd]
<1>1. IsFiniteSet(Pairs) /\ Cardinality(Pairs) \in Nat
  BY PairsFinite, FS_CardinalityType
<1>2. Pairs' = {p \in Pairs : ~(p[1] = fd /\ p[2] \in K)}
  BY DEF Pairs, IOTypes
<1>3. K \subseteq {"READ", "WRITE"}
  BY Zenon DEF Events
<1>4. /\ "READ" \in K <=> "READ" \in K /\ r \in Pairs
      /\ "WRITE" \in K <=> "WRITE" \in K /\ w \in Pairs
  BY DEF Pairs, Events
<1>5. \A p \in Pairs : p = <<p[1], p[2]>> /\ p[2] \in {"READ", "WRITE"}
  BY DEF Pairs, Events
<1> HIDE DEF K
<1>6. CASE K = {}
  <2>1. Pairs' = Pairs
    BY <1>2, <1>6
  <2> QED BY <1>1, <1>6, <2>1, FS_EmptySet DEF K
<1>7. CASE K = {"READ"}
  <2>1. Pairs' = Pairs \ {r} /\ r \in Pairs
    BY <1>2, <1>4, <1>5, <1>7, Zenon
  <2>2. Cardinality(Pairs \ {r}) = Cardinality(Pairs) - 1
    BY <1>1, <2>1, FS_RemoveElement, Zenon
  <2>3. Cardinality(K) = 1
    BY <1>7, FS_Singleton
  <2> QED BY <2>1, <2>2, <2>3, Zenon DEF K
<1>8. CASE K = {"WRITE"}
  <2>1. Pairs' = Pairs \ {w} /\ w \in Pairs
    BY <1>2, <1>4, <1>5, <1>8, Zenon
  <2>2. Cardinality(Pairs \ {w}) = Cardinality(Pairs) - 1
    BY <1>1, <2>1, FS_RemoveElement, Zenon
  <2>3. Cardinality(K) = 1
    BY <1>8, FS_Singleton, Zenon
  <2> QED BY <2>1, <2>2, <2>3, Zenon DEF K
<1>9. CASE K = {"READ", "WRITE"}
  <2>1. Pairs' = (Pairs \ {r}) \ {w} /\ r \in Pairs /\ w \in Pairs \ {r}
    BY <1>2, <1>4, <1>5, <1>9
  <2>2. IsFiniteSet(Pairs \ {r}) /\ Cardinality(Pairs \ {r}) = Cardinality(Pairs) - 1
    BY <1>1, <2>1, FS_RemoveElement, Zenon
  <2>3. Cardinality(Pairs') = Cardinality(Pairs \ {r}) - 1
    BY <2>1, <2>2, FS_RemoveElement, Zenon
  <2>4. Cardinality(K) = 2
    <3>1. K = {"READ"} \cup {"WRITE"} /\ "WRITE" \notin {"READ"}
      BY <1>9
    <3>2. IsFiniteSet({"READ"}) /\ Cardinality({"READ"}) = 1
      BY FS_Singleton
    <3> QED BY <3>1, <3>2, FS_AddElement
  <2> QED BY <1>1, <2>2, <2>3, <2>4 DEF K
<1> QED BY <1>3, <1>6, <1>7, <1>8, <1>9, Zenon

\* ... and how it rises when one is added.
LEMMA PairsAdded ==
    ASSUME IOTypes, NEW fd \in Fds, NEW e \in Events, e \notin events[fd],
           events' = [events EXCEPT ![fd] = @ \cup {e}]
    PROVE  Cardinality(Pairs') = Cardinality(Pairs) + 1
<1>1. IsFiniteSet(Pairs)
  BY PairsFinite
<1>2. Pairs' = Pairs \cup {<<fd, e>>}
  BY DEF Pairs, IOTypes
<1>3. <<fd, e>> \notin Pairs
  BY DEF Pairs
<1> QED BY <1>1, <1>2, <1>3, FS_AddElement, Zenon

\* A step that leaves the registrations and the waiters alone keeps them right.
LEMMA Untouched ==
    ASSUME IInv, IOTypes',
           UNCHANGED <<events, ctx, m_pendingEventCount, state, scheduled, interest>>
    PROVE  IInv'
<1>1. Agree'
  BY DEF IInv, Agree
<1>2. Counted'
  BY DEF IInv, Counted, Pairs
<1>3. \A w \in Waiters : Placed(w)'
  BY DEF IInv, Placed, Nowhere, AtOne
<1> QED BY <1>1, <1>2, <1>3 DEF IInv

\* triggerEvent() with the epoll_ctl() of its caller: each waiter leaves its one
\* registration for one entry of the queue.
LEMMA Triggered ==
    ASSUME IInv, NEW fd \in Fds, NEW evs \in SUBSET Events,
           EpollCtl(fd, events[fd] \ evs), Trigger(fd, evs),
           UNCHANGED <<pool, state>>, batch' \in [Threads -> SUBSET Result]
    PROVE  IInv'
<1> DEFINE woken == {ctx[fd][e] : e \in evs \cap events[fd]}
<1> USE DEF IInv
<1>1. IOTypes'
  <2>1. ctx' \in [Fds -> [Events -> Waiters \cup {NoWaiter}]]
    BY Zenon DEF IOTypes, Trigger
  <2>2. scheduled' \in [Waiters -> Nat] /\ events' \in [Fds -> SUBSET Events]
    BY DEF IOTypes, Trigger
  <2>3. /\ interest' \in [Fds -> SUBSET Events] /\ ready' \in [Fds -> SUBSET Events]
        /\ hup' \in [Fds -> BOOLEAN]
    BY DEF IOTypes, EpollCtl
  <2> QED BY <2>1, <2>2, <2>3, Zenon DEF IOTypes
<1>2. \A g \in Fds, x \in Events :
         ctx'[g][x] = IF g = fd /\ x \in evs THEN NoWaiter ELSE ctx[g][x]
  BY Zenon DEF Trigger, IOTypes
<1>3. \A g \in Fds : /\ events'[g] = IF g = fd THEN events[g] \ evs ELSE events[g]
                     /\ interest'[g] = IF g = fd THEN events[fd] \ evs ELSE interest[g]
  BY Zenon DEF Trigger, EpollCtl, IOTypes
<1>4. Agree'
  <2>1. ASSUME NEW g \in Fds PROVE interest'[g] = events'[g]
    BY <1>3, Zenon DEF Agree
  <2>2. ASSUME NEW g \in Fds, NEW x \in Events
        PROVE  ctx'[g][x] # NoWaiter <=> x \in events'[g]
    <3>1. ctx[g][x] # NoWaiter <=> x \in events[g]
      BY DEF Agree
    <3> QED BY <1>2, <1>3, <3>1, Zenon
  <2> QED BY <2>1, <2>2, Zenon DEF Agree
<1>5. Counted'
  <2>1. Cardinality(Pairs') = Cardinality(Pairs) - Cardinality(evs \cap events[fd])
    BY PairsRemoved, Zenon DEF Trigger
  <2> QED BY <2>1, Zenon DEF Counted, Trigger
<1>6. ASSUME NEW w \in Waiters PROVE Placed(w)'
  <2>1. scheduled'[w] = IF w \in woken THEN scheduled[w] + 1 ELSE scheduled[w]
    BY Zenon DEF Trigger
  <2>2. w # NoWaiter
    BY IOAssumption
  <2>3. CASE w \in woken
    <3>1. PICK e \in evs \cap events[fd] : ctx[fd][e] = w
      BY <2>3
    <3>2. state[w] # "run" /\ scheduled[w] = 0 /\ AtOne(w)
      BY <3>1, Zenon DEF Placed, Nowhere
    <3>3. \A g \in Fds, x \in Events : ctx[g][x] = w => g = fd /\ x = e
      BY <3>1, <3>2, Zenon DEF AtOne
    <3>4. Nowhere(w)'
      BY <1>2, <2>2, <3>1, <3>3 DEF Nowhere
    <3>5. scheduled'[w] = 1
      BY <2>1, <2>3, <3>2
    <3> QED BY <3>2, <3>4, <3>5, Zenon DEF Placed
  <2>4. CASE w \notin woken
    <3>1. \A g \in Fds, x \in Events : ctx'[g][x] = w <=> ctx[g][x] = w
      BY <1>2, <2>2, <2>4 DEF Agree
    <3>2. scheduled'[w] = scheduled[w] /\ state'[w] = state[w]
      BY <2>1, <2>4, Zenon
    <3>3. (Nowhere(w) => Nowhere(w)') /\ (AtOne(w) => AtOne(w)')
      BY <3>1 DEF Nowhere, AtOne
    <3> QED BY <3>2, <3>3, Zenon DEF Placed
  <2> QED BY <2>3, <2>4, Zenon
<1> QED BY <1>1, <1>4, <1>5, <1>6, Zenon

\* addEvent(): a running waiter, registered nowhere, gets its one registration.
LEMMA Added ==
    ASSUME IInv, NEW w \in Waiters, NEW fd \in Fds, NEW e \in Events, AddEvent(w, fd, e)
    PROVE  IInv'
<1> USE DEF IInv
<1>1. IOTypes'
  <2>1. ctx' \in [Fds -> [Events -> Waiters \cup {NoWaiter}]]
    BY Zenon DEF IOTypes, AddEvent
  <2>2. events[fd] \cup {e} \in SUBSET Events
    BY DEF IOTypes
  <2>3. state' \in [Waiters -> {"run", "added", "parked"}]
    BY Zenon DEF IOTypes, AddEvent
  <2> QED BY <2>1, <2>2, <2>3, Zenon DEF IOTypes, AddEvent, EpollCtl
<1>2. \A g \in Fds, x \in Events :
         ctx'[g][x] = IF g = fd /\ x = e THEN w ELSE ctx[g][x]
  BY Zenon DEF AddEvent, IOTypes
<1>3. \A g \in Fds : /\ events'[g] = IF g = fd THEN events[g] \cup {e} ELSE events[g]
                     /\ interest'[g] = IF g = fd THEN events[g] \cup {e} ELSE interest[g]
  BY Zenon DEF AddEvent, EpollCtl, IOTypes
<1>4. w # NoWaiter /\ e \notin events[fd]
  BY IOAssumption, Zenon DEF AddEvent
<1>5. Agree'
  <2>1. ASSUME NEW g \in Fds PROVE interest'[g] = events'[g]
    BY <1>3, Zenon DEF Agree
  <2>2. ASSUME NEW g \in Fds, NEW x \in Events
        PROVE  ctx'[g][x] # NoWaiter <=> x \in events'[g]
    <3>1. ctx[g][x] # NoWaiter <=> x \in events[g]
      BY DEF Agree
    <3> QED BY <1>2, <1>3, <1>4, <3>1, ZenonT(60)
  <2> QED BY <2>1, <2>2, ZenonT(60) DEF Agree
<1>6. Counted'
  <2>1. Cardinality(Pairs') = Cardinality(Pairs) + 1
    BY <1>4, PairsAdded, Zenon DEF AddEvent
  <2> QED BY <2>1, Zenon DEF Counted, AddEvent
<1>7. state[w] = "run" /\ scheduled[w] = 0 /\ Nowhere(w)
  BY Zenon DEF Placed, AddEvent
<1>8. scheduled' = scheduled /\ state'[w] \in {"added", "parked"}
      /\ \A v \in Waiters : v # w => state'[v] = state[v]
  BY Zenon DEF AddEvent, IOTypes
<1>9. ctx[fd][e] = NoWaiter
  BY <1>4 DEF Agree
<1>10. ASSUME NEW v \in Waiters PROVE Placed(v)'
  <2>1. CASE v = w
    <3>1. AtOne(w)'
      BY <1>2, <1>7 DEF AtOne, Nowhere
    <3> QED BY <1>7, <1>8, <2>1, <3>1, Zenon DEF Placed
  <2>2. CASE v # w
    <3>1. v # NoWaiter
      BY IOAssumption
    <3>2. \A g \in Fds, x \in Events : ctx'[g][x] = v <=> ctx[g][x] = v
      BY <1>2, <1>9, <2>2, <3>1, Zenon
    <3>3. (Nowhere(v) => Nowhere(v)') /\ (AtOne(v) => AtOne(v)')
      BY <3>2 DEF Nowhere, AtOne
    <3> QED BY <1>8, <2>2, <3>3, Zenon DEF Placed
  <2> QED BY <2>1, <2>2
<1> QED BY <1>1, <1>5, <1>6, <1>10, Zenon

\* delEvent(): the waiter of the event is free again.
LEMMA Deleted ==
    ASSUME IInv, NEW fd \in Fds, NEW e \in Events, DelEvent(fd, e)
    PROVE  IInv'
<1> USE DEF IInv
<1> DEFINE w == ctx[fd][e]
<1>1. e \in events[fd] /\ w \in Waiters /\ w # NoWaiter
  BY IOAssumption DEF DelEvent, Agree, IOTypes
<1>2. IOTypes'
  <2>1. ctx' \in [Fds -> [Events -> Waiters \cup {NoWaiter}]]
    BY Zenon DEF IOTypes, DelEvent
  <2>2. events[fd] \ {e} \in SUBSET Events
    BY DEF IOTypes
  <2>3. state' \in [Waiters -> {"run", "added", "parked"}]
    BY <1>1, Zenon DEF IOTypes, DelEvent
  <2> QED BY <2>1, <2>2, <2>3, Zenon DEF IOTypes, DelEvent, EpollCtl
<1>3. \A g \in Fds, x \in Events :
         ctx'[g][x] = IF g = fd /\ x = e THEN NoWaiter ELSE ctx[g][x]
  BY Zenon DEF DelEvent, IOTypes
<1>4. \A g \in Fds : /\ events'[g] = IF g = fd THEN events[g] \ {e} ELSE events[g]
                     /\ interest'[g] = IF g = fd THEN events[g] \ {e} ELSE interest[g]
  BY Zenon DEF DelEvent, EpollCtl, IOTypes
<1>5. Agree'
  <2>1. ASSUME NEW g \in Fds PROVE interest'[g] = events'[g]
    BY <1>4, Zenon DEF Agree
  <2>2. ASSUME NEW g \in Fds, NEW x \in Events
        PROVE  ctx'[g][x] # NoWaiter <=> x \in events'[g]
    <3>1. ctx[g][x] # NoWaiter <=> x \in events[g]
      BY DEF Agree
    <3> QED BY <1>3, <1>4, <3>1, Zenon
  <2> QED BY <2>1, <2>2, Zenon DEF Agree
<1>6. Counted'
  <2>1. Cardinality(Pairs') = Cardinality(Pairs) - Cardinality({e} \cap events[fd])
    BY PairsRemoved, Zenon DEF DelEvent
  <2>2. {e} \cap events[fd] = {e} /\ Cardinality({e}) = 1
    BY <1>1, FS_Singleton, Zenon
  <2> QED BY <2>1, <2>2, Zenon DEF Counted, DelEvent
<1>7. scheduled[w] = 0 /\ AtOne(w)
  BY <1>1, Zenon DEF Placed, Nowhere
<1>8. scheduled' = scheduled /\ state'[w] = "run"
      /\ \A v \in Waiters : v # w => state'[v] = state[v]
  BY <1>1, Zenon DEF DelEvent, IOTypes
<1> HIDE DEF w
<1>9. ASSUME NEW v \in Waiters PROVE Placed(v)'
  <2>1. CASE v = w
    <3>1. \A g \in Fds, x \in Events : ctx[g][x] = w => g = fd /\ x = e
      BY <1>7, Zenon DEF AtOne, w
    <3>2. Nowhere(v)'
      BY <1>1, <1>3, <2>1, <3>1 DEF Nowhere
    <3> QED BY <1>7, <1>8, <2>1, <3>2, Zenon DEF Placed
  <2>2. CASE v # w
    <3>1. v # NoWaiter
      BY IOAssumption
    <3>2. \A g \in Fds, x \in Events : ctx'[g][x] = v <=> ctx[g][x] = v
      BY <1>3, <2>2, <3>1, Zenon DEF w
    <3>3. (Nowhere(v) => Nowhere(v)') /\ (AtOne(v) => AtOne(v)')
      BY <3>2 DEF Nowhere, AtOne
    <3> QED BY <1>8, <2>2, <3>3, Zenon DEF Placed
  <2> QED BY <2>1, <2>2
<1> QED BY <1>2, <1>5, <1>6, <1>9, Zenon

\* The scheduler runs a queued waiter, a fiber reaches its yield.
LEMMA Resumed ==
    ASSUME IInv, NEW w \in Waiters, Park(w) \/ RunTask(w)
    PROVE  IInv'
<1> USE DEF IInv
<1>1. UNCHANGED <<pool, events, ctx, m_pendingEventCount, kernel, batch>>
  BY DEF Park, RunTask
<1>2. IOTypes'
  <2>1. Placed(w) /\ scheduled[w] \in Nat
    BY DEF IOTypes
  <2>2. scheduled' \in [Waiters -> Nat] /\ state' \in [Waiters -> {"run", "added", "parked"}]
    <3>1. CASE Park(w)
      BY <3>1, Zenon DEF IOTypes, Park
    <3>2. CASE RunTask(w)
      <4>1. scheduled[w] - 1 \in Nat
        BY <2>1, <3>2 DEF RunTask
      <4> QED BY <3>2, <4>1, Zenon DEF IOTypes, RunTask
    <3> QED BY <3>1, <3>2
  <2> QED BY <1>1, <2>2, Zenon DEF IOTypes, kernel
<1>3. Agree' /\ Counted'
  BY <1>1, Zenon DEF Agree, Counted, Pairs, kernel
<1>4. ASSUME NEW v \in Waiters PROVE Placed(v)'
  <2>1. (Nowhere(v)' <=> Nowhere(v)) /\ (AtOne(v)' <=> AtOne(v))
    BY <1>1 DEF Nowhere, AtOne
  <2>2. Placed(v) /\ scheduled[v] \in Nat
    BY DEF IOTypes
  <2>3. CASE v # w
    <3>1. state'[v] = state[v] /\ scheduled'[v] = scheduled[v]
      BY <2>3, Zenon DEF Park, RunTask, IOTypes
    <3> QED BY <2>1, <2>2, <3>1, Zenon DEF Placed
  <2>4. CASE v = w /\ Park(w)
    <3>1. state[w] = "added" /\ state'[w] = "parked" /\ scheduled' = scheduled
      BY <2>4, Zenon DEF Park, IOTypes
    <3> QED BY <2>1, <2>2, <2>4, <3>1, Zenon DEF Placed
  <2>5. CASE v = w /\ RunTask(w)
    <3>1. scheduled[w] > 0 /\ state'[w] = "run" /\ scheduled'[w] = scheduled[w] - 1
      BY <2>5, Zenon DEF RunTask, IOTypes
    <3>2. scheduled[w] = 1 /\ Nowhere(w)
      BY <2>2, <2>5, <3>1 DEF Placed
    <3> QED BY <2>1, <2>5, <3>1, <3>2 DEF Placed
  <2> QED BY <2>3, <2>4, <2>5
<1> QED BY <1>2, <1>3, <1>4

\* epoll_wait() only fills the thread's results.
LEMMA Waited ==
    ASSUME IInv, NEW t \in Threads, EpollWait(t)
    PROVE  IInv'
<1> DEFINE Got == {r \in {[fd |-> fd, evs |-> ready[fd] \cap interest[fd], hup |-> hup[fd]] :
                             fd \in {x \in Fds : rdlist[x]}} : r.evs # {} \/ r.hup}
<1>1. IOTypes
  BY DEF IInv
<1>2. Got \in SUBSET Result
  BY <1>1 DEF IOTypes, Result
<1>3. batch' = [batch EXCEPT ![t] = Got]
      /\ UNCHANGED <<pool, events, ctx, m_pendingEventCount, state, scheduled, interest,
                     ready, hup>>
  BY Zenon DEF EpollWait
<1> HIDE DEF Got
<1>4. IOTypes'
  BY <1>1, <1>2, <1>3, Zenon DEF IOTypes
<1> QED BY <1>3, <1>4, Untouched, Zenon

\* idle() handles one result.
LEMMA Handled ==
    ASSUME IInv, NEW t \in Threads, NEW r \in batch[t], Handle(t, r)
    PROVE  IInv'
<1>1. IOTypes
  BY DEF IInv
<1>2. r \in Result
  BY <1>1 DEF IOTypes
<1>3. r.fd \in Fds /\ RealEvents(r) \in SUBSET Events
  BY <1>1, <1>2, Zenon DEF Result, RealEvents, IOTypes
<1>4. batch' \in [Threads -> SUBSET Result] /\ UNCHANGED <<pool, state>>
  BY <1>1, Zenon DEF Handle, IOTypes
<1>5. CASE UNCHANGED <<events, ctx, m_pendingEventCount, scheduled, kernel, aborted>>
  <2>1. IOTypes'
    BY <1>1, <1>4, <1>5, Zenon DEF IOTypes, kernel
  <2> QED BY <1>4, <1>5, <2>1, Untouched, Zenon DEF kernel
<1>6. CASE EpollCtl(r.fd, events[r.fd] \ RealEvents(r)) /\ Trigger(r.fd, RealEvents(r))
  BY <1>3, <1>4, <1>6, Triggered, Zenon
<1> QED BY <1>5, <1>6, Zenon DEF Handle

\* cancelEvent() and cancelAll() trigger what they cancel.
LEMMA Cancelled ==
    ASSUME IInv, NEW fd \in Fds,
           CancelAll(fd) \/ \E e \in Events : CancelEvent(fd, e)
    PROVE  IInv'
<1>1. IOTypes
  BY DEF IInv
<1>2. CASE CancelAll(fd)
  <2>1. events[fd] \in SUBSET Events /\ events[fd] \ events[fd] = {}
    BY <1>1 DEF IOTypes
  <2>2. /\ EpollCtl(fd, events[fd] \ events[fd]) /\ Trigger(fd, events[fd])
        /\ UNCHANGED <<pool, state>> /\ batch' \in [Threads -> SUBSET Result]
    BY <1>1, <1>2, <2>1, Zenon DEF CancelAll, IOTypes
  <2> QED BY <2>1, <2>2, Triggered, Zenon
<1>3. CASE \E e \in Events : CancelEvent(fd, e)
  <2>1. PICK e \in Events : CancelEvent(fd, e)
    BY <1>3
  <2>2. /\ EpollCtl(fd, events[fd] \ {e}) /\ Trigger(fd, {e})
        /\ UNCHANGED <<pool, state>> /\ batch' \in [Threads -> SUBSET Result]
    BY <1>1, <2>1, Zenon DEF CancelEvent, IOTypes
  <2> QED BY <2>2, Triggered, Zenon
<1> QED BY <1>2, <1>3

\* What the descriptors do changes no registration.
LEMMA KernelMoved == ASSUME IInv, KernelStep PROVE IInv'
<1>1. IOTypes /\ IOTypes'
  <2>1. IOTypes
    BY DEF IInv
  <2>2. PICK fd \in Fds : HangUp(fd) \/ \E e \in Dirs[fd] : BecomeReady(fd, e) \/ Drain(fd, e)
    BY DEF KernelStep
  <2>3. Dirs[fd] \subseteq Events
    BY <2>1, IOAssumption, ZenonT(60) DEF IOTypes, Dirs
  <2>4. CASE HangUp(fd)
    BY <2>1, <2>4, Zenon DEF HangUp, IOTypes
  <2>5. ASSUME NEW e \in Dirs[fd], BecomeReady(fd, e) \/ Drain(fd, e) PROVE IOTypes'
    <3>1. ready[fd] \cup {e} \in SUBSET Events /\ ready[fd] \ {e} \in SUBSET Events
      BY <2>1, <2>3, Zenon DEF IOTypes
    <3> QED BY <2>1, <2>5, <3>1 DEF BecomeReady, Drain, IOTypes
  <2> QED BY <2>1, <2>2, <2>4, <2>5, Zenon
<1>2. UNCHANGED <<events, ctx, m_pendingEventCount, state, scheduled, interest>>
  BY Zenon DEF KernelStep, HangUp, BecomeReady, Drain
<1> QED BY <1>1, <1>2, Untouched

\* The invariant is inductive.
LEMMA IInvStep == IInv /\ [Next]_vars => IInv'
<1> SUFFICES ASSUME IInv, [Next]_vars PROVE IInv'
  OBVIOUS
<1>1. pool.waiters \subseteq Waiters
  BY IOAssumption DEF IInv, IOTypes
<1>2. CASE KernelStep
  BY <1>2, KernelMoved
<1>3. ASSUME NEW t \in Threads, LoopStep(t) PROVE IInv'
  BY <1>3, Waited, Handled, Zenon DEF LoopStep
<1>4. ASSUME NEW w \in pool.waiters, Park(w) \/ RunTask(w) PROVE IInv'
  BY <1>1, <1>4, Resumed
<1>5. ASSUME NEW w \in pool.waiters, NEW fd \in Fds, NEW e \in Events, AddEvent(w, fd, e)
      PROVE  IInv'
  BY <1>1, <1>5, Added, Zenon
<1>6. ASSUME NEW fd \in Fds, CancelAll(fd) \/ \E e \in Events : CancelEvent(fd, e)
      PROVE  IInv'
  BY <1>6, Cancelled
<1>7. ASSUME NEW fd \in Fds, NEW e \in Events, DelEvent(fd, e) PROVE IInv'
  BY <1>7, Deleted
<1>8. CASE UNCHANGED vars
  <2>1. IOTypes'
    BY <1>8, Zenon DEF IInv, IOTypes, vars
  <2> QED BY <1>8, <2>1, Untouched, Zenon DEF vars
<1> QED BY <1>2, <1>3, <1>4, <1>5, <1>6, <1>7, <1>8, Zenon DEF Next

\* The inductive invariant holds in every reachable state.
LEMMA IInvAlways == Spec => []IInv
BY IInvInit, IInvStep, PTL DEF Spec

\* Events, contexts, interest and count agree in every use of an IOManager, for
\* any number of threads (iomanager.cc:149-320, 437-457).
THEOREM RegistrationsAlwaysAgree == Spec => []RegistrationsAgree
<1>1. IInv => RegistrationsAgree
  BY DEF IInv, Agree, Counted, Pairs, RegistrationsAgree
<1> QED BY <1>1, IInvAlways, PTL

\* No waiter is lost and none is woken twice, however addEvent(), the
\* cancellations and the handling of epoll's results interleave.
THEOREM EveryWaiterWokenOnce == Spec => []WokenOnce
<1>1. ASSUME IInv PROVE WokenOnce
  <2>1. SUFFICES ASSUME NEW w \in Waiters
                 PROVE  scheduled[w] + Cardinality({p \in Fds \X Events : ctx[p[1]][p[2]] = w}) =
                            IF state[w] = "run" THEN 0 ELSE 1
    BY DEF WokenOnce
  <2> DEFINE R == {p \in Fds \X Events : ctx[p[1]][p[2]] = w}
  <2>2. Placed(w)
    BY <1>1 DEF IInv
  <2>3. Nowhere(w) => Cardinality(R) = 0
    <3>1. Nowhere(w) => R = {}
      BY DEF Nowhere
    <3> QED BY <3>1, FS_EmptySet, Zenon
  <2>4. AtOne(w) => Cardinality(R) = 1
    <3>1. SUFFICES ASSUME AtOne(w) PROVE Cardinality(R) = 1
      OBVIOUS
    <3>2. PICK fd \in Fds, e \in Events :
             /\ ctx[fd][e] = w
             /\ \A g \in Fds, x \in Events : ctx[g][x] = w => g = fd /\ x = e
      BY <3>1 DEF AtOne
    <3>3. R = {<<fd, e>>}
      BY <3>2
    <3> QED BY <3>3, FS_Singleton, Zenon
  <2> HIDE DEF R
  <2>5. scheduled[w] + Cardinality(R) = IF state[w] = "run" THEN 0 ELSE 1
    BY <2>2, <2>3, <2>4 DEF Placed
  <2> QED BY <2>5, Zenon DEF R
<1> QED BY <1>1, IInvAlways, PTL
-----------------------------------------------------------------------------
\* The uses in which the results of epoll_wait() cannot mislead the handler: one
\* thread, or callbacks that wait for one direction of each descriptor.
Unambiguous ==
    \A p \in Pools :
        \/ Cardinality(p.threads) =< 1
        \/ p.fibers = {} /\ \A fd \in Fds : \A x, y \in p.dirs[fd] : x = y

\* What the assertions rest on.  A single thread's results are still registered
\* when they are handled.
Fresh ==
    \A t \in Threads : \A r \in batch[t] :
        /\ r.evs \subseteq events[r.fd]
        /\ \A s \in batch[t] : s.fd = r.fd => s = r
Asserted ==
    /\ aborted = "no"
    /\ \A fd \in Fds : events[fd] \subseteq Dirs[fd]
    /\ \A t \in Threads : \A r \in batch[t] : r.evs \subseteq Dirs[r.fd] /\ t \in pool.threads
    /\ Fibers = {} => \A w \in Waiters : state[w] # "added"
    /\ ~Concurrent => Fresh

\* A pool that is not concurrent has one thread.
LEMMA OneThread ==
    ASSUME IInv, ~Concurrent
    PROVE  \A t, u \in pool.threads : t = u
<1>1. pool.threads \subseteq Threads /\ IsFiniteSet(Threads)
  BY IOAssumption, Zenon DEF IInv, IOTypes
<1>2. IsFiniteSet(pool.threads)
  BY <1>1, FS_Subset
<1>3. Cardinality(pool.threads) \in Nat
  BY <1>2, FS_CardinalityType
<1>4. Cardinality(pool.threads) \in {0, 1}
  BY <1>3 DEF Concurrent
<1>5. CASE Cardinality(pool.threads) = 0
  <2>1. pool.threads = {}
    BY <1>2, <1>5, FS_EmptySet, Zenon
  <2> QED BY <2>1
<1>6. CASE Cardinality(pool.threads) = 1
  <2>1. \E x : pool.threads = {x}
    BY <1>2, <1>6, FS_Singleton, Zenon
  <2> QED BY <2>1
<1> QED BY <1>4, <1>5, <1>6, Zenon

\* A concurrent pool is one of callbacks and single directions.
LEMMA ConcurrentUse ==
    ASSUME IInv, Unambiguous, Concurrent
    PROVE  Fibers = {} /\ \A fd \in Fds : \A x, y \in Dirs[fd] : x = y
<1>1. pool \in Pools /\ pool.threads \subseteq Threads /\ IsFiniteSet(Threads)
  BY IOAssumption, Zenon DEF IInv, IOTypes
<1>2. Cardinality(pool.threads) \in Nat
  BY <1>1, FS_Subset, FS_CardinalityType, Zenon
<1>3. ~(Cardinality(pool.threads) =< 1)
  BY <1>2 DEF Concurrent
<1> QED BY <1>1, <1>3, Zenon DEF Unambiguous, Fibers, Dirs

\* Nothing is registered, so the assertions' ground is there at the start.
LEMMA AssertedInit == Init => Asserted
BY DEF Init, Asserted, Fresh

\* The operations on events run while no result of a single thread is pending.
LEMMA AssertedQuiet ==
    ASSUME IInv, Asserted, LoopQuiet, UNCHANGED <<pool, batch, aborted>>,
           \A fd \in Fds : events'[fd] \subseteq Dirs[fd],
           Fibers = {} => \A w \in Waiters : state'[w] # "added"
    PROVE  Asserted'
<1>1. Dirs' = Dirs /\ Fibers' = Fibers /\ (Concurrent' <=> Concurrent)
  BY DEF Dirs, Fibers, Concurrent
<1>2. ~Concurrent' => Fresh'
  BY <1>1 DEF LoopQuiet, Fresh
<1> QED BY <1>1, <1>2, Zenon DEF Asserted

\* A step that keeps the events, the results and the pool.
LEMMA AssertedKept ==
    ASSUME Asserted, UNCHANGED <<pool, events, batch>>, aborted' = "no",
           Fibers = {} => \A w \in Waiters : state'[w] # "added"
    PROVE  Asserted'
<1>1. Dirs' = Dirs /\ Fibers' = Fibers /\ (Concurrent' <=> Concurrent)
  BY DEF Dirs, Fibers, Concurrent
<1>2. Fresh => Fresh'
  BY DEF Fresh
<1> QED BY <1>1, <1>2, Zenon DEF Asserted

\* epoll_wait() returns registered events, one result per descriptor.
LEMMA AssertedWait ==
    ASSUME IInv, Asserted, NEW t \in Threads, EpollWait(t)
    PROVE  Asserted'
<1> DEFINE Got == {r \in {[fd |-> fd, evs |-> ready[fd] \cap interest[fd], hup |-> hup[fd]] :
                             fd \in {x \in Fds : rdlist[x]}} : r.evs # {} \/ r.hup}
<1>1. IOTypes /\ Agree
  BY DEF IInv
<1>2. /\ t \in pool.threads /\ batch' = [batch EXCEPT ![t] = Got]
      /\ UNCHANGED <<pool, events, state, aborted>>
  BY Zenon DEF EpollWait
<1>3. \A r \in Got : /\ r.fd \in Fds /\ r.evs \subseteq events[r.fd]
                     /\ \A s \in Got : s.fd = r.fd => s = r
  <2> DEFINE Of(fd) == [fd |-> fd, evs |-> ready[fd] \cap interest[fd], hup |-> hup[fd]]
  <2>1. \A r \in Got : \E fd \in Fds : r = Of(fd)
    OBVIOUS
  <2>2. \A fd \in Fds : Of(fd).fd = fd /\ Of(fd).evs \subseteq events[fd]
    BY <1>1, Zenon DEF Agree
  <2> HIDE DEF Got, Of
  <2> QED BY <2>1, <2>2
<1> HIDE DEF Got
<1>4. \A u \in Threads : batch'[u] = IF u = t THEN Got ELSE batch[u]
  BY <1>1, <1>2, Zenon DEF IOTypes
<1>5. Dirs' = Dirs /\ Fibers' = Fibers /\ (Concurrent' <=> Concurrent)
  BY <1>2 DEF Dirs, Fibers, Concurrent
<1>6. ~Concurrent' => Fresh'
  BY <1>2, <1>3, <1>4, <1>5 DEF Fresh, Asserted
<1>7. \A u \in Threads : \A r \in batch'[u] :
         r.evs \subseteq Dirs'[r.fd] /\ u \in pool'.threads
  BY <1>2, <1>3, <1>4, <1>5 DEF Asserted
<1> QED BY <1>2, <1>5, <1>6, <1>7, Zenon DEF Asserted

\* A result that finds one of its events registered finds all of them.
LEMMA AllRegistered ==
    ASSUME IInv, Asserted, Unambiguous, NEW t \in Threads, NEW r \in batch[t], r.fd \in Fds,
           events[r.fd] \cap RealEvents(r) # {}
    PROVE  RealEvents(r) \subseteq events[r.fd]
<1>1. CASE ~Concurrent
  BY <1>1, Zenon DEF Asserted, Fresh, RealEvents
<1>2. CASE Concurrent
  <2>1. \A x, y \in Dirs[r.fd] : x = y
    BY <1>2, ConcurrentUse, Zenon
  <2>2. RealEvents(r) \subseteq Dirs[r.fd] /\ events[r.fd] \subseteq Dirs[r.fd]
    BY DEF Asserted, RealEvents
  <2> QED BY <2>1, <2>2, Zenon
<1> QED BY <1>1, <1>2, Zenon

\* Handling a result leaves the others of the thread as they were.
LEMMA AssertedHandle ==
    ASSUME IInv, Asserted, Unambiguous, NEW t \in Threads, NEW r \in batch[t], Handle(t, r)
    PROVE  Asserted'
<1>1. IOTypes
  BY DEF IInv
<1>2. r.fd \in Fds
  BY <1>1 DEF IOTypes, Result
<1>3. /\ UNCHANGED <<pool, state>>
      /\ \A u \in Threads : batch'[u] = IF u = t THEN batch[t] \ {r} ELSE batch[u]
  BY <1>1, Zenon DEF Handle, IOTypes
<1>4. /\ aborted' = "no"
      /\ \A g \in Fds : /\ events'[g] \subseteq events[g]
                        /\ g # r.fd => events'[g] = events[g]
  <2>1. CASE UNCHANGED <<events, ctx, m_pendingEventCount, scheduled, kernel, aborted>>
    BY <2>1 DEF Asserted
  <2>2. CASE events[r.fd] \cap RealEvents(r) # {} /\ Trigger(r.fd, RealEvents(r))
    <3>1. RealEvents(r) \subseteq events[r.fd]
      BY <1>2, <2>2, AllRegistered, Zenon
    <3> QED BY <1>1, <2>2, <3>1, Zenon DEF Trigger, Asserted, IOTypes
  <2> QED BY <2>1, <2>2, Zenon DEF Handle
<1>5. Dirs' = Dirs /\ Fibers' = Fibers /\ (Concurrent' <=> Concurrent)
  BY <1>3 DEF Dirs, Fibers, Concurrent
<1>6. ASSUME ~Concurrent PROVE Fresh'
  <2>1. \A u \in Threads : u # t => batch[u] = {}
    BY <1>6, OneThread, Zenon DEF Asserted
  <2>2. \A s \in batch[t] \ {r} : s.fd # r.fd /\ s.fd \in Fds /\ s.evs \subseteq events[s.fd]
    BY <1>1, <1>6 DEF Asserted, Fresh, IOTypes, Result
  <2>3. \A s \in batch[t] \ {r} : s.evs \subseteq events'[s.fd]
    BY <1>4, <2>2, Zenon
  <2>4. \A x, y \in batch[t] : x.fd = y.fd => x = y
    BY <1>6, Zenon DEF Asserted, Fresh
  <2> QED BY <1>3, <2>1, <2>3, <2>4, ZenonT(60) DEF Fresh
<1>7. \A u \in Threads : \A s \in batch'[u] :
         s.evs \subseteq Dirs'[s.fd] /\ u \in pool'.threads
  BY <1>3, <1>5, Zenon DEF Asserted
<1>8. \A g \in Fds : events'[g] \subseteq Dirs'[g]
  BY <1>4, <1>5, Zenon DEF Asserted
<1>9. Fibers' = {} => \A w \in Waiters : state'[w] # "added"
  BY <1>3, <1>5, Zenon DEF Asserted
<1> QED BY <1>4, <1>5, <1>6, <1>7, <1>8, <1>9, Zenon DEF Asserted

\* The operations that are neither epoll_wait() nor the handling of a result.
LEMMA AssertedOthers ==
    ASSUME IInv, Asserted, Unambiguous,
           \/ KernelStep
           \/ \E w \in pool.waiters :
                 \/ Park(w) \/ RunTask(w)
                 \/ \E fd \in Fds, e \in Events : AddEvent(w, fd, e)
           \/ \E fd \in Fds :
                 \/ CancelAll(fd)
                 \/ \E e \in Events : DelEvent(fd, e) \/ CancelEvent(fd, e)
    PROVE  Asserted'
<1>1. IOTypes /\ pool.waiters \subseteq Waiters /\ aborted = "no"
  BY IOAssumption, Zenon DEF IInv, IOTypes, Asserted
<1>2. CASE KernelStep
  <2>1. UNCHANGED <<pool, events, batch, state, aborted>>
    BY <1>2, Zenon DEF KernelStep, HangUp, BecomeReady, Drain
  <2> QED BY <1>1, <2>1, AssertedKept, Zenon DEF Asserted
<1>3. ASSUME NEW w \in Waiters, Park(w) PROVE Asserted'
  <2>1. UNCHANGED <<pool, events, batch, aborted>>
        /\ \A v \in Waiters : state'[v] # "added" \/ state'[v] = state[v]
    BY <1>1, <1>3, Zenon DEF Park, IOTypes
  <2> QED BY <1>1, <2>1, AssertedKept, Zenon DEF Asserted
<1>4. ASSUME NEW w \in Waiters, RunTask(w) PROVE Asserted'
  <2>1. UNCHANGED <<pool, events, batch>>
        /\ \A v \in Waiters : state'[v] # "added" \/ state'[v] = state[v]
    BY <1>1, <1>4, Zenon DEF RunTask, IOTypes
  <2>2. state[w] # "added"
    BY <1>4, ConcurrentUse, Zenon DEF RunTask, FibersQuiet, Asserted
  <2>3. aborted' = "no"
    BY <1>1, <1>4, <2>2, Zenon DEF RunTask
  <2> QED BY <2>1, <2>3, AssertedKept, Zenon DEF Asserted
<1>5. ASSUME NEW w \in Waiters, NEW fd \in Fds, NEW e \in Events, AddEvent(w, fd, e)
      PROVE  Asserted'
  <2>1. LoopQuiet /\ UNCHANGED <<pool, batch, aborted>>
    BY <1>5, Zenon DEF AddEvent
  <2>2. \A g \in Fds : events'[g] \subseteq Dirs[g]
    <3>1. e \in Dirs[fd] /\ events' = [events EXCEPT ![fd] = @ \cup {e}]
      BY <1>5, Zenon DEF AddEvent
    <3> QED BY <1>1, <3>1, Zenon DEF Asserted, IOTypes
  <2>3. Fibers = {} => \A v \in Waiters : state'[v] # "added"
    BY <1>1, <1>5, Zenon DEF AddEvent, Asserted, IOTypes
  <2> QED BY <2>1, <2>2, <2>3, AssertedQuiet, Zenon
<1>6. ASSUME NEW fd \in Fds, CancelAll(fd) \/ \E e \in Events : CancelEvent(fd, e)
      PROVE  Asserted'
  <2>1. PICK evs \in SUBSET events[fd] : Trigger(fd, evs)
    BY <1>6, Zenon DEF CancelAll, CancelEvent
  <2>2. LoopQuiet /\ UNCHANGED <<pool, batch, state>>
    BY <1>6, Zenon DEF CancelAll, CancelEvent
  <2>3. aborted' = aborted /\ \A g \in Fds : events'[g] \subseteq events[g]
    BY <1>1, <2>1, Zenon DEF Trigger, IOTypes
  <2>4. \A g \in Fds : events'[g] \subseteq Dirs[g]
    BY <2>3, Zenon DEF Asserted
  <2>5. Fibers = {} => \A v \in Waiters : state'[v] # "added"
    BY <2>2, Zenon DEF Asserted
  <2> QED BY <2>2, <2>3, <2>4, <2>5, AssertedQuiet, Zenon
<1>7. ASSUME NEW fd \in Fds, NEW e \in Events, DelEvent(fd, e) PROVE Asserted'
  <2>1. LoopQuiet /\ UNCHANGED <<pool, batch, aborted>>
    BY <1>7, Zenon DEF DelEvent
  <2>2. \A g \in Fds : events'[g] \subseteq Dirs[g]
    BY <1>1, <1>7, Zenon DEF DelEvent, Asserted, IOTypes
  <2>3. \A v \in Waiters : state'[v] # "added" \/ state'[v] = state[v]
    BY <1>1, <1>7, Zenon DEF DelEvent, IOTypes
  <2> QED BY <2>1, <2>2, <2>3, AssertedQuiet, Zenon DEF Asserted
<1> QED BY <1>1, <1>2, <1>3, <1>4, <1>5, <1>6, <1>7, Zenon

\* The ground of the assertions is kept by every step.
LEMMA AssertedStep == Unambiguous /\ IInv /\ Asserted /\ [Next]_vars => Asserted'
<1> SUFFICES ASSUME Unambiguous, IInv, Asserted, [Next]_vars PROVE Asserted'
  OBVIOUS
<1>1. ASSUME NEW t \in Threads, LoopStep(t) PROVE Asserted'
  BY <1>1, AssertedWait, AssertedHandle, Zenon DEF LoopStep
<1>2. CASE UNCHANGED vars
  BY <1>2, AssertedKept, Zenon DEF vars, Asserted
<1> QED BY <1>1, <1>2, AssertedOthers, Zenon DEF Next

\* In the uses above neither the assertion of triggerEvent() nor that of
\* Scheduler::run() on woken fibers ever fails (iomanager.cc:81-82,
\* scheduler.cc:138-139).
THEOREM EventAssertionsHold ==
    ASSUME Unambiguous
    PROVE  Spec => [](TriggeredIsRegistered /\ WokenIsReady)
<1>1. Asserted => TriggeredIsRegistered /\ WokenIsReady
  BY DEF Asserted, TriggeredIsRegistered, WokenIsReady
<1>2. IInv /\ Asserted /\ [Next]_vars => Asserted'
  BY AssertedStep
<1> QED BY <1>1, <1>2, AssertedInit, IInvAlways, PTL DEF Spec

\* In particular run() never takes a woken fiber that is not READY
\* (scheduler.cc:138-139).
THEOREM WokenAreReady ==
    ASSUME Unambiguous
    PROVE  Spec => []WokenIsReady
<1>1. TriggeredIsRegistered /\ WokenIsReady => WokenIsReady
  OBVIOUS
<1> QED BY <1>1, EventAssertionsHold, PTL

(***************************************************************************)
(* The loop of the same IOManager, IOLoop, with a state of its own.         *)
(***************************************************************************)
CONSTANTS Pool, Callers, Timers, Awaited, MaxTasks

VARIABLES m_tasks, m_stopping, m_timers, due, registered, pending, rdevents, pipe,
          edge, pc, idle_fiber, got, cbs, spawned, used, main

Loop == INSTANCE IOLoop WITH Events <- Awaited, m_pendingEventCount <- pending,
                             ready <- rdevents

\* Between the return of epoll_wait() and the end of the loop over its results.
Taken == {"collect", "due", "handle"}

\* The places of a thread in the loop.
Places == {"scan", "more", "run", "pushed", "empty", "timers", "pending", "base", "wait",
           "leave", "exit"} \cup Taken

\* The parts of the state the wake-ups depend on.
LoopTypes ==
    /\ got \in [Loop!Threads -> [tickled : BOOLEAN, evs : SUBSET Awaited]]
    /\ DOMAIN pc = Loop!Threads
    /\ rdevents \subseteq Awaited
    /\ DOMAIN main = {"at", "tickles"}

\* Outside of it a thread holds no result.
NothingHeld == \A t \in Loop!Threads : pc[t] \notin Taken => got[t] = Loop!NoResult

\* The caller's thread enters the loop when stop() resumes it.
CallersOff ==
    main.at \in {"up", "pushed", "stop"} => \A t \in Callers : pc[t] = "off"

LoopInv == LoopTypes /\ NothingHeld /\ CallersOff /\ Loop!TickleNotLost

\* A tickle is a byte and an edge, or neither.
LEMMA TickleKeeps ==
    ASSUME Loop!TickleNotLost, got' = got, Loop!Tickle \/ UNCHANGED <<pipe, edge>>
    PROVE  Loop!TickleNotLost'
BY Zenon DEF Loop!TickleNotLost, Loop!Tickle

\* A step of a thread that leaves the results alone.
LEMMA MoveKeeps ==
    ASSUME LoopInv, NEW t \in Loop!Threads, NEW from \in Places, NEW to \in Places,
           Loop!At(t, from, to),
           from \in Taken => to \in Taken \/ got[t] = Loop!NoResult,
           Loop!Tickle \/ UNCHANGED <<pipe, edge>>, UNCHANGED <<got, main, rdevents>>
    PROVE  LoopInv'
<1>1. /\ pc[t] = from /\ pc' = [pc EXCEPT ![t] = to] /\ DOMAIN pc = Loop!Threads
      /\ got' = got /\ main' = main /\ rdevents' = rdevents
  BY Zenon DEF LoopInv, LoopTypes, Loop!At
<1>2. DOMAIN pc' = Loop!Threads /\ pc'[t] = to /\ from # "off"
      /\ \A u \in Loop!Threads : u # t => pc'[u] = pc[u]
  BY <1>1 DEF Places, Taken
<1>3. to \notin Taken => got[t] = Loop!NoResult
  BY <1>1, Zenon DEF LoopInv, NothingHeld
<1>4. NothingHeld'
  BY <1>1, <1>2, <1>3, Zenon DEF LoopInv, NothingHeld
<1>5. CallersOff'
  <2>1. ASSUME main.at \in {"up", "pushed", "stop"}, NEW u \in Callers PROVE pc'[u] = "off"
    <3>1. pc[u] = "off" /\ u \in Loop!Threads
      BY <2>1, Zenon DEF LoopInv, CallersOff, Loop!Threads
    <3> QED BY <1>1, <1>2, <3>1, Zenon
  <2> QED BY <1>1, <2>1, Zenon DEF CallersOff
<1>6. LoopTypes'
  BY <1>1, <1>2, Zenon DEF LoopInv, LoopTypes
<1>7. Loop!TickleNotLost'
  BY <1>1, TickleKeeps, Zenon DEF LoopInv
<1> QED BY <1>4, <1>5, <1>6, <1>7, Zenon DEF LoopInv

\* The initial states.
LEMMA LoopInitHolds ==
    ASSUME Pool \cap Callers = {}, Loop!Init
    PROVE  LoopInv
<1>1. LoopTypes
  <2>1. got = [t \in Loop!Threads |-> [tickled |-> FALSE, evs |-> {}]]
        /\ pc = [t \in Loop!Threads |-> IF t \in Pool THEN "scan" ELSE "off"]
        /\ rdevents = {} /\ main = [at |-> "up", tickles |-> 0]
    BY Zenon DEF Loop!Init, Loop!NoResult
  <2>2. got \in [Loop!Threads -> [tickled : BOOLEAN, evs : SUBSET Awaited]]
    BY <2>1
  <2>3. DOMAIN pc = Loop!Threads /\ DOMAIN main = {"at", "tickles"}
    BY <2>1
  <2> QED BY <2>1, <2>2, <2>3 DEF LoopTypes
<1>2. NothingHeld
  BY DEF Loop!Init, NothingHeld
<1>3. CallersOff
  BY DEF Loop!Init, CallersOff, Loop!Threads
<1>4. Loop!TickleNotLost
  BY DEF Loop!Init, Loop!TickleNotLost
<1> QED BY <1>1, <1>2, <1>3, <1>4, ZenonT(60) DEF LoopInv

\* A step of the client.
LEMMA LoopClientHolds ==
    ASSUME LoopInv, Loop!ClientPush \/ Loop!ClientStep
    PROVE  LoopInv'
<1> USE DEF LoopInv, Loop!work, Loop!local
<1>1. /\ got' = got /\ rdevents' = rdevents
      /\ Loop!Tickle \/ UNCHANGED <<pipe, edge>>
  BY DEF Loop!ClientPush, Loop!ClientStep, Loop!ClientTickle, Loop!StopFlag, Loop!StopTickle,
     Loop!StopRoot, Loop!StopJoin
<1>2. Loop!TickleNotLost'
  BY <1>1, TickleKeeps, Zenon
<1>3. CASE Loop!StopRoot
  <2>1. /\ main.at = "stop" /\ main' = [main EXCEPT !.at = "join"]
        /\ pc' = [t \in Loop!Threads |-> IF t \in Callers THEN "scan" ELSE pc[t]]
    BY <1>3, Zenon DEF Loop!StopRoot
  <2>2. DOMAIN main' = {"at", "tickles"} /\ main'.at = "join"
    BY <2>1 DEF LoopTypes
  <2>3. LoopTypes'
    BY <1>1, <2>1, <2>2 DEF LoopTypes
  <2>4. \A t \in Callers : pc[t] \notin Taken
    BY <2>1 DEF CallersOff, Taken
  <2>5. NothingHeld'
    BY <1>1, <2>1, <2>4 DEF NothingHeld, Loop!NoResult
  <2>6. CallersOff'
    BY <2>2 DEF CallersOff
  <2> QED BY <1>2, <2>3, <2>5, <2>6, Zenon
<1>4. CASE Loop!ClientPush \/ Loop!ClientTickle \/ Loop!StopFlag \/ Loop!StopTickle \/ Loop!StopJoin
  <2>1. pc' = pc
    BY <1>4 DEF Loop!ClientPush, Loop!ClientTickle, Loop!StopFlag, Loop!StopTickle, Loop!StopJoin
  <2>2. DOMAIN main' = {"at", "tickles"}
        /\ (main'.at \in {"up", "pushed", "stop"} => main.at \in {"up", "pushed", "stop"})
    <3>1. CASE Loop!ClientPush
      BY <3>1 DEF LoopTypes, Loop!ClientPush
    <3>2. CASE Loop!ClientTickle
      BY <3>2 DEF LoopTypes, Loop!ClientTickle
    <3>3. CASE Loop!StopFlag
      BY <3>3 DEF LoopTypes, Loop!StopFlag
    <3>4. CASE Loop!StopTickle
      BY <3>4 DEF LoopTypes, Loop!StopTickle
    <3>5. CASE Loop!StopJoin
      BY <3>5 DEF LoopTypes, Loop!StopJoin
    <3> QED BY <1>4, <3>1, <3>2, <3>3, <3>4, <3>5, ZenonT(60)
  <2>3. LoopTypes'
    BY <1>1, <2>1, <2>2, Zenon DEF LoopTypes
  <2>4. NothingHeld'
    BY <1>1, <2>1, Zenon DEF NothingHeld
  <2>5. CallersOff'
    BY <2>1, <2>2, Zenon DEF CallersOff
  <2> QED BY <1>2, <2>3, <2>4, <2>5, ZenonT(60)
<1> QED BY <1>3, <1>4, Zenon DEF Loop!ClientStep

\* A thread scans the queue and runs a task.
LEMMA LoopTaskHolds ==
    ASSUME LoopInv, NEW t \in Loop!Threads,
           Loop!Scan(t) \/ Loop!TickleMore(t) \/ Loop!TaskTickle(t) \/ Loop!TaskDone(t) \/ Loop!TaskStep(t)
    PROVE  LoopInv'
<1> DEFINE Moves(from, to) == Loop!At(t, from, to) /\ UNCHANGED <<got, main, rdevents>>
                              /\ (Loop!Tickle \/ UNCHANGED <<pipe, edge>>)
<1>1. ASSUME NEW from \in {"scan", "more", "pushed", "run"},
             NEW to \in {"empty", "more", "run", "pushed", "scan"}, Moves(from, to)
      PROVE  LoopInv'
  <2>1. from \in Places /\ to \in Places /\ from \notin Taken
    BY DEF Taken, Places
  <2> QED BY <1>1, <2>1, MoveKeeps, Zenon
<1> USE DEF Loop!work, Loop!local
<1>2. CASE Loop!Scan(t)
  <2>1. Moves("scan", "empty") \/ Moves("scan", IF m_tasks > 1 THEN "more" ELSE "run")
    BY <1>2, Zenon DEF Loop!Scan
  <2> HIDE DEF Moves
  <2> QED BY <1>1, <2>1
<1>3. CASE Loop!TickleMore(t)
  <2>1. Moves("more", "run")
    BY <1>3, Zenon DEF Loop!TickleMore
  <2> HIDE DEF Moves
  <2> QED BY <1>1, <2>1
<1>4. CASE Loop!TaskTickle(t)
  <2>1. Moves("pushed", "run")
    BY <1>4, Zenon DEF Loop!TaskTickle
  <2> HIDE DEF Moves
  <2> QED BY <1>1, <2>1
<1>5. CASE Loop!TaskDone(t)
  <2>1. Moves("run", "scan")
    BY <1>5, Zenon DEF Loop!TaskDone
  <2> HIDE DEF Moves
  <2> QED BY <1>1, <2>1
<1>6. CASE Loop!TaskPush(t)
  <2>1. Moves("run", IF m_tasks = 0 THEN "pushed" ELSE "run")
    BY <1>6, Zenon DEF Loop!TaskPush
  <2> HIDE DEF Moves
  <2> QED BY <1>1, <2>1
<1>7. ASSUME NEW x \in Timers, Loop!TaskTimer(t, x) PROVE LoopInv'
  <2>1. \E to \in {"run", "pushed"} : Moves("run", to)
    BY <1>7, Zenon DEF Loop!TaskTimer
  <2> HIDE DEF Moves
  <2> QED BY <1>1, <2>1
<1>8. ASSUME NEW e \in Awaited, Loop!TaskEvent(t, e) PROVE LoopInv'
  <2>1. UNCHANGED <<got, main, rdevents, pc, pipe, edge>>
    BY <1>8, Zenon DEF Loop!TaskEvent
  <2> QED BY <2>1, Zenon DEF LoopInv, LoopTypes, NothingHeld, CallersOff, Loop!TickleNotLost
<1> QED BY <1>2, <1>3, <1>4, <1>5, <1>6, <1>7, <1>8, Zenon DEF Loop!TaskStep

\* A thread that has no task goes to sleep and wakes.
LEMMA LoopIdleHolds ==
    ASSUME LoopInv, NEW t \in Loop!Threads,
           \/ Loop!EnterIdle(t) \/ Loop!TestTimers(t) \/ Loop!TestPending(t) \/ Loop!TestBase(t)
           \/ Loop!LeaveIdle(t) \/ Loop!WaitTimeout(t)
    PROVE  LoopInv'
<1> DEFINE Moves(from, to) == Loop!At(t, from, to) /\ UNCHANGED <<got, main, rdevents>>
                              /\ (Loop!Tickle \/ UNCHANGED <<pipe, edge>>)
<1>1. ASSUME NEW from \in {"empty", "timers", "pending", "base", "leave", "wait"},
             NEW to \in {"exit", "timers", "pending", "base", "wait", "leave", "scan", "collect"},
             Moves(from, to)
      PROVE  LoopInv'
  <2>1. from \in Places /\ to \in Places /\ from \notin Taken
    BY DEF Taken, Places
  <2> QED BY <1>1, <2>1, MoveKeeps, Zenon
<1> USE DEF Loop!work, Loop!local
<1>2. CASE Loop!EnterIdle(t)
  <2>1. Moves("empty", IF idle_fiber[t] = "TERM" THEN "exit" ELSE "timers")
    BY <1>2, Zenon DEF Loop!EnterIdle
  <2> HIDE DEF Moves
  <2> QED BY <1>1, <2>1
<1>3. CASE Loop!TestTimers(t)
  <2>1. Moves("timers", IF m_timers = {} THEN "pending" ELSE "wait")
    BY <1>3, Zenon DEF Loop!TestTimers
  <2> HIDE DEF Moves
  <2> QED BY <1>1, <2>1
<1>4. CASE Loop!TestPending(t)
  <2>1. Moves("pending", IF pending = 0 THEN "base" ELSE "wait")
    BY <1>4, Zenon DEF Loop!TestPending
  <2> HIDE DEF Moves
  <2> QED BY <1>1, <2>1
<1>5. CASE Loop!TestBase(t)
  <2>1. Moves("base", IF Loop!BaseStopping THEN "leave" ELSE "wait")
    BY <1>5, Zenon DEF Loop!TestBase
  <2> HIDE DEF Moves
  <2> QED BY <1>1, <2>1
<1>6. CASE Loop!LeaveIdle(t)
  <2>1. Moves("leave", "scan")
    BY <1>6, Zenon DEF Loop!LeaveIdle
  <2> HIDE DEF Moves
  <2> QED BY <1>1, <2>1
<1>7. CASE Loop!WaitTimeout(t)
  <2>1. Moves("wait", "collect")
    BY <1>7, Zenon DEF Loop!WaitTimeout
  <2> HIDE DEF Moves
  <2> QED BY <1>1, <2>1
<1> QED BY <1>2, <1>3, <1>4, <1>5, <1>6, <1>7, ZenonT(60)

\* epoll_wait() returns with what is ready: the edge passes to the thread.
LEMMA LoopWaitHolds ==
    ASSUME LoopInv, NEW t \in Loop!Threads, Loop!WaitEvent(t)
    PROVE  LoopInv'
<1> DEFINE new == [tickled |-> edge /\ pipe, evs |-> rdevents]
<1>1. /\ pc[t] = "wait" /\ pc' = [pc EXCEPT ![t] = "collect"]
      /\ got' = [got EXCEPT ![t] = new] /\ edge' = FALSE /\ rdevents' = {}
      /\ pipe' = pipe /\ main' = main
  BY Zenon DEF Loop!WaitEvent, Loop!At
<1>2. new \in [tickled : BOOLEAN, evs : SUBSET Awaited] /\ new.tickled = (edge /\ pipe)
  BY DEF LoopInv, LoopTypes
<1> HIDE DEF new
<1>3. /\ DOMAIN pc' = Loop!Threads /\ pc'[t] = "collect" /\ got'[t] = new
      /\ \A u \in Loop!Threads : u # t => pc'[u] = pc[u] /\ got'[u] = got[u]
  BY <1>1 DEF LoopInv, LoopTypes
<1>4. LoopTypes'
  <2>1. got' \in [Loop!Threads -> [tickled : BOOLEAN, evs : SUBSET Awaited]]
    BY <1>1, <1>2 DEF LoopInv, LoopTypes
  <2> QED BY <1>1, <1>3, <2>1 DEF LoopInv, LoopTypes
<1>5. NothingHeld'
  BY <1>3 DEF LoopInv, NothingHeld, Taken, Loop!NoResult
<1>6. CallersOff'
  <2>1. ASSUME main.at \in {"up", "pushed", "stop"}, NEW u \in Callers PROVE pc'[u] = "off"
    <3>1. pc[u] = "off" /\ u \in Loop!Threads
      BY <2>1, Zenon DEF LoopInv, CallersOff, Loop!Threads
    <3> QED BY <1>1, <1>3, <3>1
  <2> QED BY <1>1, <2>1, Zenon DEF CallersOff
<1>7. ASSUME pipe PROVE \E u \in Loop!Threads : got'[u].tickled
  <2>1. CASE edge
    BY <1>2, <1>3, <1>7, <2>1, Zenon
  <2>2. CASE ~edge
    <3>1. PICK u \in Loop!Threads : got[u].tickled
      BY <1>7, <2>2, ZenonT(60) DEF LoopInv, Loop!TickleNotLost
    <3>2. got[t] = Loop!NoResult
      BY <1>1 DEF LoopInv, NothingHeld, Taken, Loop!NoResult
    <3>3. u # t
      BY <3>1, <3>2 DEF Loop!NoResult
    <3> QED BY <1>3, <3>1, <3>3, Zenon
  <2> QED BY <2>1, <2>2, Zenon
<1>8. Loop!TickleNotLost'
  BY <1>1, <1>7, Zenon DEF Loop!TickleNotLost
<1> QED BY <1>4, <1>5, <1>6, <1>8, Zenon DEF LoopInv

\* A thread works off what epoll_wait() returned.
LEMMA LoopResultHolds ==
    ASSUME LoopInv, NEW t \in Loop!Threads,
           \/ Loop!Collect(t) \/ Loop!ScheduleDue(t) \/ Loop!DrainPipe(t) \/ Loop!Handled(t)
           \/ \E e \in Awaited : Loop!HandleEvent(t, e)
    PROVE  LoopInv'
<1> DEFINE Moves(from, to) == Loop!At(t, from, to) /\ UNCHANGED <<got, main, rdevents>>
                              /\ (Loop!Tickle \/ UNCHANGED <<pipe, edge>>)
<1> USE DEF Loop!work, Loop!local
<1>1. CASE Loop!Collect(t)
  <2>1. Moves("collect", "due")
    BY <1>1, Zenon DEF Loop!Collect
  <2>2. "due" \in Taken /\ "collect" \in Places /\ "due" \in Places
    BY DEF Taken, Places
  <2> QED BY <2>1, <2>2, MoveKeeps, Zenon
<1>2. CASE Loop!ScheduleDue(t)
  <2>1. Moves("due", "handle")
    BY <1>2, Zenon DEF Loop!ScheduleDue, Loop!ScheduleIdle
  <2>2. "handle" \in Taken /\ "due" \in Places /\ "handle" \in Places
    BY DEF Taken, Places
  <2> QED BY <2>1, <2>2, MoveKeeps, Zenon
<1>3. CASE Loop!Handled(t)
  <2>1. Moves("handle", "leave") /\ got[t] = Loop!NoResult
    BY <1>3, Zenon DEF Loop!Handled
  <2>2. "handle" \in Places /\ "leave" \in Places
    BY DEF Taken, Places
  <2> QED BY <2>1, <2>2, MoveKeeps, Zenon
<1>4. ASSUME pc[t] = "handle", UNCHANGED <<pc, main, rdevents>>,
             got' \in [Loop!Threads -> [tickled : BOOLEAN, evs : SUBSET Awaited]],
             \A u \in Loop!Threads : u # t => got'[u] = got[u], Loop!TickleNotLost'
      PROVE  LoopInv'
  <2>1. LoopTypes'
    BY <1>4, Zenon DEF LoopInv, LoopTypes
  <2>2. "handle" \in Taken
    BY DEF Taken
  <2>3. NothingHeld'
    BY <1>4, <2>2, Zenon DEF LoopInv, NothingHeld
  <2>4. CallersOff'
    BY <1>4, Zenon DEF LoopInv, CallersOff
  <2> QED BY <1>4, <2>1, <2>3, <2>4, Zenon DEF LoopInv
<1>5. CASE Loop!DrainPipe(t)
  <2>1. pc[t] = "handle" /\ UNCHANGED <<pc, main, rdevents>> /\ pipe' = FALSE
        /\ got' = [got EXCEPT ![t].tickled = FALSE]
    BY <1>5, Zenon DEF Loop!DrainPipe
  <2>2. got' \in [Loop!Threads -> [tickled : BOOLEAN, evs : SUBSET Awaited]]
        /\ \A u \in Loop!Threads : u # t => got'[u] = got[u]
    BY <2>1, Zenon DEF LoopInv, LoopTypes
  <2>3. Loop!TickleNotLost'
    BY <2>1, Zenon DEF Loop!TickleNotLost
  <2> QED BY <1>4, <2>1, <2>2, <2>3, Zenon
<1>6. ASSUME NEW e \in Awaited, Loop!HandleEvent(t, e) PROVE LoopInv'
  <2>1. pc[t] = "handle" /\ UNCHANGED <<pc, main, rdevents>>
        /\ got' = [got EXCEPT ![t].evs = @ \ {e}] /\ (Loop!Tickle \/ UNCHANGED <<pipe, edge>>)
    BY <1>6, Zenon DEF Loop!HandleEvent, Loop!ScheduleIdle
  <2>2. got' \in [Loop!Threads -> [tickled : BOOLEAN, evs : SUBSET Awaited]]
        /\ (\A u \in Loop!Threads : u # t => got'[u] = got[u])
        /\ \A u \in Loop!Threads : got'[u].tickled = got[u].tickled
    BY <2>1 DEF LoopInv, LoopTypes
  <2>3. Loop!TickleNotLost'
    BY <2>1, <2>2, ZenonT(60) DEF LoopInv, Loop!TickleNotLost, Loop!Tickle
  <2> QED BY <1>4, <2>1, <2>2, <2>3, Zenon
<1> QED BY <1>1, <1>2, <1>3, <1>5, <1>6, Zenon

\* Every step.
LEMMA LoopStepHolds ==
    ASSUME LoopInv, [Loop!Next]_(Loop!vars)
    PROVE  LoopInv'
<1>1. ASSUME UNCHANGED <<got, main, pc, pipe, edge>>, rdevents' \subseteq Awaited PROVE LoopInv'
  BY <1>1, Zenon DEF LoopInv, LoopTypes, NothingHeld, CallersOff, Loop!TickleNotLost
<1>2. CASE Loop!ClientPush \/ Loop!ClientStep
  BY <1>2, LoopClientHolds, Zenon
<1>3. ASSUME NEW t \in Loop!Threads, Loop!ThreadStep(t) \/ Loop!TaskStep(t) PROVE LoopInv'
  BY <1>3, LoopTaskHolds, LoopIdleHolds, LoopWaitHolds, LoopResultHolds, Zenon DEF Loop!ThreadStep
<1>4. ASSUME NEW x \in Timers, Loop!TimerDue(x) PROVE LoopInv'
  BY <1>1, <1>4, Zenon DEF Loop!TimerDue, LoopInv, LoopTypes, Loop!local
<1>5. ASSUME NEW e \in Awaited, Loop!EventReady(e) PROVE LoopInv'
  <2>1. UNCHANGED <<got, main, pc, pipe, edge>> /\ rdevents' = rdevents \cup {e}
    BY <1>5, Zenon DEF Loop!EventReady, Loop!local
  <2>2. rdevents' \subseteq Awaited
    BY <2>1 DEF LoopInv, LoopTypes
  <2> QED BY <1>1, <2>1, <2>2, Zenon
<1>6. CASE UNCHANGED Loop!vars
  BY <1>1, <1>6, Zenon DEF Loop!vars, LoopInv, LoopTypes
<1> QED BY <1>2, <1>3, <1>4, <1>5, <1>6, ZenonT(60) DEF Loop!Next, Loop!Terminated

\* No wake-up of IOManager::tickle() is stuck in the pipe: whatever the threads and
\* the tasks do, a byte in it has an edge or a thread that drains it, so the next
\* epoll_wait() or the thread that has returned from it sees it (iomanager.cc:326-338,
\* 405-411).  That wake-ups may still never be sent is a finding (NoLostWakeup).
THEOREM TicklesAreNotLost ==
    ASSUME Pool \cap Callers = {}
    PROVE  Loop!Spec => []Loop!TickleNotLost
<1>1. Loop!Init => LoopInv
  BY LoopInitHolds
<1>2. LoopInv /\ [Loop!Next]_(Loop!vars) => LoopInv'
  BY LoopStepHolds
<1>3. LoopInv => Loop!TickleNotLost
  BY Zenon DEF LoopInv
<1> QED BY <1>1, <1>2, <1>3, PTL DEF Loop!Spec
=============================================================================
