----------------------------- MODULE HookProofs -----------------------------
(***************************************************************************)
(* Proofs about Hook, for any number of fibers, descriptors and calls.      *)
(***************************************************************************)
EXTENDS Hook, TLAPS

PCs == {"out", "made", "fun", "arm", "add", "parked", "soerr", "cancel", "del", "closef"}
Ops == {"none", "io", "connect", "sleep", "socket", "close"}
Waits == {"io", "connect"}

CallType ==
    [pc : PCs, op : Ops, n : Nat, fd : Fds \cup {0}, sock : Nat, timed : BOOLEAN,
     direct : BOOLEAN, cancelled : BOOLEAN, expired : BOOLEAN,
     result : {"ok", "stray", "early"}]
Ctx == [sock : Nat, timed : BOOLEAN]
Timer == [f : Fibers, n : Nat, fd : Fds \cup {0}, ev : {"READ", "WRITE", "sleep"}]
Reg == [f : Fibers, fd : Fds, ev : {"READ", "WRITE"}, sock : Nat \ {0}]

\* Type correctness (hook.cc, fd_manager.cc).
HookTypes ==
    /\ several \in BOOLEAN
    /\ sock \in [Fds -> Nat] /\ made \in Nat
    /\ readable \in [Fds -> BOOLEAN]
    /\ link \in [Fds -> {"idle", "connecting", "up", "failed"}]
    /\ m_datas \in [Fds -> Ctx \cup {NoCtx}]
    /\ usable \in SUBSET Fds
    /\ registered \in SUBSET Reg
    /\ timers \in SUBSET Timer
    /\ cbs \in SUBSET [timer : Timer, at : {"queued", "locked", "set"}]
    /\ queue \in SUBSET Fibers
    /\ call \in [Fibers -> CallType]

\* The operation a fiber is in fits the place where it is.
OpFitsAt(f) ==
    /\ call[f].pc = "out" => call[f].op = "none" /\ ~call[f].cancelled
    /\ call[f].pc \in {"fun", "arm", "add", "soerr"} => call[f].op \in Waits
    /\ call[f].pc = "parked" => call[f].op \in Waits \cup {"sleep"}
    /\ call[f].pc = "made" => call[f].op = "socket"
    /\ call[f].pc \in {"cancel", "del", "closef"} => call[f].op = "close"
    /\ call[f].op \in Waits \cup {"socket", "close"} => call[f].fd \in Fds
    /\ call[f].op = "sleep" => call[f].fd = 0 /\ ~call[f].timed

OpFits == \A f \in Fibers : OpFitsAt(f)

(***************************************************************************)
(* Contexts.                                                               *)
(***************************************************************************)
\* A fiber between socket_f() and FdManager::get(), or in close(), has the
\* descriptor for itself.
Owning == {"made", "cancel", "del", "closef"}

OwnedFds ==
    /\ \A f \in Fibers : call[f].pc \in Owning => call[f].fd \notin usable /\ sock[call[f].fd] # 0
    /\ \A f, g \in Fibers :
          f # g /\ call[f].pc \in Owning /\ call[g].pc \in Owning => call[f].fd # call[g].fd
    /\ \A d \in usable : sock[d] # 0

\* A descriptor that is closed, just opened or about to be closed has no context.
CtxFits ==
    /\ \A d \in Fds : sock[d] = 0 => m_datas[d] = NoCtx
    /\ \A f \in Fibers : call[f].pc \in {"made", "closef"} => m_datas[call[f].fd] = NoCtx

(***************************************************************************)
(* Timers.                                                                 *)
(***************************************************************************)
Armed == timers \cup {c.timer : c \in cbs}

\* A timer belongs to the call it was armed in or to an earlier one, and while the
\* call goes on it is the timer of that call.
TimerFits ==
    \A x \in Armed : x.n <= call[x.f].n /\ (InCall(x) => x = TimerOf(x.f))

\* A callback that still finds the call comes from a timer that has expired.
ExpiredFits ==
    /\ \A c \in cbs : InCall(c.timer) => call[c.timer.f].expired
    /\ \A f \in Fibers : call[f].cancelled => call[f].expired

\* The callback of a sleep takes no timer_info.
SleepFits == \A c \in cbs : c.timer.ev = "sleep" => c.at = "queued"

(***************************************************************************)
(* Waiting, with one thread.                                               *)
(***************************************************************************)
OnTheWay(f) == TimerOf(f) \in timers \/ \E c \in cbs : c.timer = TimerOf(f)

Listening(f) ==
    \E r \in registered :
        r.f = f /\ r.fd = call[f].fd /\ r.ev = Event[call[f].op] /\ r.sock = sock[r.fd]

WaitFits(f) ==
    /\ call[f].pc = "add" /\ call[f].timed => OnTheWay(f)
    /\ call[f].pc = "parked" /\ call[f].op \in Waits => f \in queue \/ Listening(f)
    /\ call[f].pc = "parked" /\ (call[f].timed \/ call[f].op = "sleep") => f \in queue \/ OnTheWay(f)
    /\ call[f].cancelled =>
          /\ call[f].pc = "parked"
          /\ f \in queue \/ \E c \in cbs : c.at = "set" /\ c.timer = TimerOf(f)

\* Between cancelAll() and close_f() nobody listens to the descriptor.
CloseQuiet(f) ==
    call[f].pc \in {"del", "closef"} =>
        \A r \in registered : r.fd = call[f].fd => r.sock # sock[r.fd]

\* One fiber or one callback runs at a time.
Exclusive ==
    /\ \A f, g \in Fibers : f # g => ~(Runs(f) /\ Runs(g))
    /\ \A c \in cbs : c.at # "queued" => \A f \in Fibers : ~Runs(f)
    /\ \A c, d \in cbs : c # d => c.at = "queued" \/ d.at = "queued"

OneThread == (\A f \in Fibers : WaitFits(f) /\ CloseQuiet(f)) /\ Exclusive

CtxInv == OwnedFds /\ CtxFits /\ FreshContext
TimerInv == TimerFits /\ ExpiredFits /\ SleepFits /\ TimeoutIsReal
HInv == HookTypes /\ OpFits /\ CtxInv /\ TimerInv /\ (~several => OneThread)
-----------------------------------------------------------------------------
\* The calls of the other fibers.
Others(f) == \A g \in Fibers \ {f} : call'[g] = call[g]

\* A call that only moves on.
Moved(f, pc) ==
    /\ Others(f)
    /\ call'[f].pc = pc
    /\ call'[f].op = call[f].op /\ call'[f].n = call[f].n /\ call'[f].fd = call[f].fd
    /\ call'[f].sock = call[f].sock /\ call'[f].timed = call[f].timed
    /\ call'[f].cancelled = call[f].cancelled /\ call'[f].expired = call[f].expired
    /\ call'[f].result = call[f].result

\* A call that is over.
Over(f, r) ==
    /\ Others(f)
    /\ call'[f].pc = "out" /\ call'[f].op = "none" /\ call'[f].n = call[f].n
    /\ call'[f].fd = 0 /\ ~call'[f].timed /\ ~call'[f].cancelled /\ ~call'[f].expired
    /\ call'[f].result = r

\* Goto() moves the fiber and changes nothing else of its call.
LEMMA GotoMoves ==
    ASSUME HookTypes, NEW f \in Fibers, NEW pc \in PCs, Goto(f, pc)
    PROVE  Moved(f, pc) /\ call' \in [Fibers -> CallType]
<1>1. call \in [Fibers -> CallType] /\ call[f] \in CallType
  BY DEF HookTypes
<1> DEFINE q == [call[f] EXCEPT !.pc = pc]
<1>2. call' = [call EXCEPT ![f] = q]
  BY <1>1 DEF Goto
<1>3. q \in CallType
  BY <1>1 DEF CallType
<1>4. /\ q.pc = pc /\ q.op = call[f].op /\ q.n = call[f].n /\ q.fd = call[f].fd
      /\ q.sock = call[f].sock /\ q.timed = call[f].timed
      /\ q.cancelled = call[f].cancelled /\ q.expired = call[f].expired
      /\ q.result = call[f].result
  BY <1>1 DEF CallType
<1> HIDE DEF q
<1>5. call'[f] = q /\ call' \in [Fibers -> CallType] /\ Others(f)
  BY <1>1, <1>2, <1>3 DEF Others
<1> QED BY <1>4, <1>5, Zenon DEF Moved

\* A call that returns leaves no timer_info behind.
LEMMA ReturnEnds ==
    ASSUME HookTypes, NEW f \in Fibers, NEW r \in {"ok", "stray", "early"}, Return(f, r)
    PROVE  Over(f, r) /\ call' \in [Fibers -> CallType]
<1>1. call \in [Fibers -> CallType] /\ call[f] \in CallType /\ call[f].n \in Nat
  BY DEF HookTypes, CallType
<1> DEFINE q == [NoCall EXCEPT !.n = call[f].n, !.result = r]
<1>2. call' = [call EXCEPT ![f] = q]
  BY <1>1 DEF Return
<1>3. q \in CallType
  BY <1>1, ZenonT(30) DEF CallType, NoCall, PCs, Ops
<1>4. /\ q.pc = "out" /\ q.op = "none" /\ q.n = call[f].n /\ q.fd = 0 /\ ~q.timed
      /\ ~q.cancelled /\ ~q.expired /\ q.result = r
  BY <1>1 DEF NoCall
<1> HIDE DEF q
<1>5. call'[f] = q /\ call' \in [Fibers -> CallType] /\ Others(f)
  BY <1>1, <1>2, <1>3 DEF Others
<1> QED BY <1>4, <1>5 DEF Over

\* A call that begins.
Begun(f, pc, op, d, timed) ==
    /\ Others(f)
    /\ call'[f].pc = pc /\ call'[f].op = op /\ call'[f].n = call[f].n + 1
    /\ call'[f].fd = d /\ call'[f].timed = timed /\ ~call'[f].cancelled
    /\ call'[f].result = "ok"

\* socket() and close() have no timer_info.
Taken(f, pc, op, d) ==
    /\ Others(f)
    /\ call'[f].pc = pc /\ call'[f].op = op /\ call'[f].n = call[f].n
    /\ call'[f].fd = d /\ call'[f].timed = call[f].timed
    /\ call'[f].cancelled = call[f].cancelled /\ call'[f].expired = call[f].expired
    /\ call'[f].result = call[f].result

\* do_io() and connect_with_timeout() begin with a fresh timer_info.
LEMMA BeginBegins ==
    ASSUME HookTypes, NEW f \in Fibers, NEW d \in Fds, NEW op \in Ops, NEW pc \in PCs,
           NEW timed \in BOOLEAN, NEW direct \in BOOLEAN, Begin(f, d, op, pc, timed, direct)
    PROVE  Begun(f, pc, op, d, timed) /\ call' \in [Fibers -> CallType]
<1>1. call \in [Fibers -> CallType] /\ call[f].n \in Nat /\ sock[d] \in Nat
  BY DEF HookTypes, CallType
<1> DEFINE m == call[f].n + 1
           q == [NoCall EXCEPT !.pc = pc, !.op = op, !.n = m, !.fd = d,
                               !.sock = sock[d], !.timed = timed, !.direct = direct]
<1>2. call' = [call EXCEPT ![f] = q] /\ m \in Nat
  BY <1>1 DEF Begin
<1> HIDE DEF m
<1>3. q \in CallType
  BY <1>1, <1>2, ZenonT(60) DEF CallType, NoCall, PCs, Ops
<1>4. /\ q.pc = pc /\ q.op = op /\ q.n = m /\ q.fd = d /\ q.timed = timed
      /\ ~q.cancelled /\ q.result = "ok"
  BY <1>1 DEF NoCall
<1> HIDE DEF q
<1>5. call'[f] = q /\ call' \in [Fibers -> CallType] /\ Others(f)
  BY <1>1, <1>2, <1>3 DEF Others
<1> QED BY <1>4, <1>5 DEF Begun, m

\* sleep() begins and yields in one step.
LEMMA SleepBegins ==
    ASSUME HookTypes, NEW f \in Fibers, Sleep(f)
    PROVE  Begun(f, "parked", "sleep", 0, FALSE) /\ call' \in [Fibers -> CallType]
<1>1. call \in [Fibers -> CallType] /\ call[f].n \in Nat
  BY DEF HookTypes, CallType
<1> DEFINE m == call[f].n + 1
           q == [NoCall EXCEPT !.pc = "parked", !.op = "sleep", !.n = m]
<1>2. call' = [call EXCEPT ![f] = q] /\ m \in Nat
  BY <1>1 DEF Sleep
<1> HIDE DEF m
<1>3. q \in CallType
  BY <1>1, <1>2, Zenon DEF CallType, NoCall, PCs, Ops
<1>4. /\ q.pc = "parked" /\ q.op = "sleep" /\ q.n = m /\ q.fd = 0
      /\ q.timed = FALSE /\ ~q.cancelled /\ q.result = "ok"
  BY <1>1 DEF NoCall
<1> HIDE DEF q
<1>5. call'[f] = q /\ call' \in [Fibers -> CallType] /\ Others(f)
  BY <1>1, <1>2, <1>3 DEF Others
<1> QED BY <1>4, <1>5 DEF Begun, m

\* socket() and close() take the fiber and a descriptor.
LEMMA CallTaken ==
    ASSUME HookTypes, NEW f \in Fibers, NEW d \in Fds, NEW op \in Ops, NEW pc \in PCs,
           call' = [call EXCEPT ![f].pc = pc, ![f].fd = d, ![f].op = op]
    PROVE  Taken(f, pc, op, d) /\ call' \in [Fibers -> CallType]
<1>1. call \in [Fibers -> CallType] /\ call[f] \in CallType
  BY DEF HookTypes
<1> DEFINE q == [call[f] EXCEPT !.pc = pc, !.fd = d, !.op = op]
<1>2. call' = [call EXCEPT ![f] = q]
  BY <1>1, Zenon
<1>3. q \in CallType
  BY <1>1, Zenon DEF CallType
<1>4. /\ q.pc = pc /\ q.op = op /\ q.n = call[f].n /\ q.fd = d
      /\ q.timed = call[f].timed /\ q.cancelled = call[f].cancelled
      /\ q.expired = call[f].expired /\ q.result = call[f].result
  BY <1>1 DEF CallType
<1> HIDE DEF q
<1>5. call'[f] = q /\ call' \in [Fibers -> CallType] /\ Others(f)
  BY <1>1, <1>2, <1>3, ZenonT(30) DEF Others
<1> QED BY <1>4, <1>5, ZenonT(60) DEF Taken

\* A callback that changes only one flag of a call.
Flagged(f, cancelled, expired) ==
    /\ Others(f)
    /\ call'[f].pc = call[f].pc /\ call'[f].op = call[f].op /\ call'[f].n = call[f].n
    /\ call'[f].fd = call[f].fd /\ call'[f].timed = call[f].timed
    /\ call'[f].cancelled = cancelled /\ call'[f].expired = expired
    /\ call'[f].result = call[f].result

\* The expiry of a timer marks the call.
LEMMA ExpiryFlags ==
    ASSUME HookTypes, NEW f \in Fibers, NEW b \in BOOLEAN,
           call' = [call EXCEPT ![f].expired = @ \/ b]
    PROVE  /\ Flagged(f, call[f].cancelled, call[f].expired \/ b)
           /\ call' \in [Fibers -> CallType]
<1>1. call \in [Fibers -> CallType] /\ call[f] \in CallType
  BY DEF HookTypes
<1>2. call[f].expired \in BOOLEAN
  BY <1>1 DEF CallType
<1> DEFINE e == call[f].expired \/ b
           q == [call[f] EXCEPT !.expired = e]
<1>3. call' = [call EXCEPT ![f] = q] /\ e \in BOOLEAN
  BY <1>1, <1>2
<1> HIDE DEF e
<1>4. q \in CallType
  BY <1>1, <1>3 DEF CallType
<1>5. /\ q.pc = call[f].pc /\ q.op = call[f].op /\ q.n = call[f].n /\ q.fd = call[f].fd
      /\ q.timed = call[f].timed /\ q.cancelled = call[f].cancelled
      /\ q.expired = e /\ q.result = call[f].result
  BY <1>1 DEF CallType
<1> HIDE DEF q
<1>6. call'[f] = q /\ call' \in [Fibers -> CallType] /\ Others(f)
  BY <1>1, <1>3, <1>4 DEF Others
<1> QED BY <1>5, <1>6 DEF Flagged, e

\* The callback marks the timer_info.
LEMMA CancelFlags ==
    ASSUME HookTypes, NEW f \in Fibers, NEW b \in BOOLEAN,
           call' = [call EXCEPT ![f].cancelled = @ \/ b]
    PROVE  /\ Flagged(f, call[f].cancelled \/ b, call[f].expired)
           /\ call' \in [Fibers -> CallType]
<1>1. call \in [Fibers -> CallType] /\ call[f] \in CallType
  BY DEF HookTypes
<1>2. call[f].cancelled \in BOOLEAN
  BY <1>1 DEF CallType
<1> DEFINE e == call[f].cancelled \/ b
           q == [call[f] EXCEPT !.cancelled = e]
<1>3. call' = [call EXCEPT ![f] = q] /\ e \in BOOLEAN
  BY <1>1, <1>2
<1> HIDE DEF e
<1>4. q \in CallType
  BY <1>1, <1>3 DEF CallType
<1>5. /\ q.pc = call[f].pc /\ q.op = call[f].op /\ q.n = call[f].n /\ q.fd = call[f].fd
      /\ q.timed = call[f].timed /\ q.cancelled = e
      /\ q.expired = call[f].expired /\ q.result = call[f].result
  BY <1>1 DEF CallType
<1> HIDE DEF q
<1>6. call'[f] = q /\ call' \in [Fibers -> CallType] /\ Others(f)
  BY <1>1, <1>3, <1>4 DEF Others
<1> QED BY <1>5, <1>6 DEF Flagged, e
-----------------------------------------------------------------------------
\* Steps that neither open nor close a descriptor leave the contexts alone.
LEMMA CtxKept ==
    ASSUME CtxInv, UNCHANGED <<usable, sock, m_datas>>,
           \A f \in Fibers : call'[f].pc \in Owning =>
               /\ call[f].pc \in Owning /\ call'[f].fd = call[f].fd
               /\ call'[f].pc \in {"made", "closef"} => call[f].pc = call'[f].pc
    PROVE  CtxInv'
<1>1. OwnedFds /\ CtxFits /\ FreshContext
  BY DEF CtxInv
<1>2. OwnedFds'
  <2>1. \A f \in Fibers : call'[f].pc \in Owning => call'[f].fd \notin usable' /\ sock'[call'[f].fd] # 0
    BY <1>1, Zenon DEF OwnedFds
  <2>2. ASSUME NEW f \in Fibers, NEW g \in Fibers,
               f # g, call'[f].pc \in Owning, call'[g].pc \in Owning
        PROVE  call'[f].fd # call'[g].fd
    BY <1>1, <2>2, Zenon DEF OwnedFds
  <2> QED BY <1>1, <2>1, <2>2, Zenon DEF OwnedFds
<1>3. CtxFits'
  <2>1. ASSUME NEW f \in Fibers, call'[f].pc \in {"made", "closef"} PROVE m_datas'[call'[f].fd] = NoCtx
    BY <1>1, <2>1 DEF CtxFits, Owning
  <2> QED BY <1>1, <2>1, Zenon DEF CtxFits
<1>4. FreshContext'
  BY <1>1 DEF FreshContext
<1> QED BY <1>2, <1>3, <1>4 DEF CtxInv

\* Calls are numbered upwards, and while a call goes on it keeps its operation, its
\* descriptor and the knowledge that a timer has expired.
CallGoesOn(g) ==
    /\ call'[g].n >= call[g].n
    /\ call'[g].n = call[g].n /\ call'[g].pc # "out" /\ call'[g].op \in Waits =>
          /\ call[g].pc # "out" /\ call'[g].op = call[g].op
          /\ call'[g].fd = call[g].fd /\ (call[g].expired => call'[g].expired)
    /\ call'[g].cancelled => call'[g].expired
    /\ call'[g].result # "early"

\* The fields of the timer of a call; only a sleep has the timer of a sleep.
LEMMA TimerOfCall ==
    ASSUME NEW f \in Fibers
    PROVE  /\ TimerOf(f).f = f /\ TimerOf(f).n = call[f].n
           /\ TimerOf(f).fd = call[f].fd /\ TimerOf(f).ev = Event[call[f].op]
  BY Zenon DEF TimerOf

LEMMA EventNames == Event["sleep"] = "sleep" /\ \A op \in Waits : Event[op] \in {"READ", "WRITE"}
  BY DEF Event, Waits

\* A step that touches neither calls, timers, callbacks nor events keeps what is said
\* of timers and of waiting.
LEMMA TimersStay ==
    ASSUME TimerInv, UNCHANGED <<timers, cbs, call>>
    PROVE  TimerInv'
<1>1. UNCHANGED Armed /\ \A x : UNCHANGED InCall(x)
  BY Zenon DEF Armed, InCall
<1>2. \A f : UNCHANGED TimerOf(f)
  BY Zenon DEF TimerOf
<1>3. TimerFits'
  BY <1>1, <1>2, Zenon DEF TimerInv, TimerFits
<1>4. ExpiredFits'
  BY <1>1, Zenon DEF TimerInv, ExpiredFits
<1> QED BY <1>3, <1>4, Zenon DEF TimerInv, SleepFits, TimeoutIsReal

LEMMA OneThreadStays ==
    ASSUME OneThread, UNCHANGED <<sock, registered, timers, cbs, queue, call>>
    PROVE  OneThread'
<1>1. \A f : UNCHANGED TimerOf(f) /\ UNCHANGED Runs(f)
  BY Zenon DEF TimerOf, Runs
<1>2. \A f : UNCHANGED OnTheWay(f)
  BY <1>1, Zenon DEF OnTheWay
<1>3. \A f : UNCHANGED Listening(f)
  BY Zenon DEF Listening
<1>4. \A f \in Fibers : WaitFits(f)'
  BY <1>1, <1>2, <1>3, Zenon DEF OneThread, WaitFits
<1>5. \A f \in Fibers : CloseQuiet(f)'
  BY Zenon DEF OneThread, CloseQuiet
<1>6. Exclusive'
  BY <1>1, Zenon DEF OneThread, Exclusive
<1> QED BY <1>4, <1>5, <1>6, Zenon DEF OneThread

\* What a step must keep for the timers: calls go on or are over, within a call
\* the timer stays the same, a new timer is that of a call, and a new callback comes
\* from a timer that has expired.
LEMMA TimersKept ==
    ASSUME HookTypes, TimerInv, HookTypes',
           \A f \in Fibers : CallGoesOn(f),
           \A x \in timers' : \/ x \in Armed
                              \/ x.n <= call'[x.f].n /\ (InCall(x)' => x = TimerOf(x.f)'),
           \A c \in cbs' :
               /\ \/ \E b \in cbs : b.timer = c.timer
                  \/ c.timer \in timers /\ (InCall(c.timer)' => call'[c.timer.f].expired)
               /\ c.timer.ev = "sleep" => c.at = "queued"
    PROVE  TimerInv'
<1> USE DEF CallGoesOn
<1>1. TimerFits /\ ExpiredFits
  BY Zenon DEF TimerInv
<1>2. \A f \in Fibers : call[f].n \in Nat /\ call'[f].n \in Nat
  BY Zenon DEF HookTypes, CallType
<1>3. ASSUME NEW x \in Armed
      PROVE  /\ x.f \in Fibers /\ x.n \in Nat /\ x.n <= call'[x.f].n
             /\ InCall(x)' => /\ InCall(x) /\ x = TimerOf(x.f)'
                              /\ (call[x.f].expired => call'[x.f].expired)
  <2>1. x.f \in Fibers /\ x.n \in Nat
    BY DEF Armed, HookTypes, Timer
  <2>2. x.n <= call[x.f].n
    BY <1>1, Zenon DEF TimerFits
  <2>3. x.n <= call'[x.f].n
    BY <1>2, <2>1, <2>2
  <2>4. ASSUME InCall(x)'
        PROVE  /\ call'[x.f].n = call[x.f].n /\ InCall(x) /\ call'[x.f].op = call[x.f].op
               /\ call'[x.f].fd = call[x.f].fd /\ (call[x.f].expired => call'[x.f].expired)
    <3>1. call'[x.f].n = x.n /\ call'[x.f].pc # "out" /\ call'[x.f].op \in Waits
      BY <2>4, Zenon DEF InCall, Waits
    <3>2. call'[x.f].n = call[x.f].n
      BY <1>2, <2>1, <2>2, <3>1
    <3> QED BY <2>1, <3>1, <3>2, Zenon DEF InCall, Waits
  <2>5. ASSUME InCall(x)' PROVE x = TimerOf(x.f)'
    BY <1>1, <2>4, <2>5, Zenon DEF TimerFits, TimerOf
  <2> QED BY <2>1, <2>3, <2>4, <2>5, Zenon
<1>4. \A c \in cbs' : c.timer \in Armed
  BY Zenon DEF Armed
<1>5. TimerFits'
  <2> SUFFICES ASSUME NEW x \in Armed'
               PROVE  x.n <= call'[x.f].n /\ (InCall(x)' => x = TimerOf(x.f)')
    BY Zenon DEF TimerFits
  <2>1. x \in timers' \/ \E c \in cbs' : c.timer = x
    BY Zenon DEF Armed
  <2>2. CASE x \in Armed
    BY <1>3, <2>2, Zenon
  <2> QED BY <1>4, <2>1, <2>2, Zenon
<1>6. ExpiredFits'
  <2>1. ASSUME NEW c \in cbs', InCall(c.timer)' PROVE call'[c.timer.f].expired
    <3>1. ASSUME NEW b \in cbs, b.timer = c.timer PROVE call'[c.timer.f].expired
      <4>1. b.timer \in Armed
        BY Zenon DEF Armed
      <4>2. InCall(b.timer) /\ (call[b.timer.f].expired => call'[b.timer.f].expired)
        BY <1>3, <2>1, <3>1, <4>1, Zenon
      <4> QED BY <1>1, <3>1, <4>2, Zenon DEF ExpiredFits
    <3> QED BY <2>1, <3>1, Zenon
  <2> QED BY <2>1, Zenon DEF ExpiredFits
<1>7. SleepFits' /\ TimeoutIsReal'
  BY Zenon DEF SleepFits, TimeoutIsReal
<1> QED BY <1>5, <1>6, <1>7, Zenon DEF TimerInv

\* With one thread, a step of a fiber disturbs nobody's wait as long as it only takes
\* its own timer, and schedules those whose registration it takes.
LEMMA FiberStepWaits ==
    ASSUME HookTypes, ~several, OneThread, NEW f \in Fibers, Turn(f), Others(f), cbs' = cbs,
           \A g \in Fibers \ {f} : g \in queue => g \in queue',
           \A x \in timers : x.f # f => x \in timers',
           \A r \in registered : r.sock = sock[r.fd] =>
               (r \in registered' /\ sock'[r.fd] = sock[r.fd]) \/ r.f \in queue',
           WaitFits(f)', CloseQuiet(f)'
    PROVE  OneThread'
<1>1. (\A g \in Fibers \ {f} : ~Runs(g)) /\ \A c \in cbs : c.at = "queued"
  BY Zenon DEF Turn
<1>2. \A g \in Fibers \ {f} : call'[g] = call[g] /\ ~Runs(g)'
  BY <1>1, Zenon DEF Others, Runs
<1>3. Exclusive'
  BY <1>1, <1>2, Zenon DEF Exclusive
<1>4. ASSUME NEW g \in Fibers \ {f} PROVE CloseQuiet(g)'
  BY <1>2, Zenon DEF CloseQuiet, Runs
<1>5. ASSUME NEW g \in Fibers \ {f} PROVE WaitFits(g)'
  <2>1. WaitFits(g) /\ call'[g] = call[g] /\ TimerOf(g)' = TimerOf(g) /\ TimerOf(g).f = g
    BY <1>2, Zenon DEF OneThread, TimerOf
  <2>2. OnTheWay(g) => OnTheWay(g)'
    BY <2>1, Zenon DEF OnTheWay
  <2>3. Listening(g) => Listening(g)' \/ g \in queue'
    BY <2>1, Zenon DEF Listening
  <2> QED BY <2>1, <2>2, <2>3 DEF WaitFits
<1> QED BY <1>3, <1>4, <1>5, Zenon DEF OneThread

\* A fiber that moves on, returns or begins a call, and arms no timer.
LEMMA TimersOfOthers ==
    ASSUME HookTypes, TimerInv, HookTypes', NEW f \in Fibers, Others(f),
           timers' \subseteq timers, cbs' = cbs,
           \/ \E pc \in PCs : call[f].pc # "out" /\ Moved(f, pc)
           \/ \E r \in {"ok", "stray"} : Over(f, r)
           \/ \E pc \in PCs, op \in Ops, d \in Fds \cup {0}, b \in BOOLEAN : Begun(f, pc, op, d, b)
           \/ \E pc \in PCs, op \in {"socket", "close"}, d \in Fds : Taken(f, pc, op, d)
    PROVE  TimerInv'
<1>1. ExpiredFits /\ SleepFits /\ TimeoutIsReal
  BY Zenon DEF TimerInv
<1>2. \A g \in Fibers : call[g].n \in Nat
  BY Zenon DEF HookTypes, CallType
<1>3. ASSUME NEW g \in Fibers PROVE CallGoesOn(g)
  <2>1. CASE g # f
    BY <1>1, <1>2, <2>1 DEF Others, ExpiredFits, TimeoutIsReal, CallGoesOn
  <2>2. ASSUME NEW pc \in PCs, call[f].pc # "out", Moved(f, pc), g = f
        PROVE  CallGoesOn(g)
    BY <1>1, <1>2, <2>2 DEF Moved, ExpiredFits, TimeoutIsReal, CallGoesOn
  <2>3. ASSUME NEW r \in {"ok", "stray"}, Over(f, r), g = f PROVE CallGoesOn(g)
    BY <1>2, <2>3 DEF Over, CallGoesOn
  <2>4. ASSUME NEW pc \in PCs, NEW op \in Ops, NEW d \in Fds \cup {0}, NEW b \in BOOLEAN,
               Begun(f, pc, op, d, b), g = f
        PROVE  CallGoesOn(g)
    <3>1. call'[g].n = call[g].n + 1 /\ ~call'[g].cancelled /\ call'[g].result = "ok"
      BY <2>4, Zenon DEF Begun
    <3> QED BY <1>2, <3>1 DEF CallGoesOn
  <2>5. ASSUME NEW pc \in PCs, NEW op \in {"socket", "close"}, NEW d \in Fds,
               Taken(f, pc, op, d), g = f
        PROVE  CallGoesOn(g)
    BY <1>1, <1>2, <2>5 DEF Taken, ExpiredFits, TimeoutIsReal, Waits, CallGoesOn
  <2> QED BY <2>1, <2>2, <2>3, <2>4, <2>5, Zenon
<1>4. \A x \in timers' : x \in Armed
  BY Zenon DEF Armed
<1>5. \A c \in cbs' : (\E b \in cbs : b.timer = c.timer) /\ (c.timer.ev = "sleep" => c.at = "queued")
  BY <1>1, Zenon DEF SleepFits
<1> QED BY <1>3, <1>4, <1>5, TimersKept, Zenon

\* A step of f leaves the operations of the other fibers alone.
LEMMA OpFitsKept ==
    ASSUME OpFits, NEW f \in Fibers, Others(f), OpFitsAt(f)'
    PROVE  OpFits'
<1>1. ASSUME NEW g \in Fibers \ {f} PROVE OpFitsAt(g)'
  <2>1. OpFitsAt(g) /\ call'[g] = call[g]
    BY Zenon DEF OpFits, Others
  <2> QED BY <2>1 DEF OpFitsAt
<1> QED BY <1>1, Zenon DEF OpFits
-----------------------------------------------------------------------------
\* socket(): the kernel hands out a number nobody has.
LEMMA SocketKeeps ==
    ASSUME HInv, NEW f \in Fibers, Socket(f)
    PROVE  HInv'
<1>0. /\ HookTypes /\ OpFits /\ OwnedFds /\ CtxFits /\ FreshContext /\ CtxInv /\ TimerInv
      /\ Turn(f) /\ call[f].pc = "out" /\ (~several => OneThread)
  BY Zenon DEF HInv, CtxInv, Socket, At
<1>1. PICK d \in Fds :
          /\ sock[d] = 0
          /\ sock' = [sock EXCEPT ![d] = made + 1]
          /\ link' = [link EXCEPT ![d] = "idle"]
          /\ readable' = [readable EXCEPT ![d] = FALSE]
          /\ call' = [call EXCEPT ![f].pc = "made", ![f].fd = d, ![f].op = "socket"]
  BY Zenon DEF Socket
<1>2. /\ made' = made + 1
      /\ UNCHANGED <<several, m_datas, usable, registered, timers, cbs, queue>>
  BY Zenon DEF Socket
<1>3. Taken(f, "made", "socket", d) /\ call' \in [Fibers -> CallType]
  BY <1>0, <1>1, CallTaken, Zenon DEF PCs, Ops
<1>4. HookTypes'
  BY <1>0, <1>1, <1>2, <1>3 DEF HookTypes
<1>5. OpFits'
  <2>1. OpFitsAt(f)'
    BY <1>0, <1>3, Zenon DEF OpFits, OpFitsAt, Taken, Waits
  <2> QED BY <1>0, <1>3, <2>1, OpFitsKept, Zenon DEF Taken
<1>6. made + 1 # 0 /\ \A e \in Fds : sock'[e] = IF e = d THEN made + 1 ELSE sock[e]
  BY <1>0, <1>1 DEF HookTypes
<1>7. usable \subseteq Fds /\ d \notin usable /\ \A g \in Fibers : call[g].pc \in Owning => call[g].fd \in Fds \ {d}
  BY <1>0, <1>1, Zenon DEF HookTypes, OwnedFds, OpFits, OpFitsAt, Owning
<1>8. /\ call'[f].pc = "made" /\ call'[f].fd = d
      /\ \A g \in Fibers \ {f} : call'[g] = call[g]
  BY <1>3, Zenon DEF Taken, Others
<1>9. CtxInv'
  <2>1. OwnedFds'
    <3>1. \A g \in Fibers : call'[g].pc \in Owning => call'[g].fd \notin usable' /\ sock'[call'[g].fd] # 0
      BY <1>0, <1>2, <1>6, <1>7, <1>8 DEF OwnedFds
    <3>2. ASSUME NEW g \in Fibers, NEW h \in Fibers,
                 g # h, call'[g].pc \in Owning, call'[h].pc \in Owning
          PROVE  call'[g].fd # call'[h].fd
      BY <1>0, <1>7, <1>8, <3>2 DEF OwnedFds
    <3>3. \A e \in usable' : sock'[e] # 0
      BY <1>0, <1>2, <1>6, <1>7, Zenon DEF OwnedFds
    <3> QED BY <3>1, <3>2, <3>3, Zenon DEF OwnedFds
  <2>2. CtxFits'
    <3>1. \A e \in Fds : sock'[e] = 0 => m_datas'[e] = NoCtx
      BY <1>0, <1>2, <1>6, Zenon DEF CtxFits
    <3>2. ASSUME NEW g \in Fibers, call'[g].pc \in {"made", "closef"} PROVE m_datas'[call'[g].fd] = NoCtx
      BY <1>0, <1>1, <1>2, <1>8, <3>2, ZenonT(30) DEF CtxFits
    <3> QED BY <3>1, <3>2, ZenonT(60) DEF CtxFits
  <2>3. FreshContext'
    BY <1>0, <1>2, <1>6, <1>7 DEF FreshContext
  <2> QED BY <2>1, <2>2, <2>3, Zenon DEF CtxInv
<1>10. TimerInv'
  BY <1>0, <1>2, <1>3, <1>4, TimersOfOthers, Zenon DEF Taken, PCs
<1>11. ASSUME ~several' PROVE OneThread'
  <2>1. \A r \in registered : r.sock = sock[r.fd] => sock'[r.fd] = sock[r.fd]
    BY <1>0, <1>1, <1>6, Zenon DEF HookTypes, Reg
  <2>2. WaitFits(f)' /\ CloseQuiet(f)'
    BY <1>0, <1>3, Zenon DEF WaitFits, CloseQuiet, Taken, OpFits, OpFitsAt
  <2> QED BY <1>0, <1>2, <1>3, <1>11, <2>1, <2>2, FiberStepWaits, Zenon DEF Taken
<1> QED BY <1>4, <1>5, <1>9, <1>10, <1>11, Zenon DEF HInv

\* FdManager::get(fd, true): the context is made for the socket that is open now.
LEMMA GetCtxKeeps ==
    ASSUME HInv, NEW f \in Fibers, GetCtx(f)
    PROVE  HInv'
<1> DEFINE d == call[f].fd
<1>0. /\ HookTypes /\ OpFits /\ OwnedFds /\ CtxFits /\ FreshContext /\ CtxInv /\ TimerInv
      /\ Turn(f) /\ call[f].pc = "made" /\ (~several => OneThread)
  BY Zenon DEF HInv, CtxInv, GetCtx, At
<1>1. d \in Fds /\ d \notin usable /\ sock[d] \in Nat /\ sock[d] # 0 /\ m_datas[d] = NoCtx
  BY <1>0, Zenon DEF OpFits, OpFitsAt, Owning, OwnedFds, CtxFits, HookTypes
<1>2. /\ m_datas' = [m_datas EXCEPT ![d] = [sock |-> sock[d], timed |-> FALSE]]
      /\ usable' = usable \cup {d}
      /\ UNCHANGED <<several, kernel, registered, timers, cbs, queue>>
  BY <1>1, Zenon DEF GetCtx
<1>3. Over(f, "ok") /\ call' \in [Fibers -> CallType]
  BY <1>0, ReturnEnds, Zenon DEF GetCtx
<1>4. [sock |-> sock[d], timed |-> FALSE] \in Ctx
  BY <1>1, Zenon DEF Ctx
<1>5. HookTypes'
  BY <1>0, <1>1, <1>2, <1>3, <1>4, Zenon DEF HookTypes, kernel
<1>6. OpFits'
  <2>1. OpFitsAt(f)'
    BY <1>3, Zenon DEF OpFitsAt, Over, Waits
  <2> QED BY <1>0, <1>3, <2>1, OpFitsKept, Zenon DEF Over
<1>7. m_datas'[d] # NoCtx /\ m_datas'[d].sock = sock[d]
  BY <1>0, <1>1, <1>2, <1>4, HookAssumption, Zenon DEF HookTypes, Ctx
<1>8. \A e \in Fds \ {d} : m_datas'[e] = m_datas[e]
  BY <1>0, <1>2, Zenon DEF HookTypes
<1>9. /\ call'[f].pc = "out" /\ sock' = sock /\ usable \subseteq Fds
      /\ \A g \in Fibers \ {f} : call'[g] = call[g] /\ (call[g].pc \in Owning => call[g].fd \in Fds \ {d})
  BY <1>0, <1>2, <1>3, Zenon DEF Over, Others, OwnedFds, Owning, OpFits, OpFitsAt, HookTypes, kernel
<1>10. CtxInv'
  <2>1. OwnedFds'
    <3>1. \A g \in Fibers : call'[g].pc \in Owning => call'[g].fd \notin usable' /\ sock'[call'[g].fd] # 0
      BY <1>0, <1>2, <1>9, Zenon DEF OwnedFds, Owning
    <3>2. ASSUME NEW g \in Fibers, NEW h \in Fibers,
                 g # h, call'[g].pc \in Owning, call'[h].pc \in Owning
          PROVE  call'[g].fd # call'[h].fd
      BY <1>0, <1>9, <3>2, ZenonT(60) DEF OwnedFds, Owning
    <3>3. \A e \in usable' : sock'[e] # 0
      BY <1>0, <1>1, <1>2, <1>9, Zenon DEF OwnedFds
    <3> QED BY <3>1, <3>2, <3>3, Zenon DEF OwnedFds
  <2>2. CtxFits'
    <3>1. \A e \in Fds : sock'[e] = 0 => m_datas'[e] = NoCtx
      BY <1>0, <1>1, <1>8, <1>9, Zenon DEF CtxFits
    <3>2. ASSUME NEW g \in Fibers, call'[g].pc \in {"made", "closef"} PROVE m_datas'[call'[g].fd] = NoCtx
      BY <1>0, <1>8, <1>9, <3>2 DEF CtxFits, Owning
    <3> QED BY <3>1, <3>2, Zenon DEF CtxFits
  <2>3. FreshContext'
    BY <1>0, <1>2, <1>7, <1>8, <1>9 DEF FreshContext
  <2> QED BY <2>1, <2>2, <2>3, Zenon DEF CtxInv
<1>11. TimerInv'
  BY <1>0, <1>2, <1>3, <1>5, TimersOfOthers, Zenon DEF Over
<1>12. ASSUME ~several' PROVE OneThread'
  <2>1. WaitFits(f)' /\ CloseQuiet(f)'
    BY <1>3, Zenon DEF WaitFits, CloseQuiet, Over
  <2> QED BY <1>0, <1>2, <1>3, <1>9, <1>12, <2>1, FiberStepWaits, Zenon DEF Over
<1> QED BY <1>5, <1>6, <1>10, <1>11, <1>12, Zenon DEF HInv

\* setsockopt() changes a timeout of a context that is there.
LEMMA SetTimeoutKeeps ==
    ASSUME HInv, NEW f \in Fibers, NEW d \in Fds, SetTimeout(f, d)
    PROVE  HInv'
<1>0. HookTypes /\ OpFits /\ OwnedFds /\ CtxFits /\ FreshContext /\ TimerInv /\ (~several => OneThread)
  BY Zenon DEF HInv, CtxInv
<1>1. /\ d \in usable /\ m_datas[d] # NoCtx /\ m_datas[d] \in Ctx
      /\ UNCHANGED <<several, kernel, usable, registered, timers, cbs, queue, call>>
  BY <1>0, Zenon DEF SetTimeout, HookTypes
<1> DEFINE q == [m_datas[d] EXCEPT !.timed = ~@]
<1>2. q \in Ctx /\ q.sock = m_datas[d].sock
  BY <1>1, Zenon DEF Ctx
<1>3. m_datas' = [m_datas EXCEPT ![d] = q]
  BY <1>0, Zenon DEF SetTimeout, HookTypes
<1> HIDE DEF q
<1>4. m_datas'[d] = q /\ q # NoCtx /\ \A e \in Fds \ {d} : m_datas'[e] = m_datas[e]
  BY <1>0, <1>2, <1>3, HookAssumption, Zenon DEF HookTypes, Ctx
<1>5. HookTypes'
  BY <1>0, <1>1, <1>2, <1>3, Zenon DEF HookTypes, kernel
<1>6. OpFits'
  BY <1>0, <1>1, Zenon DEF OpFits, OpFitsAt
<1>7. OwnedFds'
  BY <1>0, <1>1, Zenon DEF OwnedFds, kernel
<1>8. CtxFits'
  <2>1. sock[d] # 0 /\ \A g \in Fibers : call[g].pc \in Owning => call[g].fd \in Fds \ {d}
    BY <1>0, <1>1, Zenon DEF OwnedFds, OpFits, OpFitsAt, Owning
  <2>2. \A e \in Fds : sock'[e] = 0 => m_datas'[e] = NoCtx
    BY <1>0, <1>1, <1>4, <2>1, Zenon DEF CtxFits, kernel
  <2>3. ASSUME NEW g \in Fibers, call'[g].pc \in {"made", "closef"} PROVE m_datas'[call'[g].fd] = NoCtx
    BY <1>0, <1>1, <1>4, <2>1, <2>3 DEF CtxFits, Owning
  <2> QED BY <2>2, <2>3, Zenon DEF CtxFits
<1>9. FreshContext'
  BY <1>0, <1>1, <1>2, <1>4, Zenon DEF FreshContext, kernel, HookTypes
<1>10. TimerInv'
  BY <1>0, <1>1, TimersStay, Zenon
<1>11. OneThread => OneThread'
  BY <1>1, OneThreadStays, Zenon DEF kernel
<1> QED BY <1>0, <1>1, <1>5, <1>6, <1>7, <1>8, <1>9, <1>10, <1>11, Zenon DEF HInv, CtxInv

\* What the steps of a waiting call have in common: no descriptor changes hands.
LEMMA WaitingCallKeeps ==
    ASSUME HInv, HookTypes', NEW f \in Fibers, Turn(f), Others(f),
           UNCHANGED <<several, usable, sock, m_datas, cbs>>,
           call'[f].pc \notin Owning, OpFitsAt(f)', TimerInv',
           \A g \in Fibers \ {f} : g \in queue => g \in queue',
           \A x \in timers : x.f # f => x \in timers',
           registered \subseteq registered',
           ~several /\ OneThread => WaitFits(f)'
    PROVE  HInv'
<1>0. HookTypes /\ OpFits /\ CtxInv /\ (~several => OneThread)
  BY Zenon DEF HInv
<1>1. OpFits'
  BY <1>0, OpFitsKept, Zenon
<1>2. CtxInv'
  BY <1>0, CtxKept, Zenon DEF Others
<1>3. ASSUME ~several' PROVE OneThread'
  <2>1. CloseQuiet(f)'
    BY Zenon DEF CloseQuiet, Owning
  <2> QED BY <1>0, <1>3, <2>1, FiberStepWaits, Zenon
<1> QED BY <1>1, <1>2, <1>3, Zenon DEF HInv

\* do_io() and connect_with_timeout() start with a timer_info of their own.
LEMMA BeginKeeps ==
    ASSUME HInv, NEW f \in Fibers, NEW d \in Fds, DoIo(f, d) \/ Connect(f, d)
    PROVE  HInv'
<1>0. HookTypes /\ TimerInv /\ UNCHANGED <<several, sock, made, m_datas, usable, registered, timers, cbs, queue>>
  BY Zenon DEF HInv, DoIo, Connect, kernel
<1>1. PICK pc \in {"fun", "arm"}, op \in Waits, timed \in BOOLEAN, direct \in BOOLEAN :
          Begin(f, d, op, pc, timed, direct)
  <2>1. CASE DoIo(f, d)
    <3>1. (m_datas[d] # NoCtx /\ m_datas[d].timed) \in BOOLEAN /\ (m_datas[d] = NoCtx) \in BOOLEAN
      BY <1>0, Zenon DEF HookTypes, Ctx
    <3> QED BY <2>1, <3>1, Zenon DEF DoIo, Waits
  <2>2. CASE Connect(f, d)
    BY <2>2, Zenon DEF Connect, Waits
  <2> QED BY <2>1, <2>2, Zenon
<1>2. Begun(f, pc, op, d, timed) /\ call' \in [Fibers -> CallType] /\ Turn(f) /\ pc \in PCs /\ op \in Ops
  <2>1. pc \in PCs /\ op \in Ops
    BY <1>1, Zenon DEF Waits, PCs, Ops
  <2>2. Turn(f)
    BY <1>1, Zenon DEF Begin, At
  <2> QED BY <1>0, <1>1, <2>1, <2>2, BeginBegins, Zenon
<1>3. HookTypes'
  <2>1. readable' \in [Fds -> BOOLEAN] /\ link' \in [Fds -> {"idle", "connecting", "up", "failed"}]
    BY <1>0, Zenon DEF DoIo, Connect, HookTypes, kernel
  <2> QED BY <1>0, <1>2, <2>1, Zenon DEF HookTypes
<1>4. TimerInv'
  BY <1>0, <1>2, <1>3, TimersOfOthers, Zenon DEF Begun
<1>5. OpFitsAt(f)' /\ call'[f].pc \notin Owning
  <2>1. call'[f].pc = pc /\ call'[f].op = op /\ call'[f].fd = d
    BY <1>2, Zenon DEF Begun
  <2> QED BY <1>1, <2>1, Zenon DEF OpFitsAt, Waits, Owning
<1>6. WaitFits(f)'
  BY <1>1, <1>2, Zenon DEF Begun, WaitFits
<1> QED BY <1>0, <1>2, <1>3, <1>4, <1>5, <1>6, WaitingCallKeeps, Zenon DEF Begun

\* The original call: it returns, or goes on to wait.
LEMMA FunKeeps ==
    ASSUME HInv, NEW f \in Fibers, Fun(f)
    PROVE  HInv'
<1>0. /\ HookTypes /\ TimerInv /\ OpFits /\ Turn(f) /\ call[f].pc = "fun"
      /\ UNCHANGED <<several, sock, made, link, m_datas, usable, registered, timers, cbs, queue>>
  BY Zenon DEF HInv, Fun, At
<1>1. (\E r \in {"ok", "stray"} : Return(f, r)) \/ Goto(f, "arm")
  BY Zenon DEF Fun
<1>2. /\ (\E r \in {"ok", "stray"} : Over(f, r)) \/ Moved(f, "arm")
      /\ call' \in [Fibers -> CallType] /\ "arm" \in PCs
  BY <1>0, <1>1, ReturnEnds, GotoMoves, Zenon DEF PCs
<1>3. HookTypes'
  <2>1. readable' \in [Fds -> BOOLEAN]
    BY <1>0, Zenon DEF Fun, HookTypes
  <2> QED BY <1>0, <1>2, <2>1, Zenon DEF HookTypes
<1>4. Others(f)
  BY <1>2, Zenon DEF Over, Moved
<1>5. TimerInv'
  BY <1>0, <1>2, <1>3, <1>4, TimersOfOthers, Zenon
<1>6. OpFitsAt(f)' /\ call'[f].pc \notin Owning
  BY <1>0, <1>2, Zenon DEF Over, Moved, OpFits, OpFitsAt, Waits, Owning
<1>7. OneThread => WaitFits(f)'
  BY <1>0, <1>2, Zenon DEF Over, Moved, OneThread, WaitFits
<1> QED BY <1>0, <1>3, <1>4, <1>5, <1>6, <1>7, WaitingCallKeeps, Zenon

\* addConditionTimer()
LEMMA ArmKeeps ==
    ASSUME HInv, NEW f \in Fibers, Arm(f)
    PROVE  HInv'
<1>0. /\ HookTypes /\ TimerInv /\ OpFits /\ Turn(f) /\ call[f].pc = "arm"
      /\ timers' = IF call[f].timed THEN timers \cup {TimerOf(f)} ELSE timers
      /\ UNCHANGED <<several, kernel, m_datas, usable, registered, cbs, queue>>
  BY Zenon DEF HInv, Arm, At
<1>1. Moved(f, "add") /\ call' \in [Fibers -> CallType]
  BY <1>0, GotoMoves, Zenon DEF PCs, Arm
<1>2. call[f].op \in Waits /\ call[f].fd \in Fds /\ call[f].n \in Nat
  BY <1>0, Zenon DEF OpFits, OpFitsAt, HookTypes, CallType
<1>3. TimerOf(f) \in Timer
  BY <1>2 DEF TimerOf, Timer, Event, Waits
<1>4. HookTypes'
  BY <1>0, <1>1, <1>3, Zenon DEF HookTypes, kernel
<1>5. Others(f) /\ TimerOf(f)' = TimerOf(f) /\ TimerOf(f).f = f /\ TimerOf(f).n = call[f].n
  BY <1>1, Zenon DEF Moved, TimerOf
<1>6. TimerInv'
  <2>1. ExpiredFits /\ SleepFits /\ TimeoutIsReal
    BY <1>0, Zenon DEF TimerInv
  <2>2. \A g \in Fibers : call[g].n \in Nat
    BY <1>0, Zenon DEF HookTypes, CallType
  <2>3. ASSUME NEW g \in Fibers PROVE CallGoesOn(g)
    <3>1. CASE g # f
      BY <1>5, <2>1, <2>2, <3>1, SMTT(30) DEF Others, ExpiredFits, TimeoutIsReal, CallGoesOn
    <3>2. CASE g = f
      BY <1>0, <1>1, <2>1, <2>2, <3>2, SMTT(30) DEF Moved, ExpiredFits, TimeoutIsReal, CallGoesOn
    <3> QED BY <3>1, <3>2, Zenon
  <2>4. ASSUME NEW x \in timers'
        PROVE  \/ x \in Armed
               \/ x.n <= call'[x.f].n /\ (InCall(x)' => x = TimerOf(x.f)')
    <3>1. CASE x \in timers
      BY <3>1, Zenon DEF Armed
    <3>2. CASE x = TimerOf(f)
      BY <1>1, <1>5, <2>2, <3>2 DEF Moved
    <3> QED BY <1>0, <3>1, <3>2, Zenon
  <2>5. \A c \in cbs' : (\E b \in cbs : b.timer = c.timer) /\ (c.timer.ev = "sleep" => c.at = "queued")
    BY <1>0, <2>1, Zenon DEF SleepFits
  <2> QED BY <1>0, <1>4, <2>3, <2>4, <2>5, TimersKept, Zenon
<1>7. OpFitsAt(f)' /\ call'[f].pc \notin Owning
  BY <1>0, <1>1, Zenon DEF Moved, OpFits, OpFitsAt, Waits, Owning
<1>8. OneThread => WaitFits(f)'
  BY <1>0, <1>1, <1>5, Zenon DEF Moved, OneThread, WaitFits, OnTheWay
<1> QED BY <1>0, <1>4, <1>5, <1>6, <1>7, <1>8, WaitingCallKeeps, Zenon DEF kernel

\* addEvent() and yield(), or the way out when the descriptor is closed.
LEMMA AddEventKeeps ==
    ASSUME HInv, NEW f \in Fibers, AddEvent(f)
    PROVE  HInv'
<1> DEFINE d == call[f].fd
           r == [f |-> f, fd |-> d, ev |-> Event[call[f].op], sock |-> sock[d]]
<1>0. /\ HookTypes /\ TimerInv /\ OpFits /\ Turn(f) /\ call[f].pc = "add"
      /\ UNCHANGED <<several, kernel, m_datas, usable, cbs, queue>>
  BY Zenon DEF HInv, AddEvent, At
<1>1. call[f].op \in Waits /\ d \in Fds /\ sock[d] \in Nat
  BY <1>0, Zenon DEF OpFits, OpFitsAt, HookTypes, CallType
<1>2. TimerOf(f).f = f
  BY Zenon DEF TimerOf
<1>3. CASE /\ sock[d] # 0 /\ registered' = registered \cup {r}
           /\ Goto(f, "parked") /\ timers' = timers
  <2>1. Moved(f, "parked") /\ call' \in [Fibers -> CallType] /\ "parked" \in PCs
    BY <1>0, <1>3, GotoMoves, ZenonT(60) DEF PCs
  <2>2. r \in Reg
    BY <1>1, <1>3, SMTT(30) DEF Reg, Event, Waits
  <2>3. HookTypes'
    BY <1>0, <1>3, <2>1, <2>2, Zenon DEF HookTypes, kernel
  <2>4. Others(f) /\ TimerOf(f)' = TimerOf(f)
    BY <2>1, Zenon DEF Moved, TimerOf
  <2>5. TimerInv'
    BY <1>0, <1>3, <2>1, <2>3, <2>4, TimersOfOthers, Zenon
  <2>6. OpFitsAt(f)' /\ call'[f].pc \notin Owning
    BY <1>0, <2>1, Zenon DEF Moved, OpFits, OpFitsAt, Waits, Owning
  <2>7. ASSUME OneThread PROVE WaitFits(f)'
    <3>1. ~call[f].cancelled /\ (call[f].timed => OnTheWay(f))
      BY <1>0, <2>7, Zenon DEF OneThread, WaitFits
    <3>2. call'[f].timed => OnTheWay(f)'
      BY <1>0, <1>3, <2>1, <2>4, <3>1, Zenon DEF Moved, OnTheWay
    <3>3. Listening(f)'
      <4>1. /\ r \in registered' /\ r.f = f /\ r.fd = d /\ r.ev = Event[call[f].op]
            /\ r.sock = sock[d]
        BY <1>3, Zenon
      <4>2. call'[f].fd = d /\ call'[f].op = call[f].op /\ sock' = sock
        BY <1>0, <2>1, Zenon DEF Moved, kernel
      <4> HIDE DEF r, d
      <4> QED BY <4>1, <4>2, Zenon DEF Listening
    <3> QED BY <1>1, <2>1, <3>1, <3>2, <3>3, Zenon DEF Moved, WaitFits, Waits
  <2> QED BY <1>0, <1>3, <2>3, <2>4, <2>5, <2>6, <2>7, WaitingCallKeeps, Zenon DEF kernel
<1>4. CASE /\ sock[d] = 0 /\ timers' = timers \ {TimerOf(f)} /\ registered' = registered
           /\ IF call[f].op = "io" THEN Return(f, "ok") ELSE Goto(f, "soerr")
  <2>1. Over(f, "ok") \/ Moved(f, "soerr")
    BY <1>0, <1>4, ReturnEnds, GotoMoves, Zenon DEF PCs
  <2>2. call' \in [Fibers -> CallType] /\ "soerr" \in PCs
    BY <1>0, <1>4, ReturnEnds, GotoMoves, Zenon DEF PCs
  <2>3. HookTypes'
    BY <1>0, <1>4, <2>2, Zenon DEF HookTypes, kernel
  <2>4. Others(f)
    BY <2>1, Zenon DEF Over, Moved
  <2>5. TimerInv'
    BY <1>0, <1>4, <2>1, <2>2, <2>3, <2>4, TimersOfOthers, Zenon
  <2>6. OpFitsAt(f)' /\ call'[f].pc \notin Owning
    BY <1>0, <2>1, Zenon DEF Over, Moved, OpFits, OpFitsAt, Waits, Owning
  <2>7. OneThread => WaitFits(f)'
    BY <1>0, <2>1, Zenon DEF Over, Moved, OneThread, WaitFits
  <2> QED BY <1>0, <1>2, <1>4, <2>3, <2>4, <2>5, <2>6, <2>7, WaitingCallKeeps, Zenon DEF kernel
<1> QED BY <1>3, <1>4, Zenon DEF AddEvent

\* sleep(): the timer is armed in the step in which the fiber yields.
LEMMA SleepKeeps ==
    ASSUME HInv, NEW f \in Fibers, Sleep(f)
    PROVE  HInv'
<1> DEFINE y == [f |-> f, n |-> call[f].n + 1, fd |-> 0, ev |-> "sleep"]
<1>0. /\ HookTypes /\ TimerInv /\ OpFits /\ Turn(f) /\ call[f].pc = "out"
      /\ timers' = timers \cup {y}
      /\ UNCHANGED <<several, kernel, m_datas, usable, registered, cbs, queue>>
  BY Zenon DEF HInv, Sleep, At
<1>1. Begun(f, "parked", "sleep", 0, FALSE) /\ call' \in [Fibers -> CallType] /\ call[f].n \in Nat
  BY <1>0, SleepBegins, Zenon DEF HookTypes, CallType
<1>2. y \in Timer
  BY <1>1 DEF Timer
<1>3. HookTypes'
  BY <1>0, <1>1, <1>2, Zenon DEF HookTypes, kernel
<1>4. Others(f) /\ TimerOf(f)' = y
  BY <1>1 DEF Begun, TimerOf, Event
<1>5. TimerInv'
  <2>1. ExpiredFits /\ SleepFits /\ TimeoutIsReal
    BY <1>0, Zenon DEF TimerInv
  <2>2. \A g \in Fibers : call[g].n \in Nat /\ call'[g].n \in Nat
    BY <1>0, <1>3, Zenon DEF HookTypes, CallType
  <2>3. ASSUME NEW g \in Fibers PROVE CallGoesOn(g)
    <3>1. CASE g # f
      BY <1>4, <2>1, <2>2, <3>1, SMTT(30) DEF Others, ExpiredFits, TimeoutIsReal, CallGoesOn
    <3>2. CASE g = f
      <4>1. /\ call'[g].n = call[g].n + 1 /\ ~call'[g].cancelled /\ call'[g].result = "ok"
        BY <1>1, <3>2, Zenon DEF Begun
      <4> QED BY <2>2, <4>1 DEF CallGoesOn
    <3> QED BY <3>1, <3>2, Zenon
  <2>4. ASSUME NEW x \in timers'
        PROVE  \/ x \in Armed
               \/ x.n <= call'[x.f].n /\ (InCall(x)' => x = TimerOf(x.f)')
    <3>1. CASE x \in timers
      BY <3>1, Zenon DEF Armed
    <3>2. CASE x = y
      <4>1. x.f = f /\ x.n = call[f].n + 1
        BY <3>2, Zenon
      <4>2. x.n = call'[f].n /\ x = TimerOf(x.f)'
        BY <1>1, <1>4, <3>2, <4>1, Zenon DEF Begun
      <4> QED BY <2>2, <4>1, <4>2
    <3> QED BY <1>0, <3>1, <3>2, Zenon
  <2>5. \A c \in cbs' : (\E b \in cbs : b.timer = c.timer) /\ (c.timer.ev = "sleep" => c.at = "queued")
    BY <1>0, <2>1, Zenon DEF SleepFits
  <2> QED BY <1>0, <1>3, <2>3, <2>4, <2>5, TimersKept, Zenon
<1>6. OpFitsAt(f)' /\ call'[f].pc \notin Owning
  BY <1>1, Zenon DEF Begun, OpFitsAt, Waits, Owning
<1>7. WaitFits(f)'
  BY <1>0, <1>1, <1>4, Zenon DEF Begun, WaitFits, OnTheWay, Waits
<1> QED BY <1>0, <1>3, <1>4, <1>5, <1>6, <1>7, WaitingCallKeeps, Zenon DEF kernel

\* The fiber is continued: it takes its timer with it, and ETIMEDOUT is reported only
\* when the timer has expired.
LEMMA ResumeKeeps ==
    ASSUME HInv, NEW f \in Fibers, Resume(f)
    PROVE  HInv'
<1>0. /\ HookTypes /\ TimerInv /\ OpFits /\ Turn(f) /\ call[f].pc = "parked"
      /\ queue' = queue \ {f} /\ timers' = timers \ {TimerOf(f)}
      /\ UNCHANGED <<several, kernel, m_datas, usable, registered, cbs>>
  BY Zenon DEF HInv, Resume, At
<1>1. call[f].cancelled => call[f].expired
  BY <1>0, Zenon DEF TimerInv, ExpiredFits
<1>2. Return(f, "ok") \/ \E pc \in {"fun", "soerr"} : Goto(f, pc) /\ call[f].op \in Waits /\ ~call[f].cancelled
  BY <1>0, <1>1, Zenon DEF Resume, OpFits, OpFitsAt, Waits
<1>3. /\ call' \in [Fibers -> CallType]
      /\ Over(f, "ok") \/ \E pc \in {"fun", "soerr"} : Moved(f, pc) /\ call[f].op \in Waits /\ ~call[f].cancelled
  BY <1>0, <1>2, ReturnEnds, GotoMoves, Zenon DEF PCs
<1>4. HookTypes'
  BY <1>0, <1>3, Zenon DEF HookTypes, kernel
<1>5. Others(f) /\ TimerOf(f).f = f
  BY <1>3, Zenon DEF Over, Moved, TimerOf
<1>6. TimerInv'
  BY <1>0, <1>3, <1>4, <1>5, TimersOfOthers, Zenon DEF PCs
<1>7. OpFitsAt(f)' /\ call'[f].pc \notin Owning
  BY <1>0, <1>3, Zenon DEF Over, Moved, OpFits, OpFitsAt, Waits, Owning
<1>8. WaitFits(f)'
  BY <1>3, Zenon DEF Over, Moved, WaitFits
<1> QED BY <1>0, <1>4, <1>5, <1>6, <1>7, <1>8, WaitingCallKeeps, Zenon DEF kernel

\* getsockopt(SO_ERROR) ends the call.
LEMMA SoErrorKeeps ==
    ASSUME HInv, NEW f \in Fibers, SoError(f)
    PROVE  HInv'
<1>0. /\ HookTypes /\ TimerInv /\ OpFits /\ Turn(f)
      /\ UNCHANGED <<several, kernel, m_datas, usable, registered, timers, cbs, queue>>
      /\ \E r \in {"ok", "stray"} : Return(f, r)
  BY Zenon DEF HInv, SoError, At
<1>1. call' \in [Fibers -> CallType] /\ \E r \in {"ok", "stray"} : Over(f, r)
  BY <1>0, ReturnEnds, Zenon
<1>2. HookTypes'
  BY <1>0, <1>1, Zenon DEF HookTypes, kernel
<1>3. Others(f)
  BY <1>1, Zenon DEF Over
<1>4. TimerInv'
  BY <1>0, <1>1, <1>2, <1>3, TimersOfOthers, Zenon
<1>5. OpFitsAt(f)' /\ call'[f].pc \notin Owning /\ WaitFits(f)'
  BY <1>1, Zenon DEF Over, OpFitsAt, Waits, Owning, WaitFits
<1> QED BY <1>0, <1>2, <1>3, <1>4, <1>5, WaitingCallKeeps, Zenon DEF kernel
-----------------------------------------------------------------------------
\* close(): from here on nobody else has the descriptor.
LEMMA CloseKeeps ==
    ASSUME HInv, NEW f \in Fibers, NEW d \in Fds, Close(f, d)
    PROVE  HInv'
<1>0. /\ HookTypes /\ OpFits /\ OwnedFds /\ CtxFits /\ FreshContext /\ TimerInv
      /\ Turn(f) /\ call[f].pc = "out" /\ (~several => OneThread)
      /\ d \in usable /\ usable' = usable \ {d}
      /\ UNCHANGED <<several, kernel, m_datas, registered, timers, cbs, queue>>
  BY Zenon DEF HInv, CtxInv, Close, At
<1>1. Taken(f, "cancel", "close", d) /\ call' \in [Fibers -> CallType]
  BY <1>0, CallTaken, Zenon DEF PCs, Ops, Close
<1>2. HookTypes'
  BY <1>0, <1>1, Zenon DEF HookTypes, kernel
<1>3. OpFits'
  <2>1. OpFitsAt(f)'
    BY <1>0, <1>1, Zenon DEF OpFits, OpFitsAt, Taken, Waits
  <2> QED BY <1>0, <1>1, <2>1, OpFitsKept, Zenon DEF Taken
<1>4. /\ call'[f].pc = "cancel" /\ call'[f].fd = d /\ sock' = sock
      /\ \A g \in Fibers \ {f} : call'[g] = call[g] /\ (call[g].pc \in Owning => call[g].fd # d)
  BY <1>0, <1>1, Zenon DEF Taken, Others, OwnedFds, kernel
<1>5. CtxInv'
  <2>1. OwnedFds'
    <3>1. \A g \in Fibers : call'[g].pc \in Owning => call'[g].fd \notin usable' /\ sock'[call'[g].fd] # 0
      BY <1>0, <1>4, ZenonT(60) DEF OwnedFds
    <3>2. ASSUME NEW g \in Fibers, NEW h \in Fibers,
                 g # h, call'[g].pc \in Owning, call'[h].pc \in Owning
          PROVE  call'[g].fd # call'[h].fd
      BY <1>0, <1>4, <3>2 DEF OwnedFds
    <3>3. \A e \in usable' : sock'[e] # 0
      BY <1>0, <1>4, Zenon DEF OwnedFds
    <3> QED BY <3>1, <3>2, <3>3, Zenon DEF OwnedFds
  <2>2. CtxFits'
    BY <1>0, <1>4, ZenonT(60) DEF CtxFits
  <2>3. FreshContext'
    BY <1>0, <1>4 DEF FreshContext
  <2> QED BY <2>1, <2>2, <2>3, Zenon DEF CtxInv
<1>6. TimerInv'
  BY <1>0, <1>1, <1>2, TimersOfOthers, Zenon DEF Taken, PCs
<1>7. ASSUME ~several' PROVE OneThread'
  <2>1. WaitFits(f)' /\ CloseQuiet(f)'
    BY <1>0, <1>1, Zenon DEF WaitFits, CloseQuiet, Taken, OpFits, OpFitsAt
  <2> QED BY <1>0, <1>1, <1>4, <1>7, <2>1, FiberStepWaits, Zenon DEF Taken
<1> QED BY <1>2, <1>3, <1>5, <1>6, <1>7, Zenon DEF HInv

\* cancelAll(): whoever listened to the descriptor is scheduled.
LEMMA CancelAllKeeps ==
    ASSUME HInv, NEW f \in Fibers, CancelAll(f)
    PROVE  HInv'
<1> DEFINE d == call[f].fd
           rs == {r \in registered : r.fd = d /\ r.sock = sock[d]}
<1>0. /\ HookTypes /\ OpFits /\ CtxInv /\ TimerInv /\ OwnedFds
      /\ Turn(f) /\ call[f].pc = "cancel" /\ (~several => OneThread)
      /\ registered' = registered \ rs /\ queue' = queue \cup {r.f : r \in rs}
      /\ Goto(f, "del")
      /\ UNCHANGED <<several, kernel, m_datas, usable, timers, cbs>>
  BY Zenon DEF HInv, CtxInv, CancelAll, At, Trigger, ClosePart, CloseOrder
<1>1. Moved(f, "del") /\ call' \in [Fibers -> CallType] /\ "del" \in PCs
  BY <1>0, GotoMoves, Zenon DEF PCs
<1>2. HookTypes'
  <2>1. registered' \subseteq Reg /\ queue' \subseteq Fibers
    BY <1>0, ZenonT(60) DEF HookTypes, Reg
  <2> QED BY <1>0, <1>1, <2>1, Zenon DEF HookTypes, kernel
<1>3. OpFits'
  <2>1. OpFitsAt(f)'
    BY <1>0, <1>1, Zenon DEF OpFits, OpFitsAt, Moved, Waits
  <2> QED BY <1>0, <1>1, <2>1, OpFitsKept, Zenon DEF Moved
<1>4. CtxInv'
  <2>1. \A g \in Fibers : call'[g].pc \in Owning =>
            /\ call[g].pc \in Owning /\ call'[g].fd = call[g].fd
            /\ call'[g].pc \in {"made", "closef"} => call[g].pc = call'[g].pc
    BY <1>0, <1>1, Zenon DEF Moved, Others, Owning
  <2> QED BY <1>0, <2>1, CtxKept, Zenon DEF kernel
<1>5. TimerInv'
  BY <1>0, <1>1, <1>2, TimersOfOthers, Zenon DEF Moved
<1>6. ASSUME ~several' PROVE OneThread'
  <2>1. WaitFits(f)'
    BY <1>0, <1>1, <1>6, Zenon DEF WaitFits, OneThread, Moved
  <2>2. CloseQuiet(f)'
    BY <1>0, <1>1, Zenon DEF CloseQuiet, Moved, kernel
  <2>3. \A r \in registered : r \in registered' \/ r.f \in queue'
    BY <1>0, Zenon
  <2> QED BY <1>0, <1>1, <1>6, <2>1, <2>2, <2>3, FiberStepWaits, Zenon DEF Moved, kernel
<1> QED BY <1>2, <1>3, <1>4, <1>5, <1>6, Zenon DEF HInv

\* FdManager::del()
LEMMA DelKeeps ==
    ASSUME HInv, NEW f \in Fibers, Del(f)
    PROVE  HInv'
<1> DEFINE d == call[f].fd
<1>0. /\ HookTypes /\ OpFits /\ OwnedFds /\ CtxFits /\ FreshContext /\ TimerInv
      /\ Turn(f) /\ call[f].pc = "del" /\ (~several => OneThread)
      /\ m_datas' = [m_datas EXCEPT ![d] = NoCtx]
      /\ Goto(f, "closef")
      /\ UNCHANGED <<several, kernel, usable, registered, timers, cbs, queue>>
  BY Zenon DEF HInv, CtxInv, Del, At, ClosePart, CloseOrder
<1>1. Moved(f, "closef") /\ call' \in [Fibers -> CallType] /\ "closef" \in PCs
  BY <1>0, GotoMoves, Zenon DEF PCs
<1>2. HookTypes'
  BY <1>0, <1>1, Zenon DEF HookTypes, kernel
<1>3. OpFits'
  <2>1. OpFitsAt(f)'
    BY <1>0, <1>1, Zenon DEF OpFits, OpFitsAt, Moved, Waits
  <2> QED BY <1>0, <1>1, <2>1, OpFitsKept, Zenon DEF Moved
<1>4. /\ d \in Fds /\ d \notin usable /\ usable \subseteq Fds /\ sock' = sock
      /\ call'[f].pc = "closef" /\ call'[f].fd = d
      /\ m_datas'[d] = NoCtx /\ \A e \in Fds \ {d} : m_datas'[e] = m_datas[e]
      /\ \A g \in Fibers \ {f} : call'[g] = call[g] /\ (call[g].pc \in Owning => call[g].fd \in Fds)
  BY <1>0, <1>1, Zenon DEF Moved, Others, OpFits, OpFitsAt, OwnedFds, Owning, HookTypes, kernel
<1>5. CtxInv'
  <2>1. OwnedFds'
    <3>1. \A g \in Fibers : call'[g].pc \in Owning => call[g].pc \in Owning /\ call'[g].fd = call[g].fd
      BY <1>0, <1>4, Zenon DEF Owning
    <3> QED BY <1>0, <1>4, <3>1, SMTT(30) DEF OwnedFds
  <2>2. CtxFits'
    <3>1. \A e \in Fds : sock'[e] = 0 => m_datas'[e] = NoCtx
      BY <1>0, <1>4, Zenon DEF CtxFits
    <3>2. ASSUME NEW g \in Fibers, call'[g].pc \in {"made", "closef"} PROVE m_datas'[call'[g].fd] = NoCtx
      BY <1>0, <1>4, <3>2, SMTT(30) DEF CtxFits, Owning
    <3> QED BY <3>1, <3>2, Zenon DEF CtxFits
  <2>3. FreshContext'
    BY <1>0, <1>4 DEF FreshContext
  <2> QED BY <2>1, <2>2, <2>3, Zenon DEF CtxInv
<1>6. TimerInv'
  BY <1>0, <1>1, <1>2, TimersOfOthers, Zenon DEF Moved
<1>7. ASSUME ~several' PROVE OneThread'
  <2>1. WaitFits(f)'
    BY <1>0, <1>1, <1>7, Zenon DEF WaitFits, OneThread, Moved
  <2>2. CloseQuiet(f)'
    BY <1>0, <1>1, <1>7, Zenon DEF CloseQuiet, OneThread, Moved, kernel
  <2> QED BY <1>0, <1>1, <1>7, <2>1, <2>2, FiberStepWaits, Zenon DEF Moved, kernel
<1> QED BY <1>2, <1>3, <1>5, <1>6, <1>7, Zenon DEF HInv

\* close_f(): the number is free again.
LEMMA CloseFKeeps ==
    ASSUME HInv, NEW f \in Fibers, CloseF(f)
    PROVE  HInv'
<1> DEFINE d == call[f].fd
<1>0. /\ HookTypes /\ OpFits /\ OwnedFds /\ CtxFits /\ FreshContext /\ TimerInv
      /\ Turn(f) /\ call[f].pc = "closef" /\ (~several => OneThread)
      /\ sock' = [sock EXCEPT ![d] = 0]
      /\ Return(f, "ok")
      /\ UNCHANGED <<several, made, readable, link, m_datas, usable, registered, timers, cbs, queue>>
  BY Zenon DEF HInv, CtxInv, CloseF, At, ClosePart, CloseOrder
<1>1. Over(f, "ok") /\ call' \in [Fibers -> CallType]
  BY <1>0, ReturnEnds, Zenon
<1>2. HookTypes'
  BY <1>0, <1>1, Zenon DEF HookTypes
<1>3. OpFits'
  <2>1. OpFitsAt(f)'
    BY <1>1, Zenon DEF OpFitsAt, Over, Waits
  <2> QED BY <1>0, <1>1, <2>1, OpFitsKept, Zenon DEF Over
<1>4. /\ d \in Fds /\ d \notin usable /\ usable \subseteq Fds /\ m_datas[d] = NoCtx
      /\ call'[f].pc = "out"
      /\ sock'[d] = 0 /\ \A e \in Fds \ {d} : sock'[e] = sock[e]
      /\ \A g \in Fibers \ {f} : call'[g] = call[g] /\ (call[g].pc \in Owning => call[g].fd \in Fds \ {d})
  BY <1>0, <1>1, ZenonT(60) DEF Over, Others, OpFits, OpFitsAt, OwnedFds, CtxFits, Owning, HookTypes
<1>5. CtxInv'
  <2>1. OwnedFds'
    <3>1. \A g \in Fibers : call'[g].pc \in Owning =>
              g # f /\ call'[g] = call[g] /\ call'[g].fd \notin usable' /\ sock'[call'[g].fd] # 0
      BY <1>0, <1>4, SMTT(30) DEF OwnedFds, Owning
    <3>2. \A e \in usable' : sock'[e] # 0
      BY <1>0, <1>4, Zenon DEF OwnedFds
    <3> QED BY <1>0, <3>1, <3>2, ZenonT(60) DEF OwnedFds
  <2>2. CtxFits'
    <3>1. \A e \in Fds : sock'[e] = 0 => m_datas'[e] = NoCtx
      BY <1>0, <1>4, ZenonT(60) DEF CtxFits
    <3>2. ASSUME NEW g \in Fibers, call'[g].pc \in {"made", "closef"} PROVE m_datas'[call'[g].fd] = NoCtx
      BY <1>0, <1>4, <3>2 DEF CtxFits
    <3> QED BY <3>1, <3>2, Zenon DEF CtxFits
  <2>3. FreshContext'
    BY <1>0, <1>4 DEF FreshContext
  <2> QED BY <2>1, <2>2, <2>3, Zenon DEF CtxInv
<1>6. TimerInv'
  BY <1>0, <1>1, <1>2, TimersOfOthers, Zenon DEF Over
<1>7. ASSUME ~several' PROVE OneThread'
  <2>1. WaitFits(f)' /\ CloseQuiet(f)'
    BY <1>1, Zenon DEF WaitFits, CloseQuiet, Over
  <2>2. \A r \in registered : r.sock = sock[r.fd] => r \in registered' /\ sock'[r.fd] = sock[r.fd]
    BY <1>0, <1>4, <1>7, SMTT(30) DEF OneThread, CloseQuiet, HookTypes, Reg
  <2> QED BY <1>0, <1>1, <1>7, <2>1, <2>2, FiberStepWaits, Zenon DEF Over
<1> QED BY <1>2, <1>3, <1>5, <1>6, <1>7, Zenon DEF HInv
-----------------------------------------------------------------------------
\* Timers, events and callbacks do not move a fiber.
Unmoved(f) ==
    /\ call'[f].pc = call[f].pc /\ call'[f].op = call[f].op /\ call'[f].n = call[f].n
    /\ call'[f].fd = call[f].fd /\ call'[f].timed = call[f].timed
    /\ call'[f].result = call[f].result

\* What the steps of timers, events and callbacks have in common.
LEMMA AsideKeeps ==
    ASSUME HInv, HookTypes', \A f \in Fibers : Unmoved(f),
           \A f \in Fibers : call[f].pc = "out" => ~call'[f].cancelled,
           UNCHANGED <<several, sock, m_datas, usable>>,
           TimerInv', ~several /\ OneThread => OneThread'
    PROVE  HInv'
<1>0. OpFits /\ CtxInv /\ (~several => OneThread)
  BY Zenon DEF HInv
<1>1. OpFits'
  BY <1>0, SMTT(30) DEF OpFits, OpFitsAt, Unmoved
<1>2. CtxInv'
  BY <1>0, CtxKept, Zenon DEF Unmoved
<1> QED BY <1>0, <1>1, <1>2, Zenon DEF HInv

\* The invariant says nothing about data and connections.
LEMMA PeerStepKeeps ==
    ASSUME HInv, NEW d \in Fds, PeerStep(d)
    PROVE  HInv'
<1>0. /\ HookTypes /\ OpFits /\ TimerInv
      /\ UNCHANGED <<several, sock, made, m_datas, usable, registered, timers, cbs, queue, call>>
  BY Zenon DEF HInv, PeerStep
<1>1. HookTypes'
  <2>1. readable' \in [Fds -> BOOLEAN] /\ link' \in [Fds -> {"idle", "connecting", "up", "failed"}]
    BY <1>0, Zenon DEF PeerStep, HookTypes
  <2> QED BY <1>0, <2>1, Zenon DEF HookTypes
<1>2. TimerInv'
  BY <1>0, TimersStay, Zenon
<1>3. OneThread => OneThread'
  BY <1>0, OneThreadStays, Zenon
<1>4. \A f \in Fibers : Unmoved(f) /\ (call[f].pc = "out" => ~call'[f].cancelled)
  BY <1>0, Zenon DEF Unmoved, OpFits, OpFitsAt
<1> QED BY <1>0, <1>1, <1>2, <1>3, <1>4, AsideKeeps, Zenon

\* An event schedules its waiter.
LEMMA EventFiresKeeps ==
    ASSUME HInv, NEW r \in registered, EventFires(r)
    PROVE  HInv'
<1>0. /\ HookTypes /\ OpFits /\ TimerInv
      /\ registered' = registered \ {r} /\ queue' = queue \cup {r.f}
      /\ UNCHANGED <<several, kernel, m_datas, usable, timers, cbs, call>>
  BY Zenon DEF HInv, EventFires, Trigger
<1>1. HookTypes'
  <2>1. registered' \subseteq Reg /\ queue' \subseteq Fibers
    BY <1>0, Zenon DEF HookTypes, Reg
  <2> QED BY <1>0, <2>1, Zenon DEF HookTypes, kernel
<1>2. TimerInv'
  BY <1>0, TimersStay, Zenon
<1>3. ASSUME OneThread PROVE OneThread'
  <2>1. ASSUME NEW g \in Fibers PROVE WaitFits(g)' /\ CloseQuiet(g)'
    <3>1. /\ WaitFits(g) /\ CloseQuiet(g) /\ call' = call /\ timers' = timers /\ cbs' = cbs
          /\ sock' = sock /\ TimerOf(g)' = TimerOf(g)
      BY <1>0, <1>3, Zenon DEF OneThread, TimerOf, kernel
    <3>2. Listening(g) => Listening(g)' \/ g \in queue'
      BY <1>0, <3>1, Zenon DEF Listening
    <3>3. OnTheWay(g) => OnTheWay(g)'
      BY <3>1, Zenon DEF OnTheWay
    <3>4. WaitFits(g)'
      BY <1>0, <3>1, <3>2, <3>3, Zenon DEF WaitFits
    <3>5. CloseQuiet(g)'
      BY <1>0, <3>1 DEF CloseQuiet
    <3> QED BY <3>4, <3>5, Zenon
  <2>2. Exclusive'
    BY <1>0, <1>3 DEF OneThread, Exclusive, Runs
  <2> QED BY <2>1, <2>2, Zenon DEF OneThread
<1>4. \A f \in Fibers : Unmoved(f) /\ (call[f].pc = "out" => ~call'[f].cancelled)
  BY <1>0, Zenon DEF Unmoved, OpFits, OpFitsAt
<1> QED BY <1>0, <1>1, <1>2, <1>3, <1>4, AsideKeeps, Zenon DEF kernel

\* A timer expires: its callback is on the way, and the call it belongs to, if it is
\* still there, has a timer that has expired.
LEMMA TimerExpiresKeeps ==
    ASSUME HInv, NEW x \in timers, TimerExpires(x)
    PROVE  HInv'
<1> DEFINE b == [timer |-> x, at |-> "queued"]
<1>0. /\ HookTypes /\ OpFits /\ TimerInv
      /\ timers' = timers \ {x} /\ cbs' = cbs \cup {b}
      /\ UNCHANGED <<several, kernel, m_datas, usable, registered, queue>>
  BY Zenon DEF HInv, TimerExpires
<1>1. x \in Timer /\ x.f \in Fibers
  BY <1>0, Zenon DEF HookTypes, Timer
<1>2. InCall(x) \in BOOLEAN
  BY Zenon DEF InCall
<1>3. /\ Flagged(x.f, call[x.f].cancelled, call[x.f].expired \/ InCall(x))
      /\ call' \in [Fibers -> CallType]
  BY <1>0, <1>1, <1>2, ExpiryFlags, Zenon DEF TimerExpires
<1>4. b \in [timer : Timer, at : {"queued", "locked", "set"}] /\ b.timer = x /\ b.at = "queued"
  BY <1>1, Zenon
<1> HIDE DEF b
<1>5. HookTypes'
  BY <1>0, <1>3, <1>4, Zenon DEF HookTypes, kernel
<1>6. \A f \in Fibers : /\ Unmoved(f) /\ call'[f].cancelled = call[f].cancelled
                        /\ (call[f].expired => call'[f].expired)
  BY <1>3, Zenon DEF Flagged, Others, Unmoved
<1>7. InCall(x)' => call'[x.f].expired
  BY <1>1, <1>3, <1>6, Zenon DEF Flagged, InCall, Unmoved
<1>8. TimerInv'
  <2>1. ExpiredFits /\ SleepFits /\ TimeoutIsReal
    BY <1>0, Zenon DEF TimerInv
  <2>2. \A g \in Fibers : call[g].n \in Nat
    BY <1>0, Zenon DEF HookTypes, CallType
  <2>3. ASSUME NEW g \in Fibers PROVE CallGoesOn(g)
    BY <1>6, <2>1, <2>2, SMTT(30) DEF Unmoved, ExpiredFits, TimeoutIsReal, CallGoesOn
  <2>4. \A y \in timers' : y \in Armed
    BY <1>0, Zenon DEF Armed
  <2>5. ASSUME NEW c \in cbs'
        PROVE  /\ \/ \E a \in cbs : a.timer = c.timer
                  \/ c.timer \in timers /\ (InCall(c.timer)' => call'[c.timer.f].expired)
               /\ c.timer.ev = "sleep" => c.at = "queued"
    <3>1. CASE c \in cbs
      BY <2>1, <3>1, Zenon DEF SleepFits
    <3>2. CASE c = b
      BY <1>4, <1>7, <3>2, Zenon
    <3> QED BY <1>0, <3>1, <3>2, Zenon
  <2> QED BY <1>0, <1>5, <2>3, <2>4, <2>5, TimersKept, Zenon
<1>9. ASSUME OneThread PROVE OneThread'
  <2>1. ASSUME NEW g \in Fibers PROVE WaitFits(g)' /\ CloseQuiet(g)'
    <3>1. /\ WaitFits(g) /\ CloseQuiet(g) /\ Unmoved(g) /\ sock' = sock /\ queue' = queue
          /\ registered' = registered /\ call'[g].cancelled = call[g].cancelled
      BY <1>0, <1>6, <1>9, Zenon DEF OneThread, kernel
    <3>2. TimerOf(g)' = TimerOf(g) /\ (Listening(g) => Listening(g)')
      BY <3>1, Zenon DEF TimerOf, Listening, Unmoved
    <3>3. OnTheWay(g) => OnTheWay(g)'
      BY <1>0, <1>4, <3>2, Zenon DEF OnTheWay
    <3>4. WaitFits(g)'
      BY <1>0, <3>1, <3>2, <3>3, Zenon DEF WaitFits, Unmoved
    <3>5. CloseQuiet(g)'
      BY <3>1 DEF CloseQuiet, Unmoved
    <3> QED BY <3>4, <3>5, Zenon
  <2>2. Exclusive'
    <3>1. Exclusive /\ \A g \in Fibers : Runs(g)' <=> Runs(g)
      BY <1>6, <1>9, Zenon DEF OneThread, Runs, Unmoved
    <3> QED BY <1>0, <1>4, <3>1 DEF Exclusive
  <2> QED BY <2>1, <2>2, Zenon DEF OneThread
<1>10. \A f \in Fibers : call[f].pc = "out" => ~call'[f].cancelled
  BY <1>0, <1>6, Zenon DEF OpFits, OpFitsAt
<1> QED BY <1>0, <1>5, <1>6, <1>8, <1>9, <1>10, AsideKeeps, Zenon DEF kernel

\* What the steps of callbacks have in common: one is taken or moves, the timers and
\* the fibers' places stay.  With one thread no fiber runs meanwhile.
LEMMA CallbackKeeps ==
    ASSUME HInv, HookTypes', NEW c \in cbs, CallbackTurn(c), NEW b,
           UNCHANGED <<several, sock, m_datas, usable, timers>>,
           cbs' \subseteq (cbs \ {c}) \cup {b},
           b \in cbs' => b.timer = c.timer /\ c.timer.ev # "sleep",
           \A f \in Fibers : /\ Unmoved(f) /\ call'[f].expired = call[f].expired
                             /\ call'[f].cancelled => call[f].cancelled \/ (f = c.timer.f /\ InCall(c.timer)),
           ~several /\ OneThread => \A f \in Fibers : call[f].pc = "parked" => WaitFits(f)'
    PROVE  HInv'
<1>0. HookTypes /\ OpFits /\ TimerInv /\ ExpiredFits /\ SleepFits /\ TimeoutIsReal
  BY Zenon DEF HInv, TimerInv
<1>1. TimerInv'
  <2>1. \A g \in Fibers : call[g].n \in Nat
    BY <1>0, Zenon DEF HookTypes, CallType
  <2>2. ASSUME NEW g \in Fibers PROVE CallGoesOn(g)
    BY <1>0, <2>1, SMTT(30) DEF Unmoved, ExpiredFits, TimeoutIsReal, CallGoesOn
  <2>3. \A y \in timers' : y \in Armed
    BY Zenon DEF Armed
  <2>4. ASSUME NEW e \in cbs'
        PROVE  (\E a \in cbs : a.timer = e.timer) /\ (e.timer.ev = "sleep" => e.at = "queued")
    BY <1>0, Zenon DEF SleepFits
  <2> QED BY <1>0, <2>2, <2>3, <2>4, TimersKept, Zenon
<1>2. \A f \in Fibers : call[f].pc = "out" => ~call'[f].cancelled
  BY <1>0, Zenon DEF OpFits, OpFitsAt, InCall
<1>3. ASSUME ~several, OneThread PROVE OneThread'
  <2>1. (\A f \in Fibers : ~Runs(f)) /\ \A d \in cbs \ {c} : d.at = "queued"
    BY <1>3, Zenon DEF CallbackTurn
  <2>2. \A f \in Fibers : ~Runs(f)'
    BY <2>1, Zenon DEF Runs, Unmoved
  <2>3. Exclusive'
    BY <2>1, <2>2, Zenon DEF Exclusive
  <2>4. ASSUME NEW f \in Fibers PROVE CloseQuiet(f)'
    BY <2>2, Zenon DEF CloseQuiet, Runs
  <2>5. ASSUME NEW f \in Fibers PROVE WaitFits(f)'
    <3>1. CASE call[f].pc = "parked"
      BY <1>3, <3>1, Zenon
    <3>2. CASE call[f].pc # "parked"
      <4>1. call'[f].pc = "out"
        BY <2>1, <3>2, Zenon DEF Runs, Unmoved
      <4>2. ~call'[f].cancelled
        BY <1>2, <4>1, Zenon DEF Unmoved
      <4> QED BY <4>1, <4>2, Zenon DEF WaitFits
    <3> QED BY <3>1, <3>2, Zenon
  <2> QED BY <2>3, <2>4, <2>5, Zenon DEF OneThread
<1> QED BY <1>1, <1>2, <1>3, AsideKeeps, Zenon

\* With one thread the callback of a call that waits and is not scheduled is alone: the
\* call is not cancelled unless this callback has done it.
LEMMA OnlyCallback ==
    ASSUME HInv, ~several, OneThread, NEW c \in cbs, CallbackTurn(c), NEW f \in Fibers,
           call[f].pc = "parked", call[f].cancelled, f \notin queue
    PROVE  c.at = "set" /\ c.timer = TimerOf(f)
<1>1. PICK d \in cbs : d.at = "set" /\ d.timer = TimerOf(f)
  BY DEF OneThread, WaitFits
<1> QED BY <1>1, Zenon DEF CallbackTurn

\* The callback locks the timer_info, or finds that there is nothing to do.
LEMMA CbLockKeeps ==
    ASSUME HInv, NEW c \in cbs, CbLock(c)
    PROVE  HInv'
<1> DEFINE x == c.timer
           b == [c EXCEPT !.at = "locked"]
<1>0. /\ HookTypes /\ OpFits /\ TimerInv /\ c.at = "queued" /\ x.ev # "sleep" /\ CallbackTurn(c)
      /\ UNCHANGED <<several, kernel, m_datas, usable, registered, timers, queue, call>>
      /\ IF InCall(x) /\ ~call[x.f].cancelled THEN cbs' = (cbs \ {c}) \cup {b} ELSE cbs' = cbs \ {c}
  BY Zenon DEF HInv, CbLock, Moves
<1>1. b \in [timer : Timer, at : {"queued", "locked", "set"}] /\ b.timer = x
  BY <1>0, Zenon DEF HookTypes
<1> HIDE DEF b
<1>2. HookTypes' /\ cbs' \subseteq (cbs \ {c}) \cup {b}
  BY <1>0, <1>1 DEF HookTypes, kernel
<1>3. \A f \in Fibers : Unmoved(f) /\ call'[f].expired = call[f].expired /\ call'[f].cancelled = call[f].cancelled
  BY <1>0, Zenon DEF Unmoved
<1>4. ASSUME ~several, OneThread, NEW f \in Fibers, call[f].pc = "parked" PROVE WaitFits(f)'
  <2>1. /\ WaitFits(f) /\ TimerOf(f)' = TimerOf(f) /\ TimerOf(f).f = f
        /\ sock' = sock /\ call' = call /\ queue' = queue /\ timers' = timers
    BY <1>0, <1>4, Zenon DEF OneThread, TimerOf, kernel
  <2>2. Listening(f) => Listening(f)'
    BY <1>0, <2>1, Zenon DEF Listening
  <2>3. ASSUME f \notin queue PROVE ~call[f].cancelled
    BY <1>0, <1>4, <2>3, OnlyCallback, Zenon
  <2>4. ASSUME f \notin queue, OnTheWay(f) PROVE OnTheWay(f)'
    <3>1. CASE \E d \in cbs \ {c} : d.timer = TimerOf(f)
      BY <1>0, <2>1, <3>1, Zenon DEF OnTheWay
    <3>2. CASE TimerOf(f) \in timers
      BY <2>1, <3>2, Zenon DEF OnTheWay
    <3>3. CASE c.timer = TimerOf(f)
      <4>1. x.f = f /\ x.n = call[f].n /\ call[f].op # "sleep"
        BY <1>0, <3>3, TimerOfCall, EventNames, ZenonT(60)
      <4>2. InCall(x)
        BY <1>0, <1>4, <4>1, Zenon DEF InCall, OpFits, OpFitsAt, Waits
      <4>3. b \in cbs'
        BY <1>0, <2>3, <2>4, <4>1, <4>2, Zenon
      <4> QED BY <1>1, <2>1, <3>3, <4>3, Zenon DEF OnTheWay
    <3> QED BY <2>4, <3>1, <3>2, <3>3, Zenon DEF OnTheWay
  <2> QED BY <1>4, <2>1, <2>2, <2>3, <2>4, Zenon DEF WaitFits
<1> QED BY <1>0, <1>1, <1>2, <1>3, <1>4, CallbackKeeps, Zenon DEF kernel

\* ... sets it ...
LEMMA CbSetKeeps ==
    ASSUME HInv, NEW c \in cbs, CbSet(c)
    PROVE  HInv'
<1> DEFINE x == c.timer
           b == [c EXCEPT !.at = "set"]
<1>0. /\ HookTypes /\ OpFits /\ TimerInv /\ SleepFits /\ TimerFits /\ c.at = "locked" /\ CallbackTurn(c)
      /\ UNCHANGED <<several, kernel, m_datas, usable, registered, timers, queue>>
      /\ cbs' = (cbs \ {c}) \cup {b}
  BY Zenon DEF HInv, TimerInv, CbSet, Moves
<1>1. /\ b \in [timer : Timer, at : {"queued", "locked", "set"}] /\ b.timer = x /\ b.at = "set"
      /\ x.f \in Fibers /\ x.ev # "sleep" /\ x \in Armed
  BY <1>0, Zenon DEF HookTypes, SleepFits, Timer, Armed
<1>2. InCall(x) \in BOOLEAN
  BY Zenon DEF InCall
<1>3. /\ Flagged(x.f, call[x.f].cancelled \/ InCall(x), call[x.f].expired)
      /\ call' \in [Fibers -> CallType]
  BY <1>0, <1>1, <1>2, CancelFlags, Zenon DEF CbSet
<1> HIDE DEF b
<1>4. HookTypes' /\ cbs' \subseteq (cbs \ {c}) \cup {b}
  BY <1>0, <1>1, <1>3, Zenon DEF HookTypes, kernel
<1>5. \A f \in Fibers : /\ Unmoved(f) /\ call'[f].expired = call[f].expired
                        /\ call'[f].cancelled => call[f].cancelled \/ (f = x.f /\ InCall(x))
  BY <1>3, Zenon DEF Flagged, Others, Unmoved
<1>6. ASSUME ~several, OneThread, NEW f \in Fibers, call[f].pc = "parked" PROVE WaitFits(f)'
  <2>1. /\ WaitFits(f) /\ Unmoved(f) /\ sock' = sock /\ queue' = queue /\ timers' = timers
    BY <1>0, <1>5, <1>6, Zenon DEF OneThread, kernel
  <2>2. TimerOf(f)' = TimerOf(f) /\ (Listening(f) => Listening(f)')
    BY <1>0, <2>1, Zenon DEF Listening, TimerOf, Unmoved
  <2>3. OnTheWay(f) => OnTheWay(f)'
    BY <1>0, <1>1, <2>1, <2>2, Zenon DEF OnTheWay
  <2>4. ASSUME f \notin queue, call'[f].cancelled
        PROVE  b \in cbs' /\ b.at = "set" /\ b.timer = TimerOf(f)
    <3>1. ~call[f].cancelled
      BY <1>0, <1>6, <2>4, OnlyCallback, Zenon
    <3>2. f = x.f /\ InCall(x)
      BY <1>5, <2>4, <3>1, Zenon
    <3> QED BY <1>0, <1>1, <3>2, Zenon DEF TimerFits
  <2> QED BY <1>6, <2>1, <2>2, <2>3, <2>4, Zenon DEF WaitFits, Unmoved
<1> QED BY <1>0, <1>1, <1>4, <1>5, <1>6, CallbackKeeps, Zenon DEF kernel

\* ... and cancels the event, which schedules the fiber if it still waits.
LEMMA CbCancelKeeps ==
    ASSUME HInv, NEW c \in cbs, CbCancel(c)
    PROVE  HInv'
<1> DEFINE rs == {r \in registered : r.fd = c.timer.fd /\ r.ev = c.timer.ev /\ r.sock = sock[r.fd]}
<1>0. /\ HookTypes /\ OpFits /\ TimerInv /\ SleepFits /\ c.at = "set" /\ CallbackTurn(c)
      /\ registered' = registered \ rs /\ queue' = queue \cup {r.f : r \in rs}
      /\ cbs' = cbs \ {c}
      /\ UNCHANGED <<several, kernel, m_datas, usable, timers, call>>
  BY Zenon DEF HInv, TimerInv, CbCancel, Trigger
<1>1. HookTypes' /\ cbs' \subseteq (cbs \ {c}) \cup {c}
  <2>1. registered' \subseteq Reg /\ queue' \subseteq Fibers
    BY <1>0 DEF HookTypes, Reg
  <2> QED BY <1>0, <2>1, Zenon DEF HookTypes, kernel
<1>2. \A f \in Fibers : Unmoved(f) /\ call'[f].expired = call[f].expired /\ call'[f].cancelled = call[f].cancelled
  BY <1>0, Zenon DEF Unmoved
<1>3. ASSUME ~several, OneThread, NEW f \in Fibers, call[f].pc = "parked" PROVE WaitFits(f)'
  <2>1. /\ WaitFits(f) /\ TimerOf(f)' = TimerOf(f) /\ TimerOf(f).f = f
        /\ sock' = sock /\ call' = call /\ timers' = timers
    BY <1>0, <1>3, Zenon DEF OneThread, TimerOf, kernel
  <2>2. Listening(f) => Listening(f)' \/ f \in queue'
    BY <1>0, <2>1, Zenon DEF Listening
  <2>3. ASSUME c.timer = TimerOf(f) PROVE f \in queue'
    <3>1. c.timer.fd = call[f].fd /\ c.timer.ev = Event[call[f].op] /\ call[f].op # "sleep"
      BY <1>0, <2>3, TimerOfCall, EventNames DEF TimerInv, SleepFits
    <3>2. f \in queue \/ Listening(f)
      BY <1>0, <1>3, <2>1, <3>1, Zenon DEF WaitFits, OpFits, OpFitsAt, Waits
    <3> QED BY <1>0, <3>1, <3>2, Zenon DEF Listening
  <2>4. OnTheWay(f) => OnTheWay(f)' \/ f \in queue'
    BY <1>0, <2>1, <2>3, Zenon DEF OnTheWay
  <2>5. ASSUME f \notin queue, call[f].cancelled PROVE f \in queue'
    BY <1>0, <1>3, <2>3, <2>5, OnlyCallback, Zenon
  <2> QED BY <1>0, <1>3, <2>1, <2>2, <2>4, <2>5, Zenon DEF WaitFits
<1> QED BY <1>0, <1>1, <1>2, <1>3, CallbackKeeps, Zenon DEF kernel

\* The callback of a sleep schedules the fiber.
LEMMA CbAwakeKeeps ==
    ASSUME HInv, NEW c \in cbs, CbAwake(c)
    PROVE  HInv'
<1>0. /\ HookTypes /\ OpFits /\ TimerInv /\ SleepFits /\ CallbackTurn(c) /\ c.timer.ev = "sleep"
      /\ queue' = queue \cup {c.timer.f} /\ cbs' = cbs \ {c}
      /\ UNCHANGED <<several, kernel, m_datas, usable, registered, timers, call>>
  BY Zenon DEF HInv, TimerInv, CbAwake
<1>1. HookTypes' /\ cbs' \subseteq (cbs \ {c}) \cup {c}
  <2>1. c.timer.f \in Fibers
    BY <1>0, Zenon DEF HookTypes, Timer
  <2> QED BY <1>0, <2>1, Zenon DEF HookTypes, kernel
<1>2. \A f \in Fibers : Unmoved(f) /\ call'[f].expired = call[f].expired /\ call'[f].cancelled = call[f].cancelled
  BY <1>0, Zenon DEF Unmoved
<1>3. ASSUME ~several, OneThread, NEW f \in Fibers, call[f].pc = "parked" PROVE WaitFits(f)'
  <2>1. /\ WaitFits(f) /\ TimerOf(f)' = TimerOf(f) /\ TimerOf(f).f = f
        /\ sock' = sock /\ call' = call /\ timers' = timers
    BY <1>0, <1>3, Zenon DEF OneThread, TimerOf, kernel
  <2>2. Listening(f) => Listening(f)'
    BY <1>0, <2>1, Zenon DEF Listening
  <2>3. OnTheWay(f) => OnTheWay(f)' \/ f \in queue'
    BY <1>0, <2>1, Zenon DEF OnTheWay
  <2>4. c.at = "queued"
    BY <1>0, Zenon DEF SleepFits
  <2>5. ASSUME f \notin queue PROVE ~call[f].cancelled
    BY <1>0, <1>3, <2>4, <2>5, OnlyCallback, Zenon
  <2> QED BY <1>0, <1>3, <2>1, <2>2, <2>3, <2>5, Zenon DEF WaitFits
<1> QED BY <1>0, <1>1, <1>2, <1>3, CallbackKeeps, Zenon DEF kernel
-----------------------------------------------------------------------------
\* A program that has made no call satisfies the invariant.
LEMMA HInit == Init => HInv
<1> SUFFICES ASSUME Init PROVE HInv
  BY Zenon
<1>1. NoCall \in CallType
  BY Zenon DEF NoCall, CallType, PCs, Ops
<1>2. /\ NoCall.pc = "out" /\ NoCall.op = "none" /\ ~NoCall.cancelled /\ NoCall.result = "ok"
  BY Zenon DEF NoCall
<1>3. \A f \in Fibers : call[f] = NoCall
  BY Zenon DEF Init
<1>4. HookTypes
  BY <1>1, Zenon DEF Init, HookTypes
<1>5. OpFits
  BY <1>2, <1>3, Zenon DEF OpFits, OpFitsAt, Waits
<1>6. CtxInv
  BY <1>2, <1>3, Zenon DEF Init, CtxInv, OwnedFds, CtxFits, FreshContext, Owning
<1>7. TimerInv
  BY <1>2, <1>3, Zenon DEF Init, TimerInv, TimerFits, ExpiredFits, SleepFits, TimeoutIsReal, Armed
<1>8. OneThread
  <2>1. Exclusive
    BY <1>2, <1>3, Zenon DEF Init, Exclusive, Runs
  <2>2. \A f \in Fibers : WaitFits(f) /\ CloseQuiet(f)
    BY <1>2, <1>3 DEF WaitFits, CloseQuiet
  <2> QED BY <2>1, <2>2, Zenon DEF OneThread
<1> QED BY <1>4, <1>5, <1>6, <1>7, <1>8, Zenon DEF HInv

\* Every step of a call, an event, a timer and a callback keeps the invariant.
LEMMA HStep == HInv /\ [Next]_vars => HInv'
<1> SUFFICES ASSUME HInv, [Next]_vars PROVE HInv'
  BY Zenon
<1>1. CASE UNCHANGED vars
  <2>1. /\ HookTypes /\ OpFits /\ CtxInv /\ TimerInv /\ (~several => OneThread)
        /\ UNCHANGED <<several, sock, made, readable, link, m_datas, usable, registered, timers,
                       cbs, queue, call>>
    BY <1>1, Zenon DEF HInv, vars, kernel
  <2>2. HookTypes'
    BY <2>1, Zenon DEF HookTypes
  <2>3. TimerInv'
    BY <2>1, TimersStay, Zenon
  <2>4. OneThread => OneThread'
    BY <2>1, OneThreadStays, Zenon
  <2>5. \A f \in Fibers : Unmoved(f) /\ (call[f].pc = "out" => ~call'[f].cancelled)
    BY <2>1, Zenon DEF Unmoved, OpFits, OpFitsAt
  <2> QED BY <2>1, <2>2, <2>3, <2>4, <2>5, AsideKeeps, Zenon
<1>2. ASSUME NEW f \in Fibers, FiberStep(f) PROVE HInv'
  BY <1>2, SocketKeeps, GetCtxKeeps, SleepKeeps, SetTimeoutKeeps, BeginKeeps, CloseKeeps,
     FunKeeps, ArmKeeps, AddEventKeeps, ResumeKeeps, SoErrorKeeps, CancelAllKeeps, DelKeeps,
     CloseFKeeps, Zenon
     DEF FiberStep
<1>3. ASSUME NEW c \in cbs, CallbackStep(c) PROVE HInv'
  BY <1>3, CbLockKeeps, CbSetKeeps, CbCancelKeeps, CbAwakeKeeps, Zenon DEF CallbackStep
<1> QED BY <1>1, <1>2, <1>3, EventFiresKeeps, TimerExpiresKeeps, PeerStepKeeps, Zenon DEF Next

\* The invariant holds in every reachable state.
LEMMA HAlways == Spec => []HInv
BY HInit, HStep, PTL DEF Spec

\* With any number of threads a call reports ETIMEDOUT only when a timer of its own has
\* expired: a late callback never cancels the next call (hook.cc:112-125, 237-252).
THEOREM TimeoutsAreReal == Spec => []TimeoutIsReal
<1>1. HInv => TimeoutIsReal
  BY DEF HInv, TimerInv
<1> QED BY HAlways, <1>1, PTL

\* With any number of threads a descriptor in the hands of the program has the context
\* made for its socket (hook.cc:199-209, 340-354, fd_manager.cc:77-110).
THEOREM ContextsAreFresh == Spec => []FreshContext
<1>1. HInv => FreshContext
  BY DEF HInv, CtxInv
<1> QED BY HAlways, <1>1, PTL

\* With one thread a fiber that has yielded in a hooked call is scheduled, registered with
\* the socket that is open now, or has its timer (hook.cc:127-149, 157-197, 340-354).
THEOREM NobodyIsForgotten == Spec => []NobodyForgotten
<1>1. HInv => NobodyForgotten
  BY SMTT(30) DEF HInv, OneThread, WaitFits, Listening, OnTheWay, OpFits, OpFitsAt, NobodyForgotten
<1> QED BY HAlways, <1>1, PTL

\* With one thread a wait with a timeout has its timer, its callback or a place in the
\* queue until it ends (hook.cc:115-125, 239-252).
THEOREM TimedWaitsEnd == Spec => []TimedWaitEnds
<1>1. HInv => TimedWaitEnds
  BY DEF HInv, OneThread, WaitFits, OnTheWay, TimedWaitEnds
<1> QED BY HAlways, <1>1, PTL
=============================================================================
