-------------------------------- MODULE Hook --------------------------------
(***************************************************************************)
(* The hooked system calls of lamb/hook.cc with the descriptor contexts of  *)
(* lamb/fd_manager.cc: a call that would block arms a timer, registers an   *)
(* event, yields, and is continued by the event, by the timer's callback or *)
(* by close().  The layers below appear as far as the calls can tell:       *)
(* registered is the event table of IOManager, timers its timers, queue and *)
(* cbs the scheduled fibers and callbacks.                                  *)
(*                                                                         *)
(* Where a fiber is:                                                       *)
(*   out     in the program                                                *)
(*   made    socket_f() has returned, the context is missing                *)
(*   fun     about to make the original call                               *)
(*   arm     it would block: addConditionTimer() comes next                 *)
(*   add     addEvent() comes next                                         *)
(*   parked  it has yielded                                                *)
(*   soerr   connect_with_timeout() asks for SO_ERROR                       *)
(*   cancel, del, closef   the three parts of close()                      *)
(***************************************************************************)
EXTENDS Naturals, FiniteSetsExt

CONSTANTS
    Fibers,
    Fds,
    MaxSockets,  \* bound: sockets created
    MaxCalls,    \* bound: waiting calls and sleeps
    NoCtx        \* an empty slot of m_datas

ASSUME HookAssumption ==
    /\ MaxSockets \in Nat /\ MaxCalls \in Nat
    /\ NoCtx \notin [sock : Nat, timed : BOOLEAN]    \* a null pointer is no context

VARIABLES
    several,     \* the IOManager has several threads, so that steps interleave
    sock,        \* kernel: the socket behind a descriptor, 0 when it is closed
    made,        \* ... the number of sockets so far
    readable,    \* ... data is waiting
    link,        \* ... "idle", "connecting", "up" or "failed"
    m_datas,     \* FdManager: the context of a descriptor
    usable,      \* descriptors the program has and has not given to close()
    registered,  \* registered events [f, fd, ev, sock]
    timers,      \* armed timers [f, n, fd, ev]
    cbs,         \* their callbacks, collected: [timer, at]
    queue,       \* scheduled fibers
    call         \* per fiber: the call it makes, with its timer_info

kernel == <<sock, made, readable, link>>
vars == <<several, kernel, m_datas, usable, registered, timers, cbs, queue, call>>

\* What a waiting call waits for: read() and its relatives stand for both directions.
Event == [io |-> "READ", connect |-> "WRITE", sleep |-> "sleep"]

\* sock: the socket the call was made for.  direct: no context was found.  expired:
\* a timer of this call has expired.  Of a result only this is kept: "stray" when it
\* is that of another socket or of a connection in progress, "early" when it is
\* ETIMEDOUT and no timer has expired.
NoCall == [pc |-> "out", op |-> "none", n |-> 0, fd |-> 0, sock |-> 0, timed |-> FALSE,
           direct |-> FALSE, cancelled |-> FALSE, expired |-> FALSE, result |-> "ok"]

Init ==
    /\ several \in BOOLEAN
    /\ sock = [d \in Fds |-> 0] /\ made = 0
    /\ readable = [d \in Fds |-> FALSE]
    /\ link = [d \in Fds |-> "idle"]
    /\ m_datas = [d \in Fds |-> NoCtx]
    /\ usable = {}
    /\ registered = {} /\ timers = {} /\ cbs = {} /\ queue = {}
    /\ call = [f \in Fibers |-> NoCall]

\* One thread runs a fiber until it yields and a callback to its end.
Runs(f) == call[f].pc \notin {"out", "parked"}
Turn(f) ==
    \/ several
    \/ (\A g \in Fibers \ {f} : ~Runs(g)) /\ \A c \in cbs : c.at = "queued"
CallbackTurn(c) ==
    \/ several
    \/ (\A f \in Fibers : ~Runs(f)) /\ \A d \in cbs \ {c} : d.at = "queued"

Calls == MapThenSumSet(LAMBDA f : call[f].n, Fibers)

At(f, pc) == call[f].pc = pc /\ Turn(f)
Goto(f, pc) == call' = [call EXCEPT ![f].pc = pc]
Return(f, r) == call' = [call EXCEPT ![f] = [NoCall EXCEPT !.n = call[f].n, !.result = r]]
-----------------------------------------------------------------------------
\* socket(), and the end of accept(): the kernel hands out a free number ...
Socket(f) ==
    /\ At(f, "out") /\ made < MaxSockets
    /\ \E d \in Fds :
          /\ sock[d] = 0
          /\ sock' = [sock EXCEPT ![d] = made + 1]
          /\ link' = [link EXCEPT ![d] = "idle"]
          /\ readable' = [readable EXCEPT ![d] = FALSE]
          /\ call' = [call EXCEPT ![f].pc = "made", ![f].fd = d, ![f].op = "socket"]
    /\ made' = made + 1
    /\ UNCHANGED <<several, m_datas, usable, registered, timers, cbs, queue>>

\* ... and FdManager::get(fd, true) returns the context that is there, or makes one.
GetCtx(f) ==
    LET d == call[f].fd IN
    /\ At(f, "made")
    /\ m_datas' = IF m_datas[d] = NoCtx
                  THEN [m_datas EXCEPT ![d] = [sock |-> sock[d], timed |-> FALSE]]
                  ELSE m_datas
    /\ usable' = usable \cup {d}
    /\ Return(f, "ok")
    /\ UNCHANGED <<several, kernel, registered, timers, cbs, queue>>

\* setsockopt() with SO_RCVTIMEO or SO_SNDTIMEO
SetTimeout(f, d) ==
    /\ At(f, "out") /\ d \in usable /\ m_datas[d] # NoCtx
    /\ m_datas' = [m_datas EXCEPT ![d].timed = ~@]
    /\ UNCHANGED <<several, kernel, usable, registered, timers, cbs, queue, call>>

\* A call that may wait, on a descriptor no other fiber uses for the same event.
Begin(f, d, op, pc, timed, direct) ==
    /\ At(f, "out") /\ d \in usable /\ Calls < MaxCalls
    /\ \A g \in Fibers : call[g].pc = "out" \/ call[g].fd # d \/ call[g].op # op
    /\ call' = [call EXCEPT ![f] = [NoCall EXCEPT !.pc = pc, !.op = op, !.n = call[f].n + 1,
                                        !.fd = d, !.sock = sock[d], !.timed = timed, !.direct = direct]]

\* do_io(): read(), write() and their relatives
DoIo(f, d) ==
    /\ Begin(f, d, "io", "fun", m_datas[d] # NoCtx /\ m_datas[d].timed, m_datas[d] = NoCtx)
    /\ UNCHANGED <<several, kernel, m_datas, usable, registered, timers, cbs, queue>>

\* connect_with_timeout(), when connect_f() returns EINPROGRESS; other results are
\* returned at once
Connect(f, d) ==
    /\ link[d] \in {"idle", "failed"} /\ m_datas[d] # NoCtx
    /\ \E timed \in BOOLEAN : Begin(f, d, "connect", "arm", timed, FALSE)
    /\ link' = [link EXCEPT ![d] = "connecting"]
    /\ UNCHANGED <<several, sock, made, readable, m_datas, usable, registered, timers, cbs, queue>>

\* retry: the original call fails, succeeds, or would block
Fun(f) ==
    LET d == call[f].fd IN
    /\ At(f, "fun")
    /\ \/ sock[d] = 0 /\ Return(f, "ok") /\ UNCHANGED readable
       \/ /\ sock[d] # 0 /\ readable[d]
          /\ readable' = [readable EXCEPT ![d] = FALSE]
          /\ Return(f, IF sock[d] = call[f].sock THEN "ok" ELSE "stray")
       \/ /\ sock[d] # 0 /\ ~readable[d]
          /\ IF call[f].direct THEN Return(f, "ok") ELSE Goto(f, "arm")
          /\ UNCHANGED readable
    /\ UNCHANGED <<several, sock, made, link, m_datas, usable, registered, timers, cbs, queue>>

TimerOf(f) == [f |-> f, n |-> call[f].n, fd |-> call[f].fd, ev |-> Event[call[f].op]]

Arm(f) ==
    /\ At(f, "arm")
    /\ timers' = IF call[f].timed THEN timers \cup {TimerOf(f)} ELSE timers
    /\ Goto(f, "add")
    /\ UNCHANGED <<several, kernel, m_datas, usable, registered, cbs, queue>>

\* addEvent() and yield(), or the way out when epoll_ctl() refuses a closed descriptor.
\* An event that is registered already fails the assertion there: nothing follows.
AddEvent(f) ==
    LET d == call[f].fd IN
    /\ At(f, "add")
    /\ \A r \in registered : r.fd = d => r.ev # Event[call[f].op]
    /\ \/ /\ sock[d] # 0
          /\ registered' = registered \cup
                {[f |-> f, fd |-> d, ev |-> Event[call[f].op], sock |-> sock[d]]}
          /\ Goto(f, "parked")
          /\ UNCHANGED timers
       \/ /\ sock[d] = 0
          /\ timers' = timers \ {TimerOf(f)}
          /\ IF call[f].op = "io" THEN Return(f, "ok") ELSE Goto(f, "soerr")
          /\ UNCHANGED registered
    /\ UNCHANGED <<several, kernel, m_datas, usable, cbs, queue>>

\* sleep(), usleep(), nanosleep(): a timer that schedules the fiber, and a yield
Sleep(f) ==
    /\ At(f, "out") /\ Calls < MaxCalls
    /\ call' = [call EXCEPT ![f] = [NoCall EXCEPT !.pc = "parked", !.op = "sleep", !.n = call[f].n + 1]]
    /\ timers' = timers \cup {[f |-> f, n |-> call[f].n + 1, fd |-> 0, ev |-> "sleep"]}
    /\ UNCHANGED <<several, kernel, m_datas, usable, registered, cbs, queue>>

\* The fiber is continued: it cancels its timer and looks at the timer_info.
Resume(f) ==
    /\ At(f, "parked") /\ f \in queue
    /\ queue' = queue \ {f}
    /\ timers' = timers \ {TimerOf(f)}
    /\ \/ call[f].op = "sleep" /\ Return(f, "ok")
       \/ call[f].op # "sleep" /\ call[f].cancelled /\ Return(f, IF call[f].expired THEN "ok" ELSE "early")
       \/ /\ call[f].op # "sleep" /\ ~call[f].cancelled
          /\ Goto(f, IF call[f].op = "io" THEN "fun" ELSE "soerr")
    /\ UNCHANGED <<several, kernel, m_datas, usable, registered, cbs>>

\* SO_ERROR is 0 while a connection is in progress.
SoError(f) ==
    LET d == call[f].fd IN
    /\ At(f, "soerr")
    /\ Return(f, IF sock[d] = 0 \/ link[d] = "failed" \/ (link[d] = "up" /\ sock[d] = call[f].sock)
                 THEN "ok" ELSE "stray")
    /\ UNCHANGED <<several, kernel, m_datas, usable, registered, timers, cbs, queue>>
-----------------------------------------------------------------------------
\* The waiters of events that are triggered are scheduled.
Trigger(rs) ==
    /\ registered' = registered \ rs
    /\ queue' = queue \cup {r.f : r \in rs}

\* idle(): an event of a registered descriptor
EventFires(r) ==
    /\ r \in registered /\ r.sock = sock[r.fd]
    /\ IF r.ev = "READ" THEN readable[r.fd] ELSE link[r.fd] \in {"up", "failed"}
    /\ Trigger({r})
    /\ UNCHANGED <<several, kernel, m_datas, usable, timers, cbs, call>>

\* The timer_info of the call that armed x is still there.
InCall(x) == call[x.f].n = x.n /\ call[x.f].pc # "out" /\ call[x.f].op \in {"io", "connect"}

\* listExpiredCb(): the callback is scheduled
TimerExpires(x) ==
    /\ x \in timers
    /\ timers' = timers \ {x}
    /\ cbs' = cbs \cup {[timer |-> x, at |-> "queued"]}
    /\ call' = [call EXCEPT ![x.f].expired = @ \/ InCall(x)]
    /\ UNCHANGED <<several, kernel, m_datas, usable, registered, queue>>

Moves(c, at) == cbs' = (cbs \ {c}) \cup {[c EXCEPT !.at = at]}

\* The callback takes the timer_info of whatever the fiber does now.
CbLock_AnyCall(c) ==
    LET x == c.timer IN
    /\ c \in cbs /\ c.at = "queued" /\ x.ev # "sleep" /\ CallbackTurn(c)
    /\ IF call[x.f].pc # "out" /\ ~call[x.f].cancelled
       THEN /\ Moves(c, "set")
            /\ call' = [call EXCEPT ![x.f].cancelled = TRUE]
       ELSE cbs' = cbs \ {c} /\ UNCHANGED call
    /\ UNCHANGED <<several, kernel, m_datas, usable, registered, timers, queue>>

\* OnTimer() and the callback lock the timer_info, which lives as long as the call ...
CbLock(c) ==
    LET x == c.timer IN
    /\ c \in cbs /\ c.at = "queued" /\ x.ev # "sleep" /\ CallbackTurn(c)
    /\ IF InCall(x) /\ ~call[x.f].cancelled
       THEN Moves(c, "locked")
       ELSE cbs' = cbs \ {c}
    /\ UNCHANGED <<several, kernel, m_datas, usable, registered, timers, queue, call>>

\* ... set it, which nobody sees when the call is over by now ...
CbSet(c) ==
    LET x == c.timer IN
    /\ c \in cbs /\ c.at = "locked" /\ CallbackTurn(c)
    /\ Moves(c, "set")
    /\ call' = [call EXCEPT ![x.f].cancelled = @ \/ InCall(x)]
    /\ UNCHANGED <<several, kernel, m_datas, usable, registered, timers, queue>>

\* The event is not cancelled.
CbCancel_FlagOnly(c) ==
    /\ c \in cbs /\ c.at = "set" /\ CallbackTurn(c)
    /\ cbs' = cbs \ {c}
    /\ UNCHANGED <<several, kernel, m_datas, usable, registered, timers, queue, call>>

\* ... and cancel the event, which fails when epoll does not know it any more.
CbCancel(c) ==
    /\ c \in cbs /\ c.at = "set" /\ CallbackTurn(c)
    /\ Trigger({r \in registered : r.fd = c.timer.fd /\ r.ev = c.timer.ev /\ r.sock = sock[r.fd]})
    /\ cbs' = cbs \ {c}
    /\ UNCHANGED <<several, kernel, m_datas, usable, timers, call>>

\* The callback of a sleep schedules the fiber.
CbAwake(c) ==
    /\ c \in cbs /\ c.timer.ev = "sleep" /\ CallbackTurn(c)
    /\ queue' = queue \cup {c.timer.f}
    /\ cbs' = cbs \ {c}
    /\ UNCHANGED <<several, kernel, m_datas, usable, registered, timers, call>>
-----------------------------------------------------------------------------
\* The number is given back before the context is dropped.
CloseOrder_KernelFirst == [cancel |-> "closef", closef |-> "del", del |-> "out"]

\* close(): cancelAll(), then FdManager::del(), then close_f()
CloseOrder == [cancel |-> "del", del |-> "closef", closef |-> "out"]
ClosePart(f, part) ==
    IF CloseOrder[part] = "out" THEN Return(f, "ok") ELSE Goto(f, CloseOrder[part])

Close(f, d) ==
    /\ At(f, "out") /\ d \in usable
    /\ usable' = usable \ {d}
    /\ call' = [call EXCEPT ![f].pc = "cancel", ![f].fd = d, ![f].op = "close"]
    /\ UNCHANGED <<several, kernel, m_datas, registered, timers, cbs, queue>>

\* The events are taken out, and nobody is told.
CancelAll_Silently(f) ==
    /\ At(f, "cancel")
    /\ registered' = {r \in registered : r.fd # call[f].fd}
    /\ ClosePart(f, "cancel")
    /\ UNCHANGED <<several, kernel, m_datas, usable, timers, cbs, queue>>

CancelAll(f) ==
    LET d == call[f].fd IN
    /\ At(f, "cancel")
    /\ Trigger({r \in registered : r.fd = d /\ r.sock = sock[d]})
    /\ ClosePart(f, "cancel")
    /\ UNCHANGED <<several, kernel, m_datas, usable, timers, cbs>>

Del(f) ==
    /\ At(f, "del")
    /\ m_datas' = [m_datas EXCEPT ![call[f].fd] = NoCtx]
    /\ ClosePart(f, "del")
    /\ UNCHANGED <<several, kernel, usable, registered, timers, cbs, queue>>

CloseF(f) ==
    /\ At(f, "closef")
    /\ sock' = [sock EXCEPT ![call[f].fd] = 0]
    /\ ClosePart(f, "closef")
    /\ UNCHANGED <<several, made, readable, link, m_datas, usable, registered, timers, cbs, queue>>
-----------------------------------------------------------------------------
\* The other end of a socket
PeerStep(d) ==
    /\ sock[d] # 0
    /\ \/ ~readable[d] /\ readable' = [readable EXCEPT ![d] = TRUE] /\ UNCHANGED link
       \/ /\ link[d] = "connecting"
          /\ \E l \in {"up", "failed"} : link' = [link EXCEPT ![d] = l]
          /\ UNCHANGED readable
    /\ UNCHANGED <<several, sock, made, m_datas, usable, registered, timers, cbs, queue, call>>

FiberStep(f) ==
    \/ Socket(f) \/ GetCtx(f) \/ Sleep(f)
    \/ \E d \in Fds : SetTimeout(f, d) \/ DoIo(f, d) \/ Connect(f, d) \/ Close(f, d)
    \/ Fun(f) \/ Arm(f) \/ AddEvent(f) \/ Resume(f) \/ SoError(f)
    \/ CancelAll(f) \/ Del(f) \/ CloseF(f)

CallbackStep(c) == CbLock(c) \/ CbSet(c) \/ CbCancel(c) \/ CbAwake(c)

Next ==
    \/ \E f \in Fibers : FiberStep(f)
    \/ \E r \in registered : EventFires(r)
    \/ \E x \in timers : TimerExpires(x)
    \/ \E c \in cbs : CallbackStep(c)
    \/ \E d \in Fds : PeerStep(d)

Spec == Init /\ [][Next]_vars
-----------------------------------------------------------------------------
\* A call reports ETIMEDOUT only when a timer of its own has expired: a callback
\* that is late finds the timer_info gone (hook.cc:112-125, 237-252, timer.cc:115).
TimeoutIsReal == \A f \in Fibers : call[f].result # "early"

\* A descriptor in the hands of the program has the context made for its socket,
\* not one of an earlier socket of that number, and not none: without it a call
\* does not wait, with an old one it has the timeouts of another socket
\* (hook.cc:199-209, 340-354, fd_manager.cc:77-110).
FreshContext ==
    \A d \in usable : m_datas[d] # NoCtx /\ m_datas[d].sock = sock[d]

\* With one thread nobody waits for what cannot come: a fiber that has yielded is
\* scheduled, or is registered with the socket that is open now, or sleeps and has
\* its timer (hook.cc:127-149, 157-197, close() at 340-354).
NobodyForgotten ==
    ~several => \A f \in Fibers : call[f].pc = "parked" =>
        \/ f \in queue
        \/ \E r \in registered : r.f = f /\ r.sock = sock[r.fd]
        \/ call[f].op = "sleep" /\ (TimerOf(f) \in timers \/ \E c \in cbs : c.timer = TimerOf(f))

\* With one thread a wait with a timeout ends: the timer is armed, its callback is
\* on the way, or the fiber is scheduled (hook.cc:115-125, 239-252).
TimedWaitEnds ==
    ~several => \A f \in Fibers : call[f].pc = "parked" /\ call[f].timed =>
        \/ f \in queue
        \/ TimerOf(f) \in timers
        \/ \E c \in cbs : c.timer = TimerOf(f)

\* A call acts on the socket it was made for, and connect() returns 0 only when it
\* is connected (hook.cc:144, 275-286).
OwnSocket == \A f \in Fibers : call[f].result # "stray"
=============================================================================
