------------------------------ MODULE TcpServer ------------------------------
(***************************************************************************)
(* lamb::TcpServer with the Sockets it uses: bind(), start(), stop(),       *)
(* startAccept(), the hand-over of a connection to a handler, and a client  *)
(* program's Socket::connect() and reconnect() in the same process.         *)
(*                                                                          *)
(* Threads: the application's (Bind, Start, Stop and the client sockets),   *)
(* the accept worker, and the io worker that runs the handlers.  The accept *)
(* worker is one thread: its tasks and fibers change places only where one  *)
(* waits for an event or ends.  Descriptors are numbers that the kernel     *)
(* hands out again, the lowest first; a fiber inside accept() keeps the     *)
(* number it was called with.                                               *)
(***************************************************************************)
EXTENDS Integers, Sequences, FiniteSets, FiniteSetsExt

CONSTANTS
    Addrs,          \* addresses
    Sockets,        \* bound: Socket objects alive at one time
    MaxFd,          \* RLIMIT_NOFILE: descriptors are 1..MaxFd
    MaxConns,       \* bound: connections that ever arrive
    MaxCalls        \* bound: calls of bind, start, stop, connect and reconnect

Fds == 1..MaxFd
None == "none"

ASSUME TcpServerAssumption ==
    /\ {MaxFd, MaxConns, MaxCalls} \subseteq Nat
    /\ None \notin Sockets        \* a null pointer is no Socket

Fiber(s, fd, pc) == [sock |-> s, fd |-> fd, pc |-> pc]
NoFiber == Fiber(None, -1, "none")

VARIABLES
    kernel,     \* kernel[fd]: what the descriptor is, see Free, Listen, Conn
    fdctx,      \* descriptors FdManager has a context for
    m_sock,     \* m_sock[s]: the Socket's descriptor, or -1
    m_isConnected,
    m_socks,    \* the server's listening Sockets
    m_isStop,
    runq,       \* queue of the accept worker
    cur,        \* the accept fiber that runs there, or NoFiber
    blocked,    \* accept fibers that wait for READ: [sock, fd]
    handlers,   \* Sockets given to handleClient() on the io worker
    clients,    \* Sockets of the client program
    arrived,    \* connections so far
    calls,      \* calls so far
    misuse      \* start() before a stop() was over, or bind() while serving

vars == <<kernel, fdctx, m_sock, m_isConnected, m_socks, m_isStop, runq, cur, blocked,
          handlers, clients, arrived, calls, misuse>>
server == <<m_socks, m_isStop, runq, cur, blocked, handlers>>

Free == [kind |-> "free", addr |-> None, backlog |-> 0]
Listen(a) == [kind |-> "listen", addr |-> a, backlog |-> 0]
Conn == [Free EXCEPT !.kind = "conn"]

Init ==
    /\ kernel = [fd \in Fds |-> Free]
    /\ fdctx = {}
    /\ m_sock = [s \in Sockets |-> -1]
    /\ m_isConnected = [s \in Sockets |-> FALSE]
    /\ m_socks = <<>>
    /\ m_isStop = TRUE
    /\ runq = <<>>
    /\ cur = NoFiber
    /\ blocked = {}
    /\ handlers = {}
    /\ clients = {}
    /\ arrived = 0
    /\ calls = 0
    /\ misuse = FALSE

Call == calls < MaxCalls /\ calls' = calls + 1

(***************************************************************************)
(* Who refers to a Socket.  The last reference runs ~Socket(), which closes *)
(* the descriptor.                                                          *)
(***************************************************************************)
Start_(s) == [do |-> "startAccept", sock |-> s, fd |-> -1]
Close_ == [do |-> "close", sock |-> None, fd |-> -1]
Resume_(f) == [do |-> "resume", sock |-> f.sock, fd |-> f.fd]

HeldBy(socks, q, c, b) ==
    Range(socks) \cup {t.sock : t \in Range(q)} \cup {f.sock : f \in b}
    \cup {c.sock}
Held == HeldBy(m_socks, runq, cur, blocked) \cup handlers \cup clients
Fresh == Sockets \ Held

Ports == {kernel[fd].addr : fd \in {g \in Fds : kernel[g].kind = "listen"}}
FreeFds == {fd \in Fds : kernel[fd].kind = "free"}
LowestFd == Min(FreeFds)

\* Socket::close() of the sockets in S: hook close() deletes the contexts.
FdsOf(S) == {m_sock[s] : s \in S} \ {-1}
ClosedKernel(S) == [fd \in Fds |-> IF fd \in FdsOf(S) THEN Free ELSE kernel[fd]]
\* Mutant: m_sock keeps the number of the descriptor that was closed.
CloseSocketsKeepsFd(S) ==
    /\ kernel' = ClosedKernel(S)
    /\ fdctx' = fdctx \ FdsOf(S)
    /\ m_isConnected' = [s \in Sockets |-> m_isConnected[s] /\ s \notin S]
    /\ UNCHANGED m_sock

CloseSockets(S) ==
    /\ kernel' = ClosedKernel(S)
    /\ fdctx' = fdctx \ FdsOf(S)
    /\ m_sock' = [s \in Sockets |-> IF s \in S THEN -1 ELSE m_sock[s]]
    /\ m_isConnected' = [s \in Sockets |-> m_isConnected[s] /\ s \notin S]

\* A new descriptor of this kind for Socket s: newSock(), or accept() and init().
Opened(s, k, connected) ==
    /\ kernel' = [kernel EXCEPT ![LowestFd] = k]
    /\ fdctx' = fdctx \cup {LowestFd}
    /\ m_sock' = [m_sock EXCEPT ![s] = LowestFd]
    /\ m_isConnected' = [m_isConnected EXCEPT ![s] = connected]

(***************************************************************************)
(* The application's calls.                                                 *)
(***************************************************************************)
Serving == cur # NoFiber \/ blocked # {} \/ runq # <<>>

\* bind(addr): CreateTCP(), Socket::bind() and listen() succeed.
Bind(a) ==
    LET s == CHOOSE x \in Fresh : TRUE
    IN  /\ Call
        /\ Fresh # {}
        /\ FreeFds # {}
        /\ a \notin Ports
        /\ Opened(s, Listen(a), FALSE)
        /\ m_socks' = Append(m_socks, s)
        /\ misuse' = (misuse \/ Serving \/ ~m_isStop)
        /\ UNCHANGED <<m_isStop, runq, cur, blocked, handlers, clients, arrived>>

\* bind() fails, for want of a descriptor or because the address is taken:
\* every listening Socket is forgotten, those of earlier calls included.
BindFails(a) ==
    /\ Call
    /\ a \in Ports \/ FreeFds = {}
    /\ m_socks' = <<>>
    /\ CloseSockets(Range(m_socks) \ HeldBy(<<>>, runq, cur, blocked))
    /\ misuse' = (misuse \/ Serving \/ ~m_isStop)
    /\ UNCHANGED <<m_isStop, runq, cur, blocked, handlers, clients, arrived>>

Start ==
    /\ Call
    /\ IF m_isStop
       THEN /\ m_isStop' = FALSE
            /\ runq' = runq \o [i \in 1..Len(m_socks) |-> Start_(m_socks[i])]
            /\ misuse' = (misuse \/ Serving)
       ELSE UNCHANGED <<m_isStop, runq, misuse>>
    /\ UNCHANGED <<kernel, fdctx, m_sock, m_isConnected, m_socks, cur, blocked, handlers, clients, arrived>>

Stop ==
    /\ Call
    /\ m_isStop' = TRUE
    /\ runq' = Append(runq, Close_)
    /\ UNCHANGED <<kernel, fdctx, m_sock, m_isConnected, m_socks, cur, blocked, handlers, clients,
                   arrived, misuse>>

(***************************************************************************)
(* A client program's Sockets.                                              *)
(***************************************************************************)
\* connect(): a Socket without a descriptor gets one; a failure closes it.
\* reconnect() is connect() to the remembered address.
Connect(s) ==
    /\ Call
    /\ s \in clients \cup (IF clients = {} /\ Fresh # {} THEN {CHOOSE x \in Fresh : TRUE} ELSE {})
    /\ clients' = clients \cup {s}
    /\ \/ m_sock[s] = -1 /\ FreeFds # {} /\ Opened(s, Conn, TRUE)
       \/ CloseSockets({s})        \* socket() or ::connect() fails, EISCONN included
    /\ UNCHANGED <<server, arrived, misuse>>

\* close(), or the last reference goes.
ClientClose(s) ==
    /\ s \in clients
    /\ CloseSockets({s})
    /\ clients' = clients \ {s}
    /\ UNCHANGED <<server, arrived, calls, misuse>>

\* Somebody connects to a listening address.
Arrive(fd) ==
    /\ kernel[fd].kind = "listen"
    /\ arrived < MaxConns
    /\ arrived' = arrived + 1
    /\ kernel' = [kernel EXCEPT ![fd].backlog = @ + 1]
    /\ UNCHANGED <<fdctx, m_sock, m_isConnected, server, clients, calls, misuse>>

(***************************************************************************)
(* The accept worker.                                                       *)
(***************************************************************************)
\* The next task is startAccept(), or a fiber whose event has come.
Take ==
    /\ cur = NoFiber
    /\ runq # <<>>
    /\ Head(runq).do # "close"
    /\ cur' = Fiber(Head(runq).sock, Head(runq).fd, IF Head(runq).do = "resume" THEN "accept" ELSE "loop")
    /\ runq' = Tail(runq)
    /\ UNCHANGED <<kernel, fdctx, m_sock, m_isConnected, m_socks, m_isStop, blocked, handlers, clients,
                   arrived, calls, misuse>>

\* Mutant: the descriptors are closed behind the back of the fibers that wait.
StopTaskNoCancel ==
    /\ cur = NoFiber
    /\ runq # <<>>
    /\ Head(runq).do = "close"
    /\ runq' = Tail(runq)
    /\ CloseSockets(Range(m_socks))
    /\ m_socks' = <<>>
    /\ UNCHANGED <<m_isStop, cur, blocked, handlers, clients, arrived, calls, misuse>>

\* stop()'s task: cancelAll() wakes the fibers that wait, close() follows.
StopTask ==
    LET woken == {f \in blocked : f.fd \in FdsOf(Range(m_socks))}
    IN  /\ cur = NoFiber
        /\ runq # <<>>
        /\ Head(runq).do = "close"
        /\ \E order \in Bijection(1..Cardinality(woken), woken) :
              runq' = Tail(runq) \o [i \in 1..Cardinality(woken) |-> Resume_(order[i])]
        /\ blocked' = blocked \ woken
        /\ CloseSockets(Range(m_socks))
        /\ m_socks' = <<>>
        /\ UNCHANGED <<m_isStop, cur, handlers, clients, arrived, calls, misuse>>

\* while(!m_isStop): sock->accept() with the descriptor of this moment.  The
\* fiber's reference to a Socket nobody else has goes with it.
Loop ==
    /\ cur.pc = "loop"
    /\ IF m_isStop
       THEN /\ cur' = NoFiber
            /\ CloseSockets({cur.sock} \ HeldBy(m_socks, runq, NoFiber, blocked))
       ELSE /\ cur' = Fiber(cur.sock, m_sock[cur.sock], "accept")
            /\ UNCHANGED <<kernel, fdctx, m_sock, m_isConnected>>
    /\ UNCHANGED <<m_socks, m_isStop, runq, blocked, handlers, clients, arrived, calls, misuse>>

InAccept == cur.pc = "accept"
Listening == cur.fd \in Fds /\ kernel[cur.fd].kind = "listen"
Again == cur' = [cur EXCEPT !.pc = "loop"]

\* A connection: its Socket goes to handleClient() on the io worker.
AcceptConn ==
    LET s == CHOOSE x \in Fresh : TRUE
    IN  /\ InAccept
        /\ Listening
        /\ kernel[cur.fd].backlog > 0
        /\ FreeFds # {}
        /\ Fresh # {}
        /\ kernel' = [kernel EXCEPT ![cur.fd].backlog = @ - 1, ![LowestFd] = Conn]
        /\ fdctx' = fdctx \cup {LowestFd}
        /\ m_sock' = [m_sock EXCEPT ![s] = LowestFd]
        /\ m_isConnected' = [m_isConnected EXCEPT ![s] = TRUE]
        /\ handlers' = handlers \cup {s}
        /\ Again
        /\ UNCHANGED <<m_socks, m_isStop, runq, blocked, clients, arrived, calls, misuse>>

\* EAGAIN: addEvent(fd, READ) and yield().
AcceptWaits ==
    /\ InAccept
    /\ Listening
    /\ kernel[cur.fd].backlog = 0
    /\ blocked' = blocked \cup {[sock |-> cur.sock, fd |-> cur.fd]}
    /\ cur' = NoFiber
    /\ UNCHANGED <<kernel, fdctx, m_sock, m_isConnected, m_socks, m_isStop, runq, handlers, clients,
                   arrived, calls, misuse>>

\* Mutant: the fiber ends when accept() fails.
AcceptFailsEnds ==
    /\ InAccept
    /\ Listening => (kernel[cur.fd].backlog > 0 /\ FreeFds = {})
    /\ cur' = NoFiber
    /\ CloseSockets({cur.sock} \ HeldBy(m_socks, runq, NoFiber, blocked))
    /\ UNCHANGED <<m_socks, m_isStop, runq, blocked, handlers, clients, arrived, calls, misuse>>

\* EBADF, EINVAL or EMFILE: a line in the log, and the loop goes on at once.
AcceptFails ==
    /\ InAccept
    /\ Listening => (kernel[cur.fd].backlog > 0 /\ FreeFds = {})
    /\ Again
    /\ UNCHANGED <<kernel, fdctx, m_sock, m_isConnected, m_socks, m_isStop, runq, blocked, handlers,
                   clients, arrived, calls, misuse>>

\* epoll reports the descriptor: the waiting fiber is scheduled.
Readable(f) ==
    /\ f \in blocked
    /\ kernel[f.fd].kind = "listen"
    /\ kernel[f.fd].backlog > 0
    /\ blocked' = blocked \ {f}
    /\ runq' = Append(runq, Resume_(f))
    /\ UNCHANGED <<kernel, fdctx, m_sock, m_isConnected, m_socks, m_isStop, cur, handlers, clients,
                   arrived, calls, misuse>>

\* handleClient() ends: session->close(), and the Socket is gone.
HandlerDone(s) ==
    /\ s \in handlers
    /\ CloseSockets({s})
    /\ handlers' = handlers \ {s}
    /\ UNCHANGED <<m_socks, m_isStop, runq, cur, blocked, clients, arrived, calls, misuse>>

AcceptWorker == Take \/ StopTask \/ Loop \/ AcceptConn \/ AcceptWaits \/ AcceptFails

\* The calls of this behaviour are made and the accept worker has nothing to run.
Idle ==
    /\ calls = MaxCalls
    /\ cur = NoFiber
    /\ runq = <<>>
    /\ UNCHANGED vars

Next ==
    \/ \E a \in Addrs : Bind(a) \/ BindFails(a)
    \/ Start \/ Stop
    \/ \E s \in Sockets : Connect(s) \/ ClientClose(s) \/ HandlerDone(s)
    \/ \E fd \in Fds : Arrive(fd)
    \/ \E f \in blocked : Readable(f)
    \/ AcceptWorker
    \/ Idle

\* The accept worker and epoll run; a handler ends, its socket having a receive
\* timeout; the application may call or not.
Fairness ==
    /\ WF_vars(AcceptWorker)
    /\ WF_vars(\E f \in blocked : Readable(f))
    /\ \A s \in Sockets : WF_vars(HandlerDone(s)) /\ WF_vars(ClientClose(s))

Spec == Init /\ [][Next]_vars /\ Fairness

(***************************************************************************)
(* Properties                                                               *)
(***************************************************************************)
\* Every open descriptor belongs to exactly one Socket that somebody still
\* refers to, and FdManager has a context for exactly the open ones: nothing
\* leaks and nothing is closed twice, through failing binds and connects,
\* stop(), a fiber that outlives m_socks, and numbers that are used again
\* (socket.cc 86-98 and 157-293, tcp_server.cc 32-116).
FdOwned ==
    /\ \A s, t \in Sockets : (m_sock[s] = m_sock[t] /\ m_sock[s] # -1) => s = t
    /\ {m_sock[s] : s \in Held \ {None}} \ {-1} = Fds \ FreeFds
    /\ fdctx = Fds \ FreeFds
    /\ \A s \in Sockets : (s \notin Held => m_sock[s] = -1) /\ (m_isConnected[s] => m_sock[s] # -1)

\* After stop() the accept fibers end and the addresses are free again, unless
\* the server is started again, or was misused (tcp_server.cc 79-116): neither
\* a missed wake-up nor the order of the worker's tasks leaves one waiting.
Quiet == ~Serving /\ Ports = {}
StopSilences == m_isStop /\ Serving ~> (Quiet \/ ~m_isStop \/ misuse)

\* While the server is started, whoever connects is accepted, even if the
\* descriptors run out for a while and accept() fails (tcp_server.cc 79-90).
Queued == \E s \in Range(m_socks) : m_sock[s] # -1 /\ kernel[m_sock[s]].backlog > 0
StartedAccepts == (~m_isStop /\ Queued) ~> (~Queued \/ m_isStop \/ misuse)
=============================================================================
