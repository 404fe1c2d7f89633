------------------------------ MODULE HttpPool ------------------------------
(***************************************************************************)
(* HttpConnectionPool (lamb/http/http_connection.cc): fibers take a         *)
(* connection from the pool or make one, send a request, receive the        *)
(* answer, and the deleter of the shared pointer puts the connection back.  *)
(* Connecting, sending and receiving give way to other fibers, and the      *)
(* lock does not cover m_total nor the deletions.                           *)
(***************************************************************************)
EXTENDS Integers, Sequences, FiniteSets, Functions

CONSTANTS
    Clients,         \* fibers in doRequest()
    Conns,           \* HttpConnection objects
    m_maxAliveTime,
    m_maxRequest,
    Now,             \* GetCurrentMS(), time since 1970
    NoConn

\* A connection's m_createTime is never set and a uint32_t is a short time.
ASSUME PoolAssumption ==
    /\ NoConn \notin Conns /\ IsFiniteSet(Conns) /\ IsFiniteSet(Clients)
    /\ m_maxRequest \in Nat \ {0}
    /\ m_maxAliveTime \in Nat /\ Now \in Nat /\ m_maxAliveTime < Now

VARIABLES
    m_conns,    \* the idle connections, oldest first
    m_total,
    conn,       \* the objects
    client      \* locals of doRequest() and getConnection(): [pc, ptr, invalid], and
                \* owed, the change of m_total that comes next

vars == <<m_conns, m_total, conn, client>>

\* exchange: "clean", "await" (a request is sent, its answer is not read yet)
\* or "partial" (sending failed half way)
Fresh == [alive |-> TRUE, connected |-> TRUE, m_createTime |-> 0, m_request |-> 0,
          exchange |-> "clean"]
Free == [Fresh EXCEPT !.alive = FALSE]

Init ==
    /\ m_conns = <<>>
    /\ m_total = 0
    /\ conn = [c \in Conns |-> Free]
    /\ client = [k \in Clients |-> [pc |-> "out", ptr |-> NoConn, invalid |-> {}, owed |-> 0]]

At(k, pc) == client[k].pc = pc /\ client[k].owed = 0

(***************************************************************************)
(* getConnection()                                                         *)
(***************************************************************************)
Usable(c) ==
    /\ conn[c].connected
    /\ ~(conn[c].m_createTime + m_maxAliveTime > Now)

\* The connection stays in the list while it is in use.
Pick_Shared(k) ==
    /\ At(k, "out")
    /\ LET good == {i \in DOMAIN m_conns : Usable(m_conns[i])}
           first == CHOOSE i \in good : \A j \in good : i <= j
           taken == IF good = {} THEN Len(m_conns) ELSE first - 1
       IN  /\ m_conns' = SubSeq(m_conns, taken + 1, Len(m_conns))
           /\ client' = [client EXCEPT ![k] =
                [pc |-> "sweep", owed |-> 0,
                 ptr |-> IF good = {} THEN NoConn ELSE m_conns[first],
                 invalid |-> {m_conns[i] : i \in {j \in 1..taken : ~Usable(m_conns[j])}}]]
    /\ UNCHANGED <<m_total, conn>>

\* Under the lock: pop until a usable one is found.
Pick(k) ==
    /\ At(k, "out")
    /\ LET good == {i \in DOMAIN m_conns : Usable(m_conns[i])}
           first == CHOOSE i \in good : \A j \in good : i <= j
           taken == IF good = {} THEN Len(m_conns) ELSE first
       IN  /\ m_conns' = SubSeq(m_conns, taken + 1, Len(m_conns))
           /\ client' = [client EXCEPT ![k] =
                [pc |-> "sweep", owed |-> 0,
                 ptr |-> IF good = {} THEN NoConn ELSE m_conns[first],
                 invalid |-> {m_conns[i] : i \in {j \in 1..taken : ~Usable(m_conns[j])}}]]
    /\ UNCHANGED <<m_total, conn>>

\* m_total is atomic and changes in a step of its own.
Count(k) ==
    /\ client[k].owed # 0
    /\ m_total' = m_total + client[k].owed
    /\ client' = [client EXCEPT ![k].owed = 0]
    /\ UNCHANGED <<m_conns, conn>>

\* After the lock: delete the unusable ones, then correct m_total.
Sweep(k) ==
    /\ At(k, "sweep")
    /\ conn' = [c \in Conns |-> IF c \in client[k].invalid THEN Free ELSE conn[c]]
    /\ client' = [client EXCEPT ![k].invalid = {},
                                ![k].owed = -Cardinality(client[k].invalid),
                                ![k].pc = IF client[k].ptr = NoConn THEN "connect" ELSE "send"]
    /\ UNCHANGED <<m_conns, m_total>>

Connected(k) ==
    /\ At(k, "connect")
    /\ \E c \in Conns :
          /\ ~conn[c].alive
          /\ conn' = [conn EXCEPT ![c] = Fresh]
          /\ client' = [client EXCEPT ![k].pc = "send", ![k].ptr = c, ![k].owed = 1]
    /\ UNCHANGED <<m_conns, m_total>>

\* No address, no socket or no connection: POOL_GET_CONNECTION.
ConnectFails(k) ==
    /\ At(k, "connect")
    /\ client' = [client EXCEPT ![k].pc = "out"]
    /\ UNCHANGED <<m_conns, m_total, conn>>

(***************************************************************************)
(* doRequest(): the answer, or an error result; either way the deleter runs *)
(* next.                                                                    *)
(***************************************************************************)
Send(k) ==
    /\ At(k, "send")
    /\ \E sent \in BOOLEAN :
          /\ conn' = [conn EXCEPT ![client[k].ptr].exchange = IF sent THEN "await" ELSE "partial"]
          /\ client' = [client EXCEPT ![k].pc = IF sent THEN "recv" ELSE "release"]
    /\ UNCHANGED <<m_conns, m_total>>

\* A failed receive leaves the connection open.
Recv_StaysOpen(k) ==
    /\ At(k, "recv")
    /\ \E answered \in BOOLEAN :
          conn' = IF answered THEN [conn EXCEPT ![client[k].ptr].exchange = "clean"] ELSE conn
    /\ client' = [client EXCEPT ![k].pc = "release"]
    /\ UNCHANGED <<m_conns, m_total>>

\* recvResponse() closes the connection on a timeout, an error, an answer that
\* does not parse or does not fit the buffer.
Recv(k) ==
    /\ At(k, "recv")
    /\ \E answered \in BOOLEAN :
          conn' = IF answered THEN [conn EXCEPT ![client[k].ptr].exchange = "clean"]
                  ELSE [conn EXCEPT ![client[k].ptr].connected = FALSE]
    /\ client' = [client EXCEPT ![k].pc = "release"]
    /\ UNCHANGED <<m_conns, m_total>>

(***************************************************************************)
(* ReleasePtr()                                                            *)
(***************************************************************************)
WornOut(c) == c.m_request >= m_maxRequest

Discard(c) == \/ ~c.connected
              \/ c.m_createTime + m_maxAliveTime >= Now
              \/ WornOut(c)

Release(k) ==
    LET p == client[k].ptr
        c == [conn[p] EXCEPT !.m_request = @ + 1]
    IN  /\ At(k, "release")
        /\ \/ /\ Discard(c)
              /\ conn' = [conn EXCEPT ![p] = Free]
              /\ client' = [client EXCEPT ![k].pc = "out", ![k].ptr = NoConn, ![k].owed = -1]
           \/ /\ ~Discard(c)
              /\ conn' = [conn EXCEPT ![p] = c]
              /\ client' = [client EXCEPT ![k].pc = "push"]
        /\ UNCHANGED <<m_conns, m_total>>

Push(k) ==
    /\ At(k, "push")
    /\ m_conns' = Append(m_conns, client[k].ptr)
    /\ client' = [client EXCEPT ![k].pc = "out", ![k].ptr = NoConn]
    /\ UNCHANGED <<m_total, conn>>

\* Someone who kept getSocket() closes the socket of an idle connection.
CloseIdle(c) ==
    /\ \E i \in DOMAIN m_conns : m_conns[i] = c
    /\ conn[c].connected
    /\ conn' = [conn EXCEPT ![c].connected = FALSE]
    /\ UNCHANGED <<m_conns, m_total, client>>

ClientStep(k) ==
    \/ Pick(k) \/ Sweep(k) \/ Count(k) \/ Connected(k) \/ ConnectFails(k)
    \/ Send(k) \/ Recv(k) \/ Release(k) \/ Push(k)

Next == (\E k \in Clients : ClientStep(k)) \/ (\E c \in Conns : CloseIdle(c))

Spec == Init /\ [][Next]_vars
-----------------------------------------------------------------------------
Alive == {c \in Conns : conn[c].alive}
Holders(c) == {k \in Clients : client[k].ptr = c}
Owed == [k \in Clients |-> client[k].owed]

\* A connection belongs to one fiber, or waits once in the pool, or is about to
\* be deleted by one fiber; nothing else refers to it and no live one is lost
\* (http_connection.cc:271-342: raw pointers in m_conns, a deleter that puts
\* them back).  m_total counts the live ones, up to the changes that fibers are
\* about to make, whatever runs between the lock, the deletions and the
\* counting (http_connection.cc:302, 326, 337).
OneOwner ==
    /\ \A c \in Conns :
          Cardinality(Holders(c)) + Cardinality({k \in Clients : c \in client[k].invalid})
            + Cardinality({i \in DOMAIN m_conns : m_conns[i] = c}) = (IF c \in Alive THEN 1 ELSE 0)
    /\ m_total + SumFunction(Owed) = Cardinality(Alive)

\* A connection that still owes an answer is never handed out again, so no
\* request receives the answer of an earlier one that timed out
\* (http_connection.cc:151-177 and 334).
NoStrayAnswer ==
    /\ \A i \in DOMAIN m_conns : conn[m_conns[i]].exchange # "await"
    /\ \A k \in Clients : client[k].pc = "send" => conn[client[k].ptr].exchange # "await"

\* Only connections whose last exchange is complete wait in the pool
\* (http_connection.cc:292 hands out "the first valid connection").
PooledAreClean == \A i \in DOMAIN m_conns : conn[m_conns[i]].exchange = "clean"
=============================================================================
