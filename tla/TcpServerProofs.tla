--------------------------- MODULE TcpServerProofs ---------------------------
(***************************************************************************)
(* FdOwned for every number of addresses, Sockets, descriptors, connections *)
(* and calls.  It is inductive with the types of the state: every action    *)
(* opens a descriptor for a Socket nobody has or that has none (Opens), or  *)
(* closes the Sockets whose last reference goes (Closes), or leaves Sockets *)
(* and descriptors alone and keeps the references (Keeps).                  *)
(***************************************************************************)
EXTENDS TcpServer, WellFoundedInduction, FiniteSetTheorems, TLAPS

Kinds == [kind : {"free", "listen", "conn"}, addr : Addrs \cup {None}, backlog : Nat]
Tasks == [do : {"startAccept", "close", "resume"}, sock : Sockets \cup {None}, fd : Int]

\* The types FdOwned rests on: descriptors and Sockets, and who refers to them.
SockTypes ==
    /\ kernel \in [Fds -> Kinds]
    /\ fdctx \subseteq Fds
    /\ m_sock \in [Sockets -> Fds \cup {-1}]
    /\ m_isConnected \in [Sockets -> BOOLEAN]

RefTypes ==
    /\ m_socks \in Seq(Sockets)
    /\ runq \in Seq(Tasks)
    /\ \A t \in Range(runq) : IF t.do = "close" THEN t.sock = None ELSE t.sock \in Sockets
    /\ cur \in [sock : Sockets \cup {None}, fd : Int, pc : {"none", "loop", "accept"}]
    /\ cur.pc # "none" => cur.sock \in Sockets
    /\ blocked \subseteq [sock : Sockets, fd : Int] /\ IsFiniteSet(blocked)
    /\ handlers \subseteq Sockets
    /\ clients \subseteq Sockets

ServerTypes == SockTypes /\ RefTypes

ServerInv == ServerTypes /\ FdOwned

(***************************************************************************)
(* Sequences as the sets of their elements.                                 *)
(***************************************************************************)
\* push_back() adds one element.
LEMMA RangeAppend ==
    ASSUME NEW T, NEW q \in Seq(T), NEW x \in T
    PROVE  Range(Append(q, x)) = Range(q) \cup {x}
<1> DEFINE r == Append(q, x)
<1>1. /\ Len(r) = Len(q) + 1 /\ Len(q) \in Nat
      /\ DOMAIN r = 1..(Len(q) + 1) /\ DOMAIN q = 1..Len(q)
      /\ \A i \in 1..Len(q) : r[i] = q[i]
      /\ r[Len(q) + 1] = x
  OBVIOUS
<1> HIDE DEF r
<1> QED BY <1>1 DEF Range

\* The front of a list and the rest are its elements.
LEMMA RangeTail ==
    ASSUME NEW T, NEW q \in Seq(T), q # <<>>
    PROVE  /\ Head(q) \in T /\ Tail(q) \in Seq(T)
           /\ Range(q) = {Head(q)} \cup Range(Tail(q))
<1> DEFINE r == Tail(q)
<1>1. /\ Head(q) = q[1] /\ Head(q) \in T /\ r \in Seq(T)
      /\ Len(q) \in Nat \ {0}
      /\ DOMAIN r = 1..(Len(q) - 1) /\ DOMAIN q = 1..Len(q)
      /\ \A i \in 1..(Len(q) - 1) : r[i] = q[i + 1]
  OBVIOUS
<1> HIDE DEF r
<1>2. ASSUME NEW i \in 1..Len(q), i # 1 PROVE q[i] \in Range(r)
  <2>1. i - 1 \in 1..(Len(q) - 1) /\ r[i - 1] = q[i]
    BY <1>1, <1>2
  <2> QED BY <2>1, <1>1 DEF Range
<1>3. ASSUME NEW i \in 1..(Len(q) - 1) PROVE r[i] \in Range(q)
  <2>1. i + 1 \in 1..Len(q) /\ r[i] = q[i + 1]
    BY <1>1, <1>3
  <2> QED BY <2>1, <1>1 DEF Range
<1>4. q[1] \in Range(q)
  BY <1>1 DEF Range
<1> QED BY <1>1, <1>2, <1>3, <1>4 DEF Range, r

\* Two lists one after the other have the elements of both.
LEMMA RangeConcat ==
    ASSUME NEW T, NEW q \in Seq(T), NEW r \in Seq(T)
    PROVE  q \o r \in Seq(T) /\ Range(q \o r) = Range(q) \cup Range(r)
<1> DEFINE c == q \o r
<1>1. /\ c \in Seq(T) /\ Len(q) \in Nat /\ Len(r) \in Nat
      /\ DOMAIN c = 1..(Len(q) + Len(r))
      /\ DOMAIN q = 1..Len(q) /\ DOMAIN r = 1..Len(r)
      /\ \A i \in 1..Len(q) : c[i] = q[i]
      /\ \A i \in (Len(q) + 1)..(Len(q) + Len(r)) : c[i] = r[i - Len(q)]
  OBVIOUS
<1> HIDE DEF c
<1>2. ASSUME NEW i \in 1..Len(r) PROVE r[i] \in Range(c)
  <2>1. /\ Len(q) + i \in (Len(q) + 1)..(Len(q) + Len(r))
        /\ (Len(q) + i) - Len(q) = i
    BY <1>1, <1>2
  <2>2. c[Len(q) + i] = r[i] /\ Len(q) + i \in DOMAIN c
    BY <2>1, <1>1
  <2> QED BY <2>2 DEF Range
<1>3. ASSUME NEW i \in DOMAIN c PROVE c[i] \in Range(q) \cup Range(r)
  <2>1. CASE i \in 1..Len(q)
    BY <2>1, <1>1 DEF Range
  <2>2. CASE i \notin 1..Len(q)
    <3>1. i \in (Len(q) + 1)..(Len(q) + Len(r)) /\ i - Len(q) \in 1..Len(r)
      BY <2>2, <1>1, <1>3
    <3> QED BY <3>1, <1>1, Zenon DEF Range
  <2> QED BY <2>1, <2>2
<1>4. ASSUME NEW i \in 1..Len(q) PROVE q[i] \in Range(c)
  <2>1. i \in DOMAIN c /\ c[i] = q[i]
    BY <1>1, <1>4
  <2> QED BY <2>1 DEF Range
<1>5. Range(c) \subseteq Range(q) \cup Range(r)
  BY <1>3 DEF Range
<1>6. Range(q) \subseteq Range(c) /\ Range(r) \subseteq Range(c)
  BY <1>1, <1>2, <1>4, Zenon DEF Range
<1> QED BY <1>1, <1>5, <1>6, Zenon DEF c

\* socket() gives out a free number.
LEMMA LowestIsFree == ASSUME FreeFds # {} PROVE LowestFd \in FreeFds
<1> DEFINE R == {ss \in Nat \X Nat : ss[1] < ss[2]}
<1>1. IsWellFoundedOn(R, Nat)
  BY NatLessThanWellFounded DEF OpToRel
<1>2. FreeFds \in SUBSET Nat
  BY TcpServerAssumption DEF FreeFds, Fds
<1> HIDE DEF R
<1>3. PICK x \in FreeFds : \A y \in FreeFds : ~(<<y, x>> \in R)
  BY <1>1, <1>2, WFMin, Zenon
<1>4. ASSUME NEW y \in FreeFds PROVE x =< y
  <2>1. x \in Nat /\ y \in Nat
    BY <1>2
  <2>2. y < x => <<y, x>> \in R
    BY <2>1 DEF R
  <2> QED BY <1>3, <2>1, <2>2
<1> QED BY <1>4 DEF LowestFd, Min

(***************************************************************************)
(* What the three kinds of step do to FdOwned.                              *)
(***************************************************************************)
\* Whoever is referred to is a Socket.
LEMMA HeldTyped == ASSUME ServerTypes PROVE Held \subseteq Sockets \cup {None}
<1>1. Range(m_socks) \subseteq Sockets
  BY DEF ServerTypes, RefTypes, Range
<1>2. {t.sock : t \in Range(runq)} \subseteq Sockets \cup {None}
  <2>1. Range(runq) \subseteq Tasks
    BY DEF ServerTypes, RefTypes, Range
  <2> QED BY <2>1 DEF Tasks
<1>3. {f.sock : f \in blocked} \subseteq Sockets /\ cur.sock \in Sockets \cup {None}
  BY DEF ServerTypes, RefTypes
<1> QED BY <1>1, <1>2, <1>3, Zenon DEF Held, HeldBy, ServerTypes, RefTypes

\* A Socket that has no descriptor gets one that was free, and is held.
LEMMA Opens ==
    ASSUME ServerInv, NEW s \in Sockets, m_sock[s] = -1,
           NEW fd \in FreeFds,
           FreeFds' = FreeFds \ {fd},
           fdctx' = fdctx \cup {fd},
           m_sock' = [m_sock EXCEPT ![s] = fd],
           NEW b \in BOOLEAN, m_isConnected' = [m_isConnected EXCEPT ![s] = b],
           Held' = Held \cup {s}
    PROVE  FdOwned'
<1>1. /\ m_sock \in [Sockets -> Fds \cup {-1}] /\ m_isConnected \in [Sockets -> BOOLEAN]
      /\ FdOwned /\ None \notin Sockets /\ fd \in Fds /\ -1 \notin Fds
  BY TcpServerAssumption DEF ServerInv, ServerTypes, SockTypes, FreeFds, Fds
<1>2. \A t \in Sockets : m_sock[t] # fd
  <2>1. ASSUME NEW t \in Sockets, m_sock[t] = fd PROVE FALSE
    <3>1. t \in Held /\ t # None
      BY <1>1, <2>1, Zenon DEF FdOwned
    <3>2. m_sock[t] \in {m_sock[x] : x \in Held \ {None}} \ {-1}
      BY <1>1, <2>1, <3>1, Zenon
    <3> QED BY <1>1, <2>1, <3>2, Zenon DEF FdOwned
  <2> QED BY <2>1
<1>3. m_sock' \in [Sockets -> Fds \cup {-1}] /\ m_sock'[s] = fd
      /\ \A t \in Sockets \ {s} : m_sock'[t] = m_sock[t]
  BY <1>1
<1>4. \A t, u \in Sockets : (m_sock'[t] = m_sock'[u] /\ m_sock'[t] # -1) => t = u
  BY <1>1, <1>2, <1>3, ZenonT(60) DEF FdOwned
<1>5. {m_sock'[t] : t \in Held' \ {None}} \ {-1} = Fds \ FreeFds'
  <2>1. {m_sock[t] : t \in Held \ {None}} \ {-1} = Fds \ FreeFds
    BY <1>1 DEF FdOwned
  <2>2. \A t \in Held \ {None, s} : m_sock'[t] = m_sock[t]
    BY <1>1
  <2>3. Held' \ {None} = (Held \ {None, s}) \cup {s}
    BY <1>1
  <2>4. {m_sock[t] : t \in Held \ {None, s}} \ {-1} = Fds \ FreeFds
    BY <2>1
  <2> QED BY <1>1, <1>3, <2>2, <2>3, <2>4
<1>6. fdctx' = Fds \ FreeFds'
  BY <1>1, Zenon DEF FdOwned, FreeFds
<1>7. \A t \in Sockets : (t \notin Held' => m_sock'[t] = -1) /\ (m_isConnected'[t] => m_sock'[t] # -1)
  BY <1>1, <1>3, Zenon DEF FdOwned
<1> QED BY <1>4, <1>5, <1>6, <1>7, Zenon DEF FdOwned

\* Sockets are closed; whatever else was held still is.
LEMMA Closes ==
    ASSUME ServerInv, NEW S \in SUBSET Sockets, CloseSockets(S),
           Held \ S \subseteq Held', Held' \subseteq Held \cup S \cup {None}
    PROVE  FdOwned'
<1>1. /\ m_sock \in [Sockets -> Fds \cup {-1}] /\ m_isConnected \in [Sockets -> BOOLEAN]
      /\ FdOwned /\ None \notin Sockets /\ -1 \notin Fds
      /\ kernel \in [Fds -> Kinds]
  BY TcpServerAssumption DEF ServerInv, ServerTypes, SockTypes, Fds
<1>2. FreeFds' = FreeFds \cup (Fds \cap FdsOf(S))
  BY <1>1, Zenon DEF CloseSockets, ClosedKernel, FreeFds, Free
<1>3. FdsOf(S) \subseteq Fds
  BY <1>1 DEF FdsOf
<1>4. m_sock' = [t \in Sockets |-> IF t \in S THEN -1 ELSE m_sock[t]]
  BY DEF CloseSockets
<1>5. \A t, u \in Sockets : (m_sock'[t] = m_sock'[u] /\ m_sock'[t] # -1) => t = u
  BY <1>1, <1>4, Zenon DEF FdOwned
<1>6. {m_sock'[t] : t \in Held' \ {None}} \ {-1} = Fds \ FreeFds'
  <2>0. Held \subseteq Sockets \cup {None}
    BY HeldTyped DEF ServerInv
  <2>1. ASSUME NEW t \in Held' \ {None}, m_sock'[t] # -1
        PROVE  m_sock'[t] \in Fds \ FreeFds'
    <3>1. t \in Sockets \ S /\ t \in Held /\ m_sock'[t] = m_sock[t]
      BY <1>4, <2>0, <2>1, Zenon
    <3>2. m_sock[t] \in Fds \ FreeFds
      BY <1>1, <2>1, <3>1, Zenon DEF FdOwned
    <3>3. m_sock[t] \notin FdsOf(S)
      BY <1>1, <3>1, <3>2 DEF FdsOf, FdOwned
    <3> QED BY <1>2, <3>1, <3>2, <3>3, Zenon
  <2>2. ASSUME NEW fd \in Fds \ FreeFds'
        PROVE  fd \in {m_sock'[t] : t \in Held' \ {None}} \ {-1}
    <3>1. fd \in Fds \ FreeFds /\ fd \notin FdsOf(S) /\ fd # -1
      BY <1>1, <1>2, <2>2, Zenon
    <3>2. PICK t \in Held \ {None} : m_sock[t] = fd
      BY <1>1, <3>1, Zenon DEF FdOwned
    <3>3. t \notin S /\ t \in Sockets
      BY <2>0, <3>1, <3>2, Zenon DEF FdsOf
    <3>4. t \in Held' \ {None} /\ m_sock'[t] = fd
      BY <1>1, <1>4, <3>2, <3>3, Zenon
    <3> QED BY <3>1, <3>4
  <2> QED BY <2>1, <2>2
<1>7. fdctx' = Fds \ FreeFds'
  BY <1>1, <1>2, <1>3, Zenon DEF FdOwned, CloseSockets
<1>8. \A t \in Sockets : (t \notin Held' => m_sock'[t] = -1) /\ (m_isConnected'[t] => m_sock'[t] # -1)
  <2>1. m_isConnected' = [t \in Sockets |-> m_isConnected[t] /\ t \notin S]
    BY DEF CloseSockets
  <2> SUFFICES ASSUME NEW t \in Sockets
               PROVE  /\ t \notin Held' => m_sock'[t] = -1
                      /\ m_isConnected'[t] => m_sock'[t] # -1
    OBVIOUS
  <2>2. m_isConnected'[t] => m_isConnected[t] /\ t \notin S
    BY <2>1, Zenon
  <2>3. (t \notin Held => m_sock[t] = -1) /\ (m_isConnected[t] => m_sock[t] # -1)
    BY <1>1 DEF FdOwned
  <2>4. t \notin Held' => t \in S \/ t \notin Held
    OBVIOUS
  <2>5. m_sock'[t] = IF t \in S THEN -1 ELSE m_sock[t]
    BY <1>4
  <2> QED BY <2>2, <2>3, <2>4, <2>5, Zenon
<1> QED BY <1>5, <1>6, <1>7, <1>8, Zenon DEF FdOwned

\* Descriptors and Sockets stay, and so do the references.
LEMMA Keeps ==
    ASSUME ServerInv, FreeFds' = FreeFds, UNCHANGED <<fdctx, m_sock, m_isConnected>>,
           Held' \cup {None} = Held \cup {None}
    PROVE  FdOwned'
<1>1. Held' \ {None} = Held \ {None} /\ None \notin Sockets
  BY TcpServerAssumption
<1>2. \A t \in Sockets : t \in Held' <=> t \in Held
  BY <1>1
<1> QED BY <1>1, <1>2, Zenon DEF ServerInv, FdOwned

\* What close() leaves is typed.
LEMMA CloseTypes ==
    ASSUME SockTypes, NEW S \in SUBSET Sockets, CloseSockets(S) PROVE SockTypes'
<1>1. Free \in Kinds
  BY DEF Free, Kinds
<1>2. m_isConnected' \in [Sockets -> BOOLEAN]
  BY Zenon DEF CloseSockets
<1> QED BY <1>1, <1>2, Zenon DEF SockTypes, CloseSockets, ClosedKernel

\* A Socket without a descriptor gets the lowest free one.
LEMMA OpenedKeeps ==
    ASSUME ServerInv, NEW s \in Sockets, m_sock[s] = -1, FreeFds # {},
           NEW k \in Kinds, k.kind # "free", NEW b \in BOOLEAN, Opened(s, k, b),
           Held' = Held \cup {s}
    PROVE  SockTypes' /\ FdOwned'
<1>1. LowestFd \in FreeFds /\ LowestFd \in Fds
  BY LowestIsFree DEF FreeFds
<1> DEFINE fd == LowestFd
<1>2. /\ kernel' = [kernel EXCEPT ![fd] = k] /\ fdctx' = fdctx \cup {fd}
      /\ m_sock' = [m_sock EXCEPT ![s] = fd]
      /\ m_isConnected' = [m_isConnected EXCEPT ![s] = b]
  BY DEF Opened
<1>3. SockTypes
  BY DEF ServerInv, ServerTypes
<1> HIDE DEF fd
<1>4. SockTypes'
  BY <1>1, <1>2, <1>3, Zenon DEF SockTypes, fd
<1>5. FreeFds' = FreeFds \ {fd}
  BY <1>1, <1>2, <1>3, Zenon DEF FreeFds, SockTypes, fd
<1>6. fd \in FreeFds
  BY <1>1 DEF fd
<1> QED BY <1>2, <1>4, <1>5, <1>6, Opens, Zenon

\* A Socket out of the fresh ones has no descriptor.
LEMMA FreshHasNone ==
    ASSUME ServerInv, Fresh # {}, NEW s, s = CHOOSE x \in Fresh : TRUE
    PROVE  s \in Sockets /\ s \notin Held /\ m_sock[s] = -1
<1>1. s \in Fresh
  OBVIOUS
<1> QED BY <1>1 DEF Fresh, ServerInv, FdOwned

(***************************************************************************)
(* The actions.                                                             *)
(***************************************************************************)
\* Nothing is open and nobody refers to a Socket.
LEMMA ServerInit == Init => ServerInv
<1> SUFFICES ASSUME Init PROVE ServerInv
  OBVIOUS
<1>0. None \notin Sockets /\ MaxFd \in Nat
  BY TcpServerAssumption
<1>1. SockTypes
  BY DEF Init, SockTypes, Kinds, Free
<1>2. RefTypes
  BY FS_EmptySet DEF Init, RefTypes, Range, NoFiber, Fiber
<1>3. FreeFds = Fds
  BY DEF Init, FreeFds, Free
<1>4. Held = {None}
  BY DEF Init, Held, HeldBy, Range, NoFiber, Fiber
<1>5. FdOwned
  BY <1>0, <1>3, <1>4, Zenon DEF Init, FdOwned
<1> QED BY <1>1, <1>2, <1>5 DEF ServerInv, ServerTypes

\* bind(): a new Socket in m_socks, with a new descriptor.
LEMMA BindKeeps == ASSUME ServerInv, NEW a \in Addrs, Bind(a) PROVE ServerInv'
<1> DEFINE s == CHOOSE x \in Fresh : TRUE
<1>1. /\ Fresh # {} /\ FreeFds # {} /\ Opened(s, Listen(a), FALSE)
      /\ m_socks' = Append(m_socks, s)
      /\ UNCHANGED <<runq, cur, blocked, handlers, clients>>
  BY Zenon DEF Bind
<1>2. s \in Sockets /\ s \notin Held /\ m_sock[s] = -1
  BY <1>1, FreshHasNone
<1> HIDE DEF s
<1>3. RefTypes
  BY DEF ServerInv, ServerTypes
<1>4. Range(m_socks') = Range(m_socks) \cup {s} /\ m_socks' \in Seq(Sockets)
  BY <1>1, <1>2, <1>3, RangeAppend DEF RefTypes
<1>5. RefTypes'
  BY <1>1, <1>3, <1>4, Zenon DEF RefTypes
<1>6. Held' = Held \cup {s}
  BY <1>1, <1>4, Zenon DEF Held, HeldBy
<1>7. Listen(a) \in Kinds /\ Listen(a).kind # "free"
  BY DEF Listen, Kinds
<1>8. SockTypes' /\ FdOwned'
  BY <1>1, <1>2, <1>6, <1>7, OpenedKeeps, Zenon
<1> QED BY <1>5, <1>8 DEF ServerInv, ServerTypes

\* A bind() that fails closes the Sockets only m_socks referred to.
LEMMA BindFailsKeeps == ASSUME ServerInv, NEW a \in Addrs, BindFails(a) PROVE ServerInv'
<1> DEFINE S == Range(m_socks) \ HeldBy(<<>>, runq, cur, blocked)
<1>1. /\ m_socks' = <<>> /\ CloseSockets(S)
      /\ UNCHANGED <<runq, cur, blocked, handlers, clients>>
  BY DEF BindFails
<1>2. SockTypes /\ RefTypes
  BY DEF ServerInv, ServerTypes
<1>3. S \in SUBSET Sockets
  BY <1>2 DEF RefTypes, Range
<1>4. RefTypes'
  BY <1>1, <1>2 DEF RefTypes
<1>5. Held' = HeldBy(<<>>, runq, cur, blocked) \cup handlers \cup clients
  BY <1>1 DEF Held
<1>6. Held = Range(m_socks) \cup HeldBy(<<>>, runq, cur, blocked) \cup handlers \cup clients
  BY DEF Held, HeldBy, Range
<1>7. Held \ S \subseteq Held' /\ Held' \subseteq Held \cup S
  BY <1>5, <1>6, Zenon
<1> HIDE DEF S
<1>8. SockTypes' /\ FdOwned'
  BY <1>1, <1>2, <1>3, <1>7, CloseTypes, Closes, Zenon
<1> QED BY <1>4, <1>8 DEF ServerInv, ServerTypes

\* The tasks of start() refer to Sockets of m_socks.
LEMMA StartKeeps == ASSUME ServerInv, Start PROVE ServerInv'
<1> DEFINE new == [i \in 1..Len(m_socks) |-> Start_(m_socks[i])]
<1>1. /\ runq' = runq \/ runq' = runq \o new
      /\ UNCHANGED <<kernel, fdctx, m_sock, m_isConnected, m_socks, cur, blocked, handlers, clients>>
  BY Zenon DEF Start
<1>2. SockTypes /\ RefTypes
  BY DEF ServerInv, ServerTypes
<1>3. new \in Seq(Tasks)
  <2>1. \A i \in 1..Len(m_socks) : Start_(m_socks[i]) \in Tasks
    BY <1>2 DEF RefTypes, Start_, Tasks
  <2>2. Len(m_socks) \in Nat
    BY <1>2 DEF RefTypes
  <2> QED BY <2>1, <2>2
<1>4. \A t \in Range(new) : t.sock \in Range(m_socks) /\ t.sock \in Sockets /\ t.do # "close"
  BY <1>2 DEF Range, Start_, RefTypes
<1> HIDE DEF new
<1>5. /\ runq' \in Seq(Tasks)
      /\ Range(runq) \subseteq Range(runq') /\ Range(runq') \subseteq Range(runq) \cup Range(new)
  <2>1. CASE runq' = runq
    BY <2>1, <1>2, Zenon DEF RefTypes
  <2>2. CASE runq' = runq \o new
    BY <2>2, <1>2, <1>3, RangeConcat DEF RefTypes
  <2> QED BY <1>1, <2>1, <2>2, Zenon
<1>6. RefTypes'
  BY <1>1, <1>2, <1>4, <1>5, Zenon DEF RefTypes
<1>7. Held' = Held
  BY <1>1, <1>4, <1>5 DEF Held, HeldBy
<1>8. FreeFds' = FreeFds /\ SockTypes'
  BY <1>1, <1>2, Zenon DEF FreeFds, SockTypes
<1> QED BY <1>1, <1>6, <1>7, <1>8, Keeps, Zenon DEF ServerInv, ServerTypes

\* stop()'s task refers to no Socket of its own.
LEMMA StopKeeps == ASSUME ServerInv, Stop PROVE ServerInv'
<1>1. /\ runq' = Append(runq, Close_)
      /\ UNCHANGED <<kernel, fdctx, m_sock, m_isConnected, m_socks, cur, blocked, handlers, clients>>
  BY DEF Stop
<1>2. SockTypes /\ RefTypes
  BY DEF ServerInv, ServerTypes
<1>3. Close_ \in Tasks /\ Close_.do = "close" /\ Close_.sock = None
  BY DEF Close_, Tasks
<1>4. runq' \in Seq(Tasks) /\ Range(runq') = Range(runq) \cup {Close_}
  BY <1>1, <1>2, <1>3, RangeAppend DEF RefTypes
<1>5. RefTypes'
  BY <1>1, <1>2, <1>3, <1>4, Zenon DEF RefTypes
<1>6. Held' \cup {None} = Held \cup {None}
  BY <1>1, <1>3, <1>4 DEF Held, HeldBy
<1>7. FreeFds' = FreeFds /\ SockTypes'
  BY <1>1, <1>2, Zenon DEF FreeFds, SockTypes
<1> QED BY <1>1, <1>5, <1>6, <1>7, Keeps, Zenon DEF ServerInv, ServerTypes

\* connect() opens a descriptor only for a Socket without one, or closes.
LEMMA ConnectKeeps == ASSUME ServerInv, NEW s \in Sockets, Connect(s) PROVE ServerInv'
<1>1. /\ clients' = clients \cup {s}
      /\ UNCHANGED <<m_socks, runq, cur, blocked, handlers>>
      /\ \/ m_sock[s] = -1 /\ FreeFds # {} /\ Opened(s, Conn, TRUE)
         \/ CloseSockets({s})
  BY Zenon DEF Connect, server
<1>2. SockTypes /\ RefTypes
  BY DEF ServerInv, ServerTypes
<1>3. RefTypes'
  BY <1>1, <1>2, Zenon DEF RefTypes
<1>4. Held' = Held \cup {s}
  BY <1>1 DEF Held
<1>5. Conn \in Kinds /\ Conn.kind # "free"
  BY DEF Conn, Free, Kinds
<1>6. CASE m_sock[s] = -1 /\ FreeFds # {} /\ Opened(s, Conn, TRUE)
  BY <1>3, <1>4, <1>5, <1>6, OpenedKeeps, Zenon DEF ServerInv, ServerTypes
<1>7. CASE CloseSockets({s})
  <2>1. SockTypes' /\ FdOwned'
    BY <1>2, <1>4, <1>7, CloseTypes, Closes, Zenon
  <2> QED BY <1>3, <2>1 DEF ServerInv, ServerTypes
<1> QED BY <1>1, <1>6, <1>7, Zenon

\* The client gives up a Socket and its descriptor together.
LEMMA ClientCloseKeeps == ASSUME ServerInv, NEW s \in Sockets, ClientClose(s) PROVE ServerInv'
<1>1. /\ clients' = clients \ {s} /\ CloseSockets({s}) /\ s \in clients
      /\ UNCHANGED <<m_socks, runq, cur, blocked, handlers>>
  BY DEF ClientClose, server
<1>2. SockTypes /\ RefTypes
  BY DEF ServerInv, ServerTypes
<1>3. RefTypes'
  BY <1>1, <1>2, Zenon DEF RefTypes
<1>4. Held \ {s} \subseteq Held' /\ Held' \subseteq Held \cup {s}
  BY <1>1 DEF Held
<1>5. SockTypes' /\ FdOwned'
  BY <1>1, <1>2, <1>4, CloseTypes, Closes, Zenon
<1> QED BY <1>3, <1>5 DEF ServerInv, ServerTypes

\* A handler gives up its Socket and the descriptor together.
LEMMA HandlerDoneKeeps == ASSUME ServerInv, NEW s \in Sockets, HandlerDone(s) PROVE ServerInv'
<1>1. /\ handlers' = handlers \ {s} /\ CloseSockets({s}) /\ s \in handlers
      /\ UNCHANGED <<m_socks, runq, cur, blocked, clients>>
  BY DEF HandlerDone
<1>2. SockTypes /\ RefTypes
  BY DEF ServerInv, ServerTypes
<1>3. RefTypes'
  BY <1>1, <1>2, Zenon DEF RefTypes
<1>4. Held \ {s} \subseteq Held' /\ Held' \subseteq Held \cup {s}
  BY <1>1 DEF Held
<1>5. SockTypes' /\ FdOwned'
  BY <1>1, <1>2, <1>4, CloseTypes, Closes, Zenon
<1> QED BY <1>3, <1>5 DEF ServerInv, ServerTypes

\* A connection in the backlog is no descriptor yet.
LEMMA ArriveKeeps == ASSUME ServerInv, NEW fd \in Fds, Arrive(fd) PROVE ServerInv'
<1>1. /\ kernel' = [kernel EXCEPT ![fd].backlog = @ + 1]
      /\ UNCHANGED <<fdctx, m_sock, m_isConnected, m_socks, runq, cur, blocked, handlers, clients>>
  BY DEF Arrive, server
<1>2. SockTypes /\ RefTypes
  BY DEF ServerInv, ServerTypes
<1>3. kernel' \in [Fds -> Kinds] /\ \A g \in Fds : kernel'[g].kind = kernel[g].kind
  BY <1>1, <1>2 DEF SockTypes, Kinds
<1>4. SockTypes' /\ FreeFds' = FreeFds
  BY <1>1, <1>2, <1>3, Zenon DEF SockTypes, FreeFds
<1>5. RefTypes' /\ Held' = Held
  BY <1>1, <1>2, Zenon DEF RefTypes, Held
<1> QED BY <1>1, <1>4, <1>5, Keeps, Zenon DEF ServerInv, ServerTypes

\* The reference goes from the task to the fiber.
LEMMA TakeKeeps == ASSUME ServerInv, Take PROVE ServerInv'
<1> DEFINE h == Head(runq)
<1>1. /\ cur = NoFiber /\ runq # <<>> /\ h.do # "close"
      /\ cur' = Fiber(h.sock, h.fd, IF h.do = "resume" THEN "accept" ELSE "loop")
      /\ runq' = Tail(runq)
      /\ UNCHANGED <<kernel, fdctx, m_sock, m_isConnected, m_socks, blocked, handlers, clients>>
  BY DEF Take
<1>2. SockTypes /\ RefTypes
  BY DEF ServerInv, ServerTypes
<1>3. h \in Tasks /\ runq' \in Seq(Tasks) /\ Range(runq) = {h} \cup Range(runq')
  BY <1>1, <1>2, RangeTail, Zenon DEF RefTypes
<1> HIDE DEF h
<1>4. h.sock \in Sockets /\ h.fd \in Int
  BY <1>1, <1>2, <1>3, Zenon DEF RefTypes, Tasks
<1>5. RefTypes'
  BY <1>1, <1>2, <1>3, <1>4, Zenon DEF RefTypes, Fiber
<1>6. Held' \cup {None} = Held \cup {None}
  BY <1>1, <1>3 DEF Held, HeldBy, Fiber, NoFiber
<1>7. FreeFds' = FreeFds /\ SockTypes'
  BY <1>1, <1>2, Zenon DEF FreeFds, SockTypes
<1> QED BY <1>1, <1>5, <1>6, <1>7, Keeps, Zenon DEF ServerInv, ServerTypes

\* stop()'s task: the woken fibers keep their references, m_socks is closed.
LEMMA StopTaskKeeps == ASSUME ServerInv, StopTask PROVE ServerInv'
<1> DEFINE woken == {f \in blocked : f.fd \in FdsOf(Range(m_socks))}
           n == Cardinality(woken)
           S == Range(m_socks)
<1>1. PICK order \in Bijection(1..n, woken) :
         runq' = Tail(runq) \o [i \in 1..n |-> Resume_(order[i])]
  BY Zenon DEF StopTask
<1> DEFINE new == [i \in 1..n |-> Resume_(order[i])]
<1>2. /\ cur = NoFiber /\ runq # <<>> /\ Head(runq).do = "close"
      /\ blocked' = blocked \ woken /\ CloseSockets(S) /\ m_socks' = <<>>
      /\ UNCHANGED <<cur, handlers, clients>>
  BY Zenon DEF StopTask
<1>3. SockTypes /\ RefTypes
  BY DEF ServerInv, ServerTypes
<1>4. /\ Head(runq) \in Tasks /\ Tail(runq) \in Seq(Tasks)
      /\ Range(runq) = {Head(runq)} \cup Range(Tail(runq))
  BY <1>2, <1>3, RangeTail, Zenon DEF RefTypes
<1>5. /\ \A i \in 1..n : order[i] \in woken
      /\ \A f \in woken : \E i \in 1..n : order[i] = f
  BY <1>1, Zenon DEF Bijection, Injection, Surjection
<1>6. n \in Nat /\ IsFiniteSet(woken)
  BY <1>3, FS_Subset, FS_CardinalityType, Zenon DEF RefTypes
<1>7. blocked \subseteq [sock : Sockets, fd : Int]
  BY <1>3 DEF RefTypes
<1> HIDE DEF n
<1>8. \A f \in woken : Resume_(f) \in Tasks /\ Resume_(f).sock = f.sock /\ f.sock \in Sockets
                       /\ Resume_(f).do # "close"
  BY <1>7 DEF Resume_, Tasks
<1>9. new \in Seq(Tasks)
  BY <1>5, <1>6, <1>8
<1>10. Range(new) = {Resume_(f) : f \in woken}
  BY <1>5, Zenon DEF Range
<1> HIDE DEF new, woken
<1>11. runq' = Tail(runq) \o new
  BY <1>1 DEF new
<1>12. runq' \in Seq(Tasks) /\ Range(runq') = Range(Tail(runq)) \cup Range(new)
  <2> DEFINE rest == Tail(runq)
  <2>1. rest \in Seq(Tasks) /\ runq' = rest \o new
    BY <1>4, <1>11, Zenon
  <2> HIDE DEF rest
  <2>2. rest \o new \in Seq(Tasks) /\ Range(rest \o new) = Range(rest) \cup Range(new)
    BY <1>9, <2>1, RangeConcat, ZenonT(60)
  <2> QED BY <2>1, <2>2, Zenon DEF rest
<1>13. IsFiniteSet(blocked') /\ woken \subseteq blocked
  BY <1>2, <1>3, FS_Subset, Zenon DEF RefTypes, woken
<1>14. RefTypes'
  <2>1. \A t \in Range(runq') : IF t.do = "close" THEN t.sock = None ELSE t.sock \in Sockets
    BY <1>3, <1>4, <1>8, <1>10, <1>12, Zenon DEF RefTypes
  <2> QED BY <1>2, <1>3, <1>12, <1>13, <2>1 DEF RefTypes
<1>15. S \in SUBSET Sockets
  BY <1>3 DEF RefTypes, Range
<1>16. Head(runq).sock = None
  BY <1>2, <1>3, <1>4, Zenon DEF RefTypes
<1>17. {t.sock : t \in Range(runq)} = {None} \cup {t.sock : t \in Range(Tail(runq))}
  BY <1>4, <1>16, Zenon
<1>18. {t.sock : t \in Range(runq')} = {t.sock : t \in Range(Tail(runq))} \cup {f.sock : f \in woken}
  BY <1>8, <1>10, <1>12
<1>19. {f.sock : f \in blocked} = {f.sock : f \in blocked'} \cup {f.sock : f \in woken}
  BY <1>2, <1>13, Zenon
<1>20. cur.sock = None /\ cur' = cur
  BY <1>2 DEF NoFiber, Fiber
<1>21. Range(m_socks') = {}
  BY <1>2 DEF Range
<1> HIDE DEF S
<1>22. Held \ S \subseteq Held' /\ Held' \subseteq Held \cup S
  BY <1>2, <1>17, <1>18, <1>19, <1>20, <1>21, Zenon DEF Held, HeldBy, S
<1>23. SockTypes' /\ FdOwned'
  BY <1>2, <1>3, <1>15, <1>22, CloseTypes, Closes, Zenon
<1> QED BY <1>14, <1>23 DEF ServerInv, ServerTypes

\* The accept fiber ends and closes what only it referred to, or goes on.
LEMMA LoopKeeps == ASSUME ServerInv, Loop PROVE ServerInv'
<1>1. cur.pc = "loop" /\ UNCHANGED <<m_socks, runq, blocked, handlers, clients>>
  BY DEF Loop
<1>2. SockTypes /\ RefTypes
  BY DEF ServerInv, ServerTypes
<1>3. cur.sock \in Sockets
  BY <1>1, <1>2, Zenon DEF RefTypes
<1>4. CASE m_isStop
  <2> DEFINE S == {cur.sock} \ HeldBy(m_socks, runq, NoFiber, blocked)
  <2>1. cur' = NoFiber /\ CloseSockets(S)
    BY <1>4 DEF Loop
  <2>2. RefTypes'
    BY <1>1, <1>2, <2>1 DEF RefTypes, NoFiber, Fiber
  <2>3. NoFiber.sock = None
    BY DEF NoFiber, Fiber
  <2>4. Held' = HeldBy(m_socks, runq, NoFiber, blocked) \cup handlers \cup clients
    BY <1>1, <2>1 DEF Held
  <2>5. Held \subseteq Held' \cup {cur.sock} /\ Held' \subseteq Held \cup {None}
    BY <2>3, <2>4, Zenon DEF Held, HeldBy
  <2>6. Held \ S \subseteq Held'
    BY <2>4, <2>5
  <2>7. S \in SUBSET Sockets
    BY <1>3
  <2> HIDE DEF S
  <2> QED BY <1>2, <2>1, <2>2, <2>5, <2>6, <2>7, CloseTypes, Closes, Zenon DEF ServerInv, ServerTypes
<1>5. CASE ~m_isStop
  <2>1. /\ cur' = Fiber(cur.sock, m_sock[cur.sock], "accept")
        /\ UNCHANGED <<kernel, fdctx, m_sock, m_isConnected>>
    BY <1>5 DEF Loop
  <2>2. m_sock[cur.sock] \in Int
    BY <1>2, <1>3 DEF SockTypes, Fds
  <2>3. RefTypes' /\ cur'.sock = cur.sock
    BY <1>1, <1>2, <1>3, <2>1, <2>2, Zenon DEF RefTypes, Fiber
  <2>4. FreeFds' = FreeFds /\ SockTypes' /\ Held' = Held
    BY <1>1, <1>2, <2>1, <2>3, Zenon DEF FreeFds, SockTypes, Held, HeldBy
  <2> QED BY <2>1, <2>3, <2>4, Keeps, Zenon DEF ServerInv, ServerTypes
<1> QED BY <1>4, <1>5

\* accept(): a new Socket for a handler, with a new descriptor.
LEMMA AcceptConnKeeps == ASSUME ServerInv, AcceptConn PROVE ServerInv'
<1> DEFINE s == CHOOSE x \in Fresh : TRUE
           fd == LowestFd
<1>1. /\ cur.pc = "accept" /\ cur.fd \in Fds /\ kernel[cur.fd].kind = "listen"
      /\ kernel[cur.fd].backlog > 0 /\ FreeFds # {} /\ Fresh # {}
      /\ kernel' = [kernel EXCEPT ![cur.fd].backlog = @ - 1, ![fd] = Conn]
      /\ fdctx' = fdctx \cup {fd}
      /\ m_sock' = [m_sock EXCEPT ![s] = fd]
      /\ m_isConnected' = [m_isConnected EXCEPT ![s] = TRUE]
      /\ handlers' = handlers \cup {s}
      /\ cur' = [cur EXCEPT !.pc = "loop"]
      /\ UNCHANGED <<m_socks, runq, blocked, clients>>
  BY Zenon DEF AcceptConn, InAccept, Listening, Again
<1>2. s \in Sockets /\ s \notin Held /\ m_sock[s] = -1
  BY <1>1, FreshHasNone, Zenon
<1>3. fd \in FreeFds /\ fd \in Fds
  BY <1>1, LowestIsFree, Zenon DEF FreeFds
<1>4. SockTypes /\ RefTypes
  BY DEF ServerInv, ServerTypes
<1> HIDE DEF s, fd
<1>5. Conn \in Kinds /\ Conn.kind # "free"
  BY DEF Conn, Free, Kinds
<1>6. /\ kernel' \in [Fds -> Kinds]
      /\ kernel'[fd] = Conn
      /\ \A g \in Fds \ {fd} : kernel'[g].kind = kernel[g].kind
  BY <1>1, <1>3, <1>4, <1>5 DEF SockTypes, Kinds
<1>7. FreeFds' = FreeFds \ {fd}
  BY <1>3, <1>5, <1>6, Zenon DEF FreeFds
<1>8. SockTypes'
  BY <1>1, <1>2, <1>3, <1>4, <1>6, Zenon DEF SockTypes
<1>9. RefTypes' /\ cur'.sock = cur.sock
  BY <1>1, <1>2, <1>4, Zenon DEF RefTypes
<1>10. Held' = Held \cup {s}
  BY <1>1, <1>9, Zenon DEF Held, HeldBy
<1>11. FdOwned'
  BY <1>1, <1>2, <1>3, <1>7, <1>10, Opens, Zenon
<1> QED BY <1>8, <1>9, <1>11, Zenon DEF ServerInv, ServerTypes

\* The reference goes from the running fiber to the waiting one.
LEMMA AcceptWaitsKeeps == ASSUME ServerInv, AcceptWaits PROVE ServerInv'
<1> DEFINE f == [sock |-> cur.sock, fd |-> cur.fd]
<1>1. /\ cur.pc = "accept" /\ blocked' = blocked \cup {f} /\ cur' = NoFiber
      /\ UNCHANGED <<kernel, fdctx, m_sock, m_isConnected, m_socks, runq, handlers, clients>>
  BY DEF AcceptWaits, InAccept
<1>2. SockTypes /\ RefTypes
  BY DEF ServerInv, ServerTypes
<1>3. f \in [sock : Sockets, fd : Int] /\ f.sock = cur.sock
  BY <1>1, <1>2, Zenon DEF RefTypes
<1> HIDE DEF f
<1>4. IsFiniteSet(blocked')
  BY <1>1, <1>2, FS_AddElement, Zenon DEF RefTypes
<1>5. RefTypes'
  BY <1>1, <1>2, <1>3, <1>4 DEF RefTypes, NoFiber, Fiber
<1>6. Held' \cup {None} = Held \cup {None}
  BY <1>1, <1>3 DEF Held, HeldBy, Fiber, NoFiber
<1>7. FreeFds' = FreeFds /\ SockTypes'
  BY <1>1, <1>2, Zenon DEF FreeFds, SockTypes
<1> QED BY <1>1, <1>5, <1>6, <1>7, Keeps, Zenon DEF ServerInv, ServerTypes

\* A failed accept() changes no reference.
LEMMA AcceptFailsKeeps == ASSUME ServerInv, AcceptFails PROVE ServerInv'
<1>1. /\ cur.pc = "accept" /\ cur' = [cur EXCEPT !.pc = "loop"]
      /\ UNCHANGED <<kernel, fdctx, m_sock, m_isConnected, m_socks, runq, blocked, handlers, clients>>
  BY DEF AcceptFails, InAccept, Again
<1>2. SockTypes /\ RefTypes
  BY DEF ServerInv, ServerTypes
<1>3. RefTypes' /\ cur'.sock = cur.sock
  BY <1>1, <1>2, Zenon DEF RefTypes
<1>4. FreeFds' = FreeFds /\ SockTypes' /\ Held' = Held
  BY <1>1, <1>2, <1>3, Zenon DEF FreeFds, SockTypes, Held, HeldBy
<1> QED BY <1>1, <1>3, <1>4, Keeps, Zenon DEF ServerInv, ServerTypes

\* The reference goes from the waiting fiber to the queued one.
LEMMA ReadableKeeps == ASSUME ServerInv, NEW f \in blocked, Readable(f) PROVE ServerInv'
<1>1. /\ blocked' = blocked \ {f} /\ runq' = Append(runq, Resume_(f))
      /\ UNCHANGED <<kernel, fdctx, m_sock, m_isConnected, m_socks, cur, handlers, clients>>
  BY DEF Readable
<1>2. SockTypes /\ RefTypes
  BY DEF ServerInv, ServerTypes
<1>3. /\ Resume_(f) \in Tasks /\ Resume_(f).sock = f.sock /\ f.sock \in Sockets
      /\ Resume_(f).do # "close"
  BY <1>2, Zenon DEF Resume_, Tasks, RefTypes
<1>4. runq' \in Seq(Tasks) /\ Range(runq') = Range(runq) \cup {Resume_(f)}
  BY <1>1, <1>2, <1>3, RangeAppend DEF RefTypes
<1>5. IsFiniteSet(blocked')
  BY <1>1, <1>2, FS_Subset, Zenon DEF RefTypes
<1>6. RefTypes'
  BY <1>1, <1>2, <1>3, <1>4, <1>5, Zenon DEF RefTypes
<1>7. {g.sock : g \in blocked} = {g.sock : g \in blocked'} \cup {f.sock}
  BY <1>1
<1>8. Held' = Held
  BY <1>1, <1>3, <1>4, <1>7 DEF Held, HeldBy
<1>9. FreeFds' = FreeFds /\ SockTypes'
  BY <1>1, <1>2, Zenon DEF FreeFds, SockTypes
<1> QED BY <1>1, <1>6, <1>8, <1>9, Keeps, Zenon DEF ServerInv, ServerTypes

\* Every step keeps the invariant.
LEMMA ServerStep == ServerInv /\ [Next]_vars => ServerInv'
<1> SUFFICES ASSUME ServerInv, [Next]_vars PROVE ServerInv'
  OBVIOUS
<1>1. CASE UNCHANGED vars
  <2>1. UNCHANGED <<SockTypes, RefTypes, Held, FreeFds>>
    BY <1>1, Zenon DEF vars, SockTypes, RefTypes, Held, FreeFds
  <2> QED BY <1>1, <2>1, Zenon DEF ServerInv, ServerTypes, FdOwned, vars
<1>2. ASSUME NEW a \in Addrs, Bind(a) \/ BindFails(a) PROVE ServerInv'
  BY <1>2, BindKeeps, BindFailsKeeps, Zenon
<1>3. CASE Start \/ Stop
  BY <1>3, StartKeeps, StopKeeps, Zenon
<1>4. ASSUME NEW s \in Sockets, Connect(s) \/ ClientClose(s) \/ HandlerDone(s) PROVE ServerInv'
  BY <1>4, ConnectKeeps, ClientCloseKeeps, HandlerDoneKeeps, Zenon
<1>5. ASSUME NEW fd \in Fds, Arrive(fd) PROVE ServerInv'
  BY <1>5, ArriveKeeps
<1>6. ASSUME NEW f \in blocked, Readable(f) PROVE ServerInv'
  BY <1>6, ReadableKeeps
<1>7. CASE AcceptWorker
  BY <1>7, TakeKeeps, StopTaskKeeps, LoopKeeps, AcceptConnKeeps, AcceptWaitsKeeps,
     AcceptFailsKeeps, Zenon DEF AcceptWorker
<1>8. CASE Idle
  BY <1>1, <1>8 DEF Idle
<1> QED BY <1>1, <1>2, <1>3, <1>4, <1>5, <1>6, <1>7, <1>8, Zenon DEF Next

\* Descriptors never leak and are never shared: every open one belongs to one
\* Socket that is still referred to, and to one context of FdManager, whatever
\* bind(), connect(), stop(), accept() and the handlers do, and in whatever order
\* (socket.cc 86-98 and 157-293, tcp_server.cc 32-116).
THEOREM DescriptorsAreOwned == Spec => []FdOwned
<1>1. Init => ServerInv
  BY ServerInit
<1>2. ServerInv /\ [Next]_vars => ServerInv'
  BY ServerStep
<1>3. ServerInv => FdOwned
  BY DEF ServerInv
<1> QED BY <1>1, <1>2, <1>3, PTL DEF Spec
=============================================================================
