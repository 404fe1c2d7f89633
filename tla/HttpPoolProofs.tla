---------------------------- MODULE HttpPoolProofs ----------------------------
(***************************************************************************)
(* Proofs about HttpPool, for any number of fibers and connections and any  *)
(* limits: connections are never shared, and none that owes an answer is    *)
(* handed out.                                                              *)
(***************************************************************************)
EXTENDS HttpPool, FiniteSetTheorems, WellFoundedInduction, TLAPS

Steps == {"out", "sweep", "connect", "send", "recv", "release", "push"}
ConnType == [alive : BOOLEAN, connected : BOOLEAN, m_createTime : Nat, m_request : Nat,
             exchange : {"clean", "await", "partial"}]
ClientType == [pc : Steps, ptr : Conns \cup {NoConn}, invalid : SUBSET Conns, owed : Int]

\* The types of the state that the argument is about.
PoolTypes ==
    /\ m_conns \in Seq(Conns)
    /\ conn \in [Conns -> ConnType]
    /\ client \in [Clients -> ClientType]

\* The pool, the fibers' pointers and their lists of unusable connections have
\* no connection in common, and all of them refer to live ones.
Apart ==
    /\ \A i, j \in DOMAIN m_conns : m_conns[i] = m_conns[j] => i = j
    /\ \A k \in Clients, i \in DOMAIN m_conns :
          m_conns[i] # client[k].ptr /\ m_conns[i] \notin client[k].invalid
    /\ \A k, j \in Clients : client[k].ptr \notin client[j].invalid
    /\ \A k, j \in Clients :
          k # j => /\ client[k].ptr = client[j].ptr => client[k].ptr = NoConn
                   /\ client[k].invalid \cap client[j].invalid = {}
Live ==
    /\ \A i \in DOMAIN m_conns : conn[m_conns[i]].alive
    /\ \A k \in Clients :
          /\ client[k].ptr # NoConn => conn[client[k].ptr].alive
          /\ \A c \in client[k].invalid : conn[c].alive

\* What a fiber has at each point of doRequest().
PhaseOf(k) ==
    /\ client[k].pc \in {"send", "recv", "release", "push"} => client[k].ptr # NoConn
    /\ client[k].pc \in {"out", "connect"} => client[k].ptr = NoConn
    /\ client[k].pc # "sweep" => client[k].invalid = {}
Phase == \A k \in Clients : PhaseOf(k)

\* Where an answer may be outstanding: while the fiber receives, and then on a
\* connection that was closed.
AnswerOf(k) ==
    client[k].ptr # NoConn /\ client[k].pc # "recv" /\ conn[client[k].ptr].exchange = "await"
        => client[k].pc = "release" /\ ~conn[client[k].ptr].connected
Answered ==
    /\ \A i \in DOMAIN m_conns : conn[m_conns[i]].exchange # "await"
    /\ \A k \in Clients : AnswerOf(k)

\* The inductive invariant.
PoolInv == PoolTypes /\ Apart /\ Live /\ Phase /\ Answered
(***************************************************************************)
(* Sums over finite sets.                                                   *)
(***************************************************************************)
\* A set of natural numbers that is not empty has a least member.
LEMMA FirstExists ==
    ASSUME NEW good \in SUBSET Nat, good # {}
    PROVE  \E x \in good : \A y \in good : x <= y
<1> DEFINE R == {ss \in Nat \X Nat : ss[1] < ss[2]}
<1>1. IsWellFoundedOn(R, Nat)
  BY NatLessThanWellFounded DEF OpToRel
<1> HIDE DEF R
<1>2. \E x \in good : \A y \in good : ~(<<y, x>> \in R)
  BY <1>1, WFMin, Zenon
<1>3. \E x \in good : \A y \in good : x <= y
  <2>1. PICK x \in good : \A y \in good : <<y, x>> \notin R
    BY <1>2
  <2>2. ASSUME NEW y \in good PROVE x <= y
    <3>1. y < x => <<y, x>> \in R
      BY DEF R
    <3>2. x \in Nat /\ y \in Nat
      OBVIOUS
    <3> QED BY <2>1, <3>1, <3>2
  <2> QED BY <2>2
<1> QED BY <1>3

\* SumFunction() takes the elements one after the other: what is left of a set,
\* and the function that has the sum over every subset.
Chosen(s) == CHOOSE x \in s : TRUE
SumsTo(f, g, s) == g[s] = IF s = {} THEN 0 ELSE f[Chosen(s)] + g[s \ {Chosen(s)}]

\* The subsets with one element less come before a set.
LEMMA ChosenLess ==
    ASSUME NEW S, IsFiniteSet(S), NEW s \in SUBSET S
    PROVE  /\ Cardinality(s) \in Nat
           /\ s = {} <=> Cardinality(s) = 0
           /\ s # {} => /\ Chosen(s) \in s
                        /\ s \ {Chosen(s)} \in SUBSET S
                        /\ Cardinality(s \ {Chosen(s)}) = Cardinality(s) - 1
<1>1. IsFiniteSet(s)
  BY FS_Subset
<1>2. s # {} => Chosen(s) \in s
  BY DEF Chosen
<1>3. s # {} => Cardinality(s \ {Chosen(s)}) = Cardinality(s) - 1
  BY <1>1, <1>2, FS_RemoveElement
<1>4. Cardinality(s) \in Nat /\ (s = {} <=> Cardinality(s) = 0)
  BY <1>1, FS_EmptySet, FS_CardinalityType
<1> QED BY <1>2, <1>3, <1>4, Zenon

\* There is such a function: over subsets of at most n elements for every n,
\* for it could be extended from n - 1 to the least n without one.
LEMMA SumsExist ==
    ASSUME NEW S, IsFiniteSet(S), NEW f \in [S -> Int]
    PROVE  \E g \in [SUBSET S -> Int] : \A s \in SUBSET S : SumsTo(f, g, s)
<1> DEFINE Sub(n) == {s \in SUBSET S : Cardinality(s) <= n}
           Part(n) == \E g \in [Sub(n) -> Int] : \A s \in Sub(n) : SumsTo(f, g, s)
           bad == {n \in Nat : ~Part(n)}
<1>1. ASSUME bad # {} PROVE FALSE
  <2>1. PICK m \in bad : \A n \in bad : m <= n
    BY <1>1, FirstExists, Zenon
  <2>2. m \in Nat /\ ~Part(m)
    OBVIOUS
  <2>3. CASE m = 0
    <3> DEFINE g == [s \in Sub(0) |-> 0]
    <3>1. ASSUME NEW s \in Sub(0) PROVE s = {}
      <4>1. s \in SUBSET S /\ Cardinality(s) <= 0
        OBVIOUS
      <4>2. Cardinality(s) \in Nat /\ (s = {} <=> Cardinality(s) = 0)
        BY <4>1, ChosenLess, Zenon
      <4> QED BY <4>1, <4>2
    <3>2. g \in [Sub(0) -> Int] /\ \A s \in Sub(0) : SumsTo(f, g, s)
      BY <3>1 DEF SumsTo
    <3> QED BY <2>2, <2>3, <3>2, Zenon
  <2>4. CASE m # 0
    <3>1. m - 1 \in Nat /\ ~(m <= m - 1)
      BY <2>2, <2>4
    <3>2. Part(m - 1)
      BY <2>1, <3>1, Zenon
    <3>3. PICK g \in [Sub(m - 1) -> Int] : \A s \in Sub(m - 1) : SumsTo(f, g, s)
      BY <3>2, Zenon
    <3> DEFINE h == [s \in Sub(m) |-> IF s = {} THEN 0 ELSE f[Chosen(s)] + g[s \ {Chosen(s)}]]
    <3>4. ASSUME NEW s \in Sub(m), s # {}
          PROVE  f[Chosen(s)] \in Int /\ s \ {Chosen(s)} \in Sub(m - 1)
                 /\ g[s \ {Chosen(s)}] \in Int
      <4>1. /\ Cardinality(s) \in Nat /\ Cardinality(s) <= m /\ Chosen(s) \in S
            /\ s \ {Chosen(s)} \in SUBSET S
            /\ Cardinality(s \ {Chosen(s)}) = Cardinality(s) - 1
        BY <3>4, ChosenLess, Zenon
      <4>2. s \ {Chosen(s)} \in Sub(m - 1)
        BY <2>2, <4>1
      <4> QED BY <4>1, <4>2, Zenon
    <3>5. h \in [Sub(m) -> Int]
      BY <3>4
    <3>6. ASSUME NEW s \in Sub(m - 1) PROVE s \in Sub(m) /\ h[s] = g[s]
      <4>1. s \in Sub(m)
        <5>1. s \in SUBSET S /\ Cardinality(s) <= m - 1
          OBVIOUS
        <5>2. Cardinality(s) \in Nat
          BY <5>1, ChosenLess, Zenon
        <5> QED BY <2>2, <5>1, <5>2
      <4> QED BY <3>3, <4>1, Zenon DEF SumsTo
    <3>7. ASSUME NEW s \in Sub(m) PROVE SumsTo(f, h, s)
      <4>1. h[s] = IF s = {} THEN 0 ELSE f[Chosen(s)] + g[s \ {Chosen(s)}]
        OBVIOUS
      <4>2. s # {} => h[s \ {Chosen(s)}] = g[s \ {Chosen(s)}]
        BY <3>4, <3>6, Zenon
      <4> HIDE DEF h
      <4> QED BY <4>1, <4>2, Zenon DEF SumsTo
    <3> HIDE DEF h
    <3> QED BY <2>2, <3>5, <3>7, Zenon
  <2> QED BY <2>3, <2>4
<1>2. Cardinality(S) \in Nat
  BY FS_CardinalityType
<1>3. Sub(Cardinality(S)) = SUBSET S
  BY FS_Subset
<1>4. Part(Cardinality(S))
  BY <1>1, <1>2, Zenon
<1> QED BY <1>3, <1>4

\* What SumFunction() is.
LEMMA SumIsDefined ==
    ASSUME NEW S, IsFiniteSet(S), NEW f \in [S -> Int]
    PROVE  \E g \in [SUBSET S -> Int] :
              /\ \A s \in SUBSET S : SumsTo(f, g, s)
              /\ SumFunction(f) = g[S]
<1> DEFINE Is(g) == g = [s \in SUBSET S |-> IF s = {} THEN 0
                                            ELSE f[Chosen(s)] + g[s \ {Chosen(s)}]]
           iter == CHOOSE g : Is(g)
<1>1. PICK g \in [SUBSET S -> Int] : \A s \in SUBSET S : SumsTo(f, g, s)
  BY SumsExist, Zenon
<1>2. Is(g)
  BY <1>1 DEF SumsTo
<1>3. Is(iter)
  BY <1>2, Zenon
<1>4. SumFunction(f) = iter[S]
  BY DEF SumFunction, SumFunctionOnSet, FoldFunctionOnSet, MapThenFoldSet, Chosen
<1>5. DOMAIN iter = SUBSET S /\ \A s \in SUBSET S : SumsTo(f, iter, s)
  BY <1>3, Zenon DEF SumsTo
<1> HIDE DEF iter
<1> DEFINE odd == {n \in Nat : \E s \in SUBSET S : Cardinality(s) = n /\ iter[s] # g[s]}
<1>6. ASSUME odd # {} PROVE FALSE
  <2>1. PICK m \in odd : \A n \in odd : m <= n
    BY <1>6, FirstExists, Zenon
  <2>2. PICK s \in SUBSET S : Cardinality(s) = m /\ iter[s] # g[s]
    OBVIOUS
  <2>3. m \in Nat /\ s # {}
    BY <1>1, <1>5, <2>2, Zenon DEF SumsTo
  <2> DEFINE r == s \ {Chosen(s)}
  <2>4. r \in SUBSET S /\ Cardinality(r) = m - 1 /\ Cardinality(r) \in Nat
    BY <2>2, <2>3, ChosenLess
  <2>5. iter[r] = g[r]
    BY <2>1, <2>3, <2>4
  <2> QED BY <1>1, <1>5, <2>2, <2>3, <2>5, Zenon DEF SumsTo
<1>7. \A s \in SUBSET S : iter[s] = g[s]
  BY <1>6, ChosenLess, Zenon
<1> QED BY <1>1, <1>4, <1>7, Zenon

\* When the function changes at one place, the sum changes by as much.
LEMMA SumShift ==
    ASSUME NEW S, IsFiniteSet(S), NEW f \in [S -> Int], NEW h \in [S -> Int], NEW k \in S,
           \A x \in S \ {k} : h[x] = f[x]
    PROVE  SumFunction(f) \in Int /\ SumFunction(h) = SumFunction(f) + (h[k] - f[k])
<1>1. PICK F \in [SUBSET S -> Int] :
         (\A s \in SUBSET S : SumsTo(f, F, s)) /\ SumFunction(f) = F[S]
  BY SumIsDefined, Zenon
<1>2. PICK H \in [SUBSET S -> Int] :
         (\A s \in SUBSET S : SumsTo(h, H, s)) /\ SumFunction(h) = H[S]
  BY SumIsDefined
<1> DEFINE Shift(s) == IF k \in s THEN h[k] - f[k] ELSE 0
           odd == {n \in Nat : \E s \in SUBSET S : Cardinality(s) = n /\ H[s] # F[s] + Shift(s)}
<1>3. ASSUME odd # {} PROVE FALSE
  <2>1. PICK m \in odd : \A n \in odd : m <= n
    BY <1>3, FirstExists, Zenon
  <2>2. PICK s \in SUBSET S : Cardinality(s) = m /\ H[s] # F[s] + Shift(s)
    OBVIOUS
  <2>3. m \in Nat /\ s # {}
    <3>1. SumsTo(f, F, {}) /\ SumsTo(h, H, {})
      BY <1>1, <1>2, Zenon
    <3>2. F[{}] = 0 /\ H[{}] = 0 /\ Shift({}) = 0
      BY <3>1 DEF SumsTo
    <3>3. H[{}] = F[{}] + Shift({})
      BY <3>2
    <3> HIDE DEF Shift
    <3>4. s # {}
      BY <2>2, <3>3, Zenon
    <3> QED BY <3>4
  <2> DEFINE x == Chosen(s)
             r == s \ {x}
  <2>4. x \in s /\ r \in SUBSET S /\ Cardinality(r) = m - 1 /\ Cardinality(r) \in Nat
    BY <2>2, <2>3, ChosenLess
  <2>5. H[r] = F[r] + Shift(r)
    BY <2>1, <2>3, <2>4
  <2>6. F[s] = f[x] + F[r] /\ H[s] = h[x] + H[r]
    BY <1>1, <1>2, <2>2, <2>3, Zenon DEF SumsTo
  <2>7. /\ x \in S /\ f[x] \in Int /\ h[x] \in Int /\ F[r] \in Int /\ h[k] \in Int /\ f[k] \in Int
    BY <2>4, Zenon
  <2>8. x = k => k \in s /\ k \notin r
    BY <2>4
  <2>9. x # k => (k \in s <=> k \in r) /\ h[x] = f[x]
    BY <2>4, <2>7, Zenon
  <2> HIDE DEF x, r
  <2> QED BY <2>2, <2>5, <2>6, <2>7, <2>8, <2>9
<1>4. Cardinality(S) \in Nat
  BY FS_CardinalityType
<1>5. H[S] = F[S] + Shift(S)
  BY <1>3, <1>4
<1> QED BY <1>1, <1>2, <1>5, Zenon

\* A function that is zero everywhere has the sum zero.
LEMMA SumZero ==
    ASSUME NEW S, IsFiniteSet(S), NEW f \in [S -> Int], \A x \in S : f[x] = 0
    PROVE  SumFunction(f) = 0
<1>1. PICK F \in [SUBSET S -> Int] :
         (\A s \in SUBSET S : SumsTo(f, F, s)) /\ SumFunction(f) = F[S]
  BY SumIsDefined, Zenon
<1> DEFINE odd == {n \in Nat : \E s \in SUBSET S : Cardinality(s) = n /\ F[s] # 0}
<1>2. ASSUME odd # {} PROVE FALSE
  <2>1. PICK m \in odd : \A n \in odd : m <= n
    BY <1>2, FirstExists, Zenon
  <2>2. PICK s \in SUBSET S : Cardinality(s) = m /\ F[s] # 0
    OBVIOUS
  <2>3. m \in Nat /\ s # {}
    BY <1>1, <2>2, Zenon DEF SumsTo
  <2>4. /\ Chosen(s) \in S /\ s \ {Chosen(s)} \in SUBSET S
        /\ Cardinality(s \ {Chosen(s)}) = m - 1 /\ Cardinality(s \ {Chosen(s)}) \in Nat
    BY <2>2, <2>3, ChosenLess
  <2>5. F[s \ {Chosen(s)}] = 0
    BY <2>1, <2>3, <2>4
  <2> QED BY <1>1, <2>2, <2>3, <2>4, <2>5 DEF SumsTo
<1>3. Cardinality(S) \in Nat
  BY FS_CardinalityType
<1> QED BY <1>1, <1>2, <1>3, Zenon
(***************************************************************************)
(* The places of a connection.                                              *)
(***************************************************************************)
\* An empty pool is in order.
LEMMA PoolInvInit == Init => PoolInv
<1> SUFFICES ASSUME Init PROVE PoolInv
  OBVIOUS
<1>1. PoolTypes
  <2>1. Free \in ConnType
    BY Zenon DEF Free, Fresh, ConnType
  <2>2. m_conns \in Seq(Conns)
    BY DEF Init
  <2> QED BY <2>1, <2>2 DEF Init, PoolTypes, ClientType, Steps
<1>2. Apart /\ Live /\ Phase /\ Answered
  BY DEF Init, Apart, Live, Phase, PhaseOf, Answered, AnswerOf
<1> QED BY <1>1, <1>2 DEF PoolInv

\* What Pick() does: m_conns keeps an end of the list, and what is taken is the
\* connection that is handed out or among the unusable ones.
LEMMA Picked ==
    ASSUME PoolInv, NEW k \in Clients, Pick(k)
    PROVE  \E n \in 0..Len(m_conns), p \in Conns \cup {NoConn}, bad \in SUBSET Conns :
              /\ m_conns' = SubSeq(m_conns, n + 1, Len(m_conns))
              /\ client' = [client EXCEPT ![k] =
                              [pc |-> "sweep", owed |-> 0, ptr |-> p, invalid |-> bad]]
              /\ p # NoConn => \E i \in 1..n : m_conns[i] = p
              /\ \A c \in bad : (\E i \in 1..n : m_conns[i] = c) /\ ~Usable(c)
              /\ p # NoConn => Usable(p)
              /\ \A i \in 1..n : m_conns[i] = p \/ m_conns[i] \in bad
<1> DEFINE good == {i \in DOMAIN m_conns : Usable(m_conns[i])}
           first == CHOOSE i \in good : \A j \in good : i <= j
           taken == IF good = {} THEN Len(m_conns) ELSE first
           p == IF good = {} THEN NoConn ELSE m_conns[first]
           bad == {m_conns[i] : i \in {j \in 1..taken : ~Usable(m_conns[j])}}
<1>1. m_conns \in Seq(Conns) /\ Len(m_conns) \in Nat /\ DOMAIN m_conns = 1..Len(m_conns)
  BY DEF PoolInv, PoolTypes
<1>2. good # {} => first \in good /\ \A j \in good : first <= j
  <2>1. good \in SUBSET Nat
    BY <1>1
  <2>2. good # {} => \E i \in good : \A j \in good : i <= j
    BY <2>1, FirstExists, Zenon
  <2> QED BY <2>2
<1>3. good # {} => first \in 1..Len(m_conns) /\ Usable(m_conns[first])
  BY <1>1, <1>2, Zenon
<1>4. /\ m_conns' = SubSeq(m_conns, taken + 1, Len(m_conns))
      /\ client' = [client EXCEPT ![k] =
                      [pc |-> "sweep", owed |-> 0, ptr |-> p, invalid |-> bad]]
  BY Zenon DEF Pick
<1>9. \A i \in 1..taken : m_conns[i] = p \/ m_conns[i] \in bad
  <2>1. CASE good = {}
    BY <1>1, <2>1, Zenon
  <2>2. CASE good # {}
    <3>1. ASSUME NEW i \in 1..first PROVE i = first \/ ~Usable(m_conns[i])
      <4>1. first \in Nat /\ i \in Nat /\ i <= first /\ i \in DOMAIN m_conns
        BY <1>1, <1>3, <2>2
      <4>2. i \in good => first <= i
        BY <1>2, <2>2, Zenon
      <4> HIDE DEF first
      <4>3. i \in good => i = first
        BY <4>1, <4>2
      <4> QED BY <4>1, <4>3
    <3>2. taken = first /\ p = m_conns[first]
      BY <2>2
    <3> HIDE DEF first, good
    <3> QED BY <3>1, <3>2, Zenon
  <2> QED BY <2>1, <2>2, Zenon
<1> HIDE DEF first, good
<1>5. taken \in 0..Len(m_conns)
  BY <1>1, <1>3
<1>6. p # NoConn => (\E i \in 1..taken : m_conns[i] = p) /\ Usable(p)
  BY <1>3
<1>7. p \in Conns \cup {NoConn} /\ bad \in SUBSET Conns
  BY <1>1, <1>3, <1>5
<1>8. \A c \in bad : (\E i \in 1..taken : m_conns[i] = c) /\ ~Usable(c)
  OBVIOUS
<1> HIDE DEF taken, p, bad
<1> QED BY <1>4, <1>5, <1>6, <1>7, <1>8, <1>9, Zenon

\* The fibers keep what they have; one takes connections out of the pool.
LEMMA PickKeeps == ASSUME PoolInv, NEW k \in Clients, Pick(k) PROVE PoolInv'
<1>1. PICK n \in 0..Len(m_conns), p \in Conns \cup {NoConn}, bad \in SUBSET Conns :
         /\ m_conns' = SubSeq(m_conns, n + 1, Len(m_conns))
         /\ client' = [client EXCEPT ![k] =
                         [pc |-> "sweep", owed |-> 0, ptr |-> p, invalid |-> bad]]
         /\ p # NoConn => \E i \in 1..n : m_conns[i] = p
         /\ \A c \in bad : (\E i \in 1..n : m_conns[i] = c) /\ ~Usable(c)
         /\ p # NoConn => Usable(p)
         /\ \A i \in 1..n : m_conns[i] = p \/ m_conns[i] \in bad
  BY Picked, Zenon
<1> USE DEF PoolInv
<1>2. m_conns \in Seq(Conns) /\ Len(m_conns) \in Nat /\ DOMAIN m_conns = 1..Len(m_conns)
      /\ client \in [Clients -> ClientType] /\ conn \in [Conns -> ConnType] /\ conn' = conn
  BY DEF PoolTypes, Pick
<1>3. /\ m_conns' \in Seq(Conns)
      /\ \A i \in DOMAIN m_conns' : i + n \in DOMAIN m_conns /\ i + n > n /\ i \in Nat
                                    /\ m_conns'[i] = m_conns[i + n]
  BY <1>1, <1>2, SMTT(30)
<1>4. /\ client' \in [Clients -> ClientType]
      /\ client'[k] = [pc |-> "sweep", owed |-> 0, ptr |-> p, invalid |-> bad]
      /\ \A j \in Clients : j # k => client'[j] = client[j]
  BY <1>1, <1>2 DEF ClientType, Steps
<1>5. client'[k].pc = "sweep" /\ client'[k].ptr = p /\ client'[k].invalid = bad
  BY <1>4
<1>6. /\ p # NoConn => \E i \in DOMAIN m_conns : i <= n /\ m_conns[i] = p
      /\ \A c \in bad : \E i \in DOMAIN m_conns : i <= n /\ m_conns[i] = c
  <2>1. \A i \in 1..n : i \in DOMAIN m_conns /\ i <= n
    BY <1>2
  <2> QED BY <1>1, <2>1, Zenon
<1>7. NoConn \notin Conns /\ \A i \in DOMAIN m_conns : m_conns[i] \in Conns
  BY <1>2, PoolAssumption
<1>8. PoolTypes'
  BY <1>2, <1>3, <1>4, Zenon DEF PoolTypes
<1>9. Apart'
  <2>1. \A i, j \in DOMAIN m_conns' : m_conns'[i] = m_conns'[j] => i = j
    BY <1>3 DEF Apart
  <2>2. ASSUME NEW i \in DOMAIN m_conns' PROVE m_conns'[i] # p /\ m_conns'[i] \notin bad
    BY <1>1, <1>2, <1>3, <1>6, <1>7 DEF Apart
  <2>3. p \notin bad
    BY <1>1, <1>7, Zenon
  <2>4. ASSUME NEW j \in Clients, j # k
        PROVE  /\ p \notin client[j].invalid /\ client[j].ptr \notin bad
               /\ p = client[j].ptr => p = NoConn
               /\ bad \cap client[j].invalid = {}
    <3>1. NoConn \notin client[j].invalid
      BY <1>2, <1>7, Zenon DEF ClientType
    <3>2. \A i \in DOMAIN m_conns :
             m_conns[i] # client[j].ptr /\ m_conns[i] \notin client[j].invalid
      BY Zenon DEF Apart
    <3> QED BY <1>6, <3>1, <3>2
  <2>5. ASSUME NEW i \in DOMAIN m_conns', NEW j \in Clients
        PROVE  m_conns'[i] # client'[j].ptr /\ m_conns'[i] \notin client'[j].invalid
    <3>1. CASE j = k
      BY <1>5, <2>2, <3>1, Zenon
    <3>2. CASE j # k
      <4>1. client'[j] = client[j] /\ i + n \in DOMAIN m_conns /\ m_conns'[i] = m_conns[i + n]
        BY <1>3, <1>4, <3>2, Zenon
      <4> QED BY <4>1, Zenon DEF Apart
    <3> QED BY <3>1, <3>2, Zenon
  <2>6. \A i, j \in Clients : client'[i].ptr \notin client'[j].invalid
    BY <1>4, <1>5, <2>3, <2>4, Zenon DEF Apart
  <2>7. \A i, j \in Clients :
           i # j => /\ client'[i].ptr = client'[j].ptr => client'[i].ptr = NoConn
                    /\ client'[i].invalid \cap client'[j].invalid = {}
    BY <1>4, <1>5, <2>4 DEF Apart
  <2> QED BY <2>1, <2>5, <2>6, <2>7, Zenon DEF Apart
<1>10. Live'
  <2>1. \A i \in DOMAIN m_conns : conn'[m_conns[i]].alive
    BY <1>2, Zenon DEF Live
  <2>2. \A i \in DOMAIN m_conns' : conn'[m_conns'[i]].alive
    BY <1>3, <2>1, Zenon
  <2>3. (p # NoConn => conn'[p].alive) /\ \A c \in bad : conn'[c].alive
    BY <1>6, <2>1, Zenon
  <2>4. \A j \in Clients : j # k => /\ client'[j].ptr # NoConn => conn'[client'[j].ptr].alive
                                    /\ \A c \in client'[j].invalid : conn'[c].alive
    BY <1>2, <1>4, Zenon DEF Live
  <2> QED BY <1>5, <2>2, <2>3, <2>4, Zenon DEF Live
<1>11. Phase'
  BY <1>4, <1>5, ZenonT(60) DEF Phase, PhaseOf
<1>12. Answered'
  BY <1>2, <1>3, <1>4, <1>5, <1>6, SMTT(30) DEF Answered, AnswerOf
<1> QED BY <1>8, <1>9, <1>10, <1>11, <1>12, Zenon

\* A fiber that changes only its own connection, or one nobody refers to, leaves
\* the pool and the other fibers in order.
LEMMA FiberMoves ==
    ASSUME PoolInv, NEW k \in Clients, PoolTypes', m_conns' = m_conns,
           \A j \in Clients : j # k => client'[j] = client[j],
           client'[k].invalid \subseteq client[k].invalid,
           \/ client'[k].ptr \in {client[k].ptr, NoConn}
           \/ client'[k].ptr \in Conns /\ ~conn[client'[k].ptr].alive,
           \A c \in Conns : \/ conn'[c] = conn[c] \/ ~conn[c].alive
                            \/ c = client[k].ptr \/ c \in client[k].invalid,
           client'[k].ptr # NoConn => conn'[client'[k].ptr].alive,
           \A c \in client'[k].invalid : conn'[c].alive,
           PhaseOf(k)', AnswerOf(k)'
    PROVE  PoolInv'
<1> USE DEF PoolInv
<1>1. /\ m_conns \in Seq(Conns) /\ client \in [Clients -> ClientType]
      /\ NoConn \notin Conns /\ \A i \in DOMAIN m_conns : m_conns[i] \in Conns
  BY PoolAssumption DEF PoolTypes
<1>2. \A j \in Clients : client[j].ptr \in Conns \cup {NoConn} /\ client[j].invalid \subseteq Conns
  BY <1>1, Zenon DEF ClientType
<1>3. \A i \in DOMAIN m_conns : conn'[m_conns[i]] = conn[m_conns[i]]
  BY <1>1 DEF Apart, Live
<1>4. ASSUME NEW j \in Clients, j # k
      PROVE  /\ client[j].ptr # NoConn => conn'[client[j].ptr] = conn[client[j].ptr]
             /\ \A c \in client[j].invalid : conn'[c] = conn[c]
  <2>1. client[j].ptr # NoConn => client[j].ptr # client[k].ptr /\ client[j].ptr \in Conns
    BY <1>2, <1>4, Zenon DEF Apart
  <2>2. client[j].ptr \notin client[k].invalid /\ client[k].ptr \notin client[j].invalid
        /\ client[j].invalid \cap client[k].invalid = {}
    BY <1>4, Zenon DEF Apart
  <2>3. /\ client[j].ptr # NoConn => conn[client[j].ptr].alive
        /\ \A c \in client[j].invalid : conn[c].alive
    BY Zenon DEF Live
  <2> QED BY <1>2, <2>1, <2>2, <2>3, Zenon
<1>5. Apart'
  <2> DEFINE p == client'[k].ptr
  <2>1. \A i \in DOMAIN m_conns : m_conns[i] # p /\ m_conns[i] \notin client'[k].invalid
    BY <1>1 DEF Apart, Live
  <2>2. p \notin client'[k].invalid
    BY <1>1, <1>2 DEF Apart, Live
  <2>3. ASSUME NEW j \in Clients, j # k
        PROVE  /\ p \notin client[j].invalid /\ client[j].ptr \notin client'[k].invalid
               /\ p = client[j].ptr => p = NoConn
               /\ client'[k].invalid \cap client[j].invalid = {}
    <3>1. /\ client[k].ptr \notin client[j].invalid /\ client[j].ptr \notin client[k].invalid
          /\ client[k].ptr = client[j].ptr => client[k].ptr = NoConn
          /\ client[k].invalid \cap client[j].invalid = {}
      BY <2>3, Zenon DEF Apart
    <3>2. NoConn \notin client[j].invalid
      BY <1>1, <1>2, Zenon
    <3>3. /\ client[j].ptr # NoConn => conn[client[j].ptr].alive
          /\ \A c \in client[j].invalid : conn[c].alive
      BY Zenon DEF Live
    <3> QED BY <3>1, <3>2, <3>3
  <2>4. ASSUME NEW i \in DOMAIN m_conns', NEW j \in Clients
        PROVE  m_conns'[i] # client'[j].ptr /\ m_conns'[i] \notin client'[j].invalid
    BY <2>1 DEF Apart
  <2>5. ASSUME NEW i \in Clients, NEW j \in Clients
        PROVE  client'[i].ptr \notin client'[j].invalid
    BY <2>2, <2>3 DEF Apart
  <2>6. ASSUME NEW i \in Clients, NEW j \in Clients, i # j
        PROVE  /\ client'[i].ptr = client'[j].ptr => client'[i].ptr = NoConn
               /\ client'[i].invalid \cap client'[j].invalid = {}
    BY <2>3, <2>6 DEF Apart
  <2>7. \A i, j \in DOMAIN m_conns' : m_conns'[i] = m_conns'[j] => i = j
    BY Zenon DEF Apart
  <2> QED BY <2>4, <2>5, <2>6, <2>7, Zenon DEF Apart
<1>6. Live'
  BY <1>3, <1>4 DEF Live
<1>7. Phase'
  BY DEF Phase, PhaseOf
<1>8. Answered'
  <2>1. ASSUME NEW j \in Clients PROVE AnswerOf(j)'
    BY <1>4 DEF Answered, AnswerOf
  <2> QED BY <1>3, <2>1, ZenonT(60) DEF Answered
<1> QED BY <1>5, <1>6, <1>7, <1>8, Zenon

\* Sweep() deletes the fiber's unusable connections; Count() changes nothing else.
LEMMA SweepKeeps == ASSUME PoolInv, NEW k \in Clients, Sweep(k) \/ Count(k) PROVE PoolInv'
<1>1. PoolTypes /\ client[k] \in ClientType /\ PhaseOf(k) /\ AnswerOf(k) /\ Free \in ConnType
  BY Zenon DEF PoolInv, PoolTypes, Phase, Answered, Free, Fresh, ConnType
<1>2. CASE Count(k)
  <2>1. m_conns' = m_conns /\ conn' = conn /\ client' = [client EXCEPT ![k].owed = 0]
    BY <1>2 DEF Count
  <2>2. /\ client' \in [Clients -> ClientType]
        /\ \A j \in Clients : j # k => client'[j] = client[j]
        /\ client'[k].pc = client[k].pc /\ client'[k].ptr = client[k].ptr
        /\ client'[k].invalid = client[k].invalid
    <3> DEFINE q == [client[k] EXCEPT !.owed = 0]
    <3>1. /\ q \in ClientType /\ q.pc = client[k].pc /\ q.ptr = client[k].ptr
          /\ q.invalid = client[k].invalid
      BY <1>1 DEF ClientType
    <3>2. client' = [client EXCEPT ![k] = q]
      BY <2>1
    <3> HIDE DEF q
    <3> QED BY <1>1, <3>1, <3>2, Zenon DEF PoolTypes
  <2>5. PoolTypes'
    BY <1>1, <2>1, <2>2, Zenon DEF PoolTypes
  <2>3. PhaseOf(k)' /\ AnswerOf(k)'
    BY <1>1, <2>1, <2>2, Zenon DEF PhaseOf, AnswerOf
  <2>4. /\ client[k].ptr # NoConn => conn[client[k].ptr].alive
        /\ \A c \in client[k].invalid : conn[c].alive
    BY Zenon DEF PoolInv, Live
  <2> QED BY <2>1, <2>2, <2>3, <2>4, <2>5, FiberMoves, Zenon
<1>3. CASE Sweep(k)
  <2> DEFINE next == IF client[k].ptr = NoConn THEN "connect" ELSE "send"
             gone == -Cardinality(client[k].invalid)
  <2>1. /\ m_conns' = m_conns
        /\ conn' = [c \in Conns |-> IF c \in client[k].invalid THEN Free ELSE conn[c]]
        /\ client' = [client EXCEPT ![k].invalid = {}, ![k].owed = gone, ![k].pc = next]
        /\ client[k].pc = "sweep"
    BY <1>3, Zenon DEF Sweep, At
  <2>2. gone \in Int
    <3>1. IsFiniteSet(client[k].invalid)
      BY <1>1, PoolAssumption, FS_Subset, Zenon DEF ClientType
    <3> QED BY <3>1, FS_CardinalityType
  <2> HIDE DEF gone
  <2>3. /\ client' \in [Clients -> ClientType]
        /\ \A j \in Clients : j # k => client'[j] = client[j]
        /\ client'[k].pc = next /\ client'[k].ptr = client[k].ptr /\ client'[k].invalid = {}
    BY <1>1, <2>1, <2>2, Zenon DEF PoolTypes, ClientType, Steps
  <2>4. PoolTypes'
    BY <1>1, <2>1, <2>3, Zenon DEF PoolTypes
  <2>5. client[k].ptr # NoConn => /\ conn'[client[k].ptr] = conn[client[k].ptr]
                                  /\ conn[client[k].ptr].alive
    BY <1>1, <2>1, Zenon DEF PoolInv, Apart, Live, ClientType
  <2>6. PhaseOf(k)' /\ AnswerOf(k)'
    BY <1>1, <2>1, <2>3, <2>5 DEF PhaseOf, AnswerOf
  <2>7. \A c \in Conns : conn'[c] = conn[c] \/ c \in client[k].invalid
    BY <2>1, Zenon
  <2> QED BY <2>1, <2>3, <2>4, <2>5, <2>6, <2>7, FiberMoves, ZenonT(60)
<1> QED BY <1>2, <1>3

\* A new connection is nobody else's.
LEMMA ConnectKeeps ==
    ASSUME PoolInv, NEW k \in Clients, Connected(k) \/ ConnectFails(k)
    PROVE  PoolInv'
<1>1. PoolTypes /\ client[k] \in ClientType /\ PhaseOf(k) /\ Fresh \in ConnType
      /\ NoConn \notin Conns
  BY PoolAssumption, Zenon DEF PoolInv, PoolTypes, Phase, Fresh, ConnType
<1>2. client[k].pc = "connect" /\ client[k].ptr = NoConn /\ client[k].invalid = {}
  BY <1>1, Zenon DEF PhaseOf, Connected, ConnectFails, At
<1>3. CASE ConnectFails(k)
  <2>1. m_conns' = m_conns /\ conn' = conn /\ client' = [client EXCEPT ![k].pc = "out"]
    BY <1>3 DEF ConnectFails
  <2>2. /\ PoolTypes' /\ \A j \in Clients : j # k => client'[j] = client[j]
        /\ client'[k].pc = "out" /\ client'[k].ptr = NoConn /\ client'[k].invalid = {}
    BY <1>1, <1>2, <2>1, Zenon DEF PoolTypes, ClientType, Steps
  <2>3. PhaseOf(k)' /\ AnswerOf(k)'
    BY <2>2 DEF PhaseOf, AnswerOf
  <2> QED BY <2>1, <2>2, <2>3, FiberMoves, Zenon
<1>4. CASE Connected(k)
  <2>1. PICK c \in Conns :
           /\ ~conn[c].alive /\ conn' = [conn EXCEPT ![c] = Fresh] /\ m_conns' = m_conns
           /\ client' = [client EXCEPT ![k].pc = "send", ![k].ptr = c, ![k].owed = 1]
    BY <1>4, Zenon DEF Connected
  <2>2. /\ client' \in [Clients -> ClientType]
        /\ \A j \in Clients : j # k => client'[j] = client[j]
        /\ client'[k].pc = "send" /\ client'[k].ptr = c /\ client'[k].invalid = {}
    BY <1>1, <1>2, <2>1 DEF PoolTypes, ClientType, Steps
  <2>3. /\ PoolTypes' /\ conn'[c] = Fresh
        /\ \A d \in Conns : conn'[d] = conn[d] \/ ~conn[d].alive
    BY <1>1, <2>1, <2>2, Zenon DEF PoolTypes
  <2>4. PhaseOf(k)' /\ AnswerOf(k)' /\ conn'[c].alive
    BY <1>1, <2>2, <2>3 DEF PhaseOf, AnswerOf, Fresh
  <2> QED BY <2>1, <2>2, <2>3, <2>4, FiberMoves, ZenonT(60)
<1> QED BY <1>3, <1>4

\* Sending and receiving concern the fiber's own connection.
LEMMA ExchangeKeeps ==
    ASSUME PoolInv, NEW k \in Clients, Send(k) \/ Recv(k)
    PROVE  PoolInv'
<1> DEFINE p == client[k].ptr
<1>1. PoolTypes /\ client[k] \in ClientType /\ PhaseOf(k) /\ NoConn \notin Conns
  BY PoolAssumption DEF PoolInv, PoolTypes, Phase
<1>2. p \in Conns /\ p # NoConn /\ client[k].invalid = {} /\ conn[p].alive /\ conn[p] \in ConnType
  BY <1>1, Zenon DEF PhaseOf, Send, Recv, At, ClientType, PoolInv, Live, PoolTypes
<1>3. PICK pc \in {"recv", "release"} : client' = [client EXCEPT ![k].pc = pc]
  BY Zenon DEF Send, Recv
<1>4. /\ client' \in [Clients -> ClientType]
      /\ \A j \in Clients : j # k => client'[j] = client[j]
      /\ client'[k].pc = pc /\ client'[k].ptr = p /\ client'[k].invalid = {}
  BY <1>1, <1>2, <1>3, Zenon DEF PoolTypes, ClientType, Steps
<1>5. /\ conn' \in [Conns -> ConnType] /\ \A c \in Conns : c # p => conn'[c] = conn[c]
      /\ conn'[p].alive
      /\ pc = "release" => conn'[p].exchange # "await" \/ ~conn'[p].connected
  <2>1. CASE Send(k)
    <3>1. PICK sent \in BOOLEAN :
             /\ conn' = [conn EXCEPT ![p].exchange = IF sent THEN "await" ELSE "partial"]
             /\ client' = [client EXCEPT ![k].pc = IF sent THEN "recv" ELSE "release"]
      BY <2>1, Zenon DEF Send
    <3>2. client'[k].pc = IF sent THEN "recv" ELSE "release"
      BY <1>1, <3>1, Zenon DEF PoolTypes, ClientType
    <3> DEFINE x == IF sent THEN "await" ELSE "partial"
    <3>3. /\ [conn[p] EXCEPT !.exchange = x] \in ConnType
          /\ [conn[p] EXCEPT !.exchange = x].alive
          /\ [conn[p] EXCEPT !.exchange = x].exchange = x
      BY <1>2, Zenon DEF ConnType
    <3>4. conn' = [conn EXCEPT ![p] = [conn[p] EXCEPT !.exchange = x]]
      BY <3>1, Zenon
    <3> QED BY <1>1, <1>2, <1>4, <3>2, <3>3, <3>4 DEF PoolTypes
  <2>2. CASE Recv(k)
    <3> DEFINE clean == [conn[p] EXCEPT !.exchange = "clean"]
               shut == [conn[p] EXCEPT !.connected = FALSE]
    <3>1. /\ clean \in ConnType /\ clean.alive /\ clean.exchange # "await"
          /\ shut \in ConnType /\ shut.alive /\ ~shut.connected
      BY <1>2, Zenon DEF ConnType
    <3>2. conn' = [conn EXCEPT ![p] = clean] \/ conn' = [conn EXCEPT ![p] = shut]
      BY <2>2, Zenon DEF Recv
    <3> HIDE DEF clean, shut
    <3> QED BY <1>1, <1>2, <3>1, <3>2, Zenon DEF PoolTypes
  <2> QED BY <2>1, <2>2, Zenon
<1>6. m_conns' = m_conns
  BY Zenon DEF Send, Recv
<1>7. PoolTypes'
  BY <1>1, <1>4, <1>5, <1>6, Zenon DEF PoolTypes
<1>8. PhaseOf(k)' /\ AnswerOf(k)'
  BY <1>2, <1>4, <1>5, Zenon DEF PhaseOf, AnswerOf
<1> QED BY <1>2, <1>4, <1>5, <1>6, <1>7, <1>8, FiberMoves, Zenon

\* ReleasePtr() deletes the connection, or keeps it when it is connected.
LEMMA ReleaseKeeps == ASSUME PoolInv, NEW k \in Clients, Release(k) PROVE PoolInv'
<1> DEFINE p == client[k].ptr
           q == [conn[p] EXCEPT !.m_request = @ + 1]
<1>1. PoolTypes /\ client[k] \in ClientType /\ PhaseOf(k) /\ AnswerOf(k)
      /\ NoConn \notin Conns /\ Free \in ConnType
  BY PoolAssumption, Zenon DEF PoolInv, PoolTypes, Phase, Answered, Free, Fresh, ConnType
<1>2. /\ client[k].pc = "release" /\ p \in Conns /\ p # NoConn /\ client[k].invalid = {}
      /\ conn[p].alive /\ conn[p] \in ConnType
  BY <1>1, Zenon DEF PhaseOf, Release, At, ClientType, PoolInv, Live, PoolTypes
<1>3. /\ q \in ConnType /\ q.alive /\ q.connected = conn[p].connected
      /\ q.exchange = conn[p].exchange
  BY <1>2 DEF ConnType
<1>4. m_conns' = m_conns
  BY Zenon DEF Release
<1>5. CASE /\ conn' = [conn EXCEPT ![p] = Free]
           /\ client' = [client EXCEPT ![k].pc = "out", ![k].ptr = NoConn, ![k].owed = -1]
  <2>1. /\ client' \in [Clients -> ClientType]
        /\ \A j \in Clients : j # k => client'[j] = client[j]
        /\ client'[k].pc = "out" /\ client'[k].ptr = NoConn /\ client'[k].invalid = {}
    BY <1>1, <1>2, <1>5 DEF PoolTypes, ClientType, Steps
  <2>2. PoolTypes' /\ \A c \in Conns : conn'[c] = conn[c] \/ c = client[k].ptr
    BY <1>1, <1>4, <1>5, <2>1, Zenon DEF PoolTypes
  <2>3. PhaseOf(k)' /\ AnswerOf(k)'
    BY <2>1 DEF PhaseOf, AnswerOf
  <2> QED BY <1>4, <2>1, <2>2, <2>3, FiberMoves, Zenon
<1>6. CASE /\ ~Discard(q) /\ conn' = [conn EXCEPT ![p] = q]
           /\ client' = [client EXCEPT ![k].pc = "push"]
  <2> HIDE DEF q
  <2>1. /\ client' \in [Clients -> ClientType]
        /\ \A j \in Clients : j # k => client'[j] = client[j]
        /\ client'[k].pc = "push" /\ client'[k].ptr = p /\ client'[k].invalid = {}
    BY <1>1, <1>2, <1>6, Zenon DEF PoolTypes, ClientType, Steps
  <2>2. /\ PoolTypes' /\ conn'[p] = q
        /\ \A c \in Conns : conn'[c] = conn[c] \/ c = client[k].ptr
    BY <1>1, <1>2, <1>3, <1>4, <1>6, <2>1, Zenon DEF PoolTypes
  <2>3. conn[p].exchange # "await"
    BY <1>1, <1>2, <1>3, <1>6, Zenon DEF AnswerOf, Discard
  <2>4. PhaseOf(k)' /\ AnswerOf(k)' /\ conn'[client'[k].ptr].alive
    BY <1>2, <1>3, <2>1, <2>2, <2>3, Zenon DEF PhaseOf, AnswerOf
  <2> QED BY <1>4, <2>1, <2>2, <2>4, FiberMoves, Zenon
<1> QED BY <1>5, <1>6, Zenon DEF Release

\* The connection goes from the fiber to the end of the list.
LEMMA PushKeeps == ASSUME PoolInv, NEW k \in Clients, Push(k) PROVE PoolInv'
<1> DEFINE p == client[k].ptr
           n == Len(m_conns)
<1>1. /\ PoolTypes /\ client[k] \in ClientType /\ PhaseOf(k) /\ AnswerOf(k)
      /\ NoConn \notin Conns /\ n \in Nat /\ DOMAIN m_conns = 1..n
  BY PoolAssumption DEF PoolInv, PoolTypes, Phase, Answered
<1>2. /\ client[k].pc = "push" /\ p \in Conns /\ client[k].invalid = {}
      /\ conn[p].alive /\ conn[p].exchange # "await"
  BY <1>1, Zenon DEF PhaseOf, AnswerOf, Push, At, ClientType, PoolInv, Live
<1>3. /\ conn' = conn /\ m_conns' \in Seq(Conns)
      /\ DOMAIN m_conns' = 1..(n + 1) /\ m_conns'[n + 1] = p
      /\ \A i \in DOMAIN m_conns : m_conns'[i] = m_conns[i]
  BY <1>1, <1>2 DEF Push, PoolTypes
<1>4. /\ client' \in [Clients -> ClientType]
      /\ \A j \in Clients : j # k => client'[j] = client[j]
      /\ client'[k].pc = "out" /\ client'[k].ptr = NoConn /\ client'[k].invalid = {}
  BY <1>1, <1>2, Zenon DEF Push, PoolTypes, ClientType, Steps
<1>5. \A i \in DOMAIN m_conns' : i \in DOMAIN m_conns \/ i = n + 1
  BY <1>1, <1>3
<1>6. /\ n + 1 \notin DOMAIN m_conns
      /\ \A i \in DOMAIN m_conns : m_conns[i] # p
  BY <1>1 DEF PoolInv, Apart
<1>7. ASSUME NEW j \in Clients, j # k
      PROVE  p # client[j].ptr /\ p \notin client[j].invalid /\ NoConn \notin client[j].invalid
  BY <1>1, <1>2, <1>7, Zenon DEF PoolInv, Apart, PoolTypes, ClientType
<1> HIDE DEF p, n
<1>8. PoolTypes'
  BY <1>1, <1>3, <1>4, Zenon DEF PoolTypes
<1>9. Apart'
  <2>1. ASSUME NEW i \in DOMAIN m_conns', NEW j \in DOMAIN m_conns', m_conns'[i] = m_conns'[j]
        PROVE  i = j
    BY <1>3, <1>5, <1>6, <2>1, Zenon DEF PoolInv, Apart
  <2>2. ASSUME NEW i \in DOMAIN m_conns', NEW j \in Clients
        PROVE  m_conns'[i] # client'[j].ptr /\ m_conns'[i] \notin client'[j].invalid
    <3>1. m_conns'[i] \in Conns
      <4>1. i \in DOMAIN m_conns => m_conns[i] \in Conns
        BY <1>1 DEF PoolTypes
      <4> QED BY <1>2, <1>3, <1>5, <4>1, Zenon
    <3>2. CASE j = k
      BY <1>1, <1>4, <3>1, <3>2, ZenonT(60)
    <3>3. CASE j # k
      BY <1>3, <1>4, <1>5, <1>7, <3>3 DEF PoolInv, Apart
    <3> QED BY <3>2, <3>3, Zenon
  <2>3. ASSUME NEW i \in Clients, NEW j \in Clients
        PROVE  /\ client'[i].ptr \notin client'[j].invalid
               /\ i # j => /\ client'[i].ptr = client'[j].ptr => client'[i].ptr = NoConn
                           /\ client'[i].invalid \cap client'[j].invalid = {}
    BY <1>4, <1>7 DEF PoolInv, Apart
  <2> QED BY <2>1, <2>2, <2>3, Zenon DEF Apart
<1>10. Live' /\ Phase'
  BY <1>2, <1>3, <1>4, <1>5 DEF PoolInv, Live, Phase, PhaseOf
<1>11. Answered'
  BY <1>2, <1>3, <1>4, <1>5 DEF PoolInv, Answered, AnswerOf
<1> QED BY <1>8, <1>9, <1>10, <1>11, Zenon DEF PoolInv

\* Closing an idle connection's socket only makes it unusable.
LEMMA CloseKeeps == ASSUME PoolInv, NEW c \in Conns, CloseIdle(c) PROVE PoolInv'
<1>1. PoolTypes /\ UNCHANGED <<m_conns, client>>
  BY DEF PoolInv, CloseIdle
<1>2. /\ conn' \in [Conns -> ConnType]
      /\ \A d \in Conns : /\ conn'[d].alive = conn[d].alive
                          /\ conn'[d].exchange = conn[d].exchange
                          /\ conn'[d].connected => conn[d].connected
  BY <1>1, ZenonT(60) DEF CloseIdle, PoolTypes, ConnType
<1>3. \A k \in Clients : client[k].ptr \in Conns \cup {NoConn} /\ client[k].invalid \subseteq Conns
  BY <1>1 DEF PoolTypes, ClientType
<1>4. \A i \in DOMAIN m_conns : m_conns[i] \in Conns
  BY <1>1 DEF PoolTypes
<1>5. PoolTypes' /\ Apart' /\ Phase'
  BY <1>1, <1>2, Zenon DEF PoolInv, PoolTypes, Apart, Phase, PhaseOf
<1>6. Live'
  BY <1>1, <1>2, <1>3, <1>4, Zenon DEF PoolInv, Live
<1>7. Answered'
  BY <1>1, <1>2, <1>3, <1>4 DEF PoolInv, Answered, AnswerOf
<1> QED BY <1>5, <1>6, <1>7, Zenon DEF PoolInv

\* The invariant is inductive.
LEMMA PoolInvStep == PoolInv /\ [Next]_vars => PoolInv'
<1> SUFFICES ASSUME PoolInv, [Next]_vars PROVE PoolInv'
  OBVIOUS
<1>1. ASSUME NEW k \in Clients, ClientStep(k) PROVE PoolInv'
  BY <1>1, PickKeeps, SweepKeeps, ConnectKeeps, ExchangeKeeps, ReleaseKeeps, PushKeeps, Zenon
     DEF ClientStep
<1>2. ASSUME NEW c \in Conns, CloseIdle(c) PROVE PoolInv'
  BY <1>2, CloseKeeps
<1>3. CASE UNCHANGED vars
  BY <1>3, ZenonT(60) DEF vars, PoolInv, PoolTypes, Apart, Live, Phase, PhaseOf, Answered, AnswerOf
<1> QED BY <1>1, <1>2, <1>3, Zenon DEF Next

\* No request receives the answer of an earlier one: whatever fibers share the
\* pool, a connection that still owes an answer is neither kept in it nor
\* handed out (http_connection.cc:151-177, 271-342).
THEOREM AnswersStayApart == Spec => []NoStrayAnswer
<1>1. PoolInv => NoStrayAnswer
  BY Zenon DEF PoolInv, Phase, PhaseOf, Answered, AnswerOf, NoStrayAnswer
<1> QED BY <1>1, PoolInvInit, PoolInvStep, PTL DEF Spec

\* No connection object is in two places: the list, the pointer of a fiber and
\* the fibers' lists of connections to delete never share one, and all of them
\* are alive, so none is used after it was deleted (http_connection.cc:271-342).
THEOREM NoSharedConnection == Spec => [](Apart /\ Live)
<1>1. PoolInv => Apart /\ Live
  BY DEF PoolInv
<1> QED BY <1>1, PoolInvInit, PoolInvStep, PTL DEF Spec
-----------------------------------------------------------------------------
(***************************************************************************)
(* m_total.                                                                 *)
(***************************************************************************)
\* A live connection is in the list, a fiber's, or about to be deleted.
Somewhere(c) ==
    \/ \E i \in DOMAIN m_conns : m_conns[i] = c
    \/ \E k \in Clients : client[k].ptr = c \/ c \in client[k].invalid
NoneLost == \A c \in Conns : conn[c].alive => Somewhere(c)

\* m_total is what there is, up to the changes that come next.
TotalRight == m_total \in Int /\ m_total + SumFunction(Owed) = Cardinality(Alive)

\* The count of the live connections is a number.
LEMMA AliveFinite == IsFiniteSet(Alive) /\ Cardinality(Alive) \in Nat
BY PoolAssumption, FS_Subset, FS_CardinalityType, Zenon DEF Alive

\* A fiber's step keeps the balance when the objects it makes or deletes are what
\* it adds to m_total or still owes.
LEMMA Tally ==
    ASSUME PoolTypes, PoolTypes', TotalRight, NEW k \in Clients,
           \A j \in Clients : j # k => client'[j] = client[j],
           m_total' \in Int,
           m_total' + client'[k].owed - (m_total + client[k].owed)
              = Cardinality(Alive') - Cardinality(Alive)
    PROVE  TotalRight'
<1>1. Owed \in [Clients -> Int] /\ Owed' \in [Clients -> Int]
  BY DEF PoolTypes, Owed, ClientType
<1>2. /\ \A j \in Clients \ {k} : Owed'[j] = Owed[j]
      /\ Owed[k] = client[k].owed /\ Owed'[k] = client'[k].owed
  BY DEF Owed
<1>3. client[k].owed \in Int /\ client'[k].owed \in Int
  BY DEF PoolTypes, ClientType
<1> DEFINE f == Owed
           h == Owed'
<1>4. SumFunction(f) \in Int /\ SumFunction(h) = SumFunction(f) + (h[k] - f[k])
  <2>1. /\ f \in [Clients -> Int] /\ h \in [Clients -> Int]
        /\ \A j \in Clients \ {k} : h[j] = f[j]
    BY <1>1, <1>2, Zenon
  <2>2. IsFiniteSet(Clients)
    BY PoolAssumption
  <2> HIDE DEF f, h
  <2> QED BY <2>1, <2>2, SumShift
<1>5. SumFunction(Owed) \in Int
      /\ SumFunction(Owed)' = SumFunction(Owed) + (client'[k].owed - client[k].owed)
  BY <1>2, <1>4, Zenon
<1>6. Cardinality(Alive) \in Nat /\ Cardinality(Alive)' = Cardinality(Alive') /\ Cardinality(Alive)' \in Int
  <2>1. IsFiniteSet(Alive')
    BY PoolAssumption, FS_Subset, Zenon DEF Alive
  <2> QED BY <2>1, AliveFinite, FS_CardinalityType
<1> QED BY <1>3, <1>5, <1>6 DEF TotalRight

CountInv == NoneLost /\ TotalRight

\* Taking from the list: what is passed over is in the fiber's hands.
LEMMA PickCounts ==
    ASSUME PoolInv, PoolInv', CountInv, NEW k \in Clients, Pick(k) PROVE CountInv'
<1>1. PICK n \in 0..Len(m_conns), p \in Conns \cup {NoConn}, bad \in SUBSET Conns :
         /\ m_conns' = SubSeq(m_conns, n + 1, Len(m_conns))
         /\ client' = [client EXCEPT ![k] =
                         [pc |-> "sweep", owed |-> 0, ptr |-> p, invalid |-> bad]]
         /\ p # NoConn => \E i \in 1..n : m_conns[i] = p
         /\ \A c \in bad : (\E i \in 1..n : m_conns[i] = c) /\ ~Usable(c)
         /\ p # NoConn => Usable(p)
         /\ \A i \in 1..n : m_conns[i] = p \/ m_conns[i] \in bad
  BY Picked, Zenon
<1>2. /\ PoolTypes /\ PoolTypes' /\ PhaseOf(k) /\ conn' = conn /\ m_total' = m_total
      /\ client[k].pc = "out" /\ client[k].owed = 0
  BY Zenon DEF PoolInv, Pick, At, Phase
<1>3. /\ client'[k].ptr = p /\ client'[k].invalid = bad /\ client'[k].owed = 0
      /\ \A j \in Clients : j # k => client'[j] = client[j]
      /\ client[k].ptr = NoConn /\ client[k].invalid = {}
  BY <1>1, <1>2, ZenonT(60) DEF PoolTypes, PhaseOf
<1>4. NoneLost'
  <2> SUFFICES ASSUME NEW c \in Conns, conn[c].alive PROVE Somewhere(c)'
    BY <1>2 DEF NoneLost
  <2>1. c # NoConn
    BY PoolAssumption
  <2>2. CASE \E j \in Clients : client[j].ptr = c \/ c \in client[j].invalid
    BY <1>3, <2>1, <2>2, Zenon DEF Somewhere
  <2>3. CASE \E i \in DOMAIN m_conns : m_conns[i] = c
    <3>1. PICK i \in DOMAIN m_conns : m_conns[i] = c
      BY <2>3
    <3>2. m_conns \in Seq(Conns) /\ Len(m_conns) \in Nat /\ i \in 1..Len(m_conns)
      BY <1>2 DEF PoolTypes
    <3>3. CASE i <= n
      <4>1. c = p \/ c \in bad
        BY <1>1, <3>1, <3>2, <3>3
      <4> QED BY <1>3, <4>1, Zenon DEF Somewhere
    <3>4. CASE i > n
      <4>1. i - n \in DOMAIN m_conns' /\ m_conns'[i - n] = c
        BY <1>1, <3>1, <3>2, <3>4
      <4> QED BY <4>1 DEF Somewhere
    <3> QED BY <3>2, <3>3, <3>4
  <2> QED BY <2>2, <2>3, Zenon DEF CountInv, NoneLost, Somewhere
<1>5. Alive' = Alive
  BY <1>2 DEF Alive
<1>6. TotalRight'
  BY <1>2, <1>3, <1>5, Tally, AliveFinite DEF CountInv, TotalRight
<1> QED BY <1>4, <1>6, Zenon DEF CountInv

\* A fiber that leaves the list alone loses no connection but what it deletes.
LEMMA FiberLoses ==
    ASSUME PoolInv, CountInv, NEW k \in Clients, m_conns' = m_conns,
           \A j \in Clients : j # k => client'[j] = client[j],
           \A c \in Conns : conn'[c].alive =>
              \/ conn[c].alive /\ c # client[k].ptr /\ c \notin client[k].invalid
              \/ c = client'[k].ptr \/ c \in client'[k].invalid
    PROVE  NoneLost'
<1> SUFFICES ASSUME NEW c \in Conns, conn'[c].alive PROVE Somewhere(c)'
  BY DEF NoneLost
<1>1. CASE c = client'[k].ptr \/ c \in client'[k].invalid
  BY <1>1, Zenon DEF Somewhere
<1>2. CASE conn[c].alive /\ c # client[k].ptr /\ c \notin client[k].invalid
  <2>1. Somewhere(c)
    BY <1>2, Zenon DEF CountInv, NoneLost
  <2> QED BY <1>2, <2>1, Zenon DEF Somewhere
<1> QED BY <1>1, <1>2, Zenon

\* Count() settles what the fiber owes; Sweep() owes what it deletes.
LEMMA SweepCounts ==
    ASSUME PoolInv, PoolInv', CountInv, NEW k \in Clients, Sweep(k) \/ Count(k) PROVE CountInv'
<1>1. /\ PoolTypes /\ PoolTypes' /\ client[k] \in ClientType /\ m_conns' = m_conns
      /\ \A j \in Clients : j # k => client'[j] = client[j]
      /\ m_total \in Int /\ TotalRight
  BY Zenon DEF PoolInv, PoolTypes, Sweep, Count, CountInv, TotalRight
<1>2. CASE Count(k)
  <2>1. /\ m_total' = m_total + client[k].owed /\ conn' = conn
        /\ client' = [client EXCEPT ![k].owed = 0]
    BY <1>2 DEF Count
  <2>2. /\ client'[k].owed = 0 /\ client'[k].ptr = client[k].ptr
        /\ client'[k].invalid = client[k].invalid /\ client[k].owed \in Int
    BY <1>1, <2>1, Zenon DEF PoolTypes, ClientType
  <2>3. NoneLost'
    BY <1>1, <2>1, <2>2, FiberLoses, Zenon
  <2>4. Alive' = Alive
    BY <2>1 DEF Alive
  <2>5. TotalRight'
    BY <1>1, <2>1, <2>2, <2>4, Tally, AliveFinite
  <2> QED BY <2>3, <2>5 DEF CountInv
<1>3. CASE Sweep(k)
  <2> DEFINE bad == client[k].invalid
             next == IF client[k].ptr = NoConn THEN "connect" ELSE "send"
  <2>1. /\ m_total' = m_total
        /\ conn' = [c \in Conns |-> IF c \in bad THEN Free ELSE conn[c]]
        /\ client' = [client EXCEPT ![k].invalid = {}, ![k].owed = -Cardinality(bad), ![k].pc = next]
        /\ client[k].owed = 0
    BY <1>3, Zenon DEF Sweep, At
  <2>2. bad \subseteq Conns /\ \A c \in bad : conn[c].alive
    BY <1>1, Zenon DEF PoolInv, Live, ClientType
  <2>3. bad \subseteq Alive /\ IsFiniteSet(bad) /\ Cardinality(bad) \in Nat
    BY <2>2, AliveFinite, FS_Subset, FS_CardinalityType, Zenon DEF Alive
  <2> DEFINE gone == -Cardinality(bad)
  <2>4. gone \in Int /\ client' = [client EXCEPT ![k].invalid = {}, ![k].owed = gone, ![k].pc = next]
    BY <2>1, <2>3
  <2> HIDE DEF gone, next
  <2>5. client'[k].owed = gone /\ client'[k].ptr = client[k].ptr
    BY <1>1, <2>4, Zenon DEF PoolTypes, ClientType
  <2>6. \A c \in Conns : conn'[c].alive <=> conn[c].alive /\ c \notin bad
    BY <2>1 DEF Free
  <2>7. NoneLost'
    BY <1>1, <2>5, <2>6, FiberLoses, Zenon
  <2>8. Alive' = Alive \ bad
    BY <2>6 DEF Alive
  <2>9. Cardinality(Alive \ bad) = Cardinality(Alive) - Cardinality(bad)
    <3>1. Alive \cap bad = bad
      BY <2>3
    <3> QED BY <2>3, <3>1, AliveFinite, FS_Difference, ZenonT(30)
  <2>10. TotalRight'
    <3>1. m_total' + client'[k].owed - (m_total + client[k].owed) = Cardinality(Alive') - Cardinality(Alive)
      BY <1>1, <2>1, <2>3, <2>5, <2>8, <2>9, AliveFinite DEF gone
    <3> QED BY <1>1, <2>1, <3>1, Tally, Zenon
  <2> QED BY <2>7, <2>10, Zenon DEF CountInv
<1> QED BY <1>2, <1>3

\* A new connection is owed until it is counted.
LEMMA ConnectCounts ==
    ASSUME PoolInv, PoolInv', CountInv, NEW k \in Clients, Connected(k) \/ ConnectFails(k)
    PROVE  CountInv'
<1>1. /\ PoolTypes /\ PoolTypes' /\ client[k] \in ClientType /\ m_conns' = m_conns
      /\ \A j \in Clients : j # k => client'[j] = client[j]
      /\ m_total' = m_total /\ m_total \in Int /\ TotalRight /\ PhaseOf(k)
      /\ client[k].pc = "connect" /\ client[k].owed = 0
  BY Zenon DEF PoolInv, PoolTypes, Connected, ConnectFails, CountInv, TotalRight, Phase, At
<1>2. client[k].ptr = NoConn /\ client[k].invalid = {} /\ NoConn \notin Conns
  BY <1>1, PoolAssumption, Zenon DEF PhaseOf
<1>3. CASE ConnectFails(k)
  <2>1. conn' = conn /\ client' = [client EXCEPT ![k].pc = "out"]
    BY <1>3 DEF ConnectFails
  <2>2. client'[k].owed = 0
    BY <1>1, <2>1, Zenon DEF PoolTypes, ClientType
  <2>3. NoneLost'
    BY <1>1, <1>2, <2>1, FiberLoses, Zenon
  <2>4. Alive' = Alive
    BY <2>1 DEF Alive
  <2>5. TotalRight'
    BY <1>1, <2>2, <2>4, Tally, AliveFinite
  <2> QED BY <2>3, <2>5 DEF CountInv
<1>4. CASE Connected(k)
  <2>1. PICK c \in Conns :
           /\ ~conn[c].alive /\ conn' = [conn EXCEPT ![c] = Fresh]
           /\ client' = [client EXCEPT ![k].pc = "send", ![k].ptr = c, ![k].owed = 1]
    BY <1>4, Zenon DEF Connected
  <2>2. client'[k].owed = 1 /\ client'[k].ptr = c
    <3> DEFINE q == [client[k] EXCEPT !.pc = "send", !.ptr = c, !.owed = 1]
    <3>1. q.owed = 1 /\ q.ptr = c
      BY <1>1 DEF ClientType
    <3>2. client' = [client EXCEPT ![k] = q]
      BY <2>1, Zenon
    <3> HIDE DEF q
    <3> QED BY <1>1, <3>1, <3>2, Zenon DEF PoolTypes
  <2>3. Fresh.alive /\ conn'[c] = Fresh /\ \A d \in Conns : d # c => conn'[d] = conn[d]
    BY <1>1, <2>1, Zenon DEF PoolTypes, Fresh
  <2>4. NoneLost'
    BY <1>1, <1>2, <2>2, <2>3, FiberLoses, Zenon
  <2>5. Alive' = Alive \cup {c} /\ c \notin Alive
    BY <2>1, <2>3, Zenon DEF Alive
  <2>6. Cardinality(Alive') = Cardinality(Alive) + 1
    BY <2>5, AliveFinite, FS_AddElement, Zenon
  <2>7. TotalRight'
    BY <1>1, <2>2, <2>6, Tally, AliveFinite, SMTT(30)
  <2> QED BY <2>4, <2>7, Zenon DEF CountInv
<1> QED BY <1>3, <1>4

\* Sending and receiving neither make nor delete a connection.
LEMMA ExchangeCounts ==
    ASSUME PoolInv, PoolInv', CountInv, NEW k \in Clients, Send(k) \/ Recv(k) PROVE CountInv'
<1> DEFINE p == client[k].ptr
<1>1. /\ PoolTypes /\ PoolTypes' /\ client[k] \in ClientType /\ m_conns' = m_conns
      /\ \A j \in Clients : j # k => client'[j] = client[j]
      /\ m_total' = m_total /\ m_total \in Int /\ TotalRight
  BY Zenon DEF PoolInv, PoolTypes, Send, Recv, CountInv, TotalRight
<1>2. PICK pc \in {"recv", "release"} : client' = [client EXCEPT ![k].pc = pc]
  BY Zenon DEF Send, Recv
<1>3. /\ client'[k].ptr = p /\ client'[k].invalid = client[k].invalid
      /\ client'[k].owed = client[k].owed /\ client[k].owed \in Int
  BY <1>1, <1>2, Zenon DEF PoolTypes, ClientType
<1>4. \A c \in Conns : conn'[c].alive = conn[c].alive
  <2>1. PICK x \in {"await", "partial", "clean"} :
           \/ conn' = [conn EXCEPT ![p].exchange = x] \/ conn' = [conn EXCEPT ![p].connected = FALSE]
    BY Zenon DEF Send, Recv
  <2> DEFINE q == [conn[p] EXCEPT !.exchange = x]
             r == [conn[p] EXCEPT !.connected = FALSE]
  <2>2. p \in Conns => q.alive = conn[p].alive /\ r.alive = conn[p].alive
    BY <1>1 DEF PoolTypes, ConnType
  <2>3. conn' = [conn EXCEPT ![p] = q] \/ conn' = [conn EXCEPT ![p] = r]
    BY <2>1, Zenon
  <2> HIDE DEF q, r
  <2> QED BY <1>1, <2>2, <2>3, Zenon DEF PoolTypes
<1>5. NoneLost'
  BY <1>1, <1>3, <1>4, FiberLoses, Zenon
<1>6. Alive' = Alive
  BY <1>4 DEF Alive
<1>7. TotalRight'
  BY <1>1, <1>3, <1>6, Tally, AliveFinite
<1> QED BY <1>5, <1>7 DEF CountInv

\* ReleasePtr() owes the connection it deletes.
LEMMA ReleaseCounts ==
    ASSUME PoolInv, PoolInv', CountInv, NEW k \in Clients, Release(k) PROVE CountInv'
<1> DEFINE p == client[k].ptr
           c == [conn[p] EXCEPT !.m_request = @ + 1]
<1>1. /\ PoolTypes /\ PoolTypes' /\ client[k] \in ClientType /\ m_conns' = m_conns
      /\ m_total' = m_total /\ m_total \in Int /\ TotalRight /\ PhaseOf(k)
      /\ client[k].pc = "release" /\ client[k].owed = 0
  BY Zenon DEF PoolInv, PoolTypes, Release, CountInv, TotalRight, Phase, At
<1>2. p \in Conns /\ client[k].invalid = {} /\ conn[p].alive /\ conn[p] \in ConnType
  BY <1>1, Zenon DEF PhaseOf, ClientType, PoolInv, Live, PoolTypes
<1>3. CASE /\ conn' = [conn EXCEPT ![p] = Free]
           /\ client' = [client EXCEPT ![k].pc = "out", ![k].ptr = NoConn, ![k].owed = -1]
  <2>1. client'[k].owed = -1 /\ \A j \in Clients : j # k => client'[j] = client[j]
    <3> DEFINE q == [client[k] EXCEPT !.pc = "out", !.ptr = NoConn, !.owed = -1]
    <3>1. q.owed = -1
      BY <1>1 DEF ClientType
    <3>2. client' = [client EXCEPT ![k] = q]
      BY <1>3, Zenon
    <3> HIDE DEF q
    <3> QED BY <1>1, <3>1, <3>2, Zenon DEF PoolTypes
  <2>2. ~Free.alive /\ conn'[p] = Free /\ \A d \in Conns : d # p => conn'[d] = conn[d]
    BY <1>1, <1>2, <1>3, Zenon DEF PoolTypes, Free, Fresh
  <2>3. NoneLost'
    BY <1>1, <1>2, <2>1, <2>2, FiberLoses, Zenon
  <2>4. Alive' = Alive \ {p} /\ p \in Alive
    BY <1>2, <2>2, Zenon DEF Alive
  <2>5. Cardinality(Alive') = Cardinality(Alive) - 1
    BY <2>4, AliveFinite, FS_RemoveElement, Zenon
  <2>6. TotalRight'
    BY <1>1, <2>1, <2>5, Tally, AliveFinite
  <2> QED BY <2>3, <2>6, Zenon DEF CountInv
<1>4. CASE /\ conn' = [conn EXCEPT ![p] = c]
           /\ client' = [client EXCEPT ![k].pc = "push"]
  <2>1. /\ client'[k].ptr = p /\ client'[k].invalid = client[k].invalid
        /\ client'[k].owed = 0 /\ \A j \in Clients : j # k => client'[j] = client[j]
    BY <1>1, <1>4, Zenon DEF PoolTypes, ClientType
  <2>2. c.alive
    BY <1>2, Zenon DEF ConnType
  <2> HIDE DEF c
  <2>3. \A d \in Conns : conn'[d].alive = conn[d].alive
    <3>1. conn'[p] = c /\ \A d \in Conns : d # p => conn'[d] = conn[d]
      BY <1>1, <1>2, <1>4, Zenon DEF PoolTypes
    <3>2. c.alive = TRUE /\ conn[p].alive = TRUE
      <4>1. c \in ConnType
        BY <1>2 DEF c, ConnType
      <4> QED BY <1>2, <2>2, <4>1, Zenon DEF ConnType
    <3> QED BY <3>1, <3>2, Zenon
  <2>4. NoneLost'
    BY <1>1, <2>1, <2>3, FiberLoses, Zenon
  <2>5. Alive' = Alive
    BY <2>3 DEF Alive
  <2>6. TotalRight'
    BY <1>1, <2>1, <2>5, Tally, AliveFinite
  <2> QED BY <2>4, <2>6, Zenon DEF CountInv
<1> QED BY <1>3, <1>4, Zenon DEF Release

\* The connection goes into the list.
LEMMA PushCounts ==
    ASSUME PoolInv, PoolInv', CountInv, NEW k \in Clients, Push(k) PROVE CountInv'
<1> DEFINE p == client[k].ptr
<1>1. /\ PoolTypes /\ PoolTypes' /\ client[k] \in ClientType /\ PhaseOf(k)
      /\ m_conns' = Append(m_conns, p) /\ m_total' = m_total /\ conn' = conn
      /\ client' = [client EXCEPT ![k].pc = "out", ![k].ptr = NoConn]
      /\ client[k].pc = "push" /\ client[k].owed = 0
      /\ m_total \in Int /\ TotalRight
  BY Zenon DEF PoolInv, PoolTypes, Push, CountInv, TotalRight, Phase, At
<1>2. p \in Conns /\ client[k].invalid = {} /\ m_conns \in Seq(Conns)
  BY <1>1, Zenon DEF PhaseOf, ClientType, PoolTypes
<1>3. client'[k].owed = 0 /\ \A j \in Clients : j # k => client'[j] = client[j]
  BY <1>1, Zenon DEF PoolTypes, ClientType
<1>4. /\ \E i \in DOMAIN m_conns' : m_conns'[i] = p
      /\ \A i \in DOMAIN m_conns : i \in DOMAIN m_conns' /\ m_conns'[i] = m_conns[i]
  <2>1. /\ Len(m_conns) + 1 \in DOMAIN m_conns' /\ m_conns'[Len(m_conns) + 1] = p
        /\ \A i \in DOMAIN m_conns : i \in DOMAIN m_conns' /\ m_conns'[i] = m_conns[i]
    BY <1>1, <1>2
  <2> QED BY <2>1
<1>5. NoneLost'
  <2> SUFFICES ASSUME NEW c \in Conns, conn[c].alive PROVE Somewhere(c)'
    BY <1>1, Zenon DEF NoneLost
  <2>1. Somewhere(c)
    BY DEF CountInv, NoneLost
  <2>2. CASE \E i \in DOMAIN m_conns : m_conns[i] = c
    BY <1>4, <2>2, Zenon DEF Somewhere
  <2>3. CASE \E j \in Clients : client[j].ptr = c \/ c \in client[j].invalid
    BY <1>2, <1>3, <1>4, <2>3, Zenon DEF Somewhere
  <2> QED BY <2>1, <2>2, <2>3, Zenon DEF Somewhere
<1>6. Alive' = Alive
  BY <1>1, Zenon DEF Alive
<1>7. TotalRight'
  <2>1. m_total' + client'[k].owed - (m_total + client[k].owed) = Cardinality(Alive') - Cardinality(Alive)
    BY <1>1, <1>3, <1>6, AliveFinite
  <2> QED BY <1>1, <1>3, <2>1, Tally, Zenon
<1> QED BY <1>5, <1>7 DEF CountInv

\* Closing the socket deletes nothing.
LEMMA CloseCounts ==
    ASSUME PoolInv, CountInv, NEW c \in Conns, CloseIdle(c) PROVE CountInv'
<1>1. PoolTypes /\ UNCHANGED <<m_conns, client, m_total>>
  BY DEF PoolInv, CloseIdle
<1>2. \A d \in Conns : conn'[d].alive = conn[d].alive
  BY <1>1 DEF CloseIdle, PoolTypes, ConnType
<1>3. Alive' = Alive /\ Owed' = Owed
  BY <1>1, <1>2, Zenon DEF Alive, Owed
<1>4. NoneLost'
  BY <1>1, <1>2, Zenon DEF CountInv, NoneLost, Somewhere
<1>5. TotalRight'
  BY <1>1, <1>3, Zenon DEF CountInv, TotalRight
<1> QED BY <1>4, <1>5 DEF CountInv

\* The list is empty and nothing is alive.
LEMMA CountInit == Init => CountInv
<1> SUFFICES ASSUME Init PROVE CountInv
  OBVIOUS
<1>1. Alive = {} /\ NoneLost
  BY DEF Init, Alive, NoneLost, Free, Fresh
<1>2. Owed \in [Clients -> Int] /\ \A k \in Clients : Owed[k] = 0
  BY DEF Init, Owed
<1>3. SumFunction(Owed) = 0
  BY <1>2, PoolAssumption, SumZero, Zenon
<1> QED BY <1>1, <1>3, FS_EmptySet DEF Init, CountInv, TotalRight

\* Every step keeps the count.
LEMMA CountStep == PoolInv /\ PoolInv' /\ CountInv /\ [Next]_vars => CountInv'
<1> SUFFICES ASSUME PoolInv, PoolInv', CountInv, [Next]_vars PROVE CountInv'
  OBVIOUS
<1>1. ASSUME NEW k \in Clients, ClientStep(k) PROVE CountInv'
  BY <1>1, PickCounts, SweepCounts, ConnectCounts, ExchangeCounts, ReleaseCounts, PushCounts, Zenon
     DEF ClientStep
<1>2. ASSUME NEW c \in Conns, CloseIdle(c) PROVE CountInv'
  BY <1>2, CloseCounts
<1>3. CASE UNCHANGED vars
  BY <1>3, Zenon DEF vars, CountInv, NoneLost, Somewhere, TotalRight, Owed, Alive
<1> QED BY <1>1, <1>2, <1>3, Zenon DEF Next

\* What the invariants say as numbers: one place for a live connection, none for
\* a deleted one.
LEMMA OnePlace ==
    ASSUME PoolInv, CountInv, NEW c \in Conns
    PROVE  Cardinality(Holders(c)) + Cardinality({k \in Clients : c \in client[k].invalid})
             + Cardinality({i \in DOMAIN m_conns : m_conns[i] = c}) = (IF c \in Alive THEN 1 ELSE 0)
<1> DEFINE H == Holders(c)
           D == {k \in Clients : c \in client[k].invalid}
           L == {i \in DOMAIN m_conns : m_conns[i] = c}
<1>1. c # NoConn /\ Apart /\ Live /\ (conn[c].alive => Somewhere(c))
  BY PoolAssumption DEF PoolInv, CountInv, NoneLost
<1>2. Cardinality({}) = 0 /\ \A x : Cardinality({x}) = 1
  BY FS_EmptySet, FS_Singleton, Zenon
<1>3. c \in Alive <=> H # {} \/ D # {} \/ L # {}
  BY <1>1, Zenon DEF Alive, Live, Somewhere, Holders
<1>4. \A k \in H : H = {k} /\ D = {} /\ L = {}
  BY <1>1 DEF Apart, Holders
<1>5. \A k \in D : D = {k} /\ H = {} /\ L = {}
  BY <1>1 DEF Apart, Holders
<1>6. \A i \in L : L = {i} /\ H = {} /\ D = {}
  BY <1>1 DEF Apart, Holders
<1> HIDE DEF H, D, L
<1>7. Cardinality(H) + Cardinality(D) + Cardinality(L) = (IF c \in Alive THEN 1 ELSE 0)
  <2>1. CASE H # {}
    <3>1. PICK k \in H : TRUE
      BY <2>1
    <3>2. H = {k} /\ D = {} /\ L = {} /\ c \in Alive
      BY <1>3, <1>4, <3>1, Zenon
    <3> QED BY <1>2, <3>2
  <2>2. CASE D # {}
    <3>1. PICK k \in D : TRUE
      BY <2>2
    <3>2. D = {k} /\ H = {} /\ L = {} /\ c \in Alive
      BY <1>3, <1>5, <3>1, Zenon
    <3>3. Cardinality(D) = 1 /\ Cardinality(H) = 0 /\ Cardinality(L) = 0
      BY <1>2, <3>2, Zenon
    <3> QED BY <3>2, <3>3
  <2>3. CASE L # {}
    <3>1. PICK i \in L : TRUE
      BY <2>3
    <3>2. L = {i} /\ H = {} /\ D = {} /\ c \in Alive
      BY <1>3, <1>6, <3>1, Zenon
    <3>3. Cardinality(L) = 1 /\ Cardinality(H) = 0 /\ Cardinality(D) = 0
      BY <1>2, <3>2, Zenon
    <3> QED BY <3>2, <3>3
  <2>4. CASE H = {} /\ D = {} /\ L = {}
    BY <1>2, <1>3, <2>4
  <2> QED BY <2>1, <2>2, <2>3, <2>4, Zenon
<1> QED BY <1>7 DEF H, D, L

\* Every live connection has exactly one place, none is lost, and m_total counts
\* them up to the changes that fibers are about to make, although neither the
\* deletions nor the counting are under the lock (http_connection.cc:271-342).
THEOREM ConnectionsHaveOneOwner == Spec => []OneOwner
<1>1. PoolInv /\ CountInv => OneOwner
  BY OnePlace, Zenon DEF OneOwner, CountInv, TotalRight
<1> QED BY <1>1, PoolInvInit, PoolInvStep, CountInit, CountStep, PTL DEF Spec
=============================================================================
