--------------------------- MODULE ByteArrayProofs ---------------------------
(***************************************************************************)
(* The proof that a ByteArray used within its preconditions never follows a *)
(* null pointer and implements ByteStream, for any size of node, any        *)
(* bytes and any bounds.  The loops through the list are recursive          *)
(* functions: that they end, and what they compute, is proved from the      *)
(* least number of bytes, or of nodes left, for which it would fail.        *)
(* The second part proves that the integers of variable length are read     *)
(* back as they were written, for any width: groups and shifts are recursive*)
(* functions too, and a set of numbers with 0 and every successor is Nat.   *)
(***************************************************************************)
EXTENDS MCByteArray, SequenceTheorems, WellFoundedInduction, TLAPS

(***************************************************************************)
(* Offsets of nodes.                                                        *)
(***************************************************************************)
\* An offset where a node can start.
Multiple(a) == a \in Int /\ \E q \in Int : a = Base * q

\* The node of an offset, Null at the end of the list.
NodeAt(a, cap) == IF a < cap THEN NodeOf(a) ELSE Null

\* A node has its offset from the remainder of any position in it.
LEMMA NodeFacts ==
    ASSUME NEW a \in Nat
    PROVE  /\ a % Base \in 0..(Base - 1)
           /\ Multiple(NodeOf(a)) /\ NodeOf(a) \in Nat
           /\ a = NodeOf(a) + (a % Base)
<1>1. Base \in Nat \ {0}
  BY ByteArrayAssumption
<1>2. a % Base \in 0..(Base - 1) /\ a \div Base \in Int /\ a = Base * (a \div Base) + (a % Base)
  BY <1>1
<1>3. NodeOf(a) = Base * (a \div Base) /\ NodeOf(a) \in Int
  BY <1>1, <1>2 DEF NodeOf
<1>4. a \div Base >= 0
  BY <1>1
<1>5. Base * (a \div Base) >= 0
  BY <1>1, <1>2, <1>4
<1>6. Multiple(NodeOf(a))
  BY <1>2, <1>3, Zenon DEF Multiple
<1>7. NodeOf(a) \in Nat /\ a = NodeOf(a) + (a % Base)
  BY <1>2, <1>3, <1>5
<1> QED BY <1>2, <1>6, <1>7, Zenon

\* Different nodes are a node apart.
LEMMA NodesApart ==
    ASSUME NEW c, NEW d, Multiple(c), Multiple(d), c < d
    PROVE  c + Base <= d
<1>1. Base \in Nat \ {0}
  BY ByteArrayAssumption
<1>2. PICK q \in Int : c = Base * q
  BY DEF Multiple
<1>3. PICK r \in Int : d = Base * r
  BY DEF Multiple
<1>4. q >= r => Base * q >= Base * r
  BY <1>1
<1>5. r >= q + 1
  BY <1>1, <1>2, <1>3, <1>4
<1>6. Base * r >= Base * (q + 1) /\ Base * (q + 1) = Base * q + Base
  BY <1>1, <1>5
<1> QED BY <1>1, <1>2, <1>3, <1>6, Zenon

\* The node after a node, and the node of a position within one.
LEMMA NodeSteps ==
    ASSUME NEW c \in Nat, Multiple(c)
    PROVE  /\ Multiple(c + Base)
           /\ \A n \in 0..(Base - 1) : NodeOf(c + n) = c /\ (c + n) % Base = n
<1>1. Base \in Nat \ {0}
  BY ByteArrayAssumption
<1>2. PICK q \in Int : c = Base * q
  BY DEF Multiple
<1>3. c + Base = Base * (q + 1)
  BY <1>1, <1>2
<1>4. Multiple(c + Base)
  BY <1>1, <1>3 DEF Multiple
<1>5. ASSUME NEW n \in 0..(Base - 1) PROVE NodeOf(c + n) = c
  <2>1. c + n \in Nat
    BY <1>1
  <2> DEFINE d == NodeOf(c + n)
             r == (c + n) % Base
  <2>2. Multiple(d) /\ d \in Nat /\ c + n = d + r /\ r \in 0..(Base - 1)
    BY <2>1, NodeFacts, Zenon
  <2>3. c < d => c + Base <= d
    BY <2>2, NodesApart
  <2>4. d < c => d + Base <= c
    BY <2>2, NodesApart
  <2> HIDE DEF d, r
  <2>5. d = c
    BY <1>1, <2>2, <2>3, <2>4
  <2> QED BY <2>5 DEF d
<1>6. ASSUME NEW n \in 0..(Base - 1) PROVE (c + n) % Base = n
  <2> DEFINE r == (c + n) % Base
  <2>1. c + n \in Nat
    BY <1>1
  <2>2. c + n = c + r /\ r \in 0..(Base - 1)
    BY <1>5, <2>1, NodeFacts, Zenon
  <2> HIDE DEF r
  <2>3. r = n
    BY <1>1, <2>2
  <2> QED BY <2>3 DEF r
<1> QED BY <1>4, <1>5, <1>6

\* Zero is the first node.
LEMMA FirstNode == Multiple(0) /\ Multiple(Base) /\ Base \in Nat \ {0}
<1>1. Base \in Nat \ {0}
  BY ByteArrayAssumption
<1>2. 0 = Base * 0 /\ Base = Base * 1
  BY <1>1
<1>3. Multiple(0)
  BY <1>2, 0 \in Int, Zenon DEF Multiple
<1>4. Multiple(Base)
  BY <1>1, <1>2, 1 \in Int, Base \in Int, Zenon DEF Multiple
<1> QED BY <1>1, <1>3, <1>4

(***************************************************************************)
(* The loops through the list.                                              *)
(***************************************************************************)
\* A set of natural numbers that is not empty has a least member.
LEMMA LeastExists ==
    ASSUME NEW S \in SUBSET Nat, S # {}
    PROVE  \E x \in S : \A y \in S : x <= y
<1> DEFINE R == {ss \in Nat \X Nat : ss[1] < ss[2]}
<1>1. IsWellFoundedOn(R, Nat)
  BY NatLessThanWellFounded DEF OpToRel
<1> HIDE DEF R
<1>2. PICK x \in S : \A y \in S : ~(<<y, x>> \in R)
  BY <1>1, WFMin, Zenon
<1>3. ASSUME NEW y \in S PROVE x <= y
  <2>1. x \in Nat /\ y \in Nat
    OBVIOUS
  <2>2. y < x => <<y, x>> \in R
    BY <2>1 DEF R
  <2> QED BY <1>2, <2>1, <2>2
<1> QED BY <1>3

\* One iteration of Walk(), with g for the iterations that follow.
WalkStates(cap) == [cur : Nodes(cap), npos : 0..(Base - 1), size : Nat]
WalkStep(g, cap, w) ==
    IF w.cur = Null THEN [cells |-> <<>>, cur |-> Null, ok |-> FALSE]
    ELSE LET ncap == Base - w.npos
             next == NextNode(w.cur, cap)
             cells == [i \in 1..Smaller(ncap, w.size) |-> w.cur + w.npos + i - 1]
         IN  IF ncap >= w.size
             THEN [cells |-> cells, cur |-> IF ncap = w.size THEN next ELSE w.cur, ok |-> TRUE]
             ELSE LET rest == g[[cur |-> next, npos |-> 0, size |-> w.size - ncap]]
                  IN  [rest EXCEPT !.cells = cells \o @]

\* How far a node is from the end.
Left(cap, cur) == IF cur = Null THEN 0 ELSE cap - cur

\* The next node is nearer to the end.
LEMMA NextIsNearer ==
    ASSUME NEW cap \in Nat, NEW cur \in Nodes(cap), cur # Null
    PROVE  /\ NextNode(cur, cap) \in Nodes(cap)
           /\ Left(cap, cur) \in Nat /\ Left(cap, NextNode(cur, cap)) \in Nat
           /\ Left(cap, NextNode(cur, cap)) < Left(cap, cur)
<1>1. Base \in Nat \ {0} /\ cur \in 0..(cap - 1)
  BY ByteArrayAssumption DEF Nodes
<1> QED BY <1>1 DEF Nodes, NextNode, Null, Left

\* The loop ends, so its recursive definition defines something: a function that
\* is right on the nodes nearer than n to the end can be made right on those at n.
LEMMA WalkExists ==
    ASSUME NEW cap \in Nat
    PROVE  \E g : g = [w \in WalkStates(cap) |-> WalkStep(g, cap, w)]
<1> DEFINE D == WalkStates(cap)
           Near(n) == {w \in D : Left(cap, w.cur) <= n}
           Part(n) == \E g : \A w \in Near(n) : g[w] = WalkStep(g, cap, w)
           bad == {n \in Nat : ~Part(n)}
<1>1. \A w \in D : w.cur \in Nodes(cap) /\ w.npos \in 0..(Base - 1) /\ w.size \in Nat
  BY DEF WalkStates
<1>2. ASSUME bad # {} PROVE FALSE
  <2>1. PICK m \in bad : \A n \in bad : m <= n
    BY <1>2, LeastExists, Zenon
  <2>2. m \in Nat /\ ~Part(m)
    OBVIOUS
  <2>3. PICK g : m # 0 => \A w \in Near(m - 1) : g[w] = WalkStep(g, cap, w)
    <3>1. CASE m = 0
      BY <3>1
    <3>2. CASE m # 0
      <4>1. m - 1 \in Nat /\ ~(m <= m - 1)
        BY <2>2, <3>2
      <4>2. Part(m - 1)
        BY <2>1, <4>1
      <4> QED BY <4>2
    <3> QED BY <3>1, <3>2, Zenon
  <2> DEFINE h == [w \in D |-> WalkStep(g, cap, w)]
  <2>4. ASSUME NEW w \in Near(m) PROVE h[w] = WalkStep(h, cap, w)
    <3> DEFINE v == [cur |-> NextNode(w.cur, cap), npos |-> 0, size |-> w.size - (Base - w.npos)]
    <3>1. h[w] = WalkStep(g, cap, w)
      OBVIOUS
    <3>2. ASSUME w.cur # Null, ~(Base - w.npos >= w.size) PROVE h[v] = g[v]
      <4>1. /\ w.cur \in Nodes(cap) /\ w.npos \in 0..(Base - 1) /\ w.size \in Nat
            /\ Left(cap, w.cur) <= m
        BY <1>1
      <4>2. /\ NextNode(w.cur, cap) \in Nodes(cap)
            /\ Left(cap, NextNode(w.cur, cap)) \in Nat /\ Left(cap, w.cur) \in Nat
            /\ Left(cap, NextNode(w.cur, cap)) < Left(cap, w.cur)
        BY <3>2, <4>1, NextIsNearer, Zenon
      <4>3. v \in D /\ v.cur = NextNode(w.cur, cap)
        BY <3>2, <4>1, <4>2, FirstNode DEF WalkStates
      <4> HIDE DEF v
      <4> DEFINE l == Left(cap, w.cur)
                 k == Left(cap, v.cur)
      <4>4. k \in Nat /\ l \in Nat /\ k < l /\ l <= m
        BY <4>1, <4>2, <4>3, Zenon
      <4> HIDE DEF k, l, bad
      <4>5. m # 0 /\ k <= m - 1
        BY <2>2, <4>4
      <4>6. m # 0 /\ Left(cap, v.cur) <= m - 1
        BY <4>5 DEF k
      <4>7. v \in Near(m - 1)
        BY <4>3, <4>6
      <4> QED BY <2>3, <4>3, <4>6, <4>7, Zenon
    <3> HIDE DEF h
    <3>3. w.cur = Null => WalkStep(h, cap, w) = WalkStep(g, cap, w)
      BY Zenon DEF WalkStep
    <3>4. w.cur # Null /\ Base - w.npos >= w.size => WalkStep(h, cap, w) = WalkStep(g, cap, w)
      BY Zenon DEF WalkStep
    <3>5. w.cur # Null /\ ~(Base - w.npos >= w.size) => WalkStep(h, cap, w) = WalkStep(g, cap, w)
      BY <3>2, Zenon DEF WalkStep
    <3> QED BY <3>1, <3>3, <3>4, <3>5, Zenon
  <2> HIDE DEF h
  <2> QED BY <2>2, <2>4
<1>3. Part(cap)
  BY <1>2
<1>4. PICK g : \A w \in Near(cap) : g[w] = WalkStep(g, cap, w)
  BY <1>3
<1>5. ASSUME NEW w \in D PROVE w \in Near(cap)
  <2>1. w.cur \in Nodes(cap)
    BY <1>1
  <2>2. Left(cap, w.cur) <= cap
    BY <2>1 DEF Left, Nodes, Null
  <2> QED BY <2>2
<1> DEFINE h == [w \in D |-> g[w]]
<1>6. ASSUME NEW w \in D PROVE WalkStep(h, cap, w) = WalkStep(g, cap, w)
  <2> DEFINE v == [cur |-> NextNode(w.cur, cap), npos |-> 0, size |-> w.size - (Base - w.npos)]
  <2>1. w.cur \in Nodes(cap) /\ w.npos \in 0..(Base - 1) /\ w.size \in Nat /\ Base \in Nat \ {0}
    BY <1>1, FirstNode
  <2>2. w.cur # Null /\ ~(Base - w.npos >= w.size) => h[v] = g[v]
    <3>1. w.cur # Null => NextNode(w.cur, cap) \in Nodes(cap)
      BY <2>1, NextIsNearer
    <3>2. w.cur # Null /\ ~(Base - w.npos >= w.size) => v \in D
      BY <2>1, <3>1 DEF WalkStates
    <3> QED BY <3>2, Zenon
  <2> HIDE DEF h
  <2>3. w.cur = Null => WalkStep(h, cap, w) = WalkStep(g, cap, w)
    BY DEF WalkStep
  <2>4. w.cur # Null /\ Base - w.npos >= w.size => WalkStep(h, cap, w) = WalkStep(g, cap, w)
    BY DEF WalkStep
  <2>5. w.cur # Null /\ ~(Base - w.npos >= w.size) => WalkStep(h, cap, w) = WalkStep(g, cap, w)
    BY <2>2, Zenon DEF WalkStep
  <2> QED BY <2>3, <2>4, <2>5, Zenon
<1>7. h = [w \in D |-> WalkStep(h, cap, w)]
  BY <1>4, <1>5, <1>6, Zenon
<1> QED BY <1>7, Zenon

\* What the recursive definition says.
LEMMA WalkUnfolds ==
    ASSUME NEW cap \in Nat, NEW w \in WalkStates(cap)
    PROVE  Walk(cap)[w] = WalkStep(Walk(cap), cap, w)
<1> DEFINE Is(g) == g = [x \in WalkStates(cap) |-> WalkStep(g, cap, x)]
           walk == CHOOSE g : Is(g)
<1>1. Is(walk)
  BY WalkExists
<1>2. Walk(cap) = walk
  BY DEF Walk, WalkStates, WalkStep
<1> HIDE DEF walk
<1>3. walk[w] = WalkStep(walk, cap, w)
  BY <1>1
<1> QED BY <1>2, <1>3

\* The last iteration, within a node.
LEMMA WalkEnds ==
    ASSUME NEW cap \in Nat, NEW w \in WalkStates(cap), w.cur # Null,
           NEW ncap, ncap = Base - w.npos, ncap > w.size
    PROVE  Walk(cap)[w] = [cells |-> [i \in 1..w.size |-> w.cur + w.npos + i - 1],
                           cur |-> w.cur, ok |-> TRUE]
<1>1. w.npos \in 0..(Base - 1) /\ w.size \in Nat /\ Base \in Nat
  BY FirstNode DEF WalkStates
<1>2. ncap \in Nat
  BY <1>1
<1>3. Smaller(ncap, w.size) = w.size /\ ncap >= w.size /\ ncap # w.size
  BY <1>1, <1>2 DEF Smaller
<1>4. Walk(cap)[w] = WalkStep(Walk(cap), cap, w)
  BY WalkUnfolds
<1> QED BY <1>3, <1>4, Zenon DEF WalkStep

\* The last iteration, to the end of a node.
LEMMA WalkFills ==
    ASSUME NEW cap \in Nat, NEW w \in WalkStates(cap), w.cur # Null,
           NEW ncap, ncap = Base - w.npos, ncap = w.size
    PROVE  Walk(cap)[w] = [cells |-> [i \in 1..w.size |-> w.cur + w.npos + i - 1],
                           cur |-> NextNode(w.cur, cap), ok |-> TRUE]
<1>1. w.npos \in 0..(Base - 1) /\ w.size \in Nat /\ Base \in Nat
  BY FirstNode DEF WalkStates
<1>2. ncap \in Nat
  BY <1>1
<1>3. Smaller(ncap, w.size) = w.size /\ ncap >= w.size
  BY <1>1, <1>2 DEF Smaller
<1>4. Walk(cap)[w] = WalkStep(Walk(cap), cap, w)
  BY WalkUnfolds
<1> QED BY <1>3, <1>4, Zenon DEF WalkStep

\* The offsets of an iteration before those of the rest.
Prepended(rest, cells) == [rest EXCEPT !.cells = cells \o @]

\* An iteration that is not the last.
LEMMA WalkGoesOn ==
    ASSUME NEW cap \in Nat, NEW w \in WalkStates(cap), w.cur # Null,
           NEW ncap, ncap = Base - w.npos, ncap < w.size
    PROVE  Walk(cap)[w] =
             Prepended(Walk(cap)[[cur |-> NextNode(w.cur, cap), npos |-> 0, size |-> w.size - ncap]],
                       [i \in 1..ncap |-> w.cur + w.npos + i - 1])
<1>1. w.npos \in 0..(Base - 1) /\ w.size \in Nat /\ Base \in Nat
  BY FirstNode DEF WalkStates
<1>2. ncap \in Nat
  BY <1>1
<1>3. Smaller(ncap, w.size) = ncap /\ ~(ncap >= w.size)
  BY <1>1, <1>2 DEF Smaller
<1>4. Walk(cap)[w] = WalkStep(Walk(cap), cap, w)
  BY WalkUnfolds
<1> QED BY <1>3, <1>4, Zenon DEF WalkStep, Prepended

\* What the loop computes where the bytes fit: their offsets, in order, and the
\* node of the position after them.
Swept(p, size, cap) ==
    [cells |-> [i \in 1..size |-> p + i - 1], cur |-> NodeAt(p + size, cap), ok |-> TRUE]

\* Two stretches of offsets in a row.
LEMMA Stretches ==
    ASSUME NEW p \in Nat, NEW m \in Nat, NEW n \in Nat
    PROVE  [i \in 1..m |-> p + i - 1] \o [i \in 1..n |-> (p + m) + i - 1]
             = [i \in 1..(m + n) |-> p + i - 1]
<1> DEFINE a == [i \in 1..m |-> p + i - 1]
           b == [i \in 1..n |-> (p + m) + i - 1]
           c == [i \in 1..(m + n) |-> p + i - 1]
<1>1. a \in Seq(Nat) /\ b \in Seq(Nat) /\ c \in Seq(Nat) /\ Len(a) = m /\ Len(b) = n /\ Len(c) = m + n
  OBVIOUS
<1>2. \A i \in 1..m : a[i] = p + i - 1
  OBVIOUS
<1>3. \A i \in 1..n : b[i] = p + m + i - 1
  OBVIOUS
<1>4. \A i \in 1..(m + n) : c[i] = p + i - 1
  OBVIOUS
<1> HIDE DEF a, b, c
<1>5. /\ a \o b \in Seq(Nat) /\ Len(a \o b) = m + n
      /\ \A i \in 1..(m + n) : (a \o b)[i] = IF i <= m THEN a[i] ELSE b[i - m]
  BY <1>1, ConcatProperties, Zenon
<1>6. ASSUME NEW i \in 1..(m + n) PROVE (a \o b)[i] = c[i]
  <2>1. CASE i <= m
    BY <1>2, <1>4, <1>5, <2>1
  <2>2. CASE ~(i <= m)
    <3>1. (a \o b)[i] = b[i - m]
      BY <1>5, <2>2
    <3>2. i - m \in 1..n
      BY <2>2
    <3>3. b[i - m] = p + m + (i - m) - 1
      BY <1>3, <3>2
    <3> QED BY <1>4, <3>1, <3>2, <3>3
  <2> QED BY <2>1, <2>2, Zenon
<1>7. a \o b = c
  BY <1>1, <1>5, <1>6, SeqEqual, Zenon
<1> QED BY <1>7 DEF a, b, c

\* The loop, from any node, for any number of bytes.
LEMMA WalkSweeps ==
    ASSUME NEW cap \in Nat, Multiple(cap)
    PROVE  \A size \in Nat, cur \in Nat, npos \in 0..(Base - 1) :
             Multiple(cur) /\ cur < cap /\ cur + npos + size <= cap
             => Walk(cap)[[cur |-> cur, npos |-> npos, size |-> size]] = Swept(cur + npos, size, cap)
<1> DEFINE Right(size) ==
             \A cur \in Nat, npos \in 0..(Base - 1) :
               Multiple(cur) /\ cur < cap /\ cur + npos + size <= cap
               => Walk(cap)[[cur |-> cur, npos |-> npos, size |-> size]] = Swept(cur + npos, size, cap)
           bad == {n \in Nat : ~Right(n)}
<1>1. ASSUME bad # {} PROVE FALSE
  <2>1. PICK size \in bad : \A n \in bad : size <= n
    BY <1>1, LeastExists, Zenon
  <2>2. size \in Nat /\ ~Right(size)
    OBVIOUS
  <2>3. \A n \in Nat : n < size => Right(n)
    <3>1. \A n \in Nat : n < size => n \notin bad
      <4> HIDE DEF bad, Right
      <4> QED BY <2>1, <2>2
    <3> QED BY <3>1, Zenon
  <2>4. ASSUME NEW cur \in Nat, NEW npos \in 0..(Base - 1),
               Multiple(cur), cur < cap, cur + npos + size <= cap
        PROVE  Walk(cap)[[cur |-> cur, npos |-> npos, size |-> size]] = Swept(cur + npos, size, cap)
    <3> DEFINE w == [cur |-> cur, npos |-> npos, size |-> size]
               ncap == Base - npos
               next == NextNode(cur, cap)
               v == [cur |-> next, npos |-> 0, size |-> size - ncap]
               cells(k) == [i \in 1..k |-> cur + npos + i - 1]
    <3>1. Base \in Nat \ {0} /\ cur # Null /\ cur \in Nodes(cap) /\ size \in Nat /\ ncap \in Nat \ {0}
      BY <2>2, <2>4, FirstNode DEF Null, Nodes
    <3>2. cur + Base <= cap /\ Multiple(cur + Base)
      BY <2>4, NodesApart, NodeSteps, Zenon
    <3>3. w \in WalkStates(cap) /\ w.cur = cur /\ w.npos = npos /\ w.size = size
      BY <3>1 DEF WalkStates
    <3>4. ncap = Base - npos /\ cur + npos + ncap = cur + Base
      BY <3>1
    <3> HIDE DEF w, ncap, bad
    <3>5. CASE ncap > size
      <4>1. Walk(cap)[w] = [cells |-> [i \in 1..w.size |-> w.cur + w.npos + i - 1], cur |-> w.cur, ok |-> TRUE]
        BY <3>1, <3>3, <3>4, <3>5, WalkEnds, Zenon
      <4>2. Walk(cap)[w] = [cells |-> cells(size), cur |-> cur, ok |-> TRUE]
        BY <4>1, Zenon DEF w
      <4>3. npos + size \in 0..(Base - 1) /\ cur + npos + size = cur + (npos + size) /\ cur + npos + size < cap
        BY <3>1, <3>2, <3>4, <3>5
      <4>4. NodeOf(cur + npos + size) = cur
        BY <2>4, <4>3, NodeSteps, Zenon
      <4>5. NodeAt(cur + npos + size, cap) = cur
        BY <4>3, <4>4, Zenon DEF NodeAt
      <4> QED BY <4>2, <4>5, Zenon DEF Swept, w
    <3>6. CASE ncap = size
      <4>1. Walk(cap)[w] = [cells |-> [i \in 1..w.size |-> w.cur + w.npos + i - 1],
                            cur |-> NextNode(w.cur, cap), ok |-> TRUE]
        <5>1. w.cur # Null /\ ncap = Base - w.npos /\ ncap = w.size
          BY <3>1, <3>3, <3>4, <3>6, Zenon
        <5> QED BY <3>3, <5>1, WalkFills, Zenon
      <4>2. Walk(cap)[w] = [cells |-> cells(size), cur |-> next, ok |-> TRUE]
        BY <4>1, Zenon DEF w
      <4>3. cur + npos + size = cur + Base /\ cur + Base \in Nat /\ cur + Base + 0 = cur + Base /\ 0 \in 0..(Base - 1)
        BY <3>1, <3>4, <3>6
      <4>4. NodeOf(cur + Base) = cur + Base
        BY <3>2, <4>3, NodeSteps, Zenon
      <4>5. NodeAt(cur + npos + size, cap) = next
        BY <4>3, <4>4, Zenon DEF NodeAt, NextNode
      <4> QED BY <4>2, <4>5, Zenon DEF Swept, w
    <3>7. CASE ncap < size
      <4>1. Walk(cap)[w] = Prepended(Walk(cap)[v], cells(ncap))
        <5>1. w.cur # Null /\ ncap = Base - w.npos /\ ncap < w.size
          BY <3>1, <3>3, <3>4, <3>7, Zenon
        <5>2. Walk(cap)[w] =
                Prepended(Walk(cap)[[cur |-> NextNode(w.cur, cap), npos |-> 0, size |-> w.size - ncap]],
                          [i \in 1..ncap |-> w.cur + w.npos + i - 1])
          BY <3>3, <5>1, WalkGoesOn, Zenon
        <5> QED BY <5>2, Zenon DEF w
      <4>2. cur + Base < cap /\ cur + Base \in Nat
        BY <2>4, <3>1, <3>4, <3>7
      <4>3. next = cur + Base
        BY <4>2 DEF NextNode
      <4> DEFINE n == size - ncap
      <4>4. /\ n \in Nat /\ n < size /\ cur + Base + 0 + n <= cap /\ 0 \in 0..(Base - 1)
            /\ cur + Base + 0 = cur + npos + ncap /\ ncap + n = size
            /\ cur + npos + ncap + n = cur + npos + size
        BY <2>4, <3>1, <3>4, <3>7
      <4> HIDE DEF n
      <4>5. Walk(cap)[[cur |-> cur + Base, npos |-> 0, size |-> n]] = Swept(cur + Base + 0, n, cap)
        BY <2>3, <3>2, <4>2, <4>4
      <4>6. Walk(cap)[v] = Swept(cur + npos + ncap, n, cap)
        BY <4>4, <4>5, <4>3, Zenon DEF n
      <4>7. cells(ncap) \o [i \in 1..n |-> (cur + npos + ncap) + i - 1] = [i \in 1..size |-> cur + npos + i - 1]
        <5> DEFINE p == cur + npos
        <5>1. p \in Nat
          BY <3>1
        <5> HIDE DEF p
        <5>2. [i \in 1..ncap |-> p + i - 1] \o [i \in 1..n |-> (p + ncap) + i - 1]
                = [i \in 1..(ncap + n) |-> p + i - 1]
          BY <3>1, <4>4, <5>1, Stretches, Zenon
        <5> QED BY <4>4, <5>2, Zenon DEF p
      <4> HIDE DEF v
      <4>8. Walk(cap)[w] = [cells |-> [i \in 1..size |-> cur + npos + i - 1],
                            cur |-> NodeAt(cur + npos + ncap + n, cap), ok |-> TRUE]
        <5> DEFINE q == Walk(cap)[v]
                   c == [i \in 1..n |-> (cur + npos + ncap) + i - 1]
                   e == NodeAt(cur + npos + ncap + n, cap)
        <5>1. q = [cells |-> c, cur |-> e, ok |-> TRUE]
          BY <4>6, Zenon DEF Swept
        <5>2. Walk(cap)[w] = Prepended(q, cells(ncap))
          BY <4>1
        <5> HIDE DEF q, c, e, cells
        <5>3. Walk(cap)[w] = [cells |-> cells(ncap) \o c, cur |-> e, ok |-> TRUE]
          BY <5>1, <5>2, Zenon DEF Prepended
        <5> QED BY <4>7, <5>3, Zenon DEF c, e
      <4> QED BY <4>4, <4>8, Zenon DEF Swept, w
    <3> QED BY <3>1, <3>5, <3>6, <3>7
  <2> QED BY <2>2, <2>4, Zenon
<1>2. \A n \in Nat : Right(n)
  BY <1>1
<1> QED BY <1>2

(***************************************************************************)
(* The loop of writeToFile(), in the same three steps.                      *)
(***************************************************************************)
\* One iteration of FileLoop, with g for the iterations that follow.
FileStates == [cur : Nodes(m_capacity), pos : Int, read_size : Int, bad : BOOLEAN]
FileLen(f) == Smaller(f.read_size, Base) - (f.pos % Base)
FileNext(f) == [cur |-> NextNode(f.cur, m_capacity), pos |-> f.pos + FileLen(f),
                read_size |-> f.read_size - FileLen(f), bad |-> f.bad \/ FileLen(f) < 0]
FileStep(g, f) ==
    IF f.read_size <= 0 THEN [cells |-> <<>>, ok |-> TRUE]
    ELSE IF f.cur = Null THEN [cells |-> <<>>, ok |-> FALSE]
    ELSE IF f.bad \/ FileLen(f) < 0 THEN g[FileNext(f)]
    ELSE Prepended(g[FileNext(f)], [i \in 1..FileLen(f) |-> f.cur + (f.pos % Base) + i - 1])

\* The next iteration is of a node nearer to the end.
LEMMA FileNextIsNearer ==
    ASSUME m_capacity \in Nat, NEW f \in FileStates, f.cur # Null
    PROVE  /\ FileNext(f) \in FileStates
           /\ Left(m_capacity, f.cur) \in Nat /\ Left(m_capacity, FileNext(f).cur) \in Nat
           /\ Left(m_capacity, FileNext(f).cur) < Left(m_capacity, f.cur)
<1>1. f.cur \in Nodes(m_capacity) /\ f.pos \in Int /\ f.read_size \in Int /\ f.bad \in BOOLEAN
  BY DEF FileStates
<1>2. Base \in Nat \ {0} /\ f.pos % Base \in Int
  BY <1>1, FirstNode
<1>3. FileLen(f) \in Int
  BY <1>1, <1>2 DEF FileLen, Smaller
<1>4. (f.bad \/ FileLen(f) < 0) \in BOOLEAN
  OBVIOUS
<1>5. FileNext(f) \in FileStates /\ FileNext(f).cur = NextNode(f.cur, m_capacity)
  BY <1>1, <1>3, NextIsNearer DEF FileNext, FileStates
<1> QED BY <1>1, <1>5, NextIsNearer, Zenon

\* The loop ends.
LEMMA FileExists ==
    ASSUME m_capacity \in Nat
    PROVE  \E g : g = [f \in FileStates |-> FileStep(g, f)]
<1> DEFINE D == FileStates
           cap == m_capacity
           Near(n) == {f \in D : Left(cap, f.cur) <= n}
           Part(n) == \E g : \A f \in Near(n) : g[f] = FileStep(g, f)
           bad == {n \in Nat : ~Part(n)}
<1>1. ASSUME bad # {} PROVE FALSE
  <2>1. PICK m \in bad : \A n \in bad : m <= n
    BY <1>1, LeastExists, Zenon
  <2>2. m \in Nat /\ ~Part(m)
    OBVIOUS
  <2>3. PICK g : m # 0 => \A f \in Near(m - 1) : g[f] = FileStep(g, f)
    <3>1. CASE m = 0
      BY <3>1
    <3>2. CASE m # 0
      <4>1. m - 1 \in Nat /\ ~(m <= m - 1)
        BY <2>2, <3>2
      <4>2. Part(m - 1)
        BY <2>1, <4>1, Zenon
      <4> QED BY <4>2
    <3> QED BY <3>1, <3>2, Zenon
  <2> DEFINE h == [f \in D |-> FileStep(g, f)]
  <2>4. ASSUME NEW f \in Near(m) PROVE h[f] = FileStep(h, f)
    <3> DEFINE v == FileNext(f)
               l == Left(cap, f.cur)
               k == Left(cap, v.cur)
    <3>1. h[f] = FileStep(g, f)
      OBVIOUS
    <3>2. ASSUME f.cur # Null PROVE h[v] = g[v]
      <4>1. v \in D /\ k \in Nat /\ l \in Nat /\ k < l /\ l <= m
        BY <3>2, FileNextIsNearer, Zenon
      <4> HIDE DEF k, l, bad, v
      <4>2. m # 0 /\ k <= m - 1
        BY <2>2, <4>1
      <4>3. v \in Near(m - 1)
        BY <4>1, <4>2, Zenon DEF k
      <4> QED BY <2>3, <4>1, <4>2, <4>3, Zenon
    <3> HIDE DEF h
    <3>3. FileStep(h, f) = FileStep(g, f)
      BY <3>2, Zenon DEF FileStep
    <3> QED BY <3>1, <3>3, Zenon
  <2> HIDE DEF h
  <2> QED BY <2>2, <2>4, Zenon
<1>2. Part(cap)
  BY <1>1
<1>3. PICK g : \A f \in Near(cap) : g[f] = FileStep(g, f)
  BY <1>2
<1>4. ASSUME NEW f \in D PROVE f \in Near(cap)
  <2>1. f.cur \in Nodes(cap)
    BY DEF FileStates
  <2>2. Left(cap, f.cur) <= cap
    BY <2>1 DEF Left, Nodes, Null
  <2> QED BY <2>2
<1> DEFINE h == [f \in D |-> g[f]]
<1>5. ASSUME NEW f \in D PROVE FileStep(h, f) = FileStep(g, f)
  <2>1. f.cur # Null => h[FileNext(f)] = g[FileNext(f)]
    BY FileNextIsNearer
  <2> HIDE DEF h
  <2> QED BY <2>1, Zenon DEF FileStep
<1>6. h = [f \in D |-> FileStep(h, f)]
  BY <1>3, <1>4, <1>5, Zenon
<1> QED BY <1>6, Zenon

\* What the recursive definition says.
LEMMA FileUnfolds ==
    ASSUME m_capacity \in Nat, NEW f \in FileStates
    PROVE  FileLoop[f] = FileStep(FileLoop, f)
<1> DEFINE Is(g) == g = [x \in FileStates |-> FileStep(g, x)]
           loop == CHOOSE g : Is(g)
<1>1. Is(loop)
  BY FileExists
<1>2. FileLoop = loop
  BY DEF FileLoop, FileStates, FileStep, FileNext, FileLen, Prepended
<1> HIDE DEF loop
<1>3. loop[f] = FileStep(loop, f)
  BY <1>1
<1> QED BY <1>2, <1>3

\* From the start of a node the loop writes all that is left, in order.
LEMMA FileSweeps ==
    ASSUME m_capacity \in Nat, Multiple(m_capacity)
    PROVE  \A size \in Nat, cur \in Nodes(m_capacity), pos \in Nat :
             (size > 0 => Multiple(pos) /\ cur = pos /\ pos + size <= m_capacity)
             => FileLoop[[cur |-> cur, pos |-> pos, read_size |-> size, bad |-> FALSE]]
                  = [cells |-> [i \in 1..size |-> pos + i - 1], ok |-> TRUE]
<1> DEFINE Right(size) ==
             \A cur \in Nodes(m_capacity), pos \in Nat :
               (size > 0 => Multiple(pos) /\ cur = pos /\ pos + size <= m_capacity)
               => FileLoop[[cur |-> cur, pos |-> pos, read_size |-> size, bad |-> FALSE]]
                    = [cells |-> [i \in 1..size |-> pos + i - 1], ok |-> TRUE]
           bad == {n \in Nat : ~Right(n)}
<1>1. ASSUME bad # {} PROVE FALSE
  <2>1. PICK size \in bad : \A n \in bad : size <= n
    BY <1>1, LeastExists, Zenon
  <2>2. size \in Nat /\ ~Right(size)
    OBVIOUS
  <2>3. \A n \in Nat : n < size => Right(n)
    <3>1. \A n \in Nat : n < size => n \notin bad
      <4> HIDE DEF bad, Right
      <4> QED BY <2>1, <2>2
    <3> QED BY <3>1, Zenon
  <2>4. ASSUME NEW cur \in Nodes(m_capacity), NEW pos \in Nat,
               size > 0 => Multiple(pos) /\ cur = pos /\ pos + size <= m_capacity
        PROVE  FileLoop[[cur |-> cur, pos |-> pos, read_size |-> size, bad |-> FALSE]]
                 = [cells |-> [i \in 1..size |-> pos + i - 1], ok |-> TRUE]
    <3> DEFINE f == [cur |-> cur, pos |-> pos, read_size |-> size, bad |-> FALSE]
    <3>1. /\ f \in FileStates /\ f.cur = cur /\ f.pos = pos /\ f.read_size = size /\ ~f.bad
          /\ Base \in Nat \ {0} /\ size \in Nat
      BY <2>2, FirstNode DEF FileStates
    <3>2. FileLoop[f] = FileStep(FileLoop, f)
      BY <3>1, FileUnfolds, Zenon
    <3> HIDE DEF f, bad
    <3>3. CASE size = 0
      <4>1. f.read_size <= 0
        BY <3>1, <3>3
      <4>2. FileLoop[f] = [cells |-> <<>>, ok |-> TRUE]
        BY <3>2, <4>1, Zenon DEF FileStep
      <4>3. <<>> = [i \in 1..size |-> pos + i - 1]
        BY <3>3
      <4> QED BY <4>2, <4>3, Zenon DEF f
    <3>4. CASE size # 0
      <4> DEFINE len == Smaller(size, Base)
                 n == size - len
      <4>1. Multiple(pos) /\ cur = pos /\ pos + size <= m_capacity /\ cur # Null
        BY <2>4, <3>1, <3>4 DEF Null
      <4>2. pos % Base = 0
        <5>1. 0 \in 0..(Base - 1) /\ pos + 0 = pos
          BY <3>1
        <5> QED BY <4>1, <5>1, NodeSteps, Zenon
      <4>3. FileLen(f) = len /\ len \in Nat /\ len > 0 /\ n \in Nat /\ n < size /\ len + n = size /\ (n > 0 => len = Base)
        BY <3>1, <3>4, <4>2 DEF FileLen, Smaller
      <4> HIDE DEF len, n
      <4> DEFINE next == NextNode(cur, m_capacity)
                 v == [cur |-> next, pos |-> pos + len, read_size |-> n, bad |-> FALSE]
      <4>4. FileNext(f) = v
        <5>1. size - len = n
          BY DEF n
        <5>2. (f.bad \/ FileLen(f) < 0) = FALSE
          BY <3>1, <4>3
        <5> QED BY <3>1, <4>3, <5>1, <5>2, Zenon DEF FileNext
      <4>5. FileLoop[f] = Prepended(FileLoop[v], [i \in 1..len |-> pos + i - 1])
        <5>1. ~(f.read_size <= 0) /\ f.cur # Null /\ ~(f.bad \/ FileLen(f) < 0)
          BY <3>1, <3>4, <4>1, <4>3
        <5>2. FileLoop[f] = Prepended(FileLoop[FileNext(f)], [i \in 1..FileLen(f) |-> f.cur + (f.pos % Base) + i - 1])
          BY <3>2, <5>1, Zenon DEF FileStep
        <5>3. [i \in 1..FileLen(f) |-> f.cur + (f.pos % Base) + i - 1] = [i \in 1..len |-> pos + i - 1]
          BY <3>1, <4>1, <4>2, <4>3
        <5> QED BY <4>4, <5>2, <5>3, Zenon
      <4>6. next \in Nodes(m_capacity) /\ pos + len \in Nat
        BY <4>1, <4>3, NextIsNearer
      <4>7. n > 0 => Multiple(pos + len) /\ next = pos + len /\ pos + len + n <= m_capacity
        <5>1. Multiple(pos + Base)
          BY <4>1, NodeSteps, Zenon
        <5>2. n > 0 => pos + Base < m_capacity /\ pos + len + n <= m_capacity
          BY <3>1, <4>1, <4>3
        <5> QED BY <4>1, <4>3, <5>1, <5>2, Zenon DEF NextNode
      <4> HIDE DEF next
      <4>8. FileLoop[v] = [cells |-> [i \in 1..n |-> (pos + len) + i - 1], ok |-> TRUE]
        BY <2>3, <4>3, <4>6, <4>7
      <4>9. [i \in 1..len |-> pos + i - 1] \o [i \in 1..n |-> (pos + len) + i - 1] = [i \in 1..size |-> pos + i - 1]
        BY <4>3, Stretches, ZenonT(60)
      <4>10. FileLoop[f] = [cells |-> [i \in 1..size |-> pos + i - 1], ok |-> TRUE]
        <5> DEFINE q == FileLoop[v]
                   c == [i \in 1..n |-> (pos + len) + i - 1]
                   d == [i \in 1..len |-> pos + i - 1]
        <5>1. q = [cells |-> c, ok |-> TRUE] /\ FileLoop[f] = Prepended(q, d)
          BY <4>5, <4>8, Zenon
        <5> HIDE DEF q, c, d
        <5>2. FileLoop[f] = [cells |-> d \o c, ok |-> TRUE]
          BY <5>1, Zenon DEF Prepended
        <5> QED BY <4>9, <5>2, Zenon DEF c, d
      <4> QED BY <4>10, Zenon DEF f
    <3> QED BY <3>3, <3>4, Zenon
  <2> QED BY <2>2, <2>4, Zenon
<1>2. \A n \in Nat : Right(n)
  BY <1>1, Zenon
<1> QED BY <1>2, Zenon

(***************************************************************************)
(* The inductive invariant: whole nodes, a position within the data, and a  *)
(* current node that is the node of the position.                           *)
(***************************************************************************)
Extent ==
    /\ m_capacity \in Nat /\ Multiple(m_capacity) /\ Base <= m_capacity /\ m_capacity <= MaxSize
    /\ m_size \in Nat /\ m_size <= m_capacity
    /\ m_position \in Nat /\ m_position <= m_size

BInv ==
    /\ Extent
    /\ mem \in [0..(m_capacity - 1) -> Bytes]
    /\ m_cur = NodeAt(m_position, m_capacity)
    /\ crashed = FALSE

\* The loop from a position of the list, where the bytes fit.
LEMMA SweepFrom ==
    ASSUME NEW cap \in Nat, Multiple(cap), NEW p \in Nat, p < cap, NEW size \in Nat, p + size <= cap
    PROVE  WalkFrom(NodeAt(p, cap), p, size, cap) = Swept(p, size, cap)
<1>1. /\ p % Base \in 0..(Base - 1) /\ Multiple(NodeOf(p)) /\ NodeOf(p) \in Nat
      /\ p = NodeOf(p) + (p % Base) /\ Base \in Nat \ {0}
  BY NodeFacts, FirstNode, Zenon
<1> DEFINE c == NodeOf(p)
           r == p % Base
<1>2. c \in Nat /\ Multiple(c) /\ r \in 0..(Base - 1) /\ p = c + r
  BY <1>1
<1>3. WalkFrom(NodeAt(p, cap), p, size, cap) = Walk(cap)[[cur |-> c, npos |-> r, size |-> size]]
  BY DEF WalkFrom, NodeAt
<1> HIDE DEF c, r
<1>4. c < cap /\ c + r + size <= cap
  BY <1>1, <1>2
<1>5. Walk(cap)[[cur |-> c, npos |-> r, size |-> size]] = Swept(c + r, size, cap)
  BY <1>2, <1>4, WalkSweeps
<1> QED BY <1>2, <1>3, <1>5, Zenon

\* setPosition() finds the node of the position.
LEMMA CurAtIsNode ==
    ASSUME NEW cap \in Nat, Multiple(cap), Base <= cap, NEW v \in Nat, v <= cap
    PROVE  CurAt(v, cap) = NodeAt(v, cap)
<1>1. /\ v % Base \in 0..(Base - 1) /\ NodeOf(v) = v - (v % Base) /\ Base \in Nat \ {0}
  BY NodeFacts, FirstNode, Zenon DEF NodeOf
<1>2. CASE v = 0
  <2>1. NodeOf(0) = 0
    <3>1. 0 \in 0..(Base - 1) /\ 0 + 0 = 0 /\ 0 \in Nat
      BY <1>1
    <3> QED BY <3>1, FirstNode, NodeSteps, ZenonT(60)
  <2>2. 0 < cap
    BY <1>1
  <2> QED BY <1>2, <2>1, <2>2, Zenon DEF CurAt, NodeAt
<1>3. CASE v # 0 /\ v % Base = 0
  <2>1. NodeOf(v) = v /\ (v - Base) + Base = v
    BY <1>1, <1>3
  <2> QED BY <1>3, <2>1, Zenon DEF CurAt, NodeAt, NextNode
<1>4. CASE v # 0 /\ v % Base # 0
  <2>1. cap % Base = 0
    <3>1. 0 \in 0..(Base - 1) /\ cap + 0 = cap
      BY <1>1
    <3> QED BY <3>1, NodeSteps, Zenon
  <2>2. v < cap
    BY <1>4, <2>1
  <2> QED BY <1>4, <2>2, Zenon DEF CurAt, NodeAt
<1> QED BY <1>2, <1>3, <1>4, Zenon

\* addCapacity() adds whole nodes, enough of them, and keeps the current node the
\* node of the position also when the array was full.
LEMMA GrowsEnough ==
    ASSUME Extent, m_cur = NodeAt(m_position, m_capacity),
           NEW size \in Nat, size > 0, NEW cap, cap = Grown(size)
    PROVE  /\ cap \in Nat /\ Multiple(cap) /\ m_capacity <= cap
           /\ m_position < cap /\ m_position + size <= cap
           /\ CurAfter(cap) = NodeAt(m_position, cap)
<1>1. /\ Base \in Nat \ {0} /\ m_capacity \in Nat /\ m_position \in Nat /\ m_position <= m_capacity
      /\ Multiple(m_capacity)
  BY FirstNode DEF Extent
<1>2. CASE m_capacity - m_position >= size
  <2>1. cap = m_capacity
    BY <1>2 DEF Grown
  <2>2. CurAfter(cap) = m_cur
    BY <1>1, <2>1 DEF CurAfter
  <2> QED BY <1>1, <1>2, <2>1, <2>2
<1>3. CASE ~(m_capacity - m_position >= size)
  <2> DEFINE x == size - (m_capacity - m_position) + Base - 1
             count == x \div Base
  <2>1. cap = m_capacity + count * Base
    BY <1>3, Zenon DEF Grown
  <2>2. x \in Nat /\ x >= Base
    BY <1>1, <1>3
  <2> HIDE DEF x
  <2>3. x = Base * count + (x % Base) /\ x % Base \in 0..(Base - 1) /\ count \in Int
    BY <1>1, <2>2
  <2> DEFINE r == x % Base
  <2>4. x = Base * count + r /\ r \in 0..(Base - 1)
    BY <2>3
  <2> HIDE DEF count, r
  <2>5. Base * count \in Int /\ Base * count = count * Base
    BY <1>1, <2>3
  <2> DEFINE y == Base * count
  <2>6. y \in Int /\ cap = m_capacity + y /\ x = y + r
    BY <2>1, <2>4, <2>5, Zenon
  <2> HIDE DEF y
  <2>7. y > 0 /\ y >= size - (m_capacity - m_position)
    BY <1>1, <2>2, <2>4, <2>6 DEF x
  <2>8. cap \in Nat /\ m_capacity < cap /\ m_position < cap /\ m_position + size <= cap
    BY <1>1, <1>3, <2>6, <2>7
  <2>9. Multiple(cap)
    <3>1. PICK q \in Int : m_capacity = Base * q
      BY <1>1 DEF Multiple
    <3>2. cap = Base * (q + count) /\ q + count \in Int
      BY <1>1, <2>3, <2>6, <3>1 DEF y
    <3>3. cap \in Int
      BY <2>8
    <3> QED BY <3>2, <3>3, Zenon DEF Multiple
  <2>10. cap > m_capacity /\ m_capacity <= cap
    BY <1>1, <2>8
  <2>11. CASE m_capacity = m_position
    <3>1. NodeOf(m_position) = m_position
      <4>1. 0 \in 0..(Base - 1) /\ m_position + 0 = m_position
        BY <1>1
      <4> QED BY <1>1, <2>11, <4>1, NodeSteps, Zenon
    <3>2. CurAfter(cap) = NodeAt(m_position, cap)
      BY <2>8, <2>11, <2>10, <3>1, Zenon DEF CurAfter, NodeAt
    <3> QED BY <2>8, <2>9, <2>10, <3>2, Zenon
  <2>12. CASE m_capacity # m_position
    <3>1. m_position < m_capacity
      BY <1>1, <2>12
    <3>2. CurAfter(cap) = NodeAt(m_position, cap)
      BY <2>8, <2>12, <3>1, Zenon DEF CurAfter, NodeAt
    <3> QED BY <2>8, <2>9, <2>10, <3>2, Zenon
  <2> QED BY <2>11, <2>12, Zenon
<1> QED BY <1>2, <1>3, Zenon

(***************************************************************************)
(* The memory and the stream.                                               *)
(***************************************************************************)
\* The data is a sequence of bytes of length m_size.
LEMMA DataIsSeq ==
    ASSUME BInv
    PROVE  /\ Data \in Seq(Bytes) /\ Len(Data) = m_size
           /\ \A i \in 1..m_size : Data[i] = mem[i - 1] /\ Data[i] \in Bytes
<1>1. m_size \in Nat /\ m_capacity \in Nat /\ m_size <= m_capacity /\ mem \in [0..(m_capacity - 1) -> Bytes]
  BY DEF BInv, Extent
<1>2. ASSUME NEW i \in 1..m_size PROVE mem[i - 1] \in Bytes
  <2>1. i - 1 \in 0..(m_capacity - 1)
    BY <1>1
  <2> QED BY <1>1, <2>1
<1> QED BY <1>1, <1>2 DEF Data

\* The bytes at the offsets the loops walked over.
Fetched(n, cells) == [i \in 1..n |-> mem[cells[i]]]

\* The bytes at a stretch of offsets within the data are a piece of the stream.
LEMMA Delivers ==
    ASSUME BInv, NEW p \in Nat, NEW n \in Nat, p + n <= m_size, NEW cells, \A i \in 1..n : cells[i] = p + i - 1
    PROVE  Fetched(n, cells) = SubSeq(Data, p + 1, p + n)
<1> DEFINE a == [i \in 1..n |-> mem[cells[i]]]
           b == SubSeq(Data, p + 1, p + n)
<1>1. /\ m_size \in Nat /\ Data \in Seq(Bytes) /\ Len(Data) = m_size
      /\ \A i \in 1..m_size : Data[i] = mem[i - 1] /\ Data[i] \in Bytes
  BY DataIsSeq, Zenon DEF BInv, Extent
<1>2. \A i \in (p + 1)..(p + n) : Data[i] \in Bytes
  BY <1>1
<1>3. /\ b \in Seq(Bytes)
      /\ Len(b) = IF p + 1 <= p + n THEN (p + n) - (p + 1) + 1 ELSE 0
      /\ \A i \in 1..((p + n) - (p + 1) + 1) : b[i] = Data[(p + 1) + i - 1]
  <2> DEFINE d == Data
             k == p + 1
             e == p + n
  <2>1. k \in Int /\ e \in Int /\ \A i \in k..e : d[i] \in Bytes
    BY <1>2
  <2> HIDE DEF d, k, e
  <2>2. /\ SubSeq(d, k, e) \in Seq(Bytes)
        /\ Len(SubSeq(d, k, e)) = IF k <= e THEN e - k + 1 ELSE 0
        /\ \A i \in 1..(e - k + 1) : SubSeq(d, k, e)[i] = d[k + i - 1]
    BY <2>1, SubSeqProperties
  <2> QED BY <2>2, Zenon DEF d, k, e
<1>4. Len(b) = n /\ (p + n) - (p + 1) + 1 = n
  BY <1>3
<1>5. ASSUME NEW i \in 1..n PROVE a[i] = b[i] /\ a[i] \in Bytes
  <2>1. cells[i] = p + i - 1 /\ (p + 1) + i - 1 = p + i /\ p + i \in 1..m_size
    BY <1>1
  <2>2. b[i] = Data[p + i]
    BY <1>3, <1>4, <2>1, Zenon
  <2>3. Data[p + i] = mem[p + i - 1] /\ Data[p + i] \in Bytes
    BY <1>1, <2>1
  <2> QED BY <2>1, <2>2, <2>3, ZenonT(60)
<1>6. a \in Seq(Bytes) /\ Len(a) = n
  <2>1. a \in [1..n -> Bytes]
    BY <1>5
  <2> HIDE DEF a
  <2> QED BY <2>1
<1> HIDE DEF a, b
<1>7. a = b
  BY <1>3, <1>4, <1>5, <1>6, SeqEqual, Zenon
<1> QED BY <1>7, Zenon DEF a, b, Fetched

\* Bytes v at offset p of a memory of cap bytes; what is new holds junk.
Stored(v, n, p, cap, junk) ==
    [a \in 0..(cap - 1) |-> IF p <= a /\ a < p + n THEN v[a - p + 1]
                            ELSE IF a < m_capacity THEN mem[a] ELSE junk[a]]

\* The loops store through the offsets they walked over: those from p on ...
LEMMA StoresThere ==
    ASSUME NEW p \in Nat, NEW n \in Nat, NEW a \in Nat, NEW cells,
           \A i \in 1..n : cells[i] = p + i - 1
    PROVE  (\E i \in 1..n : cells[i] = a) <=> (p <= a /\ a < p + n)
<1>1. ASSUME NEW i \in 1..n, cells[i] = a PROVE p <= a /\ a < p + n
  BY <1>1
<1>2. ASSUME p <= a, a < p + n
      PROVE  a - p + 1 \in 1..n /\ cells[a - p + 1] = a
  <2>1. a - p + 1 \in 1..n /\ p + (a - p + 1) - 1 = a
    BY <1>2
  <2> QED BY <2>1
<1> QED BY <1>1, <1>2, Zenon

\* ... each of them the byte at its place.
LEMMA StoresInOrder ==
    ASSUME NEW p \in Nat, NEW n \in Nat, NEW a \in Nat, NEW cells,
           \A i \in 1..n : cells[i] = p + i - 1, p <= a, a < p + n
    PROVE  (CHOOSE i \in 1..n : cells[i] = a) = a - p + 1
<1> DEFINE c == CHOOSE i \in 1..n : cells[i] = a
<1>1. a - p + 1 \in 1..n /\ cells[a - p + 1] = a
  <2>1. a - p + 1 \in 1..n /\ p + (a - p + 1) - 1 = a
    OBVIOUS
  <2> QED BY <2>1
<1>2. c \in 1..n /\ cells[c] = a
  BY <1>1
<1> HIDE DEF c
<1>3. c = a - p + 1
  BY <1>2
<1> QED BY <1>3 DEF c

\* A store at the position is a write of the stream.
LEMMA StoreIsWrite ==
    ASSUME BInv, NEW n \in Nat, NEW v \in [1..n -> Bytes], NEW cap \in Nat,
           m_capacity <= cap, m_position + n <= cap,
           NEW junk \in [m_capacity..(cap - 1) -> Bytes],
           mem' = Stored(v, n, m_position, cap, junk),
           m_position' = m_position + n, m_size' = Larger(m_size, m_position + n), out' = <<>>
    PROVE  /\ mem' \in [0..(cap - 1) -> Bytes]
           /\ m_size' \in Nat /\ m_size' <= cap /\ m_position' \in Nat /\ m_position' <= m_size'
           /\ Stream!Write(v)
<1>1. /\ m_size \in Nat /\ m_position \in Nat /\ m_capacity \in Nat /\ m_position <= m_size /\ m_size <= m_capacity
      /\ mem \in [0..(m_capacity - 1) -> Bytes]
  BY DEF BInv, Extent
<1>2. ASSUME NEW a \in 0..(cap - 1) PROVE mem'[a] \in Bytes
  <2>1. CASE m_position <= a /\ a < m_position + n
    <3>1. a - m_position + 1 \in 1..n
      BY <1>1, <2>1
    <3> QED BY <2>1, <3>1, Zenon DEF Stored
  <2>2. CASE ~(m_position <= a /\ a < m_position + n) /\ a < m_capacity
    <3>1. a \in 0..(m_capacity - 1)
      BY <1>1, <2>2
    <3> QED BY <1>1, <2>2, <3>1, Zenon DEF Stored
  <2>3. CASE ~(m_position <= a /\ a < m_position + n) /\ ~(a < m_capacity)
    <3>1. a \in m_capacity..(cap - 1)
      BY <1>1, <2>3
    <3> QED BY <2>3, <3>1, Zenon DEF Stored
  <2> QED BY <2>1, <2>2, <2>3, Zenon
<1>3. mem' \in [0..(cap - 1) -> Bytes]
  BY <1>2, Zenon DEF Stored
<1>4. m_size' \in Nat /\ m_size' <= cap /\ m_position' \in Nat /\ m_position' <= m_size'
  BY <1>1 DEF Larger
<1>5. Len(v) = n /\ Len(Data) = m_size /\ \A i \in 1..m_size : Data[i] = mem[i - 1]
  BY DataIsSeq
<1>6. m_size' = IF m_position + Len(v) > Len(Data) THEN m_position + Len(v) ELSE Len(Data)
  BY <1>1, <1>5 DEF Larger
<1>7. ASSUME NEW i \in 1..m_size'
      PROVE  mem'[i - 1] = IF i > m_position /\ i <= m_position + Len(v) THEN v[i - m_position] ELSE Data[i]
  <2>1. i - 1 \in 0..(cap - 1)
    BY <1>4
  <2>2. CASE i > m_position /\ i <= m_position + n
    <3>1. m_position <= i - 1 /\ i - 1 < m_position + n /\ i - 1 - m_position + 1 = i - m_position
      BY <1>1, <2>2
    <3>2. mem'[i - 1] = v[i - 1 - m_position + 1]
      BY <2>1, <3>1, Zenon DEF Stored
    <3> QED BY <1>5, <2>2, <3>1, <3>2, Zenon
  <2>3. CASE ~(i > m_position /\ i <= m_position + n)
    <3>1. ~(m_position <= i - 1 /\ i - 1 < m_position + n) /\ i \in 1..m_size /\ i - 1 < m_capacity
      BY <1>1, <2>3 DEF Larger
    <3>2. mem'[i - 1] = mem[i - 1]
      BY <2>1, <3>1, Zenon DEF Stored
    <3> QED BY <1>5, <2>3, <3>1, <3>2, Zenon
  <2> QED BY <2>2, <2>3, Zenon
<1>8. Data' = [i \in 1..m_size' |-> mem'[i - 1]]
  BY DEF Data
<1>9. Data' = Stream!Overwritten(v)
  BY <1>6, <1>7, <1>8, Zenon DEF Stream!Overwritten
<1>10. m_position' = m_position + Len(v)
  BY <1>5, Zenon
<1> QED BY <1>3, <1>4, <1>9, <1>10, Zenon DEF Stream!Write

(***************************************************************************)
(* Each operation keeps the invariant and is an operation of the stream.    *)
(***************************************************************************)
\* write() of any bytes at any position.
LEMMA WriteStep ==
    ASSUME BInv, NEW n \in Nat, NEW v \in [1..n -> Bytes], Write(v)
    PROVE  BInv' /\ Stream!Write(v)
<1> DEFINE cap == Grown(Len(v))
           walk == Here(Len(v), cap, CurAfter(cap))
           cells == walk.cells
<1>1. Len(v) = n
  OBVIOUS
<1>2. PICK junk \in [m_capacity..(cap - 1) -> Bytes] :
         mem' = [a \in 0..(cap - 1) |->
                   IF \E i \in DOMAIN cells : cells[i] = a
                   THEN v[CHOOSE i \in DOMAIN cells : cells[i] = a]
                   ELSE IF a < m_capacity THEN mem[a] ELSE junk[a]]
  BY Zenon DEF Write
<1>3. /\ n > 0 /\ cap <= MaxSize /\ m_capacity' = cap /\ m_cur' = walk.cur
      /\ m_position' = m_position + n /\ m_size' = Larger(m_size, m_position + n)
      /\ crashed' = ~walk.ok /\ out' = <<>>
  BY <1>1, Zenon DEF Write, SizeAfter
<1>4. Extent /\ m_cur = NodeAt(m_position, m_capacity) /\ m_position \in Nat /\ m_capacity \in Nat /\ Base <= m_capacity
  BY DEF BInv, Extent
<1>5. /\ cap \in Nat /\ Multiple(cap) /\ m_capacity <= cap /\ m_position < cap /\ m_position + n <= cap
      /\ CurAfter(cap) = NodeAt(m_position, cap)
  BY <1>1, <1>3, <1>4, GrowsEnough, Zenon
<1> HIDE DEF cap
<1>6. walk = Swept(m_position, n, cap)
  BY <1>1, <1>4, <1>5, SweepFrom, Zenon DEF Here
<1>7. cells = [i \in 1..n |-> m_position + i - 1] /\ walk.cur = NodeAt(m_position + n, cap) /\ walk.ok = TRUE
  BY <1>6 DEF Swept
<1> HIDE DEF cells, walk
<1>8. DOMAIN cells = 1..n /\ \A i \in 1..n : cells[i] = m_position + i - 1
  BY <1>7
<1>9. mem' = Stored(v, n, m_position, cap, junk)
  <2>1. ASSUME NEW a \in 0..(cap - 1)
        PROVE  /\ (\E i \in DOMAIN cells : cells[i] = a) <=> (m_position <= a /\ a < m_position + n)
               /\ m_position <= a /\ a < m_position + n
                    => v[CHOOSE i \in DOMAIN cells : cells[i] = a] = v[a - m_position + 1]
    <3>1. a \in Nat
      BY <1>5
    <3>2. /\ (\E i \in 1..n : cells[i] = a) <=> (m_position <= a /\ a < m_position + n)
          /\ m_position <= a /\ a < m_position + n
               => v[CHOOSE i \in 1..n : cells[i] = a] = v[a - m_position + 1]
      <4> DEFINE c == CHOOSE i \in 1..n : cells[i] = a
      <4>1. (\E i \in 1..n : cells[i] = a) <=> (m_position <= a /\ a < m_position + n)
        BY <1>4, <1>8, <3>1, StoresThere, Zenon
      <4>2. m_position <= a /\ a < m_position + n => c = a - m_position + 1
        BY <1>4, <1>8, <3>1, StoresInOrder
      <4> QED BY <4>1, <4>2, Zenon
    <3> QED BY <1>8, <3>2, Zenon
  <2> QED BY <1>2, <2>1, Zenon DEF Stored
<1>10. /\ mem' \in [0..(cap - 1) -> Bytes]
       /\ m_size' \in Nat /\ m_size' <= cap /\ m_position' \in Nat /\ m_position' <= m_size'
       /\ Stream!Write(v)
  BY <1>3, <1>5, <1>9, StoreIsWrite, Zenon
<1>11. Multiple(m_capacity)' /\ NodeAt(m_position, m_capacity)' = NodeAt(m_position + n, cap)
  BY <1>3, <1>5, Zenon DEF Multiple, NodeAt, NodeOf
<1>12. Base <= cap
  BY <1>4, <1>5, FirstNode
<1>13. Extent'
  BY <1>3, <1>5, <1>10, <1>11, <1>12, Zenon DEF Extent
<1>14. BInv'
  BY <1>3, <1>7, <1>10, <1>11, <1>13, Zenon DEF BInv
<1> QED BY <1>10, <1>14, Zenon

\* getWriteBuffers(), recv() and setPosition().
LEMMA FillStep ==
    ASSUME BInv, NEW n \in Nat, NEW v \in [1..n -> Bytes], NEW len \in Nat, Fill(len, v)
    PROVE  BInv' /\ Stream!Write(v)
<1> DEFINE cap == Grown(len)
           walk == Here(len, cap, CurAfter(cap))
           cells == walk.cells
<1>1. Len(v) = n
  OBVIOUS
<1>2. PICK junk \in [m_capacity..(cap - 1) -> Bytes] :
         mem' = [a \in 0..(cap - 1) |->
                   IF \E i \in 1..Len(v) : cells[i] = a
                   THEN v[CHOOSE i \in 1..Len(v) : cells[i] = a]
                   ELSE IF a < m_capacity THEN mem[a] ELSE junk[a]]
  BY Zenon DEF Fill
<1>3. /\ len > 0 /\ n <= len /\ cap <= MaxSize /\ m_capacity' = cap
      /\ m_cur' = IF v = <<>> THEN CurAfter(cap) ELSE CurAt(m_position + n, cap)
      /\ m_position' = m_position + n /\ m_size' = Larger(m_size, m_position + n)
      /\ crashed' = ~walk.ok /\ out' = <<>>
  BY <1>1, Zenon DEF Fill
<1>4. Extent /\ m_cur = NodeAt(m_position, m_capacity) /\ m_position \in Nat /\ m_capacity \in Nat /\ Base <= m_capacity
  BY DEF BInv, Extent
<1>5. /\ cap \in Nat /\ Multiple(cap) /\ m_capacity <= cap /\ m_position < cap /\ m_position + len <= cap
      /\ CurAfter(cap) = NodeAt(m_position, cap)
  BY <1>3, <1>4, GrowsEnough, Zenon
<1> HIDE DEF cap
<1>6. walk = Swept(m_position, len, cap)
  BY <1>4, <1>5, SweepFrom, Zenon DEF Here
<1>7. cells = [i \in 1..len |-> m_position + i - 1] /\ walk.ok = TRUE
  BY <1>6 DEF Swept
<1> HIDE DEF cells, walk
<1>8. \A i \in 1..n : cells[i] = m_position + i - 1
  BY <1>3, <1>7
<1>9. mem' = Stored(v, n, m_position, cap, junk)
  <2>1. ASSUME NEW a \in 0..(cap - 1)
        PROVE  /\ (\E i \in 1..n : cells[i] = a) <=> (m_position <= a /\ a < m_position + n)
               /\ m_position <= a /\ a < m_position + n
                    => v[CHOOSE i \in 1..n : cells[i] = a] = v[a - m_position + 1]
    <3>1. a \in Nat
      BY <1>5
    <3> DEFINE c == CHOOSE i \in 1..n : cells[i] = a
    <3>2. (\E i \in 1..n : cells[i] = a) <=> (m_position <= a /\ a < m_position + n)
      BY <1>4, <1>8, <3>1, StoresThere, Zenon
    <3>3. m_position <= a /\ a < m_position + n => c = a - m_position + 1
      BY <1>4, <1>8, <3>1, StoresInOrder
    <3> QED BY <3>2, <3>3, Zenon
  <2> QED BY <1>1, <1>2, <2>1, SMTT(30) DEF Stored
<1>10. Base <= cap /\ m_position + n <= cap /\ m_position + n \in Nat
  BY <1>3, <1>4, <1>5, FirstNode
<1>11. /\ mem' \in [0..(cap - 1) -> Bytes]
       /\ m_size' \in Nat /\ m_size' <= cap /\ m_position' \in Nat /\ m_position' <= m_size'
       /\ Stream!Write(v)
  BY <1>3, <1>5, <1>9, <1>10, StoreIsWrite, Zenon
<1>12. Multiple(m_capacity)' /\ NodeAt(m_position, m_capacity)' = NodeAt(m_position + n, cap)
  BY <1>3, <1>5, Zenon DEF Multiple, NodeAt, NodeOf
<1>13. m_cur' = NodeAt(m_position + n, cap)
  <2>1. CASE v = <<>>
    <3>1. n = 0 /\ m_position + n = m_position
      BY <1>1, <1>4, <2>1
    <3> QED BY <1>3, <1>5, <2>1, <3>1, Zenon
  <2>2. CASE v # <<>>
    BY <1>3, <1>5, <1>10, <2>2, CurAtIsNode, Zenon
  <2> QED BY <2>1, <2>2, Zenon
<1>14. Extent'
  BY <1>3, <1>5, <1>10, <1>11, <1>12, Zenon DEF Extent
<1>15. BInv'
  BY <1>3, <1>7, <1>11, <1>12, <1>13, <1>14, ZenonT(60) DEF BInv
<1> QED BY <1>11, <1>15, Zenon

\* A call that throws, or that only delivers, leaves the array alone.
LEMMA StoreStays ==
    ASSUME BInv, UNCHANGED store, crashed' = FALSE
    PROVE  BInv' /\ Data' = Data
BY DEF BInv, Extent, store, Multiple, NodeAt, NodeOf, Data

\* A step that moves the position, and the node with it, within the data.
LEMMA PositionMoves ==
    ASSUME BInv, UNCHANGED <<mem, m_capacity, m_size>>, crashed' = FALSE,
           m_position' \in Nat, m_position' <= m_size, m_cur' = NodeAt(m_position', m_capacity)
    PROVE  BInv' /\ Data' = Data
BY DEF BInv, Extent, Multiple, NodeAt, NodeOf, Data

\* setPosition() within the capacity, or it throws.
LEMMA SetPositionStep ==
    ASSUME BInv, NEW v \in Nat, SetPosition(v)
    PROVE  BInv' /\ Stream!SetPosition(v)
<1>1. Extent /\ mem \in [0..(m_capacity - 1) -> Bytes] /\ crashed = FALSE
  BY DEF BInv
<1>2. CASE out' = <<"throws">> /\ UNCHANGED <<store, crashed>>
  <2>1. BInv' /\ Data' = Data
    BY <1>1, <1>2, StoreStays, Zenon
  <2> QED BY <1>2, <2>1, Zenon DEF Stream!SetPosition, store
<1>3. CASE /\ v <= m_capacity /\ m_position' = v /\ m_size' = Larger(m_size, v)
           /\ m_cur' = CurAt(v, m_capacity) /\ out' = <<>> /\ UNCHANGED <<mem, m_capacity, crashed>>
  <2>1. m_cur' = NodeAt(v, m_capacity)
    BY <1>1, <1>3, CurAtIsNode, Zenon DEF Extent
  <2>2. m_size' \in Nat /\ m_size' <= m_capacity /\ v <= m_size' /\ m_size <= m_size' /\ m_size \in Nat /\ m_capacity \in Nat
    BY <1>1, <1>3 DEF Extent, Larger
  <2>3. Extent'
    BY <1>1, <1>3, <2>2, Zenon DEF Extent, Multiple
  <2>4. BInv'
    BY <1>1, <1>3, <2>1, <2>3, Zenon DEF BInv, NodeAt, NodeOf
  <2>5. Len(Data) = m_size /\ DOMAIN Data = 1..m_size /\ m_size' = IF v > Len(Data) THEN v ELSE Len(Data)
    BY <1>3, <2>2, DataIsSeq DEF Larger, Data
  <2>6. Data' = [i \in 1..m_size' |-> mem[i - 1]]
    BY <1>3 DEF Data
  <2>7. ASSUME NEW i \in 1..m_size' PROVE mem[i - 1] \in Bytes
    <3>1. i - 1 \in 0..(m_capacity - 1)
      BY <2>2
    <3> QED BY <1>1, <3>1, Zenon
  <2>8. Data' \in [1..(IF v > Len(Data) THEN v ELSE Len(Data)) -> Bytes]
    BY <2>5, <2>6, <2>7, Zenon
  <2>9. \A i \in DOMAIN Data : Data'[i] = Data[i]
    BY <2>2, <2>5, <2>6 DEF Data
  <2> QED BY <1>3, <2>4, <2>8, <2>9, Zenon DEF Stream!SetPosition
<1> QED BY <1>2, <1>3, Zenon DEF SetPosition

\* clear() keeps the first node.
LEMMA ClearStep ==
    ASSUME BInv, Clear
    PROVE  BInv' /\ Stream!Clear
<1>1. /\ Base \in Nat \ {0} /\ Multiple(Base) /\ Base <= MaxSize /\ Base <= m_capacity /\ m_capacity \in Nat
      /\ mem \in [0..(m_capacity - 1) -> Bytes] /\ crashed = FALSE
  BY FirstNode, ByteArrayAssumption, Zenon DEF BInv, Extent
<1>2. /\ mem' = [a \in 0..(Base - 1) |-> mem[a]] /\ m_capacity' = Base /\ m_size' = 0
      /\ m_position' = 0 /\ m_cur' = 0 /\ out' = <<>> /\ crashed' = crashed
  BY DEF Clear
<1>3. mem' \in [0..(Base - 1) -> Bytes]
  BY <1>1, <1>2
<1>4. NodeAt(0, Base) = 0
  <2>1. 0 \in 0..(Base - 1) /\ 0 + 0 = 0 /\ 0 < Base /\ 0 \in Nat
    BY <1>1
  <2> QED BY <2>1, FirstNode, NodeSteps, ZenonT(30) DEF NodeAt
<1>5. NodeAt(m_position, m_capacity)' = NodeAt(0, Base)
  BY <1>2 DEF NodeAt, NodeOf
<1>6. Extent'
  BY <1>1, <1>2 DEF Extent, Multiple
<1>7. BInv'
  BY <1>1, <1>2, <1>3, <1>4, <1>5, <1>6, Zenon DEF BInv
<1>8. Data' = <<>>
  BY <1>2 DEF Data
<1> QED BY <1>2, <1>7, <1>8, Zenon DEF Stream!Clear

\* read() delivers the bytes from the position on and moves it behind them.
LEMMA ReadStep ==
    ASSUME Uses = {}, BInv, NEW size \in Nat, Read(size)
    PROVE  BInv' /\ Stream!Read(size)
<1>1. /\ Extent /\ m_cur = NodeAt(m_position, m_capacity) /\ crashed = FALSE
      /\ m_size \in Nat /\ m_position \in Nat /\ m_capacity \in Nat /\ Multiple(m_capacity)
      /\ m_position <= m_size /\ m_size <= m_capacity /\ Len(Data) = m_size
  BY DataIsSeq, Zenon DEF BInv, Extent
<1>2. CASE size > GetReadSize /\ out' = <<"throws">> /\ UNCHANGED <<store, crashed>>
  <2>1. BInv' /\ Data' = Data
    BY <1>1, <1>2, StoreStays, Zenon
  <2>2. size > Len(Data) - m_position /\ m_position' = m_position
    BY <1>1, <1>2, Zenon DEF GetReadSize, store
  <2> QED BY <1>2, <2>1, <2>2, Zenon DEF Stream!Read
<1> DEFINE walk == Here(size, m_capacity, m_cur)
           cells == walk.cells
<1>3. CASE /\ size <= GetReadSize /\ (size = 0 /\ m_cur = Null => "empty" \in Uses)
           /\ out' = [i \in DOMAIN cells |-> mem[cells[i]]] /\ m_position' = m_position + size
           /\ m_cur' = walk.cur /\ crashed' = ~walk.ok /\ UNCHANGED <<mem, m_capacity, m_size>>
  <2>1. m_position + size <= m_size /\ m_position + size <= m_capacity /\ m_position + size \in Nat
        /\ size <= Len(Data) - m_position
    BY <1>1, <1>3 DEF GetReadSize
  <2>2. m_position < m_capacity
    <3>1. size = 0 => m_cur # Null
      BY <1>3, Zenon
    <3>2. m_position < m_capacity \/ size = 0
      BY <1>1, <2>1
    <3> QED BY <1>1, <3>1, <3>2, Zenon DEF NodeAt
  <2>3. walk = Swept(m_position, size, m_capacity)
    BY <1>1, <2>1, <2>2, SweepFrom, Zenon DEF Here
  <2>4. /\ cells = [i \in 1..size |-> m_position + i - 1]
        /\ walk.cur = NodeAt(m_position + size, m_capacity) /\ walk.ok = TRUE
    BY <2>3 DEF Swept
  <2> HIDE DEF cells, walk
  <2>5. BInv' /\ Data' = Data
    BY <1>3, <2>1, <2>4, PositionMoves, Zenon
  <2>6. DOMAIN cells = 1..size
    BY <2>4
  <2>7. out' = SubSeq(Data, m_position + 1, m_position + size)
    <3>1. \A i \in 1..size : cells[i] = m_position + i - 1
      BY <2>4
    <3>2. Fetched(size, cells) = SubSeq(Data, m_position + 1, m_position + size)
      BY <1>1, <2>1, <3>1, Delivers, Zenon
    <3> QED BY <1>3, <2>6, <3>2, ZenonT(60) DEF Fetched
  <2> QED BY <1>3, <2>1, <2>5, <2>7, Zenon DEF Stream!Read
<1> QED BY <1>2, <1>3, Zenon DEF Read

\* read() at a position in the current node, and toString().
LEMMA ReadAtStep ==
    ASSUME Uses = {}, BInv, NEW size \in Nat, NEW p \in Nat, ReadAt(size, p)
    PROVE  BInv' /\ Stream!Peek(p, size)
<1>1. /\ Extent /\ m_cur = NodeAt(m_position, m_capacity) /\ crashed = FALSE
      /\ m_size \in Nat /\ m_position \in Nat /\ m_capacity \in Nat /\ Multiple(m_capacity)
      /\ m_position <= m_size /\ m_size <= m_capacity /\ Len(Data) = m_size
  BY DataIsSeq, Zenon DEF BInv, Extent
<1> DEFINE walk == WalkFrom(m_cur, p, size, m_capacity)
           cells == walk.cells
<1>2. /\ p <= m_size /\ size <= m_size - p /\ size > 0 /\ NodeOf(p) = NodeOf(m_position)
      /\ out' = [i \in DOMAIN cells |-> mem[cells[i]]] /\ crashed' = ~walk.ok /\ UNCHANGED store
  BY Zenon DEF ReadAt
<1>3. p + size <= m_size /\ p + size <= m_capacity /\ p < m_capacity
  BY <1>1, <1>2
<1>4. m_cur = NodeAt(p, m_capacity)
  <2>1. m_position < m_capacity
    <3>1. CASE m_position = m_capacity
      <4>1. NodeOf(m_position) = m_position
        <5>1. 0 \in 0..(Base - 1) /\ m_position + 0 = m_position
          BY <1>1, FirstNode
        <5> QED BY <1>1, <3>1, <5>1, NodeSteps, Zenon
      <4>2. p % Base \in 0..(Base - 1) /\ NodeOf(p) \in Nat /\ p = NodeOf(p) + (p % Base) /\ Base \in Nat
        BY NodeFacts, FirstNode, Zenon
      <4>3. NodeOf(p) <= p
        BY <4>2
      <4> QED BY <1>1, <1>2, <1>3, <3>1, <4>1, <4>2, <4>3
    <3> QED BY <1>1, <3>1
  <2> QED BY <1>1, <1>2, <1>3, <2>1, Zenon DEF NodeAt
<1>5. walk = Swept(p, size, m_capacity)
  BY <1>1, <1>3, <1>4, SweepFrom, Zenon
<1>6. cells = [i \in 1..size |-> p + i - 1] /\ walk.ok = TRUE
  BY <1>5 DEF Swept
<1> HIDE DEF cells, walk
<1>7. BInv' /\ Data' = Data
  BY <1>2, <1>6, StoreStays, Zenon
<1>8. DOMAIN cells = 1..size
  BY <1>6
<1>9. out' = SubSeq(Data, p + 1, p + size)
  <2>1. \A i \in 1..size : cells[i] = p + i - 1
    BY <1>6
  <2>2. Fetched(size, cells) = SubSeq(Data, p + 1, p + size)
    BY <1>3, <2>1, Delivers, Zenon
  <2> QED BY <1>2, <1>8, <2>2, Zenon DEF Fetched
<1> QED BY <1>1, <1>2, <1>3, <1>7, <1>9, Zenon DEF Stream!Peek, store

\* getReadBuffers(), send() and setPosition().
LEMMA SendOutStep ==
    ASSUME BInv, NEW len \in Nat, NEW n \in Nat, SendOut(len, n)
    PROVE  BInv' /\ Stream!Read(n)
<1>1. /\ Extent /\ m_cur = NodeAt(m_position, m_capacity) /\ crashed = FALSE
      /\ m_size \in Nat /\ m_position \in Nat /\ m_capacity \in Nat /\ Multiple(m_capacity) /\ Base <= m_capacity
      /\ m_position <= m_size /\ m_size <= m_capacity /\ Len(Data) = m_size
  BY DataIsSeq, Zenon DEF BInv, Extent
<1> DEFINE size == Smaller(len, GetReadSize)
           walk == Here(size, m_capacity, m_cur)
           cells == walk.cells
<1>2. /\ GetReadSize > 0 /\ n > 0 /\ n <= size /\ out' = [i \in 1..n |-> mem[cells[i]]]
      /\ m_position' = m_position + n /\ m_cur' = CurAt(m_position + n, m_capacity)
      /\ crashed' = ~walk.ok /\ UNCHANGED <<mem, m_capacity, m_size>>
  BY Zenon DEF SendOut
<1>3. /\ size \in Nat /\ m_position + size <= m_size /\ m_position + size <= m_capacity
      /\ m_position < m_capacity /\ m_position + n <= m_size /\ m_position + n \in Nat
      /\ m_position + n <= m_capacity /\ n <= Len(Data) - m_position
  BY <1>1, <1>2 DEF GetReadSize, Smaller
<1> HIDE DEF size
<1>4. walk = Swept(m_position, size, m_capacity)
  BY <1>1, <1>3, SweepFrom, ZenonT(60) DEF Here
<1>5. cells = [i \in 1..size |-> m_position + i - 1] /\ walk.ok = TRUE
  BY <1>4 DEF Swept
<1> HIDE DEF cells, walk
<1>6. m_cur' = NodeAt(m_position + n, m_capacity)
  BY <1>1, <1>2, <1>3, CurAtIsNode, Zenon
<1>7. BInv' /\ Data' = Data
  BY <1>2, <1>3, <1>5, <1>6, PositionMoves, ZenonT(60)
<1>8. \A i \in 1..n : cells[i] = m_position + i - 1
  BY <1>2, <1>3, <1>5
<1>9. Fetched(n, cells) = SubSeq(Data, m_position + 1, m_position + n)
  BY <1>1, <1>3, <1>8, Delivers, Zenon
<1>10. out' = SubSeq(Data, m_position + 1, m_position + n)
  BY <1>2, <1>9, Zenon DEF Fetched
<1> QED BY <1>2, <1>3, <1>7, <1>10, Zenon DEF Stream!Read

\* writeToFile() from the start of a node.
LEMMA WriteToFileStep ==
    ASSUME Uses = {}, BInv, WriteToFile
    PROVE  BInv' /\ Stream!Peek(m_position, m_size - m_position)
<1>1. /\ Extent /\ m_cur = NodeAt(m_position, m_capacity) /\ crashed = FALSE
      /\ m_size \in Nat /\ m_position \in Nat /\ m_capacity \in Nat /\ Multiple(m_capacity)
      /\ m_position <= m_size /\ m_size <= m_capacity /\ Len(Data) = m_size
  BY DataIsSeq, Zenon DEF BInv, Extent
<1> DEFINE size == m_size - m_position
           file == FileLoop[[cur |-> m_cur, pos |-> m_position, read_size |-> size, bad |-> FALSE]]
           cells == file.cells
<1>2. /\ m_position % Base = 0 /\ crashed' = ~file.ok /\ UNCHANGED store
      /\ out' = [i \in DOMAIN cells |-> mem[cells[i]]]
  BY Zenon DEF WriteToFile, GetReadSize
<1>3. size \in Nat /\ m_position + size = m_size
  BY <1>1
<1>4. NodeOf(m_position) = m_position /\ Multiple(m_position)
  <2>1. Multiple(NodeOf(m_position)) /\ NodeOf(m_position) \in Nat /\ m_position = NodeOf(m_position) + (m_position % Base)
    BY <1>1, NodeFacts, ZenonT(60)
  <2>2. NodeOf(m_position) = m_position
    BY <1>2, <2>1
  <2> QED BY <2>1, <2>2, Zenon
<1>5. m_cur \in Nodes(m_capacity)
  BY <1>1, <1>4 DEF NodeAt, Nodes
<1>6. size > 0 => m_cur = m_position /\ m_position + size <= m_capacity
  BY <1>1, <1>3, <1>4 DEF NodeAt
<1> HIDE DEF size
<1>7. file = [cells |-> [i \in 1..size |-> m_position + i - 1], ok |-> TRUE]
  BY <1>1, <1>3, <1>4, <1>5, <1>6, FileSweeps, ZenonT(60)
<1>8. cells = [i \in 1..size |-> m_position + i - 1] /\ file.ok = TRUE
  BY <1>7
<1> HIDE DEF cells, file
<1>9. BInv' /\ Data' = Data
  BY <1>2, <1>8, StoreStays, ZenonT(60)
<1>10. DOMAIN cells = 1..size
  BY <1>8
<1>11. out' = SubSeq(Data, m_position + 1, m_position + size)
  <2>1. m_position + size <= m_size
    BY <1>1, <1>3
  <2>2. \A i \in 1..size : cells[i] = m_position + i - 1
    BY <1>8
  <2>3. Fetched(size, cells) = SubSeq(Data, m_position + 1, m_position + size)
    BY <1>1, <1>3, <2>1, <2>2, Delivers, Zenon
  <2> QED BY <1>2, <1>10, <2>3, Zenon DEF Fetched
<1>12. m_position + size <= Len(Data)
  BY <1>1, <1>3
<1> QED BY <1>2, <1>9, <1>11, <1>12, Zenon DEF Stream!Peek, store, size

(***************************************************************************)
(* The theorems.                                                            *)
(***************************************************************************)
\* A new array is empty, and its current node is the first.
LEMMA InitHolds == Init => BInv /\ Stream!Init
<1> SUFFICES ASSUME Init PROVE BInv /\ Stream!Init
  OBVIOUS
<1>1. Base \in Nat \ {0} /\ Multiple(Base) /\ Base <= MaxSize
  BY FirstNode, ByteArrayAssumption, Zenon
<1>2. NodeAt(0, Base) = 0
  <2>1. 0 \in 0..(Base - 1) /\ 0 + 0 = 0 /\ 0 < Base /\ 0 \in Nat
    BY <1>1
  <2> QED BY <2>1, FirstNode, NodeSteps, ZenonT(30) DEF NodeAt
<1>3. BInv
  BY <1>1, <1>2 DEF Init, BInv, Extent
<1>4. Data = <<>>
  BY DEF Init, Data
<1> QED BY <1>3, <1>4, Zenon DEF Init, Stream!Init

\* Every step keeps the invariant and is a step of the stream, or stutters.
LEMMA StepHolds ==
    ASSUME Uses = {}, BInv, [Next]_vars
    PROVE  BInv' /\ [Stream!Next]_(Stream!streamVars)
<1>1. MaxWrite \in Nat /\ MaxSize \in Nat
  BY ByteArrayAssumption
<1>2. ASSUME NEW n \in 0..MaxWrite, NEW v \in [1..n -> Bytes], Write(v) \/ \E len \in n..MaxWrite : Fill(len, v)
      PROVE  BInv' /\ Stream!Next
  <2>1. n \in Nat /\ \A len \in n..MaxWrite : len \in Nat
    BY <1>1
  <2>2. BInv' /\ Stream!Write(v)
    BY <1>2, <2>1, WriteStep, FillStep, Zenon
  <2> QED BY <2>2 DEF Stream!Next
<1>3. ASSUME NEW n \in 0..MaxWrite, Read(n) \/ \E len \in n..MaxWrite : SendOut(len, n)
      PROVE  BInv' /\ Stream!Next
  <2>1. n \in Nat /\ \A len \in n..MaxWrite : len \in Nat
    BY <1>1
  <2>2. BInv' /\ Stream!Read(n)
    BY <1>3, <2>1, ReadStep, SendOutStep, Zenon
  <2> QED BY <2>2 DEF Stream!Next
<1>4. ASSUME NEW p \in 0..(MaxSize + 1), SetPosition(p)
      PROVE  BInv' /\ Stream!Next
  <2>1. BInv' /\ Stream!SetPosition(p)
    BY <1>4, SetPositionStep
  <2> QED BY <2>1 DEF Stream!Next
<1>5. ASSUME NEW p \in 0..(MaxSize + 1), NEW n \in 0..MaxWrite, ReadAt(n, p)
      PROVE  BInv' /\ Stream!Next
  <2>1. BInv' /\ Stream!Peek(p, n)
    BY <1>5, ReadAtStep
  <2>2. n \in 0..(MaxSize + 1)
    BY <1>1, <1>5 DEF ReadAt, BInv, Extent
  <2> QED BY <2>1, <2>2, Zenon DEF Stream!Next
<1>6. ASSUME Clear PROVE BInv' /\ Stream!Next
  BY <1>6, ClearStep, Zenon DEF Stream!Next
<1>7. ASSUME WriteToFile PROVE BInv' /\ Stream!Next
  <2>1. BInv' /\ Stream!Peek(m_position, m_size - m_position)
    BY <1>7, WriteToFileStep, Zenon
  <2>2. m_position \in 0..(MaxSize + 1) /\ m_size - m_position \in 0..(MaxSize + 1)
    BY <1>1 DEF BInv, Extent
  <2> QED BY <2>1, <2>2, Zenon DEF Stream!Next
<1>8. ASSUME UNCHANGED vars PROVE BInv' /\ UNCHANGED Stream!streamVars
  <2>1. UNCHANGED store /\ crashed' = FALSE
    BY <1>8, Zenon DEF vars, store, BInv
  <2>2. BInv' /\ Data' = Data
    BY <2>1, StoreStays, Zenon
  <2> QED BY <1>8, <2>2, Zenon DEF vars, Stream!streamVars
<1>9. CASE Next
  BY <1>2, <1>3, <1>4, <1>5, <1>6, <1>7, <1>9, ZenonT(60) DEF Next
<1> QED BY <1>8, <1>9, Zenon

\* Within its preconditions no call of a ByteArray dereferences a null node, for
\* any size of node and any sequence of calls (bytearray.cc:334-654).
THEOREM NodesAreNeverNull ==
    ASSUME Uses = {}
    PROVE  Spec => []NoNullDereference
<1>1. Init => BInv
  BY InitHolds
<1>2. BInv /\ [Next]_vars => BInv'
  BY StepHolds
<1>3. BInv => NoNullDereference
  BY DEF BInv, NoNullDereference
<1> QED BY <1>1, <1>2, <1>3, PTL DEF Spec

\* A ByteArray used within its preconditions implements the byte stream, for any
\* size of node and any sequence of calls (bytearray.cc:334-654).
THEOREM ArrayIsStream ==
    ASSUME Uses = {}
    PROVE  Spec => ImplementsStream
<1>1. Init => BInv /\ Stream!Init
  BY InitHolds
<1>2. BInv /\ [Next]_vars => BInv' /\ [Stream!Next]_(Stream!streamVars)
  BY StepHolds
<1> QED BY <1>1, <1>2, PTL DEF Spec, ImplementsStream, Stream!Spec

(***************************************************************************)
(* Integers of variable length.                                             *)
(***************************************************************************)
\* A set of natural numbers with zero and every successor is all of them.
LEMMA NatSet ==
    ASSUME NEW S \in SUBSET Nat, 0 \in S, \A n \in S : n + 1 \in S
    PROVE  S = Nat
<1> DEFINE R == {ss \in Nat \X Nat : ss[1] < ss[2]}
           bad == Nat \ S
<1>1. IsWellFoundedOn(R, Nat)
  BY NatLessThanWellFounded, Zenon DEF OpToRel
<1> HIDE DEF R
<1>2. ASSUME bad # {} PROVE FALSE
  <2>1. bad \in SUBSET Nat
    BY Zenon
  <2> HIDE DEF bad
  <2>2. PICK x \in bad : \A y \in bad : ~(<<y, x>> \in R)
    BY <1>1, <1>2, <2>1, WFMin, Zenon
  <2>3. x \in Nat /\ x \notin S
    BY DEF bad
  <2>4. x # 0 /\ x - 1 \in Nat /\ x - 1 < x /\ (x - 1) + 1 = x
    BY <2>3
  <2>5. <<x - 1, x>> \in R
    BY <2>3, <2>4 DEF R
  <2>6. x - 1 \in S
    BY <2>2, <2>4, <2>5, Zenon DEF bad
  <2> QED BY <2>3, <2>4, <2>6
<1> QED BY <1>2, Zenon

(***************************************************************************)
(* The powers of two.                                                       *)
(***************************************************************************)
\* One step of the definition of Pow2, with g for the smaller arguments.
PowAt(g, n) == IF n = 0 THEN 1 ELSE 2 * g[n - 1]

\* The recursive definition defines something.
LEMMA PowExists == \E g : g = [n \in 0..(Width + 7) |-> PowAt(g, n)]
<1> DEFINE Upto(m) == \E g : \A i \in 0..m : g[i] = PowAt(g, i)
           S == {m \in Nat : Upto(m)}
           N == Width + 7
<1>0. N \in Nat
  BY VarintAssumption
<1> HIDE DEF N
<1>1. 0 \in S
  <2> DEFINE g == [i \in 0..0 |-> 1]
  <2>1. \A i \in 0..0 : i = 0 /\ g[i] = 1
    OBVIOUS
  <2> HIDE DEF g
  <2>2. \A i \in 0..0 : g[i] = PowAt(g, i)
    BY <2>1, Zenon DEF PowAt
  <2>3. Upto(0)
    BY <2>2, Zenon
  <2> QED BY <2>3, Zenon
<1>2. ASSUME NEW m \in S PROVE m + 1 \in S
  <2>1. m \in Nat /\ Upto(m)
    BY Zenon
  <2>2. PICK g : \A i \in 0..m : g[i] = PowAt(g, i)
    BY <2>1, Zenon
  <2> DEFINE h == [i \in 0..(m + 1) |-> PowAt(g, i)]
  <2>3. \A i \in 0..(m + 1) : h[i] = PowAt(g, i)
    BY Zenon
  <2> HIDE DEF h, S
  <2>4. ASSUME NEW i \in 0..(m + 1) PROVE h[i] = PowAt(h, i)
    <3>1. CASE i = 0
      BY <2>3, <3>1, Zenon DEF PowAt
    <3>2. CASE i # 0
      <4>1. i - 1 \in 0..m /\ i - 1 \in 0..(m + 1)
        BY <2>1, <3>2
      <4>2. h[i - 1] = g[i - 1]
        BY <2>2, <2>3, <4>1, Zenon
      <4> QED BY <2>3, <3>2, <4>2, Zenon DEF PowAt
    <3> QED BY <3>1, <3>2, Zenon
  <2>5. Upto(m + 1)
    BY <2>4, Zenon
  <2>6. m + 1 \in Nat
    BY <2>1
  <2> QED BY <2>5, <2>6, Zenon DEF S
<1>3. S = Nat
  <2>1. S \in SUBSET Nat
    BY Zenon
  <2> HIDE DEF S
  <2> QED BY <1>1, <1>2, <2>1, NatSet, Zenon
<1>4. PICK g : \A i \in 0..N : g[i] = PowAt(g, i)
  BY <1>0, <1>3, Zenon
<1> DEFINE h == [i \in 0..N |-> g[i]]
<1>5. \A i \in 0..N : h[i] = g[i]
  BY Zenon
<1>6. ASSUME NEW i \in 0..N PROVE PowAt(h, i) = g[i]
  <2> HIDE DEF h
  <2>1. CASE i = 0
    BY <1>4, <2>1, Zenon DEF PowAt
  <2>2. CASE i # 0
    <3>1. i - 1 \in 0..N
      BY <1>0, <2>2
    <3> QED BY <1>4, <1>5, <2>2, <3>1, Zenon DEF PowAt
  <2> QED BY <2>1, <2>2, Zenon
<1>7. h = [n \in 0..N |-> PowAt(h, n)]
  BY <1>6, Zenon
<1> HIDE DEF h
<1> QED BY <1>7, Zenon DEF N

\* What it says.
LEMMA PowUnfolds ==
    /\ Pow2[0] = 1
    /\ \A n \in 1..(Width + 7) : Pow2[n] = 2 * Pow2[n - 1]
<1> DEFINE Is(g) == g = [n \in 0..(Width + 7) |-> PowAt(g, n)]
           r == CHOOSE g : Is(g)
<1>1. Is(r)
  BY PowExists, Zenon
<1>2. Pow2 = r
  BY DEF Pow2, PowAt
<1> HIDE DEF r
<1>3. \A n \in 0..(Width + 7) : r[n] = PowAt(r, n)
  BY <1>1, Zenon
<1>4. 0 \in 0..(Width + 7) /\ \A n \in 1..(Width + 7) : n \in 0..(Width + 7) /\ n # 0
  BY VarintAssumption
<1> QED BY <1>2, <1>3, <1>4, Zenon DEF PowAt

\* A power of two is positive, and not below the smaller ones.
LEMMA PowGrows ==
    ASSUME NEW n \in 0..(Width + 7)
    PROVE  /\ Pow2[n] \in Nat /\ Pow2[n] > 0
           /\ \A k \in 0..n : Pow2[k] \in Nat /\ Pow2[k] <= Pow2[n]
<1> DEFINE N == Width + 7
           Right(m) == m <= N => /\ Pow2[m] \in Nat /\ Pow2[m] > 0
                                 /\ \A k \in 0..m : Pow2[k] \in Nat /\ Pow2[k] <= Pow2[m]
           S == {m \in Nat : Right(m)}
<1>0. N \in Nat
  BY VarintAssumption
<1> HIDE DEF N
<1>1. 0 \in S
  <2>1. Pow2[0] = 1
    BY PowUnfolds, Zenon
  <2>2. Right(0)
    BY <2>1
  <2> HIDE DEF Right
  <2> QED BY <2>2, Zenon
<1>2. ASSUME NEW m \in S PROVE m + 1 \in S
  <2>1. m \in Nat /\ Right(m) /\ m + 1 \in Nat
    OBVIOUS
  <2>2. ASSUME m + 1 <= N
        PROVE  Pow2[m + 1] \in Nat /\ Pow2[m + 1] > 0 /\ \A k \in 0..(m + 1) : Pow2[k] \in Nat /\ Pow2[k] <= Pow2[m + 1]
    <3> HIDE DEF S
    <3>1. m <= N /\ m + 1 \in 1..N /\ (m + 1) - 1 = m
      BY <1>0, <2>1, <2>2
    <3>2. Pow2[m + 1] = 2 * Pow2[m]
      BY <3>1, PowUnfolds, Zenon DEF N
    <3>3. Pow2[m] \in Nat /\ Pow2[m] > 0 /\ \A k \in 0..m : Pow2[k] \in Nat /\ Pow2[k] <= Pow2[m]
      BY <2>1, <3>1, Zenon
    <3>4. Pow2[m + 1] \in Nat /\ Pow2[m + 1] > 0 /\ Pow2[m] <= Pow2[m + 1]
      BY <3>2, <3>3
    <3>5. ASSUME NEW k \in 0..(m + 1) PROVE Pow2[k] \in Nat /\ Pow2[k] <= Pow2[m + 1]
      <4>1. CASE k = m + 1
        BY <3>4, <4>1
      <4>2. CASE k # m + 1
        <5>1. k \in 0..m
          BY <2>1, <4>2
        <5>2. Pow2[k] \in Nat /\ Pow2[k] <= Pow2[m]
          BY <3>3, <5>1
        <5> QED BY <3>3, <3>4, <5>2
      <4> QED BY <4>1, <4>2
    <3> QED BY <3>4, <3>5, Zenon
  <2> QED BY <2>1, <2>2, Zenon
<1>3. S = Nat
  <2>1. S \in SUBSET Nat
    BY Zenon
  <2> HIDE DEF S
  <2> QED BY <1>1, <1>2, <2>1, NatSet, Zenon
<1>4. n \in Nat /\ n <= N
  BY <1>0 DEF N
<1> QED BY <1>3, <1>4, Zenon

\* A shift by seven.
LEMMA PowSeven ==
    ASSUME NEW n \in Nat, n <= Width
    PROVE  Pow2[n + 7] = 128 * Pow2[n]
<1> DEFINE P(i) == Pow2[n + i]
<1>1. ASSUME NEW i \in 1..7 PROVE P(i) = 2 * P(i - 1)
  <2>1. n + i \in 1..(Width + 7) /\ (n + i) - 1 = n + (i - 1)
    BY VarintAssumption
  <2> QED BY <2>1, PowUnfolds, Zenon
<1>2. n + 0 = n /\ n \in 0..(Width + 7)
  BY VarintAssumption
<1>3. P(0) \in Nat /\ P(0) = Pow2[n]
  BY <1>2, PowGrows, Zenon
<1> HIDE DEF P
<1>4. P(1) = 2 * P(0) /\ P(2) = 2 * P(1) /\ P(3) = 2 * P(2) /\ P(4) = 2 * P(3)
      /\ P(5) = 2 * P(4) /\ P(6) = 2 * P(5) /\ P(7) = 2 * P(6)
  BY <1>1
<1>5. P(7) = 128 * P(0)
  BY <1>3, <1>4
<1> QED BY <1>3, <1>5, Zenon DEF P

\* The width of the integers.
LEMMA WidthFacts ==
    /\ Pow2[Width] \in Nat /\ Pow2[Width] > 0 /\ Uint \subseteq Nat
    /\ Pow2[Width - 1] \in Nat /\ Pow2[Width] = 2 * Pow2[Width - 1]
    /\ \A v \in Nat : v \in Uint <=> v < Pow2[Width]
<1>1. Width \in 0..(Width + 7) /\ Width \in 1..(Width + 7) /\ Width - 1 \in 0..(Width + 7)
  BY VarintAssumption
<1>2. /\ Pow2[Width] \in Nat /\ Pow2[Width] > 0 /\ Pow2[Width - 1] \in Nat
      /\ Pow2[Width] = 2 * Pow2[Width - 1]
  BY <1>1, PowGrows, PowUnfolds, Zenon
<1>3. Uint \subseteq Nat /\ \A v \in Nat : v \in Uint <=> v < Pow2[Width]
  BY <1>2 DEF Uint
<1> QED BY <1>2, <1>3, Zenon

(***************************************************************************)
(* Writing.                                                                 *)
(***************************************************************************)
\* A value without its lowest group.
LEMMA Shifted ==
    ASSUME NEW v \in Nat
    PROVE  /\ v \div 128 \in Nat /\ v % 128 \in 0..127 /\ v = 128 * (v \div 128) + (v % 128)
           /\ v \div 128 <= v /\ (v >= 128 => v \div 128 < v /\ v \div 128 >= 1)
           /\ (v \in Uint => v \div 128 \in Uint)
<1>1. /\ v \div 128 \in Nat /\ v % 128 \in 0..127 /\ v = 128 * (v \div 128) + (v % 128)
  OBVIOUS
<1>2. v \div 128 <= v /\ (v >= 128 => v \div 128 < v /\ v \div 128 >= 1)
  BY <1>1
<1>3. v \in Uint => v \div 128 \in Uint
  BY <1>1, <1>2, WidthFacts
<1> QED BY <1>1, <1>2, <1>3, Zenon

\* One step of the definition of Groups, with g for the smaller values.
GroupsAt(g, v) == IF v < 128 THEN <<v>> ELSE <<(v % 128) + 128>> \o g[v \div 128]

\* The recursive definition defines something.
LEMMA GroupsExist == \E g : g = [v \in Uint |-> GroupsAt(g, v)]
<1> DEFINE Upto(m) == \E g : \A i \in 0..m : g[i] = GroupsAt(g, i)
           S == {m \in Nat : Upto(m)}
           N == Pow2[Width] - 1
<1>0. N \in Nat
  BY WidthFacts
<1> HIDE DEF N
<1>1. 0 \in S
  <2> DEFINE g == [i \in 0..0 |-> <<0>>]
  <2>1. \A i \in 0..0 : i = 0 /\ i < 128 /\ g[i] = <<0>>
    OBVIOUS
  <2> HIDE DEF g
  <2>2. \A i \in 0..0 : g[i] = GroupsAt(g, i)
    BY <2>1, Zenon DEF GroupsAt
  <2>3. Upto(0)
    BY <2>2, Zenon
  <2> QED BY <2>3, Zenon
<1>2. ASSUME NEW m \in S PROVE m + 1 \in S
  <2>1. m \in Nat /\ Upto(m)
    BY Zenon
  <2>2. PICK g : \A i \in 0..m : g[i] = GroupsAt(g, i)
    BY <2>1, Zenon
  <2> DEFINE h == [i \in 0..(m + 1) |-> GroupsAt(g, i)]
  <2>3. \A i \in 0..(m + 1) : h[i] = GroupsAt(g, i)
    BY Zenon
  <2> HIDE DEF h, S
  <2>4. ASSUME NEW i \in 0..(m + 1) PROVE h[i] = GroupsAt(h, i)
    <3>1. CASE i < 128
      BY <2>3, <3>1, Zenon DEF GroupsAt
    <3>2. CASE ~(i < 128)
      <4>1. i \in Nat /\ i >= 128 /\ i <= m + 1
        BY <2>1, <3>2
      <4>2. i \div 128 \in Nat /\ i \div 128 < i
        BY <4>1, Shifted, ZenonT(60)
      <4>3. i \div 128 \in 0..m /\ i \div 128 \in 0..(m + 1)
        BY <2>1, <4>1, <4>2
      <4>4. h[i \div 128] = g[i \div 128]
        BY <2>2, <2>3, <4>3, ZenonT(60)
      <4> QED BY <2>3, <3>2, <4>4, ZenonT(60) DEF GroupsAt
    <3> QED BY <3>1, <3>2, Zenon
  <2>5. Upto(m + 1)
    BY <2>4, Zenon
  <2>6. m + 1 \in Nat
    BY <2>1
  <2> QED BY <2>5, <2>6, Zenon DEF S
<1>3. S = Nat
  <2>1. S \in SUBSET Nat
    BY Zenon
  <2> HIDE DEF S
  <2> QED BY <1>1, <1>2, <2>1, NatSet, ZenonT(60)
<1>4. PICK g : \A i \in 0..N : g[i] = GroupsAt(g, i)
  BY <1>0, <1>3, Zenon
<1> DEFINE h == [i \in 0..N |-> g[i]]
<1>5. \A i \in 0..N : h[i] = g[i]
  BY Zenon
<1>6. ASSUME NEW i \in 0..N PROVE GroupsAt(h, i) = g[i]
  <2> HIDE DEF h
  <2>1. CASE i < 128
    BY <1>4, <2>1, Zenon DEF GroupsAt
  <2>2. CASE ~(i < 128)
    <3>1. i \in Nat /\ i <= N
      BY <1>0
    <3>2. i \div 128 \in Nat /\ i \div 128 <= i
      BY <3>1, Shifted, Zenon
    <3>3. i \div 128 \in 0..N
      BY <1>0, <3>1, <3>2
    <3> QED BY <1>4, <1>5, <2>2, <3>3, ZenonT(60) DEF GroupsAt
  <2> QED BY <2>1, <2>2, Zenon
<1>7. h = [n \in 0..N |-> GroupsAt(h, n)]
  BY <1>6, Zenon
<1>8. Uint = 0..N
  BY Zenon DEF Uint, N
<1> HIDE DEF h
<1> QED BY <1>7, <1>8, Zenon

\* What it says.
LEMMA GroupsUnfold ==
    \A v \in Uint : Groups[v] = IF v < 128 THEN <<v>> ELSE <<(v % 128) + 128>> \o Groups[v \div 128]
<1> DEFINE Is(g) == g = [v \in Uint |-> GroupsAt(g, v)]
           r == CHOOSE g : Is(g)
<1>1. Is(r)
  BY GroupsExist, Zenon
<1>2. Groups = r
  BY DEF Groups, GroupsAt
<1> HIDE DEF r
<1>3. \A v \in Uint : r[v] = GroupsAt(r, v)
  BY <1>1, Zenon
<1> QED BY <1>2, <1>3, ZenonT(60) DEF GroupsAt

\* The groups are bytes.
LEMMA GroupsType ==
    ASSUME NEW v \in Uint
    PROVE  Groups[v] \in Seq(0..255) /\ Len(Groups[v]) \in Nat \ {0}
<1> DEFINE Right(u) == Groups[u] \in Seq(0..255) /\ Len(Groups[u]) \in Nat \ {0}
           S == {m \in Nat : \A u \in Uint : u <= m => Right(u)}
<1>1. ASSUME NEW u \in Uint, u < 128 PROVE Right(u)
  <2>1. u \in Nat /\ Groups[u] = <<u>>
    BY <1>1, GroupsUnfold, WidthFacts, ZenonT(60)
  <2>2. u \in 0..255
    BY <1>1, <2>1
  <2> QED BY <2>1, <2>2
<1>2. ASSUME NEW u \in Uint, u >= 128, Right(u \div 128) PROVE Right(u)
  <2> DEFINE b == (u % 128) + 128
             q == Groups[u \div 128]
  <2>1. u \in Nat /\ ~(u < 128)
    BY <1>2, WidthFacts
  <2>2. Groups[u] = <<b>> \o q
    BY <2>1, GroupsUnfold, Zenon
  <2>3. u % 128 \in 0..127
    BY <2>1, Shifted, ZenonT(60)
  <2>4. b \in 0..255
    BY <2>3
  <2>5. q \in Seq(0..255) /\ Len(q) \in Nat
    BY <1>2
  <2> HIDE DEF b, q
  <2>6. <<b>> \o q \in Seq(0..255) /\ Len(<<b>> \o q) = 1 + Len(q)
    BY <2>4, <2>5
  <2> QED BY <2>2, <2>5, <2>6
<1> HIDE DEF Right
<1>3. 0 \in S
  <2>1. ASSUME NEW u \in Uint, u <= 0 PROVE Right(u)
    <3>1. u < 128
      BY <2>1, WidthFacts
    <3> QED BY <1>1, <3>1, Zenon
  <2> QED BY <2>1
<1>4. ASSUME NEW m \in S PROVE m + 1 \in S
  <2>1. m \in Nat /\ m + 1 \in Nat /\ \A u \in Uint : u <= m => Right(u)
    OBVIOUS
  <2>2. ASSUME NEW u \in Uint, u <= m + 1 PROVE Right(u)
    <3>1. u \in Nat
      BY WidthFacts, Zenon
    <3>2. CASE u < 128
      BY <1>1, <3>2, Zenon
    <3>3. CASE ~(u < 128)
      <4>1. u >= 128
        BY <3>1, <3>3
      <4>2. u \div 128 \in Uint /\ u \div 128 \in Nat /\ u \div 128 < u
        BY <3>1, <4>1, Shifted, ZenonT(60)
      <4>3. u \div 128 <= m
        BY <2>1, <2>2, <3>1, <4>2
      <4> QED BY <1>2, <2>1, <4>1, <4>2, <4>3, ZenonT(60)
    <3> QED BY <3>2, <3>3
  <2> QED BY <2>1, <2>2, Zenon
<1>5. S = Nat
  <2>1. S \in SUBSET Nat
    BY Zenon
  <2> HIDE DEF S
  <2> QED BY <1>3, <1>4, <2>1, NatSet, Zenon
<1>6. v \in Nat /\ v <= v
  BY WidthFacts
<1>7. Right(v)
  BY <1>5, <1>6, Zenon
<1> QED BY <1>7, Zenon DEF Right

(***************************************************************************)
(* Reading.                                                                 *)
(***************************************************************************)
\* The last group that is read has the last shift below Width.
LEMMA TmpFacts ==
    /\ TmpSize \in Nat /\ 7 * TmpSize >= Width
    /\ \A k \in Nat : 7 * k < Width => k + 1 <= TmpSize /\ 7 * k \in 0..(Width + 7) /\ 7 * (k + 1) \in 0..(Width + 7)
BY VarintAssumption DEF TmpSize

\* One step of the definition of ParseFrom, with g for the later groups.
ParseAt(g, bytes, k) ==
    IF 7 * k >= Width THEN [value |-> 0, used |-> 0]
    ELSE IF bytes[k + 1] < 128
    THEN [value |-> (bytes[k + 1] * Pow2[7 * k]) % Pow2[Width], used |-> 1]
    ELSE [value |-> (((bytes[k + 1] - 128) * Pow2[7 * k]) % Pow2[Width]) + g[k + 1].value,
          used |-> g[k + 1].used + 1]

\* The recursive definition defines something.
LEMMA ParseExists ==
    ASSUME NEW bytes
    PROVE  \E g : g = [k \in 0..TmpSize |-> ParseAt(g, bytes, k)]
<1> DEFINE T == TmpSize
           From(m) == \E g : \A i \in (T - m)..T : g[i] = ParseAt(g, bytes, i)
           S == {m \in Nat : From(m)}
<1>0. T \in Nat /\ 7 * T >= Width
  BY TmpFacts, Zenon
<1> HIDE DEF T
<1>1. 0 \in S
  <2> DEFINE g == [i \in (T - 0)..T |-> [value |-> 0, used |-> 0]]
  <2>1. \A i \in (T - 0)..T : i = T
    BY <1>0
  <2>2. \A i \in (T - 0)..T : g[i] = [value |-> 0, used |-> 0]
    BY Zenon
  <2> HIDE DEF g
  <2>3. \A i \in (T - 0)..T : g[i] = ParseAt(g, bytes, i)
    BY <1>0, <2>1, <2>2, Zenon DEF ParseAt
  <2>4. From(0)
    BY <2>3, Zenon
  <2> QED BY <2>4, Zenon
<1>2. ASSUME NEW m \in S PROVE m + 1 \in S
  <2>1. m \in Nat /\ From(m)
    BY Zenon
  <2>2. PICK g : \A i \in (T - m)..T : g[i] = ParseAt(g, bytes, i)
    BY <2>1, Zenon
  <2> DEFINE h == [i \in (T - (m + 1))..T |-> ParseAt(g, bytes, i)]
  <2>3. \A i \in (T - (m + 1))..T : h[i] = ParseAt(g, bytes, i)
    BY Zenon
  <2> HIDE DEF h, S
  <2>4. ASSUME NEW i \in (T - (m + 1))..T PROVE h[i] = ParseAt(h, bytes, i)
    <3>1. CASE i = T
      BY <1>0, <2>3, <3>1, Zenon DEF ParseAt
    <3>2. CASE i # T
      <4>1. i + 1 \in (T - m)..T /\ i + 1 \in (T - (m + 1))..T
        BY <1>0, <2>1, <3>2
      <4>2. h[i + 1] = g[i + 1]
        BY <2>2, <2>3, <4>1, Zenon
      <4> QED BY <2>3, <4>2, ZenonT(60) DEF ParseAt
    <3> QED BY <3>1, <3>2, Zenon
  <2>5. From(m + 1)
    BY <2>4, Zenon
  <2>6. m + 1 \in Nat
    BY <2>1
  <2> QED BY <2>5, <2>6, Zenon DEF S
<1>3. S = Nat
  <2>1. S \in SUBSET Nat
    BY Zenon
  <2> HIDE DEF S
  <2> QED BY <1>1, <1>2, <2>1, NatSet, Zenon
<1>4. T - T = 0
  BY <1>0
<1>5. PICK g : \A i \in 0..T : g[i] = ParseAt(g, bytes, i)
  <2>1. From(T)
    BY <1>0, <1>3, Zenon
  <2> QED BY <1>4, <2>1, Zenon
<1> DEFINE h == [i \in 0..T |-> g[i]]
<1>6. \A i \in 0..T : h[i] = g[i]
  BY Zenon
<1>7. ASSUME NEW i \in 0..T PROVE ParseAt(h, bytes, i) = g[i]
  <2> HIDE DEF h
  <2>1. CASE i = T
    BY <1>0, <1>5, <2>1, Zenon DEF ParseAt
  <2>2. CASE i # T
    <3>1. i + 1 \in 0..T
      BY <1>0, <2>2
    <3>2. h[i + 1] = g[i + 1]
      BY <1>6, <3>1, Zenon
    <3> QED BY <1>5, <3>2, ZenonT(60) DEF ParseAt
  <2> QED BY <2>1, <2>2, Zenon
<1>8. h = [n \in 0..T |-> ParseAt(h, bytes, n)]
  BY <1>7, Zenon
<1> HIDE DEF h
<1> QED BY <1>8, Zenon DEF T

\* What it says.
LEMMA ParseUnfolds ==
    ASSUME NEW bytes, NEW k \in 0..TmpSize
    PROVE  ParseFrom(bytes)[k] = ParseAt(ParseFrom(bytes), bytes, k)
<1> DEFINE Is(g) == g = [n \in 0..TmpSize |-> ParseAt(g, bytes, n)]
           r == CHOOSE g : Is(g)
<1>1. Is(r)
  BY ParseExists, Zenon
<1>2. ParseFrom(bytes) = r
  BY DEF ParseFrom, ParseAt
<1> HIDE DEF r
<1>3. r[k] = ParseAt(r, bytes, k)
  BY <1>1, Zenon
<1> QED BY <1>2, <1>3, Zenon

\* The arithmetic of one group: v is 128 q + r, p the weight of the group and W the modulus.
LEMMA OneGroup ==
    ASSUME NEW q \in Nat, NEW r \in Nat, NEW p \in Nat, NEW W \in Nat, p > 0,
           (128 * q + r) * p < W
    PROVE  /\ (r * p) % W = r * p
           /\ r * p + q * (128 * p) = (128 * q + r) * p
           /\ q * (128 * p) < W
           /\ q >= 1 => 128 * p < W
<1>1. r * p \in Nat /\ q * p \in Nat /\ (128 * q + r) * p = 128 * (q * p) + r * p
  OBVIOUS
<1>2. q * (128 * p) = 128 * (q * p)
  OBVIOUS
<1>3. r * p < W /\ 128 * (q * p) < W
  BY <1>1
<1>4. ASSUME NEW x \in Nat, x < W PROVE x % W = x
  BY <1>4
<1>5. q >= 1 => p <= q * p
  OBVIOUS
<1>6. q >= 1 => 128 * p < W
  BY <1>1, <1>3, <1>5
<1>7. (r * p) % W = r * p
  BY <1>1, <1>3, <1>4
<1> QED BY <1>1, <1>2, <1>3, <1>6, <1>7

\* What reading v's groups from group k on gives, if they stand there.
Stands(bytes, k, v) == \A j \in 1..Len(Groups[v]) : bytes[k + j] = Groups[v][j]
Fits(k, v) == k \in Nat /\ 7 * k < Width /\ v * Pow2[7 * k] < Pow2[Width]
IsRead(bytes, k, v) ==
    /\ ParseFrom(bytes)[k] = [value |-> v * Pow2[7 * k], used |-> Len(Groups[v])]
    /\ k + Len(Groups[v]) <= TmpSize

\* A last group ends the loop.
LEMMA LastGroup ==
    ASSUME NEW bytes, NEW k, NEW v \in Uint, v < 128, Fits(k, v), Stands(bytes, k, v)
    PROVE  IsRead(bytes, k, v)
<1>1. v \in Nat /\ Groups[v] = <<v>> /\ k \in Nat /\ 7 * k < Width
  BY GroupsUnfold, WidthFacts, ZenonT(60) DEF Fits
<1>2. Len(Groups[v]) = 1 /\ Groups[v][1] = v
  BY <1>1
<1>3. 1 \in 1..1
  OBVIOUS
<1>4. bytes[k + 1] = v
  BY <1>2, <1>3, Zenon DEF Stands
<1>5. k + 1 <= TmpSize /\ 7 * k \in 0..(Width + 7) /\ TmpSize \in Nat
  BY <1>1, TmpFacts, Zenon
<1>6. k \in 0..TmpSize /\ ~(7 * k >= Width)
  BY <1>1, <1>5, VarintAssumption
<1>7. Pow2[7 * k] \in Nat /\ Pow2[Width] \in Nat
  BY <1>5, PowGrows, WidthFacts, Zenon
<1>8. v * Pow2[7 * k] \in Nat /\ v * Pow2[7 * k] < Pow2[Width]
  BY <1>1, <1>7 DEF Fits
<1>9. (v * Pow2[7 * k]) % Pow2[Width] = v * Pow2[7 * k]
  <2>1. ASSUME NEW x \in Nat, NEW W \in Nat, x < W PROVE x % W = x
    BY <2>1
  <2> QED BY <1>7, <1>8, <2>1, Zenon
<1>10. ParseFrom(bytes)[k] = ParseAt(ParseFrom(bytes), bytes, k)
  BY <1>6, ParseUnfolds, Zenon
<1>11. ParseAt(ParseFrom(bytes), bytes, k) = [value |-> v * Pow2[7 * k], used |-> 1]
  BY <1>4, <1>6, <1>9, Zenon DEF ParseAt
<1> QED BY <1>2, <1>5, <1>10, <1>11, Zenon DEF IsRead

\* A group with the top bit set is added to what the groups after it give.
LEMMA NotLastGroup ==
    ASSUME NEW bytes, NEW k, NEW v \in Uint, ~(v < 128), Fits(k, v), Stands(bytes, k, v),
           Fits(k + 1, v \div 128) /\ Stands(bytes, k + 1, v \div 128)
               => IsRead(bytes, k + 1, v \div 128)
    PROVE  IsRead(bytes, k, v)
<1> DEFINE q == v \div 128
           r == v % 128
           p == Pow2[7 * k]
           W == Pow2[Width]
           L == Len(Groups[q])
<1>1. v \in Nat /\ Groups[v] = <<r + 128>> \o Groups[q] /\ k \in Nat /\ 7 * k < Width
  BY GroupsUnfold, WidthFacts, ZenonT(60) DEF Fits
<1>2. v >= 128
  BY <1>1
<1>3. q \in Nat /\ r \in 0..127 /\ v = 128 * q + r /\ q >= 1 /\ q \in Uint
  BY <1>1, <1>2, Shifted, ZenonT(60)
<1>4. Groups[q] \in Seq(0..255) /\ L \in Nat \ {0}
  BY <1>3, GroupsType, Zenon
<1>5. k + 1 <= TmpSize /\ 7 * k \in 0..(Width + 7) /\ 7 * (k + 1) \in 0..(Width + 7) /\ TmpSize \in Nat
  BY <1>1, TmpFacts, Zenon
<1>6. k \in 0..TmpSize /\ ~(7 * k >= Width) /\ k + 1 \in Nat
  BY <1>1, <1>5, VarintAssumption
<1>7. p \in Nat /\ p > 0 /\ W \in Nat
  BY <1>5, PowGrows, WidthFacts, ZenonT(60)
<1>8. v * p < W
  BY Zenon DEF Fits
<1>9. Pow2[7 * (k + 1)] = 128 * p
  <2>1. 7 * k \in Nat /\ 7 * k <= Width /\ 7 * (k + 1) = 7 * k + 7
    BY <1>1, VarintAssumption
  <2> QED BY <2>1, PowSeven, ZenonT(60)
<1> HIDE DEF q, r, p, W, L
<1>10. /\ (r * p) % W = r * p
       /\ r * p + q * (128 * p) = v * p
       /\ q * (128 * p) < W
       /\ 128 * p < W
  <2>1. r \in Nat /\ (128 * q + r) * p < W /\ (128 * q + r) * p = v * p
    BY <1>3, <1>8
  <2>2. /\ (r * p) % W = r * p
        /\ r * p + q * (128 * p) = (128 * q + r) * p
        /\ q * (128 * p) < W
        /\ q >= 1 => 128 * p < W
    BY <1>3, <1>7, <2>1, OneGroup, SMTT(30)
  <2> QED BY <1>3, <2>1, <2>2
<1>11. 7 * (k + 1) < Width
  <2>1. ASSUME Width <= 7 * (k + 1) PROVE FALSE
    <3>1. Width \in 0..(7 * (k + 1))
      BY <1>5, <2>1, VarintAssumption
    <3>2. Pow2[Width] <= Pow2[7 * (k + 1)]
      BY <1>5, <3>1, PowGrows, Zenon
    <3>3. W <= 128 * p
      BY <1>9, <3>2, Zenon DEF W
    <3> QED BY <1>7, <1>10, <3>3
  <2> QED BY <1>1, <2>1, VarintAssumption
<1>12. Fits(k + 1, q)
  BY <1>6, <1>9, <1>10, <1>11, ZenonT(60) DEF Fits, W
<1>13. Len(Groups[v]) = L + 1 /\ Groups[v][1] = r + 128
       /\ \A j \in 1..L : Groups[v][j + 1] = Groups[q][j]
  <2>1. r + 128 \in 0..255
    BY <1>3
  <2>2. ASSUME NEW b \in 0..255, NEW s \in Seq(0..255)
        PROVE  Len(<<b>> \o s) = Len(s) + 1 /\ (<<b>> \o s)[1] = b
               /\ \A j \in 1..Len(s) : (<<b>> \o s)[j + 1] = s[j]
    OBVIOUS
  <2> DEFINE s == Groups[q]
             b == r + 128
  <2>3. s \in Seq(0..255) /\ b \in 0..255 /\ Groups[v] = <<b>> \o s
    BY <1>1, <1>4, <2>1, Zenon DEF q, r
  <2> HIDE DEF s, b
  <2>4. Len(<<b>> \o s) = Len(s) + 1 /\ (<<b>> \o s)[1] = b
        /\ \A j \in 1..Len(s) : (<<b>> \o s)[j + 1] = s[j]
    BY <2>2, <2>3, ZenonT(60)
  <2> QED BY <2>3, <2>4, ZenonT(60) DEF L, s, b
<1>14. bytes[k + 1] = r + 128
  <2>1. 1 \in 1..(L + 1)
    BY <1>4
  <2> QED BY <1>13, <2>1, Zenon DEF Stands
<1>15. Stands(bytes, k + 1, q)
  <2>1. ASSUME NEW j \in 1..L PROVE bytes[(k + 1) + j] = Groups[q][j]
    <3>1. j + 1 \in 1..(L + 1) /\ (k + 1) + j = k + (j + 1)
      BY <1>1, <1>4
    <3> QED BY <1>13, <3>1, ZenonT(60) DEF Stands
  <2> QED BY <2>1, Zenon DEF Stands, L
<1>16. IsRead(bytes, k + 1, q)
  BY <1>12, <1>15, Zenon DEF q
<1>17. ParseFrom(bytes)[k + 1].value = q * (128 * p) /\ ParseFrom(bytes)[k + 1].used = L
       /\ (k + 1) + L <= TmpSize
  BY <1>9, <1>16 DEF IsRead, L
<1>18. ~(r + 128 < 128) /\ (r + 128) - 128 = r
  BY <1>3
<1>19. ParseFrom(bytes)[k] = ParseAt(ParseFrom(bytes), bytes, k)
  BY <1>6, ParseUnfolds, Zenon
<1>20. ParseAt(ParseFrom(bytes), bytes, k) = [value |-> v * p, used |-> L + 1]
  BY <1>6, <1>10, <1>14, <1>17, <1>18, ZenonT(60) DEF ParseAt, p, W
<1>21. k + (L + 1) <= TmpSize
  BY <1>1, <1>4, <1>5, <1>17
<1> QED BY <1>13, <1>19, <1>20, <1>21, ZenonT(60) DEF IsRead, p

\* Every value that fits is read back, by induction on a bound of the value.
LEMMA GroupsRead ==
    ASSUME NEW bytes, NEW k, NEW v \in Uint, Fits(k, v), Stands(bytes, k, v)
    PROVE  IsRead(bytes, k, v)
<1> DEFINE Comes(u) == \A n \in Nat : Fits(n, u) /\ Stands(bytes, n, u) => IsRead(bytes, n, u)
           S == {m \in Nat : \A u \in Uint : u <= m => Comes(u)}
<1>1. ASSUME NEW u \in Uint, u < 128 PROVE Comes(u)
  BY <1>1, LastGroup, Zenon
<1>2. ASSUME NEW u \in Uint, ~(u < 128), Comes(u \div 128) PROVE Comes(u)
  <2>1. ASSUME NEW n \in Nat, Fits(n, u), Stands(bytes, n, u) PROVE IsRead(bytes, n, u)
    <3>1. n + 1 \in Nat
      OBVIOUS
    <3> QED BY <1>2, <2>1, <3>1, NotLastGroup, ZenonT(60)
  <2> QED BY <2>1, ZenonT(60)
<1> HIDE DEF Comes
<1>3. 0 \in S
  <2>1. ASSUME NEW u \in Uint, u <= 0 PROVE Comes(u)
    <3>1. u < 128
      BY <2>1, WidthFacts
    <3> QED BY <1>1, <3>1, Zenon
  <2> QED BY <2>1
<1>4. ASSUME NEW m \in S PROVE m + 1 \in S
  <2>1. m \in Nat /\ m + 1 \in Nat /\ \A u \in Uint : u <= m => Comes(u)
    OBVIOUS
  <2>2. ASSUME NEW u \in Uint, u <= m + 1, ~(u < 128) PROVE Comes(u)
    <3>1. u \in Nat /\ u >= 128
      BY <2>2, WidthFacts
    <3>2. u \div 128 \in Uint /\ u \div 128 \in Nat /\ u \div 128 < u
      BY <3>1, Shifted, ZenonT(60)
    <3>3. u \div 128 <= m
      BY <2>1, <2>2, <3>1, <3>2
    <3> QED BY <1>2, <2>1, <2>2, <3>2, <3>3, ZenonT(60)
  <2> QED BY <1>1, <2>1, <2>2, Zenon
<1>5. S = Nat
  <2>1. S \in SUBSET Nat
    BY Zenon
  <2> HIDE DEF S
  <2> QED BY <1>3, <1>4, <2>1, NatSet, Zenon
<1>6. v \in Nat /\ v <= v
  BY WidthFacts
<1>7. Comes(v)
  BY <1>5, <1>6, Zenon
<1> QED BY <1>7, Zenon DEF Comes, Fits

\* So a value at the front of what is read comes back, whatever stands behind it.
LEMMA FrontReadsBack ==
    ASSUME NEW v \in Uint, NEW s \in Seq(0..255)
    PROVE  /\ Len(Groups[v]) <= TmpSize
           /\ Parse(Groups[v] \o s) = [value |-> v, used |-> Len(Groups[v])]
<1> DEFINE g == Groups[v]
           bytes == g \o s
<1>1. g \in Seq(0..255) /\ Len(g) \in Nat
  BY GroupsType, Zenon
<1>2. Pow2[7 * 0] = 1 /\ v \in Nat /\ v < Pow2[Width] /\ 0 < Width
  BY WidthFacts, PowUnfolds, VarintAssumption
<1> HIDE DEF g
<1>3. \A j \in 1..Len(g) : bytes[0 + j] = g[j]
  BY <1>1
<1>4. v * Pow2[7 * 0] = v /\ 7 * 0 < Width /\ 0 + Len(g) = Len(g)
  BY <1>1, <1>2
<1>5. Fits(0, v)
  BY <1>2, <1>4, Zenon DEF Fits
<1> HIDE DEF bytes
<1>6. Stands(bytes, 0, v)
  BY <1>3, Zenon DEF Stands, g
<1>7. IsRead(bytes, 0, v)
  BY <1>5, <1>6, GroupsRead, Zenon
<1> QED BY <1>4, <1>7, Zenon DEF IsRead, Parse, bytes, g

\* encodeZigzag() gives an unsigned integer of the width, and decodeZigzag() undoes it.
LEMMA ZigzagReadsBack ==
    ASSUME NEW v \in Sint
    PROVE  EncodeZigzag(v) \in Uint /\ DecodeZigzag(EncodeZigzag(v)) = v
<1> DEFINE H == Pow2[Width - 1]
           W == Pow2[Width]
<1>1. H \in Nat /\ W \in Nat /\ W = 2 * H
  BY WidthFacts, Zenon
<1>2. v \in Int /\ -H <= v /\ v < H
  BY <1>1 DEF Sint
<1> HIDE DEF H, W
<1>3. ASSUME NEW x \in Nat, x < W PROVE x % W = x
  BY <1>1, <1>3
<1>4. CASE v < 0
  <2>1. (-v) * 2 - 1 \in Nat /\ (-v) * 2 - 1 < W
    BY <1>1, <1>2, <1>4
  <2>2. ((-v) * 2 - 1) % W = (-v) * 2 - 1
    BY <1>3, <2>1
  <2>3. ((-v) * 2 - 1) % 2 = 1 /\ ((-v) * 2 - 1) \div 2 = -v - 1
    BY <1>2, <1>4
  <2>4. EncodeZigzag(v) = (-v) * 2 - 1
    BY <1>4, <2>2 DEF EncodeZigzag, W
  <2>5. EncodeZigzag(v) \in Uint
    BY <2>1, <2>4, WidthFacts, ZenonT(60) DEF W
  <2>6. DecodeZigzag(EncodeZigzag(v)) = v
    BY <1>2, <2>3, <2>4 DEF DecodeZigzag
  <2> QED BY <2>5, <2>6, Zenon
<1>5. CASE ~(v < 0)
  <2>1. v * 2 \in Nat /\ v * 2 < W
    BY <1>1, <1>2, <1>5
  <2>2. (v * 2) % W = v * 2
    BY <1>3, <2>1
  <2>3. (v * 2) % 2 = 0 /\ (v * 2) \div 2 = v
    BY <1>2, <1>5
  <2>4. EncodeZigzag(v) = v * 2
    BY <1>5, <2>2 DEF EncodeZigzag, W
  <2>5. EncodeZigzag(v) \in Uint
    BY <2>1, <2>4, WidthFacts, Zenon DEF W
  <2>6. DecodeZigzag(EncodeZigzag(v)) = v
    BY <1>2, <2>3, <2>4 DEF DecodeZigzag
  <2> QED BY <2>5, <2>6, ZenonT(60)
<1> QED BY <1>4, <1>5, Zenon

\* Every integer of the width, with and without a sign, is read back as writeUint32(),
\* writeInt32() and their 64-bit forms wrote it, whatever follows it, takes exactly
\* its own bytes, and fits tmp (bytearray.cc:113-168, 252-286).
THEOREM IntegersReadBack == ReadBack(Uint, Sint)
<1>1. ASSUME NEW v \in Uint, NEW w \in Uint
      PROVE  /\ Parse(Groups[v] \o Groups[w]).value = v
             /\ Parse(Groups[v] \o Groups[w]).used = Len(Groups[v])
  <2>1. Groups[w] \in Seq(0..255)
    BY GroupsType, Zenon
  <2>2. Parse(Groups[v] \o Groups[w]) = [value |-> v, used |-> Len(Groups[v])]
    BY <2>1, FrontReadsBack, Zenon
  <2> QED BY <2>2
<1>2. ASSUME NEW v \in Sint
      PROVE  EncodeZigzag(v) \in Uint /\ DecodeZigzag(Parse(Groups[EncodeZigzag(v)]).value) = v
  <2> DEFINE u == EncodeZigzag(v)
             g == Groups[u]
  <2>1. u \in Uint /\ DecodeZigzag(u) = v
    BY ZigzagReadsBack, Zenon
  <2>2. g \in Seq(0..255)
    BY <2>1, GroupsType, Zenon
  <2>3. <<>> \in Seq(0..255)
    OBVIOUS
  <2>4. Parse(g \o <<>>) = [value |-> u, used |-> Len(g)]
    BY <2>1, <2>3, FrontReadsBack, Zenon
  <2> HIDE DEF u, g
  <2>5. g \o <<>> = g
    BY <2>2
  <2>6. Parse(g).value = u
    BY <2>4, <2>5
  <2> QED BY <2>1, <2>6, Zenon DEF u, g
<1>3. ASSUME NEW v \in Uint
      PROVE  Len(Groups[v]) <= TmpSize /\ \A i \in DOMAIN Groups[v] : Groups[v][i] \in 0..255
  <2>1. Groups[v] \in Seq(0..255)
    BY GroupsType, Zenon
  <2>2. <<>> \in Seq(0..255)
    OBVIOUS
  <2>3. Len(Groups[v]) <= TmpSize
    BY <2>2, FrontReadsBack, Zenon
  <2>4. ASSUME NEW g \in Seq(0..255) PROVE \A i \in DOMAIN g : g[i] \in 0..255
    BY LenProperties, ElementOfSeq, ZenonT(60)
  <2> QED BY <2>1, <2>3, <2>4, Zenon
<1> QED BY <1>1, <1>2, <1>3, Zenon DEF ReadBack

\* In particular the sample that the run reads back, in every state of the buffer
\* (bytearray.cc:113-168, 252-286).
THEOREM SampleReadsBack == Spec => []VarintReadsBack
<1>1. SomeUint \subseteq Uint /\ SomeSint \subseteq Sint
  BY Zenon DEF SomeUint, SomeSint
<1>2. ReadBack(SomeUint, SomeSint)
  BY <1>1, IntegersReadBack, Zenon DEF ReadBack
<1>3. VarintReadsBack
  BY <1>2, Zenon DEF VarintReadsBack
<1> QED BY <1>3, PTL
=============================================================================
