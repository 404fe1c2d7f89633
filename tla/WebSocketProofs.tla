--------------------------- MODULE WebSocketProofs ---------------------------
(***************************************************************************)
(* The proofs that the two ends of a WebSocket stay in step, and that what  *)
(* recvMessage() returns are the messages that were sent: for any sizes,    *)
(* limits and numbers of frames and pings, when an end does not send while  *)
(* it receives and no part needs a 64-bit length.                           *)
(***************************************************************************)
EXTENDS WebSocket, SequenceTheorems, WellFoundedInduction, TLAPS

(***************************************************************************)
(* The order of fields.                                                     *)
(***************************************************************************)
Values == [op : Opcodes \cup {"PING", "PONG"}, fin : BOOLEAN, payload : Nat, mask : BOOLEAN]
            \cup [size : Nat, masked : BOOLEAN] \cup Nat
Fields == [field : {"head", "len16", "mask", "data"}, value : Values]

\* The field after the length, in what p sends.
Key(p) == IF p = "client" THEN "mask" ELSE "data"

\* The field after v, in what p sends.
NextField(p, v) ==
    IF v.field = "head"
    THEN IF v.value.op \in {"PING", "PONG"} THEN "head"
         ELSE IF v.value.payload = 126 THEN "len16" ELSE Key(p)
    ELSE IF v.field = "len16" THEN Key(p)
    ELSE IF v.field = "mask" THEN "data"
    ELSE "head"

\* A head that p may send: masked if p masks, and without a 64-bit length.
GoodField(p, v) ==
    v.field = "head" /\ v.value.op \notin {"PING", "PONG"}
      => v.value.mask = (p = "client") /\ v.value.payload # 127

\* The fields of s, sent by p, follow each other, from a field called first.
Chain(p, first, s) ==
    /\ s \in Seq(Fields)
    /\ \A i \in 1..Len(s) : GoodField(p, s[i])
    /\ \A i \in 1..Len(s) : s[i].field = IF i = 1 THEN first ELSE NextField(p, s[i - 1])

\* The field that comes after s.
After(p, first, s) == IF s = <<>> THEN first ELSE NextField(p, s[Len(s)])

\* Nothing is a chain.
LEMMA ChainEmpty ==
    ASSUME NEW p, NEW f
    PROVE  Chain(p, f, <<>>) /\ After(p, f, <<>>) = f
BY DEF Chain, After

\* A field at the end of a chain.
LEMMA ChainAppend ==
    ASSUME NEW p, NEW f, NEW s, Chain(p, f, s), NEW v \in Fields, GoodField(p, v),
           v.field = After(p, f, s)
    PROVE  Chain(p, f, Append(s, v)) /\ After(p, f, Append(s, v)) = NextField(p, v)
<1> DEFINE t == Append(s, v)
<1>1. s \in Seq(Fields) /\ Len(s) \in Nat
  BY DEF Chain
<1>2. /\ t \in Seq(Fields) /\ Len(t) = Len(s) + 1 /\ t[Len(s) + 1] = v
      /\ \A i \in 1..Len(s) : t[i] = s[i]
  BY <1>1
<1>3. t # <<>>
  BY <1>1, <1>2
<1> HIDE DEF t
<1>4. ASSUME NEW i \in 1..Len(t)
      PROVE  GoodField(p, t[i]) /\ t[i].field = IF i = 1 THEN f ELSE NextField(p, t[i - 1])
  <2>1. CASE i \in 1..Len(s)
    <3>1. t[i] = s[i] /\ (i # 1 => t[i - 1] = s[i - 1])
      BY <1>1, <1>2, <2>1
    <3> QED BY <2>1, <3>1, Zenon DEF Chain
  <2>2. CASE i = Len(s) + 1
    <3>1. CASE s = <<>>
      BY <1>2, <2>2, <3>1 DEF After
    <3>2. CASE s # <<>>
      <4>1. Len(s) \in 1..Len(s) /\ i # 1 /\ i - 1 = Len(s)
        BY <1>1, <2>2, <3>2
      <4> QED BY <1>2, <2>2, <3>2, <4>1, Zenon DEF After
    <3> QED BY <3>1, <3>2, Zenon
  <2> QED BY <1>1, <1>2, <2>1, <2>2
<1>5. Chain(p, f, t)
  BY <1>2, <1>4, Zenon DEF Chain
<1>6. After(p, f, t) = NextField(p, v)
  BY <1>2, <1>3, Zenon DEF After
<1> QED BY <1>5, <1>6, Zenon DEF t

\* A chain without its first field.
LEMMA ChainTail ==
    ASSUME NEW p, NEW f, NEW s, Chain(p, f, s), s # <<>>
    PROVE  /\ Head(s) \in Fields /\ GoodField(p, Head(s)) /\ Head(s).field = f
           /\ Chain(p, NextField(p, Head(s)), Tail(s))
           /\ After(p, NextField(p, Head(s)), Tail(s)) = After(p, f, s)
<1> DEFINE t == Tail(s)
           h == Head(s)
<1>1. s \in Seq(Fields) /\ Len(s) \in Nat \ {0}
  BY DEF Chain
<1>2. /\ t \in Seq(Fields) /\ Len(t) = Len(s) - 1 /\ h = s[1] /\ h \in Fields
      /\ \A i \in 1..Len(t) : t[i] = s[i + 1]
  BY <1>1
<1> HIDE DEF t, h
<1>3. GoodField(p, h) /\ h.field = f
  BY <1>1, <1>2 DEF Chain
<1>4. ASSUME NEW i \in 1..Len(t)
      PROVE  GoodField(p, t[i]) /\ t[i].field = IF i = 1 THEN NextField(p, h) ELSE NextField(p, t[i - 1])
  <2>1. i + 1 \in 1..Len(s) /\ i + 1 # 1 /\ (i + 1) - 1 = i /\ t[i] = s[i + 1]
    BY <1>1, <1>2
  <2>2. GoodField(p, s[i + 1]) /\ s[i + 1].field = NextField(p, s[(i + 1) - 1])
    BY <2>1, Zenon DEF Chain
  <2>3. i # 1 => t[i - 1] = s[i]
    BY <1>1, <1>2
  <2> QED BY <1>2, <2>1, <2>2, <2>3, Zenon
<1>5. Chain(p, NextField(p, h), t)
  BY <1>2, <1>4, Zenon DEF Chain
<1>6. After(p, NextField(p, h), t) = After(p, f, s)
  <2>1. CASE Len(s) = 1
    <3>1. t = <<>>
      BY <1>1, <1>2, <2>1
    <3> QED BY <1>2, <2>1, <3>1, Zenon DEF After
  <2>2. CASE Len(s) # 1
    <3>1. Len(t) \in 1..Len(t) /\ Len(t) + 1 = Len(s) /\ t # <<>>
      BY <1>1, <1>2, <2>2
    <3> QED BY <1>2, <3>1, Zenon DEF After
  <2> QED BY <2>1, <2>2, Zenon
<1> QED BY <1>2, <1>3, <1>5, <1>6, Zenon DEF t, h

\* Two chains in a row.
LEMMA ChainConcat ==
    ASSUME NEW p, NEW f, NEW s, NEW t, Chain(p, f, s), Chain(p, After(p, f, s), t)
    PROVE  Chain(p, f, s \o t) /\ After(p, f, s \o t) = After(p, After(p, f, s), t)
<1> DEFINE u == s \o t
           m == Len(s)
           n == Len(t)
<1>1. s \in Seq(Fields) /\ t \in Seq(Fields) /\ m \in Nat /\ n \in Nat
  BY DEF Chain
<1>2. /\ u \in Seq(Fields) /\ Len(u) = m + n
      /\ \A i \in 1..(m + n) : u[i] = IF i <= m THEN s[i] ELSE t[i - m]
  BY <1>1, ConcatProperties, Zenon
<1> HIDE DEF u
<1>3. ASSUME NEW i \in 1..(m + n)
      PROVE  GoodField(p, u[i]) /\ u[i].field = IF i = 1 THEN f ELSE NextField(p, u[i - 1])
  <2>1. CASE i <= m
    <3>1. i \in 1..m /\ u[i] = s[i] /\ (i # 1 => u[i - 1] = s[i - 1])
      BY <1>1, <1>2, <2>1, SMTT(30)
    <3> QED BY <3>1, Zenon DEF Chain
  <2>2. CASE i = m + 1
    <3>1. 1 \in 1..n /\ i - m = 1 /\ ~(i <= m)
      BY <1>1, <2>2
    <3>2. u[i] = t[1] /\ GoodField(p, t[1]) /\ t[1].field = After(p, f, s)
      BY <1>2, <3>1, Zenon DEF Chain
    <3>3. CASE m = 0
      <4>1. s = <<>> /\ i = 1
        BY <1>1, <2>2, <3>3
      <4> QED BY <3>2, <4>1, Zenon DEF After
    <3>4. CASE m # 0
      <4>1. s # <<>> /\ i # 1 /\ i - 1 = m /\ i - 1 \in 1..(m + n) /\ i - 1 <= m
        BY <1>1, <2>2, <3>4
      <4>2. u[i - 1] = s[m]
        BY <1>2, <4>1, Zenon
      <4> QED BY <3>2, <4>1, <4>2, Zenon DEF After
    <3> QED BY <3>3, <3>4, Zenon
  <2>3. CASE i > m + 1
    <3>1. /\ i - m \in 1..n /\ i - m # 1 /\ ~(i <= m) /\ i - 1 \in 1..(m + n) /\ ~(i - 1 <= m)
          /\ (i - 1) - m = (i - m) - 1 /\ i # 1
      BY <1>1, <2>3
    <3>2. u[i] = t[i - m] /\ u[i - 1] = t[(i - m) - 1]
      BY <1>2, <3>1, Zenon
    <3>3. GoodField(p, t[i - m]) /\ t[i - m].field = NextField(p, t[(i - m) - 1])
      BY <3>1, Zenon DEF Chain
    <3> QED BY <3>1, <3>2, <3>3, Zenon
  <2> QED BY <1>1, <2>1, <2>2, <2>3
<1>4. Chain(p, f, u)
  BY <1>2, <1>3, Zenon DEF Chain
<1>5. After(p, f, u) = After(p, After(p, f, s), t)
  <2>1. CASE n = 0
    <3>1. t = <<>>
      BY <1>1, <2>1
    <3>2. CASE m = 0
      <4>1. s = <<>> /\ u = <<>>
        BY <1>1, <1>2, <2>1, <3>2
      <4> QED BY <3>1, <4>1, Zenon DEF After
    <3>3. CASE m # 0
      <4>1. s # <<>> /\ u # <<>> /\ Len(u) = m /\ m \in 1..(m + n) /\ m <= m
        BY <1>1, <1>2, <2>1, <3>3
      <4>2. u[Len(u)] = s[m]
        BY <1>2, <4>1, Zenon
      <4> QED BY <3>1, <4>1, <4>2, Zenon DEF After
    <3> QED BY <3>2, <3>3, Zenon
  <2>2. CASE n # 0
    <3>1. t # <<>> /\ u # <<>> /\ m + n \in 1..(m + n) /\ ~(m + n <= m) /\ (m + n) - m = n
      BY <1>1, <1>2, <2>2
    <3>2. u[Len(u)] = t[n]
      BY <1>2, <3>1, Zenon
    <3> QED BY <3>1, <3>2, Zenon DEF After
  <2> QED BY <2>1, <2>2, Zenon
<1> QED BY <1>4, <1>5, Zenon DEF u

\* One field.
LEMMA ChainOne ==
    ASSUME NEW p, NEW v \in Fields, GoodField(p, v)
    PROVE  Chain(p, v.field, <<v>>) /\ After(p, v.field, <<v>>) = NextField(p, v)
BY DEF Chain, After

\* What WSSendMessage() writes for a part that needs no 64-bit length.
LEMMA FrameChain ==
    ASSUME NEW e \in Ends, NEW op \in Opcodes, NEW size \in Sizes, size < Limit64, NEW fin \in BOOLEAN
    PROVE  Chain(e, "head", Frame(e, op, size, fin)) /\ After(e, "head", Frame(e, op, size, fin)) = "head"
<1> DEFINE h == Field("head", [op |-> op, fin |-> fin, payload |-> Payload(size), mask |-> e = "client"])
           l == Field("len16", size)
           k == Field("mask", 0)
           d == Data(e, size)
           ls == LengthField(size)
           ks == IF e = "client" THEN <<k>> ELSE <<>>
<1>1. size \in Nat /\ Limit16 \in 1..126 /\ Limit64 \in Nat
  BY WebSocketAssumption, Zenon
<1>2. Payload(size) \in Nat /\ Payload(size) # 127
  BY <1>1 DEF Payload
<1>3. (e = "client") \in BOOLEAN /\ op \notin {"PING", "PONG"}
  BY Zenon DEF Opcodes
<1>4. [op |-> op, fin |-> fin, payload |-> Payload(size), mask |-> e = "client"] \in Values
  BY <1>2, <1>3, Zenon DEF Values
<1>5. h \in Fields /\ GoodField(e, h) /\ h.field = "head"
      /\ NextField(e, h) = IF Payload(size) = 126 THEN "len16" ELSE Key(e)
  BY <1>2, <1>3, <1>4, Zenon DEF Field, Fields, GoodField, NextField
<1>6. l \in Fields /\ GoodField(e, l) /\ l.field = "len16" /\ NextField(e, l) = Key(e)
  BY <1>1, Zenon DEF Field, Fields, GoodField, NextField, Values
<1>7. k \in Fields /\ GoodField(e, k) /\ k.field = "mask" /\ NextField(e, k) = "data"
  BY Zenon DEF Field, Fields, GoodField, NextField, Values
<1>8. d \in Fields /\ GoodField(e, d) /\ d.field = "data" /\ NextField(e, d) = "head"
  BY <1>1, <1>3, Zenon DEF Data, Field, Fields, GoodField, NextField, Values
<1>9. Frame(e, op, size, fin) = ((<<h>> \o ls) \o ks) \o <<d>>
  BY Zenon DEF Frame
<1>10. ls = IF Payload(size) = 126 THEN <<l>> ELSE <<>>
  BY <1>2, Zenon DEF LengthField
<1> HIDE DEF h, l, k, d, ls
<1>11. Chain(e, "head", <<h>>) /\ After(e, "head", <<h>>) = IF Payload(size) = 126 THEN "len16" ELSE Key(e)
  BY <1>5, ChainOne, Zenon
<1>12. Chain(e, After(e, "head", <<h>>), ls) /\ After(e, After(e, "head", <<h>>), ls) = Key(e)
  <2>1. CASE Payload(size) = 126
    BY <1>6, <1>10, <1>11, <2>1, ChainOne
  <2>2. CASE Payload(size) # 126
    BY <1>10, <1>11, <2>2, ChainEmpty, Zenon
  <2> QED BY <2>1, <2>2, Zenon
<1>13. Chain(e, "head", <<h>> \o ls) /\ After(e, "head", <<h>> \o ls) = Key(e)
  BY <1>11, <1>12, ChainConcat
<1>14. Chain(e, Key(e), ks) /\ After(e, Key(e), ks) = "data"
  <2>1. CASE e = "client"
    BY <1>7, <2>1, ChainOne, Zenon DEF Key
  <2>2. CASE e # "client"
    BY <2>2, ChainEmpty, Zenon DEF Key
  <2> QED BY <2>1, <2>2, Zenon
<1> HIDE DEF ks
<1>15. Chain(e, "head", (<<h>> \o ls) \o ks) /\ After(e, "head", (<<h>> \o ls) \o ks) = "data"
  BY <1>13, <1>14, ChainConcat
<1>16. Chain(e, "data", <<d>>) /\ After(e, "data", <<d>>) = "head"
  BY <1>8, ChainOne, Zenon
<1> DEFINE u == (<<h>> \o ls) \o ks
<1>17. Chain(e, "head", u) /\ After(e, "head", u) = "data"
  BY <1>15, Zenon
<1> HIDE DEF u
<1>18. Chain(e, "head", u \o <<d>>) /\ After(e, "head", u \o <<d>>) = "head"
  BY <1>16, <1>17, ChainConcat
<1> QED BY <1>9, <1>18, Zenon DEF u

\* The head of a ping or a pong.
LEMMA ControlChain ==
    ASSUME NEW e, NEW op \in {"PING", "PONG"}
    PROVE  /\ Control(op) \in Fields /\ GoodField(e, Control(op)) /\ Control(op).field = "head"
           /\ NextField(e, Control(op)) = "head"
           /\ Chain(e, "head", <<Control(op)>>) /\ After(e, "head", <<Control(op)>>) = "head"
<1>1. [op |-> op, fin |-> TRUE, payload |-> 0, mask |-> FALSE] \in Values
  BY Zenon DEF Values
<1>2. /\ Control(op) \in Fields /\ GoodField(e, Control(op)) /\ Control(op).field = "head"
      /\ NextField(e, Control(op)) = "head"
  BY <1>1, Zenon DEF Control, Field, Fields, GoodField, NextField
<1> QED BY <1>2, ChainOne, Zenon

(***************************************************************************)
(* The inductive invariant: what is on the way to an end, and what the      *)
(* other end has still to write, is a chain of whole frames from the field  *)
(* that the end reads next.                                                 *)
(***************************************************************************)
Waits(r) == IF r \in {"len16", "mask", "data"} THEN r ELSE "head"

InStep(p, first, w, t, alive) ==
    /\ Chain(p, first, w)
    /\ alive => Chain(p, After(p, first, w), t) /\ After(p, After(p, first, w), t) = "head"

Sync == \A e \in Ends : open[e] => InStep(Peer(e), Waits(rx[e]), wire[e], tx[Peer(e)], open[Peer(e)])

WSTypes ==
    /\ wire \in [Ends -> Seq(Fields)] /\ tx \in [Ends -> Seq(Fields)]
    /\ open \in [Ends -> BOOLEAN]
    /\ rx \in [Ends -> {"idle", "head", "len16", "mask", "data", "pong"}]
    /\ DOMAIN head = Ends /\ head = [e \in Ends |-> head[e]]

\* An end does one thing at a time, and nothing once it has closed its stream.
Turns == \A e \in Ends : (rx[e] = "idle" \/ tx[e] = <<>>) /\ (~open[e] => rx[e] = "idle")

\* An end that reads a length knows whether a mask follows.
Masks == \A e \in Ends : rx[e] = "len16" => head[e].mask = (Peer(e) = "client")

WSInv == WSTypes /\ Turns /\ Masks /\ Sync

\* The ends.
LEMMA Peers ==
    \A e \in Ends : Peer(e) \in Ends /\ Peer(e) # e /\ Peer(Peer(e)) = e /\ Ends = {e, Peer(e)}
BY Zenon DEF Ends, Peer

\* A read of the field at the front keeps the reader in step.
LEMMA ReadsInStep ==
    ASSUME NEW p, NEW f, NEW w, NEW t, NEW alive, InStep(p, f, w, t, alive), w # <<>>
    PROVE  /\ Head(w) \in Fields /\ GoodField(p, Head(w)) /\ Head(w).field = f
           /\ InStep(p, NextField(p, Head(w)), Tail(w), t, alive)
BY ChainTail, Zenon DEF InStep

\* A write of the field that is due.
LEMMA WritesInStep ==
    ASSUME NEW p, NEW f, NEW w, NEW t, InStep(p, f, w, t, TRUE), t # <<>>
    PROVE  InStep(p, f, Append(w, Head(t)), Tail(t), TRUE)
<1>1. /\ Head(t) \in Fields /\ GoodField(p, Head(t)) /\ Head(t).field = After(p, f, w)
      /\ Chain(p, NextField(p, Head(t)), Tail(t))
      /\ After(p, NextField(p, Head(t)), Tail(t)) = "head"
  BY ChainTail DEF InStep
<1>2. Chain(p, f, Append(w, Head(t))) /\ After(p, f, Append(w, Head(t))) = NextField(p, Head(t))
  BY <1>1, ChainAppend, Zenon DEF InStep
<1> QED BY <1>1, <1>2, Zenon DEF InStep

\* A sender with nothing left to write may start a frame.
LEMMA StartsInStep ==
    ASSUME NEW p, NEW f, NEW w, NEW t, InStep(p, f, w, <<>>, TRUE),
           Chain(p, "head", t), After(p, "head", t) = "head"
    PROVE  InStep(p, f, w, t, TRUE)
<1>1. After(p, f, w) = "head"
  BY ChainEmpty, Zenon DEF InStep
<1> QED BY <1>1, Zenon DEF InStep

\* The ends may write and be read in any order: what one does as a reader, and
\* what it does as a sender, is all that counts.
LEMMA SyncStep ==
    ASSUME NEW e \in Ends,
           open'[e] => InStep(Peer(e), Waits(rx'[e]), wire'[e], tx'[Peer(e)], open'[Peer(e)]),
           open'[Peer(e)] => InStep(e, Waits(rx'[Peer(e)]), wire'[Peer(e)], tx'[e], open'[e])
    PROVE  Sync'
BY Peers DEF Sync

\* What the invariant says of an end and of the other one.
LEMMA BothEnds ==
    ASSUME WSInv, NEW e \in Ends, NEW q, q = Peer(e)
    PROVE  /\ q \in Ends /\ q # e /\ Peer(q) = e /\ Ends = {e, q}
           /\ wire[e] \in Seq(Fields) /\ wire[q] \in Seq(Fields)
           /\ tx[e] \in Seq(Fields) /\ tx[q] \in Seq(Fields)
           /\ open[e] \in BOOLEAN /\ open[q] \in BOOLEAN
           /\ open[e] => InStep(q, Waits(rx[e]), wire[e], tx[q], open[q])
           /\ open[q] => InStep(e, Waits(rx[q]), wire[q], tx[e], open[e])
BY Peers DEF WSInv, WSTypes, Sync

(***************************************************************************)
(* Each step keeps the invariant.                                           *)
(***************************************************************************)
\* sendMessage() and ping() put a whole frame where nothing was left to write.
LEMMA StartStep ==
    ASSUME ~Concurrent, WSInv, NEW e \in Ends, Call(e),
           NEW t, Chain(e, "head", t), After(e, "head", t) = "head",
           tx' = [tx EXCEPT ![e] = t], UNCHANGED <<stream, rx, head>>
    PROVE  WSInv'
<1> DEFINE q == Peer(e)
<1>1. q = Peer(e)
  BY Zenon
<1> HIDE DEF q
<1>2. /\ q \in Ends /\ q # e /\ Peer(q) = e /\ Ends = {e, q}
      /\ open[e] \in BOOLEAN /\ open[q] \in BOOLEAN
      /\ open[e] => InStep(q, Waits(rx[e]), wire[e], tx[q], open[q])
      /\ open[q] => InStep(e, Waits(rx[q]), wire[q], tx[e], open[e])
  BY <1>1, BothEnds, Zenon
<1>3. open[e] = TRUE /\ tx[e] = <<>> /\ rx[e] = "idle"
  BY <1>2, Zenon DEF Call
<1>4. wire' = wire /\ open' = open /\ rx' = rx /\ head' = head /\ tx \in [Ends -> Seq(Fields)]
  BY Zenon DEF stream, WSInv, WSTypes
<1>5. tx'[e] = t /\ tx'[q] = tx[q] /\ t \in Seq(Fields) /\ tx' \in [Ends -> Seq(Fields)]
  BY <1>2, <1>4, Zenon DEF Chain
<1>6. open'[e] => InStep(Peer(e), Waits(rx'[e]), wire'[e], tx'[Peer(e)], open'[Peer(e)])
  BY <1>1, <1>2, <1>4, <1>5, Zenon
<1>7. open'[Peer(e)] => InStep(e, Waits(rx'[Peer(e)]), wire'[Peer(e)], tx'[e], open'[e])
  <2>1. open[q] => InStep(e, Waits(rx[q]), wire[q], t, TRUE)
    BY <1>2, <1>3, StartsInStep, Zenon
  <2> QED BY <1>1, <1>3, <1>4, <1>5, <2>1, Zenon
<1>8. Sync'
  BY <1>6, <1>7, SyncStep, Zenon
<1>9. WSTypes'
  BY <1>4, <1>5, Zenon DEF WSInv, WSTypes
<1>10. Turns'
  BY <1>2, <1>3, <1>4, <1>5, Zenon DEF WSInv, Turns
<1>11. Masks'
  BY <1>4, Zenon DEF WSInv, Masks
<1> QED BY <1>8, <1>9, <1>10, <1>11, Zenon DEF WSInv

\* A write moves the field that is due; into nothing if the other end has closed.
LEMMA WriteFieldStep ==
    ASSUME ~Concurrent, WSInv, NEW e \in Ends, WriteField(e)
    PROVE  WSInv'
<1> DEFINE q == Peer(e)
<1>1. q = Peer(e)
  BY Zenon
<1> HIDE DEF q
<1>2. /\ q \in Ends /\ q # e /\ Peer(q) = e /\ Ends = {e, q}
      /\ wire[e] \in Seq(Fields) /\ wire[q] \in Seq(Fields) /\ tx[e] \in Seq(Fields)
      /\ open[e] \in BOOLEAN /\ open[q] \in BOOLEAN
      /\ open[e] => InStep(q, Waits(rx[e]), wire[e], tx[q], open[q])
      /\ open[q] => InStep(e, Waits(rx[q]), wire[q], tx[e], open[e])
  BY <1>1, BothEnds, Zenon
<1>3. /\ tx[e] # <<>> /\ open[e] = TRUE /\ rx[e] = "idle"
      /\ tx' = [tx EXCEPT ![e] = Tail(@)] /\ open' = open /\ rx' = rx /\ head' = head
      /\ wire' = IF open[q] THEN [wire EXCEPT ![q] = Append(@, tx[e][1])] ELSE wire
  BY <1>1, <1>2, Zenon DEF WriteField, Deliver, WSInv, Turns
<1>4. /\ wire \in [Ends -> Seq(Fields)] /\ tx \in [Ends -> Seq(Fields)]
  BY Zenon DEF WSInv, WSTypes
<1>5. /\ tx[e][1] = Head(tx[e]) /\ tx[e][1] \in Fields /\ Tail(tx[e]) \in Seq(Fields)
  BY <1>2, <1>3
<1>6. /\ tx'[e] = Tail(tx[e]) /\ tx'[q] = tx[q] /\ wire'[e] = wire[e]
      /\ tx' \in [Ends -> Seq(Fields)]
  BY <1>2, <1>3, <1>4, <1>5, Zenon
<1>7. Append(wire[q], tx[e][1]) \in Seq(Fields)
  BY <1>2, <1>5
<1>8. wire' \in [Ends -> Seq(Fields)] /\ (open[q] => wire'[q] = Append(wire[q], Head(tx[e])))
  BY <1>2, <1>3, <1>4, <1>5, <1>7, Zenon
<1>9. open'[e] => InStep(Peer(e), Waits(rx'[e]), wire'[e], tx'[Peer(e)], open'[Peer(e)])
  BY <1>1, <1>2, <1>3, <1>6, Zenon
<1>10. open'[Peer(e)] => InStep(e, Waits(rx'[Peer(e)]), wire'[Peer(e)], tx'[e], open'[e])
  <2>1. open[q] => InStep(e, Waits(rx[q]), Append(wire[q], Head(tx[e])), Tail(tx[e]), TRUE)
    BY <1>2, <1>3, WritesInStep, Zenon
  <2> QED BY <1>1, <1>3, <1>6, <1>8, <2>1, Zenon
<1>11. Sync'
  BY <1>9, <1>10, SyncStep, Zenon
<1>12. WSTypes'
  BY <1>3, <1>6, <1>8, Zenon DEF WSInv, WSTypes
<1>13. Turns'
  BY <1>2, <1>3, <1>6, Zenon DEF WSInv, Turns
<1>14. Masks'
  BY <1>3, Zenon DEF WSInv, Masks
<1> QED BY <1>11, <1>12, <1>13, <1>14, Zenon DEF WSInv

\* An end that closes its stream reads no more, and what it wrote stays as it is.
LEMMA CloseStep ==
    ASSUME WSInv, NEW e \in Ends, open' = [open EXCEPT ![e] = FALSE], rx' = [rx EXCEPT ![e] = "idle"],
           wire' \in [Ends -> Seq(Fields)], wire'[Peer(e)] = wire[Peer(e)],
           tx' \in [Ends -> Seq(Fields)], tx'[Peer(e)] = tx[Peer(e)],
           DOMAIN head' = Ends, head' = [x \in Ends |-> head'[x]], head'[Peer(e)] = head[Peer(e)]
    PROVE  WSInv'
<1> DEFINE q == Peer(e)
<1>1. q = Peer(e)
  BY Zenon
<1> HIDE DEF q
<1>2. /\ q \in Ends /\ q # e /\ Peer(q) = e /\ Ends = {e, q} /\ open[q] \in BOOLEAN
      /\ open[q] => InStep(e, Waits(rx[q]), wire[q], tx[e], open[e])
  BY <1>1, BothEnds, Zenon
<1>3. /\ open \in [Ends -> BOOLEAN] /\ rx \in [Ends -> {"idle", "head", "len16", "mask", "data", "pong"}]
      /\ rx[q] = "idle" \/ tx[q] = <<>>
      /\ ~open[q] => rx[q] = "idle"
      /\ rx[q] = "len16" => head[q].mask = (Peer(q) = "client")
  BY <1>2, Zenon DEF WSInv, WSTypes, Turns, Masks
<1>4. open'[e] = FALSE /\ open'[q] = open[q] /\ rx'[e] = "idle" /\ rx'[q] = rx[q]
  BY <1>2, <1>3, Zenon
<1>5. open'[e] => InStep(Peer(e), Waits(rx'[e]), wire'[e], tx'[Peer(e)], open'[Peer(e)])
  BY <1>4, Zenon
<1>6. open'[Peer(e)] => InStep(e, Waits(rx'[Peer(e)]), wire'[Peer(e)], tx'[e], open'[e])
  <2>1. open[q] => InStep(e, Waits(rx[q]), wire[q], tx'[e], FALSE)
    BY <1>2, Zenon DEF InStep
  <2> QED BY <1>1, <1>4, <2>1, Zenon
<1>7. Sync'
  BY <1>5, <1>6, SyncStep, Zenon
<1>8. WSTypes'
  BY <1>3, Zenon DEF WSTypes
<1>9. Turns'
  BY <1>1, <1>2, <1>3, <1>4, Zenon DEF Turns
<1>10. Masks'
  BY <1>1, <1>2, <1>3, <1>4, ZenonT(60) DEF Masks
<1> QED BY <1>7, <1>8, <1>9, <1>10, Zenon DEF WSInv

\* An end that reads the field at the front and goes on to the one after it.
LEMMA ReadStep ==
    ASSUME WSInv, NEW e \in Ends, rx[e] # "idle", open[e], wire[e] # <<>>,
           wire' = [wire EXCEPT ![e] = Tail(@)], UNCHANGED <<open, tx>>,
           NEW r \in {"idle", "head", "len16", "mask", "data", "pong"}, rx' = [rx EXCEPT ![e] = r],
           Waits(r) = NextField(Peer(e), Head(wire[e])),
           NEW h, head' = [head EXCEPT ![e] = h], r = "len16" => h.mask = (Peer(e) = "client")
    PROVE  WSInv'
<1> DEFINE q == Peer(e)
<1>1. q = Peer(e)
  BY Zenon
<1> HIDE DEF q
<1>2. /\ q \in Ends /\ q # e /\ Peer(q) = e /\ Ends = {e, q}
      /\ wire[e] \in Seq(Fields) /\ open[e] \in BOOLEAN /\ open[q] \in BOOLEAN
      /\ InStep(q, Waits(rx[e]), wire[e], tx[q], open[q])
      /\ open[q] => InStep(e, Waits(rx[q]), wire[q], tx[e], open[e])
  BY <1>1, BothEnds, Zenon
<1>3. /\ rx \in [Ends -> {"idle", "head", "len16", "mask", "data", "pong"}]
      /\ wire \in [Ends -> Seq(Fields)] /\ tx[e] = <<>> /\ (rx[q] = "idle" \/ tx[q] = <<>>)
      /\ (~open[q] => rx[q] = "idle") /\ DOMAIN head = Ends
      /\ rx[q] = "len16" => head[q].mask = (Peer(q) = "client")
  BY <1>2, Zenon DEF WSInv, WSTypes, Turns, Masks
<1>4. /\ rx'[e] = r /\ rx'[q] = rx[q] /\ wire'[e] = Tail(wire[e]) /\ wire'[q] = wire[q]
      /\ head'[e] = h /\ head'[q] = head[q]
  BY <1>2, <1>3, Zenon
<1>5. open'[e] => InStep(Peer(e), Waits(rx'[e]), wire'[e], tx'[Peer(e)], open'[Peer(e)])
  <2>1. InStep(q, NextField(q, Head(wire[e])), Tail(wire[e]), tx[q], open[q])
    BY <1>2, ReadsInStep, Zenon
  <2> QED BY <1>1, <1>4, <2>1, Zenon
<1>6. open'[Peer(e)] => InStep(e, Waits(rx'[Peer(e)]), wire'[Peer(e)], tx'[e], open'[e])
  BY <1>1, <1>2, <1>4, Zenon
<1>7. Sync'
  BY <1>5, <1>6, SyncStep, Zenon
<1>8. Tail(wire[e]) \in Seq(Fields)
  BY <1>2
<1>9. WSTypes'
  BY <1>3, <1>8, Zenon DEF WSInv, WSTypes
<1>10. Turns'
  BY <1>2, <1>3, <1>4, Zenon DEF Turns
<1>11. Masks'
  BY <1>1, <1>2, <1>3, <1>4, ZenonT(60) DEF Masks
<1> QED BY <1>7, <1>9, <1>10, <1>11, Zenon DEF WSInv

\* A failed write: the end was sending, not receiving.
LEMMA WriteFailsStep ==
    ASSUME ~Concurrent, WSInv, NEW e \in Ends, WriteFails(e)
    PROVE  WSInv'
<1>1. /\ tx \in [Ends -> Seq(Fields)] /\ wire \in [Ends -> Seq(Fields)]
      /\ rx \in [Ends -> {"idle", "head", "len16", "mask", "data", "pong"}]
      /\ DOMAIN head = Ends /\ head = [x \in Ends |-> head[x]]
  BY Zenon DEF WSInv, WSTypes
<1>2. /\ tx[e] # <<>> /\ tx' = [tx EXCEPT ![e] = <<>>] /\ open' = [open EXCEPT ![e] = FALSE]
      /\ wire' = wire /\ rx' = rx /\ head' = head
  BY Zenon DEF WriteFails
<1>3. rx[e] = "idle"
  BY <1>2, Zenon DEF WSInv, Turns
<1>4. rx' = [rx EXCEPT ![e] = "idle"]
  BY <1>1, <1>2, <1>3, Zenon
<1>5. tx' \in [Ends -> Seq(Fields)] /\ tx'[Peer(e)] = tx[Peer(e)]
  BY <1>1, <1>2, Peers
<1>6. /\ wire' \in [Ends -> Seq(Fields)] /\ wire'[Peer(e)] = wire[Peer(e)]
      /\ DOMAIN head' = Ends /\ head' = [x \in Ends |-> head'[x]] /\ head'[Peer(e)] = head[Peer(e)]
  BY <1>1, <1>2, Zenon
<1>7. open' = [open EXCEPT ![e] = FALSE]
  BY <1>2, Zenon
<1> QED BY <1>4, <1>5, <1>6, <1>7, CloseStep, Zenon

\* recvMessage() is called: the next field is a head, as it was before.
LEMMA ReceiveStep ==
    ASSUME ~Concurrent, WSInv, NEW e \in Ends, Receive(e)
    PROVE  WSInv'
<1> DEFINE q == Peer(e)
<1>1. q = Peer(e)
  BY Zenon
<1> HIDE DEF q
<1>2. /\ q \in Ends /\ q # e /\ Peer(q) = e /\ Ends = {e, q}
      /\ open[e] => InStep(q, Waits(rx[e]), wire[e], tx[q], open[q])
      /\ open[q] => InStep(e, Waits(rx[q]), wire[q], tx[e], open[e])
  BY <1>1, BothEnds, Zenon
<1>3. /\ rx \in [Ends -> {"idle", "head", "len16", "mask", "data", "pong"}]
      /\ rx[e] = "idle" /\ tx[e] = <<>> /\ open[e] /\ rx' = [rx EXCEPT ![e] = "head"]
      /\ wire' = wire /\ open' = open /\ tx' = tx /\ head' = head
  BY Zenon DEF Receive, stream, WSInv, WSTypes
<1>4. rx'[e] = "head" /\ rx'[q] = rx[q] /\ Waits(rx'[e]) = Waits(rx[e])
  BY <1>2, <1>3, Zenon DEF Waits
<1>5. Sync'
  BY <1>1, <1>2, <1>3, <1>4, SyncStep, Zenon
<1>6. WSTypes'
  BY <1>3, Zenon DEF WSInv, WSTypes
<1>7. Turns'
  BY <1>2, <1>3, <1>4, Zenon DEF WSInv, Turns
<1>8. Masks'
  BY <1>2, <1>3, <1>4, Zenon DEF WSInv, Masks
<1> QED BY <1>5, <1>6, <1>7, <1>8, Zenon DEF WSInv

\* The field that recvMessage() takes is the one that is due, and good.
LEMMA Taken ==
    ASSUME WSInv, NEW e \in Ends, NEW at, NEW field, at # "idle", Take(e, at, field)
    PROVE  /\ rx[e] = at /\ open[e] /\ wire[e] # <<>> /\ Head(wire[e]).field = field
           /\ GoodField(Peer(e), Head(wire[e]))
           /\ wire' = [wire EXCEPT ![e] = Tail(@)]
           /\ wire' \in [Ends -> Seq(Fields)] /\ wire'[Peer(e)] = wire[Peer(e)]
<1>1. /\ rx[e] = at /\ open[e] /\ wire[e] # <<>> /\ Head(wire[e]).field = field
      /\ wire' = [wire EXCEPT ![e] = Tail(@)]
  BY Zenon DEF Take
<1>2. InStep(Peer(e), Waits(rx[e]), wire[e], tx[Peer(e)], open[Peer(e)]) /\ wire[e] \in Seq(Fields)
  BY <1>1, BothEnds, Zenon
<1>3. GoodField(Peer(e), Head(wire[e]))
  BY <1>1, <1>2, ReadsInStep, Zenon
<1>4. wire \in [Ends -> Seq(Fields)] /\ Tail(wire[e]) \in Seq(Fields)
  BY <1>1, <1>2 DEF WSInv, WSTypes
<1> QED BY <1>1, <1>3, <1>4, Peers, Zenon

\* After a head comes what the sender writes after that head, or nothing.
LEMMA ReadHeadStep ==
    ASSUME WSInv, NEW e \in Ends, ReadHead(e)
    PROVE  WSInv'
<1> DEFINE v == Head(wire[e])
           h == v.value
           q == Peer(e)
<1>1. /\ rx[e] = "head" /\ open[e] /\ wire[e] # <<>> /\ v.field = "head" /\ GoodField(q, v)
      /\ wire' = [wire EXCEPT ![e] = Tail(@)]
      /\ wire' \in [Ends -> Seq(Fields)] /\ wire'[q] = wire[q]
  BY Taken, SMTT(30) DEF ReadHead
<1>2. head' = [head EXCEPT ![e] = h] /\ tx' = tx
  BY Zenon DEF ReadHead
<1>3. /\ tx \in [Ends -> Seq(Fields)] /\ DOMAIN head = Ends /\ head = [x \in Ends |-> head[x]]
      /\ rx \in [Ends -> {"idle", "head", "len16", "mask", "data", "pong"}]
  BY Zenon DEF WSInv, WSTypes
<1>4. DOMAIN head' = Ends /\ head' = [x \in Ends |-> head'[x]] /\ head'[q] = head[q]
  <2> HIDE DEF h
  <2>1. q \in Ends /\ q # e
    BY Peers, Zenon
  <2>2. DOMAIN head' = Ends
    BY <1>2, <1>3, Zenon
  <2>3. head' = [x \in Ends |-> head'[x]]
    BY <1>2, <1>3, Zenon
  <2>4. head'[q] = head[q]
    BY <1>2, <1>3, <2>1, Zenon
  <2> QED BY <2>2, <2>3, <2>4, Zenon
<1>5. CASE Leave(e)
  <2>1. open' = [open EXCEPT ![e] = FALSE] /\ rx' = [rx EXCEPT ![e] = "idle"]
    BY <1>5, Zenon DEF Leave
  <2> QED BY <1>1, <1>2, <1>3, <1>4, <2>1, CloseStep, Zenon
<1>6. CASE h.op = "PING" /\ rx' = [rx EXCEPT ![e] = "pong"] /\ UNCHANGED open
  <2>1. Waits("pong") = NextField(q, v)
    BY <1>1, <1>6, Zenon DEF Waits, NextField
  <2> QED BY <1>1, <1>2, <1>6, <2>1, ReadStep, Zenon
<1>7. CASE h.op = "PONG" /\ UNCHANGED <<rx, open>>
  <2>1. Waits("head") = NextField(q, v)
    BY <1>1, <1>7, Zenon DEF Waits, NextField
  <2>2. rx' = [rx EXCEPT ![e] = "head"]
    BY <1>1, <1>3, <1>7, Zenon
  <2> QED BY <1>1, <1>2, <1>7, <2>1, <2>2, ReadStep, Zenon
<1>8. CASE /\ h.op \in {"CONTINUE", "TEXT_FRAME"} /\ h.payload \in {126, 127}
           /\ rx' = [rx EXCEPT ![e] = IF h.payload = 126 THEN "len16" ELSE "len64"]
           /\ UNCHANGED open
  <2>1. h.payload = 126 /\ h.mask = (q = "client")
    BY <1>1, <1>8, Zenon DEF GoodField
  <2>2. Waits("len16") = NextField(q, v)
    BY <1>1, <1>8, <2>1, Zenon DEF Waits, NextField
  <2> QED BY <1>1, <1>2, <1>8, <2>1, <2>2, ReadStep, Zenon
<1>9. CASE /\ h.op \in {"CONTINUE", "TEXT_FRAME"} /\ h.payload \notin {126, 127}
           /\ rx' = [rx EXCEPT ![e] = AfterLength(h)]
           /\ UNCHANGED open
  <2>1. h.mask = (q = "client")
    BY <1>1, <1>9, Zenon DEF GoodField
  <2>2. AfterLength(h) = Key(q) /\ Key(q) \in {"mask", "data"}
    BY <2>1, Zenon DEF AfterLength, Key
  <2> DEFINE r == Key(q)
  <2>3. Waits(r) = NextField(q, v) /\ r # "len16" /\ r \in {"mask", "data"}
    BY <1>1, <1>9, <2>2, Zenon DEF Waits, NextField
  <2>4. rx' = [rx EXCEPT ![e] = r] /\ open' = open
    BY <1>9, <2>2, Zenon
  <2> HIDE DEF r, h
  <2> QED BY <1>1, <1>2, <2>3, <2>4, ReadStep, Zenon
<1> QED BY <1>5, <1>6, <1>7, <1>8, <1>9, ZenonT(60) DEF ReadHead

\* After the length comes the mask or the data, as the head announced.
LEMMA ReadLengthStep ==
    ASSUME WSInv, NEW e \in Ends, ReadLength(e)
    PROVE  WSInv'
<1> DEFINE v == Head(wire[e])
           q == Peer(e)
<1>1. /\ rx[e] = "len16" /\ open[e] /\ wire[e] # <<>> /\ v.field = "len16"
      /\ wire' = [wire EXCEPT ![e] = Tail(@)]
      /\ wire' \in [Ends -> Seq(Fields)] /\ wire'[q] = wire[q]
  BY Taken, ZenonT(60) DEF ReadLength
<1>2. head' = head /\ tx' = tx
  BY Zenon DEF ReadLength
<1>3. tx \in [Ends -> Seq(Fields)] /\ DOMAIN head = Ends /\ head = [x \in Ends |-> head[x]]
  BY Zenon DEF WSInv, WSTypes
<1>4. CASE Leave(e)
  <2>1. open' = [open EXCEPT ![e] = FALSE] /\ rx' = [rx EXCEPT ![e] = "idle"]
    BY <1>4, Zenon DEF Leave
  <2>2. tx' \in [Ends -> Seq(Fields)] /\ tx'[q] = tx[q]
    BY <1>2, <1>3, Zenon
  <2>3. DOMAIN head' = Ends /\ head' = [x \in Ends |-> head'[x]] /\ head'[q] = head[q]
    BY <1>2, <1>3, Zenon
  <2> QED BY <1>1, <2>1, <2>2, <2>3, CloseStep, Zenon
<1>5. CASE rx' = [rx EXCEPT ![e] = AfterLength(head[e])] /\ UNCHANGED open
  <2>1. head[e].mask = (q = "client")
    BY <1>1, Zenon DEF WSInv, Masks
  <2>2. AfterLength(head[e]) = Key(q) /\ Key(q) \in {"mask", "data"}
    BY <2>1, Zenon DEF AfterLength, Key
  <2>3. Waits(Key(q)) = NextField(q, v) /\ Key(q) # "len16"
    BY <1>1, <2>2, Zenon DEF Waits, NextField
  <2>4. head' = [head EXCEPT ![e] = head[e]]
    BY <1>2, <1>3, Zenon
  <2> QED BY <1>1, <1>2, <1>5, <2>2, <2>3, <2>4, ReadStep, ZenonT(30)
<1> QED BY <1>4, <1>5, ZenonT(60) DEF ReadLength

\* After the mask comes the data.
LEMMA ReadMaskStep ==
    ASSUME WSInv, NEW e \in Ends, ReadMask(e)
    PROVE  WSInv'
<1> DEFINE v == Head(wire[e])
           q == Peer(e)
<1>1. /\ rx[e] = "mask" /\ open[e] /\ wire[e] # <<>> /\ v.field = "mask"
      /\ wire' = [wire EXCEPT ![e] = Tail(@)]
  BY Taken, ZenonT(60) DEF ReadMask
<1>2. head' = head /\ tx' = tx /\ open' = open /\ rx' = [rx EXCEPT ![e] = "data"]
  BY Zenon DEF ReadMask
<1>3. head' = [head EXCEPT ![e] = head[e]]
  BY <1>2, Zenon DEF WSInv, WSTypes
<1>4. Waits("data") = NextField(q, v)
  BY <1>1, Zenon DEF Waits, NextField
<1> QED BY <1>1, <1>2, <1>3, <1>4, ReadStep, Zenon

\* After the data comes a head.
LEMMA ReadDataStep ==
    ASSUME WSInv, NEW e \in Ends, ReadData(e)
    PROVE  WSInv'
<1> DEFINE v == Head(wire[e])
           q == Peer(e)
           r == IF head[e].fin THEN "idle" ELSE "head"
<1>1. /\ rx[e] = "data" /\ open[e] /\ wire[e] # <<>> /\ v.field = "data"
      /\ wire' = [wire EXCEPT ![e] = Tail(@)]
  BY Taken, ZenonT(60) DEF ReadData
<1>2. head' = head /\ tx' = tx /\ open' = open /\ rx' = [rx EXCEPT ![e] = r]
  BY Zenon DEF ReadData
<1>3. head' = [head EXCEPT ![e] = head[e]]
  BY <1>2, Zenon DEF WSInv, WSTypes
<1>4. r \in {"idle", "head"}
  BY Zenon
<1> HIDE DEF r
<1>5. Waits(r) = NextField(q, v) /\ r # "len16"
  BY <1>1, <1>4, Zenon DEF Waits, NextField
<1> QED BY <1>1, <1>2, <1>3, <1>4, <1>5, ReadStep, Zenon

\* A pong is written between frames: the end that answers is not sending.
LEMMA PongStep ==
    ASSUME WSInv, NEW e \in Ends, Pong(e)
    PROVE  WSInv'
<1> DEFINE q == Peer(e)
           c == Control("PONG")
<1>1. q = Peer(e)
  BY Zenon
<1> HIDE DEF q
<1>2. /\ q \in Ends /\ q # e /\ Peer(q) = e /\ Ends = {e, q}
      /\ wire[q] \in Seq(Fields) /\ open[e] \in BOOLEAN /\ open[q] \in BOOLEAN
      /\ open[e] => InStep(q, Waits(rx[e]), wire[e], tx[q], open[q])
      /\ open[q] => InStep(e, Waits(rx[q]), wire[q], tx[e], open[e])
  BY <1>1, BothEnds, Zenon
<1>3. /\ rx[e] = "pong" /\ open[e] = TRUE /\ rx' = [rx EXCEPT ![e] = "head"]
      /\ wire' = IF open[q] THEN [wire EXCEPT ![q] = Append(@, c)] ELSE wire
      /\ open' = open /\ tx' = tx /\ head' = head
  BY <1>1, <1>2, Zenon DEF Pong, Deliver
<1>4. /\ wire \in [Ends -> Seq(Fields)] /\ tx[e] = <<>>
      /\ rx \in [Ends -> {"idle", "head", "len16", "mask", "data", "pong"}]
  BY <1>3, Zenon DEF WSInv, WSTypes, Turns
<1>5. c \in Fields /\ GoodField(e, c) /\ c.field = "head" /\ NextField(e, c) = "head"
  BY ControlChain, Zenon
<1> HIDE DEF c
<1>6. rx'[e] = "head" /\ rx'[q] = rx[q] /\ Waits(rx'[e]) = Waits(rx[e]) /\ wire'[e] = wire[e]
  BY <1>2, <1>3, <1>4, Zenon DEF Waits
<1>7. Append(wire[q], c) \in Seq(Fields)
  BY <1>2, <1>5, SMTT(30)
<1>8. wire' \in [Ends -> Seq(Fields)] /\ (open[q] => wire'[q] = Append(wire[q], c))
  BY <1>2, <1>3, <1>4, <1>7, Zenon
<1>9. open'[e] => InStep(Peer(e), Waits(rx'[e]), wire'[e], tx'[Peer(e)], open'[Peer(e)])
  BY <1>1, <1>2, <1>3, <1>6, Zenon
<1>10. open'[Peer(e)] => InStep(e, Waits(rx'[Peer(e)]), wire'[Peer(e)], tx'[e], open'[e])
  <2> DEFINE f == Waits(rx[q])
             w == wire[q]
  <2>1. ASSUME open[q] PROVE InStep(e, f, Append(w, c), <<>>, TRUE)
    <3>1. Chain(e, f, w) /\ After(e, f, w) = "head"
      BY <1>2, <1>3, <1>4, <2>1, ChainEmpty, SMTT(30) DEF InStep
    <3>2. Chain(e, f, Append(w, c)) /\ After(e, f, Append(w, c)) = "head"
      BY <1>5, <3>1, ChainAppend, ZenonT(60)
    <3> QED BY <3>2, ChainEmpty, Zenon DEF InStep
  <2> QED BY <1>1, <1>3, <1>4, <1>6, <1>8, <2>1, Zenon
<1>11. Sync'
  BY <1>9, <1>10, SyncStep, Zenon
<1>12. WSTypes'
  BY <1>3, <1>4, <1>8, Zenon DEF WSInv, WSTypes
<1>13. Turns'
  BY <1>2, <1>3, <1>4, <1>6, Zenon DEF WSInv, Turns
<1>14. Masks'
  BY <1>2, <1>3, <1>6 DEF WSInv, Masks
<1> QED BY <1>11, <1>12, <1>13, <1>14, Zenon DEF WSInv

\* A failed read closes the stream.
LEMMA ReadFailsStep ==
    ASSUME WSInv, NEW e \in Ends, ReadFails(e)
    PROVE  WSInv'
<1>1. /\ open' = [open EXCEPT ![e] = FALSE] /\ rx' = [rx EXCEPT ![e] = "idle"]
      /\ wire' = wire /\ tx' = tx /\ head' = head
  BY Zenon DEF ReadFails, Leave
<1>2. /\ tx \in [Ends -> Seq(Fields)] /\ wire \in [Ends -> Seq(Fields)]
      /\ DOMAIN head = Ends /\ head = [x \in Ends |-> head[x]]
  BY Zenon DEF WSInv, WSTypes
<1> QED BY <1>1, <1>2, CloseStep, Zenon

(***************************************************************************)
(* The theorem.                                                             *)
(***************************************************************************)
\* The code writes the length of a part of 64K or more as 16 bits: such parts
\* are left out.
ShortParts == \A size \in Sizes : size < Limit64

\* Every step of an end keeps the invariant.
LEMMA EndStepHolds ==
    ASSUME ~Concurrent, ShortParts, WSInv, NEW e \in Ends, EndStep(e)
    PROVE  WSInv'
<1>1. CASE SendMessage(e)
  <2>1. PICK op \in Opcodes, size \in Sizes, fin \in BOOLEAN :
           tx' = [tx EXCEPT ![e] = Frame(e, op, size, fin)]
    BY <1>1, Zenon DEF SendMessage
  <2>2. Chain(e, "head", Frame(e, op, size, fin)) /\ After(e, "head", Frame(e, op, size, fin)) = "head"
    BY FrameChain, Zenon DEF ShortParts
  <2>3. Call(e) /\ UNCHANGED <<stream, rx, head>>
    BY <1>1, Zenon DEF SendMessage
  <2> QED BY <2>1, <2>2, <2>3, StartStep, Zenon
<1>2. CASE Ping(e)
  <2>1. Call(e) /\ tx' = [tx EXCEPT ![e] = <<Control("PING")>>] /\ UNCHANGED <<stream, rx, head>>
    BY <1>2, Zenon DEF Ping
  <2>2. Chain(e, "head", <<Control("PING")>>) /\ After(e, "head", <<Control("PING")>>) = "head"
    BY ControlChain, Zenon
  <2> QED BY <2>1, <2>2, StartStep, Zenon
<1>3. CASE WriteField(e) \/ WriteFails(e) \/ Receive(e)
  BY <1>3, WriteFieldStep, WriteFailsStep, ReceiveStep, Zenon
<1>4. CASE ReadHead(e) \/ ReadLength(e) \/ ReadMask(e) \/ ReadData(e)
  BY <1>4, ReadHeadStep, ReadLengthStep, ReadMaskStep, ReadDataStep, Zenon
<1>5. CASE Pong(e) \/ ReadFails(e)
  BY <1>5, PongStep, ReadFailsStep, Zenon
<1> QED BY <1>1, <1>2, <1>3, <1>4, <1>5, Zenon DEF EndStep

\* At the start nothing is on the way.
LEMMA InitHolds == Init => WSInv
<1> SUFFICES ASSUME Init PROVE WSInv
  BY Zenon
<1>1. WSTypes
  BY DEF Init, WSTypes
<1>2. Turns /\ Masks
  BY Zenon DEF Init, Turns, Masks
<1>3. ASSUME NEW e \in Ends
      PROVE  InStep(Peer(e), Waits(rx[e]), wire[e], tx[Peer(e)], open[Peer(e)])
  <2>1. wire[e] = <<>> /\ tx[Peer(e)] = <<>> /\ Waits(rx[e]) = "head"
    BY Peers, Zenon DEF Init, Waits
  <2> QED BY <2>1, ChainEmpty, Zenon DEF InStep
<1>4. Sync
  BY <1>3, Zenon DEF Sync
<1> QED BY <1>1, <1>2, <1>4, Zenon DEF WSInv

\* An end in the middle of a frame finds the field it expects.
LEMMA InvIsInStep == WSInv => FramesInStep
<1> SUFFICES ASSUME WSInv, NEW e \in Ends, rx[e] \in DOMAIN Expected, wire[e] # <<>>
             PROVE  Head(wire[e]).field = Expected[rx[e]]
  BY Zenon DEF FramesInStep
<1>1. rx[e] \in {"head", "len16", "mask", "data"}
  BY Zenon DEF Expected, WSInv, WSTypes
<1>2. open[e]
  BY <1>1, Zenon DEF WSInv, Turns
<1>3. InStep(Peer(e), Waits(rx[e]), wire[e], tx[Peer(e)], open[Peer(e)])
  BY <1>2, Zenon DEF WSInv, Sync
<1>4. Head(wire[e]).field = Waits(rx[e])
  BY <1>3, ReadsInStep, Zenon
<1>5. Waits(rx[e]) = Expected[rx[e]]
  BY <1>1 DEF Waits, Expected
<1> QED BY <1>4, <1>5, Zenon

\* The reader never takes one field of a frame for another, whatever the sizes of
\* the parts, the pings between them and the writes that fail, when an end does not
\* send from another fiber while it receives (ws_session.cc:103-284).
THEOREM FramesStayInStep ==
    ASSUME ~Concurrent, ShortParts
    PROVE  Spec => []FramesInStep
<1>1. Init => WSInv
  BY InitHolds, Zenon
<1>2. WSInv /\ [Next]_vars => WSInv'
  <2> SUFFICES ASSUME WSInv, [Next]_vars PROVE WSInv'
    BY Zenon
  <2>1. CASE Next
    BY <2>1, EndStepHolds, Zenon DEF Next
  <2>2. CASE UNCHANGED vars
    BY <2>2 DEF vars, stream, calls, WSInv, WSTypes, Turns, Masks, Sync
  <2> QED BY <2>1, <2>2, Zenon
<1> QED BY <1>1, <1>2, InvIsInStep, PTL DEF Spec

(***************************************************************************)
(* What a sequence of frames stands for.  Messages is defined by a recursive*)
(* function: it is unfolded here, by induction, and not used again.         *)
(***************************************************************************)
\* A set of natural numbers with zero and every successor is all of them.
LEMMA NatSet ==
    ASSUME NEW S \in SUBSET Nat, 0 \in S, \A n \in S : n + 1 \in S
    PROVE  S = Nat
<1> DEFINE R == {ss \in Nat \X Nat : ss[1] < ss[2]}
           bad == Nat \ S
<1>1. IsWellFoundedOn(R, Nat)
  BY NatLessThanWellFounded, Zenon DEF OpToRel
<1> HIDE DEF R
<1>2. ASSUME bad # {} PROVE FALSE
  <2>1. bad \in SUBSET Nat
    BY Zenon
  <2> HIDE DEF bad
  <2>2. PICK x \in bad : \A y \in bad : ~(<<y, x>> \in R)
    BY <1>1, <1>2, <2>1, WFMin, Zenon
  <2>3. x \in Nat /\ x \notin S
    BY Zenon DEF bad
  <2>4. x # 0 /\ x - 1 \in Nat /\ x - 1 < x /\ (x - 1) + 1 = x
    BY <2>3
  <2>5. <<x - 1, x>> \in R
    BY <2>3, <2>4, Zenon DEF R
  <2>6. x - 1 \in S
    BY <2>2, <2>4, <2>5, Zenon DEF bad
  <2> QED BY <2>3, <2>4, <2>6, Zenon
<1> QED BY <1>2, Zenon

\* One step of Reading(), with g for the ones before.
ReadingAt(g, frames, n) == IF n = 0 THEN NothingRead ELSE WithFrame(g[n - 1], frames[n])

\* The recursive definition defines something.
LEMMA ReadingExists ==
    ASSUME NEW frames, Len(frames) \in Nat
    PROVE  \E g : g = [n \in 0..Len(frames) |-> ReadingAt(g, frames, n)]
<1> DEFINE Upto(m) == \E g : \A i \in 0..m : g[i] = ReadingAt(g, frames, i)
           S == {m \in Nat : Upto(m)}
<1>1. 0 \in S
  <2> DEFINE g == [i \in 0..0 |-> NothingRead]
  <2>1. \A i \in 0..0 : i = 0 /\ g[i] = NothingRead
    OBVIOUS
  <2> HIDE DEF g
  <2>2. \A i \in 0..0 : g[i] = ReadingAt(g, frames, i)
    BY <2>1, Zenon DEF ReadingAt
  <2>3. Upto(0)
    BY <2>2, Zenon
  <2> QED BY <2>3, Zenon
<1>2. ASSUME NEW m \in S PROVE m + 1 \in S
  <2>1. m \in Nat /\ Upto(m)
    BY Zenon
  <2>2. PICK g : \A i \in 0..m : g[i] = ReadingAt(g, frames, i)
    BY <2>1, Zenon
  <2> DEFINE h == [i \in 0..(m + 1) |-> ReadingAt(g, frames, i)]
  <2>3. \A i \in 0..(m + 1) : h[i] = ReadingAt(g, frames, i)
    BY Zenon
  <2> HIDE DEF h, S
  <2>4. ASSUME NEW i \in 0..(m + 1) PROVE h[i] = ReadingAt(h, frames, i)
    <3>1. CASE i = 0
      BY <2>3, <3>1, Zenon DEF ReadingAt
    <3>2. CASE i # 0
      <4>1. i - 1 \in 0..m /\ i - 1 \in 0..(m + 1)
        BY <2>1, <3>2
      <4>2. h[i - 1] = g[i - 1]
        BY <2>2, <2>3, <4>1, Zenon
      <4> QED BY <2>3, <3>2, <4>2, Zenon DEF ReadingAt
    <3> QED BY <3>1, <3>2, Zenon
  <2>5. Upto(m + 1)
    BY <2>4, Zenon
  <2>6. m + 1 \in Nat
    BY <2>1
  <2> QED BY <2>5, <2>6, Zenon DEF S
<1>3. S = Nat
  <2>1. S \in SUBSET Nat
    BY Zenon
  <2> HIDE DEF S
  <2> QED BY <1>1, <1>2, <2>1, NatSet, Zenon
<1>4. PICK g : \A i \in 0..Len(frames) : g[i] = ReadingAt(g, frames, i)
  BY <1>3, Zenon
<1> DEFINE h == [i \in 0..Len(frames) |-> g[i]]
<1>5. \A i \in 0..Len(frames) : h[i] = g[i]
  BY Zenon
<1>6. ASSUME NEW i \in 0..Len(frames) PROVE ReadingAt(h, frames, i) = g[i]
  <2> HIDE DEF h
  <2>1. CASE i = 0
    BY <1>4, <2>1, Zenon DEF ReadingAt
  <2>2. CASE i # 0
    <3>1. i - 1 \in 0..Len(frames)
      BY <2>2
    <3> QED BY <1>4, <1>5, <2>2, <3>1, Zenon DEF ReadingAt
  <2> QED BY <2>1, <2>2, Zenon
<1>7. h = [n \in 0..Len(frames) |-> ReadingAt(h, frames, n)]
  BY <1>6, Zenon
<1> HIDE DEF h
<1> QED BY <1>7, Zenon

\* What it says.
LEMMA ReadingUnfolds ==
    ASSUME NEW frames, Len(frames) \in Nat
    PROVE  /\ Reading(frames)[0] = NothingRead
           /\ \A n \in 1..Len(frames) :
                 Reading(frames)[n] = WithFrame(Reading(frames)[n - 1], frames[n])
<1> DEFINE Is(g) == g = [n \in 0..Len(frames) |-> ReadingAt(g, frames, n)]
           r == CHOOSE g : Is(g)
<1>1. Is(r)
  BY ReadingExists, Zenon
<1>2. Reading(frames) = r
  BY Zenon DEF Reading, ReadingAt
<1> HIDE DEF r
<1>3. \A n \in 0..Len(frames) : r[n] = ReadingAt(r, frames, n)
  BY <1>1, Zenon
<1>4. 0 \in 0..Len(frames) /\ \A n \in 1..Len(frames) : n \in 0..Len(frames) /\ n # 0
  OBVIOUS
<1> QED BY <1>2, <1>3, <1>4, Zenon DEF ReadingAt

\* Frames that sendMessage() was called for, parts of a message, and what a reader has.
Sent == [op : Opcodes, size : Nat, fin : BOOLEAN]
Parts == Seq([size : Nat, masked : BOOLEAN])
Acc == [done : Seq([op : Opcodes, parts : Parts]), op : Opcodes, parts : Parts]

\* One more frame.
LEMMA WithFrameType ==
    ASSUME NEW acc \in Acc, NEW f \in Sent
    PROVE  /\ WithFrame(acc, f) \in Acc
           /\ Len(acc.done) \in Nat /\ Len(WithFrame(acc, f).done) \in Nat
           /\ Len(acc.done) <= Len(WithFrame(acc, f).done)
           /\ \A i \in 1..Len(acc.done) : WithFrame(acc, f).done[i] = acc.done[i]
<1> DEFINE op == IF acc.op = "CONTINUE" THEN f.op ELSE acc.op
           part == [size |-> f.size, masked |-> FALSE]
           ps == Append(acc.parts, part)
           msg == [op |-> op, parts |-> ps]
           n == WithFrame(acc, f)
<1>1. acc.done \in Seq([op : Opcodes, parts : Parts]) /\ acc.op \in Opcodes /\ acc.parts \in Parts
      /\ f.op \in Opcodes /\ f.size \in Nat /\ f.fin \in BOOLEAN
  BY Zenon DEF Acc, Sent
<1>2. op \in Opcodes
  BY <1>1, Zenon
<1>3. ps \in Parts
  BY <1>1 DEF Parts
<1>4. n = IF f.fin THEN [done |-> Append(acc.done, msg), op |-> "CONTINUE", parts |-> <<>>]
          ELSE [done |-> acc.done, op |-> op, parts |-> ps]
  BY Zenon DEF WithFrame
<1> HIDE DEF op, ps, n
<1>5. msg \in [op : Opcodes, parts : Parts]
  BY <1>2, <1>3, Zenon
<1> HIDE DEF msg
<1>6. "CONTINUE" \in Opcodes /\ <<>> \in Parts
  BY DEF Opcodes, Parts
<1>7. Append(acc.done, msg) \in Seq([op : Opcodes, parts : Parts])
  BY <1>1, <1>5
<1>8. /\ Len(acc.done) \in Nat /\ Len(Append(acc.done, msg)) = Len(acc.done) + 1
      /\ \A i \in 1..Len(acc.done) : Append(acc.done, msg)[i] = acc.done[i]
  BY <1>1, <1>5
<1>9. n \in Acc
  BY <1>1, <1>2, <1>3, <1>4, <1>6, <1>7, Zenon DEF Acc
<1>10. n.done = IF f.fin THEN Append(acc.done, msg) ELSE acc.done
  BY <1>4, Zenon
<1>11. Len(acc.done) \in Nat /\ Len(n.done) \in Nat /\ Len(acc.done) <= Len(n.done)
  <2>1. CASE f.fin
    BY <1>8, <1>10, <2>1
  <2>2. CASE ~f.fin
    BY <1>8, <1>10, <2>2
  <2> QED BY <2>1, <2>2, Zenon
<1>12. \A i \in 1..Len(acc.done) : n.done[i] = acc.done[i]
  BY <1>8, <1>10, Zenon
<1> QED BY <1>9, <1>11, <1>12, Zenon DEF n

\* What has been read is well formed.
LEMMA ReadingType ==
    ASSUME NEW frames \in Seq(Sent), NEW n \in 0..Len(frames)
    PROVE  Reading(frames)[n] \in Acc
<1> DEFINE Right(m) == m <= Len(frames) => Reading(frames)[m] \in Acc
           S == {m \in Nat : Right(m)}
<1>0. Len(frames) \in Nat
  OBVIOUS
<1>1. 0 \in S
  <2>1. NothingRead \in Acc
    BY DEF NothingRead, Acc, Opcodes, Parts
  <2>2. Reading(frames)[0] \in Acc
    BY <1>0, <2>1, ReadingUnfolds, Zenon
  <2> QED BY <2>2, Zenon
<1>2. ASSUME NEW m \in S PROVE m + 1 \in S
  <2>1. m \in Nat /\ Right(m) /\ m + 1 \in Nat
    OBVIOUS
  <2>2. ASSUME m + 1 <= Len(frames) PROVE Reading(frames)[m + 1] \in Acc
    <3> HIDE DEF S
    <3>1. m <= Len(frames) /\ m + 1 \in 1..Len(frames) /\ (m + 1) - 1 = m /\ frames[m + 1] \in Sent
      BY <1>0, <2>1, <2>2
    <3>2. Reading(frames)[m + 1] = WithFrame(Reading(frames)[m], frames[m + 1])
      BY <1>0, <3>1, ReadingUnfolds, Zenon
    <3>3. Reading(frames)[m] \in Acc
      BY <2>1, <3>1, Zenon
    <3> QED BY <3>1, <3>2, <3>3, WithFrameType, Zenon
  <2> QED BY <2>1, <2>2, Zenon
<1>3. S = Nat
  <2>1. S \in SUBSET Nat
    BY Zenon
  <2> HIDE DEF S
  <2> QED BY <1>1, <1>2, <2>1, NatSet, Zenon
<1>4. n \in Nat /\ n <= Len(frames)
  BY <1>0
<1> QED BY <1>3, <1>4, Zenon

\* Later frames change nothing of what the first ones stand for.
LEMMA ReadingAppend ==
    ASSUME NEW frames \in Seq(Sent), NEW f \in Sent, NEW n \in 0..Len(frames)
    PROVE  Reading(Append(frames, f))[n] = Reading(frames)[n]
<1> DEFINE more == Append(frames, f)
           Right(m) == m <= Len(frames) => Reading(more)[m] = Reading(frames)[m]
           S == {m \in Nat : Right(m)}
<1>0. /\ Len(frames) \in Nat /\ Len(more) \in Nat /\ Len(more) = Len(frames) + 1
      /\ \A i \in 1..Len(frames) : more[i] = frames[i]
  OBVIOUS
<1> HIDE DEF more
<1>1. 0 \in S
  <2>1. Reading(more)[0] = Reading(frames)[0]
    BY <1>0, ReadingUnfolds, Zenon
  <2> QED BY <2>1, Zenon
<1>2. ASSUME NEW m \in S PROVE m + 1 \in S
  <2>1. m \in Nat /\ Right(m) /\ m + 1 \in Nat
    OBVIOUS
  <2>2. ASSUME m + 1 <= Len(frames) PROVE Reading(more)[m + 1] = Reading(frames)[m + 1]
    <3> HIDE DEF S
    <3>1. m <= Len(frames) /\ m + 1 \in 1..Len(frames) /\ m + 1 \in 1..Len(more) /\ (m + 1) - 1 = m
      BY <1>0, <2>1, <2>2
    <3>2. Reading(more)[m + 1] = WithFrame(Reading(more)[m], more[m + 1])
      BY <1>0, <3>1, ReadingUnfolds, Zenon
    <3>3. Reading(frames)[m + 1] = WithFrame(Reading(frames)[m], frames[m + 1])
      BY <1>0, <3>1, ReadingUnfolds, Zenon
    <3> QED BY <1>0, <2>1, <3>1, <3>2, <3>3, Zenon
  <2> QED BY <2>1, <2>2, Zenon
<1>3. S = Nat
  <2>1. S \in SUBSET Nat
    BY Zenon
  <2> HIDE DEF S
  <2> QED BY <1>1, <1>2, <2>1, NatSet, Zenon
<1>4. n \in Nat /\ n <= Len(frames)
  BY <1>0
<1>5. Reading(more)[n] = Reading(frames)[n]
  BY <1>3, <1>4, Zenon
<1> QED BY <1>5, Zenon DEF more

\* Messages that are done stay as they are.
LEMMA ReadingGrows ==
    ASSUME NEW frames \in Seq(Sent), NEW k \in 0..Len(frames)
    PROVE  /\ Len(Reading(frames)[k].done) <= Len(Messages(frames))
           /\ \A i \in 1..Len(Reading(frames)[k].done) : Messages(frames)[i] = Reading(frames)[k].done[i]
<1> DEFINE d == Reading(frames)[k].done
           c(m) == Reading(frames)[k + m].done
           Right(m) == k + m <= Len(frames) =>
                         Len(d) <= Len(c(m)) /\ \A i \in 1..Len(d) : c(m)[i] = d[i]
           S == {m \in Nat : Right(m)}
<1>0. Len(frames) \in Nat /\ k \in Nat /\ k <= Len(frames)
  OBVIOUS
<1>1. d \in Seq([op : Opcodes, parts : Parts]) /\ Len(d) \in Nat
  <2>1. Reading(frames)[k] \in Acc
    BY ReadingType, Zenon
  <2>2. d \in Seq([op : Opcodes, parts : Parts])
    BY <2>1, Zenon DEF Acc
  <2> QED BY <2>2
<1>2. 0 \in S
  <2>1. k + 0 = k
    BY <1>0
  <2>2. c(0) = d
    BY <2>1, Zenon
  <2> HIDE DEF c, d
  <2>3. Len(d) <= Len(c(0)) /\ \A i \in 1..Len(d) : c(0)[i] = d[i]
    BY <1>1, <2>2
  <2> QED BY <2>3, Zenon
<1>3. ASSUME NEW m \in S PROVE m + 1 \in S
  <2>1. m \in Nat /\ Right(m) /\ m + 1 \in Nat
    OBVIOUS
  <2>2. ASSUME k + (m + 1) <= Len(frames)
        PROVE  Len(d) <= Len(c(m + 1)) /\ \A i \in 1..Len(d) : c(m + 1)[i] = d[i]
    <3> HIDE DEF S
    <3>1. /\ k + m <= Len(frames) /\ k + (m + 1) \in 1..Len(frames) /\ (k + (m + 1)) - 1 = k + m
          /\ k + m \in 0..Len(frames) /\ frames[k + (m + 1)] \in Sent
      BY <1>0, <2>1, <2>2
    <3>2. Reading(frames)[k + (m + 1)] = WithFrame(Reading(frames)[k + m], frames[k + (m + 1)])
      BY <1>0, <3>1, ReadingUnfolds, Zenon
    <3>3. Reading(frames)[k + m] \in Acc
      BY <3>1, ReadingType, Zenon
    <3>4. /\ Len(c(m)) \in Nat /\ Len(c(m + 1)) \in Nat /\ Len(c(m)) <= Len(c(m + 1))
          /\ \A i \in 1..Len(c(m)) : c(m + 1)[i] = c(m)[i]
      <4> DEFINE u == Reading(frames)[k + m]
                 w == frames[k + (m + 1)]
      <4>1. u \in Acc /\ w \in Sent /\ c(m) = u.done /\ c(m + 1) = WithFrame(u, w).done
        BY <3>1, <3>2, <3>3, Zenon
      <4> HIDE DEF u, w, c
      <4>2. /\ Len(u.done) \in Nat /\ Len(WithFrame(u, w).done) \in Nat
            /\ Len(u.done) <= Len(WithFrame(u, w).done)
            /\ \A i \in 1..Len(u.done) : WithFrame(u, w).done[i] = u.done[i]
        BY <4>1, WithFrameType, Zenon
      <4> QED BY <4>1, <4>2, Zenon
    <3>5. Len(d) <= Len(c(m)) /\ \A i \in 1..Len(d) : c(m)[i] = d[i]
      BY <2>1, <3>1, Zenon
    <3> HIDE DEF c, d
    <3> QED BY <1>1, <3>4, <3>5
  <2> QED BY <2>1, <2>2, Zenon
<1>4. S = Nat
  <2>1. S \in SUBSET Nat
    BY Zenon
  <2> HIDE DEF S
  <2> QED BY <1>2, <1>3, <2>1, NatSet, Zenon
<1> DEFINE m == Len(frames) - k
<1>5. m \in Nat /\ k + m = Len(frames) /\ k + m <= Len(frames)
  BY <1>0
<1> HIDE DEF m
<1>6. Len(d) <= Len(c(m)) /\ \A i \in 1..Len(d) : c(m)[i] = d[i]
  BY <1>4, <1>5, Zenon
<1>7. c(m) = Messages(frames)
  BY <1>5, Zenon DEF Messages
<1> HIDE DEF c
<1> QED BY <1>6, <1>7, Zenon

(***************************************************************************)
(* The frames that the fields on the wire belong to.                        *)
(***************************************************************************)
\* The frame a field belongs to, counted from n for the first one, moves on after the data.
NextFrame(n, v) == IF v.field = "data" THEN n + 1 ELSE n

\* v is a field of the n-th frame p sends, or a control head.
Matches(p, frames, n, v) ==
    /\ v.field = "head" /\ v.value.op \notin {"PING", "PONG"} =>
         /\ n \in 1..Len(frames) /\ v.value.op = frames[n].op /\ v.value.fin = frames[n].fin
         /\ v.value.mask = (p = "client")
    /\ v.field = "data" =>
         n \in 1..Len(frames) /\ v.value = [size |-> frames[n].size, masked |-> p = "client"]

\* idx gives each field of s its frame, from the k-th on, and ends at the m-th.
Walks(p, frames, k, s, m, idx) ==
    /\ idx[1] = k /\ idx[Len(s) + 1] = m
    /\ \A i \in 1..Len(s) : Matches(p, frames, idx[i], s[i]) /\ idx[i + 1] = NextFrame(idx[i], s[i])

\* The fields of s belong to the frames from the k-th to the one before the m-th, in order.
Path(p, frames, k, s, m) ==
    /\ s \in Seq(Fields)
    /\ \E idx \in [1..(Len(s) + 1) -> Nat] : Walks(p, frames, k, s, m, idx)

\* Nothing leads nowhere.
LEMMA PathEmpty ==
    ASSUME NEW p, NEW frames, NEW k \in Nat
    PROVE  Path(p, frames, k, <<>>, k)
<1> DEFINE idx == [i \in 1..(Len(<<>>) + 1) |-> k]
<1>1. idx \in [1..(Len(<<>>) + 1) -> Nat]
  BY Zenon
<1>2. Len(<<>>) = 0 /\ 1 \in 1..(Len(<<>>) + 1) /\ Len(<<>>) + 1 = 1 /\ \A i \in 1..Len(<<>>) : FALSE
  OBVIOUS
<1>3. idx[1] = k
  BY <1>2, Zenon
<1> HIDE DEF idx
<1>4. Walks(p, frames, k, <<>>, k, idx)
  BY <1>2, <1>3, Zenon DEF Walks
<1>5. <<>> \in Seq(Fields)
  OBVIOUS
<1> QED BY <1>1, <1>4, <1>5, Zenon DEF Path

\* ... and only nowhere.
LEMMA PathEnds ==
    ASSUME NEW p, NEW frames, NEW k, NEW m, Path(p, frames, k, <<>>, m)
    PROVE  k = m
<1>1. Len(<<>>) + 1 = 1
  OBVIOUS
<1> QED BY <1>1, Zenon DEF Path, Walks

\* One field more.
LEMMA PathAppend ==
    ASSUME NEW p, NEW frames, NEW k, NEW m, NEW s, Path(p, frames, k, s, m),
           NEW v \in Fields, Matches(p, frames, m, v)
    PROVE  Path(p, frames, k, Append(s, v), NextFrame(m, v)) /\ m \in Nat
<1> DEFINE t == Append(s, v)
           n == Len(s)
<1>1. s \in Seq(Fields) /\ n \in Nat
  BY DEF Path
<1>2. /\ t \in Seq(Fields) /\ Len(t) = n + 1 /\ t[n + 1] = v /\ \A i \in 1..n : t[i] = s[i]
  BY <1>1
<1>3. PICK idx \in [1..(n + 1) -> Nat] : Walks(p, frames, k, s, m, idx)
  BY Zenon DEF Path
<1>4. n + 1 \in 1..(n + 1) /\ 1 \in 1..(n + 1) /\ (n + 1) + 1 \in Nat
  BY <1>1
<1>5. m \in Nat /\ idx[1] = k /\ idx[n + 1] = m
  BY <1>3, <1>4, Zenon DEF Walks
<1>6. NextFrame(m, v) \in Nat
  BY <1>5 DEF NextFrame
<1> DEFINE far == [i \in 1..((n + 1) + 1) |-> IF i = (n + 1) + 1 THEN NextFrame(m, v) ELSE idx[i]]
<1>7. \A i \in 1..((n + 1) + 1) : i # (n + 1) + 1 => i \in 1..(n + 1)
  BY <1>1
<1>8. far \in [1..((n + 1) + 1) -> Nat]
  BY <1>3, <1>6, <1>7, Zenon
<1>9. /\ (n + 1) + 1 \in 1..((n + 1) + 1)
      /\ \A i \in 1..(n + 1) : i \in 1..((n + 1) + 1) /\ i # (n + 1) + 1
  BY <1>1
<1>10. far[(n + 1) + 1] = NextFrame(m, v) /\ \A i \in 1..(n + 1) : far[i] = idx[i]
  BY <1>9, Zenon
<1> HIDE DEF far
<1>11. ASSUME NEW i \in 1..(n + 1)
       PROVE  Matches(p, frames, far[i], t[i]) /\ far[i + 1] = NextFrame(far[i], t[i])
  <2>1. CASE i = n + 1
    BY <1>2, <1>4, <1>5, <1>10, <2>1, Zenon
  <2>2. CASE i # n + 1
    <3>1. i \in 1..n /\ i + 1 \in 1..(n + 1)
      BY <1>1, <2>2
    <3>2. Matches(p, frames, idx[i], s[i]) /\ idx[i + 1] = NextFrame(idx[i], s[i])
      BY <1>3, <3>1, Zenon DEF Walks
    <3> QED BY <1>2, <1>10, <3>1, <3>2, Zenon
  <2> QED BY <2>1, <2>2, Zenon
<1>12. far[1] = k
  BY <1>4, <1>5, <1>10, Zenon
<1> HIDE DEF t, n
<1>13. Walks(p, frames, k, t, NextFrame(m, v), far)
  BY <1>2, <1>10, <1>11, <1>12, Zenon DEF Walks
<1>14. Path(p, frames, k, t, NextFrame(m, v))
  BY <1>2, <1>8, <1>13, Zenon DEF Path
<1> QED BY <1>5, <1>14, Zenon DEF t

\* One field less.
LEMMA PathTail ==
    ASSUME NEW p, NEW frames, NEW k, NEW m, NEW s, Path(p, frames, k, s, m), s # <<>>
    PROVE  /\ Head(s) \in Fields /\ k \in Nat /\ Matches(p, frames, k, Head(s))
           /\ Path(p, frames, NextFrame(k, Head(s)), Tail(s), m)
<1> DEFINE t == Tail(s)
           v == Head(s)
           n == Len(t)
<1>1. s \in Seq(Fields) /\ Len(s) \in Nat \ {0}
  BY DEF Path
<1>2. /\ t \in Seq(Fields) /\ n \in Nat /\ Len(s) = n + 1 /\ v = s[1] /\ v \in Fields
      /\ \A i \in 1..n : t[i] = s[i + 1]
  BY <1>1
<1>3. PICK idx \in [1..(Len(s) + 1) -> Nat] : Walks(p, frames, k, s, m, idx)
  BY Zenon DEF Path
<1> HIDE DEF t, v, n
<1>4. /\ 1 \in 1..Len(s) /\ 1 \in 1..(Len(s) + 1) /\ 1 + 1 \in 1..(Len(s) + 1) /\ (n + 1) + 1 = Len(s) + 1
      /\ 1 \in 1..(n + 1) /\ n + 1 \in 1..(n + 1)
      /\ \A i \in 1..(n + 1) : i + 1 \in 1..(Len(s) + 1)
      /\ \A i \in 1..n : i + 1 \in 1..Len(s) /\ i \in 1..(n + 1) /\ i + 1 \in 1..(n + 1)
  BY <1>1, <1>2
<1>5. /\ idx[1] = k /\ k \in Nat /\ idx[Len(s) + 1] = m
      /\ Matches(p, frames, k, v) /\ idx[1 + 1] = NextFrame(k, v)
  BY <1>2, <1>3, <1>4, Zenon DEF Walks
<1> DEFINE rest == [i \in 1..(n + 1) |-> idx[i + 1]]
<1>6. rest \in [1..(n + 1) -> Nat]
  BY <1>3, <1>4, Zenon
<1>7. \A i \in 1..(n + 1) : rest[i] = idx[i + 1]
  BY Zenon
<1> HIDE DEF rest
<1>8. ASSUME NEW i \in 1..n
      PROVE  Matches(p, frames, rest[i], t[i]) /\ rest[i + 1] = NextFrame(rest[i], t[i])
  <2>1. Matches(p, frames, idx[i + 1], s[i + 1]) /\ idx[(i + 1) + 1] = NextFrame(idx[i + 1], s[i + 1])
    BY <1>3, <1>4, Zenon DEF Walks
  <2> QED BY <1>2, <1>4, <1>7, <2>1, Zenon
<1>9. rest[1] = NextFrame(k, v) /\ rest[n + 1] = m
  <2>1. rest[1] = idx[1 + 1] /\ rest[n + 1] = idx[(n + 1) + 1]
    BY <1>4, <1>7, Zenon
  <2>2. idx[(n + 1) + 1] = m
    BY <1>4, <1>5, Zenon
  <2> QED BY <1>5, <2>1, <2>2, Zenon
<1>10. Walks(p, frames, NextFrame(k, v), t, m, rest)
  BY <1>8, <1>9, Zenon DEF Walks, n
<1>11. Path(p, frames, NextFrame(k, v), t, m)
  BY <1>2, <1>6, <1>10, Zenon DEF Path, n
<1> QED BY <1>2, <1>5, <1>11, Zenon DEF t, v

\* More frames do no harm.
LEMMA PathMore ==
    ASSUME NEW p, NEW frames \in Seq(Sent), NEW f \in Sent, NEW k, NEW m, NEW s, Path(p, frames, k, s, m)
    PROVE  Path(p, Append(frames, f), k, s, m)
<1> DEFINE more == Append(frames, f)
<1>1. /\ Len(frames) \in Nat /\ Len(more) = Len(frames) + 1
      /\ \A i \in 1..Len(frames) : more[i] = frames[i] /\ i \in 1..Len(more)
  OBVIOUS
<1> HIDE DEF more
<1>2. ASSUME NEW n, NEW v, Matches(p, frames, n, v) PROVE Matches(p, more, n, v)
  BY <1>1, <1>2, Zenon DEF Matches
<1>3. PICK idx \in [1..(Len(s) + 1) -> Nat] : Walks(p, frames, k, s, m, idx)
  BY Zenon DEF Path
<1>4. Walks(p, more, k, s, m, idx)
  BY <1>2, <1>3, Zenon DEF Walks
<1>5. Path(p, more, k, s, m)
  BY <1>3, <1>4, Zenon DEF Path
<1> QED BY <1>5, Zenon DEF more

\* What WSSendMessage() writes leads through one frame.
LEMMA PathFrame ==
    ASSUME NEW e \in Ends, NEW op \in Opcodes, NEW size \in Sizes, size < Limit64, NEW fin \in BOOLEAN,
           NEW frames, NEW n \in Nat, n \in 1..Len(frames),
           frames[n] = [op |-> op, size |-> size, fin |-> fin]
    PROVE  Path(e, frames, n, Frame(e, op, size, fin), n + 1)
<1> DEFINE h == Field("head", [op |-> op, fin |-> fin, payload |-> Payload(size), mask |-> e = "client"])
           l == Field("len16", size)
           k == Field("mask", 0)
           d == Data(e, size)
           ls == LengthField(size)
           ks == IF e = "client" THEN <<k>> ELSE <<>>
<1>1. size \in Nat /\ Limit16 \in 1..126 /\ Limit64 \in Nat
  BY WebSocketAssumption, Zenon
<1>2. Payload(size) \in Nat /\ Payload(size) # 127
  BY <1>1 DEF Payload
<1>3. (e = "client") \in BOOLEAN
  BY Zenon
<1>4. [op |-> op, fin |-> fin, payload |-> Payload(size), mask |-> e = "client"] \in Values
  BY <1>2, <1>3, Zenon DEF Values
<1>5. frames[n].op = op /\ frames[n].size = size /\ frames[n].fin = fin
  OBVIOUS
<1>6. h \in Fields /\ Matches(e, frames, n, h) /\ NextFrame(n, h) = n
  BY <1>4, <1>5, Zenon DEF Field, Fields, Matches, NextFrame
<1>7. l \in Fields /\ Matches(e, frames, n, l) /\ NextFrame(n, l) = n
  BY <1>1, Zenon DEF Field, Fields, Matches, NextFrame, Values
<1>8. k \in Fields /\ Matches(e, frames, n, k) /\ NextFrame(n, k) = n
  BY Zenon DEF Field, Fields, Matches, NextFrame, Values
<1>9. d \in Fields /\ Matches(e, frames, n, d) /\ NextFrame(n, d) = n + 1
  BY <1>1, <1>3, <1>5, Zenon DEF Data, Field, Fields, Matches, NextFrame, Values
<1>10. Frame(e, op, size, fin) = ((<<h>> \o ls) \o ks) \o <<d>>
  BY Zenon DEF Frame
<1>11. ls = IF Payload(size) = 126 THEN <<l>> ELSE <<>>
  BY <1>2, Zenon DEF LengthField
<1> HIDE DEF h, l, k, d, ls
<1>12. <<h>> = Append(<<>>, h) /\ <<h>> \in Seq(Fields)
  BY <1>6
<1>13. Path(e, frames, n, <<h>>, n)
  BY <1>6, <1>12, PathEmpty, PathAppend, Zenon
<1> DEFINE a == <<h>> \o ls
<1>14. Path(e, frames, n, a, n)
  <2>1. CASE Payload(size) = 126
    <3>1. a = Append(<<h>>, l)
      BY <1>11, <2>1
    <3> QED BY <1>7, <1>13, <3>1, PathAppend, Zenon
  <2>2. CASE Payload(size) # 126
    <3>1. a = <<h>>
      BY <1>11, <1>12, <2>2
    <3> QED BY <1>13, <3>1, Zenon
  <2> QED BY <2>1, <2>2, Zenon
<1> HIDE DEF a
<1>15. a \in Seq(Fields)
  BY <1>14, Zenon DEF Path
<1> DEFINE b == a \o ks
<1>16. Path(e, frames, n, b, n)
  <2>1. CASE e = "client"
    <3>1. b = Append(a, k)
      BY <1>8, <1>15, <2>1
    <3> QED BY <1>8, <1>14, <3>1, PathAppend, Zenon
  <2>2. CASE e # "client"
    <3>1. b = a
      BY <1>15, <2>2
    <3> QED BY <1>14, <3>1, Zenon
  <2> QED BY <2>1, <2>2, Zenon
<1> HIDE DEF b, ks
<1>17. b \in Seq(Fields)
  BY <1>16, Zenon DEF Path
<1>18. b \o <<d>> = Append(b, d)
  BY <1>9, <1>17
<1>19. Path(e, frames, n, b \o <<d>>, n + 1)
  BY <1>9, <1>16, <1>18, PathAppend, Zenon
<1> QED BY <1>10, <1>19, Zenon DEF a, b

\* A control head leads nowhere.
LEMMA PathControl ==
    ASSUME NEW e, NEW frames, NEW n, NEW op \in {"PING", "PONG"}
    PROVE  Control(op) \in Fields /\ Matches(e, frames, n, Control(op)) /\ NextFrame(n, Control(op)) = n
<1>1. Control(op) \in Fields
  BY ControlChain, Zenon
<1>2. Control(op).field = "head" /\ Control(op).value.op = op
  BY Zenon DEF Control, Field
<1> QED BY <1>1, <1>2, Zenon DEF Matches, NextFrame

(***************************************************************************)
(* A reader: what it has returned, what it holds of the message it is in,   *)
(* as it reads and as the other end writes.                                 *)
(***************************************************************************)
\* The fields on the wire belong to the frames from the k-th on; with what is still to
\* be written, to all of them.
Place(p, frames, k, w, t, alive) ==
    \E m \in Nat : Path(p, frames, k, w, m) /\ (alive => Path(p, frames, m, t, Len(frames) + 1))

\* A reader at r has read the frames before the k-th, and the head of that one if r is inside it.
Reads(p, frames, k, r, h, ps, op) ==
    /\ r = "idle" => Reading(frames)[k - 1].parts = <<>> /\ Reading(frames)[k - 1].op = "CONTINUE"
    /\ r # "idle" => ps = Reading(frames)[k - 1].parts /\ op = Reading(frames)[k - 1].op
    /\ r \in {"len16", "mask", "data"} =>
         /\ k <= Len(frames) /\ h.op = frames[k].op /\ h.fin = frames[k].fin
         /\ h.mask = (p = "client")

\* A reader that returned got, with locals r, h, ps and op, of what p sends.
At(p, frames, got, up, w, t, alive, r, h, ps, op) ==
    \E k \in 1..(Len(frames) + 1) :
        /\ got = Reading(frames)[k - 1].done
        /\ up => Place(p, frames, k, w, t, alive) /\ Reads(p, frames, k, r, h, ps, op)

\* A sender that closes has nothing left to write.
LEMMA AtSenderCloses ==
    ASSUME NEW p, NEW frames, NEW got, NEW up, NEW w, NEW t, NEW alive, NEW r, NEW h, NEW ps, NEW op,
           NEW t2, At(p, frames, got, up, w, t, alive, r, h, ps, op)
    PROVE  At(p, frames, got, up, w, t2, FALSE, r, h, ps, op)
<1>1. PICK k \in 1..(Len(frames) + 1) :
        /\ got = Reading(frames)[k - 1].done
        /\ up => Place(p, frames, k, w, t, alive) /\ Reads(p, frames, k, r, h, ps, op)
  BY Zenon DEF At
<1>2. up => Place(p, frames, k, w, t2, FALSE)
  BY <1>1, Zenon DEF Place
<1> QED BY <1>1, <1>2, Zenon DEF At

\* A frame begins where everything was written.
LEMMA AtStarts ==
    ASSUME NEW p, NEW frames \in Seq(Sent), NEW f \in Sent, NEW got, NEW up, NEW w, NEW t, NEW r, NEW h, NEW ps, NEW op,
           At(p, frames, got, up, w, <<>>, TRUE, r, h, ps, op),
           Path(p, Append(frames, f), Len(frames) + 1, t, (Len(frames) + 1) + 1)
    PROVE  At(p, Append(frames, f), got, up, w, t, TRUE, r, h, ps, op)
<1> DEFINE more == Append(frames, f)
<1>1. PICK k \in 1..(Len(frames) + 1) :
        /\ got = Reading(frames)[k - 1].done
        /\ up => Place(p, frames, k, w, <<>>, TRUE) /\ Reads(p, frames, k, r, h, ps, op)
  BY Zenon DEF At
<1>2. /\ Len(frames) \in Nat /\ Len(more) = Len(frames) + 1 /\ k - 1 \in 0..Len(frames)
      /\ k \in 1..(Len(more) + 1) /\ (k <= Len(frames) => k <= Len(more) /\ more[k] = frames[k])
  OBVIOUS
<1>3. Reading(more)[k - 1] = Reading(frames)[k - 1]
  BY <1>2, ReadingAppend, Zenon
<1>4. ASSUME up PROVE Place(p, more, k, w, t, TRUE)
  <2>1. PICK m \in Nat : Path(p, frames, k, w, m) /\ Path(p, frames, m, <<>>, Len(frames) + 1)
    BY <1>1, <1>4, Zenon DEF Place
  <2>2. m = Len(frames) + 1
    BY <2>1, PathEnds, Zenon
  <2>3. Path(p, more, k, w, m)
    BY <2>1, PathMore, Zenon
  <2> HIDE DEF more
  <2>4. Path(p, more, m, t, Len(more) + 1)
    BY <1>2, <2>2, Zenon DEF more
  <2> QED BY <2>1, <2>3, <2>4, Zenon DEF Place
<1> HIDE DEF more
<1>5. up => Reads(p, more, k, r, h, ps, op)
  BY <1>1, <1>2, <1>3, Zenon DEF Reads
<1>6. At(p, more, got, up, w, t, TRUE, r, h, ps, op)
  BY <1>1, <1>2, <1>3, <1>4, <1>5, Zenon DEF At
<1> QED BY <1>6, Zenon DEF more

\* A control head may begin there too.
LEMMA AtPings ==
    ASSUME NEW p, NEW frames, NEW got, NEW up, NEW w, NEW r, NEW h, NEW ps, NEW op, NEW c \in {"PING", "PONG"},
           At(p, frames, got, up, w, <<>>, TRUE, r, h, ps, op)
    PROVE  At(p, frames, got, up, w, <<Control(c)>>, TRUE, r, h, ps, op)
<1>1. PICK k \in 1..(Len(frames) + 1) :
        /\ got = Reading(frames)[k - 1].done
        /\ up => Place(p, frames, k, w, <<>>, TRUE) /\ Reads(p, frames, k, r, h, ps, op)
  BY Zenon DEF At
<1>2. ASSUME up PROVE Place(p, frames, k, w, <<Control(c)>>, TRUE)
  <2>1. PICK m \in Nat : Path(p, frames, k, w, m) /\ Path(p, frames, m, <<>>, Len(frames) + 1)
    BY <1>1, <1>2, Zenon DEF Place
  <2>2. m = Len(frames) + 1
    BY <2>1, PathEnds, Zenon
  <2>3. /\ Control(c) \in Fields /\ Matches(p, frames, m, Control(c)) /\ NextFrame(m, Control(c)) = m
    BY PathControl, Zenon
  <2>4. Path(p, frames, m, Append(<<>>, Control(c)), m)
    BY <2>1, <2>2, <2>3, PathAppend, Zenon
  <2>5. Append(<<>>, Control(c)) = <<Control(c)>>
    BY <2>3
  <2> QED BY <2>1, <2>2, <2>4, <2>5, Zenon DEF Place
<1> QED BY <1>1, <1>2, Zenon DEF At

\* A write moves a field from one to the other.
LEMMA AtWrites ==
    ASSUME NEW p, NEW frames, NEW got, NEW up, NEW w, NEW t, NEW r, NEW h, NEW ps, NEW op, t # <<>>,
           At(p, frames, got, up, w, t, TRUE, r, h, ps, op)
    PROVE  At(p, frames, got, up, Append(w, Head(t)), Tail(t), TRUE, r, h, ps, op)
<1>1. PICK k \in 1..(Len(frames) + 1) :
        /\ got = Reading(frames)[k - 1].done
        /\ up => Place(p, frames, k, w, t, TRUE) /\ Reads(p, frames, k, r, h, ps, op)
  BY Zenon DEF At
<1>2. ASSUME up PROVE Place(p, frames, k, Append(w, Head(t)), Tail(t), TRUE)
  <2>1. PICK m \in Nat : Path(p, frames, k, w, m) /\ Path(p, frames, m, t, Len(frames) + 1)
    BY <1>1, <1>2, Zenon DEF Place
  <2>2. /\ Head(t) \in Fields /\ Matches(p, frames, m, Head(t))
        /\ Path(p, frames, NextFrame(m, Head(t)), Tail(t), Len(frames) + 1)
    BY <2>1, PathTail, Zenon
  <2>3. Path(p, frames, k, Append(w, Head(t)), NextFrame(m, Head(t)))
    BY <2>1, <2>2, PathAppend, Zenon
  <2>4. NextFrame(m, Head(t)) \in Nat
    BY <2>1 DEF NextFrame
  <2> QED BY <2>2, <2>3, <2>4, Zenon DEF Place
<1> QED BY <1>1, <1>2, Zenon DEF At

\* A pong is written at once.
LEMMA AtPongs ==
    ASSUME NEW p, NEW frames, NEW got, NEW up, NEW w, NEW r, NEW h, NEW ps, NEW op, NEW c \in {"PING", "PONG"},
           At(p, frames, got, up, w, <<>>, TRUE, r, h, ps, op)
    PROVE  At(p, frames, got, up, Append(w, Control(c)), <<>>, TRUE, r, h, ps, op)
<1>1. At(p, frames, got, up, w, <<Control(c)>>, TRUE, r, h, ps, op)
  BY AtPings, Zenon
<1>2. Control(c) \in Fields
  BY ControlChain, Zenon
<1> DEFINE v == Control(c)
<1> HIDE DEF v
<1>3. <<v>> # <<>> /\ Head(<<v>>) = v /\ Tail(<<v>>) = <<>>
  OBVIOUS
<1> QED BY <1>1, <1>3, AtWrites, Zenon DEF v

\* recvMessage() begins with nothing read of the message.
LEMMA AtReceives ==
    ASSUME NEW p, NEW frames, NEW got, NEW up, NEW w, NEW t, NEW alive, NEW h, NEW ps, NEW op,
           At(p, frames, got, up, w, t, alive, "idle", h, ps, op)
    PROVE  At(p, frames, got, up, w, t, alive, "head", h, <<>>, "CONTINUE")
BY Zenon DEF At, Reads

\* After a pong recvMessage() goes on with what it had.
LEMMA AtAnswered ==
    ASSUME NEW p, NEW frames, NEW got, NEW up, NEW w, NEW t, NEW alive, NEW h, NEW ps, NEW op,
           At(p, frames, got, up, w, t, alive, "pong", h, ps, op)
    PROVE  At(p, frames, got, up, w, t, alive, "head", h, ps, op)
BY Zenon DEF At, Reads

\* A field that is not data is taken; what the reader knows of the frame fits it.
LEMMA AtTakes ==
    ASSUME NEW p, NEW frames, NEW got, NEW w, NEW t, NEW alive, NEW r, NEW h, NEW ps, NEW op,
           At(p, frames, got, TRUE, w, t, alive, r, h, ps, op), w # <<>>, Head(w).field # "data",
           NEW r2, NEW h2, r2 # "idle", r # "idle",
           r2 \in {"len16", "mask", "data"} =>
               \/ r \in {"len16", "mask", "data"} /\ h2 = h
               \/ /\ Head(w).field = "head" /\ h2 = Head(w).value
                  /\ h2.op \notin {"PING", "PONG"}
    PROVE  At(p, frames, got, TRUE, Tail(w), t, alive, r2, h2, ps, op)
<1>1. PICK k \in 1..(Len(frames) + 1) :
        /\ got = Reading(frames)[k - 1].done
        /\ Place(p, frames, k, w, t, alive) /\ Reads(p, frames, k, r, h, ps, op)
  BY Zenon DEF At
<1>2. PICK m \in Nat : Path(p, frames, k, w, m) /\ (alive => Path(p, frames, m, t, Len(frames) + 1))
  BY <1>1, Zenon DEF Place
<1>3. Matches(p, frames, k, Head(w)) /\ Path(p, frames, NextFrame(k, Head(w)), Tail(w), m)
  BY <1>2, PathTail, Zenon
<1>4. NextFrame(k, Head(w)) = k
  BY Zenon DEF NextFrame
<1>5. Place(p, frames, k, Tail(w), t, alive)
  BY <1>2, <1>3, <1>4, Zenon DEF Place
<1>6. Reads(p, frames, k, r2, h2, ps, op)
  <2>1. ps = Reading(frames)[k - 1].parts /\ op = Reading(frames)[k - 1].op
    BY <1>1, Zenon DEF Reads
  <2>2. ASSUME r2 \in {"len16", "mask", "data"}
        PROVE  /\ k <= Len(frames) /\ h2.op = frames[k].op /\ h2.fin = frames[k].fin
               /\ h2.mask = (p = "client")
    <3>1. CASE r \in {"len16", "mask", "data"} /\ h2 = h
      BY <1>1, <3>1, Zenon DEF Reads
    <3>2. CASE Head(w).field = "head" /\ h2 = Head(w).value /\ h2.op \notin {"PING", "PONG"}
      <4>1. /\ k \in 1..Len(frames) /\ h2.op = frames[k].op /\ h2.fin = frames[k].fin
            /\ h2.mask = (p = "client")
        BY <1>3, <3>2, ZenonT(60) DEF Matches
      <4>2. k <= Len(frames)
        BY <4>1
      <4> QED BY <4>1, <4>2, Zenon
    <3> QED BY <2>2, <3>1, <3>2, Zenon
  <2> QED BY <2>1, <2>2, Zenon DEF Reads
<1> QED BY <1>1, <1>5, <1>6, Zenon DEF At

\* A part that was masked is unmasked, and one that was not is left alone.
LEMMA Unmasked ==
    ASSUME NEW d, NEW z \in Nat, NEW b \in BOOLEAN, d = [size |-> z, masked |-> b],
           NEW u, u = (d.masked # b), NEW part, part = [d EXCEPT !.masked = u]
    PROVE  part = [size |-> z, masked |-> FALSE]
<1>1. d \in [size : Nat, masked : BOOLEAN] /\ d.size = z /\ d.masked = b
  BY Zenon
<1>2. u = FALSE
  BY <1>1, Zenon
<1>3. part = [d EXCEPT !.masked = FALSE]
  BY <1>2, ZenonT(60)
<1>4. part \in [size : Nat, masked : BOOLEAN]
  BY <1>1, <1>3, Zenon
<1>5. part.size = z
  BY <1>1, <1>3, Zenon
<1>6. part.masked = FALSE
  BY <1>1, <1>3, Zenon
<1>7. part = [size |-> part.size, masked |-> part.masked]
  BY <1>4, Zenon
<1> QED BY <1>5, <1>6, <1>7, Zenon

\* The data completes a frame, and with fin a message.
LEMMA AtData ==
    ASSUME NEW p, NEW frames \in Seq(Sent), NEW got, NEW w, NEW t, NEW alive, NEW h, NEW ps, NEW op,
           At(p, frames, got, TRUE, w, t, alive, "data", h, ps, op), w # <<>>, Head(w).field = "data",
           NEW all, all = Append(ps, [Head(w).value EXCEPT !.masked = @ # h.mask]),
           NEW op2, op2 = IF op = "CONTINUE" THEN h.op ELSE op
    PROVE  At(p, frames, IF h.fin THEN Append(got, [op |-> op2, parts |-> all]) ELSE got, TRUE,
              Tail(w), t, alive, IF h.fin THEN "idle" ELSE "head", h, all, op2)
<1>1. PICK k \in 1..(Len(frames) + 1) :
        /\ got = Reading(frames)[k - 1].done
        /\ Place(p, frames, k, w, t, alive) /\ Reads(p, frames, k, "data", h, ps, op)
  BY Zenon DEF At
<1>2. PICK m \in Nat : Path(p, frames, k, w, m) /\ (alive => Path(p, frames, m, t, Len(frames) + 1))
  BY <1>1, Zenon DEF Place
<1>3. Matches(p, frames, k, Head(w)) /\ Path(p, frames, NextFrame(k, Head(w)), Tail(w), m)
  BY <1>2, PathTail, Zenon
<1>4. NextFrame(k, Head(w)) = k + 1
  BY Zenon DEF NextFrame
<1>5. Place(p, frames, k + 1, Tail(w), t, alive)
  BY <1>2, <1>3, <1>4, Zenon DEF Place
<1>6. /\ k \in 1..Len(frames) /\ Head(w).value = [size |-> frames[k].size, masked |-> p = "client"]
      /\ h.op = frames[k].op /\ h.fin = frames[k].fin /\ h.mask = (p = "client")
      /\ ps = Reading(frames)[k - 1].parts /\ op = Reading(frames)[k - 1].op
  BY <1>1, <1>3, ZenonT(60) DEF Matches, Reads
<1>7. /\ Len(frames) \in Nat /\ k + 1 \in 1..(Len(frames) + 1) /\ (k + 1) - 1 = k /\ frames[k] \in Sent
  BY <1>6
<1>8. [Head(w).value EXCEPT !.masked = @ # h.mask] = [size |-> frames[k].size, masked |-> FALSE]
  <2>1. frames[k].size \in Nat
    BY <1>7, Zenon DEF Sent
  <2> DEFINE d == Head(w).value
             z == frames[k].size
             b == p = "client"
             u == d.masked # h.mask
             part == [d EXCEPT !.masked = u]
  <2>2. d = [size |-> z, masked |-> b] /\ z \in Nat /\ b \in BOOLEAN /\ h.mask = b
    <3>1. b \in BOOLEAN
      BY Zenon
    <3> QED BY <1>6, <2>1, <3>1, Zenon
  <2>3. u = (d.masked # b)
    BY <2>2, Zenon
  <2> HIDE DEF d, z, b, u
  <2>4. part = [d EXCEPT !.masked = u]
    BY Zenon
  <2> HIDE DEF part
  <2>5. part = [size |-> z, masked |-> FALSE]
    BY <2>2, <2>3, <2>4, Unmasked, Zenon
  <2> QED BY <2>5, Zenon DEF d, z, u, part
<1> DEFINE acc == Reading(frames)[k - 1]
           next == Reading(frames)[k]
<1>9. next = WithFrame(acc, frames[k])
  BY <1>6, <1>7, ReadingUnfolds, Zenon
<1>10. /\ op2 = IF acc.op = "CONTINUE" THEN frames[k].op ELSE acc.op
       /\ all = Append(acc.parts, [size |-> frames[k].size, masked |-> FALSE])
  BY <1>6, <1>8, Zenon
<1>11. next = IF h.fin
              THEN [done |-> Append(acc.done, [op |-> op2, parts |-> all]), op |-> "CONTINUE", parts |-> <<>>]
              ELSE [done |-> acc.done, op |-> op2, parts |-> all]
  BY <1>6, <1>9, <1>10, Zenon DEF WithFrame
<1>12. got = acc.done
  BY <1>1, Zenon
<1> HIDE DEF acc, next
<1> DEFINE r2 == IF h.fin THEN "idle" ELSE "head"
           got2 == IF h.fin THEN Append(got, [op |-> op2, parts |-> all]) ELSE got
<1>13. got2 = next.done
  BY <1>11, <1>12, Zenon
<1>14. /\ r2 = "idle" => next.parts = <<>> /\ next.op = "CONTINUE"
       /\ r2 # "idle" => all = next.parts /\ op2 = next.op
       /\ r2 \notin {"len16", "mask", "data"}
  BY <1>11, Zenon
<1> HIDE DEF r2, got2
<1>15. got2 = Reading(frames)[(k + 1) - 1].done
  BY <1>7, <1>13, Zenon DEF next
<1>16. Reads(p, frames, k + 1, r2, h, all, op2)
  BY <1>7, <1>14, Zenon DEF Reads, next
<1>17. At(p, frames, got2, TRUE, Tail(w), t, alive, r2, h, all, op2)
  BY <1>5, <1>7, <1>15, <1>16, Zenon DEF At
<1> QED BY <1>17, Zenon DEF r2, got2

(***************************************************************************)
(* The second inductive invariant, on top of the first: a reader has read the*)
(* frames up to one, and what is on its way are the fields from that one on.*)
(***************************************************************************)
\* What an end has read is what the other end has sent, up to some frame.
Here(e) ==
    At(Peer(e), sent[Peer(e)], received[e], open[e], wire[e], tx[Peer(e)], open[Peer(e)],
       rx[e], head[e], parts[e], opcode[e])

Content == \A e \in Ends : Here(e)

MsgTypes ==
    /\ sent \in [Ends -> Seq(Sent)]
    /\ DOMAIN parts = Ends /\ DOMAIN opcode = Ends /\ DOMAIN received = Ends

MsgInv == MsgTypes /\ Content

\* What the invariants say of an end and of the other one.
LEMMA BothMsgs ==
    ASSUME WSInv, MsgInv, NEW e \in Ends, NEW q, q = Peer(e)
    PROVE  /\ q \in Ends /\ q # e /\ Peer(q) = e /\ Peer(e) = q /\ Ends = {e, q}
           /\ wire \in [Ends -> Seq(Fields)] /\ tx \in [Ends -> Seq(Fields)] /\ open \in [Ends -> BOOLEAN]
           /\ rx \in [Ends -> {"idle", "head", "len16", "mask", "data", "pong"}] /\ DOMAIN head = Ends
           /\ sent \in [Ends -> Seq(Sent)]
           /\ DOMAIN parts = Ends /\ DOMAIN opcode = Ends /\ DOMAIN received = Ends
           /\ rx[e] = "idle" \/ tx[e] = <<>>
           /\ At(q, sent[q], received[e], open[e], wire[e], tx[q], open[q], rx[e], head[e], parts[e], opcode[e])
           /\ At(e, sent[e], received[q], open[q], wire[q], tx[e], open[e], rx[q], head[q], parts[q], opcode[q])
<1>1. q \in Ends /\ q # e /\ Peer(q) = e /\ Ends = {e, q}
  BY Peers, Zenon
<1>2. Here(e) /\ Here(q)
  BY <1>1, Zenon DEF MsgInv, Content
<1> QED BY <1>1, <1>2, Zenon DEF Here, MsgInv, MsgTypes, WSInv, WSTypes, Turns

\* One end reads, the other sends.
LEMMA MsgStep ==
    ASSUME NEW e \in Ends, NEW q, q = Peer(e), MsgTypes',
           At(q, sent'[q], received'[e], open'[e], wire'[e], tx'[q], open'[q], rx'[e], head'[e], parts'[e], opcode'[e]),
           At(e, sent'[e], received'[q], open'[q], wire'[q], tx'[e], open'[e], rx'[q], head'[q], parts'[q], opcode'[q])
    PROVE  MsgInv'
<1>1. q \in Ends /\ q # e /\ Peer(q) = e /\ Ends = {e, q}
  BY Peers, Zenon
<1>2. Here(e)'
  BY Zenon DEF Here
<1>3. Here(q)'
  BY <1>1, Zenon DEF Here
<1>4. Content'
  BY <1>1, <1>2, <1>3, Zenon DEF Content
<1> QED BY <1>4, ZenonT(60) DEF MsgInv

\* A new frame, and its place among those sent.
LEMMA SendMsg ==
    ASSUME ShortParts, WSInv, MsgInv, NEW e \in Ends, SendMessage(e)
    PROVE  MsgInv'
<1> DEFINE q == Peer(e)
<1>1. q = Peer(e)
  BY Zenon
<1> HIDE DEF q
<1>2. /\ q \in Ends /\ q # e
      /\ tx \in [Ends -> Seq(Fields)] /\ open \in [Ends -> BOOLEAN] /\ sent \in [Ends -> Seq(Sent)]
      /\ At(q, sent[q], received[e], open[e], wire[e], tx[q], open[q], rx[e], head[e], parts[e], opcode[e])
      /\ At(e, sent[e], received[q], open[q], wire[q], tx[e], open[e], rx[q], head[q], parts[q], opcode[q])
  BY <1>1, BothMsgs, Zenon
<1>3. PICK op \in Opcodes, size \in Sizes, fin \in BOOLEAN :
         /\ tx' = [tx EXCEPT ![e] = Frame(e, op, size, fin)]
         /\ sent' = [sent EXCEPT ![e] = Append(@, [op |-> op, size |-> size, fin |-> fin])]
  BY Zenon DEF SendMessage
<1>4. /\ open[e] /\ tx[e] = <<>> /\ wire' = wire /\ open' = open /\ rx' = rx /\ head' = head
      /\ parts' = parts /\ opcode' = opcode /\ received' = received
  BY Zenon DEF SendMessage, Call, stream
<1> DEFINE f == [op |-> op, size |-> size, fin |-> fin]
           more == Append(sent[e], f)
           n == Len(sent[e]) + 1
<1>5. f \in Sent
  BY WebSocketAssumption, ZenonT(60) DEF Sent
<1>6. /\ n \in Nat /\ more \in Seq(Sent) /\ Len(more) = n /\ n \in 1..Len(more) /\ more[n] = f
  BY <1>2, <1>5
<1>7. /\ tx'[e] = Frame(e, op, size, fin) /\ tx'[q] = tx[q] /\ sent'[e] = more /\ sent'[q] = sent[q]
      /\ sent' \in [Ends -> Seq(Sent)]
  BY <1>2, <1>3, <1>6, Zenon
<1>8. Path(e, more, n, Frame(e, op, size, fin), n + 1)
  BY <1>6, PathFrame, Zenon DEF ShortParts
<1>9. open[e] = TRUE
  BY <1>2, <1>4, Zenon
<1>10. At(e, more, received[q], open[q], wire[q], Frame(e, op, size, fin), TRUE, rx[q], head[q], parts[q], opcode[q])
  <2>1. sent[e] \in Seq(Sent) /\ At(e, sent[e], received[q], open[q], wire[q], <<>>, TRUE, rx[q], head[q], parts[q], opcode[q])
    BY <1>2, <1>4, <1>9, Zenon
  <2> QED BY <1>5, <1>8, <2>1, AtStarts, Zenon
<1>11. MsgTypes'
  BY <1>4, <1>7, Zenon DEF MsgInv, MsgTypes
<1> HIDE DEF f, more, n
<1> QED BY <1>1, <1>2, <1>4, <1>7, <1>9, <1>10, <1>11, MsgStep, ZenonT(60)

\* A ping is no frame of a message.
LEMMA PingMsg ==
    ASSUME WSInv, MsgInv, NEW e \in Ends, Ping(e)
    PROVE  MsgInv'
<1> DEFINE q == Peer(e)
<1>1. q = Peer(e)
  BY Zenon
<1> HIDE DEF q
<1>2. /\ q \in Ends /\ q # e
      /\ tx \in [Ends -> Seq(Fields)] /\ open \in [Ends -> BOOLEAN]
      /\ At(q, sent[q], received[e], open[e], wire[e], tx[q], open[q], rx[e], head[e], parts[e], opcode[e])
      /\ At(e, sent[e], received[q], open[q], wire[q], tx[e], open[e], rx[q], head[q], parts[q], opcode[q])
  BY <1>1, BothMsgs, Zenon
<1>3. /\ tx' = [tx EXCEPT ![e] = <<Control("PING")>>]
      /\ open[e] /\ tx[e] = <<>> /\ wire' = wire /\ open' = open /\ rx' = rx /\ head' = head
      /\ parts' = parts /\ opcode' = opcode /\ received' = received /\ sent' = sent
  BY Zenon DEF Ping, Call, stream
<1>4. tx'[e] = <<Control("PING")>> /\ tx'[q] = tx[q] /\ open[e] = TRUE
  BY <1>2, <1>3, Zenon
<1>5. At(e, sent[e], received[q], open[q], wire[q], <<Control("PING")>>, TRUE, rx[q], head[q], parts[q], opcode[q])
  BY <1>2, <1>3, <1>4, AtPings, Zenon
<1>6. MsgTypes'
  BY <1>3, Zenon DEF MsgInv, MsgTypes
<1> QED BY <1>1, <1>2, <1>3, <1>4, <1>5, <1>6, MsgStep, ZenonT(60)

\* A write changes nothing of what is on its way and still to be written.
LEMMA WriteMsg ==
    ASSUME WSInv, MsgInv, NEW e \in Ends, WriteField(e)
    PROVE  MsgInv'
<1> DEFINE q == Peer(e)
<1>1. q = Peer(e)
  BY Zenon
<1> HIDE DEF q
<1>2. /\ q \in Ends /\ q # e
      /\ tx \in [Ends -> Seq(Fields)] /\ open \in [Ends -> BOOLEAN] /\ wire \in [Ends -> Seq(Fields)]
      /\ At(q, sent[q], received[e], open[e], wire[e], tx[q], open[q], rx[e], head[e], parts[e], opcode[e])
      /\ At(e, sent[e], received[q], open[q], wire[q], tx[e], open[e], rx[q], head[q], parts[q], opcode[q])
  BY <1>1, BothMsgs, Zenon
<1>3. /\ tx[e] # <<>> /\ open[e] /\ tx' = [tx EXCEPT ![e] = Tail(@)]
      /\ wire' = IF open[q] THEN [wire EXCEPT ![q] = Append(@, tx[e][1])] ELSE wire
      /\ open' = open /\ rx' = rx /\ head' = head
      /\ parts' = parts /\ opcode' = opcode /\ received' = received /\ sent' = sent
  BY <1>1, Zenon DEF WriteField, Deliver
<1>4. tx[e] \in Seq(Fields) /\ open[e] = TRUE /\ open[q] \in BOOLEAN
  BY <1>2, <1>3, Zenon
<1>5. tx[e][1] = Head(tx[e])
  BY <1>3, <1>4
<1>6. tx'[e] = Tail(tx[e]) /\ tx'[q] = tx[q] /\ wire'[e] = wire[e]
  BY <1>2, <1>3, ZenonT(60)
<1>7. At(e, sent[e], received[q], open[q], wire'[q], Tail(tx[e]), TRUE, rx[q], head[q], parts[q], opcode[q])
  <2>1. CASE open[q]
    <3>1. wire'[q] = Append(wire[q], Head(tx[e]))
      BY <1>2, <1>3, <1>5, <2>1, Zenon
    <3> QED BY <1>2, <1>3, <1>4, <3>1, AtWrites, ZenonT(60)
  <2>2. CASE ~open[q]
    <3>1. open[q] = FALSE
      BY <1>4, <2>2, Zenon
    <3> QED BY <1>2, <3>1, Zenon DEF At
  <2> QED BY <2>1, <2>2, Zenon
<1>8. MsgTypes'
  BY <1>3, ZenonT(60) DEF MsgInv, MsgTypes
<1> QED BY <1>1, <1>2, <1>3, <1>4, <1>6, <1>7, <1>8, MsgStep, ZenonT(60)

\* An end that closes returns no more, and writes no more.
LEMMA CloseMsg ==
    ASSUME WSInv, MsgInv, NEW e \in Ends, open' = [open EXCEPT ![e] = FALSE],
           wire'[Peer(e)] = wire[Peer(e)], tx'[Peer(e)] = tx[Peer(e)],
           rx'[Peer(e)] = rx[Peer(e)], head'[Peer(e)] = head[Peer(e)],
           UNCHANGED <<parts, opcode, sent, received>>
    PROVE  MsgInv'
<1> DEFINE q == Peer(e)
<1>1. q = Peer(e)
  BY Zenon
<1> HIDE DEF q
<1>2. /\ q \in Ends /\ q # e /\ open \in [Ends -> BOOLEAN]
      /\ At(q, sent[q], received[e], open[e], wire[e], tx[q], open[q], rx[e], head[e], parts[e], opcode[e])
      /\ At(e, sent[e], received[q], open[q], wire[q], tx[e], open[e], rx[q], head[q], parts[q], opcode[q])
  BY <1>1, BothMsgs, Zenon
<1>3. /\ open'[e] = FALSE /\ open'[q] = open[q]
      /\ parts' = parts /\ opcode' = opcode /\ received' = received /\ sent' = sent
      /\ wire'[q] = wire[q] /\ tx'[q] = tx[q] /\ rx'[q] = rx[q] /\ head'[q] = head[q]
  BY <1>1, <1>2, Zenon
<1>4. At(q, sent[q], received[e], FALSE, wire'[e], tx[q], open[q], rx'[e], head'[e], parts[e], opcode[e])
  BY <1>2, Zenon DEF At
<1>5. At(e, sent[e], received[q], open[q], wire[q], tx'[e], FALSE, rx[q], head[q], parts[q], opcode[q])
  BY <1>2, AtSenderCloses, Zenon
<1>6. MsgTypes'
  BY <1>3, Zenon DEF MsgInv, MsgTypes
<1> QED BY <1>1, <1>3, <1>4, <1>5, <1>6, MsgStep, ZenonT(60)

\* An end that reads changes nothing of what it sends.
LEMMA ReaderMsg ==
    ASSUME WSInv, MsgInv, NEW e \in Ends, NEW q, q = Peer(e), UNCHANGED <<open, tx, sent>>,
           wire'[q] = wire[q], rx'[q] = rx[q], head'[q] = head[q],
           parts'[q] = parts[q], opcode'[q] = opcode[q], received'[q] = received[q],
           DOMAIN parts' = Ends, DOMAIN opcode' = Ends, DOMAIN received' = Ends,
           At(q, sent[q], received'[e], open[e], wire'[e], tx[q], open[q], rx'[e], head'[e], parts'[e], opcode'[e])
    PROVE  MsgInv'
<1>1. At(e, sent[e], received[q], open[q], wire[q], tx[e], open[e], rx[q], head[q], parts[q], opcode[q])
  BY BothMsgs, ZenonT(60)
<1>2. open' = open /\ tx' = tx /\ sent' = sent
  BY Zenon
<1>3. MsgTypes'
  BY <1>2, Zenon DEF MsgInv, MsgTypes
<1> QED BY <1>1, <1>2, <1>3, MsgStep, Zenon

\* recvMessage() starts between messages.
LEMMA ReceiveMsg ==
    ASSUME WSInv, MsgInv, NEW e \in Ends, Receive(e)
    PROVE  MsgInv'
<1> DEFINE q == Peer(e)
<1>1. q = Peer(e)
  BY Zenon
<1> HIDE DEF q
<1>2. /\ q \in Ends /\ q # e
      /\ rx \in [Ends -> {"idle", "head", "len16", "mask", "data", "pong"}]
      /\ DOMAIN parts = Ends /\ DOMAIN opcode = Ends /\ DOMAIN received = Ends
      /\ At(q, sent[q], received[e], open[e], wire[e], tx[q], open[q], rx[e], head[e], parts[e], opcode[e])
  BY <1>1, BothMsgs, Zenon
<1>3. /\ rx[e] = "idle" /\ rx' = [rx EXCEPT ![e] = "head"]
      /\ parts' = [parts EXCEPT ![e] = <<>>] /\ opcode' = [opcode EXCEPT ![e] = "CONTINUE"]
      /\ wire' = wire /\ open' = open /\ tx' = tx /\ head' = head /\ sent' = sent /\ received' = received
  BY Zenon DEF Receive, stream
<1>4. /\ rx'[e] = "head" /\ rx'[q] = rx[q] /\ parts'[e] = <<>> /\ parts'[q] = parts[q]
      /\ opcode'[e] = "CONTINUE" /\ opcode'[q] = opcode[q]
      /\ DOMAIN parts' = Ends /\ DOMAIN opcode' = Ends
  BY <1>2, <1>3, Zenon
<1>5. At(q, sent[q], received[e], open[e], wire[e], tx[q], open[q], "head", head[e], <<>>, "CONTINUE")
  BY <1>2, <1>3, AtReceives, Zenon
<1> QED BY <1>1, <1>2, <1>3, <1>4, <1>5, ReaderMsg, ZenonT(60)

\* A field that is not data is read.
LEMMA TakeMsg ==
    ASSUME WSInv, MsgInv, NEW e \in Ends, rx[e] # "idle", open[e], wire[e] # <<>>,
           Head(wire[e]).field # "data", wire' = [wire EXCEPT ![e] = Tail(@)],
           UNCHANGED <<open, tx, parts, opcode, sent, received>>,
           NEW r, r # "idle", rx' = [rx EXCEPT ![e] = r], NEW h, head' = [head EXCEPT ![e] = h],
           r \in {"len16", "mask", "data"} =>
               \/ rx[e] \in {"len16", "mask", "data"} /\ h = head[e]
               \/ Head(wire[e]).field = "head" /\ h = Head(wire[e]).value /\ h.op \notin {"PING", "PONG"}
    PROVE  MsgInv'
<1> DEFINE q == Peer(e)
<1>1. q = Peer(e)
  BY Zenon
<1> HIDE DEF q
<1>2. /\ q \in Ends /\ q # e /\ wire \in [Ends -> Seq(Fields)] /\ open \in [Ends -> BOOLEAN]
      /\ rx \in [Ends -> {"idle", "head", "len16", "mask", "data", "pong"}] /\ DOMAIN head = Ends
      /\ DOMAIN parts = Ends /\ DOMAIN opcode = Ends /\ DOMAIN received = Ends
      /\ At(q, sent[q], received[e], open[e], wire[e], tx[q], open[q], rx[e], head[e], parts[e], opcode[e])
  BY <1>1, BothMsgs, Zenon
<1>3. /\ open' = open /\ tx' = tx /\ parts' = parts /\ opcode' = opcode /\ sent' = sent
      /\ received' = received /\ open[e] = TRUE
  BY <1>2, Zenon
<1>4. /\ wire'[q] = wire[q] /\ rx'[q] = rx[q] /\ head'[q] = head[q]
      /\ wire'[e] = Tail(wire[e]) /\ rx'[e] = r /\ head'[e] = h
  BY <1>2, Zenon
<1>5. At(q, sent[q], received[e], TRUE, Tail(wire[e]), tx[q], open[q], r, h, parts[e], opcode[e])
  BY <1>2, <1>3, AtTakes, Zenon
<1> QED BY <1>1, <1>2, <1>3, <1>4, <1>5, ReaderMsg, ZenonT(60)

\* A head is the one of the frame the reader is at, a control head changes nothing.
LEMMA ReadHeadMsg ==
    ASSUME WSInv, MsgInv, NEW e \in Ends, ReadHead(e)
    PROVE  MsgInv'
<1> DEFINE v == Head(wire[e])
           h == v.value
           q == Peer(e)
<1>1. /\ rx[e] = "head" /\ open[e] /\ wire[e] # <<>> /\ v.field = "head" /\ GoodField(q, v)
      /\ wire' = [wire EXCEPT ![e] = Tail(@)] /\ wire'[q] = wire[q]
  BY Taken, SMTT(30) DEF ReadHead
<1>2. /\ head' = [head EXCEPT ![e] = h] /\ tx' = tx /\ parts' = parts /\ opcode' = opcode /\ sent' = sent
      /\ received' = received
  BY Zenon DEF ReadHead
<1>3. /\ rx \in [Ends -> {"idle", "head", "len16", "mask", "data", "pong"}] /\ DOMAIN head = Ends
      /\ q \in Ends /\ q # e
  BY BothMsgs, Zenon
<1> HIDE DEF q, h, v
<1>4. CASE Leave(e)
  <2>1. open' = [open EXCEPT ![e] = FALSE] /\ rx'[q] = rx[q] /\ head'[q] = head[q]
    BY <1>2, <1>3, <1>4, Zenon DEF Leave
  <2> QED BY <1>1, <1>2, <2>1, CloseMsg, Zenon DEF q
<1>5. ASSUME NEW r, r # "idle", rx' = [rx EXCEPT ![e] = r], UNCHANGED open,
             r \in {"len16", "mask", "data"} => h.op \notin {"PING", "PONG"}
      PROVE  MsgInv'
  BY <1>1, <1>2, <1>5, TakeMsg, Zenon DEF v, h
<1>6. CASE h.op = "PING" /\ rx' = [rx EXCEPT ![e] = "pong"] /\ UNCHANGED open
  BY <1>5, <1>6, Zenon
<1>7. CASE h.op = "PONG" /\ UNCHANGED <<rx, open>>
  <2>1. rx' = [rx EXCEPT ![e] = "head"]
    BY <1>1, <1>3, <1>7, Zenon
  <2> QED BY <1>5, <1>7, <2>1, Zenon
<1>8. CASE /\ h.op \in {"CONTINUE", "TEXT_FRAME"} /\ h.payload \in {126, 127}
           /\ rx' = [rx EXCEPT ![e] = IF h.payload = 126 THEN "len16" ELSE "len64"]
           /\ UNCHANGED open
  <2> DEFINE r == IF h.payload = 126 THEN "len16" ELSE "len64"
  <2>1. r # "idle" /\ rx' = [rx EXCEPT ![e] = r] /\ h.op \notin {"PING", "PONG"}
    BY <1>8, Zenon
  <2> HIDE DEF r
  <2> QED BY <1>5, <1>8, <2>1, Zenon
<1>9. CASE /\ h.op \in {"CONTINUE", "TEXT_FRAME"} /\ h.payload \notin {126, 127}
           /\ rx' = [rx EXCEPT ![e] = AfterLength(h)]
           /\ UNCHANGED open
  <2>1. AfterLength(h) # "idle" /\ h.op \notin {"PING", "PONG"}
    BY <1>9, Zenon DEF AfterLength
  <2> QED BY <1>5, <1>9, <2>1, Zenon
<1> QED BY <1>4, <1>6, <1>7, <1>8, <1>9, ZenonT(60) DEF ReadHead, h, v

\* A length or a mask belongs to the frame whose head was read.
LEMMA ReadLengthMsg ==
    ASSUME WSInv, MsgInv, NEW e \in Ends, ReadLength(e)
    PROVE  MsgInv'
<1> DEFINE q == Peer(e)
<1>1. /\ rx[e] = "len16" /\ open[e] /\ wire[e] # <<>> /\ Head(wire[e]).field = "len16"
      /\ wire' = [wire EXCEPT ![e] = Tail(@)] /\ wire'[q] = wire[q]
  BY Taken, ZenonT(60) DEF ReadLength
<1>2. /\ head' = head /\ tx' = tx /\ parts' = parts /\ opcode' = opcode /\ sent' = sent
      /\ received' = received
  BY Zenon DEF ReadLength
<1>3. /\ rx \in [Ends -> {"idle", "head", "len16", "mask", "data", "pong"}]
      /\ q \in Ends /\ q # e /\ head' = [head EXCEPT ![e] = head[e]]
  <2>1. head' = [head EXCEPT ![e] = head[e]]
    BY <1>2, Zenon DEF WSInv, WSTypes
  <2> QED BY <2>1, BothMsgs, Zenon
<1> HIDE DEF q
<1>4. CASE Leave(e)
  <2>1. open' = [open EXCEPT ![e] = FALSE] /\ rx'[q] = rx[q]
    BY <1>3, <1>4, Zenon DEF Leave
  <2> QED BY <1>1, <1>2, <2>1, CloseMsg, Zenon DEF q
<1>5. CASE rx' = [rx EXCEPT ![e] = AfterLength(head[e])] /\ UNCHANGED open
  <2>1. AfterLength(head[e]) # "idle" /\ rx[e] \in {"len16", "mask", "data"}
    BY <1>1, Zenon DEF AfterLength
  <2> QED BY <1>1, <1>2, <1>3, <1>5, <2>1, TakeMsg, ZenonT(60)
<1> QED BY <1>4, <1>5, ZenonT(60) DEF ReadLength

\* The same for the mask.
LEMMA ReadMaskMsg ==
    ASSUME WSInv, MsgInv, NEW e \in Ends, ReadMask(e)
    PROVE  MsgInv'
<1>1. /\ rx[e] = "mask" /\ open[e] /\ wire[e] # <<>> /\ Head(wire[e]).field = "mask"
      /\ wire' = [wire EXCEPT ![e] = Tail(@)]
  BY Taken, ZenonT(60) DEF ReadMask
<1>2. /\ head' = head /\ tx' = tx /\ parts' = parts /\ opcode' = opcode /\ sent' = sent
      /\ received' = received /\ open' = open /\ rx' = [rx EXCEPT ![e] = "data"]
  BY Zenon DEF ReadMask
<1>3. head' = [head EXCEPT ![e] = head[e]]
  BY <1>2, Zenon DEF WSInv, WSTypes
<1> QED BY <1>1, <1>2, <1>3, TakeMsg, Zenon

\* The data is the frame's own; with fin the message is returned.
LEMMA ReadDataMsg ==
    ASSUME WSInv, MsgInv, NEW e \in Ends, ReadData(e)
    PROVE  MsgInv'
<1> DEFINE q == Peer(e)
           w == wire[e]
           all == Append(parts[e], [Head(w).value EXCEPT !.masked = @ # head[e].mask])
           op == OpcodeAfter(e)
           r == IF head[e].fin THEN "idle" ELSE "head"
           got == IF head[e].fin THEN Append(received[e], [op |-> op, parts |-> all]) ELSE received[e]
<1>1. q = Peer(e)
  BY Zenon
<1>2. /\ rx[e] = "data" /\ open[e] /\ w # <<>> /\ Head(w).field = "data"
      /\ wire' = [wire EXCEPT ![e] = Tail(@)]
  BY Taken, ZenonT(60) DEF ReadData
<1>3. /\ parts' = [parts EXCEPT ![e] = all] /\ opcode' = [opcode EXCEPT ![e] = op]
      /\ rx' = [rx EXCEPT ![e] = r]
      /\ received' = IF head[e].fin
                     THEN [received EXCEPT ![e] = Append(@, [op |-> op, parts |-> all])] ELSE received
      /\ open' = open /\ tx' = tx /\ head' = head /\ sent' = sent
  BY Zenon DEF ReadData
<1>4. op = IF opcode[e] = "CONTINUE" THEN head[e].op ELSE opcode[e]
  BY Zenon DEF OpcodeAfter
<1> HIDE DEF q, op
<1>5. /\ q \in Ends /\ q # e /\ wire \in [Ends -> Seq(Fields)] /\ open \in [Ends -> BOOLEAN]
      /\ rx \in [Ends -> {"idle", "head", "len16", "mask", "data", "pong"}]
      /\ sent \in [Ends -> Seq(Sent)]
      /\ DOMAIN parts = Ends /\ DOMAIN opcode = Ends /\ DOMAIN received = Ends
      /\ At(q, sent[q], received[e], open[e], wire[e], tx[q], open[q], rx[e], head[e], parts[e], opcode[e])
  BY <1>1, BothMsgs, Zenon
<1>6. open[e] = TRUE /\ sent[q] \in Seq(Sent)
  BY <1>2, <1>5, Zenon
<1>7. At(q, sent[q], received[e], TRUE, w, tx[q], open[q], "data", head[e], parts[e], opcode[e])
  BY <1>2, <1>5, <1>6, Zenon
<1>8. At(q, sent[q], got, TRUE, Tail(w), tx[q], open[q], r, head[e], all, op)
  <2> DEFINE a == all
  <2>1. a = Append(parts[e], [Head(w).value EXCEPT !.masked = @ # head[e].mask])
    BY Zenon
  <2>2. got = IF head[e].fin THEN Append(received[e], [op |-> op, parts |-> a]) ELSE received[e]
    BY Zenon
  <2> HIDE DEF a, all, w, got
  <2>3. At(q, sent[q], IF head[e].fin THEN Append(received[e], [op |-> op, parts |-> a]) ELSE received[e],
           TRUE, Tail(w), tx[q], open[q], IF head[e].fin THEN "idle" ELSE "head", head[e], a, op)
    BY <1>2, <1>4, <1>6, <1>7, <2>1, AtData, ZenonT(60)
  <2> QED BY <2>2, <2>3, Zenon DEF a
<1> HIDE DEF all, r
<1>9. /\ wire'[e] = Tail(w) /\ wire'[q] = wire[q] /\ rx'[e] = r /\ rx'[q] = rx[q]
      /\ parts'[e] = all /\ parts'[q] = parts[q] /\ opcode'[e] = op /\ opcode'[q] = opcode[q]
      /\ DOMAIN parts' = Ends /\ DOMAIN opcode' = Ends
  BY <1>2, <1>3, <1>5, Zenon
<1>10. received'[e] = got /\ received'[q] = received[q] /\ DOMAIN received' = Ends
  BY <1>3, <1>5, Zenon
<1> HIDE DEF got, w
<1>11. open' = open /\ tx' = tx /\ sent' = sent /\ head'[e] = head[e] /\ head'[q] = head[q]
  BY <1>3, Zenon
<1>12. At(q, sent[q], received'[e], open[e], wire'[e], tx[q], open[q], rx'[e], head'[e], parts'[e], opcode'[e])
  BY <1>6, <1>8, <1>9, <1>10, <1>11, Zenon
<1> QED BY <1>1, <1>9, <1>10, <1>11, <1>12, ReaderMsg, ZenonT(60)

\* A pong is no frame of a message, and the message being read goes on.
LEMMA PongMsg ==
    ASSUME WSInv, MsgInv, NEW e \in Ends, Pong(e)
    PROVE  MsgInv'
<1> DEFINE q == Peer(e)
           c == Control("PONG")
<1>1. q = Peer(e)
  BY Zenon
<1> HIDE DEF q
<1>2. /\ q \in Ends /\ q # e /\ wire \in [Ends -> Seq(Fields)] /\ open \in [Ends -> BOOLEAN]
      /\ rx \in [Ends -> {"idle", "head", "len16", "mask", "data", "pong"}]
      /\ rx[e] = "idle" \/ tx[e] = <<>>
      /\ At(q, sent[q], received[e], open[e], wire[e], tx[q], open[q], rx[e], head[e], parts[e], opcode[e])
      /\ At(e, sent[e], received[q], open[q], wire[q], tx[e], open[e], rx[q], head[q], parts[q], opcode[q])
  BY <1>1, BothMsgs, Zenon
<1>3. /\ rx[e] = "pong" /\ open[e] /\ rx' = [rx EXCEPT ![e] = "head"]
      /\ wire' = IF open[q] THEN [wire EXCEPT ![q] = Append(@, c)] ELSE wire
      /\ open' = open /\ tx' = tx /\ head' = head
      /\ parts' = parts /\ opcode' = opcode /\ received' = received /\ sent' = sent
  BY <1>1, Zenon DEF Pong, Deliver
<1>4. /\ tx[e] = <<>> /\ open[e] = TRUE /\ open[q] \in BOOLEAN
      /\ rx'[e] = "head" /\ rx'[q] = rx[q] /\ wire'[e] = wire[e]
  BY <1>2, <1>3, Zenon
<1>5. At(q, sent[q], received[e], open[e], wire[e], tx[q], open[q], "head", head[e], parts[e], opcode[e])
  BY <1>2, <1>3, AtAnswered, ZenonT(60)
<1>6. At(e, sent[e], received[q], open[q], wire'[q], <<>>, TRUE, rx[q], head[q], parts[q], opcode[q])
  <2>1. CASE open[q]
    <3>1. wire'[q] = Append(wire[q], c)
      BY <1>2, <1>3, <2>1, Zenon
    <3>2. At(e, sent[e], received[q], open[q], wire[q], <<>>, TRUE, rx[q], head[q], parts[q], opcode[q])
      BY <1>2, <1>4, Zenon
    <3> QED BY <3>1, <3>2, AtPongs, Zenon
  <2>2. CASE ~open[q]
    <3>1. open[q] = FALSE
      BY <1>4, <2>2, Zenon
    <3> QED BY <1>2, <3>1, Zenon DEF At
  <2> QED BY <2>1, <2>2, Zenon
<1>7. MsgTypes'
  BY <1>3, ZenonT(60) DEF MsgInv, MsgTypes
<1> HIDE DEF c
<1>8. /\ open' = open /\ tx' = tx /\ head' = head
      /\ parts' = parts /\ opcode' = opcode /\ received' = received /\ sent' = sent
  BY <1>3, Zenon
<1> QED BY <1>1, <1>4, <1>5, <1>6, <1>7, <1>8, MsgStep, Zenon

\* A write or a read that fails closes the stream.
LEMMA FailsMsg ==
    ASSUME WSInv, MsgInv, NEW e \in Ends, WriteFails(e) \/ ReadFails(e)
    PROVE  MsgInv'
<1> DEFINE q == Peer(e)
<1>1. q = Peer(e)
  BY Zenon
<1> HIDE DEF q
<1>2. /\ q \in Ends /\ q # e /\ tx \in [Ends -> Seq(Fields)]
      /\ rx \in [Ends -> {"idle", "head", "len16", "mask", "data", "pong"}]
  BY <1>1, BothMsgs, Zenon
<1>3. CASE WriteFails(e)
  <2>1. /\ open' = [open EXCEPT ![e] = FALSE] /\ tx' = [tx EXCEPT ![e] = <<>>]
        /\ wire' = wire /\ rx' = rx /\ head' = head
        /\ UNCHANGED <<parts, opcode, sent, received>>
    BY <1>3, Zenon DEF WriteFails
  <2>2. tx'[q] = tx[q]
    BY <1>2, <2>1, Zenon
  <2> QED BY <1>1, <2>1, <2>2, CloseMsg, Zenon
<1>4. CASE ReadFails(e)
  <2>1. /\ open' = [open EXCEPT ![e] = FALSE] /\ rx' = [rx EXCEPT ![e] = "idle"]
        /\ wire' = wire /\ tx' = tx /\ head' = head
        /\ UNCHANGED <<parts, opcode, sent, received>>
    BY <1>4, Zenon DEF ReadFails, Leave
  <2>2. rx'[q] = rx[q]
    BY <1>2, <2>1, Zenon
  <2> QED BY <1>1, <2>1, <2>2, CloseMsg, Zenon
<1> QED BY <1>3, <1>4, Zenon

\* At the start nothing was sent and nothing was read.
LEMMA MsgInit == Init => MsgInv
<1> SUFFICES ASSUME Init PROVE MsgInv
  BY Zenon
<1>1. MsgTypes
  BY DEF Init, MsgTypes
<1>2. ASSUME NEW e \in Ends PROVE Here(e)
  <2> DEFINE q == Peer(e)
  <2>1. /\ q \in Ends
    BY Peers, Zenon
  <2>2. /\ sent[q] = <<>> /\ received[e] = <<>> /\ wire[e] = <<>> /\ tx[q] = <<>> /\ rx[e] = "idle"
    BY <2>1, Zenon DEF Init
  <2>3. <<>> \in Seq(Sent) /\ Len(<<>>) = 0 /\ 1 \in 1..(Len(<<>>) + 1) /\ 1 - 1 = 0
        /\ Len(<<>>) + 1 = 1 /\ 1 \in Nat
    OBVIOUS
  <2>4. Reading(<<>>)[0] = NothingRead
    BY <2>3, ReadingUnfolds, Zenon
  <2>5. NothingRead.done = <<>> /\ NothingRead.parts = <<>> /\ NothingRead.op = "CONTINUE"
    BY Zenon DEF NothingRead
  <2>6. Path(q, <<>>, 1, <<>>, 1)
    BY <2>3, PathEmpty, Zenon
  <2>7. Place(q, <<>>, 1, <<>>, <<>>, open[q])
    BY <2>3, <2>6, Zenon DEF Place
  <2>8. Reads(q, <<>>, 1, "idle", head[e], parts[e], opcode[e])
    BY <2>3, <2>4, <2>5, Zenon DEF Reads
  <2>9. <<>> = Reading(<<>>)[1 - 1].done
    BY <2>3, <2>4, <2>5, Zenon
  <2>10. At(q, <<>>, <<>>, open[e], <<>>, <<>>, open[q], "idle", head[e], parts[e], opcode[e])
    BY <2>3, <2>7, <2>8, <2>9, Zenon DEF At
  <2> QED BY <2>2, <2>10, Zenon DEF Here
<1>3. Content
  BY <1>2, Zenon DEF Content
<1> QED BY <1>1, <1>3, Zenon DEF MsgInv

\* What was returned are the first messages of what was sent.
LEMMA InvIsIntact == MsgInv => MessagesIntact
<1> SUFFICES ASSUME MsgInv, NEW e \in Ends
             PROVE  /\ Len(received[e]) <= Len(Messages(sent[Peer(e)]))
                    /\ \A i \in 1..Len(received[e]) : received[e][i] = Messages(sent[Peer(e)])[i]
  BY Zenon DEF MessagesIntact
<1> DEFINE frames == sent[Peer(e)]
<1>1. frames \in Seq(Sent) /\ Here(e)
  BY Peers, Zenon DEF MsgInv, MsgTypes, Content
<1>2. PICK k \in 1..(Len(frames) + 1) : received[e] = Reading(frames)[k - 1].done
  BY <1>1, Zenon DEF Here, At
<1> HIDE DEF frames
<1>3. k - 1 \in 0..Len(frames)
  BY <1>1
<1>4. /\ Len(Reading(frames)[k - 1].done) <= Len(Messages(frames))
      /\ \A i \in 1..Len(Reading(frames)[k - 1].done) : Messages(frames)[i] = Reading(frames)[k - 1].done[i]
  BY <1>1, <1>3, ReadingGrows, Zenon
<1>5. /\ Len(received[e]) <= Len(Messages(frames))
      /\ \A i \in 1..Len(received[e]) : received[e][i] = Messages(frames)[i]
  BY <1>2, <1>4, Zenon
<1> QED BY <1>5, Zenon DEF frames

\* Every step of an end keeps both invariants.
LEMMA MsgStepHolds ==
    ASSUME ShortParts, WSInv, MsgInv, NEW e \in Ends, EndStep(e)
    PROVE  MsgInv'
<1>1. CASE SendMessage(e) \/ Ping(e) \/ WriteField(e) \/ Receive(e)
  BY <1>1, SendMsg, PingMsg, WriteMsg, ReceiveMsg, Zenon
<1>2. CASE ReadHead(e) \/ ReadLength(e) \/ ReadMask(e) \/ ReadData(e)
  BY <1>2, ReadHeadMsg, ReadLengthMsg, ReadMaskMsg, ReadDataMsg, Zenon
<1>3. CASE Pong(e) \/ WriteFails(e) \/ ReadFails(e)
  BY <1>3, PongMsg, FailsMsg, Zenon
<1> QED BY <1>1, <1>2, <1>3, Zenon DEF EndStep

\* recvMessage() returns the messages of the other end in order, complete, unmasked and
\* under their own opcode, whatever the sizes of the parts, the pings between them and
\* the reads and writes that fail (ws_session.cc:103-196).
THEOREM MessagesStayIntact ==
    ASSUME ~Concurrent, ShortParts
    PROVE  Spec => []MessagesIntact
<1> DEFINE Inv == WSInv /\ MsgInv
<1>1. Init => Inv
  BY InitHolds, MsgInit, Zenon
<1>2. Inv /\ [Next]_vars => Inv'
  <2> SUFFICES ASSUME Inv, [Next]_vars PROVE Inv'
    BY Zenon
  <2>1. CASE Next
    <3>1. PICK e \in Ends : EndStep(e)
      BY <2>1, Zenon DEF Next
    <3>2. WSInv'
      BY <3>1, EndStepHolds, Zenon
    <3>3. MsgInv'
      BY <3>1, MsgStepHolds, Zenon
    <3> QED BY <3>2, <3>3, Zenon
  <2>2. CASE UNCHANGED vars
    <3>1. /\ wire' = wire /\ open' = open /\ tx' = tx /\ rx' = rx /\ head' = head /\ parts' = parts
          /\ opcode' = opcode /\ sent' = sent /\ received' = received
      BY <2>2, Zenon DEF vars, stream, calls
    <3>2. WSInv'
      BY <3>1, ZenonT(60) DEF WSInv, WSTypes, Turns, Masks, Sync
    <3>3. MsgInv'
      BY <3>1, Zenon DEF MsgInv, MsgTypes, Content, Here
    <3> QED BY <3>2, <3>3, Zenon
  <2> QED BY <2>1, <2>2, Zenon
<1>3. Inv => MessagesIntact
  BY InvIsIntact, Zenon
<1> QED BY <1>1, <1>2, <1>3, PTL DEF Spec
=============================================================================
