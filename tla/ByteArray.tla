------------------------------ MODULE ByteArray ------------------------------
(***************************************************************************)
(* lamb/bytearray.cc: a list of nodes of m_baseSize bytes each, a position, *)
(* and a pointer to the node of the position.  All nodes have the same      *)
(* size, so a node is the offset of its first byte in the list, and Null is *)
(* the pointer that `next` of the last node holds.                          *)
(***************************************************************************)
EXTENDS Integers, Sequences

CONSTANTS
    Base,      \* m_baseSize
    Bytes,
    MaxSize,   \* bound: no operation brings the capacity above this
    MaxWrite,  \* bound: bytes per call
    Uses       \* subset of {"empty", "at", "file"}: what the caller does beyond
               \* the careful use: reads of no bytes anywhere, read() at any
               \* position, writeToFile() from the middle of a node

ASSUME ByteArrayAssumption ==
    /\ Base \in Nat \ {0} /\ MaxSize \in Nat /\ MaxWrite \in Nat
    /\ Base <= MaxSize

VARIABLES
    mem,         \* the bytes of all nodes, by absolute offset 0..m_capacity-1
    m_capacity, m_size, m_position,
    m_cur,       \* offset of the node, or Null
    out,         \* what the last call delivered, or <<"throws">>
    crashed      \* a Null node was dereferenced

vars == <<mem, m_capacity, m_size, m_position, m_cur, out, crashed>>
store == <<mem, m_capacity, m_size, m_position, m_cur>>

Null == -1
Nodes(cap) == 0..(cap - 1) \cup {Null}
NodeOf(p) == p - (p % Base)
NextNode(i, cap) == IF i + Base < cap THEN i + Base ELSE Null
Smaller(a, b) == IF a < b THEN a ELSE b
Larger(a, b) == IF a > b THEN a ELSE b
GetReadSize == m_size - m_position
Data == [i \in 1..m_size |-> mem[i - 1]]

Init ==
    /\ m_capacity = Base
    /\ mem \in [0..(Base - 1) -> Bytes]       \* new char[] is not initialized
    /\ m_size = 0 /\ m_position = 0
    /\ m_cur = 0
    /\ out = <<>>
    /\ crashed = FALSE

(***************************************************************************)
(* The loop that read(), write() and the iovec functions share: from offset *)
(* npos of node cur, size bytes through the list.  It yields the absolute   *)
(* offsets it touched and the node it ends in; Null instead of a node is a  *)
(* crash.                                                                   *)
(***************************************************************************)
Walk(cap) ==
    LET walk[w \in [cur : Nodes(cap), npos : 0..(Base - 1), size : Nat]] ==
          IF w.cur = Null THEN [cells |-> <<>>, cur |-> Null, ok |-> FALSE]
          ELSE LET ncap == Base - w.npos
                   next == NextNode(w.cur, cap)
                   cells == [i \in 1..Smaller(ncap, w.size) |-> w.cur + w.npos + i - 1]
               IN  IF ncap >= w.size
                   THEN [cells |-> cells, cur |-> IF ncap = w.size THEN next ELSE w.cur, ok |-> TRUE]
                   ELSE LET rest == walk[[cur |-> next, npos |-> 0, size |-> w.size - ncap]]
                        IN  [rest EXCEPT !.cells = cells \o @]
    IN  walk

WalkFrom(cur, p, size, cap) == Walk(cap)[[cur |-> cur, npos |-> p % Base, size |-> size]]
Here(size, cap, cur) == WalkFrom(cur, m_position, size, cap)

(***************************************************************************)
(* addCapacity(): whole nodes until size more bytes fit.                    *)
(***************************************************************************)
Grown(size) ==
    LET old_cap == m_capacity - m_position
        count == (size - old_cap + Base - 1) \div Base
    IN  IF old_cap >= size THEN m_capacity ELSE m_capacity + count * Base

\* It stays where it was.
CurAfter_Stays(cap) == m_cur

\* m_cur after addCapacity(): the first new node if the array was full.
CurAfter(cap) ==
    IF cap > m_capacity /\ m_capacity = m_position THEN m_capacity ELSE m_cur

(***************************************************************************)
(* write(), clear(), setPosition().                                        *)
(***************************************************************************)
\* The data ends where the write ends.
SizeAfter_Truncates(end) == end

SizeAfter(end) == Larger(m_size, end)

Write(v) ==
    LET size == Len(v)
        cap == Grown(size)
        walk == Here(size, cap, CurAfter(cap))
    IN  /\ size > 0                     \* write() of nothing returns at once
        /\ cap <= MaxSize
        /\ \E junk \in [m_capacity..(cap - 1) -> Bytes] :
              mem' = [a \in 0..(cap - 1) |->
                        IF \E i \in DOMAIN walk.cells : walk.cells[i] = a
                        THEN v[CHOOSE i \in DOMAIN walk.cells : walk.cells[i] = a]
                        ELSE IF a < m_capacity THEN mem[a] ELSE junk[a]]
        /\ m_capacity' = cap
        /\ m_cur' = walk.cur
        /\ m_position' = m_position + size
        /\ m_size' = SizeAfter(m_position + size)
        /\ crashed' = ~walk.ok
        /\ out' = <<>>

\* clear(): the first node and its bytes stay.
Clear ==
    /\ mem' = [a \in 0..(Base - 1) |-> mem[a]]
    /\ m_capacity' = Base
    /\ m_size' = 0 /\ m_position' = 0 /\ m_cur' = 0
    /\ out' = <<>>
    /\ UNCHANGED crashed

\* setPosition(): `while (v > size)', then one node further if v = size.
CurAt(v, cap) == IF v = 0 THEN 0
                 ELSE IF v % Base = 0 THEN NextNode(v - Base, cap) ELSE NodeOf(v)

SetPosition(v) ==
    \/ /\ v > m_capacity
       /\ out' = <<"throws">>
       /\ UNCHANGED <<store, crashed>>
    \/ /\ v <= m_capacity
       /\ m_position' = v
       /\ m_size' = Larger(m_size, v)
       /\ m_cur' = CurAt(v, m_capacity)
       /\ out' = <<>>
       /\ UNCHANGED <<mem, m_capacity, crashed>>

(***************************************************************************)
(* read(buf, size): the loop, also when there is nothing to read.           *)
(***************************************************************************)
Read(size) ==
    \/ /\ size > GetReadSize
       /\ out' = <<"throws">>
       /\ UNCHANGED <<store, crashed>>
    \/ LET walk == Here(size, m_capacity, m_cur)
       IN  /\ size <= GetReadSize
           /\ size = 0 /\ m_cur = Null => "empty" \in Uses
           /\ out' = [i \in DOMAIN walk.cells |-> mem[walk.cells[i]]]
           /\ m_position' = m_position + size
           /\ m_cur' = walk.cur
           /\ crashed' = ~walk.ok
           /\ UNCHANGED <<mem, m_capacity, m_size>>

\* read(buf, size, position) starts in the node of m_position; toString() calls
\* it with position = m_position.
ReadAt(size, p) ==
    LET walk == WalkFrom(m_cur, p, size, m_capacity)
    IN  /\ p <= m_size /\ size <= m_size - p /\ size > 0
        /\ "at" \in Uses \/ NodeOf(p) = NodeOf(m_position)
        /\ out' = [i \in DOMAIN walk.cells |-> mem[walk.cells[i]]]
        /\ crashed' = ~walk.ok
        /\ UNCHANGED store

(***************************************************************************)
(* The iovec functions, as SocketStream uses them: getWriteBuffers(), a     *)
(* recv() that fills part of them, setPosition(); getReadBuffers(), a       *)
(* send() of part of them, setPosition().                                   *)
(***************************************************************************)
Fill(len, v) ==
    LET cap == Grown(len)
        walk == Here(len, cap, CurAfter(cap))
        end == m_position + Len(v)
    IN  /\ len > 0 /\ Len(v) <= len
        /\ cap <= MaxSize
        /\ \E junk \in [m_capacity..(cap - 1) -> Bytes] :
              mem' = [a \in 0..(cap - 1) |->
                        IF \E i \in 1..Len(v) : walk.cells[i] = a
                        THEN v[CHOOSE i \in 1..Len(v) : walk.cells[i] = a]
                        ELSE IF a < m_capacity THEN mem[a] ELSE junk[a]]
        /\ m_capacity' = cap
        /\ m_position' = end
        /\ m_size' = Larger(m_size, end)
        /\ m_cur' = IF v = <<>> THEN CurAfter(cap)       \* recv() failed: no setPosition()
                    ELSE CurAt(end, cap)
        /\ crashed' = ~walk.ok
        /\ out' = <<>>

SendOut(len, n) ==
    LET walk == Here(Smaller(len, GetReadSize), m_capacity, m_cur)
    IN  /\ GetReadSize > 0 /\ n > 0 /\ n <= Smaller(len, GetReadSize)
        /\ out' = [i \in 1..n |-> mem[walk.cells[i]]]
        /\ m_position' = m_position + n
        /\ m_cur' = CurAt(m_position + n, m_capacity)
        /\ crashed' = ~walk.ok
        /\ UNCHANGED <<mem, m_capacity, m_size>>

(***************************************************************************)
(* writeToFile(): one write per node, len = min(read_size, base) - diff.    *)
(***************************************************************************)
\* len < 0 fails the stream (bad): nothing more is written, the loop goes on.
FileLoop ==
    LET loop[f \in [cur : Nodes(m_capacity), pos : Int, read_size : Int, bad : BOOLEAN]] ==
          IF f.read_size <= 0 THEN [cells |-> <<>>, ok |-> TRUE]
          ELSE IF f.cur = Null THEN [cells |-> <<>>, ok |-> FALSE]
          ELSE LET diff == f.pos % Base
                   len == Smaller(f.read_size, Base) - diff
                   bad == f.bad \/ len < 0
                   rest == loop[[cur |-> NextNode(f.cur, m_capacity), pos |-> f.pos + len,
                                 read_size |-> f.read_size - len, bad |-> bad]]
               IN  IF bad THEN rest
                   ELSE [rest EXCEPT !.cells = [i \in 1..len |-> f.cur + diff + i - 1] \o @]
    IN  loop

WriteToFile ==
    LET file == FileLoop[[cur |-> m_cur, pos |-> m_position, read_size |-> GetReadSize, bad |-> FALSE]]
    IN  /\ "file" \in Uses \/ m_position % Base = 0
        /\ out' = [i \in DOMAIN file.cells |-> mem[file.cells[i]]]
        /\ crashed' = ~file.ok
        /\ UNCHANGED store

Next ==
    /\ ~crashed
    /\ \/ \E n \in 0..MaxWrite : \E v \in [1..n -> Bytes] :
             Write(v) \/ \E len \in n..MaxWrite : Fill(len, v)
       \/ \E n \in 0..MaxWrite :
             Read(n) \/ \E len \in n..MaxWrite : SendOut(len, n)
       \/ \E p \in 0..(MaxSize + 1) :
             SetPosition(p) \/ \E n \in 0..MaxWrite : ReadAt(n, p)
       \/ Clear
       \/ WriteToFile

Spec == Init /\ [][Next]_vars
-----------------------------------------------------------------------------
\* No call within its documented preconditions dereferences a null node
\* (bytearray.h:337-378, bytearray.cc:347-482).
NoNullDereference == ~crashed

\* The refinement: with the nodes hidden a ByteArray is a stream of bytes.
Stream == INSTANCE ByteStream WITH
            Sizes <- 0..MaxWrite, Positions <- 0..(MaxSize + 1), bytes <- Data, pos <- m_position

\* A ByteArray implements the byte stream of its documentation, over all
\* sequences of writes, reads, seeks, buffers and clears (bytearray.cc:334-654).
ImplementsStream == Stream!Spec
=============================================================================
