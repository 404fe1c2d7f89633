----------------------------- MODULE ByteStream -----------------------------
(***************************************************************************)
(* What a ByteArray promises (include/bytearray.h): a sequence of bytes and *)
(* a position in it.  Nodes, capacity and the current node are not visible. *)
(***************************************************************************)
EXTENDS Naturals, Sequences

CONSTANTS
    Bytes,
    Sizes,       \* of one call
    Positions

VARIABLES bytes, pos, out   \* the data, m_position, what the last call delivered

streamVars == <<bytes, pos, out>>

\* Writing v at the position overwrites, and extends the data where it must.
Overwritten(v) ==
    [i \in 1..(IF pos + Len(v) > Len(bytes) THEN pos + Len(v) ELSE Len(bytes)) |->
        IF i > pos /\ i <= pos + Len(v) THEN v[i - pos] ELSE bytes[i]]

Init == bytes = <<>> /\ pos = 0 /\ out = <<>>

Write(v) ==
    /\ bytes' = Overwritten(v)
    /\ pos' = pos + Len(v)
    /\ out' = <<>>

\* A read beyond the data throws and changes nothing.
Read(n) ==
    \/ /\ n <= Len(bytes) - pos
       /\ out' = SubSeq(bytes, pos + 1, pos + n)
       /\ pos' = pos + n
       /\ UNCHANGED bytes
    \/ /\ n > Len(bytes) - pos
       /\ out' = <<"throws">>
       /\ UNCHANGED <<bytes, pos>>

\* Delivers data without moving the position.
Peek(p, n) ==
    /\ p + n <= Len(bytes)
    /\ out' = SubSeq(bytes, p + 1, p + n)
    /\ UNCHANGED <<bytes, pos>>

\* The data grows when the position is set behind its end (with what happens to
\* be in memory); a position behind the capacity throws.
SetPosition(v) ==
    \/ /\ pos' = v
       /\ out' = <<>>
       /\ bytes' \in [1..(IF v > Len(bytes) THEN v ELSE Len(bytes)) -> Bytes]
       /\ \A i \in DOMAIN bytes : bytes'[i] = bytes[i]
    \/ out' = <<"throws">> /\ UNCHANGED <<bytes, pos>>

Clear == bytes' = <<>> /\ pos' = 0 /\ out' = <<>>

Next ==
    \/ \E n \in Sizes : \E v \in [1..n -> Bytes] : Write(v)
    \/ \E n \in Sizes : Read(n)
    \/ \E p \in Positions : SetPosition(p) \/ \E n \in Positions : Peek(p, n)
    \/ Clear

Spec == Init /\ [][Next]_streamVars
=============================================================================
