------------------------------- MODULE Varint -------------------------------
(***************************************************************************)
(* The variable-length integers of lamb/bytearray.cc: zigzag, then groups   *)
(* of seven bits, low group first, the eighth bit set on all but the last.  *)
(* The 32- and the 64-bit functions differ only in Width.                   *)
(***************************************************************************)
EXTENDS Integers, Sequences

CONSTANT Width        \* of the integers: 32 and 64 in the code

ASSUME VarintAssumption == Width \in Nat \ {0}

\* 1 << n, for the shifts that occur
Pow2[n \in 0..(Width + 7)] == IF n = 0 THEN 1 ELSE 2 * Pow2[n - 1]

\* The unsigned and the signed integers, and those next to a change of the number
\* of bits or groups.
Uint == 0..(Pow2[Width] - 1)
Sint == -Pow2[Width - 1]..(Pow2[Width - 1] - 1)
SomeUint == Uint \cap UNION {{Pow2[k] - 1, Pow2[k], Pow2[k] + 1} : k \in 0..Width}
SomeSint == Sint \cap UNION {{Pow2[k] - 1, -Pow2[k], 1 - Pow2[k]} : k \in 0..Width}

\* The negative numbers are one too high.
EncodeZigzag_OffByOne(v) == IF v < 0 THEN ((-v) * 2) % Pow2[Width] ELSE v * 2

\* -v of the smallest integer overflows; it wraps in this build, and the
\* product is taken modulo 2^Width.
EncodeZigzag(v) == IF v < 0 THEN ((-v) * 2 - 1) % Pow2[Width] ELSE v * 2

\* (v >> 1) ^ -(v & 1), as a signed integer
DecodeZigzag(v) == IF v % 2 = 0 THEN v \div 2 ELSE -(v \div 2) - 1

\* writeUint32(), writeUint64()
Groups[value \in Uint] ==
    IF value < 128 THEN <<value>>
    ELSE <<(value % 128) + 128>> \o Groups[value \div 128]

\* The size of tmp: 5 and 10 in the code.
TmpSize == (Width + 6) \div 7

\* readUint32(), readUint64(), from the group k on, which is shifted by 7 * k.  It
\* yields the value and the number of bytes taken, also when the last group has
\* its top bit set.
ParseFrom(bytes) ==
    LET from[k \in 0..TmpSize] ==
          IF 7 * k >= Width THEN [value |-> 0, used |-> 0]
          ELSE IF bytes[k + 1] < 128
          THEN [value |-> (bytes[k + 1] * Pow2[7 * k]) % Pow2[Width], used |-> 1]
          ELSE [value |-> (((bytes[k + 1] - 128) * Pow2[7 * k]) % Pow2[Width]) + from[k + 1].value,
                used |-> from[k + 1].used + 1]
    IN  from
Parse(bytes) == ParseFrom(bytes)[0]
-----------------------------------------------------------------------------
\* Integers of us, and of ss with a sign, are read back as they were written whatever
\* follows them in the array, take exactly their own bytes, each of them is a byte,
\* and they fit tmp[5] and tmp[10] (bytearray.cc:113-168, 252-286).
ReadBack(us, ss) ==
    /\ \A v, w \in us :
          LET parsed == Parse(Groups[v] \o Groups[w])
          IN  parsed.value = v /\ parsed.used = Len(Groups[v])
    /\ \A v \in ss :
          EncodeZigzag(v) \in Uint /\ DecodeZigzag(Parse(Groups[EncodeZigzag(v)]).value) = v
    /\ \A v \in us :
          /\ Len(Groups[v]) <= TmpSize
          /\ \A i \in DOMAIN Groups[v] : Groups[v][i] \in 0..255
=============================================================================
