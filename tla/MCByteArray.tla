----------------------------- MODULE MCByteArray -----------------------------
EXTENDS ByteArray, Varint

\* An integer written to an array that was just constructed or cleared is read back
\* as it was written whatever follows it, takes exactly its own bytes, each of them
\* is a byte, and they fit tmp[5] and tmp[10] (bytearray.cc:113-168, 252-286).
VarintReadsBack == m_size = 0 => ReadBack(SomeUint, SomeSint)
=============================================================================
