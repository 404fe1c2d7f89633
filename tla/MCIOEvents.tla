----------------------------- MODULE MCIOEvents -----------------------------
EXTENDS IOEvents

CONSTANTS a, t1, t2, w1, w2

\* One thread, with a stream socket that fibers and a callback read and write
\* and a listening socket that is only read; or two threads, and listening
\* sockets that callbacks read.
MCPools ==
    {[threads |-> {t1}, waiters |-> Waiters, fibers |-> {w1, w2},
      dirs |-> [fd \in Fds |-> IF fd = a THEN Events ELSE {"READ"}]],
     [threads |-> {t1, t2}, waiters |-> {w1, w2}, dirs |-> [fd \in Fds |-> {"READ"}], fibers |-> {}]}
=============================================================================
