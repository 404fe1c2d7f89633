----------------------------- MODULE MCHttpPool -----------------------------
EXTENDS HttpPool, TLC

\* Fibers are interchangeable, and so are connections.
Perms == Permutations(Clients) \cup Permutations(Conns)
=============================================================================
