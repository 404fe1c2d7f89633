------------------------------- MODULE MCHook -------------------------------
EXTENDS Hook, TLC

Perms == Permutations(Fibers)
=============================================================================
