CONSTANTS
  a = a
  t1 = t1
  t2 = t2
  w1 = w1
  w2 = w2
  Threads = {t1, t2}
  Fds = {a, b}
  Waiters = {w1, w2, w3}
  Pools <- MCPools
  NoWaiter = NoWaiter
SPECIFICATION FairSpec
INVARIANTS WokenOnce RegistrationsAgree  TriggeredIsRegistered
PROPERTIES ReadyIsServed
