CONSTANTS
  Fibers = {f1, f2}
  Fds = {1}
  MaxSockets = 2
  MaxCalls = 2
  NoCtx = NoCtx
SPECIFICATION Spec
INVARIANTS TimeoutIsReal FreshContext NobodyForgotten TimedWaitEnds
CHECK_DEADLOCK FALSE
SYMMETRY Perms
