CONSTANTS
  Pool = {p1}
  Callers = {c}
  Timers = {x1}
  Events = {e1}
  MaxTasks = 2
SPECIFICATION FairSpec
INVARIANTS TickleNotLost
PROPERTIES TasksAreTaken StopReturns
