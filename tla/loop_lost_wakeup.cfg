CONSTANTS
  Pool = {p1}
  Callers = {}
  Timers = {}
  Events = {}
  MaxTasks = 2
SPECIFICATION Spec
INVARIANTS NoLostWakeup
