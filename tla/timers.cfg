CONSTANTS
  Threads = {a, b}
  Timers = {1, 2}
  Periods = {1, 2}
  Start = 2
  MaxNow = 3
  MaxLag = 2
  MaxFired = 1
  MaxCallers = 1
  Hour = 2
  Word = 16
SPECIFICATION FairSpec
INVARIANTS OneShotOnce FrontAnnounced
PROPERTIES NeverEarly DueIsServed
