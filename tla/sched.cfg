CONSTANTS
  Pool = {t1}
  Caller = c
  UseCaller = TRUE
  Fibers = {f1, f2, f3}
  Callbacks = {f1}
  SelfPinned = TRUE
  MaxYields = 1
  AnyThread = AnyThread
  NoFiber = NoFiber
SPECIFICATION FairSpec
INVARIANTS StopDrains  
PROPERTIES ImplementsTaskPool EveryTaskRuns
