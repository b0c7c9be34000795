CONSTANTS
  Worker = {w1, w2}
  Task = {t1, t2, t3}
  NoTask = NoTask
SPECIFICATION FairSpec
INVARIANTS
  NoLostWakeup
PROPERTIES
  ImplementsTaskPool
  PoolProgress
