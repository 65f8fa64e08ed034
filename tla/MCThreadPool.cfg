SPECIFICATION FairSpec
CONSTANTS
  w1 = w1
  w2 = w2
  t1 = t1
  t2 = t2
  t3 = t3
  t4 = t4
  NoTask = NoTask
  Worker = {w1, w2}
  Task = {t1, t2, t3, t4}
  Raisable = {t3}
  FrontTask = {t4}
INVARIANTS ExecutedOnce EnoughAwake
PROPERTIES EveryTaskRuns DestructorReturns QueueSpec
CHECK_DEADLOCK FALSE
