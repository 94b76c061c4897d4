CONSTANTS
  t1 = t1
  t2 = t2
  t3 = t3
  t4 = t4
  AbortTask = AbortTask
  NoThread = NoThread
  Tasks <- MCTasks
  MaxCounter = 2
  WaitMayFail = TRUE
SPECIFICATION FairSpec
INVARIANTS CounterMatchesTasks NoLostWakeup NoSpuriousTransfer
PROPERTIES ImplementsChannel TasksExecuted DestructorReturns
CHECK_DEADLOCK FALSE
