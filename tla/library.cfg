SPECIFICATION AllSpec
CONSTANTS
  thread1 = thread1  thread2 = thread2  thread3 = thread3  b1 = b1  b2 = b2
  None = None
  Thread = {thread1, thread2, thread3}  Waiter = {thread1, thread2}
  Bit = {b1, b2}  Timer = {b1, b2}  Task = {1, 2, 3}  NoTask = None
  Reference = {1, 2, 3, 4}
  MaxNow = 3  MaxClock = 2  MaxInterrupts = 1
  DoneMax = 4
  UnrHigh = 6  UnrBits = 4  IdrHigh = 4  IdrBits = 3
  AvlNodes = 11  RbNodes = 11  SortLen = 8
INVARIANTS NoLostWakeup ReferencesHeld NoSleeperLost OwnerHolds TasksHaveThreads TimersInOrder
  AllocatedExact LoopsVisit Balanced DestroysOnce RedBlack StableSort NoLonger
PROPERTIES ImplementsPermits ImplementsTimers EveryoneReturns
CHECK_DEADLOCK FALSE
