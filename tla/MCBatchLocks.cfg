SPECIFICATION FairSpec
CONSTANTS
  Batches = {b1, b2}
  N = 3
  Orders <- MCOrders
  Earlier = {"absent", "started", "succeeded", "failed"}
CHECK_DEADLOCK FALSE
INVARIANTS
  IInv
  NoLockWhileWorking
  InOrderNoDeadlock
PROPERTIES
  EveryBatchEnds
