SPECIFICATION Spec
CONSTANTS
  j1 = j1
  j2 = j2
  p1 = p1
  p2 = p2
  Tickers = {1, 2}
  Providers <- MCProviders
  Jobs <- MCJobs
  Seed = Seed
  NoRow = NoRow
  Inputs = {1, 2}
  Ingestions <- MCIngestions
  Requests <- MCRequests
SYMMETRY RefreshSymmetry
CHECK_DEADLOCK FALSE
INVARIANTS
  IInv
  RisksFollowReasons
  RefreshesDoNotDeadlock
  RefusalsNeedARival
PROPERTIES
  RefreshIsWhole
