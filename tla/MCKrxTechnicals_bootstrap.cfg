SPECIFICATION Spec
CONSTANTS
  j1 = j1
  j2 = j2
  j3 = j3
  Dates <- MCDates
  Tables <- MCTables
  Closes = {0, 1, 2}
  NoRow = NoRow
  Window = 2
  Jobs <- MCJobs
CHECK_DEADLOCK FALSE
PROPERTIES
  BootstrapRefreshes
