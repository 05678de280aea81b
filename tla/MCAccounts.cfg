SPECIFICATION Spec
CONSTANTS
  r1 = r1
  r2 = r2
  r3 = r3
  t1 = t1
  t2 = t2
  t3 = t3
  v1 = v1
  v2 = v2
  NoValue = NoValue
  NoRow = NoRow
  Earlier = Earlier
  Requests = {r1, r2, r3}
  Tickers = {t1, t2, t3}
  Stocks = {t1, t2}
  Values = {v1, v2}
  Old = v1
  Listed = {t1}
  Loads <- MCLoads
INVARIANTS ErrorsNeedARival
PROPERTIES KeepsPromise EveryRequestEnds
CHECK_DEADLOCK FALSE
