SPECIFICATION Spec
CONSTANTS
  r1 = r1
  r2 = r2
  t1 = t1
  t2 = t2
  t3 = t3
  d1 = d1
  d2 = d2
  d3 = d3
  n1 = n1
  n2 = n2
  n3 = n3
  f1 = f1
  f2 = f2
  p1 = p1
  p2 = p2
  list1 = list1
  list2 = list2
  list3 = list3
  list4 = list4
  list5 = list5
  statA = statA
  statB = statB
  statC = statC
  statD = statD
  cfsA = cfsA
  ofsA = ofsA
  cfsB = cfsB
  ofsB = ofsB
  cfsC = cfsC
  ofsC = ofsC
  cfsD = cfsD
  ofsD = ofsD
  news1 = news1
  news2 = news2
  news3 = news3
  twice1 = twice1
  daily = daily
  spare1 = spare1
  NoRow = NoRow
  Sweeper = Sweeper
  Runs = {r1, r2}
  Tickers = {t1, t2, t3}
  Registered = {t1, t2}
  CacheKeys = {list1, list2, list3, list4, list5, statA, statB, statC, statD, cfsA, ofsA, cfsB, ofsB, cfsC, ofsC, cfsD, ofsD, news1, news2, news3, twice1, daily, spare1}
  Keys = {d1, d2, d3, n1, n2, n3, f1, f2, p1, p2}
  Chunked = {d1, d2, d3, n1, n2, n3}
  Disclosed = {d1, d2, d3}
  Unfit <- MCUnfit
  PriceOf <- MCPriceOf
  Feed <- MCFeed
  Asks <- MCAsks
  Warm <- MCWarm
  Cleaned <- MCCleaned
  Stored <- MCStored
  MaxAttempts = 2
  MaxExpired = 1
INVARIANTS IInv StoredIsAnswered FailuresNeedARival OwnersHaveEvidence
CHECK_DEADLOCK FALSE
