SPECIFICATION Spec
CONSTANTS
  r1 = r1  r2 = r2
  h1 = h1  h2 = h2
  j1 = j1  j2 = j2  j3 = j3
  RunIds <- MCRunIds
  Hashes <- MCHashes
  NoHash = NoHash
  Jobs = {j1, j2, j3}
  NoJob = NoJob
  Reconcilers = {}
  Requests <- AllRequests
  LambdaTimeout = 1
  MaxAge = 2
SYMMETRY JobSymmetry
PROPERTIES
  SucceededHashIsReplayed
