SPECIFICATION Spec
CONSTANTS
  r1 = r1
  r2 = r2
  u1 = u1
  u2 = u2
  s1 = s1
  e1 = e1
  e2 = e2
  e3 = e3
  e4 = e4
  e5 = e5
  Calls = {r1, r2}
  Users = {u1, u2}
  Guest = Guest
  Named = {s1}
  NoSession = NoSession
  Nobody = Nobody
  Evidence = {e1, e2, e3, e4, e5}
  Inputs <- MCInputs
  Deployments <- MCDeployments
  Answers <- MCAnswers
  FewCitations = 2
  MaxCitations = 4
  MaxAttempts = 2
  MaxTurns = 2
INVARIANTS IInv SessionsArePrivate ShownAnswersAreGrounded CitationsAreEvidence
PROPERTIES KeepsPromise EveryRequestEnds
CHECK_DEADLOCK FALSE
