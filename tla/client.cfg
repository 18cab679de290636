CONSTANTS
  r1 = r1
  r2 = r2
  Requests <- MCRequests
  MaxRetries = 2
  Threshold = 2
  MaxFailures = 3
  MaxConfigs = 1
SPECIFICATION FairSpec
INVARIANTS
  TypeOK
  TokenIsCurrent
  DownTellsDispatch
PROPERTIES
  NothingSentWhileOpen
  Answers
