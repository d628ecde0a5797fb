SPECIFICATION MCSpec
CONSTANTS
  Installations = {i1}
  Beats = {b1, b2}
  Views = {v1}
  StaleAfter = 1
  OfflineAfter = 2
  MaxTime = 4
  MaxCredentials = 2
  NoBeat = NoBeat
  Ids = {c1, c2}
  Codes = {k1}
  Requests = {r1, r2}
  MaxRequests = 4
  NoCode = NoCode
  NoId = NoId
  Rows = {1, 2, 3}
  Owners = {o1}
  MinPageSize = 1
  DefaultPageSize = 2
  MaxPageSize = 2
  Asked = {0, 1, 3}
  ListTime = 2
  NoOwner = NoOwner
  Callers = {q1, q2, q3}
  Sites = {s1, s2}
  PoolSize = 2
  NoOne = NoOne
INVARIANTS TypesOK LatestWins AnswerVouched TrailReplays WalkExact StallTakesAll
PROPERTIES NothingForClosed
CHECK_DEADLOCK FALSE
