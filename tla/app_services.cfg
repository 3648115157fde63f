CONSTANTS
  c1 = c1  c2 = c2  q1 = q1  q2 = q2  m1 = m1  k1 = k1  k2 = k2  k3 = k3
  t1 = t1  t2 = t2  x1 = x1  x2 = x2  u1 = u1  u2 = u2
  Services = {"conversation", "feedback", "gate", "limit", "tags", "access", "sources"}
  Talks = {c1}
  Questions = {q1, q2}
  Findings <- FourFindings
  ContextTokens = 128
  ClientsLeave = TRUE
  Replies = {m1}
  Desks = {c1, c2}
  MaxVisits = 6
  Calls = {k1, k2, k3}
  HomeOf <- CallHomes
  Streamed = {}
  MaxConcurrency = 1
  RetryAttempts = 1
  RedisMayFail = TRUE
  MaxDeaths = 1
  Servers = {"s1", "s2"}
  Limit = 1
  MaxWindow = 2
  MaxHits = 5
  Tags = {t1, t2}
  Tagged = {x1, x2}
  NamedIn <- TagNames
  TagDesks = {c1, c2}
  MaxTagRequests = 4
  Users = {u1, u2}
  Requesters = {c1, c2}
  MaxAccess = 4
  Pages = {x1, x2}
  Checkers = {c1, c2}
  BatchSize = 2
  MaxChecks = 2
  MaxCheckDeaths = 1
SPECIFICATION MCSpec
CHECK_DEADLOCK FALSE
INVARIANTS AnswersAgree CitationsResolve LearnedFromReviewed QueueFollowsFeedback SlotsBounded QuotaKept 
PROPERTIES EveryAnswerSettles SlotsComeBack TagDecisionsStand OwnerGoesOnlyOvertaken ClaimsSettle
