CONSTANTS
  d1 = d1  d2 = d2  c1 = c1  c2 = c2
  w1 = w1  w2 = w2  s1 = s1  s2 = s2
  Docs = {d1, d2}
  Workers <- OneWorker
  Background = Background
  NoWorker = NoWorker
  NoDoc = NoDoc
  Slots <- TwoSlots
  Owner <- PoolOwner
  Clients = {c1}
  ClientOps = {}
  MaxAttempts = 2
  RunsOutliveLease = FALSE
  Generations = {1, 2, 3}
  MaxCrashes = 2
  MaxRetries = 0
SPECIFICATION Spec
CHECK_DEADLOCK FALSE
INVARIANTS RunningIsOwned JobAndDocumentAgree
PROPERTY ImplementsLifecycle
