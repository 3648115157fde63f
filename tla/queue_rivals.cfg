CONSTANTS
  d1 = d1  d2 = d2  c1 = c1  c2 = c2
  w1 = w1  w2 = w2  s1 = s1  s2 = s2
  Docs = {d1}
  Workers <- TwoWorkers
  Background = Background
  NoWorker = NoWorker
  NoDoc = NoDoc
  Slots <- TwoSlots
  Owner <- RivalOwner
  Clients = {c1}
  ClientOps = {"archive", "retry"}
  MaxAttempts = 2
  RunsOutliveLease = FALSE
  Generations = {1, 2, 3}
  MaxCrashes = 1
  MaxRetries = 1
SPECIFICATION FairSpec
CHECK_DEADLOCK FALSE
INVARIANT IndexedHasChunks
PROPERTY EveryImportSettles
