CONSTANTS
  r1 = r1  r2 = r2  p1 = p1  p2 = p2
  e1 = e1  e2 = e2  a1 = a1  a2 = a2
  Runs = {r1, r2}
  Proposals = {p1, p2}
  NoRun = NoRun
  NoProposal = NoProposal
  Executors = {e1, e2}
  Deciders = {a1, a2}
  Kinds = {"research", "write", "lookup", "manual"}
  MaxSteps = 2
  RowLocks = TRUE
  DecideEarly = FALSE
  ResumeBusy = FALSE
  MaxCrashes = 1
  MaxResumes = 2
SPECIFICATION FairSpec
CHECK_DEADLOCK FALSE
PROPERTY EveryRunSettles
