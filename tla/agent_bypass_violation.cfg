CONSTANTS
  r1 = r1  r2 = r2  p1 = p1  p2 = p2
  e1 = e1  e2 = e2  a1 = a1  a2 = a2
  Runs = {r1}
  Proposals = {p1}
  NoRun = NoRun
  NoProposal = NoProposal
  Executors = {e1}
  Deciders = {a1}
  Kinds = {"write"}
  MaxSteps = 1
  RowLocks = TRUE
  DecideEarly = TRUE
  ResumeBusy = TRUE
  MaxCrashes = 1
  MaxResumes = 1
SPECIFICATION Spec
CHECK_DEADLOCK FALSE
INVARIANT WritesStopAtApproval
