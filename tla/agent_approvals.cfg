CONSTANTS
  Runs = {r1}
  Proposals = {p1, p2}
  NoRun = NoRun
  NoProposal = NoProposal
  Executors = {e1, e2}
  Deciders = {a1, a2}
  Kinds = {"research", "write", "manual"}
  MaxSteps = 3
  RowLocks = TRUE
  DecideEarly = TRUE
  ResumeBusy = TRUE
  MaxCrashes = 2
  MaxResumes = 2
SPECIFICATION HistorySpec
CHECK_DEADLOCK FALSE
INVARIANTS ApprovalInv ProposalInv RetrievalsBounded WaitsForDecision WritesStopUnlessResumed
PROPERTIES ImplementsApproval CompletedUnlessDisturbed
