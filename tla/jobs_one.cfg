CONSTANTS
  e1 = e1
  e2 = e2
  j1 = j1
  j2 = j2
  NoJob = NoJob
  Engines <- OneEngine
  Jobs <- TwoJobs
  RecoverLimit = 2
  Outcomes <- AllOutcomes
  StoreFaults = FALSE
SPECIFICATION FairSpec
INVARIANTS TypeOK ResultConsistent CancelWins Attended RecordInv
PROPERTIES TerminalFinal ImplementsLifecycle JobSettles RecoveryEnds
