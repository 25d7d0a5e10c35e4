CONSTANTS
  e1 = e1
  e2 = e2
  j1 = j1
  j2 = j2
  NoJob = NoJob
  Engines <- OneEngine
  Jobs <- OneJob
  RecoverLimit = 1
  Outcomes <- PlainOutcomes
  StoreFaults = FALSE
SPECIFICATION FairSpec
PROPERTIES RecoveryAlwaysEnds
