CONSTANTS
  e1 = e1
  e2 = e2
  j1 = j1
  j2 = j2
  NoJob = NoJob
  Engines <- TwoEngines
  Jobs <- OneJob
  RecoverLimit = 1
  Outcomes <- AllOutcomes
  StoreFaults = TRUE
SPECIFICATION Spec
SYMMETRY Symmetric
INVARIANT ResultInv
