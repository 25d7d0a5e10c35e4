CONSTANTS
  None = None
  MaxFonts = 2
  MaxGlyphs = 4
  MaxImages = 2
  MaxOccurrences = 2
  MaxPaths = 3
  MaxCommands = 2
  MaxElements = 14
  Documents <- MCDocuments
  Requests <- MCRequests
SPECIFICATION Spec
INVARIANTS TypeOK OneCallAtATime NothingLostSilently OrderFollowsDrawing InspectionAgrees AnswerIsStored
PROPERTY RequestEnds
CHECK_DEADLOCK FALSE
