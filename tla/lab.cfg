CONSTANTS
  MaxSessions = 1
  MaxDocuments = 2
  MaxUploads = 1
  Beat = 1
  Delay = 1
  Grace = 3
  Lifetime = 4
  Interval = 1
  MaxStarts = 2
  None = None
SPECIFICATION Spec
INVARIANTS TypeOK KeptAlive UploadsAttended ReportsMatchDocuments NothingLeftBehind
PROPERTIES RemovedWhileServed
