CONSTANTS
  e1 = e1
  e2 = e2
  j1 = j1
  n1 = n1
  r1 = r1
  d1 = d1
  mine = mine
  public = public
  process = process
  own = own
  twin = twin
  pages = pages
  mupdf = mupdf
  other = other
  task = task
  NoTask = NoTask
  None = None
  CapabilityId = CapabilityId
  JobTasks <- OneJob
  CapabilityTasks <- TwoTasks
  Nested <- NestedOf
  Slots = 1
  Timeouts = TRUE
  Engines <- TwoEngines
  DirectCalls <- DirectOnly
  EngineOf <- Owner
  ProviderDescriptors <- BothOwners
  CapabilityDescriptors <- Known
  GivenProviders <- ProvidersOf
  GivenCapabilities <- CapabilitiesOf
  PublicProvider <- Public
  PublicCapabilities <- PublicOne
  PdfProviders <- BothPdf
  GivenPdf <- PdfOf
  PyMuPdf = mupdf
  Wanted <- AnyTask
SPECIFICATION FairEngine
INVARIANTS StoppedIsIdle EngineInv
PROPERTIES WorkEnds
CHECK_DEADLOCK FALSE
