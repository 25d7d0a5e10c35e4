CONSTANTS
  j1 = j1
  j2 = j2
  n1 = n1
  n2 = n2
  r1 = r1
  NoTask = NoTask
  CapabilityId = CapabilityId
  JobTasks <- TwoJobs
  CapabilityTasks <- Capabilities
  Nested <- NestedOf
  Slots = 2
  Timeouts = TRUE
SPECIFICATION Spec
INVARIANTS TimeoutIsTimedOut
CHECK_DEADLOCK FALSE
