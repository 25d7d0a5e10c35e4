CONSTANTS
  i1 = i1
  i2 = i2
  Ingestions <- TwoIngestions
  Sources <- AllSources
  Contents <- AllContents
  Episodes <- MCEpisodes
  Rewrites <- FewContents
  Removable <- MCRemovable
  Policies <- AllPolicies
  Unknown = Unknown
  NoSource = NoSource
SPECIFICATION Spec
INVARIANTS TypeOK ContentMatchesHash StoredHasArtifact LogFollowsRecord RecordedWasAccepted AcceptedNotRefused IncompleteExplained EndsCleanly
PROPERTIES ImplementsDocumentStore
CHECK_DEADLOCK FALSE
