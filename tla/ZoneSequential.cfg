\* One goroutine at a time, callers group only free speakers, rejoining
\* nodes restart; two API calls, three membership events.
CONSTANTS
  Speaker <- MCSpeaker
  ZoneId <- MCZoneId
  Name <- MCName
  s1 = s1  s2 = s2  s3 = s3  z1 = z1  z2 = z2  n1 = n1  n2 = n2
  NoName = NoName
  NoSpeaker = NoSpeaker
  NoZone = NoZone
  MaxOps = 2
  MaxChurn = 3
  MaxInFlight = 1
  MaxRemove = 1
  CallerDiscipline = TRUE
  PartitionHeal = FALSE
  SaveCanFail = FALSE
SPECIFICATION Spec
INVARIANT TypeOK
INVARIANT ForwardingIsDepthOneForest
INVARIANT ZoneTopologyMatchesConfig
INVARIANT ForwardingMatchesConfig
CHECK_DEADLOCK FALSE
PROPERTY CatalogRefinement
