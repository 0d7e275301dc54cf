\* Two goroutines at once: a handler may overlap a call or another handler.
\* One call and two membership events: enough for a node to leave and
\* come back while the first handler is still running.
CONSTANTS
  Speaker <- MCSpeaker
  ZoneId <- MCZoneId
  Name <- MCName
  s1 = s1  s2 = s2  s3 = s3  z1 = z1  z2 = z2  n1 = n1  n2 = n2
  NoName = NoName
  NoSpeaker = NoSpeaker
  NoZone = NoZone
  MaxOps = 1
  MaxChurn = 2
  MaxInFlight = 2
  MaxRemove = 1
  CallerDiscipline = TRUE
  PartitionHeal = FALSE
  SaveCanFail = FALSE
SPECIFICATION Spec
INVARIANT ForwardingIsDepthOneForest
CHECK_DEADLOCK FALSE
