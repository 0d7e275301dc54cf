\* Sequential, disciplined callers, no membership events; a zone may be
\* created without speakers and speakers added to it later.
CONSTANTS
  Speaker <- MCSpeaker
  ZoneId <- MCZoneId
  Name <- MCName
  s1 = s1  s2 = s2  s3 = s3  z1 = z1  z2 = z2  n1 = n1  n2 = n2
  NoName = NoName
  NoSpeaker = NoSpeaker
  NoZone = NoZone
  MaxOps = 2
  MaxChurn = 0
  MaxInFlight = 1
  MaxRemove = 1
  CallerDiscipline = TRUE
  PartitionHeal = FALSE
  SaveCanFail = FALSE
SPECIFICATION Spec
INVARIANT FreeSpeakersBroadcast
CHECK_DEADLOCK FALSE
