\* Sequential, disciplined callers.
CONSTANTS
  Speaker <- MCSpeaker
  ZoneId <- MCZoneId
  Name <- MCName
  s1 = s1  s2 = s2  s3 = s3  z1 = z1  z2 = z2  n1 = n1  n2 = n2
  NoName = NoName
  NoSpeaker = NoSpeaker
  NoZone = NoZone
  MaxOps = 3
  MaxChurn = 3
  MaxInFlight = 1
  MaxRemove = 1
  CallerDiscipline = TRUE
  PartitionHeal = FALSE
  SaveCanFail = FALSE
SPECIFICATION Spec
INVARIANT NoEmptyServiceName
CHECK_DEADLOCK FALSE
