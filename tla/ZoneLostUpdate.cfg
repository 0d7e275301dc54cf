\* Two API calls served at once, no membership events.
CONSTANTS
  Speaker = {s1, s2}
  ZoneId = {z1}
  Name <- MCName
  s1 = s1  s2 = s2  s3 = s3  z1 = z1  z2 = z2  n1 = n1  n2 = n2
  NoName = NoName
  NoSpeaker = NoSpeaker
  NoZone = NoZone
  MaxOps = 3
  MaxChurn = 0
  MaxInFlight = 2
  MaxRemove = 1
  CallerDiscipline = TRUE
  PartitionHeal = FALSE
  SaveCanFail = FALSE
SPECIFICATION Spec
CHECK_DEADLOCK FALSE
PROPERTY CatalogRefinement
