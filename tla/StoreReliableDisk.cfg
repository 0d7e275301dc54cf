\* Snapshot writes always succeed.
CONSTANTS
  Server <- MCServer
  Key <- MCKey
  Value <- MCValue
  m1 = m1  m2 = m2  k1 = k1  k2 = k2  v1 = v1
  Absent = Absent
  NoServer = NoServer
  Retain = 2
  Trailing = 0
  MaxLog = 3
  MaxCrash = 2
  PersistCanFail = FALSE
SPECIFICATION Spec
INVARIANT ReplicaMatchesLog
CHECK_DEADLOCK FALSE
