\* Snapshot writes may fail; Persist still reports success.
CONSTANTS
  Server <- MCServer
  Key <- MCKey
  Value <- MCValue
  m1 = m1  m2 = m2  k1 = k1  k2 = k2  v1 = v1
  Absent = Absent
  NoServer = NoServer
  Retain = 2
  Trailing = 0
  MaxLog = 3
  MaxCrash = 2
  PersistCanFail = TRUE
SPECIFICATION Spec
PROPERTY ReplicasCatchUp
CHECK_DEADLOCK FALSE
