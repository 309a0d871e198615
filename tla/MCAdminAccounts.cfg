SPECIFICATION Spec
CONSTANTS
  Names = {n1, n2}
  Bootstrap = TRUE
  Window = 1
  MaxFails = 2
  Lock = 1
  LinkTTL = 2
  SessionTTL = 2
  MaxId = 2
  MaxTime = 4
PROPERTY AttemptsGuarded
CHECK_DEADLOCK FALSE
