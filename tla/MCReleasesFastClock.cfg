CONSTANTS
  v1 = v1
  v2 = v2
  Versions <- MCVersions
  NoVersion = NoVersion
  Asked <- MCAsked
  NoMinutes = NoMinutes
  DefaultMinutes = 2
  MinMinutes = 1
  MaxMinutes = 3
  ReplayWindow = 2
  SeenSlack = 1
  Aftermath = 1
  Ahead = 2
  MaxTime = 6
  MaxEvents = 3
SYMMETRY VersionSymmetry
SPECIFICATION Spec
INVARIANT AcceptedOnce
CHECK_DEADLOCK FALSE
