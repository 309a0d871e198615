CONSTANTS
  v1 = v1
  v2 = v2
  Versions <- MCVersions
  NoVersion = NoVersion
  Asked <- MCAsked
  NoMinutes = NoMinutes
  DefaultMinutes = 2
  MinMinutes = 1
  MaxMinutes = 3
  ReplayWindow = 1
  SeenSlack = 1
  Aftermath = 1
  Ahead = 1
  MaxTime = 4
  MaxEvents = 3
SYMMETRY VersionSymmetry
SPECIFICATION Spec
INVARIANTS
  ReleasesInSequence
  AcceptedOnce
  NoticeInWindows
PROPERTIES
  LabelsOnlySharpen
  ImplementsNotice
CHECK_DEADLOCK FALSE
